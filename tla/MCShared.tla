------------------------------- MODULE MCShared -------------------------------
(***************************************************************************)
(* A fixture that generateInternal hands out by reference, as the bundled  *)
(* one of billing.alert does: usage_threshold.meter is expandable, and its *)
(* fixture is a whole object, with the alert's own ID "obj_1" inside       *)
(* (usage_threshold itself is nullable, an anyOf of one $ref).             *)
(***************************************************************************)
EXTENDS ResponseGeneration, TLC

MCMap == {"alert", "threshold", "meter", "billing.meter"}
MCKey == {"id", "threshold", "meter"}
MCName == MCKey \cup {"alert"}
MCText == {"", "obj_1", "mtr_1", "alrt_A", "alrt_new", "mtr_B"}

NoKinds == [k \in MCKey |-> "none"]
NoValues == [k \in MCKey |-> "none"]
Meter == [NoKinds EXCEPT !["id"] = "string"]

MCKind ==
    ("alert" :> [NoKinds EXCEPT !["id"] = "string", !["threshold"] = "wrapped"]) @@
    ("threshold" :> [NoKinds EXCEPT !["meter"] = "expandable"]) @@
    ("meter" :> Meter) @@ ("billing.meter" :> Meter)

MCTarget == [m \in MCMap |-> [k \in MCKey |-> "billing.meter"]]

MCFixture ==
    ("alert" :> [NoValues EXCEPT !["id"] = "obj_1", !["threshold"] = "threshold"]) @@
    ("threshold" :> [NoValues EXCEPT !["meter"] = "meter"]) @@
    ("meter" :> [NoValues EXCEPT !["id"] = "obj_1"]) @@
    ("billing.meter" :> [NoValues EXCEPT !["id"] = "mtr_1"])

MCObjectName == [m \in MCMap |-> IF m = "alert" THEN "alert" ELSE "meter"]

(* GET /v1/billing/alerts/alrt_A, with and without                          *)
(* expand[]=usage_threshold.meter, and POST /v1/billing/alerts that sends   *)
(* usage_threshold[meter], once as an ID and once as a map.                 *)
Get == [root |-> "alert", method |-> "GET", expand |-> {}, primary |-> "alrt_A",
        secondary |-> <<>>, data |-> [f \in {} |-> ""]]

Create == [Get EXCEPT !.method = "POST", !.primary = "none",
             !.data = (<<"alert", "threshold">> :> "nested") @@
                      (<<"threshold", "meter">> :> "mtr_B")]

Hydrated == [Create EXCEPT !.data = (<<"alert", "threshold">> :> "nested") @@
                                    (<<"threshold", "meter">> :> "nested") @@
                                    (<<"meter", "id">> :> "mtr_B")]

MCRequest == {Get, [Get EXCEPT !.expand = {<<"threshold", "meter">>}], Create, Hydrated}
=============================================================================
