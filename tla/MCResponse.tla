------------------------------ MODULE MCResponse ------------------------------
(***************************************************************************)
(* Fixtures whose objects all lie under schemas with Properties, as most   *)
(* of the bundled ones do: a refund that names its charge, a charge that   *)
(* names its refund's ID in turn and another charge, which is null, the    *)
(* list of a charge's refunds, and a binary receipt.                       *)
(***************************************************************************)
EXTENDS ResponseGeneration, TLC

(* Handlers differ only by what they serve, and the run checks no liveness. *)
Symmetry == Permutations(Handler)

MCMap == {"refund", "charge", "details", "refunds", "receipt"}
MCKey == {"id", "charge", "details", "data"}
MCName == MCKey \cup {"refund", "list", "receipt"}
MCText == {"re_1", "ch_1", "", "re_A", "ch_A", "ch_B", "re_new"}

NoKinds == [k \in MCKey |-> "none"]
NoValues == [k \in MCKey |-> "none"]

MCKind ==
    [refund  |-> [NoKinds EXCEPT !["id"] = "string", !["charge"] = "expandable"],
     charge  |-> [NoKinds EXCEPT !["id"] = "string", !["details"] = "object"],
     details |-> [NoKinds EXCEPT !["id"] = "string", !["charge"] = "string"],
     refunds |-> [NoKinds EXCEPT !["data"] = "list"],
     receipt |-> NoKinds]

MCTarget == [m \in MCMap |-> [k \in MCKey |-> IF m = "refunds" THEN "refund" ELSE "charge"]]

MCFixture ==
    [refund  |-> [NoValues EXCEPT !["id"] = "re_1", !["charge"] = "ch_1"],
     charge  |-> [NoValues EXCEPT !["id"] = "ch_1", !["details"] = "details"],
     details |-> [NoValues EXCEPT !["id"] = "re_1", !["charge"] = "null"],
     refunds |-> NoValues,
     receipt |-> NoValues]

MCObjectName ==
    [refund |-> "refund", charge |-> "charge", details |-> "data", refunds |-> "list",
     receipt |-> "receipt"]

NoData == [f \in {} |-> ""]

(* GET /v1/charges/ch_A/refunds/re_A, with and without expand[]=charge, a   *)
(* list under two path parameters with expand[]=data.charge, the list of    *)
(* all refunds, and POST /v1/refunds that sends another charge.             *)
Get == [root |-> "refund", method |-> "GET", expand |-> {}, primary |-> "re_A",
        secondary |-> <<[name |-> "charge", id |-> "ch_A"]>>, data |-> NoData]

List == [root |-> "refunds", method |-> "GET", expand |-> {<<"refund", "charge">>},
         primary |-> "none", data |-> NoData,
         secondary |-> <<[name |-> "charge", id |-> "ch_A"],
                         [name |-> "refund", id |-> "re_A"]>>]

Create == [root |-> "refund", method |-> "POST", expand |-> {<<"refund", "charge">>},
           primary |-> "none", secondary |-> <<>>,
           data |-> [f \in {<<"refund", "charge">>} |-> "ch_B"]]

(* POST /v1/charges/ch_A with details[charge]=ch_B, which is null so far. *)
Update == [root |-> "charge", method |-> "POST", expand |-> {}, primary |-> "ch_A",
           secondary |-> <<>>,
           data |-> [f \in {<<"charge", "details">>, <<"details", "charge">>} |->
                       IF f[2] = "details" THEN "nested" ELSE "ch_B"]]

(* GET /v1/charges/ch_A/receipt, which is binary as /v1/quotes/{quote}/pdf is. *)
Download == [Get EXCEPT !.root = "receipt", !.primary = "none"]

MCRequest ==
    {Get, [Get EXCEPT !.expand = {<<"refund", "charge">>}], List,
     [List EXCEPT !.secondary = <<>>], Create, Update, Download}

(* The proof of ReplacedIDsGone for all instances supposes this of them.   *)
ASSUME ResponsesAreTrees /\ IDsAreFresh
=============================================================================
