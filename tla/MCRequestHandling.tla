--------------------------- MODULE MCRequestHandling ---------------------------
(***************************************************************************)
(* The PDF of a quote as in the bundled specification, and operations as a *)
(* user's own (-spec) may have them: `/files/{file}` takes bodies of two   *)
(* types, `/quotes/{quote}/{line}` none, `/charges/{charge}` has no known  *)
(* response for GET, and `/events` none at all.  GET /charges/search       *)
(* matches two paths, and two have the same rank.                          *)
(***************************************************************************)
EXTENDS RequestHandling, TLC

Charges == <<"charges">>
Search  == <<"charges", "search">>
Charge  == <<"charges", "{charge}">>
PDF     == <<"quotes", "{quote}", "pdf">>
Line    == <<"quotes", "{quote}", "{line}">>
File    == <<"files", "{file}">>
Events  == <<"events">>

MCPath == {Charges, Search, Charge, PDF, Line, File, Events}

MCOperations ==
    [p \in MCPath |-> CASE p \in {Charges, Line, File} -> {"post"} [] p = Events -> {"delete"}
                        [] p = Charge -> {"get", "delete"} [] OTHER -> {"get"}]

MCMethod == {"GET", "POST", "DELETE"}
MCUpper == [v \in {"get", "post", "delete"} |->
              CASE v = "get" -> "GET" [] v = "post" -> "POST" [] v = "delete" -> "DELETE"]

MCText == {"charges", "search", "quotes", "pdf", "files", "events", "x", "%0", ""}
MCUnescaped == [t \in MCText |-> IF t = "%0" THEN "invalid" ELSE t]

MCResponse ==
    [op \in MCMethod \X MCPath |->
        CASE op[2] = PDF -> {"pdf"} [] op[2] = Events -> {None} [] op = <<"GET", Charge>> -> {}
          [] OTHER -> {"json", "pdf"}]

MCBody ==
    [op \in MCMethod \X MCPath |->
        CASE op[1] = "GET" -> None :> "query"
          [] op[2] = File -> "form" :> "charge" @@ "multipart" :> "file"
          [] op[2] = Line -> <<>>
          [] OTHER -> "form" :> "charge"]

Data == {"none", "unparsable", "huge", "wrong", "amount", "nan", "expandMap", "expandTwo"}

MCCoercible == [s \in {"query", "charge", "file"} |-> Data \ {"huge"}]
MCValid == [s \in {"query", "charge", "file"} |->
              CASE s = "query" -> Data \ {"wrong", "amount"} [] s = "charge" -> Data \ {"wrong"}
                [] s = "file" -> Data \ {"wrong", "amount"}]

(* Two expansions may fail in different ways, whichever comes first.       *)
MCOutcome ==
    [p \in MCPath |-> [d \in Data |-> CASE d = "nan" -> {"unserializable"}
                                        [] d = "expandTwo" /\ p = Charges -> {"error", "panic"}
                                        [] OTHER -> {"ok"}]]

Key == <<"Bearer", <<"sk", "test", "123">>>>

Ask(method, path, data) ==
    [method |-> method, path |-> path, data |-> data, auth |-> Key,
     version |-> None, key |-> None, type |-> IF method = "POST" THEN "form" ELSE None]

MCQuery ==
    {[Ask("GET", Search, "none") EXCEPT !.auth = <<"Basic", <<"sk", "live", "123">>>>, !.key = "k"],
     [Ask("POST", <<"", "charges">>, "amount") EXCEPT !.version = "old", !.key = "k"],
     [Ask("POST", <<"charges", "", "", "x">>, "none") EXCEPT !.auth = <<>>],
     Ask("GET", Search, "none"), Ask("GET", Charges, "none"),
     Ask("GET", <<"charges", "%0">>, "none"), Ask("GET", <<"charges", "x">>, "none"),
     Ask("GET", <<"quotes", "x", "pdf">>, "unparsable"),
     Ask("GET", <<"quotes", "x", "pdf">>, "expandMap"), Ask("DELETE", Events, "wrong"),
     Ask("POST", <<"files", "x">>, "amount"),
     [Ask("POST", <<"files", "x">>, "huge") EXCEPT !.type = "multipart"],
     [Ask("POST", Charges, "wrong") EXCEPT !.type = None, !.key = "k"],
     [Ask("POST", Charges, "nan") EXCEPT !.version = "new"],
     Ask("POST", Charges, "expandTwo"), Ask("POST", <<"quotes", "x", "x">>, "none"),
     Ask("DELETE", <<"charges", "x">>, "none")}

MCSends ==
    [c \in {"first", "second"} |->
        IF c = "first" THEN MCQuery
        ELSE {Ask("GET", Search, "none"), Ask("POST", <<"files", "x">>, "amount"),
              Ask("POST", Charges, "expandTwo")}]

MCOption == {[strict |-> TRUE, verbose |-> FALSE], [strict |-> FALSE, verbose |-> TRUE]}
=============================================================================
