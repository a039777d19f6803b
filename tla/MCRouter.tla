------------------------------- MODULE MCRouter -------------------------------
(***************************************************************************)
(* A few paths of the bundled specification, and one more of the kind that *)
(* a user's own (-spec) may have: `/charges/latest/{list}` is as static as *)
(* `/charges/{charge}/refunds`, and /charges/latest/refunds matches both.  *)
(***************************************************************************)
EXTENDS Router

Charges == <<"charges">>
Search  == <<"charges", "search">>
Charge  == <<"charges", "{charge}">>
Capture == <<"charges", "{charge}", "capture">>
Refunds == <<"charges", "{charge}", "refunds">>
Refund  == <<"charges", "{charge}", "refunds", "{refund}">>
Latest  == <<"charges", "latest", "{list}">>

MCPath == {Charges, Search, Charge, Capture, Refunds, Refund, Latest}

MCOperations ==
    [p \in MCPath |-> CASE p = Capture -> {"post"}
                        [] p \in {Charges, Charge} -> {"get", "post"}
                        [] OTHER -> {"get"}]

MCUpper == [v \in {"get", "post"} |-> IF v = "get" THEN "GET" ELSE "POST"]

MCText == {"charges", "search", "capture", "refunds", "latest", "ch_1", "a+b", "%0", ""}

MCUnescaped == [t \in MCText |-> CASE t = "a+b" -> "a b" [] t = "%0" -> "invalid"
                                   [] OTHER -> t]

Get(path) == [method |-> "GET", path |-> path]
Post(path) == [method |-> "POST", path |-> path]

MCQuery ==
    {Get(<<"charges", "search">>), Get(<<"", "charges", "", "search">>),
     Get(<<"charges", "", "", "search">>), Get(<<"charges", "%0">>),
     Get(<<"charges", "latest", "refunds">>), Get(<<"charges", "ch_1", "refunds", "a+b">>),
     Post(<<"charges", "ch_1", "capture">>), [method |-> "get", path |-> <<"charges">>]}
=============================================================================
