---------------------------- MODULE MCExpansions ----------------------------
(***************************************************************************)
(* Parts of the schemas of charges, customers, refunds and payment method  *)
(* configurations, with each of the forms that expandable fields have in   *)
(* the bundled specification.  As in one given with -spec and -fixtures, a *)
(* reader has no fixture, a session is not defined, and the fixtures of    *)
(* some lists are null.                                                    *)
(***************************************************************************)
EXTENDS Expansions

Schema == [ref |-> None, type |-> "", shape |-> "plain", nullable |-> FALSE, enum |-> <<>>,
        anyOf |-> <<>>, properties |-> None, required |-> {}, items |-> None,
        resource |-> None, expandable |-> None, oneOf |-> None, anchored |-> FALSE, default |-> Nil]

Text == [Schema EXCEPT !.type = "string", !.default = String("")]
Ref(d) == [Schema EXCEPT !.ref = d]
Object(properties, required, expandable) ==
    [Schema EXCEPT !.type = "object", !.properties = properties, !.required = required,
                !.expandable = expandable]
Resource(name, properties, required, expandable) ==
    [Object(properties, required, expandable) EXCEPT !.resource = name]
Nullable(s) == [s EXCEPT !.nullable = TRUE]
Only(s) == [Schema EXCEPT !.anyOf = <<s>>]
ExpandableTo(d) == [Schema EXCEPT !.anyOf = <<Text, Ref(d)>>, !.oneOf = Ref(d)]
ListOf(d) == [Schema EXCEPT !.type = "object", !.shape = "list", !.items = Ref(d),
                         !.properties = "data" :> [Schema EXCEPT !.type = "array"]
                                            @@ "url" :> Text,
                         !.required = {"data", "url"}, !.expandable = <<"data">>]
Anchored(s) == [s EXCEPT !.properties["url"].anchored = TRUE]

MCDefinitions == [
    charge |-> Resource("charge",
        "id" :> Text @@ "customer" :> Nullable(ExpandableTo("customer"))
            @@ "outcome" :> Ref("outcome") @@ "refunds" :> ListOf("refund")
            @@ "review" :> ExpandableTo("review") @@ "shipping" :> Nullable(Only(Ref("shipping"))),
        {"id"}, <<"customer", "outcome", "refunds", "review", "shipping">>),
    customer |-> Resource("customer",
        "id" :> Text @@ "address" :> Nullable(Only(Ref("address")))
            @@ "source" :> Nullable(ExpandableTo("card")) @@ "shipping" :> Only(Text)
            @@ "refunds" :> Anchored(ListOf("refund")),
        {"id", "address"}, <<"address", "refunds", "source">>),
    deleted_customer |-> Resource("deleted_customer",
        "id" :> Text @@ "deleted" :> [Text EXCEPT !.enum = <<String("true")>>], {"id"}, None),
    refund |-> Resource("refund",
        "id" :> Text @@ "charge" :> Nullable(ExpandableTo("charge"))
            @@ "transfer" :> Nullable(ExpandableTo("transfer")),
        {"id"}, <<"charge", "transfer">>),
    transfer |-> Resource("transfer", "id" :> Text @@ "refunds" :> ListOf("refund"),
                          {"id"}, <<"refunds">>),
    review |-> Resource("review",
        "id" :> Text @@ "reader" :> ExpandableTo("reader") @@ "session" :> ExpandableTo("session"),
        {"id"}, <<"reader", "session">>),
    reader |-> Resource("reader", "id" :> Text, {"id"}, <<>>),
    card |-> Resource("card", "id" :> Text @@ "customer" :> ExpandableTo("customer"),
                      {"id"}, <<"customer">>),
    outcome |-> Object("rule" :> ExpandableTo("card") @@ "type" :> Text, {"type"}, <<"rule">>),
    shipping |-> Object("address" :> Nullable(Only(Ref("address"))) @@ "carrier" :> Text
                            @@ "items" :> [Schema EXCEPT !.type = "array"],
                        {"address", "carrier", "items"}, <<"address">>),
    address |-> Object("city" :> Nullable(Text) @@ "kind" :>
                           [Text EXCEPT !.enum = <<String("home")>>], {"city", "kind"}, <<>>),
    config |-> Resource("config", "id" :> Text @@ "alma" :> Ref("method") @@ "card" :> Ref("method"),
                        {"id"}, <<"alma", "card">>),
    method |-> Object("available" :> Text @@ "preference" :> Ref("preference"),
                      {"available", "preference"}, <<"preference">>),
    preference |-> Object("value" :> Text, {"value"}, <<>>)]

Fixtures(name, entries) == name :> Map(entries)

MCFixture ==
       Fixtures("charge", "id" :> String("ch_1") @@ "customer" :> Nil @@ "shipping" :> Nil
            @@ "outcome" :> Map("rule" :> String("card_1") @@ "type" :> String("ok"))
            @@ "refunds" :> Map("url" :> String("/refunds")))
    @@ Fixtures("customer", "id" :> String("cus_1") @@ "address" :> Nil
            @@ "source" :> String("card_1") @@ "shipping" :> String("post")
            @@ "refunds" :> Nil)
    @@ Fixtures("deleted_customer", "id" :> String("cus_1") @@ "deleted" :> String("true"))
    @@ Fixtures("refund", "id" :> String("re_1") @@ "charge" :> String("ch_1"))
    @@ Fixtures("transfer", "id" :> String("tr_1") @@ "refunds" :> Nil)
    @@ Fixtures("review", "id" :> String("prv_1") @@ "reader" :> String("tmr_1"))
    @@ Fixtures("card", "id" :> String("card_1") @@ "customer" :> Nil)
    @@ Fixtures("config", "id" :> String("pmc_1")
            @@ "card" :> Map("available" :> String("1") @@
                             "preference" :> Map("value" :> String("on"))))

Names == <<"*", "address", "alma", "card", "charge", "customer", "data", "id", "outcome",
           "preference", "reader", "refunds", "review", "rule", "session", "shipping", "source",
           "transfer", "zz">>

MCName == ToSet(Names)

MCRank == [n \in ToSet(Names) |-> CHOOSE i \in DOMAIN Names : Names[i] = n]

MCRoot ==
    {Ref("charge"), ListOf("charge"), [ListOf("customer") EXCEPT !.shape = "search"],
     [Schema EXCEPT !.anyOf = <<Ref("deleted_customer"), Ref("customer")>>],
     [Text EXCEPT !.shape = "binary"]}

Paths ==
    {<<"*">>, <<"customer">>, <<"customer", "*">>, <<"customer", "address">>,
     <<"customer", "source", "customer">>, <<"outcome">>, <<"outcome", "rule">>, <<"outcome", "*">>,
     <<"review">>, <<"review", "customer">>, <<"review", "reader">>, <<"review", "session">>,
     <<"shipping">>, <<"shipping", "address">>, <<"customer", "refunds">>,
     <<"refunds">>, <<"refunds", "*">>, <<"refunds", "data", "charge", "customer">>,
     <<"refunds", "data", "transfer">>,
     <<"data">>, <<"data", "customer">>, <<"data", "source">>, <<"data", "*">>, <<"source">>,
     <<"id">>, <<"zz">>, <<"*", "id">>}

(* The second of a pair is one of these, or the first.                     *)
Seconds ==
    {<<"*">>, <<"customer">>, <<"customer", "source", "customer">>, <<"outcome", "rule">>,
     <<"data", "source">>, <<"zz">>}

MCExpand ==
       {None, Map(<<>>), Array(<<Map(<<>>)>>), Array(<<>>)}
  \cup {String(p) : p \in Paths}
  \cup {Array(<<String(p), String(q)>>) : p \in Paths, q \in Seconds}
  \cup {Array(<<String(q), String(p)>>) : p \in Paths, q \in Seconds}

ConfigRoot == {Ref("config")}

ConfigExpand ==
    {None} \cup {Array(<<String(p)>>) : p \in {<<"card">>, <<"alma">>, <<"card", "preference">>}}
=============================================================================
