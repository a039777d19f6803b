---------------------------- MODULE MCRequestData ----------------------------
(***************************************************************************)
(* The shapes of parameter schemas that the bundled specification has, and *)
(* trees of values for them, sent in every style and by every way; and     *)
(* requests that no client should send.                                    *)
(***************************************************************************)
EXTENDS RequestData

A == <<"a">>  D == <<"d">>  E == <<"e">>  H == <<"h">>  M == <<"m">>
N == <<"n">>  X == <<"x">>  Y == <<"y">>  Z == <<"z">>

MCReads ==
    [boolean |-> "1" :> "true" @@ "true" :> "true",
     integer |-> "1" :> "1" @@ "01" :> "1" @@ "2" :> "2",
     number  |-> "1" :> "1" @@ "01" :> "1" @@ "2" :> "2" @@ "1.5" :> "1.5",
     string  |-> [t \in {"1", "01", "2", "1.5", "true", "auto", ""} |-> t]]

MCIndexOf == <<"0">> :> 0 @@ <<"1">> :> 1 @@ <<"01">> :> 1 @@ <<"2">> :> 2 @@ <<"3">> :> 3

MCRank == [k \in {A, D, E, H, M, N, X, Y, Z} |->
              CASE k = X -> 1 [] k = Y -> 2 [] k = Z -> 3 [] k = A -> 4 [] k = D -> 5
                [] k = E -> 6 [] k = H -> 7 [] k = M -> 8 [] k = N -> 9]

Plain(type) == [AnyObject EXCEPT !.type = type, !.closed = FALSE]
Enum == [Plain("string") EXCEPT !.enum = {"", "auto"}]
ObjectOf(properties) == [Plain("object") EXCEPT !.properties = properties]
ArrayOf(items) == [Plain("array") EXCEPT !.items = items]
HashOf(each) == [Plain("object") EXCEPT !.additional = each]
AnyOf(branches) == [Plain("") EXCEPT !.anyOf = branches]

Integer(t) == [kind |-> "integer", of |-> t]

Item == ObjectOf(X :> Plain("integer") @@ Y :> ArrayOf(Plain("string")))

MCSchema ==
    [ObjectOf(A :> ArrayOf(Item)
          @@ D :> Plain("array")
          @@ E :> AnyOf(<<ArrayOf(Plain("string")), Enum>>)
          @@ H :> HashOf(Plain("integer"))
          @@ M :> AnyOf(<<ObjectOf(X :> Plain("boolean") @@ Z :> Item), Enum>>)
          @@ N :> AnyOf(<<Enum, Plain("number"), ArrayOf(ArrayOf(Plain("integer")))>>))
     EXCEPT !.closed = TRUE]

MCParameters ==
    LET query(k) == [in |-> "query", name |-> k, required |-> FALSE,
                     schema |-> MCSchema.properties[k]]
    IN  <<query(A), query(D), query(E), query(H), query(M), query(N),
          [in |-> "query", name |-> X, schema |-> None, required |-> FALSE],
          [in |-> "path", name |-> Y, schema |-> Plain("string"), required |-> TRUE]>>

(* The response of a POST: of the parameters, only A cannot be found in it *)
(* by its type; M has an object within it; N may be an object as well.     *)
MCResponseSchema ==
    ObjectOf(A :> ArrayOf(Item)
          @@ D :> ArrayOf(Plain("integer"))
          @@ E :> AnyOf(<<Plain("boolean"), ArrayOf(Plain("string"))>>)
          @@ M :> ObjectOf(X :> Plain("boolean") @@ Z :> Item @@ Y :> Plain("string"))
          @@ H :> ObjectOf(X :> Plain("number") @@ Y :> Plain("string"))
          @@ N :> AnyOf(<<Plain("object"), Plain("number")>>)
          @@ Z :> Plain("string"))

MCFixture ==
    Map(A :> Array(<<>>) @@ D :> Array(<<>>) @@ E :> Array(<<>>)
     @@ M :> Map(X :> [kind |-> "boolean", of |-> "false"] @@ Y :> String("")
                    @@ Z :> Map(X :> Integer("2") @@ Y :> Nil))
     @@ H :> Map(X :> [kind |-> "number", of |-> "1.5"] @@ Y :> String("1"))
     @@ N :> [kind |-> "number", of |-> "2"] @@ Z :> String("1"))

(* POST /v1/charges with `customer` and with `expand[]=customer`: N is a   *)
(* field that has been expanded.                                           *)
HydratedBody == ObjectOf(X :> Plain("string") @@ N :> Plain("string"))
HydratedSchema ==
    ObjectOf(X :> Plain("string")
          @@ N :> AnyOf(<<Plain("string"), ObjectOf(X :> Plain("string"))>>))
HydratedFixture == Map(X :> String("1") @@ N :> Map(X :> String("2")))

----------------------------------------------------------------------------
Str == {String("1"), String("auto")}
Seqs(S, n) == UNION {[1..m -> S] : m \in 1..n}

Items == {Map(X :> Integer("1")),
          Map(X :> Integer("2") @@ Y :> Array(<<String("1"), String("auto")>>)),
          Map(Y :> Array(<<String("2")>>))}

Fields ==
       {Map(A :> Array(s)) : s \in Seqs(Items, 2)}
  \cup {Map(A :> Array(<<Map(X :> Integer("1")), Nil, Map(X :> Integer("1"))>>))}
  \cup {Map(D :> Array(s)) : s \in Seqs(Str, 2)}
  \cup {Map(E :> v) : v \in {Array(s) : s \in Seqs(Str, 2)} \cup {String("auto"), String("")}}
  \cup {Map(H :> Map(X :> Integer("1"))), Map(H :> Map(X :> Integer("1") @@ Y :> Integer("2")))}
  \cup {Map(M :> v) : v \in {String("auto"), Map(X :> [kind |-> "boolean", of |-> "true"]),
                             Map(Z :> Map(X :> Integer("1"))
                              @@ X :> [kind |-> "boolean", of |-> "true"])}}
  \cup {Map(N :> v) : v \in {String("auto"), [kind |-> "number", of |-> "1.5"],
                             Array(<<Array(<<Integer("1"), Integer("2")>>),
                                     Array(<<Integer("2")>>)>>)}}

Trees == Fields \cup {Map(f.entries @@ g.entries) :
                          f \in {Map(A :> Array(<<i>>)) : i \in Items},
                          g \in {Map(E :> Array(<<String("1"), String("auto")>>)), 
                                 Map(M :> String("auto"))}}

Sent(tree, style, way) ==
    LET form == Encode(<<>>, tree, style)
    IN  [method |-> IF way = "query" THEN "GET" ELSE "POST",
         multipart |-> way = "multipart", tree |-> tree, style |-> style,
         query |-> IF way = "query" THEN form ELSE <<>>,
         body |-> IF way = "query" THEN <<>> ELSE form]

Post(form) ==
    [method |-> "POST", multipart |-> FALSE, tree |-> Nil, style |-> "[]",
     query |-> <<>>, body |-> form]

Is(key, value) == [key |-> key, value |-> value, file |-> FALSE]

Key(name, bracket, last) ==
    name \o <<"[">> \o (IF bracket = "[]" THEN <<>> ELSE <<bracket>>) \o <<"]">> \o last

OddKeys ==
    {<<>>, <<"[", "]">>, <<"[", "x">>, <<"a", "]">>, <<"x", "[", "y">>, <<"x", "[", "[", "]">>,
     <<"x", "[", "y", "]", "z">>, <<"x", "[", "y", "]", "z", "[", "]">>, <<Undecodable>>}

OddForms ==
       {<<Is(k, "1"), Is(X, Absent)>> : k \in OddKeys}
  \cup {<<Is(E, "1"), Is(E, Undecodable)>>}
  \cup {<<Is(Key(E, i, <<>>), "1"), Is(Key(E, j, <<>>), "auto")>> :
            i \in {"0", "1", "3", "x"}, j \in {"0", "01", "2", "3", "[]"}}
  \cup {<<Is(k, "1"), Is(j, "2")>> : k, j \in {D, Key(D, "3", <<>>), Key(D, "[]", <<>>)}}
  \cup {<<Is(Key(A, i, <<"[", "x", "]">>), "1"), Is(Key(A, j, <<"[", "y", "]">>), "2")>> :
            i, j \in {"0", "[]", "3"}}
  \cup {<<Is(Key(H, "3", <<>>), "1"), Is(Key(H, "x", <<>>), "auto")>>}
  \cup {<<Is(Key(N, "0", <<"[", "3", "]">>), "1"), Is(Key(N, "1", <<"[", "x", "]">>), "1")>>}

MCRequest ==
       {Sent(t, s, w) : t \in Trees, s \in {"[]", "[0]"}, w \in {"query", "body", "multipart"}}
  \cup {Post(f) : f \in OddForms}
  \cup {[Post(f) EXCEPT !.multipart = TRUE] :
            f \in {g \in OddForms : \A i \in DOMAIN g : g[i].value # Absent /\ Decodes(g)}}
  \cup {[Post(Malformed) EXCEPT !.multipart = TRUE],
        [Post(<<Is(E, "1")>>) EXCEPT !.method = "GET", !.query = <<Is(X, Undecodable)>>],
        [Post(<<Is(E, "1"), [key |-> E, value |-> "auto", file |-> TRUE]>>)
            EXCEPT !.multipart = TRUE, !.method = "GET", !.query = <<Is(E, "")>>]}

HydratedRequest ==
    {Post(f) : f \in {<<Is(X, "1")>>, <<Is(N, "auto")>>, <<Is(X, "2"), Is(N, "auto")>>}}
=============================================================================
