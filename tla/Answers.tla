-------------------------------- MODULE Answers --------------------------------
(***************************************************************************)
(* What there is to answer to a request, as a function of nothing but the  *)
(* request, the options and the specification: a request has a set of      *)
(* objections, the first of which is the answer.                           *)
(***************************************************************************)
EXTENDS Requests

(* Pairs of slashes are taken out of a path from left to right.            *)
Slashes(p) ==
    LET after[i \in 0..Len(p)] ==
            IF i = 0 THEN [kept |-> <<>>, odd |-> FALSE]
            ELSE IF p[i] = Empty /\ i < Len(p) /\ ~after[i - 1].odd
            THEN [kept |-> after[i - 1].kept, odd |-> TRUE]
            ELSE [kept |-> Append(after[i - 1].kept, p[i]), odd |-> FALSE]
    IN  after[Len(p)].kept

(* The paths that q may be routed to, or None.                             *)
Routes(q) ==
    LET fittest == Fittest(q.method, Slashes(q.path))
    IN  IF fittest = {} THEN {None} ELSE fittest

(* The objections there may be to a request, the gravest first; the fatal  *)
(* ones are those that the code has no answer for.                         *)
Rank ==
    [unauthorized |-> 1, version    |-> 2,  unrecognized |-> 3,  unparsable |-> 4,
     noResponse   |-> 5, noContent  |-> 6,  params       |-> 7,  noBody     |-> 8,
     noType       |-> 9, otherType  |-> 10, noSchema     |-> 11, coercion   |-> 12,
     validation   |-> 13, untyped   |-> 14]
Fatal == {"noBody", "noSchema", "untyped"}

(* Those to q, if route (or None) is its path and media the media type of  *)
(* its body.                                                               *)
Objections(o, q, route, media) ==
    LET op == <<q.method, route>>
        known == route # None
        typed == known /\ q.method \notin {"GET", "DELETE"}
        schema == known /\ media \in DOMAIN Body[op]
        ids == {Slashes(q.path)[i] : i \in {j \in DOMAIN route : route[j] \in Param}}
        raised == [unauthorized |-> ~ValidateAuth(q.auth),
                   version      |-> OtherVersion(o, q),
                   unrecognized |-> ~known,
                   unparsable   |-> known /\ \E id \in ids : Unescaped[id] = Invalid,
                   noResponse   |-> known /\ Response[op] = {None},
                   noContent    |-> known /\ ContentOf(op) = None,
                   params       |-> q.data \in Unparsable,
                   noBody       |-> typed /\ media = None,
                   noType       |-> typed /\ q.type = None,
                   otherType    |-> typed /\ q.type # media,
                   noSchema     |-> ~schema,
                   coercion     |-> schema /\ q.data \notin Coercible[Body[op][media]],
                   validation   |-> schema /\ q.data \notin Valid[Body[op][media]],
                   untyped      |-> q.data \in Untyped]
    IN  {v \in DOMAIN raised : raised[v]}

(* The headers that a response with verdict v has.                         *)
HeadersOf(q, route, v) ==
    IF v \in {"unauthorized", "version"} THEN Blank
    ELSE IF v \in {"unrecognized", "unparsable", "noResponse", "noContent"} THEN SetHeaders(q)
    ELSE [SetHeaders(q) EXCEPT !.type = ContentOf(<<q.method, route>>)]

Closed == [verdict |-> "closed"]

(* What may become of q on a given route.                                  *)
Ends(o, q, route, media) ==
    LET objections == Objections(o, q, route, media)
        first == CHOOSE v \in objections : \A w \in objections : Rank[v] <= Rank[w]
        end(v) == Reply(v, HeadersOf(q, route, v), route)
    IN  IF objections = {}
        THEN {CASE outcome = "ok" -> end("ok")
                [] outcome = "error" -> end("generation")
                [] outcome = "panic" -> Closed
                [] outcome = "unserializable" ->
                      IF o.verbose THEN Closed ELSE end("serialization") :
                 outcome \in Outcome[route][q.data]}
        ELSE IF first \in Fatal THEN {Closed}
        ELSE {Reply(first, HeadersOf(q, route, first),
                    IF Rank[first] <= Rank.unparsable THEN None ELSE route)}

(* What there is to answer to q by a server with options o.                *)
Answers == [o \in Option |-> [q \in Query |->
    IF \E i \in 1..(Len(Slashes(q.path)) - 1) : Slashes(q.path)[i] = Empty
    THEN {Moved}
    ELSE UNION {LET media == IF r = None THEN {None} ELSE RequestMediaTypes(<<q.method, r>>)
                IN  UNION {Ends(o, q, r, b) : b \in media} : r \in Routes(q)}]]
=============================================================================
