------------------------- MODULE RequestHandlingProofs -------------------------
(***************************************************************************)
(* Proofs about RequestHandling: for any specification, options, requests, *)
(* outcomes of the parts that have models of their own, and any number of  *)
(* clients, the client is told one of the answers that there are.  First   *)
(* the lemmas about those answers: that what Slashes takes out of a path   *)
(* is what FixedPath does, and which objection is the first.               *)
(***************************************************************************)
EXTENDS RequestHandling, Answers, PathsProofs

----------------------------------------------------------------------------
(* Doubled slashes, once more.                                             *)

(* In a run of slashes every other one is dropped.                         *)
LEMMA EveryOther ==
    ASSUME NEW p \in Seq(Text), NEW i \in DOMAIN p
    PROVE  Dropped(p, i) <=> /\ p[i] = Empty /\ i < Len(p)
                             /\ ~(i > 1 /\ Dropped(p, i - 1))
<1> SUFFICES ASSUME p[i] = Empty, i < Len(p)
             PROVE  Dropped(p, i) <=> ~(i > 1 /\ Dropped(p, i - 1))
  BY DEF Dropped
<1>1. i \in 1..Len(p) /\ i \in Int /\ Len(p) \in Nat
  OBVIOUS
<1> DEFINE Run(s, k) == /\ s \in 1..k /\ \A j \in s..k : p[j] = Empty
                        /\ s > 1 => p[s - 1] # Empty
<1>2. PICK s \in 1..i : Run(s, i)
  <2> DEFINE S == {k \in 1..i : \A j \in k..i : p[j] = Empty}
  <2>1. S \subseteq Nat /\ i \in S
    BY <1>1
  <2>2. PICK k \in S : \A l \in S : k <= l
    <3> HIDE DEF S
    <3> QED BY <2>1, Least
  <2>3. ASSUME k > 1, p[k - 1] = Empty PROVE FALSE
    <3>1. k - 1 \in 1..i /\ \A j \in (k - 1)..i : j = k - 1 \/ j \in k..i
      BY <1>1, <2>2, <2>3
    <3>2. k - 1 \in S
      BY <2>2, <2>3, <3>1
    <3> QED BY <2>1, <2>2, <3>2
  <2> QED BY <2>2, <2>3
<1>3. ASSUME NEW k \in {i - 1, i}, k >= 1, NEW t \in 1..k, NEW u \in 1..k, Run(t, k), Run(u, k)
      PROVE  t = u
  <2>1. \A a, b \in 1..k : Run(a, k) /\ Run(b, k) => ~(a < b)
    <3> SUFFICES ASSUME NEW a \in 1..k, NEW b \in 1..k, Run(a, k), Run(b, k), a < b
                 PROVE  FALSE
      OBVIOUS
    <3>1. b - 1 \in a..k /\ b > 1
      BY <1>1, <1>3
    <3> QED BY <3>1
  <2> HIDE DEF Run
  <2> QED BY <1>1, <1>3, <2>1
<1>4. Dropped(p, i) <=> (i - s) % 2 = 0
  <2>1. Dropped(p, i) <=> \E t \in 1..i : Run(t, i) /\ (i - t) % 2 = 0
    BY <1>1 DEF Dropped
  <2> HIDE DEF Run
  <2> QED BY <1>1, <1>2, <1>3, <2>1
<1>5. CASE i = 1 \/ s = i
  <2>1. (i - s) % 2 = 0
    BY <1>1, <1>2, <1>5
  <2>2. i > 1 => ~Dropped(p, i - 1)
    BY <1>1, <1>2, <1>5 DEF Dropped
  <2> QED BY <1>4, <2>1, <2>2
<1>6. CASE i > 1 /\ s # i
  <2>1. s \in 1..(i - 1) /\ Run(s, i - 1) /\ p[i - 1] = Empty /\ i - 1 < Len(p)
    BY <1>1, <1>2, <1>6
  <2>2. Dropped(p, i - 1) <=> \E t \in 1..(i - 1) : Run(t, i - 1) /\ ((i - 1) - t) % 2 = 0
    BY <1>1, <2>1 DEF Dropped
  <2>3. Dropped(p, i - 1) <=> ((i - 1) - s) % 2 = 0
    <3> HIDE DEF Run
    <3> QED BY <1>1, <1>3, <1>6, <2>1, <2>2
  <2>4. (i - s) % 2 = 0 <=> ~(((i - 1) - s) % 2 = 0)
    <3> HIDE DEF Run
    <3> QED BY <1>1, <2>1
  <2> QED BY <1>4, <1>6, <2>3, <2>4
<1> QED BY <1>1, <1>5, <1>6

(* Slashes goes through a path from left to right; what it has kept after  *)
(* i segments is what FixedPath keeps of them.  Its function exists, since *)
(* that one is its solution, and there is no other by induction.           *)
LEMMA SlashesAsFixed ==
    ASSUME NEW p \in Seq(Text)
    PROVE  Slashes(p) = FixedPath(p)
<1> DEFINE N == Len(p)
           K(i) == {j \in 1..i : ~Dropped(p, j)}
           e(f, i) == IF i = 0 THEN [kept |-> <<>>, odd |-> FALSE]
                      ELSE IF p[i] = Empty /\ i < N /\ ~f[i - 1].odd
                      THEN [kept |-> f[i - 1].kept, odd |-> TRUE]
                      ELSE [kept |-> Append(f[i - 1].kept, p[i]), odd |-> FALSE]
           solution == [i \in 0..N |-> [kept |-> Subsequence(p, K(i)), odd |-> i > 0 /\ Dropped(p, i)]]
<1>1. N \in Nat /\ DOMAIN p = 1..N
  OBVIOUS
<1>2. ASSUME NEW i \in 0..N PROVE solution[i] = e(solution, i)
  <2>1. CASE i = 0
    <3>1. K(0) = {}
      OBVIOUS
    <3>2. Subsequence(p, {}) = <<>>
      BY FS_EmptySet DEF Subsequence
    <3>3. solution[0] = [kept |-> Subsequence(p, K(0)), odd |-> 0 > 0 /\ Dropped(p, 0)]
      BY <1>1
    <3>4. (0 > 0 /\ Dropped(p, 0)) = FALSE
      OBVIOUS
    <3>5. solution[0] = [kept |-> <<>>, odd |-> FALSE]
      BY <3>1, <3>2, <3>3, <3>4
    <3> QED BY <2>1, <3>5
  <2>2. CASE i > 0
    <3>1. i \in DOMAIN p /\ i - 1 \in 0..N /\ i # 0
      BY <1>1, <2>2
    <3>2. Dropped(p, i) <=> p[i] = Empty /\ i < N /\ ~(i - 1 > 0 /\ Dropped(p, i - 1))
      BY <3>1, EveryOther
    <3>3. solution[i - 1] = [kept |-> Subsequence(p, K(i - 1)), odd |-> i - 1 > 0 /\ Dropped(p, i - 1)]
      BY <3>1
    <3>4. CASE Dropped(p, i)
      <4>1. K(i) = K(i - 1)
        BY <3>1, <3>4
      <4> QED BY <2>2, <3>1, <3>2, <3>3, <3>4, <4>1
    <3>5. CASE ~Dropped(p, i)
      <4>1. K(i) = K(i - 1) \cup {i} /\ \A j \in K(i - 1) : j < i
        BY <3>1, <3>5
      <4>2. K(i - 1) \subseteq DOMAIN p
        BY <1>1, <3>1
      <4>3. Subsequence(p, K(i)) = Append(Subsequence(p, K(i - 1)), p[i])
        <5> HIDE DEF K
        <5> QED BY <3>1, <4>1, <4>2, SubsequenceAppend
      <4> QED BY <2>2, <3>1, <3>2, <3>3, <3>5, <4>3
    <3> QED BY <3>4, <3>5
  <2> QED BY <1>1, <2>1, <2>2
<1>3. solution = [i \in 0..N |-> e(solution, i)]
  BY <1>2
<1> DEFINE after == CHOOSE f : f = [i \in 0..N |-> e(f, i)]
<1>4. after = [i \in 0..N |-> e(after, i)]
  <2> HIDE DEF e, solution, N
  <2> QED BY <1>3
<1>5. after[N] = solution[N]
  <2> HIDE DEF after, solution
  <2> DEFINE S == {i \in Nat : i <= N => after[i] = solution[i]}
  <2>1. 0 \in S
    <3>1. 0 \in 0..N
      BY <1>1
    <3>2. after[0] = e(after, 0)
      <4> HIDE DEF e
      <4> QED BY <1>4, <3>1
    <3>3. e(after, 0) = e(solution, 0)
      OBVIOUS
    <3> QED BY <1>2, <3>1, <3>2, <3>3
  <2>2. ASSUME NEW i \in Nat, i \in S PROVE i + 1 \in S
    <3> SUFFICES ASSUME i + 1 <= N PROVE after[i + 1] = solution[i + 1]
      OBVIOUS
    <3>1. after[i] = solution[i] /\ i + 1 \in 0..N /\ (i + 1) - 1 = i
      BY <1>1, <2>2
    <3>2. after[i + 1] = e(after, i + 1)
      <4> HIDE DEF e
      <4> QED BY <1>4, <3>1
    <3>3. e(after, i + 1) = e(solution, i + 1)
      BY <3>1
    <3> QED BY <1>2, <3>1, <3>2, <3>3
  <2>3. \A i \in Nat : i \in S
    <3> HIDE DEF S
    <3> QED BY <2>1, <2>2, InductiveSet
  <2> QED BY <1>1, <2>3
<1>6. Slashes(p) = after[N].kept
  BY DEF Slashes
<1>7. K(N) = {i \in DOMAIN p : ~Dropped(p, i)}
  BY <1>1
<1>8. solution[N].kept = Subsequence(p, K(N))
  BY <1>1
<1> QED BY <1>5, <1>6, <1>7, <1>8 DEF FixedPath

----------------------------------------------------------------------------
(* Objections.                                                             *)

(* What is among the objections to a request.                              *)
LEMMA RaisedByHeaders ==
    ASSUME NEW o, NEW q, NEW target, NEW mime
    PROVE  /\ Objections(o, q, target, mime) \subseteq DOMAIN Rank
           /\ "unauthorized" \in Objections(o, q, target, mime) <=> ~ValidateAuth(q.auth)
           /\ "version" \in Objections(o, q, target, mime) <=> OtherVersion(o, q)
BY DEF Objections, Rank

(* Without a route, or with an ID that cannot be unescaped                 *)
(* (server.go:273-291).                                                    *)
LEMMA RaisedByRoute ==
    ASSUME NEW o, NEW q, NEW target, NEW mime
    PROVE  LET ids == {Slashes(q.path)[i] : i \in {j \in DOMAIN target : target[j] \in Param}}
           IN  /\ "unrecognized" \in Objections(o, q, target, mime) <=> target = None
               /\ "unparsable" \in Objections(o, q, target, mime) <=>
                     target # None /\ \E id \in ids : Unescaped[id] = Invalid
BY DEF Objections

(* With no response for the operation, none of a known type, or parameters *)
(* that cannot be parsed (server.go:293-336).                              *)
LEMMA RaisedByContent ==
    ASSUME NEW o, NEW q, NEW target, NEW mime, target # None
    PROVE  /\ "noResponse" \in Objections(o, q, target, mime) <=>
                 Response[<<q.method, target>>] = {None}
           /\ "noContent" \in Objections(o, q, target, mime) <=>
                 ContentOf(<<q.method, target>>) = None
           /\ "params" \in Objections(o, q, target, mime) <=> q.data \in Unparsable
BY DEF Objections

(* With no body to compare the Content-Type with, or another Content-Type  *)
(* (server.go:792-820).                                                    *)
LEMMA RaisedByType ==
    ASSUME NEW o, NEW q, NEW target, NEW mime, target # None
    PROVE  /\ "noBody" \in Objections(o, q, target, mime) <=>
                 q.method \notin {"GET", "DELETE"} /\ mime = None
           /\ "noType" \in Objections(o, q, target, mime) <=>
                 q.method \notin {"GET", "DELETE"} /\ q.type = None
           /\ "otherType" \in Objections(o, q, target, mime) <=>
                 q.method \notin {"GET", "DELETE"} /\ q.type # mime
BY DEF Objections

(* With no schema, or data that it does not admit (server.go:787-839), or  *)
(* expansions that are not strings (server.go:347-359).                    *)
LEMMA RaisedByData ==
    ASSUME NEW o, NEW q, NEW target, NEW mime, target # None
    PROVE  LET body == Body[<<q.method, target>>]
           IN  /\ "noSchema" \in Objections(o, q, target, mime) <=> mime \notin DOMAIN body
               /\ "coercion" \in Objections(o, q, target, mime) <=>
                     mime \in DOMAIN body /\ q.data \notin Coercible[body[mime]]
               /\ "validation" \in Objections(o, q, target, mime) <=>
                     mime \in DOMAIN body /\ q.data \notin Valid[body[mime]]
               /\ "untyped" \in Objections(o, q, target, mime) <=> q.data \in Untyped
BY DEF Objections

(* The media types of the body of a request that is on route.              *)
Media(q, target) == IF target = None THEN {None} ELSE RequestMediaTypes(<<q.method, target>>)

(* Any route and any media type there are may decide.                      *)
LEMMA EndsAreAnswers ==
    ASSUME NEW o \in Option, NEW q \in Query, ~Redirects(Slashes(q.path)),
           NEW target \in Routes(q), NEW mime \in Media(q, target)
    PROVE  Ends(o, q, target, mime) \subseteq Answers[o][q]
<1>1. Answers[o][q] = UNION {UNION {Ends(o, q, r, b) : b \in Media(q, r)} : r \in Routes(q)}
  BY DEF Answers, Media, Redirects
<1>2. Ends(o, q, target, mime) \subseteq UNION {Ends(o, q, target, b) : b \in Media(q, target)}
  OBVIOUS
<1> QED BY <1>1, <1>2

(* Which objections are graver than which.                                 *)
Graver(v) == {w \in DOMAIN Rank : Rank[w] < Rank[v]}

(* The order of the checks in HandleRequest, spelled out for each          *)
(* objection.                                                              *)
LEMMA GraverThan ==
    LET routing == {"unauthorized", "version", "unrecognized", "unparsable"}
        content == routing \cup {"noResponse", "noContent", "params"}
        typing == content \cup {"noBody", "noType", "otherType"}
    IN  /\ Graver("unauthorized") = {} /\ Graver("version") = {"unauthorized"}
        /\ Graver("unrecognized") = {"unauthorized", "version"}
        /\ Graver("unparsable") = {"unauthorized", "version", "unrecognized"}
        /\ Graver("noResponse") = routing
        /\ Graver("noContent") = routing \cup {"noResponse"}
        /\ Graver("params") = routing \cup {"noResponse", "noContent"}
        /\ Graver("noBody") = content
        /\ Graver("noType") = content \cup {"noBody"}
        /\ Graver("otherType") = content \cup {"noBody", "noType"}
        /\ Graver("noSchema") = typing
        /\ Graver("coercion") = typing \cup {"noSchema"}
        /\ Graver("validation") = typing \cup {"noSchema", "coercion"}
        /\ Graver("untyped") = typing \cup {"noSchema", "coercion", "validation"}
BY DEF Graver, Rank

(* The first objection decides (server.go:229-375).                        *)
LEMMA FirstObjection ==
    ASSUME NEW o \in Option, NEW q \in Query, ~Redirects(Slashes(q.path)),
           NEW target \in Routes(q), NEW mime \in Media(q, target),
           NEW v \in Objections(o, q, target, mime),
           \A w \in Graver(v) : w \notin Objections(o, q, target, mime)
    PROVE  /\ v \in Fatal => Closed \in Answers[o][q]
           /\ v \notin Fatal =>
                 Reply(v, HeadersOf(q, target, v), IF Rank[v] <= 4 THEN None ELSE target)
                    \in Answers[o][q]
<1> DEFINE objections == Objections(o, q, target, mime)
           first == CHOOSE u \in objections : \A w \in objections : Rank[u] <= Rank[w]
<1>1. objections \subseteq DOMAIN Rank /\ \A w \in DOMAIN Rank : Rank[w] \in Nat
  <2>1. objections \subseteq DOMAIN Rank
    BY RaisedByHeaders
  <2>2. \A w \in DOMAIN Rank : Rank[w] \in Nat
    BY DEF Rank
  <2> QED BY <2>1, <2>2
<1>2. \A u, w \in DOMAIN Rank : Rank[u] = Rank[w] => u = w
  BY DEF Rank
<1>3. \A w \in objections : Rank[v] <= Rank[w]
  <2>1. v \in objections /\ \A w \in DOMAIN Rank : Rank[w] < Rank[v] => w \notin objections
    BY DEF Graver
  <2> HIDE DEF objections
  <2> QED BY <1>1, <2>1
<1>4. first \in objections /\ \A w \in objections : Rank[first] <= Rank[w]
  <2>1. v \in objections
    OBVIOUS
  <2> HIDE DEF objections
  <2> QED BY <1>3, <2>1
<1>5. first = v
  <2> HIDE DEF first
  <2>1. Rank[first] = Rank[v]
    BY <1>1, <1>3, <1>4
  <2> QED BY <1>1, <1>2, <1>4, <2>1
<1>6. objections # {} /\ Rank.unparsable = 4
  BY DEF Rank
<1>7. Ends(o, q, target, mime) =
        IF first \in Fatal THEN {Closed}
        ELSE {Reply(first, HeadersOf(q, target, first),
                    IF Rank[first] <= 4 THEN None ELSE target)}
  <2> HIDE DEF first, objections
  <2> QED BY <1>6 DEF Ends, first, objections
<1>8. Ends(o, q, target, mime) \subseteq Answers[o][q]
  BY EndsAreAnswers
<1> HIDE DEF first
<1> QED BY <1>5, <1>7, <1>8

(* A request without objections ends as Generate does (server.go:341-375). *)
LEMMA NoObjection ==
    ASSUME NEW o \in Option, NEW q \in Query, ~Redirects(Slashes(q.path)),
           NEW target \in Routes(q), NEW mime \in Media(q, target),
           Objections(o, q, target, mime) = {},
           NEW outcome \in Outcome[target][q.data]
    PROVE  LET end(v) == Reply(v, HeadersOf(q, target, v), target)
           IN  /\ outcome = "ok" => end("ok") \in Answers[o][q]
               /\ outcome = "error" => end("generation") \in Answers[o][q]
               /\ outcome = "panic" => Closed \in Answers[o][q]
               /\ outcome = "unserializable" =>
                     IF o.verbose THEN Closed \in Answers[o][q]
                     ELSE end("serialization") \in Answers[o][q]
<1> DEFINE end(v) == Reply(v, HeadersOf(q, target, v), target)
           result(out) == CASE out = "ok" -> end("ok")
                [] out = "error" -> end("generation")
                [] out = "panic" -> Closed
                [] out = "unserializable" ->
                      IF o.verbose THEN Closed ELSE end("serialization")
<1>1. Ends(o, q, target, mime) = {result(out) : out \in Outcome[target][q.data]}
  BY DEF Ends
<1>2. result(outcome) \in Answers[o][q]
  <2>1. Ends(o, q, target, mime) \subseteq Answers[o][q]
    BY EndsAreAnswers
  <2> HIDE DEF result
  <2> QED BY <1>1, <2>1
<1> HIDE DEF end
<1> QED BY <1>2 DEF end

----------------------------------------------------------------------------
(* The stages of HandleRequest, each given what the earlier ones ruled out.*)

(* There is always a route, maybe None, and a media type, maybe None.      *)
LEMMA SomeRoute ==
    ASSUME NEW q \in Query
    PROVE  /\ \E target \in Routes(q) : \E mime \in Media(q, target) : TRUE
           /\ Fittest(q.method, FixedPath(q.path)) = {} => Routes(q) = {None}
           /\ \A p \in Fittest(q.method, FixedPath(q.path)) :
                 p \in Routes(q) /\ p \in Path /\ p # None /\ Matches(p, FixedPath(q.path))
           /\ q.path \in Seq(Text) /\ FixedPath(q.path) \in Seq(Text) /\ q.method \in Method
           /\ Slashes(q.path) = FixedPath(q.path)
<1>1. /\ q.path \in Seq(Text) /\ FixedPath(q.path) \in Seq(Text) /\ q.method \in Method
      /\ Slashes(q.path) = FixedPath(q.path)
  BY PathAssumption, FixedPathType, SlashesAsFixed
<1>2. \A target : Media(q, target) # {}
  BY DEF Media, RequestMediaTypes
<1>3. Routes(q) # {}
  BY DEF Routes
<1>4. /\ Fittest(q.method, FixedPath(q.path)) = {} => Routes(q) = {None}
      /\ \A p \in Fittest(q.method, FixedPath(q.path)) : p \in Routes(q)
  BY <1>1 DEF Routes
<1>5. \A p \in Fittest(q.method, FixedPath(q.path)) :
         p \in Path /\ p # None /\ Matches(p, FixedPath(q.path))
  BY NoneAssumption DEF Fittest, Fitting
<1> QED BY <1>1, <1>2, <1>3, <1>4, <1>5

(* The checks of Authorization and Stripe-Version (server.go:237-257):     *)
(* nothing has been ruled out before, and no header is set.                *)
LEMMA HeaderVerdict ==
    ASSUME NEW o \in Option, NEW q \in Query, ~Redirects(FixedPath(q.path))
    PROVE  /\ ~ValidateAuth(q.auth) => Reply("unauthorized", Blank, None) \in Answers[o][q]
           /\ ValidateAuth(q.auth) /\ OtherVersion(o, q) =>
                 Reply("version", Blank, None) \in Answers[o][q]
<1>1. PICK target \in Routes(q) : \E mime \in Media(q, target) : TRUE
  BY SomeRoute
<1>2. PICK mime \in Media(q, target) : TRUE
  BY <1>1
<1>3. ~Redirects(Slashes(q.path))
  BY SomeRoute
<1>4. CASE ~ValidateAuth(q.auth)
  <2>1. "unauthorized" \in Objections(o, q, target, mime)
    BY <1>4, RaisedByHeaders
  <2>2. Reply("unauthorized", HeadersOf(q, target, "unauthorized"), None) \in Answers[o][q]
    BY <1>3, <2>1, FirstObjection, GraverThan DEF Rank, Fatal
  <2> QED BY <1>4, <2>2 DEF HeadersOf
<1>5. CASE ValidateAuth(q.auth) /\ OtherVersion(o, q)
  <2>1. /\ "version" \in Objections(o, q, target, mime)
        /\ "unauthorized" \notin Objections(o, q, target, mime)
    BY <1>5, RaisedByHeaders
  <2>2. Reply("version", HeadersOf(q, target, "version"), None) \in Answers[o][q]
    BY <1>3, <2>1, FirstObjection, GraverThan DEF Rank, Fatal
  <2> QED BY <1>5, <2>2 DEF HeadersOf
<1> QED BY <1>4, <1>5

(* Routing (server.go:273-291): the headers of the request have been       *)
(* accepted.                                                               *)
LEMMA RouteVerdict ==
    ASSUME NEW o \in Option, NEW q \in Query, ~Redirects(FixedPath(q.path)),
           ValidateAuth(q.auth), ~OtherVersion(o, q)
    PROVE  LET path == FixedPath(q.path)
           IN  /\ Fittest(q.method, path) = {} =>
                     Reply("unrecognized", SetHeaders(q), None) \in Answers[o][q]
               /\ \A p \in Fittest(q.method, path) :
                     (\E i \in Parameters(p) : Unescaped[path[i]] = Invalid) =>
                        Reply("unparsable", SetHeaders(q), None) \in Answers[o][q]
<1> DEFINE path == FixedPath(q.path)
<1>1. ~Redirects(Slashes(q.path)) /\ Slashes(q.path) = path
  BY SomeRoute
<1>2. ASSUME Fittest(q.method, path) = {}
      PROVE  Reply("unrecognized", SetHeaders(q), None) \in Answers[o][q]
  <2>1. None \in Routes(q) /\ None \in Media(q, None)
    BY <1>2, SomeRoute DEF Media
  <2>2. "unrecognized" \in Objections(o, q, None, None)
    BY RaisedByRoute
  <2>3. \A w \in Graver("unrecognized") : w \notin Objections(o, q, None, None)
    <3>1. /\ "unauthorized" \notin Objections(o, q, None, None)
          /\ "version" \notin Objections(o, q, None, None)
      BY RaisedByHeaders
    <3> QED BY <3>1, GraverThan
  <2>4. Reply("unrecognized", HeadersOf(q, None, "unrecognized"), None) \in Answers[o][q]
    BY <1>1, <2>1, <2>2, <2>3, FirstObjection DEF Rank, Fatal
  <2> QED BY <2>4 DEF HeadersOf
<1>3. ASSUME NEW p \in Fittest(q.method, path), NEW i \in Parameters(p),
             Unescaped[path[i]] = Invalid
      PROVE  Reply("unparsable", SetHeaders(q), None) \in Answers[o][q]
  <2>1. p \in Routes(q) /\ p # None
    BY SomeRoute
  <2>2. PICK mime \in Media(q, p) : TRUE
    BY DEF Media, RequestMediaTypes
  <2>3. \E id \in {Slashes(q.path)[j] : j \in {k \in DOMAIN p : p[k] \in Param}} :
           Unescaped[id] = Invalid
    BY <1>1, <1>3 DEF Parameters
  <2>4. "unparsable" \in Objections(o, q, p, mime)
    <3> DEFINE ids == {Slashes(q.path)[j] : j \in {k \in DOMAIN p : p[k] \in Param}}
    <3>1. "unparsable" \in Objections(o, q, p, mime) <=>
             p # None /\ \E id \in ids : Unescaped[id] = Invalid
      BY RaisedByRoute
    <3> HIDE DEF ids
    <3> QED BY <2>1, <2>3, <3>1 DEF ids
  <2>5. \A w \in Graver("unparsable") : w \notin Objections(o, q, p, mime)
    <3>1. /\ "unauthorized" \notin Objections(o, q, p, mime)
          /\ "version" \notin Objections(o, q, p, mime)
          /\ "unrecognized" \notin Objections(o, q, p, mime)
      BY <2>1, RaisedByHeaders, RaisedByRoute
    <3> QED BY <3>1, GraverThan
  <2>6. Reply("unparsable", HeadersOf(q, p, "unparsable"), None) \in Answers[o][q]
    BY <1>1, <2>1, <2>4, <2>5, FirstObjection DEF Rank, Fatal
  <2> QED BY <2>6 DEF HeadersOf
<1> QED BY <1>2, <1>3

(* The requests that are routed to p, with IDs that can be unescaped.      *)
OnRoute(o, q, p) ==
    /\ o \in Option /\ q \in Query /\ ~Redirects(FixedPath(q.path))
    /\ ValidateAuth(q.auth) /\ ~OtherVersion(o, q)
    /\ p \in Fittest(q.method, FixedPath(q.path))
    /\ \A i \in Parameters(p) : Unescaped[FixedPath(q.path)[i]] # Invalid

(* Four objections are out of the question for a request on its route.     *)
LEMMA OnRouteObjections ==
    ASSUME NEW o, NEW q, NEW p, OnRoute(o, q, p), NEW mime
    PROVE  /\ ~Redirects(Slashes(q.path)) /\ p \in Routes(q) /\ p \in Path /\ p # None
           /\ q.method \in Method /\ Media(q, p) = RequestMediaTypes(<<q.method, p>>)
           /\ {"unauthorized", "version", "unrecognized", "unparsable"} \cap
                 Objections(o, q, p, mime) = {}
<1>1. /\ ~Redirects(Slashes(q.path)) /\ p \in Routes(q) /\ p \in Path /\ p # None
      /\ Slashes(q.path) = FixedPath(q.path) /\ q.method \in Method
  BY SomeRoute DEF OnRoute
<1>2. \A id \in {Slashes(q.path)[j] : j \in {k \in DOMAIN p : p[k] \in Param}} :
         Unescaped[id] # Invalid
  BY <1>1 DEF OnRoute, Parameters
<1>3. ValidateAuth(q.auth) /\ ~OtherVersion(o, q)
  BY DEF OnRoute
<1>4. /\ "unauthorized" \notin Objections(o, q, p, mime)
      /\ "version" \notin Objections(o, q, p, mime)
      /\ "unrecognized" \notin Objections(o, q, p, mime)
  BY <1>1, <1>3, RaisedByHeaders, RaisedByRoute
<1>5. "unparsable" \notin Objections(o, q, p, mime)
  <2> DEFINE ids == {Slashes(q.path)[j] : j \in {k \in DOMAIN p : p[k] \in Param}}
  <2>1. "unparsable" \in Objections(o, q, p, mime) <=>
           p # None /\ \E id \in ids : Unescaped[id] = Invalid
    BY RaisedByRoute
  <2> QED BY <1>2, <2>1
<1> QED BY <1>1, <1>4, <1>5 DEF Media

(* All objections to it come after those to its route.                     *)
LEMMA OnRouteVerdict ==
    ASSUME NEW o, NEW q, NEW p, OnRoute(o, q, p), NEW mime \in RequestMediaTypes(<<q.method, p>>),
           NEW v \in Objections(o, q, p, mime),
           \A w \in Graver(v) \ {"unauthorized", "version", "unrecognized", "unparsable"} :
              w \notin Objections(o, q, p, mime)
    PROVE  /\ v \in Fatal => Closed \in Answers[o][q]
           /\ v \notin Fatal => Reply(v, HeadersOf(q, p, v), p) \in Answers[o][q]
<1>1. /\ ~Redirects(Slashes(q.path)) /\ p \in Routes(q) /\ mime \in Media(q, p)
      /\ {"unauthorized", "version", "unrecognized", "unparsable"} \cap
            Objections(o, q, p, mime) = {}
  BY OnRouteObjections
<1>2. \A w \in Graver(v) : w \notin Objections(o, q, p, mime)
  BY <1>1
<1>3. o \in Option /\ q \in Query
  BY DEF OnRoute
<1>4. v \in DOMAIN Rank
  BY RaisedByHeaders
<1>5. ~(Rank[v] <= 4)
  <2>1. \A w \in DOMAIN Rank : Rank[w] <= 4 =>
           w \in {"unauthorized", "version", "unrecognized", "unparsable"}
    BY DEF Rank
  <2> QED BY <1>1, <1>4, <2>1
<1> QED BY <1>1, <1>2, <1>3, <1>5, FirstObjection

(* The choice of the response and the parsing of the parameters            *)
(* (server.go:293-336), for a request on its route.                        *)
LEMMA ContentVerdict ==
    ASSUME NEW o, NEW q, NEW p, OnRoute(o, q, p)
    PROVE  LET op == <<q.method, p>>
               head == [SetHeaders(q) EXCEPT !.type = ContentOf(op)]
           IN  /\ Response[op] = {None} =>
                     Reply("noResponse", SetHeaders(q), p) \in Answers[o][q]
               /\ Response[op] # {None} /\ ContentOf(op) = None =>
                     Reply("noContent", SetHeaders(q), p) \in Answers[o][q]
               /\ Response[op] # {None} /\ ContentOf(op) # None /\ q.data \in Unparsable =>
                     Reply("params", head, p) \in Answers[o][q]
<1> DEFINE op == <<q.method, p>>
           head == [SetHeaders(q) EXCEPT !.type = ContentOf(op)]
<1>1. PICK mime \in RequestMediaTypes(op) : TRUE
  BY DEF RequestMediaTypes
<1>2. p # None
  BY OnRouteObjections
<1> DEFINE objections == Objections(o, q, p, mime)
<1>3. /\ "noResponse" \in objections <=> Response[op] = {None}
      /\ "noContent" \in objections <=> ContentOf(op) = None
      /\ "params" \in objections <=> q.data \in Unparsable
  BY <1>2, RaisedByContent
<1>4. /\ HeadersOf(q, p, "noResponse") = SetHeaders(q)
      /\ HeadersOf(q, p, "noContent") = SetHeaders(q)
      /\ HeadersOf(q, p, "params") = head
  BY DEF HeadersOf
<1>5. ASSUME NEW v \in {"noResponse", "noContent", "params"}, v \in objections,
             \A w \in Graver(v) \ {"unauthorized", "version", "unrecognized", "unparsable"} :
                w \notin objections
      PROVE  Reply(v, HeadersOf(q, p, v), p) \in Answers[o][q]
  BY <1>5, OnRouteVerdict DEF Fatal
<1>6. CASE Response[op] = {None}
  BY <1>3, <1>4, <1>5, <1>6, GraverThan
<1>7. CASE Response[op] # {None} /\ ContentOf(op) = None
  BY <1>3, <1>4, <1>5, <1>7, GraverThan
<1>8. CASE Response[op] # {None} /\ ContentOf(op) # None
  BY <1>3, <1>4, <1>5, <1>8, GraverThan
<1> QED BY <1>6, <1>7, <1>8

(* The requests that get as far as their body.                             *)
WithContent(o, q, p) ==
    /\ OnRoute(o, q, p) /\ q.data \notin Unparsable
    /\ Response[<<q.method, p>>] # {None} /\ ContentOf(<<q.method, p>>) # None

(* Those whose Content-Type is that of the body, or need not be.           *)
RightType(q, mime) ==
    q.method \notin {"GET", "DELETE"} => mime # None /\ q.type # None /\ q.type = mime

(* All objections to a request that gets as far as its body come with the  *)
(* Content-Type of the response.                                           *)
LEMMA WithContentVerdict ==
    ASSUME NEW o, NEW q, NEW p, WithContent(o, q, p),
           NEW mime \in RequestMediaTypes(<<q.method, p>>),
           NEW v \in Objections(o, q, p, mime),
           \A w \in Graver(v) \cap {"noBody", "noType", "otherType", "noSchema", "coercion", "validation"} :
              w \notin Objections(o, q, p, mime),
           v \notin {"unauthorized", "version", "unrecognized", "unparsable", "noResponse", "noContent"}
    PROVE  /\ v \in Fatal => Closed \in Answers[o][q]
           /\ v \notin Fatal =>
                 Reply(v, [SetHeaders(q) EXCEPT !.type = ContentOf(<<q.method, p>>)], p)
                    \in Answers[o][q]
<1> DEFINE objections == Objections(o, q, p, mime)
<1>1. OnRoute(o, q, p) /\ p # None
  BY OnRouteObjections DEF WithContent
<1>2. "noResponse" \notin objections /\ "noContent" \notin objections /\ "params" \notin objections
  BY <1>1, RaisedByContent DEF WithContent
<1>3. v \in DOMAIN Rank
  BY RaisedByHeaders
<1>4. \A w \in Graver(v) :
         w \in {"unauthorized", "version", "unrecognized", "unparsable", "noResponse", "noContent",
                "params", "noBody", "noType", "otherType", "noSchema", "coercion", "validation"}
  BY <1>3 DEF Graver, Rank
<1>5. \A w \in Graver(v) \ {"unauthorized", "version", "unrecognized", "unparsable"} :
         w \notin objections
  BY <1>2, <1>4
<1>6. HeadersOf(q, p, v) = [SetHeaders(q) EXCEPT !.type = ContentOf(<<q.method, p>>)]
  BY DEF HeadersOf
<1> QED BY <1>1, <1>5, <1>6, OnRouteVerdict

(* The check of the Content-Type (server.go:792-820).                      *)
LEMMA TypeVerdict ==
    ASSUME NEW o, NEW q, NEW p, WithContent(o, q, p),
           NEW mime \in RequestMediaTypes(<<q.method, p>>), ~RightType(q, mime)
    PROVE  LET head == [SetHeaders(q) EXCEPT !.type = ContentOf(<<q.method, p>>)]
           IN  /\ mime = None => Closed \in Answers[o][q]
               /\ mime # None /\ q.type = None => Reply("noType", head, p) \in Answers[o][q]
               /\ mime # None /\ q.type # None => Reply("otherType", head, p) \in Answers[o][q]
<1> DEFINE objections == Objections(o, q, p, mime)
<1>1. p # None
  BY OnRouteObjections DEF WithContent
<1>2. /\ "noBody" \in objections <=> mime = None
      /\ "noType" \in objections <=> q.type = None
      /\ "otherType" \in objections <=> q.type # mime
  BY <1>1, RaisedByType DEF RightType
<1>3. /\ Graver("noBody") \cap {"noBody", "noType", "otherType", "noSchema", "coercion", "validation"} = {}
      /\ Graver("noType") \cap {"noBody", "noType", "otherType", "noSchema", "coercion", "validation"} =
            {"noBody"}
      /\ Graver("otherType") \cap {"noBody", "noType", "otherType", "noSchema", "coercion", "validation"} =
            {"noBody", "noType"}
  BY GraverThan
<1>4. CASE mime = None
  BY <1>2, <1>3, <1>4, WithContentVerdict DEF Fatal
<1>5. CASE mime # None /\ q.type = None
  BY <1>2, <1>3, <1>5, WithContentVerdict DEF Fatal
<1>6. CASE mime # None /\ q.type # None
  <2>1. q.type # mime
    BY <1>6 DEF RightType
  <2> QED BY <1>2, <1>3, <1>6, <2>1, WithContentVerdict DEF Fatal
<1> QED BY <1>4, <1>5, <1>6

(* Coercion, validation (server.go:822-839) and the expansions, for a      *)
(* request with the right Content-Type; past them there is no objection    *)
(* left.                                                                   *)
LEMMA DataVerdict ==
    ASSUME NEW o, NEW q, NEW p, WithContent(o, q, p),
           NEW mime \in RequestMediaTypes(<<q.method, p>>), RightType(q, mime)
    PROVE  LET body == Body[<<q.method, p>>]
               head == [SetHeaders(q) EXCEPT !.type = ContentOf(<<q.method, p>>)]
           IN  /\ mime \notin DOMAIN body => Closed \in Answers[o][q]
               /\ mime \in DOMAIN body /\ q.data \notin Coercible[body[mime]] =>
                     Reply("coercion", head, p) \in Answers[o][q]
               /\ /\ mime \in DOMAIN body /\ q.data \in Coercible[body[mime]]
                  /\ q.data \notin Valid[body[mime]]
                  => Reply("validation", head, p) \in Answers[o][q]
               /\ /\ mime \in DOMAIN body /\ q.data \in Coercible[body[mime]]
                  /\ q.data \in Valid[body[mime]]
                  => /\ q.data \in Untyped => Closed \in Answers[o][q]
                     /\ q.data \notin Untyped => Objections(o, q, p, mime) = {}
<1> DEFINE objections == Objections(o, q, p, mime)
           body == Body[<<q.method, p>>]
           later == {"noBody", "noType", "otherType", "noSchema", "coercion", "validation"}
<1>1. p # None /\ OnRoute(o, q, p)
  BY OnRouteObjections DEF WithContent
<1>2. "noBody" \notin objections /\ "noType" \notin objections /\ "otherType" \notin objections
  BY <1>1, RaisedByType DEF RightType
<1>3. /\ "noSchema" \in objections <=> mime \notin DOMAIN body
      /\ "coercion" \in objections <=>
            mime \in DOMAIN body /\ q.data \notin Coercible[body[mime]]
      /\ "validation" \in objections <=>
            mime \in DOMAIN body /\ q.data \notin Valid[body[mime]]
      /\ "untyped" \in objections <=> q.data \in Untyped
  BY <1>1, RaisedByData
<1>4. /\ Graver("noSchema") \cap later = {"noBody", "noType", "otherType"}
      /\ Graver("coercion") \cap later = {"noBody", "noType", "otherType", "noSchema"}
      /\ Graver("validation") \cap later = {"noBody", "noType", "otherType", "noSchema", "coercion"}
      /\ Graver("untyped") \cap later = later
  BY GraverThan
<1>5. ASSUME NEW v \in objections, \A w \in Graver(v) \cap later : w \notin objections,
             v \in {"noSchema", "coercion", "validation", "untyped"}
      PROVE  /\ v \in Fatal => Closed \in Answers[o][q]
             /\ v \notin Fatal =>
                   Reply(v, [SetHeaders(q) EXCEPT !.type = ContentOf(<<q.method, p>>)], p)
                      \in Answers[o][q]
  BY <1>5, WithContentVerdict
<1> HIDE DEF body
<1>6. CASE mime \notin DOMAIN body
  BY <1>2, <1>3, <1>4, <1>5, <1>6 DEF Fatal, body
<1>7. CASE mime \in DOMAIN body /\ q.data \notin Coercible[body[mime]]
  BY <1>2, <1>3, <1>4, <1>5, <1>7 DEF Fatal, body
<1>8. CASE /\ mime \in DOMAIN body /\ q.data \in Coercible[body[mime]]
           /\ q.data \notin Valid[body[mime]]
  BY <1>2, <1>3, <1>4, <1>5, <1>8 DEF Fatal, body
<1>9. CASE /\ mime \in DOMAIN body /\ q.data \in Coercible[body[mime]]
           /\ q.data \in Valid[body[mime]]
  <2>1. q.data \in Untyped => Closed \in Answers[o][q]
    BY <1>2, <1>3, <1>4, <1>5, <1>9 DEF Fatal
  <2>2. q.data \notin Untyped => objections = {}
    <3>1. "noResponse" \notin objections /\ "noContent" \notin objections
          /\ "params" \notin objections
      BY <1>1, RaisedByContent DEF WithContent
    <3>2. {"unauthorized", "version", "unrecognized", "unparsable"} \cap objections = {}
      BY <1>1, OnRouteObjections
    <3>3. objections \subseteq DOMAIN Rank
      BY RaisedByHeaders
    <3> HIDE DEF objections
    <3> QED BY <1>2, <1>3, <1>9, <3>1, <3>2, <3>3 DEF Rank
  <2> QED BY <1>9, <2>1, <2>2 DEF body
<1> QED BY <1>6, <1>7, <1>8, <1>9 DEF body

----------------------------------------------------------------------------
(* Router and Verdicts are about the same specification.                   *)

(* The lists that Router sorts.                                            *)
LEMMA SameRoutes == R!SortedRoutes = SortedRoutes
BY DEF R!Cardinality, Cardinality, R!IsFiniteSet, IsFiniteSet, R!SortedRoutes, SortedRoutes,
       R!SetToSeqs, SetToSeqs, R!StaticFirst, StaticFirst, R!MethodsOf, MethodsOf,
       R!NumParams, NumParams, R!Parameters, Parameters

(* The answer of Verdicts that is none.                                    *)
LEMMA SameClosed == V!Closed = Closed
BY DEF V!Closed, Closed

(* The answers that Verdicts speaks of.                                    *)
LEMMA SameAnswers == V!Answers = Answers
BY ZenonT(40) DEF V!Cardinality, Cardinality, V!Answers, Answers, V!Slashes, Slashes, V!Routes, Routes,
       V!Fittest, Fittest, V!Fitting, Fitting, V!NumParams, NumParams,
       V!Parameters, Parameters, V!Matches, Matches, V!MethodsOf, MethodsOf,
       V!RequestMediaTypes, RequestMediaTypes, V!Ends, Ends, V!Objections, Objections,
       V!ValidateAuth, ValidateAuth, V!OtherVersion, OtherVersion, V!ContentOf, ContentOf,
       V!Rank, Rank, V!Reply, Reply, V!Status, Status, V!HeadersOf, HeadersOf,
       V!SetHeaders, SetHeaders, V!Blank, Blank, V!Closed, Closed, V!Fatal, Fatal,
       V!Moved, Moved

----------------------------------------------------------------------------
(* Types.                                                                  *)

(* The headers that there are at each stage.                               *)
LEMMA HeaderTypes ==
    /\ Blank \in Headers
    /\ \A q \in Query : SetHeaders(q) \in Headers
    /\ \A op : \A h \in Headers : [h EXCEPT !.type = ContentOf(op)] \in Headers
<1>1. \A op : ContentOf(op) \in {"json", "pdf", None}
  BY DEF ContentOf
<1> QED BY <1>1 DEF Headers, Blank, SetHeaders

(* What is written is a response, which None and Closed are not.           *)
LEMMA ReplyType ==
    /\ \A v \in DOMAIN Status, h \in Headers, r \in Path \cup {None} : Reply(v, h, r) \in Replies
    /\ Moved \in Replies
    /\ \A a \in Replies : a # None /\ a # Closed
<1>1. ASSUME NEW v \in DOMAIN Status, NEW h \in Headers, NEW r \in Path \cup {None}
      PROVE  Reply(v, h, r) \in Replies
  <2>1. Status[v] \in Nat
    BY DEF Status
  <2>2. [h EXCEPT !.type = IF h.type = None THEN "json" ELSE h.type] \in Headers
    BY DEF Headers
  <2> QED BY <2>1, <2>2 DEF Reply, Replies
<1>2. Moved \in Replies
  BY HeaderTypes DEF Moved, Replies
<1>3. ASSUME NEW a \in Replies PROVE a # None /\ a # Closed
  <2>1. a.verdict # "closed"
    BY DEF Replies, Status
  <2> QED BY <2>1, NoneAssumption DEF Closed
<1> QED BY <1>1, <1>2, <1>3

(* The stages of a request, and the types of what is known of each client. *)
Stages == Idle \cup {"mux", "headers", "route", "response", "params", "validate", "generate", "write"}

TypeOf(c) ==
    /\ pc[c] \in Stages /\ request[c] \in Query \cup {None} /\ url[c] \in Seq(Text)
    /\ route[c] \in Path \cup {None} /\ header[c] \in Headers
    /\ verdict[c] \in DOMAIN Status \cup {"unserializable", None}
    /\ reply[c] \in Replies \cup {None}
    /\ pc[c] \notin Idle => unsorted = {} /\ request[c] # None
    /\ reply[c] # None <=> pc[c] = "done"
    /\ pc[c] = "write" => verdict[c] # None

(* The steps that change nothing but what is known of c.                   *)
OnlyOf(c) ==
    /\ UNCHANGED <<unsorted, routes, media, options>>
    /\ pc' = [pc EXCEPT ![c] = pc'[c]] /\ request' = [request EXCEPT ![c] = request'[c]]
    /\ url' = [url EXCEPT ![c] = url'[c]] /\ route' = [route EXCEPT ![c] = route'[c]]
    /\ header' = [header EXCEPT ![c] = header'[c]]
    /\ verdict' = [verdict EXCEPT ![c] = verdict'[c]]
    /\ reply' = [reply EXCEPT ![c] = reply'[c]]

(* The handlers share nothing that they change: what is known of the other *)
(* clients remains so.                                                     *)
LEMMA OneClient ==
    ASSUME IInv, NEW c \in Client, OnlyOf(c), TypeOf(c)', Ruled(c)', Told(c)'
    PROVE  IInv'
<1>1. UNCHANGED <<unsorted, routes, media, options>>
  BY DEF OnlyOf
<1>2. ASSUME NEW d \in Client, d # c
      PROVE  /\ pc'[d] = pc[d] /\ request'[d] = request[d] /\ url'[d] = url[d]
             /\ route'[d] = route[d] /\ header'[d] = header[d] /\ verdict'[d] = verdict[d]
             /\ reply'[d] = reply[d]
  BY <1>2 DEF OnlyOf, IInv, TypeOK
<1>3. TypeOK'
  <2>1. TypeOK
    BY DEF IInv
  <2>2. /\ pc' \in [Client -> Stages] /\ request' \in [Client -> Query \cup {None}]
        /\ url' \in [Client -> Seq(Text)] /\ route' \in [Client -> Path \cup {None}]
        /\ header' \in [Client -> Headers]
        /\ verdict' \in [Client -> DOMAIN Status \cup {"unserializable", None}]
        /\ reply' \in [Client -> Replies \cup {None}]
    <3>1. ASSUME NEW S, NEW f \in [Client -> S], NEW x \in S
          PROVE  [f EXCEPT ![c] = x] \in [Client -> S]
      OBVIOUS
    <3>2. /\ pc \in [Client -> Stages] /\ request \in [Client -> Query \cup {None}]
          /\ url \in [Client -> Seq(Text)] /\ route \in [Client -> Path \cup {None}]
          /\ header \in [Client -> Headers]
          /\ verdict \in [Client -> DOMAIN Status \cup {"unserializable", None}]
          /\ reply \in [Client -> Replies \cup {None}]
      BY <2>1 DEF TypeOK, Stages
    <3>3. /\ pc'[c] \in Stages /\ request'[c] \in Query \cup {None} /\ url'[c] \in Seq(Text)
          /\ route'[c] \in Path \cup {None} /\ header'[c] \in Headers
          /\ verdict'[c] \in DOMAIN Status \cup {"unserializable", None}
          /\ reply'[c] \in Replies \cup {None}
      BY DEF TypeOf
    <3>4. pc' \in [Client -> Stages] /\ request' \in [Client -> Query \cup {None}]
      BY <3>1, <3>2, <3>3 DEF OnlyOf
    <3>5. url' \in [Client -> Seq(Text)] /\ route' \in [Client -> Path \cup {None}]
      BY <3>1, <3>2, <3>3 DEF OnlyOf
    <3>6. header' \in [Client -> Headers] /\ reply' \in [Client -> Replies \cup {None}]
      BY <3>1, <3>2, <3>3 DEF OnlyOf
    <3>7. verdict' \in [Client -> DOMAIN Status \cup {"unserializable", None}]
      BY <3>1, <3>2, <3>3 DEF OnlyOf
    <3> QED BY <3>4, <3>5, <3>6, <3>7
  <2>3. ASSUME NEW d \in Client
        PROVE  /\ pc'[d] \notin Idle => R!Serving' /\ request'[d] # None
               /\ reply'[d] # None <=> pc'[d] = "done"
               /\ pc'[d] = "write" => verdict'[d] # None
    <3>1. CASE d = c
      BY <1>1, <3>1 DEF TypeOf, R!Serving
    <3>2. CASE d # c
      BY <1>1, <1>2, <2>1, <3>2 DEF TypeOK, R!Serving
    <3> QED BY <3>1, <3>2
  <2>4. /\ unsorted' \subseteq Method /\ DOMAIN routes' = Method
        /\ DOMAIN media' = Method \X Path /\ options' \in Option
        /\ \A op \in DOMAIN media' : op[1] \notin unsorted' => media'[op] \in RequestMediaTypes(op)
    BY <1>1, <2>1 DEF TypeOK
  <2> QED BY <2>2, <2>3, <2>4 DEF TypeOK, Stages
<1>4. ASSUME NEW d \in Client PROVE Ruled(d)' /\ Told(d)'
  <2>1. CASE d # c
    <3>1. Ruled(d) /\ Told(d)
      BY DEF IInv
    <3>2. Ruled(d)'
      BY <1>1, <1>2, <2>1, <3>1 DEF Ruled, HeaderError, RequestError, Operation
    <3>3. Told(d)'
      BY <1>1, <1>2, <2>1, <3>1 DEF Told
    <3> QED BY <3>2, <3>3
  <2> QED BY <2>1
<1>5. \A m \in Method \ unsorted' : <<m, routes'[m]>> \in SortedRoutes
  BY <1>1 DEF IInv
<1> QED BY <1>3, <1>4, <1>5 DEF IInv

----------------------------------------------------------------------------
(* One lemma for each step of a handler: what is known of its client after *)
(* the step, and that a connection is closed only where it may be.         *)

Kept(c) ==
    /\ OnlyOf(c) /\ TypeOf(c)' /\ Ruled(c)' /\ Told(c)' /\ request' = request
    /\ pc'[c] # "idle" /\ (pc'[c] = "closed" => Closed \in Answers[options][request[c]])

(* What a handler can rely on.                                             *)
LEMMA Busy ==
    ASSUME IInv, NEW c \in Client, pc[c] \notin Idle
    PROVE  LET q == request[c]
           IN  /\ q \in Query /\ q.method \in Method /\ q.path \in Seq(Text)
               /\ FixedPath(q.path) \in Seq(Text) /\ options \in Option
               /\ TypeOf(c) /\ Ruled(c) /\ Told(c) /\ reply[c] = None
               /\ <<q.method, routes[q.method]>> \in SortedRoutes
               /\ \A p \in Path : media[<<q.method, p>>] \in RequestMediaTypes(<<q.method, p>>)
<1> DEFINE q == request[c]
<1>1. TypeOK /\ Ruled(c) /\ Told(c)
  BY DEF IInv
<1>2. TypeOf(c)
  BY <1>1 DEF TypeOK, TypeOf, Stages, R!Serving
<1>3. q \in Query /\ unsorted = {} /\ reply[c] = None
  BY <1>2 DEF TypeOf, Idle
<1>4. q.method \in Method /\ q.path \in Seq(Text) /\ FixedPath(q.path) \in Seq(Text)
  BY <1>3, SomeRoute
<1>5. <<q.method, routes[q.method]>> \in SortedRoutes
  BY <1>3, <1>4 DEF IInv
<1>6. options \in Option
  BY <1>1 DEF TypeOK
<1>7. \A p \in Path : media[<<q.method, p>>] \in RequestMediaTypes(<<q.method, p>>)
  <2> SUFFICES ASSUME NEW p \in Path
               PROVE  media[<<q.method, p>>] \in RequestMediaTypes(<<q.method, p>>)
    OBVIOUS
  <2> DEFINE op == <<q.method, p>>
  <2>1. op \in DOMAIN media /\ op[1] \notin unsorted
    BY <1>1, <1>3, <1>4 DEF TypeOK
  <2> QED BY <1>1, <2>1 DEF TypeOK
<1> QED BY <1>1, <1>2, <1>3, <1>4, <1>5, <1>6, <1>7

(* What the stages that only check something do.                           *)
LEMMA Checked ==
    ASSUME IInv, NEW c \in Client, NEW error, NEW next, Check(c, error, next)
    PROVE  /\ pc' = [pc EXCEPT ![c] = pc'[c]] /\ verdict' = [verdict EXCEPT ![c] = verdict'[c]]
           /\ error = None => pc'[c] = next /\ verdict'[c] = None
           /\ error # None /\ error # "panic" => pc'[c] = "write" /\ verdict'[c] = error
           /\ error = "panic" => pc'[c] = "closed" /\ verdict'[c] = None
<1>1. "panic" # None
  BY NoneAssumption
<1> QED BY <1>1 DEF Check, IInv, TypeOK

(* A new request: nothing is known of it but what the client sent.         *)
LEMMA SendKept ==
    ASSUME IInv, NEW c \in Client, NEW q \in Sends[c], Send(c, q)
    PROVE  OnlyOf(c) /\ TypeOf(c)' /\ Ruled(c)' /\ Told(c)' /\ request'[c] = q /\ pc'[c] = "mux"
<1>1. TypeOK /\ q \in Query /\ q.path \in Seq(Text)
  BY RequestsAssumption, PathAssumption DEF IInv
<1>2. OnlyOf(c)
  BY <1>1 DEF Send, TypeOK, OnlyOf
<1>3. /\ pc'[c] = "mux" /\ request'[c] = q /\ url'[c] = q.path /\ route'[c] = None
      /\ header'[c] = Blank /\ verdict'[c] = None /\ reply'[c] = None /\ unsorted' = {}
  BY <1>1 DEF Send, TypeOK, R!Serving
<1>4. q # None
  BY <1>1, NoneAssumption
<1>5. TypeOf(c)'
  BY <1>1, <1>3, <1>4, HeaderTypes DEF TypeOf, Stages, Idle
<1>6. Ruled(c)' /\ Told(c)'
  BY <1>3 DEF Ruled, Told
<1> QED BY <1>2, <1>3, <1>5, <1>6

(* A check sends its client to the next stage, to what it is told, or      *)
(* away.                                                                   *)
LEMMA Passing ==
    ASSUME IInv, NEW c \in Client, pc[c] \notin Idle,
           UNCHANGED <<unsorted, routes, media, options, request, url, reply>>,
           header' = [header EXCEPT ![c] = header'[c]], header'[c] \in Headers,
           route' = [route EXCEPT ![c] = route'[c]], route'[c] \in Path \cup {None},
           NEW error \in DOMAIN Status \cup {"unserializable", "panic", None}, NEW next,
           Check(c, error, next),
           error = None => next \in Stages \ (Idle \cup {"write"}) /\ Ruled(c)',
           error # None /\ error # "panic" =>
              Reply(IF error = "unserializable" THEN "serialization" ELSE error,
                    header'[c], route'[c]) \in Answers[options][request[c]],
           error = "panic" => Closed \in Answers[options][request[c]]
    PROVE  Kept(c)
<1>1. /\ pc' = [pc EXCEPT ![c] = pc'[c]] /\ verdict' = [verdict EXCEPT ![c] = verdict'[c]]
      /\ error = None => pc'[c] = next /\ verdict'[c] = None
      /\ error # None /\ error # "panic" => pc'[c] = "write" /\ verdict'[c] = error
      /\ error = "panic" => pc'[c] = "closed" /\ verdict'[c] = None
  BY Checked
<1>2. TypeOf(c) /\ reply[c] = None /\ unsorted = {} /\ request[c] # None
  BY Busy DEF TypeOf
<1>3. OnlyOf(c)
  <2>1. \A f : f \in [Client -> Query \cup {None}] => f = [f EXCEPT ![c] = f[c]]
    OBVIOUS
  <2>2. \A f : f \in [Client -> Seq(Text)] => f = [f EXCEPT ![c] = f[c]]
    OBVIOUS
  <2>3. \A f : f \in [Client -> Replies \cup {None}] => f = [f EXCEPT ![c] = f[c]]
    OBVIOUS
  <2>4. /\ request \in [Client -> Query \cup {None}] /\ url \in [Client -> Seq(Text)]
        /\ reply \in [Client -> Replies \cup {None}]
    BY DEF IInv, TypeOK
  <2> QED BY <1>1, <2>1, <2>2, <2>3, <2>4 DEF OnlyOf
<1>4. TypeOf(c)'
  <2>1. \/ error = None /\ pc'[c] \in Stages \ (Idle \cup {"write"}) /\ verdict'[c] = None
        \/ pc'[c] = "closed" /\ verdict'[c] = None
        \/ /\ pc'[c] = "write" /\ verdict'[c] # None
           /\ verdict'[c] \in DOMAIN Status \cup {"unserializable"}
    BY <1>1
  <2>2. pc'[c] \in Stages /\ pc'[c] # "done" /\ (pc'[c] = "write" => verdict'[c] # None)
        /\ verdict'[c] \in DOMAIN Status \cup {"unserializable", None}
    BY <2>1 DEF Stages, Idle
  <2> QED BY <1>2, <2>2 DEF TypeOf
<1>5. Ruled(c)'
  <2>1. CASE error = None
    BY <2>1
  <2>2. CASE error # None
    <3>1. pc'[c] \in {"write", "closed"}
      BY <1>1, <2>2
    <3> QED BY <3>1 DEF Ruled
  <2> QED BY <2>1, <2>2
<1>6. Told(c)'
  <2>1. pc'[c] # "done"
    BY <1>2, <1>4 DEF TypeOf
  <2>2. pc'[c] = "write" => error # None /\ error # "panic" /\ verdict'[c] = error
    BY <1>1
  <2> QED BY <2>1, <2>2, SameAnswers DEF Told
<1>7. pc'[c] = "closed" => Closed \in Answers[options][request[c]]
  BY <1>1 DEF Stages, Idle
<1>8. pc'[c] # "idle"
  BY <1>1 DEF Stages, Idle
<1> QED BY <1>3, <1>4, <1>5, <1>6, <1>7, <1>8 DEF Kept

(* The doubled slashes are out of the path of a request that is not        *)
(* redirected (server.go:45-48).                                           *)
LEMMA ServeHTTPKept ==
    ASSUME IInv, NEW c \in Client, ServeHTTP(c)
    PROVE  Kept(c)
<1> DEFINE q == request[c]
           path == FixedPath(q.path)
<1>1. pc[c] = "mux" /\ pc[c] \notin Idle
  BY DEF ServeHTTP, Idle
<1>2. /\ q \in Query /\ path \in Seq(Text) /\ options \in Option
      /\ TypeOf(c) /\ Ruled(c) /\ reply[c] = None
  BY <1>1, Busy
<1>3. TypeOK
  BY DEF IInv
<1>4. /\ UNCHANGED <<unsorted, routes, media, options, request, route, header, verdict>>
      /\ url' = [url EXCEPT ![c] = path] /\ url'[c] = path
      /\ ~Redirects(path) => pc' = [pc EXCEPT ![c] = "headers"] /\ pc'[c] = "headers" /\ reply' = reply
      /\ Redirects(path) =>
            /\ pc' = [pc EXCEPT ![c] = "done"] /\ pc'[c] = "done"
            /\ reply' = [reply EXCEPT ![c] = Moved] /\ reply'[c] = Moved
  BY <1>3 DEF ServeHTTP, TypeOK
<1>5. OnlyOf(c)
  <2>1. /\ request = [request EXCEPT ![c] = request[c]] /\ route = [route EXCEPT ![c] = route[c]]
        /\ header = [header EXCEPT ![c] = header[c]]
    BY <1>3 DEF TypeOK
  <2>2. verdict = [verdict EXCEPT ![c] = verdict[c]] /\ reply = [reply EXCEPT ![c] = reply[c]]
    BY <1>3 DEF TypeOK
  <2> QED BY <1>4, <2>1, <2>2 DEF OnlyOf
<1>6. CASE ~Redirects(path)
  <2>1. TypeOf(c)'
    BY <1>1, <1>2, <1>4, <1>6 DEF TypeOf, Stages, Idle
  <2>2. Ruled(c)'
    BY <1>1, <1>2, <1>4, <1>6 DEF Ruled
  <2>3. Told(c)'
    BY <1>4, <1>6 DEF Told
  <2> QED BY <1>4, <1>5, <1>6, <2>1, <2>2, <2>3 DEF Kept
<1>7. CASE Redirects(path)
  <2>1. TypeOf(c)'
    BY <1>1, <1>2, <1>4, <1>7, ReplyType DEF TypeOf, Stages, Idle
  <2>2. Ruled(c)'
    BY <1>4, <1>7 DEF Ruled
  <2>3. Moved \in Answers[options][q]
    BY <1>2, <1>7, SomeRoute DEF Answers, Redirects
  <2>4. Told(c)'
    BY <1>4, <1>7, <2>3, SameAnswers DEF Told
  <2> QED BY <1>4, <1>5, <1>7, <2>1, <2>2, <2>4 DEF Kept
<1> QED BY <1>6, <1>7

(* A request that gets past the checks of its headers has none of the      *)
(* first two objections, and Request-Id is set (server.go:233-271).        *)
LEMMA ValidateHeadersKept ==
    ASSUME IInv, NEW c \in Client, ValidateHeaders(c)
    PROVE  Kept(c)
<1> DEFINE q == request[c]
           error == HeaderError(q)
<1>1. pc[c] = "headers" /\ pc[c] \notin Idle
  BY DEF ValidateHeaders, Idle
<1>2. q \in Query /\ options \in Option /\ TypeOf(c) /\ Ruled(c) /\ TypeOK
  BY <1>1, Busy DEF IInv
<1>3. /\ url[c] = FixedPath(q.path) /\ ~Redirects(url[c]) /\ header[c] = Blank /\ route[c] = None
      /\ route[c] \in Path \cup {None} /\ header[c] \in Headers
  BY <1>1, <1>2 DEF Ruled, TypeOf
<1>4. /\ UNCHANGED <<unsorted, routes, media, options, request, url, route, reply>>
      /\ Check(c, error, "route")
      /\ header' = IF error = None THEN [header EXCEPT ![c] = SetHeaders(q)] ELSE header
  BY DEF ValidateHeaders
<1>5. /\ route = [route EXCEPT ![c] = route[c]] /\ header = [header EXCEPT ![c] = header[c]]
      /\ [header EXCEPT ![c] = SetHeaders(q)][c] = SetHeaders(q)
  BY <1>2 DEF TypeOK
<1>6. /\ error \in {"unauthorized", "version", None} /\ error # "panic"
      /\ error \in DOMAIN Status \cup {"unserializable", "panic", None}
      /\ error = "unauthorized" => ~ValidateAuth(q.auth)
      /\ error = "version" => ValidateAuth(q.auth) /\ OtherVersion(options, q)
  BY NoneAssumption DEF HeaderError, Status
<1>7. ASSUME error # None
      PROVE  Reply(error, header'[c], route'[c]) \in Answers[options][q]
  <2>1. header'[c] = Blank /\ route'[c] = None
    BY <1>3, <1>4, <1>7
  <2> QED BY <1>2, <1>3, <1>6, <1>7, <2>1, HeaderVerdict
<1>8. ASSUME error = None
      PROVE  Ruled(c)'
  <2>1. pc'[c] = "route"
    BY <1>4, <1>8, Checked
  <2>2. header'[c] = SetHeaders(q)
    BY <1>4, <1>5, <1>8
  <2> QED BY <1>3, <1>4, <1>8, <2>1, <2>2 DEF Ruled, HeaderError
<1>9. header' = [header EXCEPT ![c] = header'[c]] /\ header'[c] \in Headers
  BY <1>2, <1>3, <1>4, <1>5, HeaderTypes
<1>10. /\ route' = [route EXCEPT ![c] = route'[c]] /\ route'[c] \in Path \cup {None}
       /\ "route" \in Stages \ (Idle \cup {"write"})
  BY <1>3, <1>4, <1>5 DEF Stages, Idle
<1>11. error # "unserializable"
  BY <1>6, NoneAssumption
<1> HIDE DEF error
<1> QED BY <1>1, <1>4, <1>6, <1>7, <1>8, <1>9, <1>10, <1>11, Passing

(* What a sorted list routes a path to (server.go:524-565).                *)
LEMMA Routed ==
    ASSUME NEW m, NEW s, <<m, s>> \in SortedRoutes, NEW path \in Seq(Text)
    PROVE  LET found == RouteRequest(s, path)
           IN  \/ found.status = "unrecognized" /\ Fittest(m, path) = {}
               \/ \E p \in Fittest(m, path) :
                     \/ /\ found.status = "unparsable"
                        /\ \E i \in Parameters(p) : Unescaped[path[i]] = Invalid
                     \/ /\ found.status = "routed" /\ found.route = p
                        /\ \A i \in Parameters(p) : Unescaped[path[i]] # Invalid
<1> DEFINE matching == {i \in DOMAIN s : Matches(s[i], path)}
           first == CHOOSE i \in matching : \A j \in matching : i <= j
           found == RouteRequest(s, path)
           p == s[first]
           S == Parameters(p)
<1>1. /\ matching = {} <=> Fitting(m, path) = {}
      /\ matching # {} => s[first] \in Fittest(m, path)
  BY FirstMatch
<1>2. found = IF matching = {} THEN Result("unrecognized") ELSE RouteTo(p, path)
  BY DEF RouteRequest
<1> HIDE DEF matching, first, found
<1>3. CASE matching = {}
  BY <1>1, <1>2, <1>3 DEF Fittest, Result, found
<1>4. CASE matching # {}
  <2>1. p \in Fittest(m, path) /\ p \in Path /\ Matches(p, path)
    BY <1>1, <1>4 DEF Fittest, Fitting
  <2>2. \/ /\ found = Result("unparsable")
           /\ \E n \in 1..NumParams(p) : Unescaped[path[Nth(S, n)]] = Invalid
        \/ /\ found.status = "routed" /\ found.route = p
           /\ \A n \in 1..NumParams(p) : Unescaped[path[Nth(S, n)]] # Invalid
    BY <1>2, <1>4, <2>1, RouteToResult
  <2>3. S \subseteq Int /\ IsFiniteSet(S) /\ Cardinality(S) = NumParams(p)
    BY <2>1, ParametersOfPath
  <2>4. /\ \A n \in 1..NumParams(p) : Nth(S, n) \in S
        /\ \A i \in S : Position(S, i) \in 1..NumParams(p) /\ Nth(S, Position(S, i)) = i
    <3> HIDE DEF S, p
    <3> QED BY <2>3, NthOfPosition
  <2> HIDE DEF S, p
  <2>5. CASE found = Result("unparsable")
    <3>1. found.status = "unparsable" /\ found.status # "routed"
      BY <2>5 DEF Result
    <3>2. \E i \in S : Unescaped[path[i]] = Invalid
      BY <2>2, <2>4, <3>1
    <3> QED BY <2>1, <3>1, <3>2 DEF found, S
  <2>6. CASE found # Result("unparsable")
    <3>1. \A i \in S : Unescaped[path[i]] # Invalid
      BY <2>2, <2>4, <2>6
    <3> QED BY <2>1, <2>2, <2>6, <3>1 DEF found, S
  <2> QED BY <2>5, <2>6
<1> QED BY <1>3, <1>4

(* A request that is routed has a fittest path, and IDs that can be        *)
(* unescaped (server.go:273-291).                                          *)
LEMMA FindRouteKept ==
    ASSUME IInv, NEW c \in Client, FindRoute(c)
    PROVE  Kept(c)
<1> DEFINE q == request[c]
           path == FixedPath(q.path)
           found == RouteRequest(routes[q.method], path)
           routed == found.status = "routed"
           error == IF routed THEN None ELSE found.status
<1>1. pc[c] = "route" /\ pc[c] \notin Idle
  BY DEF FindRoute, Idle
<1>2. /\ q \in Query /\ options \in Option /\ TypeOf(c) /\ Ruled(c) /\ TypeOK
      /\ path \in Seq(Text) /\ <<q.method, routes[q.method]>> \in SortedRoutes
  BY <1>1, Busy DEF IInv
<1>3. /\ url[c] = path /\ ~Redirects(path) /\ header[c] = SetHeaders(q) /\ route[c] = None
      /\ HeaderError(q) = None /\ header[c] \in Headers
  BY <1>1, <1>2 DEF Ruled, TypeOf
<1>4. ValidateAuth(q.auth) /\ ~OtherVersion(options, q)
  BY <1>3, NoneAssumption DEF HeaderError, Status
<1>5. /\ UNCHANGED <<unsorted, routes, media, options, request, url, header, reply>>
      /\ Check(c, error, "response")
      /\ route' = IF routed THEN [route EXCEPT ![c] = found.route] ELSE route
  BY <1>3 DEF FindRoute
<1>6. /\ header = [header EXCEPT ![c] = header[c]] /\ route = [route EXCEPT ![c] = route[c]]
      /\ \A r : [route EXCEPT ![c] = r][c] = r
  BY <1>2 DEF TypeOK
<1>7. \/ found.status = "unrecognized" /\ Fittest(q.method, path) = {}
      \/ \E p \in Fittest(q.method, path) :
            \/ /\ found.status = "unparsable"
               /\ \E i \in Parameters(p) : Unescaped[path[i]] = Invalid
            \/ /\ found.status = "routed" /\ found.route = p
               /\ \A i \in Parameters(p) : Unescaped[path[i]] # Invalid
  <2> HIDE DEF q, path
  <2> QED BY <1>2, Routed
<1>8. "response" \in Stages \ (Idle \cup {"write"}) /\ "unrecognized" # None /\ "unparsable" # None
  BY NoneAssumption DEF Stages, Idle, Status
<1>9. CASE ~routed
  <2>1. error = found.status /\ error \in {"unrecognized", "unparsable"} /\ error # None
    BY <1>7, <1>8, <1>9
  <2>2. error \in DOMAIN Status \cup {"unserializable", "panic", None}
    BY <2>1 DEF Status
  <2>3. header'[c] = SetHeaders(q) /\ route'[c] = None /\ route' = route /\ header' = header
    BY <1>3, <1>5, <1>9
  <2>4. Reply(error, SetHeaders(q), None) \in Answers[options][q]
    <3>1. /\ Fittest(q.method, path) = {} =>
                Reply("unrecognized", SetHeaders(q), None) \in Answers[options][q]
          /\ \A p \in Fittest(q.method, path) :
                (\E i \in Parameters(p) : Unescaped[path[i]] = Invalid) =>
                   Reply("unparsable", SetHeaders(q), None) \in Answers[options][q]
      BY <1>2, <1>3, <1>4, RouteVerdict
    <3> HIDE DEF found
    <3> QED BY <1>7, <1>9, <2>1, <3>1
  <2> HIDE DEF error
  <2> QED BY <1>1, <1>3, <1>5, <1>6, <2>1, <2>2, <2>3, <2>4, Passing
<1>10. CASE routed
  <2>1. error = None
    BY <1>10
  <2>2. /\ found.route \in Fittest(q.method, path)
        /\ \A i \in Parameters(found.route) : Unescaped[path[i]] # Invalid
    BY <1>7, <1>10
  <2>3. found.route \in Path
    BY <2>2 DEF Fittest, Fitting
  <2>4. route'[c] = found.route /\ header'[c] = SetHeaders(q) /\ header' = header
        /\ route' = [route EXCEPT ![c] = route'[c]]
    BY <1>3, <1>5, <1>6, <1>10
  <2>5. pc'[c] = "response"
    BY <1>5, <2>1, Checked
  <2>6. Ruled(c)'
    <3>1. /\ url' = url /\ request' = request /\ options' = options
          /\ route'[c] = found.route /\ header'[c] = SetHeaders(q)
      BY <1>5, <2>4
    <3>2. HeaderError(q)' = HeaderError(q)
      BY <3>1 DEF HeaderError
    <3>3. /\ url'[c] = path /\ path = FixedPath(q.path) /\ ~Redirects(path)
          /\ HeaderError(q)' = None
      BY <1>3, <3>1, <3>2
    <3>4. \A id \in {path[i] : i \in Parameters(found.route)} : Unescaped[id] # Invalid
      BY <2>2
    <3> HIDE DEF found, path
    <3> QED BY ONLY <2>2, <2>5, <3>1, <3>3, <3>4 DEF Ruled
  <2>7. "panic" # None
    BY NoneAssumption
  <2> HIDE DEF error
  <2> QED BY <1>1, <1>3, <1>5, <1>6, <1>8, <2>1, <2>3, <2>4, <2>6, <2>7, Passing
<1> QED BY <1>9, <1>10

(* What is known once there is a route.                                    *)
LEMMA OnItsRoute ==
    ASSUME IInv, NEW c \in Client,
           pc[c] \in {"response", "params", "validate", "generate"}
    PROVE  LET q == request[c]
               op == <<q.method, route[c]>>
           IN  /\ pc[c] \notin Idle /\ OnRoute(options, q, route[c])
               /\ route[c] \in Path /\ header[c] \in Headers /\ Operation(c) = op
               /\ media[op] \in RequestMediaTypes(op)
               /\ pc[c] # "response" =>
                     /\ Response[op] # {None} /\ ContentOf(op) # None
                     /\ header[c] = [SetHeaders(q) EXCEPT !.type = ContentOf(op)]
               /\ pc[c] \in {"validate", "generate"} => WithContent(options, q, route[c])
               /\ header = [header EXCEPT ![c] = header[c]]
               /\ route = [route EXCEPT ![c] = route[c]]
<1> DEFINE q == request[c]
           op == <<q.method, route[c]>>
<1>1. pc[c] \notin Idle
  BY DEF Idle
<1>2. /\ q \in Query /\ options \in Option /\ TypeOf(c) /\ Ruled(c) /\ TypeOK
      /\ \A p \in Path : media[<<q.method, p>>] \in RequestMediaTypes(<<q.method, p>>)
  BY <1>1, Busy DEF IInv
<1>3. /\ url[c] = FixedPath(q.path) /\ ~Redirects(url[c]) /\ HeaderError(q) = None
      /\ route[c] \in Fittest(q.method, url[c])
      /\ \A id \in {url[c][i] : i \in Parameters(route[c])} : Unescaped[id] # Invalid
  BY <1>2 DEF Ruled
<1>4. ValidateAuth(q.auth) /\ ~OtherVersion(options, q)
  BY <1>3, NoneAssumption DEF HeaderError, Status
<1>5. OnRoute(options, q, route[c])
  BY <1>2, <1>3, <1>4 DEF OnRoute
<1>6. route[c] \in Path
  BY <1>5, OnRouteObjections
<1>7. Operation(c) = op
  BY DEF Operation
<1>8. ASSUME pc[c] # "response"
      PROVE  /\ Response[op] # {None} /\ ContentOf(op) # None
             /\ header[c] = [SetHeaders(q) EXCEPT !.type = ContentOf(op)]
  <2>1. /\ ContentError(op) = None
        /\ header[c] = [SetHeaders(q) EXCEPT !.type = ContentOf(op)]
    BY <1>2, <1>7, <1>8 DEF Ruled
  <2> QED BY <2>1, NoneAssumption DEF ContentError, Status
<1>9. ASSUME pc[c] \in {"validate", "generate"}
      PROVE  WithContent(options, q, route[c])
  <2>1. q.data \notin Unparsable
    BY <1>2, <1>9 DEF Ruled
  <2> QED BY <1>5, <1>8, <1>9, <2>1 DEF WithContent
<1>10. header[c] \in Headers
  BY <1>2 DEF TypeOf
<1>11. header \in [Client -> Headers] /\ route \in [Client -> Path \cup {None}]
  BY <1>2 DEF TypeOK
<1> QED BY <1>1, <1>2, <1>5, <1>6, <1>7, <1>8, <1>9, <1>10, <1>11

(* One that gets a Content-Type has a response of that type                *)
(* (server.go:293-319).                                                    *)
LEMMA ChooseContentKept ==
    ASSUME IInv, NEW c \in Client, ChooseContent(c)
    PROVE  Kept(c)
<1> DEFINE q == request[c]
           p == route[c]
           op == <<q.method, p>>
           error == ContentError(op)
           typed == [SetHeaders(q) EXCEPT !.type = ContentOf(op)]
<1>1. pc[c] = "response"
  BY DEF ChooseContent
<1>2. /\ pc[c] \notin Idle /\ OnRoute(options, q, p) /\ p \in Path /\ header[c] \in Headers
      /\ Operation(c) = op
      /\ header = [header EXCEPT ![c] = header[c]] /\ route = [route EXCEPT ![c] = route[c]]
  BY <1>1, OnItsRoute
<1>3. TypeOK /\ Ruled(c) /\ q \in Query
  BY <1>2, Busy DEF IInv
<1>4. header[c] = SetHeaders(q)
  BY <1>1, <1>3 DEF Ruled
<1>5. /\ UNCHANGED <<unsorted, routes, media, options, request, url, route, reply>>
      /\ Check(c, error, "params")
      /\ header' = IF error = None THEN [header EXCEPT ![c].type = ContentOf(op)] ELSE header
  BY <1>2 DEF ChooseContent
<1>6. [header EXCEPT ![c].type = ContentOf(op)] = [header EXCEPT ![c] = typed]
  BY <1>3, <1>4 DEF TypeOK
<1>7. [header EXCEPT ![c] = typed][c] = typed /\ typed \in Headers
  BY <1>3, HeaderTypes DEF TypeOK
<1>8. /\ error \in {"noResponse", "noContent", None}
      /\ error \in DOMAIN Status \cup {"unserializable", "panic", None}
      /\ error # "panic" /\ error # "unserializable"
      /\ error = "noResponse" => Response[op] = {None}
      /\ error = "noContent" => Response[op] # {None} /\ ContentOf(op) = None
  BY NoneAssumption DEF ContentError, Status
<1>9. ASSUME error # None
      PROVE  Reply(error, header'[c], route'[c]) \in Answers[options][q]
  <2>1. header'[c] = SetHeaders(q) /\ route'[c] = p
    BY <1>4, <1>5, <1>9
  <2>2. error \in {"noResponse", "noContent"}
    BY <1>8, <1>9
  <2> QED BY <1>2, <1>8, <2>1, <2>2, ContentVerdict
<1>10. ASSUME error = None PROVE Ruled(c)' /\ header' = [header EXCEPT ![c] = typed]
  <2>1. pc'[c] = "params"
    BY <1>5, <1>10, Checked
  <2>2. header' = [header EXCEPT ![c] = typed] /\ header'[c] = typed
    BY <1>5, <1>6, <1>7, <1>10
  <2>3. UNCHANGED <<request, route, url, options>>
    BY <1>5
  <2> QED BY <1>1, <1>2, <1>3, <1>10, <2>1, <2>2, <2>3 DEF Ruled, HeaderError, Operation
<1>11. header' = [header EXCEPT ![c] = header'[c]] /\ header'[c] \in Headers
  BY <1>2, <1>5, <1>7, <1>10
<1>12. /\ route' = [route EXCEPT ![c] = route'[c]] /\ route'[c] \in Path \cup {None}
       /\ "params" \in Stages \ (Idle \cup {"write"})
  BY <1>2, <1>5 DEF Stages, Idle
<1> HIDE DEF error
<1> QED BY <1>2, <1>5, <1>8, <1>9, <1>10, <1>11, <1>12, Passing

(* One that gets past ParseParams has parameters (server.go:321-336).      *)
LEMMA ParseParamsKept ==
    ASSUME IInv, NEW c \in Client, ParseParams(c)
    PROVE  Kept(c)
<1> DEFINE q == request[c]
           p == route[c]
           op == <<q.method, p>>
           error == IF q.data \in Unparsable THEN "params" ELSE None
<1>1. pc[c] = "params"
  BY DEF ParseParams
<1>2. /\ pc[c] \notin Idle /\ OnRoute(options, q, p) /\ p \in Path /\ header[c] \in Headers
      /\ Response[op] # {None} /\ ContentOf(op) # None
      /\ header[c] = [SetHeaders(q) EXCEPT !.type = ContentOf(op)]
      /\ header = [header EXCEPT ![c] = header[c]] /\ route = [route EXCEPT ![c] = route[c]]
  BY <1>1, OnItsRoute
<1>3. Ruled(c)
  BY <1>2, Busy
<1>4. /\ UNCHANGED <<unsorted, routes, media, options, request, url, route, header, reply>>
      /\ Check(c, error, "validate")
  BY DEF ParseParams
<1>5. /\ error \in DOMAIN Status \cup {"unserializable", "panic", None}
      /\ error # "panic" /\ error # "unserializable"
      /\ error = None => q.data \notin Unparsable
  BY NoneAssumption DEF Status
<1>6. ASSUME error # None
      PROVE  Reply(error, header'[c], route'[c]) \in Answers[options][q]
  <2>1. q.data \in Unparsable /\ error = "params"
    BY <1>6
  <2> QED BY <1>2, <1>4, <2>1, ContentVerdict
<1>7. ASSUME error = None PROVE Ruled(c)'
  <2>1. pc'[c] = "validate"
    BY <1>4, <1>7, Checked
  <2> QED BY <1>1, <1>3, <1>4, <1>5, <1>7, <2>1 DEF Ruled, HeaderError, Operation
<1>8. "validate" \in Stages \ (Idle \cup {"write"})
  BY DEF Stages, Idle
<1>9. /\ route' = [route EXCEPT ![c] = route'[c]] /\ header' = [header EXCEPT ![c] = header'[c]]
      /\ route'[c] \in Path \cup {None} /\ header'[c] \in Headers
  BY <1>2, <1>4
<1> HIDE DEF error
<1> QED BY <1>2, <1>4, <1>5, <1>6, <1>7, <1>8, <1>9, Passing

(* One that gets past validateAndCoerceRequest has the right Content-Type  *)
(* and data that its schema admits; where the code dereferences nil, the   *)
(* specification has no body (server.go:338-345, 787-839).                 *)
LEMMA ValidateAndCoerceRequestKept ==
    ASSUME IInv, NEW c \in Client, ValidateAndCoerceRequest(c)
    PROVE  Kept(c)
<1> DEFINE q == request[c]
           p == route[c]
           op == <<q.method, p>>
           type == media[op]
           body == Body[op]
           error == RequestError(q, op)
           typed == [SetHeaders(q) EXCEPT !.type = ContentOf(op)]
<1>1. pc[c] = "validate"
  BY DEF ValidateAndCoerceRequest
<1>2. /\ pc[c] \notin Idle /\ p \in Path /\ header[c] \in Headers /\ Operation(c) = op
      /\ WithContent(options, q, p) /\ type \in RequestMediaTypes(op) /\ header[c] = typed
      /\ header = [header EXCEPT ![c] = header[c]] /\ route = [route EXCEPT ![c] = route[c]]
  BY <1>1, OnItsRoute
<1>3. Ruled(c)
  BY <1>2, Busy
<1>4. /\ UNCHANGED <<unsorted, routes, media, options, request, url, route, header, reply>>
      /\ Check(c, error, "generate")
  BY <1>2 DEF ValidateAndCoerceRequest
<1>5. \/ error = "panic" /\ ~RightType(q, type) /\ type = None
      \/ error = "noType" /\ ~RightType(q, type) /\ type # None /\ q.type = None
      \/ error = "otherType" /\ ~RightType(q, type) /\ type # None /\ q.type # None
      \/ /\ RightType(q, type)
         /\ \/ error = "panic" /\ type \notin DOMAIN body
            \/ error = "coercion" /\ type \in DOMAIN body /\ q.data \notin Coercible[body[type]]
            \/ /\ error = "validation" /\ type \in DOMAIN body
               /\ q.data \in Coercible[body[type]] /\ q.data \notin Valid[body[type]]
            \/ error = None
  <2>1. \/ TypeError(q, type) = "panic" /\ ~RightType(q, type) /\ type = None
        \/ TypeError(q, type) = "noType" /\ ~RightType(q, type) /\ type # None /\ q.type = None
        \/ TypeError(q, type) = "otherType" /\ ~RightType(q, type) /\ type # None /\ q.type # None
        \/ TypeError(q, type) = None /\ RightType(q, type)
    BY DEF TypeError, RightType
  <2>2. "panic" # None /\ "noType" # None /\ "otherType" # None
    BY NoneAssumption DEF Status
  <2> QED BY <2>1, <2>2 DEF RequestError
<1>6. /\ error \in DOMAIN Status \cup {"unserializable", "panic", None}
      /\ error # "unserializable" /\ "panic" # None
  BY <1>5, NoneAssumption DEF Status
<1>7. error = "panic" => Closed \in Answers[options][q]
  <2>1. ~RightType(q, type) /\ type = None => Closed \in Answers[options][q]
    BY <1>2, TypeVerdict
  <2>2. RightType(q, type) /\ type \notin DOMAIN body => Closed \in Answers[options][q]
    BY <1>2, DataVerdict
  <2>3. error = "panic" => \/ ~RightType(q, type) /\ type = None
                           \/ RightType(q, type) /\ type \notin DOMAIN body
    BY <1>5, <1>6
  <2> HIDE DEF error, type, body
  <2> QED BY <2>1, <2>2, <2>3
<1>8. error \in {"noType", "otherType"} => Reply(error, typed, p) \in Answers[options][q]
  <2>1. error \in {"noType", "otherType"} => ~RightType(q, type)
    BY <1>5, <1>6, NoneAssumption DEF Status
  <2>2. error = "noType" => type # None /\ q.type = None
    BY <1>5, <1>6, NoneAssumption DEF Status
  <2>3. error = "otherType" => type # None /\ q.type # None
    BY <1>5, <1>6, NoneAssumption DEF Status
  <2>4. ~RightType(q, type) =>
           /\ type # None /\ q.type = None => Reply("noType", typed, p) \in Answers[options][q]
           /\ type # None /\ q.type # None => Reply("otherType", typed, p) \in Answers[options][q]
    BY <1>2, TypeVerdict
  <2> HIDE DEF error, type, typed
  <2> QED BY <2>1, <2>2, <2>3, <2>4
<1>9. error \in {"coercion", "validation"} => Reply(error, typed, p) \in Answers[options][q]
  <2>1. error \in {"coercion", "validation"} => RightType(q, type) /\ type \in DOMAIN body
    BY <1>5, <1>6, NoneAssumption DEF Status
  <2>2. error = "coercion" => q.data \notin Coercible[body[type]]
    BY <1>5, <1>6, NoneAssumption DEF Status
  <2>3. error = "validation" => q.data \in Coercible[body[type]] /\ q.data \notin Valid[body[type]]
    BY <1>5, <1>6, NoneAssumption DEF Status
  <2>4. RightType(q, type) /\ type \in DOMAIN body =>
           /\ q.data \notin Coercible[body[type]] => Reply("coercion", typed, p) \in Answers[options][q]
           /\ q.data \in Coercible[body[type]] /\ q.data \notin Valid[body[type]]
              => Reply("validation", typed, p) \in Answers[options][q]
    BY <1>2, DataVerdict
  <2> HIDE DEF error, type, typed, body
  <2> QED BY <2>1, <2>2, <2>3, <2>4
<1>10. error # None /\ error # "panic" => Reply(error, header'[c], route'[c]) \in Answers[options][q]
  <2>1. header'[c] = typed /\ route'[c] = p
    BY <1>2, <1>4
  <2>2. error \in {"panic", "noType", "otherType", "coercion", "validation", None}
    BY <1>5
  <2> HIDE DEF error, typed
  <2> QED BY <1>8, <1>9, <2>1, <2>2
<1>11. ASSUME error = None PROVE Ruled(c)'
  <2>1. pc'[c] = "generate"
    BY <1>4, <1>11, Checked
  <2>2. RequestError(q, op)' = RequestError(q, op) /\ Operation(c)' = op
    BY <1>4 DEF RequestError, Operation
  <2>3. HeaderError(q)' = HeaderError(q)
    BY <1>4 DEF HeaderError
  <2> QED BY <1>1, <1>2, <1>3, <1>4, <1>11, <2>1, <2>2, <2>3 DEF Ruled
<1>12. "generate" \in Stages \ (Idle \cup {"write"})
  BY DEF Stages, Idle
<1>13. /\ route' = [route EXCEPT ![c] = route'[c]] /\ header' = [header EXCEPT ![c] = header'[c]]
       /\ route'[c] \in Path \cup {None} /\ header'[c] \in Headers
  BY <1>2, <1>4
<1> HIDE DEF error
<1> QED BY <1>2, <1>4, <1>6, <1>7, <1>10, <1>11, <1>12, <1>13, Passing

(* One that gets to Generate has no objection left but to its expansions,  *)
(* and ends as Generate does (server.go:347-374).                          *)
LEMMA GenerateKept ==
    ASSUME IInv, NEW c \in Client, Generate(c)
    PROVE  Kept(c)
<1> DEFINE q == request[c]
           p == route[c]
           op == <<q.method, p>>
           type == media[op]
           body == Body[op]
           typed == [SetHeaders(q) EXCEPT !.type = ContentOf(op)]
<1>1. pc[c] = "generate"
  BY DEF Generate
<1>2. /\ pc[c] \notin Idle /\ p \in Path /\ header[c] \in Headers /\ Operation(c) = op
      /\ WithContent(options, q, p) /\ type \in RequestMediaTypes(op) /\ header[c] = typed
      /\ header = [header EXCEPT ![c] = header[c]] /\ route = [route EXCEPT ![c] = route[c]]
  BY <1>1, OnItsRoute
<1>3. Ruled(c) /\ q \in Query /\ options \in Option
  BY <1>2, Busy
<1>4. /\ RightType(q, type) /\ type \in DOMAIN body
      /\ q.data \in Coercible[body[type]] /\ q.data \in Valid[body[type]]
  <2>1. RequestError(q, op) = None
    BY <1>1, <1>2, <1>3 DEF Ruled
  <2>2. /\ "panic" # None /\ "noType" # None /\ "otherType" # None
        /\ "coercion" # None /\ "validation" # None
    BY NoneAssumption DEF Status
  <2>3. TypeError(q, type) = None => RightType(q, type)
    BY <2>2 DEF TypeError, RightType
  <2> HIDE DEF type, body
  <2> QED BY <2>1, <2>2, <2>3 DEF RequestError, type, body
<1>5. /\ q.data \in Untyped => Closed \in Answers[options][q]
      /\ q.data \notin Untyped => Objections(options, q, p, type) = {}
  BY <1>2, <1>4, DataVerdict
<1>6. UNCHANGED <<unsorted, routes, media, options, request, url, route, header, reply>>
  BY DEF Generate
<1>7. /\ route' = [route EXCEPT ![c] = route'[c]] /\ header' = [header EXCEPT ![c] = header'[c]]
      /\ route'[c] = p /\ header'[c] = typed
      /\ route'[c] \in Path \cup {None} /\ header'[c] \in Headers
  BY <1>2, <1>6
<1>8. "panic" # None /\ "panic" \in DOMAIN Status \cup {"unserializable", "panic", None}
  BY NoneAssumption
<1>9. CASE q.data \in Untyped
  <2>1. Check(c, "panic", "write")
    BY <1>9 DEF Generate
  <2> QED BY <1>2, <1>5, <1>6, <1>7, <1>8, <1>9, <2>1, Passing
<1>10. CASE q.data \notin Untyped
  <2>1. PICK o \in Outcome[p][q.data] : Check(c, GenerateError(o), "write")
    BY <1>10 DEF Generate
  <2> DEFINE error == GenerateError(o)
  <2>2. o \in {"ok", "error", "panic", "unserializable"}
    BY <1>2, <1>3, RequestsAssumption
  <2>3. ~Redirects(Slashes(q.path)) /\ p \in Routes(q) /\ type \in Media(q, p)
    BY <1>2, OnRouteObjections DEF WithContent
  <2>4. /\ o = "ok" => Reply("ok", HeadersOf(q, p, "ok"), p) \in Answers[options][q]
        /\ o = "error" => Reply("generation", HeadersOf(q, p, "generation"), p) \in Answers[options][q]
        /\ o = "panic" => Closed \in Answers[options][q]
        /\ o = "unserializable" =>
              IF options.verbose THEN Closed \in Answers[options][q]
              ELSE Reply("serialization", HeadersOf(q, p, "serialization"), p) \in Answers[options][q]
    BY <1>3, <1>5, <1>10, <2>3, NoObjection
  <2>5. /\ HeadersOf(q, p, "ok") = typed /\ HeadersOf(q, p, "generation") = typed
        /\ HeadersOf(q, p, "serialization") = typed
    BY DEF HeadersOf
  <2>6. \/ o = "ok" /\ error = "ok"
        \/ o = "error" /\ error = "generation"
        \/ o = "panic" /\ error = "panic"
        \/ o = "unserializable" /\ options.verbose /\ error = "panic"
        \/ o = "unserializable" /\ ~options.verbose /\ error = "unserializable"
    BY <2>2 DEF GenerateError
  <2>7. /\ error \in DOMAIN Status \cup {"unserializable", "panic", None} /\ error # None
    BY <2>6, NoneAssumption DEF Status
  <2>8. error = "panic" => Closed \in Answers[options][q]
    <3> HIDE DEF error
    <3> QED BY <2>4, <2>6
  <2>9. error # "panic" => Reply(IF error = "unserializable" THEN "serialization" ELSE error,
                                 header'[c], route'[c]) \in Answers[options][q]
    <3> HIDE DEF error, typed
    <3> QED BY <1>7, <2>4, <2>5, <2>6
  <2> HIDE DEF error
  <2> QED BY <1>2, <1>6, <1>7, <2>1, <2>7, <2>8, <2>9, Passing DEF error
<1> QED BY <1>9, <1>10

(* What is written is what the verdict calls for, that it cannot be        *)
(* serialised included (server.go:892-928).                                *)
LEMMA WriteResponseKept ==
    ASSUME IInv, NEW c \in Client, WriteResponse(c)
    PROVE  Kept(c)
<1> DEFINE q == request[c]
           v == verdict[c]
<1>1. pc[c] = "write" /\ pc[c] \notin Idle
  BY DEF WriteResponse, Idle
<1>2. TypeOf(c) /\ Told(c) /\ TypeOK /\ q \in Query /\ reply[c] = None
  BY <1>1, Busy DEF IInv
<1>3. /\ v \in DOMAIN Status \cup {"unserializable"} /\ header[c] \in Headers
      /\ route[c] \in Path \cup {None}
  BY <1>1, <1>2 DEF TypeOf
<1>4. Reply(IF v = "unserializable" THEN "serialization" ELSE v, header[c], route[c])
         \in Answers[options][q]
  BY <1>1, <1>2, SameAnswers DEF Told
<1>5. UNCHANGED <<unsorted, routes, media, options, request, url, route, header>>
  BY DEF WriteResponse
<1>6. /\ request = [request EXCEPT ![c] = request[c]] /\ route = [route EXCEPT ![c] = route[c]]
      /\ header = [header EXCEPT ![c] = header[c]] /\ url = [url EXCEPT ![c] = url[c]]
      /\ pc = [pc EXCEPT ![c] = pc[c]]
  BY <1>2 DEF TypeOK
<1>7. verdict = [verdict EXCEPT ![c] = verdict[c]] /\ reply = [reply EXCEPT ![c] = reply[c]]
  BY <1>2 DEF TypeOK
<1>8. CASE v = "unserializable"
  <2>1. /\ pc' = pc /\ reply' = reply
        /\ verdict' = [verdict EXCEPT ![c] = "serialization"] /\ verdict'[c] = "serialization"
    BY <1>2, <1>8 DEF WriteResponse, TypeOK
  <2>2. OnlyOf(c)
    BY <1>5, <1>6, <1>7, <2>1 DEF OnlyOf
  <2>3. TypeOf(c)'
    <3>1. "serialization" \in DOMAIN Status /\ "serialization" # None
      BY NoneAssumption DEF Status
    <3> QED BY <1>1, <1>2, <1>5, <2>1, <3>1 DEF TypeOf
  <2>4. Ruled(c)'
    BY <1>1, <2>1 DEF Ruled
  <2>5. Told(c)'
    BY <1>1, <1>4, <1>5, <1>8, <2>1, SameAnswers DEF Told
  <2> QED BY <1>1, <1>5, <2>1, <2>2, <2>3, <2>4, <2>5 DEF Kept
<1>9. CASE v # "unserializable"
  <2>1. /\ pc' = [pc EXCEPT ![c] = "done"] /\ pc'[c] = "done" /\ verdict' = verdict
        /\ reply' = [reply EXCEPT ![c] = Reply(v, header[c], route[c])]
        /\ reply'[c] = Reply(v, header[c], route[c])
    BY <1>2, <1>9 DEF WriteResponse, TypeOK
  <2>2. OnlyOf(c)
    BY <1>5, <1>6, <1>7, <2>1 DEF OnlyOf
  <2>3. reply'[c] \in Replies /\ reply'[c] # None
    BY <1>3, <1>9, <2>1, ReplyType
  <2>4. TypeOf(c)'
    BY <1>2, <1>5, <2>1, <2>3 DEF TypeOf, Stages, Idle
  <2>5. Ruled(c)'
    BY <2>1 DEF Ruled
  <2>6. Told(c)'
    BY <1>4, <1>5, <1>9, <2>1, SameAnswers DEF Told
  <2> QED BY <1>5, <2>1, <2>2, <2>4, <2>5, <2>6 DEF Kept
<1> QED BY <1>8, <1>9

(* All steps of a handler.                                                 *)
LEMMA HandleRequestKept ==
    ASSUME IInv, NEW c \in Client, HandleRequest(c)
    PROVE  Kept(c) /\ pc[c] \notin Idle
BY ServeHTTPKept, ValidateHeadersKept, FindRouteKept, ChooseContentKept, ParseParamsKept,
   ValidateAndCoerceRequestKept, GenerateKept, WriteResponseKept
   DEF HandleRequest, ServeHTTP, ValidateHeaders, FindRoute, ChooseContent, ParseParams,
       ValidateAndCoerceRequest, Generate, WriteResponse, Idle

----------------------------------------------------------------------------
(* The steps of the process.                                               *)

(* The table of a method is complete when it is sorted, and the media type *)
(* of every operation is one of its body.                                  *)
LEMMA InitializeRouterKept ==
    ASSUME IInv, NEW m \in Method, InitializeRouter(m)
    PROVE  IInv' /\ pc' = pc
<1>1. PICK sorted \in SortedRoutes :
         sorted[1] = m /\ routes' = [routes EXCEPT ![m] = sorted[2]]
  BY SameRoutes DEF InitializeRouter, R!InitializeRouter
<1>2. sorted = <<m, sorted[2]>>
  BY <1>1, SortedRoutesPairs
<1>3. PICK choice \in MediaChoices[m] :
         media' = [op \in DOMAIN media |-> IF op[1] = m THEN choice[op[2]] ELSE media[op]]
  BY DEF InitializeRouter
<1>4. /\ m \in unsorted /\ unsorted' = unsorted \ {m}
      /\ UNCHANGED <<options, pc, request, url, route, header, verdict, reply>>
  BY DEF InitializeRouter, R!InitializeRouter
<1>5. TypeOK /\ \A n \in Method \ unsorted : <<n, routes[n]>> \in SortedRoutes
  BY DEF IInv
<1>6. \A d \in Client : pc[d] \in Idle
  BY <1>4, <1>5 DEF TypeOK, R!Serving
<1>7. \A op \in DOMAIN media' : op[1] \notin unsorted' => media'[op] \in RequestMediaTypes(op)
  <2> SUFFICES ASSUME NEW op \in DOMAIN media', op[1] \notin unsorted'
               PROVE  media'[op] \in RequestMediaTypes(op)
    OBVIOUS
  <2>1. op \in DOMAIN media /\ op \in Method \X Path
    BY <1>3, <1>5 DEF TypeOK
  <2>2. CASE op[1] = m
    <3>1. media'[op] = choice[op[2]] /\ op = <<m, op[2]>> /\ op[2] \in Path
      BY <1>3, <2>1, <2>2
    <3>2. \A p \in Path : choice[p] \in RequestMediaTypes(<<m, p>>)
      BY DEF MediaChoices
    <3> QED BY <3>1, <3>2
  <2>3. CASE op[1] # m
    BY <1>3, <1>4, <1>5, <2>1, <2>3 DEF TypeOK
  <2> QED BY <2>2, <2>3
<1>8. TypeOK'
  <2>1. DOMAIN routes' = Method /\ DOMAIN media' = Method \X Path
    BY <1>1, <1>3, <1>5 DEF TypeOK
  <2>2. \A d \in Client :
           /\ pc'[d] \notin Idle => R!Serving' /\ request'[d] # None
           /\ reply'[d] # None <=> pc'[d] = "done"
           /\ pc'[d] = "write" => verdict'[d] # None
    BY <1>4, <1>5, <1>6 DEF TypeOK
  <2> QED BY <1>4, <1>5, <1>7, <2>1, <2>2 DEF TypeOK
<1>9. \A n \in Method \ unsorted' : <<n, routes'[n]>> \in SortedRoutes
  BY <1>1, <1>2, <1>4, <1>5 DEF TypeOK
<1>10. ASSUME NEW d \in Client PROVE Ruled(d)' /\ Told(d)'
  <2>1. pc'[d] = pc[d] /\ pc[d] \in Idle /\ Told(d)
    BY <1>4, <1>6 DEF IInv
  <2>2. Ruled(d)'
    BY <2>1 DEF Ruled, Idle
  <2>3. Told(d)'
    BY <1>4, <2>1 DEF Told
  <2> QED BY <2>2, <2>3
<1> QED BY <1>4, <1>8, <1>9, <1>10 DEF IInv

(* Nobody is left waiting when the process is started again, and what      *)
(* clients have been told stays true.                                      *)
LEMMA RestartKept ==
    ASSUME IInv, Restart
    PROVE  IInv' /\ \A c \in Client : pc'[c] \in Idle
<1>1. TypeOK
  BY DEF IInv
<1>2. /\ unsorted' = Method /\ routes' = [m \in Method |-> <<>>]
      /\ media' = [op \in DOMAIN media |-> None] /\ UNCHANGED <<options, request, reply>>
      /\ pc' = [d \in Client |-> IF pc[d] \in Idle THEN pc[d] ELSE "closed"]
      /\ url' = [d \in Client |-> <<>>] /\ route' = [d \in Client |-> None]
      /\ header' = [d \in Client |-> Blank] /\ verdict' = [d \in Client |-> None]
  BY DEF Restart, R!Restart
<1>3. \A d \in Client : pc'[d] \in Idle /\ (pc'[d] = "done" <=> pc[d] = "done")
  BY <1>2 DEF Idle
<1>4. TypeOK'
  <2>1. pc' \in [Client -> Stages] /\ <<>> \in Seq(Text)
    BY <1>2, <1>3 DEF Stages
  <2>2. /\ url' \in [Client -> Seq(Text)] /\ route' \in [Client -> Path \cup {None}]
        /\ header' \in [Client -> Headers]
        /\ verdict' \in [Client -> DOMAIN Status \cup {"unserializable", None}]
    BY <1>2, <2>1, HeaderTypes
  <2>3. \A d \in Client :
           /\ pc'[d] \notin Idle => R!Serving' /\ request'[d] # None
           /\ reply'[d] # None <=> pc'[d] = "done"
           /\ pc'[d] = "write" => verdict'[d] # None
    BY <1>1, <1>2, <1>3 DEF TypeOK, Idle
  <2>4. /\ unsorted' \subseteq Method /\ DOMAIN routes' = Method
        /\ DOMAIN media' = Method \X Path /\ options' \in Option
        /\ request' \in [Client -> Query \cup {None}] /\ reply' \in [Client -> Replies \cup {None}]
        /\ \A op \in DOMAIN media' : op[1] \notin unsorted' => media'[op] \in RequestMediaTypes(op)
    BY <1>1, <1>2 DEF TypeOK
  <2> QED BY <2>1, <2>2, <2>3, <2>4 DEF TypeOK, Stages
<1>5. ASSUME NEW d \in Client PROVE Ruled(d)' /\ Told(d)'
  <2>1. Ruled(d)'
    BY <1>3 DEF Ruled, Idle
  <2>2. Told(d)'
    BY <1>2, <1>3 DEF Told, IInv, Idle
  <2> QED BY <2>1, <2>2
<1> QED BY <1>2, <1>3, <1>4, <1>5 DEF IInv

(* The server before it has read its specification, and clients that have  *)
(* not sent anything.                                                      *)
LEMMA InitInvariant == Init => IInv
<1> SUFFICES ASSUME Init PROVE IInv
  OBVIOUS
<1>1. TypeOK
  <2>1. pc \in [Client -> Stages] /\ <<>> \in Seq(Text)
    BY DEF Init, Stages, Idle
  <2>2. /\ url \in [Client -> Seq(Text)] /\ route \in [Client -> Path \cup {None}]
        /\ header \in [Client -> Headers]
        /\ verdict \in [Client -> DOMAIN Status \cup {"unserializable", None}]
        /\ request \in [Client -> Query \cup {None}] /\ reply \in [Client -> Replies \cup {None}]
    BY <2>1, HeaderTypes DEF Init
  <2>3. \A d \in Client :
           /\ pc[d] \notin Idle => R!Serving /\ request[d] # None
           /\ reply[d] # None <=> pc[d] = "done"
           /\ pc[d] = "write" => verdict[d] # None
    BY DEF Init, Idle
  <2>4. /\ unsorted \subseteq Method /\ DOMAIN routes = Method
        /\ DOMAIN media = Method \X Path /\ options \in Option
        /\ \A op \in DOMAIN media : op[1] \notin unsorted => media[op] \in RequestMediaTypes(op)
    BY DEF Init
  <2> QED BY <2>1, <2>2, <2>3, <2>4 DEF TypeOK, Stages
<1>2. \A d \in Client : Ruled(d) /\ Told(d)
  BY DEF Init, Ruled, Told
<1> QED BY <1>1, <1>2 DEF Init, IInv

(* Every step preserves the invariant.                                     *)
LEMMA NextInvariant == IInv /\ [Next]_vars => IInv'
<1> SUFFICES ASSUME IInv, [Next]_vars PROVE IInv'
  OBVIOUS
<1>1. ASSUME NEW m \in Method, InitializeRouter(m) PROVE IInv'
  BY <1>1, InitializeRouterKept
<1>2. CASE Restart
  BY <1>2, RestartKept
<1>3. ASSUME NEW c \in Client, HandleRequest(c) PROVE IInv'
  BY <1>3, HandleRequestKept, OneClient DEF Kept
<1>4. ASSUME NEW c \in Client, NEW q \in Sends[c], Send(c, q) PROVE IInv'
  BY <1>4, SendKept, OneClient
<1>5. CASE UNCHANGED vars
  <2>1. TypeOK'
    BY <1>5 DEF vars, IInv, TypeOK, R!Serving
  <2>2. ASSUME NEW d \in Client PROVE Ruled(d)' /\ Told(d)'
    BY <1>5 DEF vars, IInv, Ruled, Told, HeaderError, RequestError, Operation
  <2> QED BY <1>5, <2>1, <2>2 DEF vars, IInv
<1> QED BY <1>1, <1>2, <1>3, <1>4, <1>5 DEF Next

(* server.go:229-375: at each stage of its handler, all that the earlier   *)
(* stages check holds of the request, and what is written and received is  *)
(* one of the answers that there are to it.                                *)
THEOREM StagesRuledOut == Spec => []IInv
BY InitInvariant, NextInvariant, PTL DEF Spec

(* The types; also, main.go:98-113, that a request is only ever handled    *)
(* with the whole table, and that its handler returns when it has written. *)
THEOREM TypeCorrect == Spec => []TypeOK
<1>1. IInv => TypeOK
  BY DEF IInv
<1> QED BY <1>1, StagesRuledOut, PTL

----------------------------------------------------------------------------
(* RequestHandling implements Verdicts.                                    *)

(* What the clients are waiting for an answer to.                          *)
Asked == [c \in Client |-> IF pc[c] \in Idle THEN None ELSE request[c]]

(* A step of a handler either is the answer or none that a client sees.    *)
LEMMA HandleRequestTells ==
    ASSUME IInv, NEW c \in Client, HandleRequest(c)
    PROVE  V!Tell(c) \/ UNCHANGED V!vars
<1> DEFINE q == request[c]
<1>1. /\ OnlyOf(c) /\ TypeOf(c)' /\ Told(c)' /\ request' = request /\ pc[c] \notin Idle
      /\ pc'[c] # "idle" /\ (pc'[c] = "closed" => Closed \in Answers[options][q])
  BY HandleRequestKept DEF Kept
<1>2. TypeOf(c) /\ TypeOK /\ q \in Query /\ reply[c] = None /\ q # None
  BY <1>1, Busy, NoneAssumption DEF IInv
<1>3. options' = options /\ reply' = [reply EXCEPT ![c] = reply'[c]]
      /\ \A d \in Client : d # c => pc'[d] = pc[d]
  BY <1>1, <1>2 DEF OnlyOf, TypeOK
<1>4. Asked' = [Asked EXCEPT ![c] = IF pc'[c] \in Idle THEN None ELSE q] /\ Asked[c] = q
  BY <1>1, <1>3 DEF Asked
<1>5. reply = [reply EXCEPT ![c] = None]
  BY <1>2 DEF TypeOK
<1>6. CASE pc'[c] \notin Idle
  <2>1. Asked' = Asked
    BY <1>1, <1>3, <1>6 DEF Asked
  <2>2. reply' = reply
    BY <1>1, <1>3, <1>5, <1>6 DEF TypeOf, Idle
  <2> QED BY <1>3, <2>1, <2>2 DEF V!vars, Asked
<1>7. CASE pc'[c] \in Idle
  <2>1. Asked' = [Asked EXCEPT ![c] = None]
    BY <1>4, <1>7
  <2>2. \E a \in V!Answers[options][q] :
           reply' = [reply EXCEPT ![c] = IF a = V!Closed THEN None ELSE a]
    <3>1. CASE pc'[c] = "done"
      <4>1. reply'[c] \in V!Answers[options][q] /\ reply'[c] \in Replies
        BY <1>1, <1>3, <3>1 DEF Told, TypeOf
      <4>2. reply'[c] # V!Closed
        BY <4>1, ReplyType, SameClosed
      <4> QED BY <1>3, <4>1, <4>2
    <3>2. CASE pc'[c] = "closed"
      <4>1. V!Closed \in V!Answers[options][q]
        BY <1>1, <3>2, SameAnswers, SameClosed
      <4>2. reply'[c] = None
        BY <1>1, <3>2 DEF TypeOf
      <4> QED BY <1>3, <4>1, <4>2
    <3> QED BY <1>1, <1>7, <3>1, <3>2 DEF Idle
  <2> QED BY <1>2, <1>3, <1>4, <2>1, <2>2 DEF V!Tell, Asked
<1> QED BY <1>6, <1>7

(* README.md:48, and server.go:229-375: stripe-mock is stateless: whatever *)
(* the order of its table, whoever else asks and however often it is       *)
(* restarted, what a client is told is one of the answers to its request,  *)
(* and a connection is closed without one only by a panic that the request *)
(* may cause, or along with all the others.                                *)
THEOREM VerdictsImplemented == Spec => ImplementsVerdicts
<1>1. Init => V!Init
  BY DEF Init, V!Init, Idle
<1>2. IInv /\ [Next]_vars => [V!Next]_(V!vars)
  <2> SUFFICES ASSUME IInv, [Next]_vars PROVE V!Next \/ UNCHANGED V!vars
    OBVIOUS
  <2>1. ASSUME NEW m \in Method, InitializeRouter(m) PROVE UNCHANGED V!vars
    <3>1. pc' = pc
      BY <2>1, InitializeRouterKept
    <3> QED BY <2>1, <3>1 DEF InitializeRouter, R!InitializeRouter, V!vars
  <2>2. ASSUME Restart PROVE V!HangUp
    <3>1. \A c \in Client : pc'[c] \in Idle
      BY <2>2, RestartKept
    <3> QED BY <2>2, <3>1 DEF Restart, R!Restart, V!HangUp
  <2>3. ASSUME NEW c \in Client, HandleRequest(c) PROVE V!Tell(c) \/ UNCHANGED V!vars
    BY <2>3, HandleRequestTells
  <2>4. ASSUME NEW c \in Client, NEW q \in Sends[c], Send(c, q) PROVE V!Ask(c, q)
    <3>1. OnlyOf(c) /\ request'[c] = q /\ pc'[c] = "mux" /\ TypeOK
      BY <2>4, SendKept DEF IInv
    <3>2. \A d \in Client : d # c => pc'[d] = pc[d] /\ request'[d] = request[d]
      BY <3>1 DEF OnlyOf, TypeOK
    <3>3. Asked[c] = None /\ Asked' = [Asked EXCEPT ![c] = q]
      BY <2>4, <3>1, <3>2 DEF Asked, Send, Idle
    <3> QED BY <2>4, <3>3 DEF Send, V!Ask, Asked
  <2>5. CASE UNCHANGED vars
    BY <2>5 DEF vars, V!vars
  <2> QED BY <2>1, <2>2, <2>3, <2>4, <2>5 DEF Next, V!Next
<1> QED BY <1>1, <1>2, StagesRuledOut, PTL DEF Spec, ImplementsVerdicts, V!Spec

----------------------------------------------------------------------------
(* Nothing but the specification decides between answers.                  *)

(* Where the specification leaves no choice there is one answer.           *)
LEMMA OneAnswer ==
    ASSUME NEW o \in Option, NEW q \in Determined,
           NEW a \in Answers[o][q], a # Closed, NEW b \in Answers[o][q], b # Closed
    PROVE  a = b
<1> DEFINE fittest == Fittest(q.method, FixedPath(q.path))
<1>1. /\ q \in Query /\ \A p, r \in fittest : p = r
      /\ \A p \in fittest : \A t, u \in RequestMediaTypes(<<q.method, p>>) : t = u
      /\ \A p \in fittest : \A x, y \in Outcome[p][q.data] \ {"panic"} : x = y
  BY DEF Determined
<1>2. CASE Redirects(Slashes(q.path))
  BY <1>1, <1>2 DEF Answers, Redirects
<1>3. CASE ~Redirects(Slashes(q.path))
  <2>1. Answers[o][q] = UNION {UNION {Ends(o, q, r, m) : m \in Media(q, r)} : r \in Routes(q)}
    BY <1>1, <1>3 DEF Answers, Media, Redirects
  <2>2. PICK r \in Routes(q) : a \in UNION {Ends(o, q, r, m) : m \in Media(q, r)}
    BY <2>1, Zenon
  <2>3. PICK m \in Media(q, r) : a \in Ends(o, q, r, m)
    BY <2>2, Zenon
  <2>4. PICK s \in Routes(q) : b \in UNION {Ends(o, q, s, n) : n \in Media(q, s)}
    BY <2>1, Zenon
  <2>5. PICK n \in Media(q, s) : b \in Ends(o, q, s, n)
    BY <2>4, Zenon
  <2>6. Slashes(q.path) = FixedPath(q.path) /\ \A p \in fittest : p # None
    BY <1>1, SomeRoute
  <2>7. r = s /\ (r = None \/ r \in fittest)
    BY <1>1, <2>2, <2>4, <2>6 DEF Routes
  <2>8. m = n
    BY <1>1, <2>3, <2>5, <2>7 DEF Media
  <2>9. CASE Objections(o, q, r, m) = {}
    <3> DEFINE end(v) == Reply(v, HeadersOf(q, r, v), r)
               result(out) == CASE out = "ok" -> end("ok")
                    [] out = "error" -> end("generation")
                    [] out = "panic" -> Closed
                    [] out = "unserializable" ->
                          IF o.verbose THEN Closed ELSE end("serialization")
    <3>1. Ends(o, q, r, m) = {result(out) : out \in Outcome[r][q.data]}
      BY <2>9 DEF Ends
    <3>2. result("panic") = Closed
      OBVIOUS
    <3>3. r \in fittest
      <4>1. r # None
        BY <2>9, RaisedByRoute
      <4> QED BY <2>7, <4>1
    <3> HIDE DEF result, fittest
    <3>4. PICK x \in Outcome[r][q.data] : a = result(x)
      BY <2>3, <3>1
    <3>5. PICK y \in Outcome[r][q.data] : b = result(y)
      BY <2>5, <2>7, <2>8, <3>1
    <3>6. x # "panic" /\ y # "panic"
      BY <3>2, <3>4, <3>5
    <3> QED BY <1>1, <3>3, <3>4, <3>5, <3>6
  <2>10. CASE Objections(o, q, r, m) # {}
    <3> DEFINE objections == Objections(o, q, r, m)
               first == CHOOSE v \in objections : \A w \in objections : Rank[v] <= Rank[w]
               end == Reply(first, HeadersOf(q, r, first), IF Rank[first] <= Rank.unparsable THEN None ELSE r)
    <3>1. Ends(o, q, r, m) = IF first \in Fatal THEN {Closed} ELSE {end}
      BY <2>10 DEF Ends
    <3> HIDE DEF first, end
    <3> QED BY <2>3, <2>5, <2>7, <2>8, <3>1
  <2> QED BY <2>9, <2>10
<1> QED BY <1>2, <1>3

(* README.md:48: two clients that send the same request get the same       *)
(* response, one of them maybe from before a restart, where the            *)
(* specification determines it.                                            *)
THEOREM Stateless == Spec => []SameForAll
<1>1. IInv => SameForAll
  <2> SUFFICES ASSUME IInv, NEW c \in Client, NEW d \in Client, reply[c] # None, reply[d] # None,
                      request[c] = request[d], request[c] \in Determined
               PROVE  reply[c] = reply[d]
    BY DEF SameForAll
  <2>1. options \in Option /\ \A e \in Client : reply[e] \in Replies \cup {None}
    BY DEF IInv, TypeOK
  <2>2. pc[c] = "done" /\ pc[d] = "done"
    BY DEF IInv, TypeOK
  <2>3. reply[c] \in Answers[options][request[c]] /\ reply[d] \in Answers[options][request[c]]
    BY <2>2, SameAnswers DEF IInv, Told
  <2>4. reply[c] # Closed /\ reply[d] # Closed
    BY <2>1, ReplyType
  <2> QED BY <2>1, <2>3, <2>4, OneAnswer
<1> QED BY <1>1, StagesRuledOut, PTL
=============================================================================
