----------------------------- MODULE RouterProofs -----------------------------
(***************************************************************************)
(* Proofs about Router, for any specification, any requests and any order  *)
(* in which maps are iterated and equal routes are sorted.                 *)
(***************************************************************************)
EXTENDS Router, PathsProofs

(* The requests have paths, and Candidates are the paths that fit.         *)
LEMMA FixedType ==
    ASSUME NEW q \in Query
    PROVE  /\ q.method \in Method /\ q.path \in Seq(Text)
           /\ Fixed[q] = FixedPath(q.path) /\ Fixed[q] \in Seq(Text)
           /\ Candidates[q] = Fitting(q.method, Fixed[q])
<1>1. q.method \in Method /\ q.path \in Seq(Text)
  BY PathAssumption
<1>2. Fixed[q] = FixedPath(q.path)
  BY DEF Fixed
<1>3. \A p : q.method \in MethodsOf(p) <=> \E v \in Operations[p] : Upper[v] = q.method
  BY DEF MethodsOf
<1> QED BY <1>1, <1>2, <1>3, FixedPathType DEF Candidates, Fitting

(* The handler gives an answer that there is to the request.               *)
LEMMA ServeIsPossible ==
    ASSUME IInv, NEW q \in Query, Serve(q)
    PROVE  answer'[q] \in Possible(q)
<1> DEFINE m == q.method
           path == Fixed[q]
           s == routes[m]
           matching == {i \in DOMAIN s : Matches(s[i], path)}
           first == CHOOSE i \in matching : \A j \in matching : i <= j
<1>1. /\ m \in Method /\ path = FixedPath(q.path)
      /\ Candidates[q] = Fitting(m, path)
  BY FixedType
<1>2. answer'[q] = IF Redirects(path) THEN Result("moved") ELSE RouteRequest(s, path)
  BY <1>1 DEF Serve, IInv
<1>3. <<m, s>> \in SortedRoutes
  BY <1>1 DEF Serve, Serving, IInv
<1>4. /\ matching = {} <=> Fitting(m, path) = {}
      /\ matching # {} => s[first] \in Fittest(m, path)
  <2> HIDE DEF s, m, path
  <2> QED BY <1>3, FirstMatch
<1>5. RouteRequest(s, path) =
        IF matching = {} THEN Result("unrecognized") ELSE RouteTo(s[first], path)
  BY DEF RouteRequest
<1> HIDE DEF s, m, path, matching, first
<1> QED BY <1>1, <1>2, <1>4, <1>5 DEF Possible, m, path

(* Nothing is sorted and nobody has been answered at first.                *)
LEMMA InitInvariant == Init => IInv
BY DEF Init, IInv

(* Every step preserves the invariant.                                     *)
LEMMA NextInvariant == IInv /\ [Next]_vars => IInv'
<1> SUFFICES ASSUME IInv, [Next]_vars PROVE IInv'
  OBVIOUS
<1>1. ASSUME NEW m \in Method, InitializeRouter(m) PROVE IInv'
  <2>1. PICK sorted \in SortedRoutes :
           sorted[1] = m /\ routes' = [routes EXCEPT ![m] = sorted[2]]
    BY <1>1 DEF InitializeRouter
  <2>2. sorted = <<m, sorted[2]>>
    BY <2>1, SortedRoutesPairs
  <2>3. \A n \in Method \ unsorted' : <<n, routes'[n]>> \in SortedRoutes
    BY <1>1, <2>1, <2>2 DEF InitializeRouter, IInv
  <2>4. answer' = answer /\ unsorted' = unsorted \ {m}
    BY <1>1 DEF InitializeRouter
  <2> QED BY <2>1, <2>3, <2>4 DEF IInv, Possible
<1>2. CASE Restart
  BY <1>2 DEF Restart, Serving, IInv, Possible
<1>3. ASSUME NEW q \in Query, Serve(q) PROVE IInv'
  <2>1. answer'[q] \in Possible(q)
    BY <1>3, ServeIsPossible
  <2>2. /\ DOMAIN answer' = Query /\ UNCHANGED <<unsorted, routes>>
        /\ \A r \in Query : r # q => answer'[r] = answer[r]
    BY <1>3 DEF Serve, IInv
  <2> QED BY <2>1, <2>2 DEF IInv, Possible
<1>4. CASE UNCHANGED vars
  BY <1>4 DEF vars, IInv, Possible
<1> QED BY <1>1, <1>2, <1>3, <1>4 DEF Next

(* Every list of the table that is sorted is complete (server.go:467-505), *)
(* and every answer is one that there is to the request.                   *)
THEOREM PossibleAnswers == Spec => []IInv
BY InitInvariant, NextInvariant, PTL DEF Spec

----------------------------------------------------------------------------
(* What follows from the invariant.                                        *)

(* An answer that there is to q: of what kind it is, and on which grounds. *)
LEMMA PossibleType ==
    ASSUME NEW q \in Query, NEW a \in Possible(q)
    PROVE  \/ a = Result("moved") /\ Redirects(Fixed[q])
           \/ a = Result("unrecognized") /\ ~Redirects(Fixed[q]) /\ Candidates[q] = {}
           \/ /\ ~Redirects(Fixed[q])
              /\ \E p \in Fittest(q.method, Fixed[q]) :
                    /\ a = RouteTo(p, Fixed[q]) /\ Matches(p, Fixed[q])
                    /\ p \in Candidates[q] /\ p \in Path
                    /\ a.status \in {"routed", "unparsable"}
                    /\ a.status = "routed" => a.route = p
                    /\ a.status = "unparsable" => a.route = <<>>
<1>1. CASE Redirects(Fixed[q]) \/ Candidates[q] = {}
  BY <1>1 DEF Possible
<1>2. CASE ~(Redirects(Fixed[q]) \/ Candidates[q] = {})
  <2>1. PICK p \in Fittest(q.method, Fixed[q]) : a = RouteTo(p, Fixed[q])
    BY <1>2 DEF Possible
  <2>2. p \in Candidates[q] /\ p \in Path /\ Matches(p, Fixed[q])
    BY <2>1, FixedType DEF Fittest, Fitting
  <2>3. \/ a = Result("unparsable")
        \/ a.status = "routed" /\ a.route = p
    BY <2>1, <2>2, FixedType, RouteToResult
  <2> QED BY <1>2, <2>1, <2>2, <2>3 DEF Result
<1> QED BY <1>1, <1>2

(* The types, and the completeness of the table.                           *)
THEOREM TypeCorrect == Spec => []TypeOK
<1>1. IInv => TypeOK
  <2> SUFFICES ASSUME IInv PROVE TypeOK
    OBVIOUS
  <2>1. ASSUME NEW m \in Method \ unsorted
        PROVE  ToSet(routes[m]) = {p \in Path : \E v \in Operations[p] : Upper[v] = m}
    <3>1. ToSet(routes[m]) = {p \in Path : m \in MethodsOf(p)}
      BY SortedRoutesComplete DEF IInv
    <3>2. \A p : m \in MethodsOf(p) <=> \E v \in Operations[p] : Upper[v] = m
      BY DEF MethodsOf
    <3> QED BY <3>1, <3>2
  <2>2. ASSUME NEW q \in Query, answer[q] # None
        PROVE  /\ answer[q].status \in {"routed", "unparsable", "unrecognized", "moved"}
               /\ answer[q].status = "routed" <=> answer[q].route \in Path
    <3>1. <<>> \notin Path
      BY PathAssumption
    <3>2. answer[q] \in Possible(q)
      BY <2>2 DEF IInv
    <3> QED BY <3>1, <3>2, PossibleType DEF Result
  <2> QED BY <2>1, <2>2 DEF IInv, TypeOK
<1> QED BY <1>1, PossibleAnswers, PTL

(* server.go:473-479: no other match of a request has fewer parameters     *)
(* than the path it is routed to.                                          *)
THEOREM StaticPreferred == Spec => []PrefersStaticRoutes
<1>1. IInv => PrefersStaticRoutes
  <2> SUFFICES ASSUME IInv, NEW q \in Query, answer[q] # None, answer[q].status = "routed",
                      NEW p \in Candidates[q]
               PROVE  NumParams(answer[q].route) <= NumParams(p)
    BY DEF PrefersStaticRoutes
  <2>1. answer[q].route \in Fittest(q.method, Fixed[q])
    BY PossibleType DEF IInv, Result
  <2> QED BY <2>1, FixedType DEF Fittest
<1> QED BY <1>1, PossibleAnswers, PTL

(* server.go:277-291: a request that is not redirected is unrecognized     *)
(* exactly when no path of the specification matches it.                   *)
THEOREM AllRecognized == Spec => []RecognizesAllOperations
<1>1. IInv => RecognizesAllOperations
  BY PossibleType DEF IInv, RecognizesAllOperations, Result
<1> QED BY <1>1, PossibleAnswers, PTL

(* server.go:524-565: the IDs, put back into the pattern, give the path.   *)
THEOREM PathRebuilt == Spec => []IDsRebuildPath
<1>1. IInv => IDsRebuildPath
  <2> SUFFICES ASSUME IInv, NEW q \in Query, answer[q] # None, answer[q].status = "routed"
               PROVE  LET a == answer[q]
                          path == Fixed[q]
                          nth(i) == Cardinality({j \in 1..i : a.route[j] \in Param})
                      IN  /\ Len(IDs(a)) = nth(Len(a.route))
                          /\ \A i \in DOMAIN a.route :
                                IF a.route[i] \notin Param THEN path[i] = a.route[i]
                                ELSE /\ IDs(a)[nth(i)] = Unescaped[path[i]]
                                     /\ nth(i) \in DOMAIN a.secondary =>
                                           a.secondary[nth(i)].name = a.route[i]
    BY DEF IDsRebuildPath
  <2> DEFINE a == answer[q]
             path == Fixed[q]
             p == a.route
             S == Parameters(p)
             N == NumParams(p)
             id(n) == Unescaped[path[Nth(S, n)]]
             nth(i) == Cardinality({j \in 1..i : p[j] \in Param})
  <2>1. /\ a = RouteTo(p, path) /\ a.status = "routed"
        /\ p \in Path /\ Matches(p, path) /\ path \in Seq(Text)
    BY PossibleType, FixedType DEF IInv, Result
  <2>2. \/ N = 0 /\ a.primary = None /\ a.secondary = <<>>
        \/ /\ N # 0
           /\ a.primary = IF HasPrimaryID(p) THEN id(N) ELSE None
           /\ a.secondary =
                 [n \in 1..NumSecondaryIDs(p) |-> [name |-> p[Nth(S, n)], id |-> id(n)]]
    <3>1. Result("unparsable").status # "routed"
      BY DEF Result
    <3> HIDE DEF a, path, p
    <3> QED BY <2>1, <3>1, RouteToResult
  <2>3. /\ p \in Seq(Param \cup Text) /\ N \in Nat /\ N = Cardinality(S)
        /\ S \subseteq DOMAIN p /\ S \subseteq Int /\ IsFiniteSet(S)
    BY <2>1, ParametersOfPath
  <2>4. /\ DOMAIN path = DOMAIN p /\ S \subseteq DOMAIN path
        /\ \A i \in DOMAIN p : p[i] \notin Param => path[i] = p[i]
    BY <2>1, Matched
  <2>5. \A n \in 1..N : id(n) # None
    <3>1. \A n \in 1..N : Nth(S, n) \in DOMAIN path
      BY <2>3, <2>4, NthOfPosition
    <3>2. \A n \in 1..N : path[Nth(S, n)] \in Text
      BY <2>1, <3>1
    <3> QED BY <3>2, PathAssumption
  <2>6. Len(IDs(a)) = N /\ \A n \in 1..N : IDs(a)[n] = id(n)
    <3> DEFINE K == NumSecondaryIDs(p)
               first == [i \in DOMAIN a.secondary |-> a.secondary[i].id]
               last == IF a.primary = None THEN <<>> ELSE <<a.primary>>
               I == {id(n) : n \in 1..N}
    <3>1. CASE N = 0
      BY <2>2, <3>1 DEF IDs
    <3>2. CASE N # 0
      <4>1. K = (IF HasPrimaryID(p) THEN N - 1 ELSE N) /\ N \in Nat /\ K \in Nat
        <5> HIDE DEF p
        <5> QED BY <2>3, <3>2 DEF NumSecondaryIDs
      <4>2. a.secondary = [n \in 1..K |-> [name |-> p[Nth(S, n)], id |-> id(n)]]
        BY <2>2, <3>2
      <4>3. first = [n \in 1..K |-> id(n)]
        <5> HIDE DEF a, p, S, id, K
        <5> QED BY <4>2
      <4>4. last = IF HasPrimaryID(p) THEN <<id(N)>> ELSE <<>>
        <5>1. a.primary = (IF HasPrimaryID(p) THEN id(N) ELSE None) /\ id(N) # None
          BY <2>2, <2>3, <2>5, <3>2
        <5> HIDE DEF a, p, N, id
        <5> QED BY <5>1
      <4>5. IDs(a) = first \o last
        BY DEF IDs
      <4>6. first \in Seq(I) /\ last \in Seq(I)
        <5>1. \A n \in 1..N : id(n) \in I
          OBVIOUS
        <5>2. N \in 1..N /\ \A n \in 1..K : n \in 1..N
          <6> HIDE DEF p, N, K
          <6> QED BY <4>1, <3>2
        <5>3. first \in [1..K -> I]
          <6> HIDE DEF I, K, id, N, first
          <6> QED BY <4>3, <5>1, <5>2
        <5>4. id(N) \in I
          <6> HIDE DEF I, id, N
          <6> QED BY <5>1, <5>2
        <5> HIDE DEF I, K, id, N, first, last
        <5> QED BY <4>1, <4>4, <5>3, <5>4
      <4> HIDE DEF I, K, id, N, first, last, a, p
      <4> QED BY <3>2, <4>1, <4>3, <4>4, <4>5, <4>6
    <3> QED BY <3>1, <3>2
  <2>7. ASSUME NEW i \in 1..Len(p) PROVE nth(i) = Position(S, i)
    <3>1. {j \in 1..i : p[j] \in Param} = {j \in S : j <= i}
      BY <2>3 DEF Parameters
    <3> QED BY <3>1 DEF Position
  <2>8. nth(Len(p)) = N
    <3>1. {j \in 1..Len(p) : p[j] \in Param} = S
      BY <2>3 DEF Parameters
    <3> QED BY <2>3, <3>1
  <2>9. ASSUME NEW i \in DOMAIN p, p[i] \in Param
        PROVE  /\ IDs(a)[nth(i)] = Unescaped[path[i]]
               /\ nth(i) \in DOMAIN a.secondary => a.secondary[nth(i)].name = p[i]
    <3>1. i \in S /\ nth(i) = Position(S, i)
      BY <2>3, <2>7, <2>9 DEF Parameters
    <3>2. nth(i) \in 1..N /\ Nth(S, nth(i)) = i
      <4> HIDE DEF S, N, nth
      <4> QED BY <2>3, <3>1, NthOfPosition
    <3>3. IDs(a)[nth(i)] = Unescaped[path[i]]
      BY <2>6, <3>2
    <3>4. nth(i) \in DOMAIN a.secondary => a.secondary[nth(i)].name = p[i]
      <4> DEFINE K == NumSecondaryIDs(p)
      <4>1. SUFFICES ASSUME nth(i) \in DOMAIN a.secondary
                     PROVE  a.secondary[nth(i)].name = p[i]
        OBVIOUS
      <4>2. N # 0
        <5> HIDE DEF a, p, S, N, nth
        <5> QED BY <3>2
      <4>3. a.secondary = [n \in 1..K |-> [name |-> p[Nth(S, n)], id |-> id(n)]]
        BY <2>2, <4>2
      <4> HIDE DEF a, p, S, N, nth, id, K
      <4> QED BY <3>2, <4>1, <4>3
    <3> QED BY <3>3, <3>4
  <2> QED BY <2>4, <2>6, <2>8, <2>9
<1> QED BY <1>1, PossibleAnswers, PTL

(* There is one answer to a request that the specification has no two      *)
(* routes of equal rank for.                                               *)
LEMMA OneAnswer ==
    ASSUME NEW q \in Query \ Ambiguous, NEW a \in Possible(q), NEW b \in Possible(q)
    PROVE  a = b
<1> SUFFICES ASSUME ~Redirects(Fixed[q]), Candidates[q] # {} PROVE a = b
  BY DEF Possible
<1>1. PICK p, r \in Fittest(q.method, Fixed[q]) :
         a = RouteTo(p, Fixed[q]) /\ b = RouteTo(r, Fixed[q])
  BY DEF Possible
<1>2. /\ p \in Candidates[q] /\ r \in Candidates[q]
      /\ \A o \in Candidates[q] : NumParams(p) <= NumParams(o) /\ NumParams(r) <= NumParams(o)
  BY <1>1, FixedType DEF Fittest
<1>3. NumParams(p) \in Nat /\ NumParams(r) \in Nat
  BY <1>1, ParametersOfPath DEF Fittest, Fitting
<1>4. NumParams(p) = NumParams(r)
  BY <1>2, <1>3
<1>5. p = r
  BY <1>2, <1>4 DEF Ambiguous
<1> QED BY <1>1, <1>5

(* README.md:48: a request that is repeated is answered in the same way,   *)
(* also after restarts.                                                    *)
THEOREM Repeatable == Spec => SameRouteAfterRestart
<1>1. IInv /\ IInv' /\ [Next]_vars =>
         [\A q \in Query \ Ambiguous : answer[q] # None => answer'[q] = answer[q]]_vars
  <2> SUFFICES ASSUME IInv, IInv', [Next]_vars, NEW q \in Query \ Ambiguous, answer[q] # None
               PROVE  answer'[q] = answer[q]
    OBVIOUS
  <2>1. answer[q] \in Possible(q)
    BY DEF IInv
  <2>2. CASE answer'[q] = answer[q]
    BY <2>2
  <2>3. CASE answer'[q] # answer[q]
    <3>1. PICK r \in Query : Serve(r)
      BY <2>3 DEF Next, InitializeRouter, Restart, vars
    <3>2. r = q
      BY <2>3, <3>1 DEF Serve, IInv
    <3>3. answer'[q] \in Possible(q)
      BY <3>1, <3>2, ServeIsPossible
    <3> QED BY <2>1, <3>3, OneAnswer
  <2> QED BY <2>2, <2>3
<1> QED BY <1>1, PossibleAnswers, InitInvariant, NextInvariant, PTL DEF Spec, SameRouteAfterRestart

(* server.go:31-39: doubled slashes are ignored.                           *)
THEOREM SlashesIgnored == Spec => []DoubledSlashesIgnored
<1>1. IInv => DoubledSlashesIgnored
  <2> SUFFICES ASSUME IInv, NEW d \in Doublings, answer[d[1]] # None, answer[d[2]] # None
               PROVE  answer[d[1]] = answer[d[2]]
    BY DEF DoubledSlashesIgnored
  <2> DEFINE q == d[1]
             r == d[2]
             w == WithoutEmpty(q.path)
  <2>1. /\ q \in Query \ Ambiguous /\ r \in Query
        /\ OnlyDoubled(q.path) /\ r.method = q.method /\ r.path = w
    BY DEF Doublings
  <2>2. q.path \in Seq(Text) /\ r.path \in Seq(Text)
    BY <2>1, FixedType
  <2>3. Fixed[q] = w
    <3>1. {i \in DOMAIN q.path : ~Dropped(q.path, i)} = {i \in DOMAIN q.path : q.path[i] # Empty}
      BY <2>1, <2>2, DoubledDropped DEF OnlyDoubled
    <3> QED BY <2>1, <3>1, FixedType DEF FixedPath, WithoutEmpty
  <2>4. Fixed[r] = w
    <3> DEFINE S == {i \in DOMAIN q.path : q.path[i] # Empty}
    <3>1. S \subseteq DOMAIN q.path /\ S \subseteq Int /\ IsFiniteSet(S)
      <4>1. S \subseteq DOMAIN q.path
        OBVIOUS
      <4> HIDE DEF S, q
      <4> QED BY <2>2, <4>1, PositionsFinite
    <3>2. /\ DOMAIN w = 1..Cardinality(S)
          /\ \A n \in DOMAIN w : w[n] = q.path[Nth(S, n)] /\ Nth(S, n) \in S
      <4>1. w = Subsequence(q.path, S)
        BY DEF WithoutEmpty
      <4> HIDE DEF S, q, w
      <4> QED BY <2>2, <3>1, <4>1, SubsequenceIsSequence, NthOfPosition
    <3>3. \A n \in DOMAIN w : w[n] # Empty
      BY <3>2
    <3>4. FixedPath(w) = w
      <4> HIDE DEF w
      <4> QED BY <2>1, <2>2, <3>3, NothingDropped
    <3> QED BY <2>1, <3>4, FixedType
  <2>5. Possible(q) = Possible(r)
    BY <2>1, <2>3, <2>4, FixedType DEF Possible
  <2>6. answer[q] \in Possible(q) /\ answer[r] \in Possible(q)
    BY <2>1, <2>5 DEF IInv
  <2> HIDE DEF q, r
  <2>7. answer[q] = answer[r]
    BY <2>1, <2>6, OneAnswer
  <2> QED BY <2>7 DEF q, r
<1> QED BY <1>1, PossibleAnswers, PTL
=============================================================================
