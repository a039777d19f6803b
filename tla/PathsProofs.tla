------------------------------ MODULE PathsProofs ------------------------------
(***************************************************************************)
(* Lemmas about the operators of Paths: what a subsequence is, what the    *)
(* parameters of a path are, and what a sorted list of routes contains.    *)
(***************************************************************************)
EXTENDS Paths, NaturalSets

----------------------------------------------------------------------------
(* Positions.  Nth(S, n) is the element of S at position n.                *)

(* The elements of S up to i can be counted, and are no more than those up *)
(* to a greater one.                                                       *)
LEMMA PositionType ==
    ASSUME NEW S, IsFiniteSet(S), NEW i
    PROVE  Position(S, i) \in 0..Cardinality(S) /\ IsFiniteSet({j \in S : j <= i})
<1> DEFINE T == {j \in S : j <= i}
<1>1. T \in SUBSET S
  OBVIOUS
<1>2. IsFiniteSet(T) /\ Cardinality(T) <= Cardinality(S)
  <2> HIDE DEF T
  <2> QED BY <1>1, FS_Subset
<1>3. Cardinality(T) \in Nat /\ Cardinality(S) \in Nat
  BY <1>2, FS_CardinalityType
<1> QED BY <1>2, <1>3 DEF Position

(* A later element has a later position.                                   *)
LEMMA PositionGrows ==
    ASSUME NEW S, S \subseteq Int, IsFiniteSet(S), NEW i \in Int, NEW k \in S, i < k
    PROVE  Position(S, i) < Position(S, k)
<1> DEFINE A == {j \in S : j <= i}
           B == {j \in S : j <= k}
<1>1. A \in SUBSET B
  <2>1. \A j \in S : j <= i => j <= k
    OBVIOUS
  <2> QED BY <2>1
<1>2. k \in B /\ k \notin A
  OBVIOUS
<1>3. IsFiniteSet(B) /\ Cardinality(B) \in Nat /\ Cardinality(A) \in Nat
  BY PositionType, FS_CardinalityType DEF Position
<1>4. Cardinality(A) <= Cardinality(B) /\ (Cardinality(B) = Cardinality(A) => B = A)
  <2> HIDE DEF A, B
  <2> QED BY <1>1, <1>3, FS_Subset
<1>5. Cardinality(A) < Cardinality(B)
  <2> HIDE DEF A, B
  <2> QED BY <1>2, <1>3, <1>4
<1> QED BY <1>5 DEF Position

(* Every position is that of exactly one element.                          *)
LEMMA PositionBijection ==
    ASSUME NEW S, S \subseteq Int, IsFiniteSet(S)
    PROVE  /\ \A i \in S : Position(S, i) \in 1..Cardinality(S)
           /\ \A i, k \in S : Position(S, i) = Position(S, k) => i = k
           /\ \A n \in 1..Cardinality(S) : \E i \in S : Position(S, i) = n
<1> DEFINE position == [i \in S |-> Position(S, i)]
           N == Cardinality(S)
<1>1. N \in Nat
  BY FS_CardinalityType
<1>2. ASSUME NEW i \in S PROVE Position(S, i) \in 1..N
  <2>1. Position(S, i) \in 0..N /\ IsFiniteSet({j \in S : j <= i})
    BY PositionType
  <2>2. i \in {j \in S : j <= i}
    OBVIOUS
  <2>3. Position(S, i) # 0
    BY <2>1, <2>2, FS_EmptySet DEF Position
  <2> QED BY <1>1, <2>1, <2>3
<1>3. ASSUME NEW i \in S, NEW k \in S, Position(S, i) = Position(S, k) PROVE i = k
  <2>1. \A a, b \in S : a < b => Position(S, a) < Position(S, b)
    BY PositionGrows
  <2>2. \A a \in S : Position(S, a) \in Int
    BY <1>1, <1>2
  <2> QED BY <1>3, <2>1, <2>2
<1>4. position \in Injection(S, 1..N)
  <2>1. position \in [S -> 1..N]
    BY <1>2
  <2>2. \A a, b \in DOMAIN position : position[a] = position[b] => a = b
    BY <1>3
  <2> HIDE DEF position, N
  <2> QED BY <2>1, <2>2 DEF Injection, IsInjective
<1>5. IsFiniteSet(1..N) /\ Cardinality(1..N) = N
  BY <1>1, FS_Interval
<1>6. position \in Surjection(S, 1..N)
  <2> HIDE DEF position
  <2>1. Cardinality(S) = Cardinality(1..N) <=> position \in Surjection(S, 1..N)
    BY <1>4, <1>5, FS_Injection
  <2> QED BY <1>5, <2>1 DEF N
<1>7. \A n \in 1..N : \E i \in S : position[i] = n
  BY <1>6 DEF Surjection
<1> QED BY <1>2, <1>3, <1>7

(* Nth is the inverse of Position.                                         *)
LEMMA NthOfPosition ==
    ASSUME NEW S, S \subseteq Int, IsFiniteSet(S)
    PROVE  /\ \A n \in 1..Cardinality(S) : Nth(S, n) \in S /\ Position(S, Nth(S, n)) = n
           /\ \A i \in S : /\ Position(S, i) \in 1..Cardinality(S)
                           /\ Nth(S, Position(S, i)) = i
<1>1. ASSUME NEW n \in 1..Cardinality(S)
      PROVE  Nth(S, n) \in S /\ Position(S, Nth(S, n)) = n
  <2>1. \E i \in S : Position(S, i) = n
    BY PositionBijection
  <2> QED BY <2>1 DEF Nth
<1>2. ASSUME NEW i \in S
      PROVE  Position(S, i) \in 1..Cardinality(S) /\ Nth(S, Position(S, i)) = i
  <2> DEFINE n == Position(S, i)
  <2>1. n \in 1..Cardinality(S)
    BY PositionBijection
  <2>2. Nth(S, n) \in S /\ Position(S, Nth(S, n)) = n
    BY <1>1, <2>1
  <2>3. \A k \in S : Position(S, k) = Position(S, i) => k = i
    BY PositionBijection
  <2> QED BY <2>1, <2>2, <2>3
<1> QED BY <1>1, <1>2

(* The positions of a sequence are finitely many.                          *)
LEMMA PositionsFinite ==
    ASSUME NEW T, NEW p \in Seq(T), NEW S, S \subseteq DOMAIN p
    PROVE  /\ S \subseteq Int /\ IsFiniteSet(S) /\ Cardinality(S) \in Nat
           /\ Cardinality(S) <= Len(p)
<1> DEFINE n == Len(p)
<1>1. DOMAIN p = 1..n /\ n \in Nat
  OBVIOUS
<1>2. IsFiniteSet(1..n) /\ Cardinality(1..n) = n
  <2> HIDE DEF n
  <2> QED BY <1>1, FS_Interval
<1>3. IsFiniteSet(S) /\ Cardinality(S) <= n
  <2> HIDE DEF n
  <2> QED BY <1>1, <1>2, FS_Subset
<1> QED BY <1>1, <1>3, FS_CardinalityType

(* A subsequence has one element for each position, in their order.        *)
LEMMA SubsequenceIsSequence ==
    ASSUME NEW T, NEW p \in Seq(T), NEW S, S \subseteq DOMAIN p
    PROVE  /\ Subsequence(p, S) \in Seq(T)
           /\ Len(Subsequence(p, S)) = Cardinality(S)
           /\ DOMAIN Subsequence(p, S) = 1..Cardinality(S)
           /\ \A n \in 1..Cardinality(S) : Subsequence(p, S)[n] = p[Nth(S, n)]
<1>1. S \subseteq Int /\ IsFiniteSet(S) /\ Cardinality(S) \in Nat
  BY PositionsFinite
<1>2. \A n \in 1..Cardinality(S) : Nth(S, n) \in DOMAIN p
  BY <1>1, NthOfPosition
<1>3. \A n \in 1..Cardinality(S) : p[Nth(S, n)] \in T
  BY <1>2
<1> QED BY <1>1, <1>3 DEF Subsequence

(* Nothing is left out of a sequence when no position is.                  *)
LEMMA SubsequenceOfAll ==
    ASSUME NEW T, NEW p \in Seq(T)
    PROVE  Subsequence(p, DOMAIN p) = p
<1> DEFINE S == DOMAIN p
           N == Len(p)
<1>1. S = 1..N /\ N \in Nat
  OBVIOUS
<1>2. Cardinality(S) = N
  <2> HIDE DEF N, S
  <2> QED BY <1>1, FS_Interval
<1>3. /\ Subsequence(p, S) \in Seq(T) /\ Len(Subsequence(p, S)) = N
      /\ \A n \in 1..N : Subsequence(p, S)[n] = p[Nth(S, n)]
  BY <1>2, SubsequenceIsSequence
<1>4. ASSUME NEW n \in 1..N PROVE Nth(S, n) = n
  <2>1. {j \in S : j <= n} = 1..n
    BY <1>1
  <2>2. Cardinality(1..n) = n
    BY <1>1, FS_Interval
  <2>3. Position(S, n) = n /\ n \in S
    BY <1>1, <2>1, <2>2 DEF Position
  <2>4. S \subseteq Int /\ IsFiniteSet(S)
    BY PositionsFinite
  <2> HIDE DEF S, N
  <2>5. Nth(S, Position(S, n)) = n
    BY <2>3, <2>4, NthOfPosition
  <2> QED BY <2>3, <2>5
<1> QED BY <1>3, <1>4

(* One element more at the end.                                            *)
LEMMA SubsequenceAppend ==
    ASSUME NEW T, NEW p \in Seq(T), NEW S, S \subseteq DOMAIN p,
           NEW k \in DOMAIN p, \A j \in S : j < k
    PROVE  Subsequence(p, S \cup {k}) = Append(Subsequence(p, S), p[k])
<1> DEFINE U == S \cup {k}
           N == Cardinality(S)
<1>1. /\ S \subseteq Int /\ IsFiniteSet(S) /\ N \in Nat /\ k \in Int /\ k \notin S
      /\ U \subseteq DOMAIN p /\ U \subseteq Int /\ IsFiniteSet(U)
  <2>1. U \subseteq DOMAIN p
    OBVIOUS
  <2>2. S \subseteq Int /\ IsFiniteSet(S) /\ N \in Nat
    BY PositionsFinite
  <2>3. U \subseteq Int /\ IsFiniteSet(U)
    <3> HIDE DEF U
    <3> QED BY <2>1, PositionsFinite
  <2> QED BY <2>1, <2>2, <2>3
<1>2. Cardinality(U) = N + 1
  BY <1>1, FS_AddElement
<1>3. ASSUME NEW j \in S PROVE Position(U, j) = Position(S, j)
  <2>1. {l \in U : l <= j} = {l \in S : l <= j}
    BY <1>1
  <2> QED BY <2>1 DEF Position
<1>4. Position(U, k) = N + 1
  <2>1. {l \in U : l <= k} = U
    BY <1>1
  <2> QED BY <1>2, <2>1 DEF Position
<1>5. ASSUME NEW n \in 1..N PROVE Nth(U, n) = Nth(S, n)
  <2>1. Nth(S, n) \in S /\ Position(S, Nth(S, n)) = n
    BY <1>1, NthOfPosition
  <2>2. Position(U, Nth(S, n)) = n /\ Nth(S, n) \in U
    BY <1>3, <2>1
  <2>3. Nth(U, Position(U, Nth(S, n))) = Nth(S, n)
    <3> HIDE DEF U
    <3> QED BY <1>1, <2>2, NthOfPosition
  <2> QED BY <2>2, <2>3
<1>6. Nth(U, N + 1) = k
  <2>1. k \in U
    OBVIOUS
  <2> HIDE DEF U, N
  <2>2. Nth(U, Position(U, k)) = k
    BY <1>1, <2>1, NthOfPosition
  <2> QED BY <1>4, <2>2
<1>7. /\ Subsequence(p, S) \in Seq(T) /\ Len(Subsequence(p, S)) = N
      /\ \A n \in 1..N : Subsequence(p, S)[n] = p[Nth(S, n)]
  BY SubsequenceIsSequence
<1>8. /\ Subsequence(p, U) \in Seq(T) /\ Len(Subsequence(p, U)) = N + 1
      /\ \A n \in 1..(N + 1) : Subsequence(p, U)[n] = p[Nth(U, n)]
  <2> HIDE DEF U, N
  <2> QED BY <1>1, <1>2, SubsequenceIsSequence
<1>9. Subsequence(p, U) = Append(Subsequence(p, S), p[k])
  <2> DEFINE a == Subsequence(p, U)
             b == Subsequence(p, S)
             c == Append(b, p[k])
  <2>1. p[k] \in T
    OBVIOUS
  <2>2. c \in Seq(T) /\ Len(c) = N + 1 /\ (\A n \in 1..N : c[n] = b[n]) /\ c[N + 1] = p[k]
    <3> HIDE DEF N, b
    <3> QED BY <1>1, <1>7, <2>1 DEF b
  <2>3. \A n \in 1..(N + 1) : a[n] = c[n]
    <3> HIDE DEF N, U, c
    <3> QED BY <1>1, <1>5, <1>6, <1>7, <1>8, <2>2
  <2> HIDE DEF a, c, N
  <2>4. a \in Seq(T) /\ Len(a) = N + 1
    BY <1>8 DEF a
  <2>5. a = c
    BY <2>2, <2>3, <2>4
  <2> QED BY <2>5 DEF a, c
<1> QED BY <1>9

----------------------------------------------------------------------------
(* The routing table.                                                      *)

(* The parameters of a path can be counted.                                *)
LEMMA ParametersOfPath ==
    ASSUME NEW p \in Path
    PROVE  /\ p \in Seq(Param \cup Text) /\ p # <<>> /\ Parameters(p) \subseteq DOMAIN p
           /\ Parameters(p) \subseteq Int /\ IsFiniteSet(Parameters(p))
           /\ NumParams(p) \in Nat /\ Cardinality(Parameters(p)) = NumParams(p)
<1>1. p \in Seq(Param \cup Text) /\ p # <<>> /\ Parameters(p) \subseteq DOMAIN p
  BY PathAssumption DEF Parameters
<1> QED BY <1>1, PositionsFinite DEF NumParams

(* An element of SortedRoutes is a method with a list.                     *)
LEMMA SortedRoutesPairs ==
    ASSUME NEW x \in SortedRoutes
    PROVE  x = <<x[1], x[2]>>
<1> DEFINE Lists(o) == {r \in SetToSeqs({p \in Path : o \in MethodsOf(p)}) : StaticFirst(r)}
<1>1. PICK o \in Method : x \in {<<o, r>> : r \in Lists(o)}
  BY Zenon DEF SortedRoutes
<1> HIDE DEF Lists
<1> QED BY <1>1

(* A sorted list has every path under its method (server.go:467-505).      *)
LEMMA SortedRoutesComplete ==
    ASSUME NEW m, NEW s, <<m, s>> \in SortedRoutes
    PROVE  /\ m \in Method /\ s \in Seq(Path) /\ StaticFirst(s)
           /\ ToSet(s) = {p \in Path : m \in MethodsOf(p)}
<1> DEFINE P == {p \in Path : m \in MethodsOf(p)}
           N == Cardinality(P)
<1>1. m \in Method /\ s \in SetToSeqs(P) /\ StaticFirst(s)
  <2> DEFINE Lists(o) == {r \in SetToSeqs({p \in Path : o \in MethodsOf(p)}) : StaticFirst(r)}
  <2>1. PICK o \in Method : <<m, s>> \in {<<o, r>> : r \in Lists(o)}
    BY Zenon DEF SortedRoutes
  <2> HIDE DEF Lists
  <2>2. o = m /\ s \in Lists(o)
    BY <2>1
  <2> QED BY <2>2 DEF Lists
<1>2. IsFiniteSet(P) /\ N \in Nat
  <2>1. P \in SUBSET Path
    OBVIOUS
  <2> HIDE DEF P
  <2> QED BY <2>1, PathAssumption, FS_Subset, FS_CardinalityType DEF N
<1>3. s \in [1..N -> P] /\ \A i, j \in 1..N : i # j => s[i] # s[j]
  <2> HIDE DEF P
  <2> QED BY <1>1 DEF SetToSeqs, N
<1>4. s \in Injection(1..N, P)
  <2> HIDE DEF P, N
  <2> QED BY <1>3 DEF Injection, IsInjective
<1>5. Cardinality(1..N) = N
  <2> HIDE DEF N
  <2> QED BY <1>2, FS_Interval
<1>6. s \in Surjection(1..N, P)
  <2> HIDE DEF P
  <2> QED BY <1>2, <1>4, <1>5, FS_Injection DEF N
<1>7. ToSet(s) = P
  <2> HIDE DEF P, N
  <2> QED BY <1>3, <1>6 DEF ToSet, Surjection
<1>8. s \in Seq(Path)
  <2>1. s \in [1..N -> Path]
    BY <1>3
  <2> HIDE DEF P, N
  <2> QED BY <1>2, <2>1
<1> QED BY <1>1, <1>7, <1>8

(* The first match in a sorted list is one of the fittest.                 *)
LEMMA FirstMatch ==
    ASSUME NEW m, NEW s, <<m, s>> \in SortedRoutes, NEW path,
           NEW matching, matching = {i \in DOMAIN s : Matches(s[i], path)}
    PROVE  /\ matching = {} <=> Fitting(m, path) = {}
           /\ matching # {} =>
                 s[CHOOSE i \in matching : \A j \in matching : i <= j] \in Fittest(m, path)
<1>1. /\ s \in Seq(Path) /\ StaticFirst(s)
      /\ ToSet(s) = {p \in Path : m \in MethodsOf(p)}
  BY SortedRoutesComplete
<1>2. \A p : p \in Fitting(m, path) <=> \E i \in matching : p = s[i]
  BY <1>1 DEF ToSet, Fitting
<1>3. matching \subseteq Nat
  BY <1>1
<1>4. ASSUME matching # {}
      PROVE  s[CHOOSE i \in matching : \A j \in matching : i <= j] \in Fittest(m, path)
  <2> DEFINE first == CHOOSE i \in matching : \A j \in matching : i <= j
  <2>1. first \in matching /\ \A j \in matching : first <= j
    <3>1. \E i \in matching : \A j \in matching : i <= j
      BY <1>3, <1>4, Least
    <3> QED BY <3>1
  <2> HIDE DEF first
  <2>2. s[first] \in Fitting(m, path)
    BY <1>2, <2>1
  <2>3. ASSUME NEW r \in Fitting(m, path) PROVE NumParams(s[first]) <= NumParams(r)
    <3>1. PICK i \in matching : r = s[i]
      BY <1>2
    <3>2. NumParams(s[first]) \in Nat
      BY <2>2, ParametersOfPath DEF Fitting
    <3>3. first = i \/ first < i
      BY <2>1, <1>3
    <3>4. first \in DOMAIN s /\ i \in DOMAIN s
      BY <2>1
    <3> QED BY <1>1, <3>1, <3>2, <3>3, <3>4 DEF StaticFirst
  <2>4. s[first] \in Fittest(m, path)
    BY <2>2, <2>3 DEF Fittest
  <2> QED BY <2>4 DEF first
<1> QED BY <1>2, <1>4

----------------------------------------------------------------------------
(* Routing.                                                                *)

(* A path that is matched is as long as its pattern, and its segments are  *)
(* texts that the pattern admits (server.go:524-565).                      *)
LEMMA Matched ==
    ASSUME NEW p \in Path, NEW path \in Seq(Text), Matches(p, path)
    PROVE  /\ Len(path) = Len(p) /\ DOMAIN path = DOMAIN p
           /\ Parameters(p) \subseteq DOMAIN path
           /\ \A i \in DOMAIN p : p[i] \notin Param => path[i] = p[i]
<1>1. p \in Seq(Param \cup Text) /\ Parameters(p) \subseteq DOMAIN p
  BY ParametersOfPath
<1> QED BY <1>1 DEF Matches

(* What the parameters of a path are given: the IDs, in their order.       *)
LEMMA RouteToResult ==
    ASSUME NEW p \in Path, NEW path \in Seq(Text), Matches(p, path)
    PROVE  LET S == Parameters(p)
               N == NumParams(p)
               id(n) == Unescaped[path[Nth(S, n)]]
               a == RouteTo(p, path)
           IN  \/ /\ a = Result("unparsable")
                  /\ \E n \in 1..N : id(n) = Invalid
               \/ /\ a.status = "routed" /\ a.route = p
                  /\ \A n \in 1..N : id(n) # Invalid
                  /\ \/ N = 0 /\ a.primary = None /\ a.secondary = <<>>
                     \/ /\ N # 0
                        /\ a.primary = IF HasPrimaryID(p) THEN id(N) ELSE None
                        /\ a.secondary =
                              [n \in 1..NumSecondaryIDs(p) |-> [name |-> p[Nth(S, n)], id |-> id(n)]]
<1> DEFINE S == Parameters(p)
           N == NumParams(p)
           matches == Subsequence(path, S)
           ids == [n \in DOMAIN matches |-> Unescaped[matches[n]]]
           id(n) == Unescaped[path[Nth(S, n)]]
<1>1. N \in Nat /\ N = Cardinality(S) /\ S \subseteq DOMAIN path /\ S \subseteq DOMAIN p
  BY ParametersOfPath, Matched
<1>2. DOMAIN matches = 1..N /\ \A n \in 1..N : matches[n] = path[Nth(S, n)]
  <2> HIDE DEF S, N
  <2> QED BY <1>1, SubsequenceIsSequence
<1>3. ids = [n \in 1..N |-> id(n)]
  BY <1>2
<1>4. ids = <<>> <=> N = 0
  BY <1>1, <1>3
<1>5. N # 0 => Len(ids) = N
  BY <1>1, <1>3
<1>6. Invalid \in ToSet(ids) <=> \E n \in 1..N : id(n) = Invalid
  BY <1>3 DEF ToSet
<1>7. /\ \A n \in 1..N : Params(p)[n] = p[Nth(S, n)]
      /\ NumSecondaryIDs(p) \in {N, N - 1}
  <2>1. p \in Seq(Param \cup Text)
    BY ParametersOfPath
  <2> HIDE DEF S, N
  <2> QED BY <1>1, <2>1, SubsequenceIsSequence DEF Params, NumSecondaryIDs, S, N
<1>8. RouteTo(p, path) =
        IF ids = <<>> THEN [Result("routed") EXCEPT !.route = p]
        ELSE IF Invalid \in ToSet(ids) THEN Result("unparsable")
        ELSE [status |-> "routed", route |-> p,
              primary |-> IF HasPrimaryID(p) THEN ids[Len(ids)] ELSE None,
              secondary |-> [n \in 1..NumSecondaryIDs(p) |->
                                [name |-> Params(p)[n], id |-> ids[n]]]]
  BY DEF RouteTo
<1>9. CASE N = 0
  BY <1>4, <1>8, <1>9 DEF Result
<1>10. CASE N # 0 /\ \E n \in 1..N : id(n) = Invalid
  BY <1>4, <1>6, <1>8, <1>10
<1>11. CASE N # 0 /\ \A n \in 1..N : id(n) # Invalid
  <2> DEFINE given == [n \in 1..NumSecondaryIDs(p) |-> [name |-> Params(p)[n], id |-> ids[n]]]
  <2>1. given = [n \in 1..NumSecondaryIDs(p) |-> [name |-> p[Nth(S, n)], id |-> id(n)]]
    BY <1>1, <1>3, <1>7
  <2>2. ids[Len(ids)] = id(N)
    BY <1>1, <1>3, <1>5, <1>11
  <2> HIDE DEF ids, id, S, N
  <2>3. RouteTo(p, path) = [status |-> "routed", route |-> p,
              primary |-> IF HasPrimaryID(p) THEN id(N) ELSE None,
              secondary |-> [n \in 1..NumSecondaryIDs(p) |-> [name |-> p[Nth(S, n)], id |-> id(n)]]]
    BY <1>4, <1>6, <1>8, <1>11, <2>1, <2>2
  <2> QED BY <1>11, <2>3 DEF id, S, N
<1> QED BY <1>9, <1>10, <1>11

----------------------------------------------------------------------------
(* Doubled slashes.                                                        *)

(* What is left of a path without its doubled slashes is a path.           *)
LEMMA FixedPathType ==
    ASSUME NEW path \in Seq(Text)
    PROVE  FixedPath(path) \in Seq(Text)
BY SubsequenceIsSequence DEF FixedPath

(* Where no slash is part of three, each that doubles another is dropped   *)
(* (server.go:31-39).                                                      *)
LEMMA DoubledDropped ==
    ASSUME NEW p \in Seq(Text), p[Len(p)] # Empty,
           \A i \in 1..(Len(p) - 1) : ~(p[i] = Empty /\ p[i + 1] = Empty)
    PROVE  \A i \in DOMAIN p : Dropped(p, i) <=> p[i] = Empty
<1> SUFFICES ASSUME NEW i \in DOMAIN p, p[i] = Empty PROVE Dropped(p, i)
  BY DEF Dropped
<1>1. i \in 1..Len(p) /\ i < Len(p)
  OBVIOUS
<1>2. \A j \in i..i : p[j] = Empty
  OBVIOUS
<1>3. i > 1 => p[i - 1] # Empty
  <2> SUFFICES ASSUME i > 1, p[i - 1] = Empty PROVE FALSE
    OBVIOUS
  <2>1. i - 1 \in 1..(Len(p) - 1) /\ (i - 1) + 1 = i
    BY <1>1
  <2> QED BY <2>1
<1>4. i \in 1..i /\ (i - i) % 2 = 0
  BY <1>1
<1> QED BY <1>1, <1>2, <1>3, <1>4 DEF Dropped

(* What has no doubled slash is left alone.                                *)
LEMMA NothingDropped ==
    ASSUME NEW p \in Seq(Text), \A i \in DOMAIN p : p[i] # Empty
    PROVE  FixedPath(p) = p
<1>1. {i \in DOMAIN p : ~Dropped(p, i)} = DOMAIN p
  BY DEF Dropped
<1> QED BY <1>1, SubsequenceOfAll DEF FixedPath
=============================================================================
