------------------------- MODULE StatelessMockProofs -------------------------
(***************************************************************************)
(* ResponseGeneration implements StatelessMock, for any handlers, fixtures *)
(* and requests, if responses are trees and nothing is handed out by       *)
(* reference: AnswerInv says what has become of a response after each      *)
(* step, up to the one that Responses defines.                             *)
(***************************************************************************)
EXTENDS ResponseGenerationProofs

----------------------------------------------------------------------------
(* Closures and trees.                                                     *)

(* Closure is the least set that has the root and all that follows.        *)
LEMMA ClosureLeast ==
    ASSUME NEW root \in Map, NEW next \in [Map -> SUBSET Map]
    PROVE  /\ root \in Closure(root, next) /\ Closure(root, next) \subseteq Map
           /\ \A m \in Closure(root, next) : next[m] \subseteq Closure(root, next)
           /\ \A S \in SUBSET Map :
                root \in S /\ (\A n \in S : next[n] \subseteq S) => Closure(root, next) \subseteq S
<1>1. \A m \in Map : m \in Closure(root, next) <=>
         \A S \in SUBSET Map : root \in S /\ (\A n \in S : next[n] \subseteq S) => m \in S
  BY DEF Closure
<1>2. Closure(root, next) \subseteq Map
  BY DEF Closure
<1>3. ASSUME NEW m \in Closure(root, next), NEW n \in next[m] PROVE n \in Closure(root, next)
  <2>1. m \in Map /\ n \in Map
    BY <1>2, <1>3
  <2>2. ASSUME NEW S \in SUBSET Map, root \in S, \A x \in S : next[x] \subseteq S PROVE n \in S
    <3>1. m \in S
      BY <1>1, <2>1, <2>2
    <3> QED BY <1>3, <2>2, <3>1
  <2> QED BY <1>1, <2>1, <2>2
<1>4. root \in Closure(root, next)
  BY <1>1
<1> QED BY <1>1, <1>2, <1>3, <1>4

(* An object of a tree refers to the objects found at its keys.            *)
LEMMA RefersType ==
    ASSUME NEW tree
    PROVE  /\ Refers(tree) \in [Map -> SUBSET Map]
           /\ \A m \in Map, k \in Key : tree[m][k] \in Map => tree[m][k] \in Refers(tree)[m]
           /\ \A m \in Map : \A n \in Refers(tree)[m] : \E k \in Key : n = tree[m][k]
BY DEF Refers

(* What generateInternal copies is found by way of copies only.            *)
LEMMA CopiedClosed ==
    ASSUME NEW r \in Request
    PROVE  /\ r.root \in Copied[r] /\ Copied[r] \subseteq Map
           /\ \A m \in Copied[r], k \in Key :
                 Copies(r, m, k) /\ Plain(r, m, k) \in Map => Plain(r, m, k) \in Copied[r]
           /\ \A S \in SUBSET Map :
                 /\ r.root \in S
                 /\ \A m \in S, k \in Key :
                       Copies(r, m, k) /\ Plain(r, m, k) \in Map => Plain(r, m, k) \in S
                 => Copied[r] \subseteq S
<1> DEFINE next == [m \in Map |->
                      {Plain(r, m, k) : k \in {j \in Key : Copies(r, m, j)}} \cap Map]
<1>1. r.root \in Map /\ next \in [Map -> SUBSET Map]
  BY RequestAssumption
<1>2. Copied[r] = Closure(r.root, next)
  BY DEF Copied
<1>3. \A m \in Map, k \in Key :
         Copies(r, m, k) /\ Plain(r, m, k) \in Map => Plain(r, m, k) \in next[m]
  OBVIOUS
<1>4. \A m \in Map : \A n \in next[m] : \E k \in Key : Copies(r, m, k) /\ n = Plain(r, m, k)
  OBVIOUS
<1> HIDE DEF next
<1>5. r.root \in Copied[r] /\ Copied[r] \subseteq Map
  BY <1>1, <1>2, ClosureLeast
<1>6. \A m \in Copied[r] : next[m] \subseteq Copied[r]
  BY <1>1, <1>2, ClosureLeast
<1>7. ASSUME NEW S \in SUBSET Map, r.root \in S,
             \A m \in S, k \in Key :
                Copies(r, m, k) /\ Plain(r, m, k) \in Map => Plain(r, m, k) \in S
      PROVE  Copied[r] \subseteq S
  <2>1. \A n \in S : next[n] \subseteq S
    BY <1>1, <1>4, <1>7
  <2> QED BY <1>1, <1>2, <1>7, <2>1, ClosureLeast
<1> QED BY <1>3, <1>5, <1>6, <1>7

(* Every value there is, is one of the fixtures or their references.       *)
LEMMA RawType ==
    ASSUME NEW r \in Request
    PROVE  /\ Raw[r] \in [Map -> [Key -> Value]]
           /\ \A m \in Copied[r], k \in Key :
                 Raw[r][m][k] = IF Kind[m][k] = "none" THEN None ELSE Plain(r, m, k)
<1>1. \A m \in Map, k \in Key : Plain(r, m, k) \in Value /\ Fixture[m][k] \in Value
  BY DataAssumption DEF Plain, Value
<1>2. \A m \in Map, k \in Key : Raw[r][m][k] =
         IF m \notin Copied[r] THEN Fixture[m][k]
         ELSE IF Kind[m][k] = "none" THEN None ELSE Plain(r, m, k)
  BY DEF Raw
<1>3. \A m \in Map, k \in Key : Raw[r][m][k] \in Value
  BY <1>1, <1>2 DEF Value
<1>4. Raw[r] = [m \in Map |-> [k \in Key |-> Raw[r][m][k]]]
  BY DEF Raw
<1>5. Copied[r] \subseteq Map
  BY CopiedClosed
<1> QED BY <1>2, <1>3, <1>4, <1>5

(* If nothing is handed out by reference a response is what was copied.    *)
LEMMA ShownCopied ==
    ASSUME Exposed = {}, NEW r \in Request
    PROVE  /\ Shown[r] = Copied[r]
           /\ \A m \in Shown[r], k \in Key : Raw[r][m][k] \in Map =>
                 /\ Copies(r, m, k) /\ Raw[r][m][k] = Plain(r, m, k) /\ k \in Properties(m)
                 /\ Raw[r][m][k] \in Shown[r]
<1>1. ASSUME NEW m \in Copied[r], NEW k \in Key, Raw[r][m][k] \in Map
      PROVE  /\ Copies(r, m, k) /\ Raw[r][m][k] = Plain(r, m, k) /\ k \in Properties(m)
             /\ Raw[r][m][k] \in Copied[r]
  <2>1. m \in Map /\ Kind[m][k] # "none" /\ Raw[r][m][k] = Plain(r, m, k)
    <3>1. m \in Map
      BY CopiedClosed
    <3>2. None \notin Map
      BY DataAssumption
    <3>3. Raw[r][m][k] = IF Kind[m][k] = "none" THEN None ELSE Plain(r, m, k)
      BY RawType
    <3> QED BY <1>1, <3>1, <3>2, <3>3
  <2>2. Copies(r, m, k)
    <3>1. CASE FromTarget(r, m, k)
      BY <3>1 DEF FromTarget, Copies
    <3>2. CASE ~FromTarget(r, m, k)
      BY <1>1, <2>1, <3>2, ExposedAssumption DEF Plain, Copies
    <3> QED BY <3>1, <3>2
  <2> QED BY <1>1, <2>1, <2>2, CopiedClosed DEF Properties
<1>2. Shown[r] = Closure(r.root, Refers(Raw[r])) /\ r.root \in Map
  BY RequestAssumption DEF Shown
<1>3. /\ r.root \in Shown[r] /\ Shown[r] \subseteq Map
      /\ \A m \in Shown[r] : Refers(Raw[r])[m] \subseteq Shown[r]
      /\ \A S \in SUBSET Map :
            r.root \in S /\ (\A n \in S : Refers(Raw[r])[n] \subseteq S) => Shown[r] \subseteq S
  BY <1>2, RefersType, ClosureLeast
<1>4. Shown[r] \subseteq Copied[r]
  <2>1. Copied[r] \in SUBSET Map /\ r.root \in Copied[r]
    BY CopiedClosed
  <2>2. \A n \in Copied[r] : Refers(Raw[r])[n] \subseteq Copied[r]
    BY <1>1, <2>1, RefersType
  <2> QED BY <1>3, <2>1, <2>2
<1>5. Copied[r] \subseteq Shown[r]
  <2>1. ASSUME NEW m \in Shown[r], NEW k \in Key, Copies(r, m, k), Plain(r, m, k) \in Map
        PROVE  Plain(r, m, k) \in Shown[r]
    <3>1. Raw[r][m][k] = Plain(r, m, k)
      BY <1>4, <2>1, RawType DEF Copies, Expanded
    <3> QED BY <1>3, <2>1, <3>1, RefersType
  <2> QED BY <1>3, <2>1, CopiedClosed
<1> QED BY <1>1, <1>4, <1>5

(* Then it has the properties that the passes walk it by.                  *)
LEMMA ShownClosed ==
    ASSUME NEW r \in Request
    PROVE  /\ r.root \in Shown[r] /\ Shown[r] \subseteq Map
           /\ \A m \in Shown[r], k \in Key : Raw[r][m][k] \in Map => Raw[r][m][k] \in Shown[r]
           /\ \A S \in SUBSET Map :
                 /\ r.root \in S
                 /\ \A m \in S, k \in Key : Raw[r][m][k] \in Map => Raw[r][m][k] \in S
                 => Shown[r] \subseteq S
<1>1. Shown[r] = Closure(r.root, Refers(Raw[r])) /\ r.root \in Map
  BY RequestAssumption DEF Shown
<1>2. /\ r.root \in Shown[r] /\ Shown[r] \subseteq Map
      /\ \A m \in Shown[r] : Refers(Raw[r])[m] \subseteq Shown[r]
      /\ \A S \in SUBSET Map :
            r.root \in S /\ (\A n \in S : Refers(Raw[r])[n] \subseteq S) => Shown[r] \subseteq S
  BY <1>1, RefersType, ClosureLeast
<1>3. ASSUME NEW S \in SUBSET Map, r.root \in S,
             \A m \in S, k \in Key : Raw[r][m][k] \in Map => Raw[r][m][k] \in S
      PROVE  Shown[r] \subseteq S
  <2>1. \A n \in S : Refers(Raw[r])[n] \subseteq S
    BY <1>3, RefersType
  <2> QED BY <1>2, <1>3, <2>1
<1> QED BY <1>2, <1>3, RefersType

(* Each object of a tree is found at one key of one other.                 *)
LEMMA ShownTree ==
    ASSUME Exposed = {}, ResponsesAreTrees, NEW r \in Request,
           NEW m \in Shown[r], NEW k \in Key, Raw[r][m][k] \in Map
    PROVE  /\ Raw[r][m][k] # r.root
           /\ \A n \in Shown[r], j \in Key : Raw[r][n][j] = Raw[r][m][k] => n = m /\ j = k
<1>1. PICK R \in SUBSET Map : IsTree(r, R)
  BY DEF ResponsesAreTrees
<1>2. ASSUME NEW n \in R, NEW j \in Key, Copies(r, n, j), Plain(r, n, j) \in Map
      PROVE  Plain(r, n, j) \in R
  <2>1. j \in Properties(n)
    BY <1>2 DEF Copies, Expanded, Properties
  <2> QED BY <1>1, <1>2, <2>1 DEF IsTree
<1>3. Copied[r] \subseteq R
  BY <1>1, <1>2, CopiedClosed DEF IsTree
<1>4. ASSUME NEW n \in Shown[r], NEW j \in Key, Raw[r][n][j] \in Map
      PROVE  n \in R /\ j \in Properties(n) /\ Raw[r][n][j] = Plain(r, n, j)
  BY <1>3, <1>4, ShownCopied
<1>5. m \in R /\ k \in Properties(m) /\ Raw[r][m][k] = Plain(r, m, k)
  BY <1>4
<1> QED BY <1>1, <1>4, <1>5 DEF IsTree

----------------------------------------------------------------------------
(* What becomes of a value.                                                *)

(* An ID of the path takes the place of a string, and of nothing else.     *)
LEMMA NamedIs ==
    ASSUME NEW r \in Request, NEW p \in ID, NEW m \in Map, NEW k \in Key
    PROVE  /\ Raw[r][m][k] \notin Text => Named[r][p][m][k] = Raw[r][m][k]
           /\ Raw[r][m][k] \in Text => Named[r][p][m][k] \in Text
<1>1. Named[r][p][m][k] =
        IF m = r.root /\ k = IdKey /\ Raw[r][m][k] \in Text /\ p # None THEN p
        ELSE IF Claims[r][m][k] # {} THEN Claimed(r, m, k) ELSE Raw[r][m][k]
  BY DEF Named
<1>2. Claims[r][m][k] =
        IF Raw[r][m][k] \notin Text \/ (m = r.root /\ k = IdKey) THEN {}
        ELSE IF k # IdKey THEN ByName(r, {k})
        ELSE ByName(r, Under(r, m) \cup {ObjectName[m]})
  BY DEF Claims
<1>3. Claims[r][m][k] # {} => Claimed(r, m, k) \in Text
  <2> SUFFICES ASSUME Claims[r][m][k] # {} PROVE Claimed(r, m, k) \in Text
    OBVIOUS
  <2> DEFINE nearest == ByName(r, Under(r, m))
             choice(i) == (k = IdKey /\ nearest # {}) => i \in nearest
  <2>1. k = IdKey => nearest \subseteq Claims[r][m][k]
    BY <1>2 DEF ByName
  <2>2. \E i \in Claims[r][m][k] : choice(i)
    <3> HIDE DEF nearest
    <3> QED BY <2>1
  <2>3. PICK i \in Claims[r][m][k] : i = CHOOSE j \in Claims[r][m][k] : choice(j)
    <3> HIDE DEF choice
    <3> QED BY <2>2
  <2>4. Claimed(r, m, k) = r.secondary[i].id
    BY <2>3 DEF Claimed
  <2>5. i \in DOMAIN r.secondary
    BY <1>2 DEF ByName
  <2> QED BY <2>4, <2>5, SecondaryID
<1> QED BY <1>1, <1>2, <1>3 DEF ID

(* So does a new ID that takes the place of an old one.                    *)
LEMMA RenameIs ==
    ASSUME NEW r \in Request, NEW p \in ID, NEW t
    PROVE  /\ t \notin Text => Rename(r, p, t) = t
           /\ t \in Text => Rename(r, p, t) \in Text
<1> DEFINE stale == {i \in DOMAIN r.secondary : t \in Old[r][i]}
<1>1. Rename(r, p, t) =
        IF t \notin Text THEN t
        ELSE IF t = Raw[r][r.root][IdKey] /\ p # None THEN p
        ELSE IF stale # {} THEN r.secondary[CHOOSE i \in stale : \A j \in stale : i <= j].id
        ELSE t
  BY DEF Rename
<1>2. stale # {} => r.secondary[CHOOSE i \in stale : \A j \in stale : i <= j].id \in Text
  <2> SUFFICES ASSUME stale # {}
               PROVE  r.secondary[CHOOSE i \in stale : \A j \in stale : i <= j].id \in Text
    OBVIOUS
  <2>1. DOMAIN r.secondary \subseteq Nat
    BY RequestAssumption
  <2>2. \E i \in stale : \A j \in stale : i <= j
    <3>1. stale \subseteq Nat
      BY <2>1
    <3> HIDE DEF stale
    <3> QED BY <3>1, Least
  <2>3. (CHOOSE i \in stale : \A j \in stale : i <= j) \in stale
    <3> HIDE DEF stale
    <3> QED BY <2>2
  <2> QED BY <2>3, SecondaryID
<1> HIDE DEF stale
<1> QED BY <1>1, <1>2 DEF ID

(* The distribute pass changes no more than the record pass...             *)
LEMMA RenamedIs ==
    ASSUME NEW r \in Request, NEW p \in ID, NEW m \in Map, NEW k \in Key
    PROVE  /\ Raw[r][m][k] \notin Text => Renamed[r][p][m][k] = Raw[r][m][k]
           /\ Raw[r][m][k] \in Text => Renamed[r][p][m][k] \in Text
<1>1. Renamed[r][p][m][k] = Rename(r, p, Named[r][p][m][k])
  BY DEF Renamed
<1> QED BY <1>1, NamedIs, RenameIs

(* ... and ReplaceData nothing that is absent, and no object below which   *)
(* it reflects parameters.                                                 *)
LEMMA FinalIs ==
    ASSUME NEW r \in Request, NEW p \in ID, NEW m \in Map, NEW k \in Key
    PROVE  /\ Final[r][p][m][k] = None <=> Raw[r][m][k] = None
           /\ Final[r][p][m][k] \in Map => Final[r][p][m][k] = Raw[r][m][k]
           /\ Kind[m][k] = "object" => Final[r][p][m][k] = Renamed[r][p][m][k]
           /\ r.method # "POST" => Final[r][p][m][k] = Renamed[r][p][m][k]
<1>1. Final[r][p][m][k] =
        IF /\ m \in Asked[r] /\ Reflects(r, m, k) /\ r.data[<<m, k>>] \in Text
           /\ Kind[m][k] \in {"string", "expandable"} /\ Renamed[r][p][m][k] # None
        THEN r.data[<<m, k>>] ELSE Renamed[r][p][m][k]
  BY DEF Final
<1>2. \A t \in Text : t # None /\ t \notin Map
  BY DataAssumption
<1>3. Renamed[r][p][m][k] = None <=> Raw[r][m][k] = None
  BY <1>2, RenamedIs
<1>4. Renamed[r][p][m][k] \in Map => Renamed[r][p][m][k] = Raw[r][m][k]
  BY <1>2, RenamedIs
<1>5. \/ Final[r][p][m][k] = Renamed[r][p][m][k]
      \/ Renamed[r][p][m][k] # None /\ Final[r][p][m][k] \in Text
  BY <1>1
<1>6. Kind[m][k] = "object" \/ r.method # "POST" => Final[r][p][m][k] = Renamed[r][p][m][k]
  BY <1>1 DEF Reflects
<1>7. Final[r][p][m][k] = None <=> Raw[r][m][k] = None
  BY <1>3, <1>2, <1>5
<1>8. Final[r][p][m][k] \in Map => Final[r][p][m][k] = Raw[r][m][k]
  BY <1>4, <1>2, <1>5
<1> QED BY <1>6, <1>7, <1>8

(* What is asked for and what is left is among what is shown.              *)
LEMMA AskedClosed ==
    ASSUME NEW r \in Request
    PROVE  /\ r.root \in Asked[r] /\ Asked[r] \subseteq Shown[r]
           /\ \A m \in Asked[r], k \in Key :
                 Nests(r, m, k) /\ Raw[r][m][k] \in Map => Raw[r][m][k] \in Asked[r]
           /\ \A S \in SUBSET Map :
                 /\ r.root \in S
                 /\ \A m \in S, k \in Key :
                       Nests(r, m, k) /\ Raw[r][m][k] \in Map => Raw[r][m][k] \in S
                 => Asked[r] \subseteq S
<1> DEFINE next == [m \in Map |->
                      {Raw[r][m][k] : k \in {j \in Key : Nests(r, m, j)}} \cap Map]
<1>1. r.root \in Map /\ next \in [Map -> SUBSET Map]
  BY RequestAssumption
<1>2. Asked[r] = Closure(r.root, next)
  BY DEF Asked
<1>3. \A m \in Map, k \in Key : Nests(r, m, k) /\ Raw[r][m][k] \in Map => Raw[r][m][k] \in next[m]
  OBVIOUS
<1>4. \A m \in Map : \A n \in next[m] : \E k \in Key : Nests(r, m, k) /\ n = Raw[r][m][k]
  OBVIOUS
<1> HIDE DEF next
<1>5. /\ r.root \in Asked[r] /\ Asked[r] \subseteq Map
      /\ \A m \in Asked[r] : next[m] \subseteq Asked[r]
  BY <1>1, <1>2, ClosureLeast
<1>6. ASSUME NEW S \in SUBSET Map, r.root \in S,
             \A m \in S, k \in Key : Nests(r, m, k) /\ Raw[r][m][k] \in Map => Raw[r][m][k] \in S
      PROVE  Asked[r] \subseteq S
  <2>1. \A n \in S : next[n] \subseteq S
    BY <1>1, <1>4, <1>6
  <2> QED BY <1>1, <1>2, <1>6, <2>1, ClosureLeast
<1>7. Asked[r] \subseteq Shown[r]
  BY <1>6, ShownClosed
<1> QED BY <1>3, <1>5, <1>6, <1>7

(* What is left of a response is what its final values lead to, and no     *)
(* more than was shown.                                                    *)
LEMMA LeftClosed ==
    ASSUME NEW r \in Request, NEW p \in ID
    PROVE  /\ r.root \in Left[r][p] /\ Left[r][p] \subseteq Shown[r]
           /\ \A m \in Left[r][p], k \in Key :
                 Final[r][p][m][k] \in Map => Final[r][p][m][k] \in Left[r][p]
           /\ \A S \in SUBSET Map :
                 /\ r.root \in S
                 /\ \A m \in S, k \in Key : Final[r][p][m][k] \in Map => Final[r][p][m][k] \in S
                 => Left[r][p] \subseteq S
<1>1. Left[r][p] = Closure(r.root, Refers(Final[r][p])) /\ r.root \in Map
  BY RequestAssumption DEF Left
<1>2. /\ r.root \in Left[r][p] /\ Left[r][p] \subseteq Map
      /\ \A m \in Left[r][p] : Refers(Final[r][p])[m] \subseteq Left[r][p]
      /\ \A S \in SUBSET Map :
            r.root \in S /\ (\A n \in S : Refers(Final[r][p])[n] \subseteq S) => Left[r][p] \subseteq S
  BY <1>1, RefersType, ClosureLeast
<1>3. ASSUME NEW S \in SUBSET Map, r.root \in S,
             \A m \in S, k \in Key : Final[r][p][m][k] \in Map => Final[r][p][m][k] \in S
      PROVE  Left[r][p] \subseteq S
  <2>1. \A n \in S : Refers(Final[r][p])[n] \subseteq S
    BY <1>3, RefersType
  <2> QED BY <1>2, <1>3, <2>1
<1>4. Left[r][p] \subseteq Shown[r]
  <2>1. \A m \in Shown[r], k \in Key : Final[r][p][m][k] \in Map => Final[r][p][m][k] \in Shown[r]
    BY FinalIs, ShownClosed
  <2> QED BY <1>3, <2>1, ShownClosed
<1> QED BY <1>2, <1>3, <1>4, RefersType

----------------------------------------------------------------------------
(* The passes as walks over the tree.                                      *)

(* B has the shape of what was copied: the same keys, the same objects.    *)
Like(r, B) ==
    \A m \in Map, k \in Key :
        /\ B[m][k] = None <=> Raw[r][m][k] = None
        /\ B[m][k] \in Map \/ Raw[r][m][k] \in Map => B[m][k] = Raw[r][m][k]

(* The ID passes leave the shape of the tree alone.                        *)
LEMMA Shapes ==
    ASSUME NEW r \in Request, NEW p \in ID
    PROVE  Like(r, Raw[r]) /\ Like(r, Named[r][p]) /\ Like(r, Renamed[r][p])
<1>1. \A t \in Text : t # None /\ t \notin Map
  BY DataAssumption
<1>2. Like(r, Raw[r])
  BY DEF Like
<1>3. Like(r, Named[r][p])
  BY <1>1, NamedIs DEF Like
<1>4. Like(r, Renamed[r][p])
  BY <1>1, RenamedIs DEF Like
<1> QED BY <1>2, <1>3, <1>4

(* The handler's maps after x has been written at key k of m.              *)
Becomes(c, m, k, x) ==
    \A n \in Map, j \in Key :
        copy'[c][n][j] = IF n = m /\ j = k THEN x ELSE copy[c][n][j]

(* Nothing but key k of m is visited by the step...                        *)
Visits(c, U, m, k) ==
    \A n \in own[c], j \in Key :
        Pending(c, U, n, j)' <=> Pending(c, U, n, j) /\ (n # m \/ j # k)

(* ... or what is absent from the object v that it enters.                 *)
Enters(c, U, v, B, m, k) ==
    \A n \in own[c], j \in Key :
        /\ Pending(c, U \ {v}, n, j)' => Pending(c, U, n, j)
        /\ Pending(c, U, n, j) /\ ~Pending(c, U \ {v}, n, j)' =>
              (n = m /\ j = k) \/ B[n][j] = None

(* What is left to visit when a loop has gone on by one key...             *)
LEMMA VisitedUnvisited ==
    ASSUME TypeOK, NEW c \in Handler, NEW k, stack[c] # <<>>, Visited(c, k)
    PROVE  /\ stack'[c] # <<>>
           /\ \A n, j : Unvisited(c, n, j)' => Unvisited(c, n, j)
           /\ \A n, j : Unvisited(c, n, j) /\ (n # Top(c).map \/ j # k) => Unvisited(c, n, j)'
<1>1. stack \in [Handler -> Seq(Frame)]
  BY DEF TypeOK
<1>2. /\ DOMAIN stack'[c] = DOMAIN stack[c]
      /\ Len(stack[c]) \in DOMAIN stack[c]
      /\ \A i \in DOMAIN stack[c] :
            /\ stack'[c][i].map = stack[c][i].map
            /\ stack'[c][i].left = IF i = Len(stack[c]) THEN stack[c][i].left \ {k}
                                   ELSE stack[c][i].left
  BY <1>1, VisitedLeft
<1>3. stack'[c] # <<>>
  BY <1>2
<1> QED BY <1>2, <1>3 DEF Unvisited, Top

(* ... and when it has recursed.                                           *)
LEMMA EnteredUnvisited ==
    ASSUME TypeOK, NEW c \in Handler, NEW k \in Key, NEW v \in Map, NEW ks \in SUBSET Key,
           stack[c] # <<>>, Entered(c, k, v, ks)
    PROVE  /\ stack'[c] # <<>>
           /\ \A n, j : Unvisited(c, n, j)' => Unvisited(c, n, j) \/ (n = v /\ j \in ks)
           /\ \A n, j : Unvisited(c, n, j) /\ (n # Top(c).map \/ j # k) => Unvisited(c, n, j)'
           /\ \A j \in ks : Unvisited(c, v, j)'
<1>1. stack \in [Handler -> Seq(Frame)]
  BY DEF TypeOK
<1>2. /\ DOMAIN stack'[c] = DOMAIN stack[c] \cup {Len(stack[c]) + 1}
      /\ Len(stack[c]) \in DOMAIN stack[c] /\ Len(stack[c]) + 1 \notin DOMAIN stack[c]
      /\ \A i \in DOMAIN stack[c] :
            /\ stack'[c][i].map = stack[c][i].map
            /\ stack'[c][i].left = IF i = Len(stack[c]) THEN stack[c][i].left \ {k}
                                   ELSE stack[c][i].left
      /\ stack'[c][Len(stack[c]) + 1].map = v
      /\ stack'[c][Len(stack[c]) + 1].left = ks
  BY <1>1, EnteredLeft, ZenonT(40)
<1>3. stack'[c] # <<>>
  BY <1>2
<1> QED BY <1>2, <1>3 DEF Unvisited, Top

(* A call that returns has visited all of its keys.                        *)
LEMMA ReturnFrames ==
    ASSUME TypeOK, NEW c \in Handler, Return(c)
    PROVE  /\ DOMAIN stack'[c] \subseteq DOMAIN stack[c] /\ 1 \in DOMAIN stack'[c]
           /\ \A i \in DOMAIN stack'[c] : stack'[c][i] = stack[c][i]
           /\ \A i \in DOMAIN stack[c] : i \in DOMAIN stack'[c] \/ stack[c][i].left = {}
           /\ \A n, j : Unvisited(c, n, j)' <=> Unvisited(c, n, j)
<1>1. /\ stack[c] \in Seq(Frame) /\ Len(stack[c]) > 1 /\ Len(stack[c]) \in Nat
      /\ stack'[c] = SubSeq(stack[c], 1, Len(stack[c]) - 1)
      /\ stack[c][Len(stack[c])].left = {}
  BY DEF Return, TypeOK, Rest, Top
<1>2. /\ DOMAIN stack[c] = 1..Len(stack[c])
      /\ DOMAIN stack'[c] = 1..(Len(stack[c]) - 1)
      /\ \A i \in 1..(Len(stack[c]) - 1) : stack'[c][i] = stack[c][i]
  BY <1>1
<1>3. /\ DOMAIN stack'[c] \subseteq DOMAIN stack[c] /\ 1 \in DOMAIN stack'[c]
      /\ \A i \in DOMAIN stack'[c] : stack'[c][i] = stack[c][i]
      /\ \A i \in DOMAIN stack[c] : i \in DOMAIN stack'[c] \/ stack[c][i].left = {}
  BY <1>1, <1>2
<1> QED BY <1>3 DEF Unvisited

(* An ID pass begins at the root, with everything below still to be found. *)
LEMMA WalkStart ==
    ASSUME Exposed = {}, ResponsesAreTrees, TypeOK', NEW c \in Handler, NEW B, NEW A,
           NEW root \in Map, root = req'[c].root, Like(req'[c], B), Like(req'[c], A),
           own'[c] = Shown[req'[c]], NEW U, U = own'[c] \ {root},
           \A m \in own'[c], k \in Key : copy'[c][m][k] = B[m][k],
           DOMAIN stack'[c] = {1}, stack'[c][1].map = root,
           stack'[c][1].left = {k \in Key : copy'[c][root][k] # None}
    PROVE  Walk(c, U, B, A)'
<1>1. PICK r \in Request : r = req'[c]
  BY DEF TypeOK
<1>2. root \in own'[c] /\ own'[c] \subseteq Map
  BY <1>1, ShownClosed
<1>3. \A m \in own'[c], k \in Key : Unvisited(c, m, k)' <=> m = root /\ B[root][k] # None
  BY <1>2 DEF Unvisited
<1>4. ASSUME NEW m \in own'[c], NEW k \in Key
      PROVE  /\ copy'[c][m][k] = IF Pending(c, U, m, k)' THEN B[m][k] ELSE A[m][k]
             /\ B[m][k] \in Map => (B[m][k] \in U <=> Pending(c, U, m, k)')
  <2>1. Pending(c, U, m, k)' <=> m # root \/ B[m][k] # None
    BY <1>3 DEF Pending
  <2>2. B[m][k] = None => A[m][k] = None
    BY <1>2 DEF Like
  <2>3. B[m][k] \in Map => B[m][k] \in U /\ B[m][k] # None
    <3> SUFFICES ASSUME B[m][k] \in Map PROVE B[m][k] \in U /\ B[m][k] # None
      OBVIOUS
    <3>1. B[m][k] = Raw[r][m][k]
      BY <1>1, <1>2 DEF Like
    <3>2. Raw[r][m][k] \in Shown[r] /\ Raw[r][m][k] # r.root
      BY <1>1, <3>1, ShownClosed, ShownTree
    <3> QED BY <1>1, <3>1, <3>2, DataAssumption
  <2> QED BY <2>1, <2>2, <2>3
<1>5. /\ \A i \in DOMAIN stack'[c] :
            /\ stack'[c][i].map \in own'[c] \ U
            /\ \A k \in stack'[c][i].left : B[stack'[c][i].map][k] # None
            /\ ~(i > 1)
      /\ \A i, j \in DOMAIN stack'[c] : i = j
  BY <1>2
<1>6. stack'[c] # <<>>
  OBVIOUS
<1>7. WalkFrames(c, U, B)'
  BY <1>5, <1>6 DEF WalkFrames
<1> QED BY <1>1, <1>4, <1>7 DEF Walk

(* It turns a value that is no object into what the pass makes of it...    *)
LEMMA WalkVisited ==
    ASSUME TypeOK, NEW c \in Handler, NEW U \in SUBSET Map, NEW B, NEW A, Walk(c, U, B, A),
           stack[c] # <<>>, NEW m, m = Top(c).map, NEW k \in Top(c).left, k \in Key,
           B[m][k] \notin Map, Visited(c, k), own'[c] = own[c], req'[c] = req[c],
           Becomes(c, m, k, A[m][k])
    PROVE  Walk(c, U, B, A)' /\ Visits(c, U, m, k)
<1>1. stack \in [Handler -> Seq(Frame)]
  BY DEF TypeOK
<1>2. /\ DOMAIN stack'[c] = DOMAIN stack[c] /\ Len(stack[c]) \in DOMAIN stack[c]
      /\ \A i \in DOMAIN stack[c] :
            /\ stack'[c][i].map = stack[c][i].map
            /\ stack'[c][i].key = stack[c][i].key
            /\ stack'[c][i].left = IF i = Len(stack[c]) THEN stack[c][i].left \ {k}
                                   ELSE stack[c][i].left
  BY <1>1, VisitedLeft
<1>3. stack[c][Len(stack[c])].map = m
  BY DEF Top
<1>4. /\ \A i \in DOMAIN stack[c] :
            /\ stack[c][i].map \in own[c] \ U
            /\ \A j \in stack[c][i].left : B[stack[c][i].map][j] # None
            /\ i > 1 => FoundIn(c, B, stack[c][i])
      /\ \A i, j \in DOMAIN stack[c] : stack[c][i].map = stack[c][j].map => i = j
      /\ stack[c][1].map = req[c].root
      /\ own[c] = Shown[req[c]] /\ U \subseteq own[c] \ {req[c].root}
  BY DEF Walk, WalkFrames
<1>5. \A n \in own[c], j \in Key :
          /\ copy[c][n][j] = IF Pending(c, U, n, j) THEN B[n][j] ELSE A[n][j]
          /\ B[n][j] \in Map => (B[n][j] \in U <=> Pending(c, U, n, j))
  BY DEF Walk
<1>6. m \in own[c] \ U
  BY <1>2, <1>3, <1>4
<1>7. \A n \in own[c], j \in Key : Unvisited(c, n, j)' <=> Unvisited(c, n, j) /\ (n # m \/ j # k)
  <2>1. \A n, j : Unvisited(c, n, j)' => Unvisited(c, n, j)
    BY VisitedUnvisited
  <2>2. \A n, j : Unvisited(c, n, j) /\ (n # m \/ j # k) => Unvisited(c, n, j)'
    BY VisitedUnvisited
  <2>3. ~Unvisited(c, m, k)'
    <3> SUFFICES ASSUME NEW i \in DOMAIN stack[c], stack'[c][i].map = m, k \in stack'[c][i].left
                 PROVE  FALSE
      BY <1>2 DEF Unvisited
    <3>1. i # Len(stack[c]) /\ stack[c][i].map = m
      BY <1>2
    <3> QED BY <1>2, <1>3, <1>4, <3>1
  <2> QED BY <2>1, <2>2, <2>3
<1>8. \A n \in own[c], j \in Key :
          Pending(c, U, n, j)' <=> Pending(c, U, n, j) /\ (n # m \/ j # k)
  BY <1>6, <1>7 DEF Pending
<1>9. \A n \in own[c], j \in Key :
          /\ copy'[c][n][j] = IF Pending(c, U, n, j)' THEN B[n][j] ELSE A[n][j]
          /\ B[n][j] \in Map => (B[n][j] \in U <=> Pending(c, U, n, j)')
  <2> SUFFICES ASSUME NEW n \in own[c], NEW j \in Key
               PROVE  /\ copy'[c][n][j] = IF Pending(c, U, n, j)' THEN B[n][j] ELSE A[n][j]
                      /\ B[n][j] \in Map => (B[n][j] \in U <=> Pending(c, U, n, j)')
    OBVIOUS
  <2>1. copy'[c][n][j] = IF n = m /\ j = k THEN A[m][k] ELSE copy[c][n][j]
    BY DEF Becomes, TypeOK
  <2>2. CASE n = m /\ j = k
    BY <1>8, <2>1, <2>2
  <2>3. CASE n # m \/ j # k
    BY <1>5, <1>8, <2>1, <2>3
  <2> QED BY <2>2, <2>3
<1>10. \A i \in DOMAIN stack[c] : FoundIn(c, B, stack[c][i]) => FoundIn(c, B, stack[c][i])'
  <2> SUFFICES ASSUME NEW i \in DOMAIN stack[c]
               PROVE  FoundIn(c, B, stack[c][i]) => FoundIn(c, B, stack[c][i])'
    OBVIOUS
  <2>1. stack'[c][i].map = stack[c][i].map /\ stack'[c][i].key = stack[c][i].key
    BY <1>2
  <2> QED BY <2>1 DEF FoundIn
<1>11. 1 \in DOMAIN stack[c]
  BY <1>1
<1>12. stack'[c] # <<>>
  BY <1>2
<1>13. WalkFrames(c, U, B)'
  <2>1. stack'[c][1].map = req[c].root
    BY <1>2, <1>4, <1>11
  <2>2. ASSUME NEW i \in DOMAIN stack[c]
        PROVE  /\ stack'[c][i].map \in own[c] \ U
               /\ \A j \in stack'[c][i].left : B[stack'[c][i].map][j] # None
    <3>1. /\ stack'[c][i].map = stack[c][i].map
          /\ stack'[c][i].left \subseteq stack[c][i].left
      BY <1>2
    <3>2. /\ stack[c][i].map \in own[c] \ U
          /\ \A j \in stack[c][i].left : B[stack[c][i].map][j] # None
      BY <1>4
    <3> QED BY <3>1, <3>2
  <2>3. \A i, j \in DOMAIN stack[c] : stack'[c][i].map = stack'[c][j].map => i = j
    BY <1>2, <1>4
  <2>4. \A i \in DOMAIN stack[c] : i > 1 => FoundIn(c, B, stack[c][i])'
    BY <1>4, <1>10
  <2>5. DOMAIN stack'[c] = DOMAIN stack[c]
    BY <1>2
  <2> QED BY <1>12, <2>1, <2>2, <2>3, <2>4, <2>5 DEF WalkFrames
<1>14. Visits(c, U, m, k)
  BY <1>8 DEF Visits
<1> QED BY <1>4, <1>9, <1>13, <1>14 DEF Walk

(* ... and enters an object that is one.                                   *)
LEMMA WalkEntered ==
    ASSUME Exposed = {}, ResponsesAreTrees,
           TypeOK, NEW c \in Handler, NEW U \in SUBSET Map, NEW B, NEW A, Walk(c, U, B, A),
           Like(req[c], B), Like(req[c], A),
           stack[c] # <<>>, NEW m, m = Top(c).map, NEW k \in Top(c).left, k \in Key,
           NEW v \in Map, v = B[m][k], NEW ks \in SUBSET Key,
           ks = {j \in Key : copy[c][v][j] # None},
           Entered(c, k, v, ks), own'[c] = own[c], req'[c] = req[c], copy'[c] = copy[c]
    PROVE  Walk(c, U \ {v}, B, A)' /\ Enters(c, U, v, B, m, k)
<1>1. stack \in [Handler -> Seq(Frame)]
  BY DEF TypeOK
<1>2. PICK r \in Request : r = req[c]
  BY DEF TypeOK
<1>3. PICK N : N = Len(stack[c]) + 1
  OBVIOUS
<1>4. /\ DOMAIN stack'[c] = DOMAIN stack[c] \cup {N}
      /\ Len(stack[c]) \in DOMAIN stack[c] /\ N \notin DOMAIN stack[c]
      /\ \A i \in DOMAIN stack[c] :
            /\ stack'[c][i].map = stack[c][i].map
            /\ stack'[c][i].key = stack[c][i].key
            /\ stack'[c][i].left = IF i = Len(stack[c]) THEN stack[c][i].left \ {k}
                                   ELSE stack[c][i].left
      /\ stack'[c][N].map = v
      /\ stack'[c][N].key = (IF Kind[m][k] \in {"list", "array"} THEN None ELSE k)
      /\ stack'[c][N].left = ks
  <2>1. /\ DOMAIN stack'[c] = DOMAIN stack[c] \cup {Len(stack[c]) + 1}
        /\ Len(stack[c]) \in DOMAIN stack[c] /\ Len(stack[c]) + 1 \notin DOMAIN stack[c]
        /\ \A i \in DOMAIN stack[c] :
              /\ stack'[c][i].map = stack[c][i].map
              /\ stack'[c][i].key = stack[c][i].key
              /\ stack'[c][i].typed = stack[c][i].typed
              /\ stack'[c][i].left = IF i = Len(stack[c]) THEN stack[c][i].left \ {k}
                                     ELSE stack[c][i].left
        /\ stack'[c][Len(stack[c]) + 1].map = v
        /\ stack'[c][Len(stack[c]) + 1].key =
              (IF Kind[Top(c).map][k] \in {"list", "array"} THEN None ELSE k)
        /\ stack'[c][Len(stack[c]) + 1].typed =
              (Top(c).typed /\ Kind[Top(c).map][k] = "object")
        /\ stack'[c][Len(stack[c]) + 1].left = ks
        /\ \A d \in Handler \ {c} : stack'[d] = stack[d]
    <3>1. /\ stack \in [Handler -> Seq(Frame)] /\ Entered(c, k, v, ks)
          /\ c \in Handler /\ k \in Key /\ v \in Map /\ ks \in SUBSET Key /\ stack[c] # <<>>
      BY <1>1
    <3> QED BY ONLY <3>1, EnteredFrame, Zenon
  <2>2. m = Top(c).map
    OBVIOUS
  <2> QED BY ONLY <1>3, <2>1, <2>2, Zenon
<1>5. stack[c][Len(stack[c])].map = m /\ k \in stack[c][Len(stack[c])].left
  BY DEF Top
<1>6. /\ \A i \in DOMAIN stack[c] :
            /\ stack[c][i].map \in own[c] \ U
            /\ \A j \in stack[c][i].left : B[stack[c][i].map][j] # None
            /\ i > 1 => FoundIn(c, B, stack[c][i])
      /\ \A i, j \in DOMAIN stack[c] : stack[c][i].map = stack[c][j].map => i = j
      /\ stack[c][1].map = req[c].root
      /\ own[c] = Shown[r] /\ U \subseteq own[c] \ {r.root}
  BY <1>2 DEF Walk, WalkFrames
<1>7. \A n \in own[c], j \in Key :
          /\ copy[c][n][j] = IF Pending(c, U, n, j) THEN B[n][j] ELSE A[n][j]
          /\ B[n][j] \in Map => (B[n][j] \in U <=> Pending(c, U, n, j))
  BY DEF Walk
<1>8. m \in own[c] \ U /\ Unvisited(c, m, k)
  BY <1>4, <1>5, <1>6 DEF Unvisited
<1>9. v \in U /\ v \in own[c] /\ v # m
  BY <1>6, <1>7, <1>8 DEF Pending
<1>10. \A j \in Key : copy[c][v][j] = B[v][j]
  BY <1>7, <1>9 DEF Pending
<1>11. \A n \in own[c], j \in Key :
          Unvisited(c, n, j)' <=> \/ Unvisited(c, n, j) /\ (n # m \/ j # k)
                                  \/ n = v /\ B[v][j] # None
  <2>1. \A i \in DOMAIN stack'[c] : i = N \/ i \in DOMAIN stack[c]
    BY <1>4
  <2>2. ASSUME NEW n \in own[c], NEW j \in Key, Unvisited(c, n, j)'
        PROVE \/ Unvisited(c, n, j) /\ (n # m \/ j # k)
              \/ n = v /\ B[v][j] # None
    <3>1. PICK i \in DOMAIN stack'[c] : stack'[c][i].map = n /\ j \in stack'[c][i].left
      BY <2>2 DEF Unvisited
    <3>2. CASE i = N
      BY <1>4, <1>10, <3>1, <3>2
    <3>3. CASE i \in DOMAIN stack[c]
      <4>1. stack[c][i].map = n /\ j \in stack[c][i].left
        BY <1>4, <3>1, <3>3
      <4>2. Unvisited(c, n, j)
        BY <3>3, <4>1 DEF Unvisited
      <4>3. i = Len(stack[c]) => j # k
        BY <1>4, <3>1, <3>3
      <4>4. n = m => i = Len(stack[c])
        <5>1. \A x, y \in DOMAIN stack[c] : stack[c][x].map = stack[c][y].map => x = y
          BY ONLY <1>6
        <5>2. Len(stack[c]) \in DOMAIN stack[c]
          BY ONLY <1>4
        <5> QED BY ONLY <1>5, <3>3, <4>1, <5>1, <5>2
      <4> QED BY <4>2, <4>3, <4>4
    <3> QED BY <2>1, <3>2, <3>3
  <2>3. ASSUME NEW n \in own[c], NEW j \in Key, Unvisited(c, n, j), n # m \/ j # k
        PROVE  Unvisited(c, n, j)'
    <3>1. PICK i \in DOMAIN stack[c] : stack[c][i].map = n /\ j \in stack[c][i].left
      BY <2>3 DEF Unvisited
    <3>2. i \in DOMAIN stack'[c] /\ stack'[c][i].map = n /\ j \in stack'[c][i].left
      BY <1>4, <1>5, <2>3, <3>1
    <3> QED BY <3>2 DEF Unvisited
  <2>4. ASSUME NEW j \in Key, B[v][j] # None PROVE Unvisited(c, v, j)'
    <3>1. j \in stack'[c][N].left /\ N \in DOMAIN stack'[c]
      BY <1>4, <1>10, <2>4
    <3> QED BY <1>4, <3>1 DEF Unvisited
  <2> QED BY <2>2, <2>3, <2>4
<1>12. \A n \in own[c], j \in Key :
          Pending(c, U \ {v}, n, j)' <=>
              /\ Pending(c, U, n, j) /\ (n # m \/ j # k)
              /\ n = v => B[v][j] # None
  <2>1. \A j : ~Unvisited(c, v, j)
    BY <1>6, <1>9 DEF Unvisited
  <2> QED BY <1>8, <1>9, <1>11, <2>1 DEF Pending
<1>13. \A n \in own[c], j \in Key : B[n][j] = v => n = m /\ j = k
  <2>1. own[c] \subseteq Map
    BY <1>2, <1>6, ShownClosed
  <2>2. \A n \in own[c], j \in Key : B[n][j] \in Map => B[n][j] = Raw[r][n][j]
    BY <1>2, <2>1 DEF Like
  <2>3. Raw[r][m][k] = v
    BY <1>8, <2>2
  <2>4. \A n \in Shown[r], j \in Key : Raw[r][n][j] = Raw[r][m][k] => n = m /\ j = k
    <3>1. /\ Exposed = {} /\ ResponsesAreTrees /\ r \in Request /\ m \in Shown[r] /\ k \in Key
          /\ Raw[r][m][k] \in Map
      BY <1>6, <1>8, <2>3
    <3> QED BY ONLY <3>1, ShownTree, Zenon
  <2>5. ASSUME NEW n \in own[c], NEW j \in Key, B[n][j] = v PROVE n = m /\ j = k
    <3>1. n \in Shown[r] /\ j \in Key /\ Raw[r][n][j] = v
      BY <1>6, <2>2, <2>5
    <3> QED BY ONLY <2>3, <2>4, <3>1
  <2> QED BY ONLY <2>5
<1>14. ASSUME NEW n \in own[c], NEW j \in Key
       PROVE  /\ copy'[c][n][j] = IF Pending(c, U \ {v}, n, j)' THEN B[n][j] ELSE A[n][j]
              /\ B[n][j] \in Map =>
                    (B[n][j] \in U \ {v} <=> Pending(c, U \ {v}, n, j)')
  <2>1. n \in Map
    BY <1>2, <1>6, ShownClosed
  <2>2. CASE n = m /\ j = k
    <3>1. A[m][k] = v
      <4>1. \A x \in Map, i \in Key :
               /\ B[x][i] \in Map => B[x][i] = Raw[r][x][i]
               /\ Raw[r][x][i] \in Map => A[x][i] = Raw[r][x][i]
        BY <1>2 DEF Like
      <4>2. m \in Map /\ k \in Key /\ v \in Map /\ v = B[m][k]
        BY <2>1, <2>2
      <4> QED BY ONLY <4>1, <4>2
    <3>2. copy[c][m][k] = v
      BY <1>7, <1>8, <2>2 DEF Pending
    <3>3. ~Pending(c, U \ {v}, m, k)'
      BY <1>8, <1>12, <2>2
    <3> QED BY <2>2, <3>1, <3>2, <3>3
  <2>3. CASE n # m \/ j # k
    <3>1. CASE n = v /\ B[v][j] = None
      <4>1. A[v][j] = None /\ None \notin Map
        <5>1. \A x \in Map, i \in Key :
                 /\ B[x][i] = None <=> Raw[r][x][i] = None
                 /\ A[x][i] = None <=> Raw[r][x][i] = None
          BY <1>2 DEF Like
        <5>2. v \in Map /\ j \in Key /\ B[v][j] = None
          BY <3>1
        <5>3. None \notin Map
          BY ONLY DataAssumption
        <5> QED BY ONLY <5>1, <5>2, <5>3
      <4> QED BY <1>10, <1>12, <3>1, <4>1
    <3>2. CASE ~(n = v /\ B[v][j] = None)
      <4>1. Pending(c, U \ {v}, n, j)' <=> Pending(c, U, n, j)
        BY <1>12, <2>3, <3>2
      <4>2. B[n][j] # v
        BY <1>13, <2>3
      <4> QED BY <1>7, <4>1, <4>2
    <3> QED BY <3>1, <3>2
  <2> QED BY <2>2, <2>3
<1>15. /\ \A i \in DOMAIN stack'[c] :
             /\ stack'[c][i].map \in own[c] \ (U \ {v})
             /\ \A j \in stack'[c][i].left : B[stack'[c][i].map][j] # None
             /\ i > 1 => FoundIn(c, B, stack[c][i])'
       /\ \A i, j \in DOMAIN stack'[c] : stack'[c][i].map = stack'[c][j].map => i = j
  <2>1. /\ stack'[c][N].map \in own[c] \ (U \ {v})
        /\ \A j \in stack'[c][N].left : B[stack'[c][N].map][j] # None
    <3>1. stack'[c][N].map = v /\ stack'[c][N].left = ks
      BY ONLY <1>4
    <3>2. \A j \in ks : j \in Key /\ copy[c][v][j] # None
      OBVIOUS
    <3>3. \A j \in ks : B[v][j] # None
      BY ONLY <1>10, <3>2
    <3>4. v \in own[c] \ (U \ {v})
      BY ONLY <1>9
    <3> QED BY ONLY <3>1, <3>3, <3>4
  <2>2. FoundIn(c, B, stack[c][N])'
    <3>1. /\ stack'[c][N].map = B[m][k] /\ m \in own'[c] /\ k \in Key
          /\ stack'[c][N].key = (IF Kind[m][k] \in {"list", "array"} THEN None ELSE k)
      BY <1>4, <1>8
    <3> QED BY ONLY <3>1, Zenon DEF FoundIn
  <2>3. ASSUME NEW i \in DOMAIN stack[c]
        PROVE  /\ stack'[c][i].map \in own[c] \ (U \ {v})
               /\ \A j \in stack'[c][i].left : B[stack'[c][i].map][j] # None
               /\ stack'[c][i].map # v
               /\ i > 1 => FoundIn(c, B, stack[c][i])'
    <3>1. /\ stack'[c][i].map = stack[c][i].map /\ stack'[c][i].key = stack[c][i].key
          /\ stack'[c][i].left \subseteq stack[c][i].left
      BY <1>4
    <3>2. /\ stack[c][i].map \in own[c] \ U
          /\ \A j \in stack[c][i].left : B[stack[c][i].map][j] # None
          /\ i > 1 => FoundIn(c, B, stack[c][i])
      BY <1>6
    <3>3. FoundIn(c, B, stack[c][i]) => FoundIn(c, B, stack[c][i])'
      BY <3>1 DEF FoundIn
    <3> QED BY <1>9, <3>1, <3>2, <3>3
  <2>4. ASSUME NEW i \in DOMAIN stack'[c], NEW j \in DOMAIN stack'[c],
               stack'[c][i].map = stack'[c][j].map
        PROVE  i = j
    <3>1. CASE i = N \/ j = N
      BY <1>4, <2>3, <2>4, <3>1
    <3>2. CASE i \in DOMAIN stack[c] /\ j \in DOMAIN stack[c]
      <4>1. stack[c][i].map = stack[c][j].map
        BY <1>4, <2>4, <3>2
      <4> QED BY <1>6, <3>2, <4>1
    <3> QED BY <1>4, <3>1, <3>2
  <2>5. \A i \in DOMAIN stack'[c] : i = N \/ i \in DOMAIN stack[c]
    BY <1>4
  <2> QED BY <2>1, <2>2, <2>3, <2>4, <2>5
<1>16. stack'[c] # <<>> /\ stack'[c][1].map = req[c].root
  <2>1. 1 \in DOMAIN stack[c]
    <3>1. stack[c] \in Seq(Frame) /\ stack[c] # <<>>
      BY <1>1
    <3> QED BY ONLY <3>1
  <2>2. 1 \in DOMAIN stack'[c] /\ stack'[c][1].map = stack[c][1].map
    BY ONLY <1>4, <2>1
  <2>3. stack'[c] # <<>>
    BY ONLY <2>2
  <2>4. stack'[c][1].map = req[c].root
    <3>1. stack[c][1].map = req[c].root
      BY ONLY <1>6
    <3> QED BY ONLY <2>2, <3>1
  <2> QED BY ONLY <2>3, <2>4
<1>17. WalkFrames(c, U \ {v}, B)'
  BY <1>15, <1>16 DEF WalkFrames
<1>18. Walk(c, U \ {v}, B, A)'
  BY <1>2, <1>6, <1>14, <1>17 DEF Walk
<1>19. Enters(c, U, v, B, m, k)
  BY <1>12 DEF Enters
<1> QED BY <1>18, <1>19

(* A call that returns leaves it where it was...                           *)
LEMMA WalkReturn ==
    ASSUME TypeOK, NEW c \in Handler, NEW U \in SUBSET Map, NEW B, NEW A, Walk(c, U, B, A),
           Return(c)
    PROVE  /\ Walk(c, U, B, A)'
           /\ \A n, j : Pending(c, U, n, j)' <=> Pending(c, U, n, j)
<1>1. own'[c] = own[c] /\ req'[c] = req[c] /\ copy'[c] = copy[c]
  BY DEF Return
<1>2. /\ DOMAIN stack'[c] \subseteq DOMAIN stack[c] /\ 1 \in DOMAIN stack'[c]
      /\ \A i \in DOMAIN stack'[c] : stack'[c][i] = stack[c][i]
      /\ \A n, j : Unvisited(c, n, j)' <=> Unvisited(c, n, j)
  BY ReturnFrames
<1>3. \A n, j : Pending(c, U, n, j)' <=> Pending(c, U, n, j)
  BY <1>2 DEF Pending
<1>4. \A i \in DOMAIN stack'[c] : FoundIn(c, B, stack[c][i]) => FoundIn(c, B, stack[c][i])'
  BY <1>1, <1>2 DEF FoundIn
<1>5. stack'[c] # <<>>
  BY <1>2
<1>6. WalkFrames(c, U, B)'
  BY <1>1, <1>2, <1>4, <1>5 DEF Walk, WalkFrames
<1> QED BY <1>1, <1>3, <1>6 DEF Walk

(* ... and the pass ends when all has been turned.                         *)
LEMMA WalkEnd ==
    ASSUME TypeOK, NEW c \in Handler, NEW U \in SUBSET Map, NEW B, NEW A, Walk(c, U, B, A),
           Like(req[c], B), Len(stack[c]) = 1, Top(c).left = {}
    PROVE  /\ \A m \in own[c], k \in Key : copy[c][m][k] = A[m][k] /\ ~Pending(c, U, m, k)
           /\ own[c] = Shown[req[c]]
<1>1. PICK r \in Request : r = req[c]
  BY DEF TypeOK
<1>2. DOMAIN stack[c] = {1} /\ stack[c][1].left = {}
  <2>1. stack[c] \in Seq(Frame) /\ 1..1 = {1}
    BY DEF TypeOK
  <2> QED BY <2>1 DEF Top
<1>3. own[c] = Shown[r] /\ U \subseteq own[c] \ {r.root}
  BY <1>1 DEF Walk
<1>4. \A n \in own[c], j \in Key :
          /\ copy[c][n][j] = IF Pending(c, U, n, j) THEN B[n][j] ELSE A[n][j]
          /\ B[n][j] \in Map => (B[n][j] \in U <=> Pending(c, U, n, j))
  BY DEF Walk
<1>5. \A n \in own[c], j \in Key : Pending(c, U, n, j) <=> n \in U
  BY <1>2 DEF Pending, Unvisited
<1>6. own[c] \subseteq own[c] \ U
  <2>1. r.root \in own[c] \ U /\ own[c] \subseteq Map
    BY <1>3, ShownClosed
  <2>2. ASSUME NEW m \in own[c] \ U, NEW k \in Key, Raw[r][m][k] \in Map
        PROVE  Raw[r][m][k] \in own[c] \ U
    <3>1. B[m][k] = Raw[r][m][k]
      BY <1>1, <2>1, <2>2 DEF Like
    <3>2. Raw[r][m][k] \in own[c]
      BY <1>3, <2>2, ShownClosed
    <3> QED BY <1>4, <1>5, <2>2, <3>1, <3>2
  <2>3. own[c] \ U \in SUBSET Map
    BY <2>1
  <2> QED BY <1>3, <2>1, <2>2, <2>3, ShownClosed
<1> QED BY <1>1, <1>3, <1>4, <1>5, <1>6

----------------------------------------------------------------------------
(* The steps of generate.                                                  *)

(* What another handler does is not noticed, if nothing is shared.         *)
LEMMA OthersAnswer ==
    ASSUME NEW d \in Handler, AnswerOf(d), Untouched(d)
    PROVE  AnswerOf(d)'
<1>1. /\ pc'[d] = pc[d] /\ req'[d] = req[d] /\ path'[d] = path[d] /\ body'[d] = body[d]
      /\ stack'[d] = stack[d] /\ own'[d] = own[d] /\ copy'[d] = copy[d]
  BY DEF Untouched
<1>2. /\ \A U, n, j : Pending(d, U, n, j)' <=> Pending(d, U, n, j)
      /\ \A n, j : Unvisited(d, n, j)' <=> Unvisited(d, n, j)
  BY <1>1 DEF Pending, Unvisited
<1>3. ASSUME NEW U, NEW B, NEW A PROVE Walk(d, U, B, A)' <=> Walk(d, U, B, A)
  <2>1. WalkFrames(d, U, B)' <=> WalkFrames(d, U, B)
    BY <1>1 DEF WalkFrames, FoundIn
  <2> QED BY <1>1, <1>2, <2>1 DEF Walk
<1>4. ASSUME NEW seen PROVE Recorded(d, seen)' <=> Recorded(d, seen)
  BY <1>1 DEF Recorded, OldPrimaryIn
<1>5. ASSUME NEW U PROVE Seen(d, U)' = Seen(d, U)
  BY <1>1, <1>2 DEF Seen
<1>6. ASSUME NEW T PROVE Reflecting(d, T)' <=> Reflecting(d, T)
  BY <1>1 DEF Reflecting, Due
<1>7. ASSUME NEW V PROVE Writing(d, V)' <=> Writing(d, V)
  BY ONLY <1>1, <1>2 DEF Writing
<1>8. Generating(d)' <=> Generating(d)
  BY <1>1, <1>2 DEF Generating
<1>9. Naming(d) => Naming(d)'
  <2> SUFFICES ASSUME Naming(d) PROVE Naming(d)'
    OBVIOUS
  <2>1. PICK U \in SUBSET Map : /\ Walk(d, U, Raw[req[d]], Named[req[d]][path[d].primary])
                               /\ Recorded(d, Seen(d, U))
    BY DEF Naming
  <2>2. PICK B, A : B = Raw[req[d]] /\ A = Named[req[d]][path[d].primary]
    OBVIOUS
  <2>3. Walk(d, U, B, A)'
    BY <1>3, <2>1, <2>2
  <2>4. PICK seen : seen = Seen(d, U)
    OBVIOUS
  <2>5. Recorded(d, seen)'
    BY <1>4, <2>1, <2>4
  <2>6. seen = Seen(d, U)' /\ B = Raw[req'[d]] /\ A = Named[req'[d]][path'[d].primary]
    BY <1>1, <1>5, <2>2, <2>4
  <2> QED BY <2>3, <2>5, <2>6 DEF Naming
<1>10. Renaming(d) => Renaming(d)'
  <2> SUFFICES ASSUME Renaming(d) PROVE Renaming(d)'
    OBVIOUS
  <2>1. PICK B, A, seen : /\ B = Named[req[d]][path[d].primary]
                          /\ A = Renamed[req[d]][path[d].primary] /\ seen = own[d] \X Key
    OBVIOUS
  <2>2. PICK U \in SUBSET Map : Walk(d, U, B, A)
    BY <2>1 DEF Renaming
  <2>3. Walk(d, U, B, A)'
    BY <1>3, <2>2
  <2>4. Recorded(d, seen)'
    BY <1>4, <2>1 DEF Renaming
  <2>5. /\ B = Named[req'[d]][path'[d].primary] /\ A = Renamed[req'[d]][path'[d].primary]
        /\ seen = own'[d] \X Key
    BY <1>1, <2>1
  <2> QED BY <2>3, <2>4, <2>5 DEF Renaming
<1> QED BY <1>1, <1>6, <1>7, <1>8, <1>9, <1>10 DEF AnswerOf

(* Before the first request there is nothing to say...                     *)
LEMMA InitAnswer == Init => AnswerInv
<1> SUFFICES ASSUME Init, NEW c \in Handler PROVE AnswerOf(c)
  BY DEF AnswerInv
<1>1. pc[c] = "idle"
  BY DEF Init
<1> QED BY <1>1 DEF AnswerOf

(* ... and a request begins with the root of its response.                 *)
LEMMA ArriveAnswer ==
    ASSUME Exposed = {}, IInv, NEW c \in Handler, Arrive(c)
    PROVE  AnswerOf(c)'
<1>1. TypeOK
  BY DEF IInv
<1>2. PICK r \in Request :
        /\ req' = [req EXCEPT ![c] = r]
        /\ path' = [path EXCEPT ![c] = [primary |-> r.primary, oldPrimary |-> None,
                                        old |-> [i \in DOMAIN r.secondary |-> {}]]]
        /\ own' = [own EXCEPT ![c] = {r.root}]
        /\ stack' = [stack EXCEPT ![c] = <<[map |-> r.root, key |-> None, typed |-> TRUE,
                                            left |-> Properties(r.root)]>>]
  BY DEF Arrive
<1>3. /\ copy' = [copy EXCEPT ![c] = Blank] /\ pc' = [pc EXCEPT ![c] = "generate"]
  BY DEF Arrive
<1>4. /\ req'[c] = r /\ own'[c] = {r.root} /\ copy'[c] = Blank /\ pc'[c] = "generate"
      /\ path'[c] = [primary |-> r.primary, oldPrimary |-> None,
                     old |-> [i \in DOMAIN r.secondary |-> {}]]
      /\ stack'[c] = <<[map |-> r.root, key |-> None, typed |-> TRUE,
                        left |-> Properties(r.root)]>>
  BY <1>1, <1>2, <1>3 DEF TypeOK
<1>5. r.root \in Shown[r] /\ r.root \in Copied[r] /\ r.root \in Map
  BY ShownClosed, ShownCopied
<1>6. 1 \in DOMAIN stack'[c] /\ stack'[c][1].map = r.root /\ stack'[c][1].left = Properties(r.root)
  BY <1>4
<1>7. \A k \in Properties(r.root) : Unvisited(c, r.root, k)'
  BY <1>6 DEF Unvisited
<1>8. \A k \in Key : k \notin Properties(r.root) => Raw[r][r.root][k] = None
  BY <1>5, RawType DEF Properties
<1>9. \A k \in Key : copy'[c][r.root][k] = None
  BY <1>4, <1>5 DEF Blank
<1>10. \A m \in own'[c], k \in Key : Unvisited(c, m, k)' \/ copy'[c][m][k] = Raw[r][m][k]
  BY <1>4, <1>7, <1>8, <1>9
<1>11. Generating(c)'
  BY <1>4, <1>5, <1>10 DEF Generating
<1> QED BY <1>4, <1>11 DEF AnswerOf

(* generateInternal puts each value in its place.                          *)
LEMMA GenerateAnswer ==
    ASSUME Exposed = {}, IInv, NEW c \in Handler, RecordsOnce(c), AnswerOf(c),
           GenerateInternal(c)
    PROVE  AnswerOf(c)'
<1>1. TypeOK /\ StoreIsolated /\ MapsIsolated(c) /\ StackIsolated(c)
  BY DEF IInv, HandlerIsolated
<1>2. /\ pc[c] = "generate" /\ stack[c] # <<>> /\ pc' = pc /\ req' = req /\ path' = path
  BY DEF GenerateInternal
<1>3. PICK r \in Request : r = req[c]
  BY <1>1 DEF TypeOK
<1>4. /\ path[c] = [primary |-> r.primary, oldPrimary |-> None,
                    old |-> [i \in DOMAIN r.secondary |-> {}]]
      /\ own[c] \subseteq Shown[r]
      /\ \A m \in own[c], k \in Key : Unvisited(c, m, k) \/ copy[c][m][k] = Raw[r][m][k]
  BY <1>2, <1>3 DEF AnswerOf, Generating
<1>5. Top(c) \in Frame /\ FrameIsolated(c, Top(c))
  BY <1>1, <1>2, TopIsolated
<1>6. PICK m, k, v :
        /\ m \in own[c] /\ k \in Key
        /\ m = Top(c).map /\ k \in Top(c).left /\ k \in Properties(m)
        /\ v = IF FromTarget(r, m, k) THEN Target[m][k] ELSE store[m][k]
        /\ copy' = [copy EXCEPT ![c][m][k] = v]
        /\ IF CopiesInto(c, m, k, v)
           THEN own' = [own EXCEPT ![c] = @ \cup {v}] /\ Entered(c, k, v, Properties(v))
           ELSE own' = own /\ Visited(c, k)
  <2>1. PICK k, v :
          /\ k \in Top(c).left
          /\ v = IF FromTarget(req[c], Top(c).map, k) THEN Target[Top(c).map][k]
                 ELSE store[Top(c).map][k]
          /\ copy' = [copy EXCEPT ![c][Top(c).map][k] = v]
          /\ IF CopiesInto(c, Top(c).map, k, v)
             THEN own' = [own EXCEPT ![c] = @ \cup {v}] /\ Entered(c, k, v, Properties(v))
             ELSE own' = own /\ Visited(c, k)
    BY DEF GenerateInternal
  <2>2. PICK m \in own[c] : m = Top(c).map
    BY <1>2, <1>5 DEF FrameIsolated
  <2>3. k \in Properties(m) /\ k \in Key
    BY <1>2, <1>5, <2>1, <2>2 DEF FrameIsolated, Frame
  <2> QED BY <1>3, <2>1, <2>2, <2>3
<1>7. m \in Shown[r] /\ m \in Copied[r] /\ m \in Map /\ k \in Key /\ Kind[m][k] # "none"
  <2>1. Shown[r] = Copied[r] /\ Shown[r] \subseteq Map
    BY ShownCopied, ShownClosed
  <2> QED BY <1>4, <1>6, <2>1 DEF Properties
<1>8. v = Plain(r, m, k) /\ v = Raw[r][m][k]
  <2>1. v = Plain(r, m, k)
    BY <1>6, <1>7, NothingShared DEF Plain
  <2> QED BY <1>7, <2>1, RawType
<1>9. \A n \in Map, j \in Key : copy'[c][n][j] = IF n = m /\ j = k THEN v ELSE copy[c][n][j]
  BY <1>1, <1>6, <1>7 DEF TypeOK
<1>10. CASE CopiesInto(c, m, k, v)
  <2>1. v \in Map /\ v \in Shown[r] /\ v \in Copied[r]
    BY <1>7, <1>8, <1>10, ShownCopied DEF CopiesInto
  <2>2. own'[c] = own[c] \cup {v} /\ Entered(c, k, v, Properties(v))
    BY <1>1, <1>6, <1>10 DEF TypeOK
  <2>3. PICK ks \in SUBSET Key : ks = Properties(v)
    BY DEF Properties
  <2>4. /\ \A n, j : Unvisited(c, n, j) /\ (n # m \/ j # k) => Unvisited(c, n, j)'
        /\ \A j \in ks : Unvisited(c, v, j)'
    BY <1>1, <1>2, <1>6, <1>7, <2>1, <2>2, <2>3, EnteredUnvisited
  <2>5. ASSUME NEW j \in Key, j \notin ks PROVE copy'[c][v][j] = Raw[r][v][j]
    <3>1. Raw[r][v][j] = None
      BY <2>1, <2>3, <2>5, RawType DEF Properties
    <3>2. copy[c][v][j] = None
      BY <1>2, <2>1, <2>3, <2>5 DEF RecordsOnce, AsGenerated
    <3>3. v # m \/ j # k
      BY <1>6, <2>3, <2>5
    <3>4. copy'[c][v][j] = copy[c][v][j]
      BY <1>9, <2>1, <2>5, <3>3
    <3> QED BY ONLY <3>1, <3>2, <3>4
  <2>6. ASSUME NEW n \in own'[c], NEW j \in Key
        PROVE  Unvisited(c, n, j)' \/ copy'[c][n][j] = Raw[r][n][j]
    <3>1. CASE n = v
      BY <2>4, <2>5, <3>1
    <3>2. CASE n = m /\ j = k
      BY <1>7, <1>8, <1>9, <3>2
    <3>3. CASE n # v /\ (n # m \/ j # k)
      <4>1. n \in own[c] /\ n \in Map
        BY <1>4, <2>2, <3>3, ShownClosed
      <4> QED BY <1>4, <1>9, <2>4, <3>3, <4>1
    <3> QED BY <3>1, <3>2, <3>3
  <2>7. own'[c] \subseteq Shown[r]
    BY <1>4, <2>1, <2>2
  <2>8. Generating(c)'
    BY <1>2, <1>3, <1>4, <2>6, <2>7 DEF Generating
  <2> QED BY <1>2, <2>8 DEF AnswerOf
<1>11. CASE ~CopiesInto(c, m, k, v)
  <2>1. own'[c] = own[c] /\ Visited(c, k)
    BY <1>6, <1>11
  <2>2. \A n, j : Unvisited(c, n, j) /\ (n # m \/ j # k) => Unvisited(c, n, j)'
    BY <1>1, <1>2, <1>6, <2>1, VisitedUnvisited
  <2>3. ASSUME NEW n \in own'[c], NEW j \in Key
        PROVE  Unvisited(c, n, j)' \/ copy'[c][n][j] = Raw[r][n][j]
    <3>1. n \in own[c] /\ n \in Map
      BY <1>4, <2>1, ShownClosed
    <3> QED BY <1>4, <1>8, <1>9, <2>2, <3>1
  <2>4. Generating(c)'
    BY <1>2, <1>3, <1>4, <2>1, <2>3 DEF Generating
  <2> QED BY <1>2, <2>4 DEF AnswerOf
<1> QED BY <1>10, <1>11

----------------------------------------------------------------------------
(* The steps of recordAndReplaceIDs.                                       *)

(* Only strings are claimed as IDs.                                        *)
LEMMA ClaimsText ==
    ASSUME NEW r \in Request, NEW m \in Map, NEW k \in Key
    PROVE  /\ Raw[r][m][k] \notin Text => Claims[r][m][k] = {}
           /\ m = r.root /\ k = IdKey => Claims[r][m][k] = {}
           /\ Claims[r][m][k] \subseteq DOMAIN r.secondary
           /\ Raw[r][m][k] \in Text /\ k # IdKey => Claims[r][m][k] = ByName(r, {k})
           /\ Raw[r][m][k] \in Text /\ k = IdKey /\ m # r.root =>
                 Claims[r][m][k] = ByName(r, Under(r, m) \cup {ObjectName[m]})
<1>1. Claims[r][m][k] =
        IF Raw[r][m][k] \notin Text \/ (m = r.root /\ k = IdKey) THEN {}
        ELSE IF k # IdKey THEN ByName(r, {k})
        ELSE ByName(r, Under(r, m) \cup {ObjectName[m]})
  BY DEF Claims
<1>2. \A names : ByName(r, names) \subseteq DOMAIN r.secondary
  BY DEF ByName
<1> QED BY <1>1, <1>2

(* What is no string adds nothing to the IDs replaced...                   *)
LEMMA OldInText ==
    ASSUME NEW r \in Request, NEW i, NEW seen, NEW more, seen \subseteq more,
           more \subseteq Map \X Key,
           \A f \in more \ seen : Raw[r][f[1]][f[2]] \notin Text
    PROVE  OldIn(r, i, more) = OldIn(r, i, seen)
<1>1. {x \in more : i \in Claims[r][x[1]][x[2]]} = {x \in seen : i \in Claims[r][x[1]][x[2]]}
  <2> SUFFICES ASSUME NEW f \in more \ seen PROVE i \notin Claims[r][f[1]][f[2]]
    OBVIOUS
  <2>1. f[1] \in Map /\ f[2] \in Key
    OBVIOUS
  <2> QED BY <2>1, ClaimsText
<1> QED BY <1>1 DEF OldIn

(* The keys seen when f has been seen, too.                                *)
Adds(more, seen, f) == more = seen \cup {f}

(* ... and a string adds itself to those of the parameters that claim it.  *)
LEMMA OldInMore ==
    ASSUME NEW r \in Request, NEW i, NEW seen, NEW f, NEW more, Adds(more, seen, f)
    PROVE  /\ i \in Claims[r][f[1]][f[2]] =>
                 OldIn(r, i, more) = OldIn(r, i, seen) \cup ({Raw[r][f[1]][f[2]]} \ {Empty})
           /\ i \notin Claims[r][f[1]][f[2]] => OldIn(r, i, more) = OldIn(r, i, seen)
<1> DEFINE claimed(s) == {x \in s : i \in Claims[r][x[1]][x[2]]}
           old(s) == {Raw[r][x[1]][x[2]] : x \in s}
<1>1. claimed(more) = claimed(seen) \cup (IF i \in Claims[r][f[1]][f[2]] THEN {f} ELSE {})
  BY DEF Adds
<1>2. old(claimed(seen) \cup {f}) = old(claimed(seen)) \cup {Raw[r][f[1]][f[2]]}
  OBVIOUS
<1>3. /\ OldIn(r, i, seen) = old(claimed(seen)) \ {Empty}
      /\ OldIn(r, i, more) = old(claimed(more)) \ {Empty}
  BY DEF OldIn
<1> HIDE DEF claimed, old
<1>4. CASE i \in Claims[r][f[1]][f[2]]
  BY <1>1, <1>2, <1>3, <1>4
<1>5. CASE i \notin Claims[r][f[1]][f[2]]
  BY <1>1, <1>3, <1>5
<1> QED BY <1>4, <1>5

(* What the record pass has noted stays true when it comes to no string... *)
LEMMA RecordedAgain ==
    ASSUME TypeOK, NEW c \in Handler, NEW seen, NEW more, Recorded(c, seen),
           path'[c] = path[c], req'[c] = req[c], seen \subseteq more,
           more \subseteq Map \X Key,
           \A f \in more \ seen : Raw[req[c]][f[1]][f[2]] \notin Text
    PROVE  Recorded(c, more)'
<1>1. PICK r \in Request : r = req[c]
  BY DEF TypeOK
<1>2. \A i : OldIn(r, i, more) = OldIn(r, i, seen)
  BY <1>1, OldInText
<1>3. Raw[r][r.root][IdKey] \in Text /\ <<r.root, IdKey>> \in more => <<r.root, IdKey>> \in seen
  <2>1. <<r.root, IdKey>>[1] = r.root /\ <<r.root, IdKey>>[2] = IdKey
    OBVIOUS
  <2>2. PICK f : f = <<r.root, IdKey>>
    OBVIOUS
  <2>3. f \in more \ seen => Raw[r][r.root][IdKey] \notin Text
    BY <1>1, <2>1, <2>2
  <2> QED BY <2>2, <2>3
<1>4. OldPrimaryIn(c, more)' = OldPrimaryIn(c, seen)
  BY <1>1, <1>3 DEF OldPrimaryIn
<1> QED BY <1>1, <1>2, <1>4 DEF Recorded

(* ... when it writes the ID of a path parameter...                        *)
LEMMA RecordedMore ==
    ASSUME TypeOK, NEW c \in Handler, NEW seen, Recorded(c, seen),
           NEW r \in Request, r = req[c], req'[c] = req[c],
           NEW m \in Map, NEW k \in Key, NEW v, v = Raw[r][m][k],
           path'[c].primary = path[c].primary, path'[c].oldPrimary = path[c].oldPrimary,
           DOMAIN path'[c].old = DOMAIN path[c].old,
           \A i \in DOMAIN r.secondary :
               path'[c].old[i] = path[c].old[i] \cup
                                    (IF i \in Claims[r][m][k] THEN {v} \ {Empty} ELSE {}),
           ~(m = r.root /\ k = IdKey /\ path[c].primary # None), NEW more,
           more = seen \cup {<<m, k>>}
    PROVE  Recorded(c, more)'
<1>1. \A i \in DOMAIN r.secondary : path'[c].old[i] = OldIn(r, i, more)
  <2> SUFFICES ASSUME NEW i \in DOMAIN r.secondary PROVE path'[c].old[i] = OldIn(r, i, more)
    OBVIOUS
  <2>1. path[c].old[i] = OldIn(r, i, seen)
    BY DEF Recorded
  <2>2. PICK f : f = <<m, k>>
    OBVIOUS
  <2>3. f[1] = m /\ f[2] = k /\ more = seen \cup {f}
    BY <2>2
  <2>4. /\ i \in Claims[r][f[1]][f[2]] =>
              OldIn(r, i, more) = OldIn(r, i, seen) \cup ({Raw[r][f[1]][f[2]]} \ {Empty})
        /\ i \notin Claims[r][f[1]][f[2]] => OldIn(r, i, more) = OldIn(r, i, seen)
    <3>1. Adds(more, seen, f)
      BY <2>3 DEF Adds
    <3> QED BY <3>1, OldInMore
  <2> QED BY <2>1, <2>3, <2>4, ZenonT(40)
<1>2. path[c].primary # None =>
         (<<r.root, IdKey>> \in more <=> <<r.root, IdKey>> \in seen)
  <2>1. m # r.root \/ k # IdKey => <<m, k>> # <<r.root, IdKey>>
    OBVIOUS
  <2> QED BY <2>1
<1>3. OldPrimaryIn(c, more)' = OldPrimaryIn(c, seen)
  BY <1>2 DEF OldPrimaryIn
<1> QED BY <1>1, <1>3 DEF Recorded

(* ... and when it writes that of the root.                                *)
LEMMA RecordedPrimary ==
    ASSUME TypeOK, NEW c \in Handler, NEW seen, Recorded(c, seen),
           NEW r \in Request, r = req[c], req'[c] = req[c], r.root \in Map,
           Raw[r][r.root][IdKey] \in Text, path[c].primary # None,
           path'[c].primary = path[c].primary, path'[c].old = path[c].old,
           path'[c].oldPrimary = Raw[r][r.root][IdKey],
           NEW more, more = seen \cup {<<r.root, IdKey>>}
    PROVE  Recorded(c, more)'
<1>1. Claims[r][r.root][IdKey] = {}
  BY ClaimsText, DataAssumption
<1>2. \A i : OldIn(r, i, more) = OldIn(r, i, seen)
  <2>1. PICK f : f = <<r.root, IdKey>>
    OBVIOUS
  <2>2. f[1] = r.root /\ f[2] = IdKey /\ more = seen \cup {f}
    BY <2>1
  <2>3. ASSUME NEW i
        PROVE  i \notin Claims[r][f[1]][f[2]] => OldIn(r, i, more) = OldIn(r, i, seen)
    <3>1. Adds(more, seen, f)
      BY <2>2 DEF Adds
    <3> QED BY <3>1, OldInMore
  <2> QED BY <1>1, <2>2, <2>3
<1>3. OldPrimaryIn(c, more)' = Raw[r][r.root][IdKey]
  BY DEF OldPrimaryIn
<1> QED BY <1>2, <1>3 DEF Recorded

(* The path parameters that match a field are those that claim it, and the *)
(* one whose ID is written is the nearest of them.                         *)
LEMMA MatchedClaims ==
    ASSUME Exposed = {}, ResponsesAreTrees, TypeOK, NEW c \in Handler, NEW r \in Request,
           r = req[c], NEW U \in SUBSET Map, NEW B, NEW A, Walk(c, U, B, A), Like(r, B),
           stack[c] # <<>>, NEW m \in Map, m = Top(c).map, NEW k \in Key, Raw[r][m][k] \in Text
    PROVE  /\ AtRoot(c) <=> m = r.root
           /\ Matched(c, Top(c), k) = Claims[r][m][k]
           /\ Matched(c, Top(c), k) # {} =>
                 r.secondary[Winner(c, Top(c), k)].id = Claimed(r, m, k)
<1> DEFINE f == Top(c)
           near == ByName(r, Under(r, m))
<1>1. /\ stack[c] \in Seq(Frame) /\ Len(stack[c]) \in DOMAIN stack[c]
      /\ f = stack[c][Len(stack[c])] /\ f.map = m /\ 1 \in DOMAIN stack[c]
      /\ \A i \in DOMAIN stack[c] : i = 1 \/ i > 1
  BY DEF TypeOK, Top
<1>2. /\ \A i \in DOMAIN stack[c] : stack[c][i].map \in own[c] \ U
      /\ \A i \in DOMAIN stack[c] : i > 1 => FoundIn(c, B, stack[c][i])
      /\ \A i, j \in DOMAIN stack[c] : stack[c][i].map = stack[c][j].map => i = j
      /\ stack[c][1].map = r.root /\ own[c] = Shown[r]
  BY DEF Walk, WalkFrames
<1>3. AtRoot(c) <=> m = r.root
  BY <1>1, <1>2 DEF AtRoot
<1>4. \A n : Params(c, n) = ByName(r, {n})
  BY DEF Params, ByName
<1>5. m # r.root => Params(c, f.key) = near
  <2> SUFFICES ASSUME m # r.root PROVE Params(c, f.key) = near
    OBVIOUS
  <2>1. FoundIn(c, B, f)
    <3>1. Len(stack[c]) > 1
      BY <1>1, <1>2
    <3> QED BY <1>1, <1>2, <3>1
  <2>2. PICK p \in own[c], j \in Key :
           B[p][j] = m /\ f.key = IF Kind[p][j] \in {"list", "array"} THEN None ELSE j
    BY <1>1, <2>1 DEF FoundIn
  <2>3. p \in Shown[r] /\ p \in Map
    BY <1>2, ShownClosed
  <2>4. Raw[r][p][j] = m
    BY <2>2, <2>3 DEF Like
  <2>5. \A q \in Shown[r], i \in Key : Raw[r][q][i] = m => q = p /\ i = j
    BY <2>3, <2>4, ShownTree
  <2>6. CASE Kind[p][j] \in {"list", "array"}
    <3>1. Under(r, m) = {}
      BY <2>5, <2>6 DEF Under
    <3>2. near = {}
      BY <3>1 DEF ByName
    <3>3. \A i \in DOMAIN r.secondary : r.secondary[i].name # None
      BY SecondaryID, DataAssumption
    <3> QED BY <2>2, <2>6, <3>2, <3>3 DEF Params
  <2>7. CASE Kind[p][j] \notin {"list", "array"}
    <3>1. Under(r, m) = {j}
      BY <2>3, <2>4, <2>5, <2>7 DEF Under
    <3> QED BY <1>4, <2>2, <2>7, <3>1
  <2> QED BY <2>6, <2>7
<1>6. Matched(c, f, k) = Claims[r][m][k]
  <2>1. CASE k # IdKey
    BY <1>4, <2>1, ClaimsText DEF Matched
  <2>2. CASE k = IdKey /\ m = r.root
    BY <1>3, <2>2, ClaimsText DEF Matched
  <2>3. CASE k = IdKey /\ m # r.root
    <3>1. Matched(c, f, k) = Params(c, ObjectName[m]) \cup Params(c, f.key)
      BY <1>1, <1>3, <2>3 DEF Matched
    <3>2. Params(c, ObjectName[m]) \cup near = ByName(r, Under(r, m) \cup {ObjectName[m]})
      BY DEF ByName, Params
    <3>3. Claims[r][m][k] = ByName(r, Under(r, m) \cup {ObjectName[m]})
      BY <2>3, ClaimsText
    <3>4. Params(c, f.key) = near
      BY <1>5, <2>3
    <3> QED BY ONLY <3>1, <3>2, <3>3, <3>4
  <2> QED BY <2>1, <2>2, <2>3
<1>7. \A n : \A i, j \in Params(c, n) : i = j
  BY RequestAssumption DEF Params
<1>8. ASSUME Matched(c, f, k) # {}
      PROVE  r.secondary[Winner(c, f, k)].id = Claimed(r, m, k)
  <2> DEFINE wins(i) == k = IdKey /\ Params(c, f.key) # {} => i \in Params(c, f.key)
             claims(i) == (k = IdKey /\ near # {}) => i \in near
             w == Winner(c, f, k)
             x == CHOOSE i \in Claims[r][m][k] : claims(i)
  <2>1. k = IdKey => m # r.root /\ Params(c, f.key) = near /\ near \subseteq Matched(c, f, k)
    BY <1>3, <1>5, <1>8 DEF Matched
  <2>2. w \in Matched(c, f, k) /\ wins(w)
    <3>1. \E i \in Matched(c, f, k) : wins(i)
      BY <1>8, <2>1
    <3> QED BY <3>1 DEF Winner
  <2>3. x \in Matched(c, f, k) /\ claims(x)
    <3>1. \E i \in Claims[r][m][k] : claims(i)
      BY <1>6, <1>8, <2>1
    <3> HIDE DEF claims
    <3> QED BY <1>6, <3>1
  <2>4. Claimed(r, m, k) = r.secondary[x].id
    BY DEF Claimed
  <2> HIDE DEF w, x
  <2>5. w = x
    <3>1. CASE k # IdKey
      BY <1>7, <2>2, <2>3, <3>1 DEF Matched
    <3>2. CASE k = IdKey /\ near # {}
      BY <1>7, <2>1, <2>2, <2>3, <3>2
    <3>3. CASE k = IdKey /\ near = {}
      <4>1. Matched(c, f, k) = Params(c, ObjectName[m])
        BY <1>1, <1>3, <2>1, <3>3 DEF Matched
      <4> QED BY <1>7, <2>2, <2>3, <4>1
    <3> QED BY <3>1, <3>2, <3>3
  <2> QED BY <2>4, <2>5 DEF w
<1> QED BY <1>3, <1>6, <1>8

(* What the record pass does at one key, if nothing is shared.             *)
RecordedAt(c, m, k, v) ==
    LET matched == Matched(c, Top(c), k)
    IN  \/ v \in Map /\ Entered(c, k, v, Present(c, v)) /\ copy'[c] = copy[c] /\ path' = path
        \/ /\ v \in Text /\ TakesPrimary(c, k) /\ Becomes(c, m, k, path[c].primary)
           /\ path' = [path EXCEPT ![c].oldPrimary = v] /\ Visited(c, k)
        \/ /\ v \in Text /\ ~TakesPrimary(c, k) /\ matched # {}
           /\ Becomes(c, m, k, req[c].secondary[Winner(c, Top(c), k)].id)
           /\ path' = [path EXCEPT ![c].old =
                 [i \in DOMAIN @ |-> @[i] \cup (IF i \in matched THEN {v} \ {Empty} ELSE {})]]
           /\ Visited(c, k)
        \/ /\ v \notin Map /\ (v \in Text => ~TakesPrimary(c, k) /\ matched = {})
           /\ Visited(c, k) /\ Becomes(c, m, k, v) /\ path' = path

(* The key that a pass is at, and the value there, are the handler's own.  *)
LEMMA OwnTop ==
    ASSUME Exposed = {}, IInv, NEW c \in Handler, stack[c] # <<>>, NEW k \in Top(c).left
    PROVE  /\ Top(c).map \in own[c] /\ Top(c).map \in Map /\ k \in Key
           /\ \A j \in Key : Read(c, Top(c).map, j) = copy[c][Top(c).map][j]
           /\ copy[c][Top(c).map][k] \in Value
           /\ copy[c][Top(c).map][k] \in Map => copy[c][Top(c).map][k] \in own[c]
<1>1. TypeOK /\ StoreIsolated /\ MapsIsolated(c) /\ StackIsolated(c)
  BY DEF IInv, HandlerIsolated
<1>2. /\ k \in Key /\ Top(c).map \in Map /\ Top(c).map \in own[c] \cup Exposed
      /\ Read(c, Top(c).map, k) \in Value
      /\ Read(c, Top(c).map, k) \in Map => Read(c, Top(c).map, k) \in own[c] \cup Exposed
  BY <1>1, ReadIsolated
<1> QED BY <1>2 DEF Read

(* A step of the record pass visits one key.                               *)
LEMMA RecordVisit ==
    ASSUME Exposed = {}, IInv, NEW c \in Handler, RecordAndReplaceIDs(c)
    PROVE  \E m \in own[c], k \in Key :
              /\ m = Top(c).map /\ k \in Top(c).left /\ m \in Map
              /\ copy[c][m][k] \in Value
              /\ copy[c][m][k] \in Map => copy[c][m][k] \in own[c]
              /\ RecordedAt(c, m, k, copy[c][m][k])
<1>1. TypeOK /\ StoreIsolated /\ MapsIsolated(c) /\ StackIsolated(c)
  BY DEF IInv, HandlerIsolated
<1>2. pc[c] = "record" /\ stack[c] # <<>> /\ own' = own
  BY DEF RecordAndReplaceIDs
<1>3. PICK k \in Top(c).left :
        \/ /\ Read(c, Top(c).map, k) \in Map
           /\ Entered(c, k, Read(c, Top(c).map, k), Present(c, Read(c, Top(c).map, k)))
           /\ UNCHANGED <<store, copy, path>>
        \/ /\ Read(c, Top(c).map, k) \in Text /\ TakesPrimary(c, k)
           /\ Put(c, Top(c).map, k, path[c].primary)
           /\ path' = [path EXCEPT ![c].oldPrimary = Read(c, Top(c).map, k)]
           /\ Visited(c, k)
        \/ /\ Read(c, Top(c).map, k) \in Text /\ ~TakesPrimary(c, k)
           /\ Matched(c, Top(c), k) # {}
           /\ Put(c, Top(c).map, k, req[c].secondary[Winner(c, Top(c), k)].id)
           /\ path' = [path EXCEPT ![c].old =
                 [i \in DOMAIN @ |-> @[i] \cup (IF i \in Matched(c, Top(c), k)
                                                THEN {Read(c, Top(c).map, k)} \ {Empty}
                                                ELSE {})]]
           /\ Visited(c, k)
        \/ /\ Read(c, Top(c).map, k) \notin Map
           /\ Read(c, Top(c).map, k) \in Text =>
                 ~TakesPrimary(c, k) /\ Matched(c, Top(c), k) = {}
           /\ Visited(c, k)
           /\ UNCHANGED <<store, copy, path>>
  BY DEF RecordAndReplaceIDs
<1>4. /\ Top(c).map \in own[c] /\ Top(c).map \in Map /\ k \in Key
      /\ Read(c, Top(c).map, k) = copy[c][Top(c).map][k]
      /\ copy[c][Top(c).map][k] \in Value
      /\ copy[c][Top(c).map][k] \in Map => copy[c][Top(c).map][k] \in own[c]
  BY <1>2, OwnTop
<1>5. PICK m, v :
        /\ m \in own[c] /\ m = Top(c).map
        /\ v = Read(c, m, k) /\ v = copy[c][m][k]
  BY <1>4
<1>6. ASSUME NEW x, x \notin Map, Put(c, m, k, x) PROVE Becomes(c, m, k, x)
  BY <1>1, <1>2, <1>4, <1>5, <1>6, PutReads DEF Becomes
<1>7. path[c].primary \notin Map
  BY <1>1, DataAssumption DEF TypeOK, PathParamsMap
<1>8. Matched(c, Top(c), k) # {} =>
         req[c].secondary[Winner(c, Top(c), k)].id \notin Map
  BY <1>1, WinnerSecondary, SecondaryGiven
<1>9. copy' = copy => Becomes(c, m, k, v)
  BY <1>5 DEF Becomes
<1>10. RecordedAt(c, m, k, v)
  <2> DEFINE matched == Matched(c, Top(c), k)
  <2>1. CASE v \in Map /\ Entered(c, k, v, Present(c, v)) /\ UNCHANGED <<store, copy, path>>
    BY <2>1 DEF RecordedAt
  <2>2. CASE /\ v \in Text /\ TakesPrimary(c, k) /\ Put(c, m, k, path[c].primary)
             /\ path' = [path EXCEPT ![c].oldPrimary = v] /\ Visited(c, k)
    BY <1>6, <1>7, <2>2 DEF RecordedAt
  <2>3. CASE /\ v \in Text /\ ~TakesPrimary(c, k) /\ matched # {}
             /\ Put(c, m, k, req[c].secondary[Winner(c, Top(c), k)].id)
             /\ path' = [path EXCEPT ![c].old =
                   [i \in DOMAIN @ |-> @[i] \cup (IF i \in matched THEN {v} \ {Empty} ELSE {})]]
             /\ Visited(c, k)
    <3>1. Becomes(c, m, k, req[c].secondary[Winner(c, Top(c), k)].id)
      BY <1>6, <1>8, <2>3
    <3> QED BY <2>3, <3>1 DEF RecordedAt
  <2>4. CASE /\ v \notin Map /\ (v \in Text => ~TakesPrimary(c, k) /\ matched = {})
             /\ Visited(c, k)
             /\ UNCHANGED <<store, copy, path>>
    BY <1>9, <2>4 DEF RecordedAt
  <2> QED BY <1>3, <1>5, <2>1, <2>2, <2>3, <2>4
<1> QED BY <1>3, <1>4, <1>5, <1>10

(* The key visited is then among those seen...                             *)
Sees(c, U, m, k) == Seen(c, U)' = Seen(c, U) \cup {<<m, k>>}

(* ... which is what becomes of a visit to one of the handler's own keys.  *)
LEMMA SeenVisited ==
    ASSUME NEW c \in Handler, NEW U, NEW m, m \in own[c], NEW k \in Key, own'[c] = own[c],
           Visits(c, U, m, k)
    PROVE  Sees(c, U, m, k)
<1>1. <<m, k>> \in own[c] \X Key /\ <<m, k>>[1] = m /\ <<m, k>>[2] = k
  OBVIOUS
<1>2. \A f \in own[c] \X Key : f # <<m, k>> => f[1] # m \/ f[2] # k
  OBVIOUS
<1>3. \A f \in own[c] \X Key : f[1] \in own[c] /\ f[2] \in Key
  OBVIOUS
<1>4. ASSUME NEW f \in own[c] \X Key
      PROVE  ~Pending(c, U, f[1], f[2])' <=> ~Pending(c, U, f[1], f[2]) \/ f = <<m, k>>
  BY <1>1, <1>2, <1>3 DEF Visits
<1>5. /\ Seen(c, U)' = {f \in own[c] \X Key : ~Pending(c, U, f[1], f[2])'}
      /\ Seen(c, U) = {f \in own[c] \X Key : ~Pending(c, U, f[1], f[2])}
  BY DEF Seen
<1> QED BY <1>1, <1>4, <1>5 DEF Sees

(* The keys that are not absent, of an object of the handler's own.        *)
LEMMA PresentOwn ==
    ASSUME NEW c \in Handler, NEW v \in own[c]
    PROVE  /\ Present(c, v) = {j \in Key : copy[c][v][j] # None}
           /\ Present(c, v) \in SUBSET Key
BY DEF Present, Read

(* A key that is being visited has its value from the pass before.         *)
LEMMA WalkTop ==
    ASSUME TypeOK, NEW c \in Handler, NEW U, NEW B, NEW A, Walk(c, U, B, A), stack[c] # <<>>,
           NEW m \in own[c], m = Top(c).map, NEW k \in Key, k \in Top(c).left
    PROVE  copy[c][m][k] = B[m][k] /\ B[m][k] # None
<1>1. /\ Len(stack[c]) \in DOMAIN stack[c] /\ Top(c) = stack[c][Len(stack[c])]
  BY TopOfStack
<1>2. Unvisited(c, m, k)
  BY <1>1 DEF Unvisited
<1>3. \A j \in stack[c][Len(stack[c])].left : B[stack[c][Len(stack[c])].map][j] # None
  BY <1>1 DEF Walk, WalkFrames
<1> QED BY <1>1, <1>2, <1>3 DEF Walk, Pending

(* One step of the record pass.                                            *)
LEMMA RecordAnswer ==
    ASSUME Exposed = {}, ResponsesAreTrees, IInv, NEW c \in Handler, AnswerOf(c),
           RecordAndReplaceIDs(c)
    PROVE  AnswerOf(c)'
<1>1. TypeOK
  BY DEF IInv
<1>2. pc[c] = "record" /\ stack[c] # <<>> /\ own' = own /\ pc' = pc /\ req' = req
  BY DEF RecordAndReplaceIDs
<1>3. PICK r \in Request : r = req[c]
  BY <1>1 DEF TypeOK
<1>4. PICK p \in ID : p = path[c].primary
  BY <1>1 DEF TypeOK, PathParamsMap, ID
<1>5. PICK B, A : B = Raw[r] /\ A = Named[r][p] /\ Like(r, B) /\ Like(r, A)
  BY Shapes
<1>6. PICK U, seen :
        U \in SUBSET Map /\ Walk(c, U, B, A) /\ seen = Seen(c, U) /\ Recorded(c, seen)
  BY <1>2, <1>3, <1>4, <1>5 DEF AnswerOf, Naming
<1>7. PICK m, k, v :
        /\ m \in own[c] /\ k \in Key
        /\ m = Top(c).map /\ k \in Top(c).left /\ m \in Map
        /\ v = copy[c][m][k] /\ v \in Value /\ (v \in Map => v \in own[c])
        /\ RecordedAt(c, m, k, v)
  BY RecordVisit
<1>8. v = B[m][k] /\ v # None /\ v = Raw[r][m][k]
  BY <1>1, <1>2, <1>5, <1>6, <1>7, WalkTop
<1>9. own[c] \subseteq Map /\ own[c] = Shown[r]
  BY <1>1, <1>3, <1>6 DEF TypeOK, Walk
<1>10. ASSUME NEW W \in SUBSET Map, Walk(c, W, B, A)', Recorded(c, Seen(c, W))',
              path'[c].primary = p
       PROVE  AnswerOf(c)'
  <2>1. Naming(c)'
    BY <1>2, <1>3, <1>5, <1>10 DEF Naming
  <2>2. \E i \in MintedId : path'[c].primary = Primary(req'[c], i)
    BY <1>2, <1>4, <1>10 DEF AnswerOf
  <2> QED BY <1>2, <2>1, <2>2 DEF AnswerOf
<1>11. CASE v \in Map
  <2>1. Entered(c, k, v, Present(c, v)) /\ copy'[c] = copy[c] /\ path' = path
    BY <1>7, <1>11, DataAssumption DEF RecordedAt
  <2>2. PICK ks \in SUBSET Key : ks = Present(c, v) /\ ks = {j \in Key : copy[c][v][j] # None}
    BY <1>7, <1>11, PresentOwn
  <2>3. /\ Walk(c, U \ {v}, B, A)'
        /\ Enters(c, U, v, B, m, k)
    <3>1. /\ Exposed = {} /\ ResponsesAreTrees /\ TypeOK /\ c \in Handler /\ U \in SUBSET Map
          /\ Walk(c, U, B, A) /\ Like(req[c], B) /\ Like(req[c], A) /\ stack[c] # <<>>
          /\ m = Top(c).map /\ k \in Top(c).left /\ k \in Key /\ v \in Map /\ v = B[m][k]
          /\ ks \in SUBSET Key /\ ks = {j \in Key : copy[c][v][j] # None}
          /\ Entered(c, k, v, ks) /\ own'[c] = own[c] /\ req'[c] = req[c]
          /\ copy'[c] = copy[c]
      BY <1>1, <1>2, <1>3, <1>5, <1>6, <1>7, <1>8, <1>11, <2>1, <2>2
    <3> QED BY ONLY <3>1, WalkEntered, Zenon
  <2>4. PICK more : more = Seen(c, U \ {v})'
    OBVIOUS
  <2>5. /\ more = {f \in own[c] \X Key : ~Pending(c, U \ {v}, f[1], f[2])'}
        /\ seen = {f \in own[c] \X Key : ~Pending(c, U, f[1], f[2])}
    BY <1>2, <1>6, <2>4 DEF Seen
  <2>6. \A f \in own[c] \X Key : f[1] \in own[c] /\ f[2] \in Key
    OBVIOUS
  <2>7. seen \subseteq more /\ more \subseteq Map \X Key
    BY <1>9, <2>3, <2>5, <2>6 DEF Enters
  <2>8. ASSUME NEW f \in more \ seen PROVE Raw[r][f[1]][f[2]] \notin Text
    <3>1. (f[1] = m /\ f[2] = k) \/ B[f[1]][f[2]] = None
      BY <2>3, <2>5, <2>6, <2>8 DEF Enters
    <3> QED BY <1>5, <1>8, <1>11, <3>1, DataAssumption
  <2>9. Recorded(c, more)'
    BY <1>1, <1>2, <1>3, <1>6, <2>1, <2>7, <2>8, RecordedAgain
  <2> QED BY <1>4, <1>6, <1>10, <2>1, <2>3, <2>4, <2>9
<1>12. CASE v \in Text
  <2>1. v \in Text /\ v \notin Map
    BY <1>12, DataAssumption
  <2>2. /\ AtRoot(c) <=> m = r.root
        /\ Matched(c, Top(c), k) = Claims[r][m][k]
        /\ Matched(c, Top(c), k) # {} =>
              r.secondary[Winner(c, Top(c), k)].id = Claimed(r, m, k)
    BY <1>1, <1>2, <1>3, <1>5, <1>6, <1>7, <1>8, <2>1, MatchedClaims
  <2>3. TakesPrimary(c, k) <=> m = r.root /\ k = IdKey /\ p # None
    BY <1>4, <2>2 DEF TakesPrimary
  <2>4. A[m][k] = IF TakesPrimary(c, k) THEN p
                  ELSE IF Matched(c, Top(c), k) # {} THEN Claimed(r, m, k) ELSE v
    BY <1>5, <1>7, <1>8, <2>1, <2>2, <2>3 DEF Named
  <2>5. Visited(c, k) /\ Becomes(c, m, k, A[m][k])
    BY <1>3, <1>4, <1>7, <2>1, <2>2, <2>4 DEF RecordedAt
  <2>6. Walk(c, U, B, A)' /\ Visits(c, U, m, k)
    <3>1. /\ TypeOK /\ c \in Handler /\ U \in SUBSET Map /\ Walk(c, U, B, A)
          /\ stack[c] # <<>> /\ m = Top(c).map /\ k \in Top(c).left /\ k \in Key
          /\ B[m][k] \notin Map /\ Visited(c, k) /\ own'[c] = own[c] /\ req'[c] = req[c]
          /\ Becomes(c, m, k, A[m][k])
      BY <1>1, <1>2, <1>6, <1>7, <1>8, <2>1, <2>5
    <3> QED BY ONLY <3>1, WalkVisited, Zenon
  <2>7. PICK more : more = Seen(c, U)'
    OBVIOUS
  <2>8. more = seen \cup {<<m, k>>}
    <3>1. Sees(c, U, m, k)
      BY <1>2, <1>7, <2>6, SeenVisited
    <3> QED BY <1>6, <2>7, <3>1 DEF Sees
  <2>9. DOMAIN path[c].old = DOMAIN r.secondary
    BY <1>3, <1>6 DEF Recorded
  <2>10. CASE TakesPrimary(c, k)
    <3>1. path' = [path EXCEPT ![c].oldPrimary = v]
      BY <1>7, <2>1, <2>10 DEF RecordedAt
    <3>2. /\ path'[c].primary = path[c].primary /\ path'[c].old = path[c].old
          /\ path'[c].oldPrimary = v
      BY <1>1, <3>1 DEF TypeOK, PathParamsMap
    <3>3. Recorded(c, more)'
      <4>1. /\ TypeOK /\ c \in Handler /\ Recorded(c, seen) /\ r \in Request /\ r = req[c]
            /\ req'[c] = req[c] /\ r.root \in Map /\ Raw[r][r.root][IdKey] \in Text
        BY <1>1, <1>2, <1>3, <1>6, <1>7, <1>8, <2>1, <2>3, <2>10
      <4>2. /\ path[c].primary # None /\ path'[c].primary = path[c].primary
            /\ path'[c].old = path[c].old /\ path'[c].oldPrimary = Raw[r][r.root][IdKey]
            /\ more = seen \cup {<<r.root, IdKey>>}
        BY <1>4, <1>8, <2>3, <2>8, <2>10, <3>2
      <4> QED BY ONLY <4>1, <4>2, RecordedPrimary, Zenon
    <3> QED BY <1>4, <1>6, <1>10, <2>6, <2>7, <3>2, <3>3
  <2>11. CASE ~TakesPrimary(c, k)
    <3>1. /\ path'[c].primary = path[c].primary /\ path'[c].oldPrimary = path[c].oldPrimary
          /\ DOMAIN path'[c].old = DOMAIN path[c].old
          /\ \A i \in DOMAIN r.secondary :
                path'[c].old[i] = path[c].old[i] \cup
                                     (IF i \in Claims[r][m][k] THEN {v} \ {Empty} ELSE {})
      <4>1. CASE Matched(c, Top(c), k) = {}
        BY <1>7, <2>1, <2>2, <2>11, <4>1 DEF RecordedAt
      <4>2. CASE Matched(c, Top(c), k) # {}
        <5>1. path' = [path EXCEPT ![c].old =
                 [i \in DOMAIN @ |-> @[i] \cup (IF i \in Matched(c, Top(c), k)
                                                THEN {v} \ {Empty} ELSE {})]]
          BY <1>7, <2>1, <2>11, <4>2 DEF RecordedAt
        <5>2. /\ path'[c].primary = path[c].primary /\ path'[c].oldPrimary = path[c].oldPrimary
              /\ path'[c].old = [i \in DOMAIN path[c].old |-> path[c].old[i] \cup
                    (IF i \in Matched(c, Top(c), k) THEN {v} \ {Empty} ELSE {})]
          BY <1>1, <5>1 DEF TypeOK, PathParamsMap
        <5> QED BY <2>2, <2>9, <5>2
      <4> QED BY <4>1, <4>2
    <3>2. Recorded(c, more)'
      <4>1. /\ TypeOK /\ c \in Handler /\ Recorded(c, seen) /\ r \in Request /\ r = req[c]
            /\ req'[c] = req[c] /\ m \in Map /\ k \in Key /\ v = Raw[r][m][k]
        BY <1>1, <1>2, <1>3, <1>6, <1>7, <1>8
      <4>2. /\ ~(m = r.root /\ k = IdKey /\ path[c].primary # None)
            /\ more = seen \cup {<<m, k>>}
        BY <1>4, <2>3, <2>8, <2>11
      <4> QED BY ONLY <3>1, <4>1, <4>2, RecordedMore
    <3> QED BY <1>4, <1>6, <1>10, <2>6, <2>7, <3>1, <3>2
  <2> QED BY <2>10, <2>11
<1>13. CASE v \notin Map \cup Text
  <2>1. Visited(c, k) /\ Becomes(c, m, k, v) /\ path' = path
    BY <1>7, <1>13 DEF RecordedAt
  <2>2. A[m][k] = v
    <3>1. Claims[r][m][k] = {}
      <4>1. m \in Map /\ k \in Key /\ Raw[r][m][k] \notin Text
        BY <1>7, <1>8, <1>13
      <4> QED BY ONLY <1>3, <4>1, ClaimsText
    <3>2. Raw[r][m][k] \notin Text
      BY <1>8, <1>13
    <3> QED BY <1>5, <1>7, <1>8, <3>1, <3>2 DEF Named
  <2>3. Walk(c, U, B, A)' /\ Visits(c, U, m, k)
    <3>1. /\ TypeOK /\ c \in Handler /\ U \in SUBSET Map /\ Walk(c, U, B, A)
          /\ stack[c] # <<>> /\ m = Top(c).map /\ k \in Top(c).left /\ k \in Key
          /\ B[m][k] \notin Map /\ Visited(c, k) /\ own'[c] = own[c] /\ req'[c] = req[c]
          /\ Becomes(c, m, k, A[m][k])
      BY <1>1, <1>2, <1>6, <1>7, <1>8, <1>13, <2>1, <2>2
    <3> QED BY ONLY <3>1, WalkVisited, Zenon
  <2>4. PICK more : more = Seen(c, U)'
    OBVIOUS
  <2>5. more = seen \cup {<<m, k>>}
    <3>1. Sees(c, U, m, k)
      BY <1>2, <1>7, <2>3, SeenVisited
    <3> QED BY <1>6, <2>4, <3>1 DEF Sees
  <2>6. more \subseteq Map \X Key
    <3>1. seen \subseteq own[c] \X Key
      BY <1>6 DEF Seen
    <3>2. own[c] \X Key \subseteq Map \X Key
      BY <1>9
    <3>3. <<m, k>> \in Map \X Key
      BY <1>7
    <3> QED BY <2>5, <3>1, <3>2, <3>3
  <2>7. ASSUME NEW f \in more \ seen PROVE Raw[r][f[1]][f[2]] \notin Text
    BY <1>8, <1>13, <2>5, <2>7
  <2>8. Recorded(c, more)'
    BY <1>1, <1>2, <1>3, <1>6, <2>1, <2>5, <2>6, <2>7, RecordedAgain
  <2> QED BY <1>4, <1>6, <1>10, <2>1, <2>3, <2>4, <2>8
<1> QED BY <1>11, <1>12, <1>13

----------------------------------------------------------------------------
(* How the passes start.                                                   *)

(* With the frame of the root only.                                        *)
LEMMA RootStart ==
    ASSUME TypeOK, NEW c \in Handler, NEW ks, stack' = [stack EXCEPT ![c] = RootFrame(c, ks)]
    PROVE  /\ DOMAIN stack'[c] = {1} /\ stack'[c][1].map = req[c].root
           /\ stack'[c][1].typed /\ stack'[c][1].left = ks
<1>1. stack'[c] = RootFrame(c, ks)
  BY DEF TypeOK
<1> QED BY <1>1, RootLeft

(* The record pass has noted nothing yet.                                  *)
LEMMA RecordStart ==
    ASSUME NEW c \in Handler, NEW r \in Request, r = req'[c], NEW p \in ID,
           own'[c] = Shown[r], NEW U, U = own'[c] \ {r.root},
           1 \in DOMAIN stack'[c], stack'[c][1].map = r.root,
           stack'[c][1].left = {k \in Key : Raw[r][r.root][k] # None},
           path'[c].oldPrimary = None,
           path'[c].old = [i \in DOMAIN r.secondary |-> {}]
    PROVE  Recorded(c, Seen(c, U))'
<1>1. PICK seen : seen = Seen(c, U)'
  OBVIOUS
<1>2. seen = {f \in own'[c] \X Key : ~Pending(c, U, f[1], f[2])'}
  BY <1>1 DEF Seen
<1>3. r.root \in own'[c] /\ own'[c] \subseteq Map
  BY ShownClosed
<1>4. ASSUME NEW m \in own'[c], NEW k \in Key, ~Pending(c, U, m, k)'
      PROVE  m = r.root /\ Raw[r][m][k] = None
  <2>1. m = r.root
    BY <1>4 DEF Pending
  <2>2. k \notin stack'[c][1].left
    BY <1>4, <2>1 DEF Pending, Unvisited
  <2> QED BY <2>1, <2>2
<1>5. \A f \in own'[c] \X Key : f[1] \in own'[c] /\ f[2] \in Key
  OBVIOUS
<1>6. seen \subseteq Map \X Key /\ \A f \in seen : Raw[r][f[1]][f[2]] = None
  BY <1>2, <1>3, <1>4, <1>5
<1>7. PICK none : none = {}
  OBVIOUS
<1>8. \A i : OldIn(r, i, seen) = OldIn(r, i, none)
  <2>1. /\ none \subseteq seen /\ seen \subseteq Map \X Key
        /\ \A f \in seen \ none : Raw[r][f[1]][f[2]] \notin Text
    BY <1>6, <1>7, DataAssumption
  <2> QED BY <2>1, OldInText
<1>9. \A i : OldIn(r, i, none) = {}
  BY <1>7 DEF OldIn
<1>10. <<r.root, IdKey>> \in seen => Raw[r][r.root][IdKey] = None
  <2>1. PICK f : f = <<r.root, IdKey>>
    OBVIOUS
  <2>2. f[1] = r.root /\ f[2] = IdKey
    BY <2>1
  <2> QED BY <1>6, <2>1, <2>2
<1>11. OldPrimaryIn(c, seen)' = None
  BY <1>10, DataAssumption DEF OldPrimaryIn
<1>12. Recorded(c, seen)'
  BY <1>8, <1>9, <1>11 DEF Recorded
<1> QED BY <1>1, <1>12

(* ReplaceData starts with what is asked for of the root...                *)
LEMMA ReflectStart ==
    ASSUME NEW c \in Handler, NEW r \in Request, r = req'[c],
           NEW p \in ID, p = path'[c].primary, own'[c] = Shown[r],
           DOMAIN stack'[c] = {1}, stack'[c][1].map = r.root, stack'[c][1].typed,
           stack'[c][1].left = {k \in Key : <<r.root, k>> \in DOMAIN r.data},
           \A m \in own'[c], k \in Key : copy'[c][m][k] = Renamed[r][p][m][k]
    PROVE  Reflecting(c, {r.root})'
<1>1. r.root \in Shown[r] /\ Shown[r] \subseteq Map /\ r.root \in Asked[r]
  BY ShownClosed, AskedClosed
<1>2. ASSUME NEW k \in Key, k \notin stack'[c][1].left
      PROVE  copy'[c][r.root][k] = Final[r][p][r.root][k] /\ ~Nests(r, r.root, k)
  <2>1. ~Reflects(r, r.root, k)
    BY <1>2 DEF Reflects
  <2>2. Final[r][p][r.root][k] = Renamed[r][p][r.root][k]
    BY <1>1, <2>1 DEF Final
  <2>3. copy'[c][r.root][k] = Renamed[r][p][r.root][k]
    BY <1>1
  <2>4. ~Nests(r, r.root, k)
    BY ONLY <2>1 DEF Nests
  <2> QED BY ONLY <2>2, <2>3, <2>4
<1>3. \A m \in {r.root}, k \in Key :
         \/ Due(c, m, k)'
         \/ /\ copy'[c][m][k] = Final[r][p][m][k]
            /\ Nests(r, m, k) /\ Raw[r][m][k] \in Map => Raw[r][m][k] \in {r.root}
  <2>1. ASSUME NEW k \in Key
        PROVE  \/ Due(c, r.root, k)'
               \/ copy'[c][r.root][k] = Final[r][p][r.root][k] /\ ~Nests(r, r.root, k)
    <3>1. CASE k \in stack'[c][1].left
      <4>1. 1 \in DOMAIN stack'[c]
        OBVIOUS
      <4> QED BY <3>1, <4>1 DEF Due
    <3>2. CASE k \notin stack'[c][1].left
      BY <1>2, <3>2
    <3> QED BY ONLY <3>1, <3>2
  <2> QED BY ONLY <2>1
<1>4. PICK T, renamed, final :
        T = {r.root} /\ renamed = Renamed[r][p] /\ final = Final[r][p]
  OBVIOUS
<1>5. /\ own'[c] = Shown[r] /\ r.root \in T /\ T \subseteq Asked[r]
      /\ \A i \in DOMAIN stack'[c] : stack'[c][i].typed => stack'[c][i].map \in T
      /\ \A m \in own'[c], k \in Key : copy'[c][m][k] \in {renamed[m][k], final[m][k]}
  <2>1. own'[c] = Shown[r] /\ r.root \in T /\ T \subseteq Asked[r]
    BY <1>1, <1>4
  <2>2. \A i \in DOMAIN stack'[c] : stack'[c][i].map \in T
    BY <1>4
  <2>3. \A m \in own'[c], k \in Key : copy'[c][m][k] = renamed[m][k]
    BY <1>4
  <2> QED BY ONLY <2>1, <2>2, <2>3
<1>6. \A m \in T, k \in Key :
         \/ Due(c, m, k)'
         \/ /\ copy'[c][m][k] = final[m][k]
            /\ Nests(r, m, k) /\ Raw[r][m][k] \in Map => Raw[r][m][k] \in T
  BY <1>3, <1>4
<1>7. renamed = Renamed[req'[c]][path'[c].primary] /\ final = Final[req'[c]][path'[c].primary]
  BY <1>4
<1>8. Reflecting(c, T)'
  BY <1>5, <1>6, <1>7 DEF Reflecting
<1> QED BY <1>4, <1>8

(* ... and writeResponse with all that is there.                           *)
LEMMA WriteStart ==
    ASSUME NEW c \in Handler, NEW r \in Request, r = req'[c],
           NEW p \in ID, p = path'[c].primary, own'[c] = Shown[r],
           DOMAIN stack'[c] = {1}, stack'[c][1].map = r.root,
           stack'[c][1].left = {k \in Key : copy'[c][r.root][k] # None},
           \A m \in own'[c], k \in Key : copy'[c][m][k] = Final[r][p][m][k],
           body'[c] = Blank
    PROVE  Writing(c, {r.root})'
<1>1. r.root \in Shown[r] /\ Shown[r] \subseteq Map /\ r.root \in Left[r][p]
  BY ShownClosed, LeftClosed
<1>2. \A m \in Map, k \in Key : body'[c][m][k] = None
  BY DEF Blank
<1>3. ASSUME NEW k \in Key
      PROVE  \/ Unvisited(c, r.root, k)'
             \/ /\ body'[c][r.root][k] = Final[r][p][r.root][k]
                /\ Final[r][p][r.root][k] \notin Map
  <2>1. CASE k \in stack'[c][1].left
    <3>1. 1 \in DOMAIN stack'[c]
      OBVIOUS
    <3> QED BY <2>1, <3>1 DEF Unvisited
  <2>2. CASE k \notin stack'[c][1].left
    <3>1. Final[r][p][r.root][k] = None
      BY <1>1, <2>2
    <3> QED BY <1>1, <1>2, <3>1, DataAssumption
  <2> QED BY <2>1, <2>2
<1>4. r.root \in Map /\ {r.root} \subseteq Left[r][p]
  BY ONLY <1>1
<1>5. \A i \in DOMAIN stack'[c] : stack'[c][i].map \in {r.root}
  OBVIOUS
<1>6. \A m \in Map, k \in Key : body'[c][m][k] # None =>
         m \in {r.root} /\ body'[c][m][k] = Final[r][p][m][k]
  BY ONLY <1>2
<1>7. \A m \in {r.root}, k \in Key :
         \/ Unvisited(c, m, k)'
         \/ /\ body'[c][m][k] = Final[r][p][m][k]
            /\ Final[r][p][m][k] \in Map => Final[r][p][m][k] \in {r.root}
  BY ONLY <1>3
<1>8. /\ r = req'[c] /\ p = path'[c].primary /\ own'[c] = Shown[r]
      /\ \A m \in own'[c], k \in Key : copy'[c][m][k] = Final[r][p][m][k]
  OBVIOUS
<1>9. PICK V : V = {r.root}
  OBVIOUS
<1>10. PICK final : final = Final[req'[c]][path'[c].primary]
  OBVIOUS
<1>11. /\ own'[c] = Shown[req'[c]] /\ req'[c].root \in V
       /\ V \subseteq Left[req'[c]][path'[c].primary]
       /\ \A m \in own'[c], k \in Key : copy'[c][m][k] = final[m][k]
  BY ONLY <1>4, <1>8, <1>9, <1>10
<1>12. /\ \A i \in DOMAIN stack'[c] : stack'[c][i].map \in V
       /\ \A m \in Map, k \in Key : body'[c][m][k] # None =>
             m \in V /\ body'[c][m][k] = final[m][k]
  BY ONLY <1>2, <1>5, <1>9, <1>10
<1>13. \A m \in V, k \in Key :
          \/ Unvisited(c, m, k)'
          \/ /\ body'[c][m][k] = final[m][k]
             /\ final[m][k] \in Map => final[m][k] \in V
  BY ONLY <1>7, <1>8, <1>9, <1>10
<1>14. Writing(c, V)'
  BY ONLY <1>11, <1>12, <1>13, <1>10 DEF Writing
<1> QED BY ONLY <1>9, <1>14

(* Without a path parameter, nothing is renamed.                           *)
LEMMA NothingNamed ==
    ASSUME NEW r \in Request, r.secondary = <<>>, NEW m \in Map, NEW k \in Key
    PROVE  Renamed[r][None][m][k] = Raw[r][m][k]
<1>1. None \in ID /\ DOMAIN r.secondary = {}
  BY DEF ID
<1>2. Claims[r][m][k] = {}
  BY <1>1, ClaimsText
<1>3. Named[r][None][m][k] = Raw[r][m][k]
  BY <1>1, <1>2 DEF Named
<1>4. \A t : Rename(r, None, t) = t
  BY <1>1 DEF Rename
<1> QED BY <1>1, <1>3, <1>4 DEF Renamed

(* maybeGeneratePrimaryID.                                                 *)
LEMMA MintAnswer ==
    ASSUME Exposed = {}, ResponsesAreTrees, IInv, IInv', NEW c \in Handler, AnswerOf(c),
           SearchComplete(c), MaybeGeneratePrimaryID(c)
    PROVE  AnswerOf(c)'
<1>1. TypeOK /\ TypeOK'
  BY DEF IInv
<1>2. /\ pc[c] = "mint" /\ own' = own /\ req' = req /\ copy' = copy /\ body' = body
      /\ store' = store
  BY DEF MaybeGeneratePrimaryID
<1>3. PICK r \in Request : r = req[c]
  BY <1>1 DEF TypeOK
<1>4. /\ path[c] = [primary |-> r.primary, oldPrimary |-> None,
                    old |-> [i \in DOMAIN r.secondary |-> {}]]
      /\ own[c] = Shown[r] /\ r.root \in own[c] /\ own[c] \subseteq Map
      /\ body[c] = Blank
  BY <1>2, <1>3, ShownClosed DEF AnswerOf, Generating, SearchComplete
<1>5. \A m \in own[c], k \in Key : copy[c][m][k] = Raw[r][m][k]
  <2>1. stack[c] = <<>>
    BY <1>1, <1>2 DEF TypeOK, Pass
  <2>2. \A m, k : ~Unvisited(c, m, k)
    BY <2>1 DEF Unvisited
  <2> QED BY <1>2, <1>3, <2>2 DEF AnswerOf, Generating
<1> DEFINE id == copy[c][r.root][IdKey]
           start == IF \/ path[c].primary = None /\ id \in Text
                       \/ path[c].primary # None \/ r.secondary # <<>>
                    THEN "record" ELSE IF r.method = "POST" THEN "replace" ELSE "write"
<1>6. /\ \/ /\ path[c].primary = None /\ id \in Text
            /\ \E i \in MintedId : path' = [path EXCEPT ![c].primary = i]
         \/ ~(path[c].primary = None /\ id \in Text) /\ path' = path
      /\ pc' = [pc EXCEPT ![c] = start]
      /\ stack' = [stack EXCEPT ![c] =
                     RootFrame(c, IF start = "replace" THEN Sent(c, r.root)
                                  ELSE Present(c, r.root))]
  <2>1. Started(c)
    BY DEF IInv, HandlerIsolated
  <2>2. start = AfterMint(c) /\ (Mints(c) <=> path[c].primary = None /\ id \in Text)
    BY <1>3 DEF AfterMint, ReplacesIDs, NilPathParams, Mints
  <2>3. /\ pc' = [pc EXCEPT ![c] = AfterMint(c)]
        /\ stack' = [stack EXCEPT ![c] =
               RootFrame(c, IF AfterMint(c) = "replace" THEN Sent(c, req[c].root)
                            ELSE Present(c, req[c].root))]
    BY <2>1, MintRuns
  <2>4. \/ Mints(c) /\ \E i \in MintedId : path' = [path EXCEPT ![c].primary = i]
        \/ ~Mints(c) /\ path' = path
    BY DEF MaybeGeneratePrimaryID
  <2> HIDE DEF start, id
  <2> QED BY <1>3, <2>2, <2>3, <2>4
<1>7. id = Raw[r][r.root][IdKey]
  BY <1>4, <1>5, <1>6, DataAssumption
<1>8. pc'[c] = start /\ start \in {"record", "replace", "write"}
  <2>1. start \in {"record", "replace", "write"}
    OBVIOUS
  <2> HIDE DEF start
  <2> QED BY <1>1, <1>6, <2>1 DEF TypeOK
<1> HIDE DEF id, start
<1>9. /\ \E i \in MintedId : path'[c].primary = Primary(r, i)
      /\ path'[c].oldPrimary = None /\ path'[c].old = [i \in DOMAIN r.secondary |-> {}]
  <2>1. CASE path[c].primary = None /\ id \in Text
    <3>1. PICK i \in MintedId : path' = [path EXCEPT ![c].primary = i]
      BY <1>6, <2>1
    <3>2. /\ path'[c].primary = i /\ path'[c].oldPrimary = path[c].oldPrimary
          /\ path'[c].old = path[c].old
      BY <1>1, <3>1 DEF TypeOK, PathParamsMap
    <3> QED BY <1>4, <1>7, <2>1, <3>2 DEF Primary
  <2>2. CASE ~(path[c].primary = None /\ id \in Text)
    <3>1. path' = path
      BY <1>6, <2>2
    <3>2. PICK i \in MintedId : TRUE
      BY DataAssumption
    <3>3. path[c].primary = Primary(r, i)
      BY <1>4, <1>7, <2>2 DEF Primary
    <3> QED BY <1>4, <3>1, <3>2, <3>3
  <2> QED BY <2>1, <2>2
<1>10. PICK p \in ID : p = path'[c].primary
  BY <1>1 DEF TypeOK, PathParamsMap, ID
<1>11. PICK ks : /\ ks = (IF start = "replace" THEN Sent(c, r.root) ELSE Present(c, r.root))
                 /\ stack' = [stack EXCEPT ![c] = RootFrame(c, ks)]
  BY <1>6
<1>12. /\ DOMAIN stack'[c] = {1} /\ stack'[c][1].map = r.root
       /\ stack'[c][1].typed /\ stack'[c][1].left = ks
  <2>1. TypeOK /\ stack' = [stack EXCEPT ![c] = RootFrame(c, ks)]
    BY <1>1, <1>11
  <2> QED BY ONLY <1>3, <2>1, RootStart
<1>13. CASE start = "record"
  <2>1. PICK U : U = own'[c] \ {r.root}
    OBVIOUS
  <2>2. PICK B, A : B = Raw[r] /\ A = Named[r][p] /\ Like(r, B) /\ Like(r, A)
    BY Shapes
  <2>3. ks = {k \in Key : copy'[c][r.root][k] # None}
    BY <1>2, <1>4, <1>11, <1>13, PresentOwn
  <2>4. ks = {k \in Key : Raw[r][r.root][k] # None}
    BY <1>2, <1>4, <1>5, <2>3
  <2>5. Walk(c, U, B, A)'
    BY <1>1, <1>2, <1>3, <1>4, <1>5, <1>12, <2>1, <2>2, <2>3, WalkStart
  <2>6. Recorded(c, Seen(c, U))'
    BY <1>2, <1>3, <1>4, <1>9, <1>10, <1>12, <2>1, <2>4, RecordStart
  <2>7. U \in SUBSET Map
    BY <1>2, <1>4, <2>1
  <2>8. Naming(c)'
    BY <1>2, <1>3, <1>10, <2>2, <2>5, <2>6, <2>7 DEF Naming
  <2> QED BY <1>2, <1>3, <1>8, <1>9, <1>13, <2>8 DEF AnswerOf
<1>14. CASE start # "record"
  <2>1. path' = path /\ p = None /\ r.secondary = <<>>
    BY <1>4, <1>6, <1>10, <1>14 DEF start
  <2>2. \A m \in own'[c], k \in Key : copy'[c][m][k] = Renamed[r][p][m][k]
    BY <1>2, <1>4, <1>5, <2>1, NothingNamed
  <2>3. CASE start = "replace"
    <3>1. ks = {k \in Key : <<r.root, k>> \in DOMAIN r.data}
      BY <1>3, <1>11, <2>3 DEF Sent
    <3>2. Reflecting(c, {r.root})'
      BY <1>2, <1>3, <1>4, <1>10, <1>12, <2>2, <3>1, ReflectStart
    <3>3. {r.root} \in SUBSET Map
      BY <1>4
    <3> QED BY <1>2, <1>3, <1>8, <1>9, <2>3, <3>2, <3>3 DEF AnswerOf
  <2>4. CASE start = "write"
    <3>1. r.method # "POST"
      BY <1>6, <1>14, <2>4 DEF start
    <3>2. \A m \in own'[c], k \in Key : copy'[c][m][k] = Final[r][p][m][k]
      BY <1>2, <1>4, <2>2, <3>1, FinalIs
    <3>3. ks = {k \in Key : copy'[c][r.root][k] # None}
      BY <1>2, <1>4, <1>11, <2>4, PresentOwn
    <3>4. Writing(c, {r.root})'
      BY <1>2, <1>3, <1>4, <1>10, <1>12, <3>2, <3>3, WriteStart
    <3>5. {r.root} \in SUBSET Map
      BY <1>4
    <3> QED BY <1>2, <1>3, <1>8, <1>9, <2>4, <3>4, <3>5 DEF AnswerOf
  <2> QED BY <1>8, <1>14, <2>3, <2>4
<1> QED BY <1>13, <1>14

----------------------------------------------------------------------------
(* The steps of distributeReplacedIDs.                                     *)

(* The new ID for a string, when all of the tree has been recorded.        *)
LEMMA NewIDsRename ==
    ASSUME TypeOK, NEW c \in Handler, NEW r \in Request, r = req[c],
           NEW p \in ID, p = path[c].primary, own[c] = Shown[r], Recorded(c, own[c] \X Key),
           NEW v \in Text
    PROVE  /\ \A id \in NewIDs(c, v) : id = Rename(r, p, v)
           /\ NewIDs(c, v) = {} => v = Rename(r, p, v)
<1> DEFINE id0 == Raw[r][r.root][IdKey]
           stale == {i \in DOMAIN r.secondary : v \in Old[r][i]}
           first(i) == \A h \in 1..(i - 1) : v \notin path[c].old[h]
           least == CHOOSE i \in stale : \A j \in stale : i <= j
<1>1. /\ DOMAIN path[c].old = DOMAIN r.secondary
      /\ \A i \in DOMAIN r.secondary : path[c].old[i] = Old[r][i]
  BY DEF Recorded, Old
<1>2. path[c].oldPrimary = IF p # None /\ id0 \in Text THEN id0 ELSE None
  <2>1. r.root \in own[c] /\ IdKey \in Key
    BY ShownClosed, DataAssumption
  <2>2. <<r.root, IdKey>> \in own[c] \X Key
    BY <2>1
  <2> QED BY <2>2 DEF Recorded, OldPrimaryIn
<1>3. v # None /\ v \notin Map
  BY DataAssumption
<1>4. Rename(r, p, v) =
        IF v = id0 /\ p # None THEN p
        ELSE IF stale # {} THEN r.secondary[least].id ELSE v
  BY DEF Rename
<1>5. DOMAIN r.secondary = 1..Len(r.secondary) /\ Len(r.secondary) \in Nat
  BY RequestAssumption
<1>6. NewIDs(c, v) =
        IF v = path[c].oldPrimary THEN {p}
        ELSE {r.secondary[i].id : i \in {j \in DOMAIN path[c].old :
                                           v \in path[c].old[j] /\ first(j)}}
  BY DEF NewIDs
<1>7. v = path[c].oldPrimary <=> v = id0 /\ p # None
  BY <1>2, <1>3
<1>8. ASSUME NEW i \in DOMAIN r.secondary, v \in path[c].old[i], first(i) PROVE i = least
  <2>1. i \in stale
    BY <1>1, <1>8
  <2>2. \A j \in stale : i <= j
    <3> SUFFICES ASSUME NEW j \in stale, ~(i <= j) PROVE FALSE
      OBVIOUS
    <3>1. j \in 1..(i - 1) /\ v \in path[c].old[j]
      BY <1>1, <1>5
    <3> QED BY <1>8, <3>1
  <2>3. stale \subseteq Nat
    BY <1>5
  <2> HIDE DEF stale
  <2>4. least \in stale /\ \A j \in stale : least <= j
    BY <2>1, <2>2
  <2> HIDE DEF least
  <2> QED BY <2>1, <2>2, <2>3, <2>4
<1>9. NewIDs(c, v) = {} => stale = {}
  <2> SUFFICES ASSUME NewIDs(c, v) = {}, NEW i \in stale PROVE FALSE
    OBVIOUS
  <2>1. v \in path[c].old[i]
    BY <1>1
  <2>2. path[c].old[i] \in {path[c].old[j] : j \in DOMAIN path[c].old}
    BY <1>1
  <2>3. v \in Replaced(c)
    BY <2>1, <2>2 DEF Replaced
  <2> QED BY <2>3, NewIDsComplete
<1> HIDE DEF stale, first, least, id0
<1>10. ASSUME NEW id \in NewIDs(c, v) PROVE id = Rename(r, p, v)
  <2>1. CASE v = path[c].oldPrimary
    BY <1>4, <1>6, <1>7, <1>10, <2>1
  <2>2. CASE v # path[c].oldPrimary
    <3>1. PICK i \in DOMAIN path[c].old :
             id = r.secondary[i].id /\ v \in path[c].old[i] /\ first(i)
      BY <1>6, <1>10, <2>2
    <3>2. i = least
      BY <1>1, <1>8, <3>1
    <3>3. stale # {}
      BY <1>1, <3>1 DEF stale
    <3> QED BY <1>4, <1>7, <2>2, <3>1, <3>2, <3>3
  <2> QED BY <2>1, <2>2
<1>11. NewIDs(c, v) = {} => v = Rename(r, p, v)
  BY <1>4, <1>6, <1>7, <1>9
<1> QED BY <1>10, <1>11

(* A null is no ID.                                                        *)
LEMMA NullStays ==
    ASSUME TypeOK, NEW c \in Handler
    PROVE  NewIDs(c, Null) = {} /\ \A r, p : Rename(r, p, Null) = Null
<1>1. Null \notin Text \cup {None}
  BY DataAssumption
<1>2. path[c] \in PathParamsMap
  BY DEF TypeOK
<1>3. path[c].oldPrimary # Null
  BY <1>1, <1>2 DEF PathParamsMap
<1>4. \A i \in DOMAIN path[c].old : Null \notin path[c].old[i]
  <2>1. path[c].old \in Seq(SUBSET (Text \cup {None}))
    BY <1>2 DEF PathParamsMap
  <2>2. \A i \in DOMAIN path[c].old : path[c].old[i] \in SUBSET (Text \cup {None})
    BY <2>1
  <2> QED BY <1>1, <2>2
<1>5. NewIDs(c, Null) = {}
  BY <1>3, <1>4 DEF NewIDs
<1>6. \A r, p : Rename(r, p, Null) = Null
  BY <1>1 DEF Rename
<1> QED BY <1>5, <1>6

(* What the distribute pass does at one key, if nothing is shared.         *)
DistributedAt(c, m, k, v) ==
    \/ v \in Map /\ Entered(c, k, v, Present(c, v)) /\ copy'[c] = copy[c]
    \/ v \notin Map /\ Visited(c, k) /\ \E id \in NewIDs(c, v) : Becomes(c, m, k, id)
    \/ v \notin Map /\ Visited(c, k) /\ NewIDs(c, v) = {} /\ Becomes(c, m, k, v)

(* A step of the distribute pass visits one key.                           *)
LEMMA DistributeVisit ==
    ASSUME Exposed = {}, IInv, NEW c \in Handler, DistributeReplacedIDs(c)
    PROVE  \E m \in own[c], k \in Key :
              /\ m = Top(c).map /\ k \in Top(c).left /\ m \in Map
              /\ copy[c][m][k] \in Value
              /\ copy[c][m][k] \in Map => copy[c][m][k] \in own[c]
              /\ DistributedAt(c, m, k, copy[c][m][k])
<1>1. TypeOK /\ StoreIsolated /\ MapsIsolated(c) /\ StackIsolated(c)
  BY DEF IInv, HandlerIsolated
<1>2. pc[c] = "distribute" /\ stack[c] # <<>> /\ own' = own
  BY DEF DistributeReplacedIDs
<1>3. PICK k \in Top(c).left :
        \/ /\ Read(c, Top(c).map, k) \in Map
           /\ Entered(c, k, Read(c, Top(c).map, k), Present(c, Read(c, Top(c).map, k)))
           /\ UNCHANGED <<store, copy>>
        \/ /\ Read(c, Top(c).map, k) \notin Map
           /\ \E id \in NewIDs(c, Read(c, Top(c).map, k)) : Put(c, Top(c).map, k, id)
           /\ Visited(c, k)
        \/ /\ Read(c, Top(c).map, k) \notin Map /\ NewIDs(c, Read(c, Top(c).map, k)) = {}
           /\ Visited(c, k)
           /\ UNCHANGED <<store, copy>>
  BY DEF DistributeReplacedIDs
<1>4. /\ Top(c).map \in own[c] /\ Top(c).map \in Map /\ k \in Key
      /\ Read(c, Top(c).map, k) = copy[c][Top(c).map][k]
      /\ copy[c][Top(c).map][k] \in Value
      /\ copy[c][Top(c).map][k] \in Map => copy[c][Top(c).map][k] \in own[c]
  BY <1>2, OwnTop
<1>5. PICK m, v :
        /\ m \in own[c] /\ m = Top(c).map
        /\ v = Read(c, m, k) /\ v = copy[c][m][k]
  BY <1>4
<1>6. ASSUME NEW x, x \notin Map, Put(c, m, k, x) PROVE Becomes(c, m, k, x)
  BY <1>1, <1>2, <1>4, <1>5, <1>6, PutReads DEF Becomes
<1>7. \A id \in NewIDs(c, v) : id \notin Map
  BY <1>1, NewIDGiven
<1>8. copy' = copy => Becomes(c, m, k, v)
  BY <1>5 DEF Becomes
<1>9. DistributedAt(c, m, k, v)
  <2>1. CASE v \in Map /\ Entered(c, k, v, Present(c, v)) /\ UNCHANGED <<store, copy>>
    BY <2>1 DEF DistributedAt
  <2>2. CASE v \notin Map /\ Visited(c, k) /\ \E id \in NewIDs(c, v) : Put(c, m, k, id)
    <3>1. PICK id \in NewIDs(c, v) : Put(c, m, k, id)
      BY <2>2
    <3>2. Becomes(c, m, k, id)
      BY <1>6, <1>7, <3>1
    <3> QED BY <2>2, <3>2 DEF DistributedAt
  <2>3. CASE v \notin Map /\ NewIDs(c, v) = {} /\ Visited(c, k) /\ UNCHANGED <<store, copy>>
    BY <1>8, <2>3 DEF DistributedAt
  <2> QED BY <1>3, <1>5, <2>1, <2>2, <2>3
<1> QED BY <1>3, <1>4, <1>5, <1>9

(* One step of the distribute pass.                                        *)
LEMMA DistributeAnswer ==
    ASSUME Exposed = {}, ResponsesAreTrees, IInv, NEW c \in Handler, AnswerOf(c),
           DistributeReplacedIDs(c)
    PROVE  AnswerOf(c)'
<1>1. TypeOK
  BY DEF IInv
<1>2. /\ pc[c] = "distribute" /\ stack[c] # <<>>
      /\ own' = own /\ pc' = pc /\ req' = req /\ path' = path
  BY DEF DistributeReplacedIDs
<1>3. PICK r \in Request : r = req[c]
  BY <1>1 DEF TypeOK
<1>4. PICK p \in ID : p = path[c].primary
  BY <1>1 DEF TypeOK, PathParamsMap, ID
<1>5. PICK B, A : B = Named[r][p] /\ A = Renamed[r][p] /\ Like(r, B) /\ Like(r, A)
  BY Shapes
<1>6. Recorded(c, own[c] \X Key)
  BY <1>2 DEF AnswerOf, Renaming
<1>7. PICK U \in SUBSET Map : Walk(c, U, B, A)
  BY <1>2, <1>3, <1>4, <1>5 DEF AnswerOf, Renaming
<1>8. PICK m, k, v :
        /\ m \in own[c] /\ k \in Key
        /\ m = Top(c).map /\ k \in Top(c).left /\ m \in Map
        /\ v = copy[c][m][k] /\ v \in Value /\ (v \in Map => v \in own[c])
        /\ DistributedAt(c, m, k, v)
  BY DistributeVisit
<1>9. v = B[m][k] /\ v # None
  BY <1>1, <1>2, <1>7, <1>8, WalkTop
<1>10. own[c] = Shown[r]
  BY <1>3, <1>7 DEF Walk
<1>11. ASSUME NEW W \in SUBSET Map, Walk(c, W, B, A)' PROVE AnswerOf(c)'
  <2>1. PICK seen : seen = own[c] \X Key
    OBVIOUS
  <2>2. Recorded(c, seen)'
    BY <1>2, <1>6, <2>1 DEF Recorded, OldPrimaryIn
  <2>3. Renaming(c)'
    BY <1>2, <1>3, <1>4, <1>5, <1>11, <2>1, <2>2 DEF Renaming
  <2> QED BY <1>2, <2>3 DEF AnswerOf
<1>12. CASE v \in Map
  <2>1. Entered(c, k, v, Present(c, v)) /\ copy'[c] = copy[c]
    BY <1>8, <1>12 DEF DistributedAt
  <2>2. PICK ks \in SUBSET Key : ks = Present(c, v) /\ ks = {j \in Key : copy[c][v][j] # None}
    BY <1>8, <1>12, PresentOwn
  <2>3. Walk(c, U \ {v}, B, A)'
    <3>1. /\ Exposed = {} /\ ResponsesAreTrees /\ TypeOK /\ c \in Handler /\ U \in SUBSET Map
          /\ Walk(c, U, B, A) /\ Like(req[c], B) /\ Like(req[c], A) /\ stack[c] # <<>>
          /\ m = Top(c).map /\ k \in Top(c).left /\ k \in Key /\ v \in Map /\ v = B[m][k]
          /\ ks \in SUBSET Key /\ ks = {j \in Key : copy[c][v][j] # None}
          /\ Entered(c, k, v, ks) /\ own'[c] = own[c] /\ req'[c] = req[c]
          /\ copy'[c] = copy[c]
      BY <1>1, <1>2, <1>3, <1>5, <1>7, <1>8, <1>9, <1>12, <2>1, <2>2
    <3> QED BY ONLY <3>1, WalkEntered, Zenon
  <2>4. U \ {v} \in SUBSET Map
    OBVIOUS
  <2> QED BY <1>11, <2>3, <2>4
<1>13. CASE v \notin Map
  <2>1. v \in Text \/ v = Null
    BY <1>8, <1>9, <1>13 DEF Value
  <2>2. A[m][k] = Rename(r, p, v)
    BY <1>5, <1>8, <1>9 DEF Renamed
  <2>3. /\ \A id \in NewIDs(c, v) : id = Rename(r, p, v)
        /\ NewIDs(c, v) = {} => v = Rename(r, p, v)
    <3>1. CASE v \in Text
      BY <1>1, <1>3, <1>4, <1>6, <1>10, <3>1, NewIDsRename
    <3>2. CASE v = Null
      BY <1>1, <3>2, NullStays
    <3> QED BY <2>1, <3>1, <3>2
  <2>4. Visited(c, k) /\ Becomes(c, m, k, A[m][k])
    BY <1>8, <1>13, <2>2, <2>3 DEF DistributedAt
  <2>5. Walk(c, U, B, A)'
    <3>1. /\ TypeOK /\ c \in Handler /\ U \in SUBSET Map /\ Walk(c, U, B, A)
          /\ stack[c] # <<>> /\ m = Top(c).map /\ k \in Top(c).left /\ k \in Key
          /\ B[m][k] \notin Map /\ Visited(c, k) /\ own'[c] = own[c] /\ req'[c] = req[c]
          /\ Becomes(c, m, k, A[m][k])
      BY <1>1, <1>2, <1>7, <1>8, <1>9, <1>13, <2>4
    <3> QED BY ONLY <3>1, WalkVisited, Zenon
  <2> QED BY <1>11, <2>5
<1> QED BY <1>12, <1>13

----------------------------------------------------------------------------
(* The steps of ReplaceData.                                               *)

(* What is due when a loop has gone on by one key...                       *)
LEMMA VisitedDue ==
    ASSUME TypeOK, NEW c \in Handler, NEW k, stack[c] # <<>>, Visited(c, k)
    PROVE  /\ \A n, j : Due(c, n, j) /\ ~(Top(c).typed /\ n = Top(c).map /\ j = k) =>
                           Due(c, n, j)'
           /\ \A i \in DOMAIN stack'[c] : /\ i \in DOMAIN stack[c]
                                          /\ stack'[c][i].map = stack[c][i].map
                                          /\ stack'[c][i].typed = stack[c][i].typed
<1>1. stack \in [Handler -> Seq(Frame)]
  BY DEF TypeOK
<1>2. /\ DOMAIN stack'[c] = DOMAIN stack[c]
      /\ Len(stack[c]) \in DOMAIN stack[c]
      /\ \A i \in DOMAIN stack[c] :
            /\ stack'[c][i].map = stack[c][i].map
            /\ stack'[c][i].typed = stack[c][i].typed
            /\ stack'[c][i].left = IF i = Len(stack[c]) THEN stack[c][i].left \ {k}
                                   ELSE stack[c][i].left
  BY <1>1, VisitedLeft
<1>3. ASSUME NEW n, NEW j, Due(c, n, j), ~(Top(c).typed /\ n = Top(c).map /\ j = k)
      PROVE  Due(c, n, j)'
  <2>1. PICK i \in DOMAIN stack[c] :
           stack[c][i].typed /\ stack[c][i].map = n /\ j \in stack[c][i].left
    BY <1>3 DEF Due
  <2>2. j \in stack'[c][i].left
    BY <1>2, <1>3, <2>1 DEF Top
  <2> QED BY <1>2, <2>1, <2>2 DEF Due
<1> QED BY <1>2, <1>3

(* ... and when it has recursed.                                           *)
LEMMA EnteredDue ==
    ASSUME TypeOK, NEW c \in Handler, NEW k \in Key, NEW v \in Map, NEW ks \in SUBSET Key,
           stack[c] # <<>>, Entered(c, k, v, ks)
    PROVE  /\ \A n, j : Due(c, n, j) /\ ~(Top(c).typed /\ n = Top(c).map /\ j = k) =>
                           Due(c, n, j)'
           /\ Top(c).typed /\ Kind[Top(c).map][k] = "object" => \A j \in ks : Due(c, v, j)'
           /\ \A i \in DOMAIN stack'[c] :
                 \/ /\ i \in DOMAIN stack[c]
                    /\ stack'[c][i].map = stack[c][i].map
                    /\ stack'[c][i].typed = stack[c][i].typed
                 \/ /\ stack'[c][i].map = v
                    /\ stack'[c][i].typed = (Top(c).typed /\ Kind[Top(c).map][k] = "object")
<1>1. stack \in [Handler -> Seq(Frame)]
  BY DEF TypeOK
<1>2. PICK N, typed : /\ N = Len(stack[c]) + 1
                      /\ typed = (Top(c).typed /\ Kind[Top(c).map][k] = "object")
  OBVIOUS
<1>3. /\ DOMAIN stack'[c] = DOMAIN stack[c] \cup {N}
      /\ \A i \in DOMAIN stack[c] :
            /\ stack'[c][i].map = stack[c][i].map
            /\ stack'[c][i].typed = stack[c][i].typed
            /\ stack'[c][i].left = IF i = Len(stack[c]) THEN stack[c][i].left \ {k}
                                   ELSE stack[c][i].left
      /\ stack'[c][N].map = v /\ stack'[c][N].left = ks /\ stack'[c][N].typed = typed
  <2>1. /\ DOMAIN stack'[c] = DOMAIN stack[c] \cup {Len(stack[c]) + 1}
        /\ Len(stack[c]) \in DOMAIN stack[c] /\ Len(stack[c]) + 1 \notin DOMAIN stack[c]
        /\ \A i \in DOMAIN stack[c] :
              /\ stack'[c][i].map = stack[c][i].map
              /\ stack'[c][i].key = stack[c][i].key
              /\ stack'[c][i].typed = stack[c][i].typed
              /\ stack'[c][i].left = IF i = Len(stack[c]) THEN stack[c][i].left \ {k}
                                     ELSE stack[c][i].left
        /\ stack'[c][Len(stack[c]) + 1].map = v
        /\ stack'[c][Len(stack[c]) + 1].key =
              (IF Kind[Top(c).map][k] \in {"list", "array"} THEN None ELSE k)
        /\ stack'[c][Len(stack[c]) + 1].typed =
              (Top(c).typed /\ Kind[Top(c).map][k] = "object")
        /\ stack'[c][Len(stack[c]) + 1].left = ks
        /\ \A d \in Handler \ {c} : stack'[d] = stack[d]
    <3>1. /\ stack \in [Handler -> Seq(Frame)] /\ Entered(c, k, v, ks)
          /\ c \in Handler /\ k \in Key /\ v \in Map /\ ks \in SUBSET Key /\ stack[c] # <<>>
      BY <1>1
    <3> QED BY ONLY <3>1, EnteredFrame, Zenon
  <2> QED BY ONLY <1>2, <2>1, Zenon
<1>4. ASSUME NEW n, NEW j, Due(c, n, j), ~(Top(c).typed /\ n = Top(c).map /\ j = k)
      PROVE  Due(c, n, j)'
  <2>1. PICK i \in DOMAIN stack[c] :
           stack[c][i].typed /\ stack[c][i].map = n /\ j \in stack[c][i].left
    BY <1>4 DEF Due
  <2>2. j \in stack'[c][i].left
    BY <1>3, <1>4, <2>1 DEF Top
  <2> QED BY <1>3, <2>1, <2>2 DEF Due
<1>5. typed => \A j \in ks : Due(c, v, j)'
  <2>1. N \in DOMAIN stack'[c]
    BY <1>3
  <2> QED BY <1>3, <2>1 DEF Due
<1> QED BY <1>2, <1>3, <1>4, <1>5

(* What ReplaceData does at one key, if nothing is shared.                 *)
ReflectedAt(c, m, k, v) ==
    \/ /\ v # None /\ Recurses(c, m, k) /\ v \in Map
       /\ Entered(c, k, v, Sent(c, v)) /\ Becomes(c, m, k, v)
    \/ /\ v # None /\ IsSameType(c, Top(c), k)
       /\ Visited(c, k) /\ Becomes(c, m, k, req[c].data[<<m, k>>])
    \/ /\ v = None \/ ~(Recurses(c, m, k) \/ IsSameType(c, Top(c), k))
       /\ Visited(c, k) /\ Becomes(c, m, k, v)

(* A step of ReplaceData visits one key of the request data.               *)
LEMMA ReplaceVisit ==
    ASSUME Exposed = {}, IInv, NEW c \in Handler, ReplaceData(c)
    PROVE  \E m \in own[c], k \in Key :
              /\ m = Top(c).map /\ k \in Top(c).left /\ m \in Map
              /\ Read(c, m, k) = copy[c][m][k]
              /\ <<m, k>> \in DOMAIN req[c].data
              /\ ReflectedAt(c, m, k, copy[c][m][k])
<1>1. TypeOK /\ StoreIsolated /\ MapsIsolated(c) /\ StackIsolated(c)
  BY DEF IInv, HandlerIsolated
<1>2. pc[c] = "replace" /\ stack[c] # <<>> /\ own' = own
  BY DEF ReplaceData
<1>3. PICK k \in Top(c).left :
        \/ /\ Read(c, Top(c).map, k) # None /\ Recurses(c, Top(c).map, k)
           /\ Put(c, Top(c).map, k, Read(c, Top(c).map, k))
           /\ Entered(c, k, Read(c, Top(c).map, k), Sent(c, Read(c, Top(c).map, k)))
        \/ /\ Read(c, Top(c).map, k) # None /\ IsSameType(c, Top(c), k)
           /\ Put(c, Top(c).map, k, req[c].data[<<Top(c).map, k>>])
           /\ Visited(c, k)
        \/ /\ \/ Read(c, Top(c).map, k) = None
              \/ ~(Recurses(c, Top(c).map, k) \/ IsSameType(c, Top(c), k))
           /\ Visited(c, k)
           /\ UNCHANGED <<store, copy>>
  BY DEF ReplaceData
<1>4. /\ Top(c).map \in own[c] /\ Top(c).map \in Map /\ k \in Key
      /\ Read(c, Top(c).map, k) = copy[c][Top(c).map][k]
  BY <1>2, OwnTop
<1>5. PICK m, v :
        /\ m \in own[c] /\ m = Top(c).map
        /\ v = Read(c, m, k) /\ v = copy[c][m][k]
  BY <1>4
<1>6. ASSUME NEW x, x \notin Map \/ x = v, Put(c, m, k, x) PROVE Becomes(c, m, k, x)
  BY <1>1, <1>2, <1>4, <1>5, <1>6, PutReads DEF Becomes
<1>7. copy' = copy => Becomes(c, m, k, v)
  BY <1>5 DEF Becomes
<1>8. <<m, k>> \in DOMAIN req[c].data
  <2>1. FrameIsolated(c, Top(c))
    BY <1>1, <1>2, TopIsolated
  <2> QED BY <1>2, <1>5, <2>1 DEF FrameIsolated, Sent
<1>9. ReflectedAt(c, m, k, v)
  <2>1. CASE /\ v # None /\ Recurses(c, m, k) /\ Put(c, m, k, v)
             /\ Entered(c, k, v, Sent(c, v))
    <3>1. v \in Map
      BY <1>5, <2>1 DEF Recurses
    <3> QED BY <1>6, <2>1, <3>1 DEF ReflectedAt
  <2>2. CASE /\ v # None /\ IsSameType(c, Top(c), k) /\ Visited(c, k)
             /\ Put(c, m, k, req[c].data[<<m, k>>])
    <3>1. req[c].data[<<m, k>>] \notin Map
      BY <1>1, <1>2, <1>5, <2>2, SentString
    <3>2. Becomes(c, m, k, req[c].data[<<m, k>>])
      BY <1>6, <2>2, <3>1
    <3> QED BY <2>2, <3>2 DEF ReflectedAt
  <2>3. CASE /\ v = None \/ ~(Recurses(c, m, k) \/ IsSameType(c, Top(c), k))
             /\ Visited(c, k) /\ UNCHANGED <<store, copy>>
    BY <1>7, <2>3 DEF ReflectedAt
  <2> QED BY <1>3, <1>5, <2>1, <2>2, <2>3
<1> QED BY <1>3, <1>4, <1>5, <1>8, <1>9

(* One step of ReplaceData.                                                *)
LEMMA ReplaceAnswer ==
    ASSUME Exposed = {}, IInv, NEW c \in Handler, AnswerOf(c), SearchComplete(c),
           ReplaceData(c)
    PROVE  AnswerOf(c)'
<1>1. TypeOK
  BY DEF IInv
<1>2. /\ pc[c] = "replace" /\ stack[c] # <<>>
      /\ own' = own /\ pc' = pc /\ req' = req /\ path' = path
  BY DEF ReplaceData
<1>3. PICK r \in Request : r = req[c]
  BY <1>1 DEF TypeOK
<1>4. PICK p \in ID : p = path[c].primary
  BY <1>1 DEF TypeOK, PathParamsMap, ID
<1>5. PICK N, F : N = Renamed[r][p] /\ F = Final[r][p]
  OBVIOUS
<1>6. PICK T \in SUBSET Map : Reflecting(c, T)
  BY <1>2 DEF AnswerOf
<1>7. /\ own[c] = Shown[r] /\ r.root \in T /\ T \subseteq Asked[r]
      /\ \A i \in DOMAIN stack[c] : stack[c][i].typed => stack[c][i].map \in T
      /\ \A n \in own[c], j \in Key : copy[c][n][j] \in {N[n][j], F[n][j]}
      /\ \A n \in T, j \in Key :
            \/ Due(c, n, j)
            \/ /\ copy[c][n][j] = F[n][j]
               /\ Nests(r, n, j) /\ Raw[r][n][j] \in Map => Raw[r][n][j] \in T
  BY <1>3, <1>4, <1>5, <1>6 DEF Reflecting
<1>8. PICK m, k, v :
        /\ m \in own[c] /\ k \in Key
        /\ m = Top(c).map /\ k \in Top(c).left /\ m \in Map
        /\ v = copy[c][m][k] /\ v = Read(c, m, k)
        /\ <<m, k>> \in DOMAIN r.data /\ ReflectedAt(c, m, k, v)
  BY <1>3, ReplaceVisit
<1>9. own[c] \subseteq Map /\ Asked[r] \subseteq own[c] /\ T \subseteq own[c]
  BY <1>7, ShownClosed, AskedClosed
<1>10. Reflects(r, m, k)
  BY <1>2, <1>3, <1>8 DEF Reflects, SearchComplete
<1>11. Top(c).typed => m \in T
  <2>1. Len(stack[c]) \in DOMAIN stack[c] /\ Top(c) = stack[c][Len(stack[c])]
    BY <1>1, <1>2, TopOfStack
  <2> QED BY <1>7, <1>8, <2>1
<1>12. v \in {N[m][k], F[m][k]}
  BY <1>7, <1>8
<1>13. \A n \in Map, j \in Key :
          F[n][j] = IF /\ n \in Asked[r] /\ Reflects(r, n, j) /\ r.data[<<n, j>>] \in Text
                       /\ Kind[n][j] \in {"string", "expandable"} /\ N[n][j] # None
                    THEN r.data[<<n, j>>] ELSE N[n][j]
  BY <1>5 DEF Final
<1>14. /\ r.data[<<m, k>>] \in Text \cup {Nested} /\ Nested \notin Text
       /\ N[m][k] = None <=> F[m][k] = None
       /\ N[m][k] \in Map => Raw[r][m][k] = N[m][k]
       /\ Raw[r][m][k] \in Map => N[m][k] = Raw[r][m][k]
  <2>1. r.data[<<m, k>>] \in Text \cup {Nested} /\ Nested \notin Text
    BY <1>8, RequestAssumption, DataAssumption
  <2>2. \A t \in Text : t # None /\ t \notin Map
    BY DataAssumption
  <2>3. /\ Raw[r][m][k] \notin Text => N[m][k] = Raw[r][m][k]
        /\ Raw[r][m][k] \in Text => N[m][k] \in Text
    BY <1>5, <1>8, RenamedIs
  <2>4. F[m][k] = None <=> Raw[r][m][k] = None
    BY <1>5, <1>8, FinalIs
  <2> QED BY <2>1, <2>2, <2>3, <2>4
<1>15. ASSUME NEW W \in SUBSET Map, r.root \in W, W \subseteq Asked[r],
              \A i \in DOMAIN stack'[c] : stack'[c][i].typed => stack'[c][i].map \in W,
              \A n \in own[c], j \in Key : copy'[c][n][j] \in {N[n][j], F[n][j]},
              \A n \in W, j \in Key :
                 \/ Due(c, n, j)'
                 \/ /\ copy'[c][n][j] = F[n][j]
                    /\ Nests(r, n, j) /\ Raw[r][n][j] \in Map => Raw[r][n][j] \in W
       PROVE  AnswerOf(c)'
  <2>1. Reflecting(c, W)'
    BY <1>2, <1>3, <1>4, <1>5, <1>7, <1>15, ZenonT(40) DEF Reflecting
  <2> QED BY <1>2, <2>1 DEF AnswerOf
<1>16. ASSUME NEW x, Visited(c, k), Becomes(c, m, k, x), x \in {N[m][k], F[m][k]},
              IF Top(c).typed THEN x = F[m][k] /\ ~(Nests(r, m, k) /\ Raw[r][m][k] \in Map)
              ELSE x = v
       PROVE  AnswerOf(c)'
  <2>1. /\ \A n, j : Due(c, n, j) /\ ~(Top(c).typed /\ n = Top(c).map /\ j = k) =>
                        Due(c, n, j)'
        /\ \A i \in DOMAIN stack'[c] : /\ i \in DOMAIN stack[c]
                                       /\ stack'[c][i].map = stack[c][i].map
                                       /\ stack'[c][i].typed = stack[c][i].typed
    BY <1>1, <1>2, <1>16, VisitedDue
  <2>2. \A n \in own[c], j \in Key : copy'[c][n][j] = IF n = m /\ j = k THEN x ELSE copy[c][n][j]
    BY <1>9, <1>16 DEF Becomes
  <2>3. \A n \in own[c], j \in Key : copy'[c][n][j] \in {N[n][j], F[n][j]}
    BY <1>7, <1>16, <2>2
  <2>4. ASSUME NEW n \in T, NEW j \in Key
        PROVE  \/ Due(c, n, j)'
               \/ /\ copy'[c][n][j] = F[n][j]
                  /\ Nests(r, n, j) /\ Raw[r][n][j] \in Map => Raw[r][n][j] \in T
    <3>1. CASE n = m /\ j = k /\ Top(c).typed
      BY <1>9, <1>16, <2>2, <3>1
    <3>2. CASE ~(n = m /\ j = k /\ Top(c).typed) /\ Due(c, n, j)
      BY <1>8, <2>1, <3>2
    <3>3. CASE ~(n = m /\ j = k /\ Top(c).typed) /\ ~Due(c, n, j)
      <4>1. /\ copy[c][n][j] = F[n][j]
            /\ Nests(r, n, j) /\ Raw[r][n][j] \in Map => Raw[r][n][j] \in T
        BY <1>7, <3>3
      <4>2. n = m /\ j = k => x = F[m][k]
        BY <1>8, <1>16, <3>3, <4>1
      <4> QED BY <1>9, <2>2, <4>1, <4>2
    <3> QED BY <3>1, <3>2, <3>3
  <2>5. \A i \in DOMAIN stack'[c] : stack'[c][i].typed => stack'[c][i].map \in T
    BY <1>7, <2>1
  <2> QED BY <1>7, <1>15, <2>3, <2>4, <2>5
<1>17. CASE v # None /\ IsSameType(c, Top(c), k)
  <2>1. Top(c).typed /\ Kind[m][k] \in {"string", "expandable"} /\ r.data[<<m, k>>] # Nested
    BY <1>3, <1>8, <1>17 DEF IsSameType
  <2>2. Visited(c, k) /\ Becomes(c, m, k, r.data[<<m, k>>])
    BY <1>3, <1>8, <1>17, <2>1 DEF ReflectedAt, Recurses
  <2>3. F[m][k] = r.data[<<m, k>>]
    BY <1>7, <1>8, <1>10, <1>11, <1>12, <1>13, <1>14, <1>17, <2>1
  <2>4. ~Nests(r, m, k)
    BY <2>1 DEF Nests
  <2> QED BY <1>16, <2>1, <2>2, <2>3, <2>4
<1>18. CASE v = None \/ ~(Recurses(c, m, k) \/ IsSameType(c, Top(c), k))
  <2>1. Visited(c, k) /\ Becomes(c, m, k, v)
    BY <1>8, <1>18 DEF ReflectedAt
  <2>2. Top(c).typed => v = F[m][k] /\ ~(Nests(r, m, k) /\ Raw[r][m][k] \in Map)
    <3>1. CASE v = None
      BY <1>12, <1>14, <3>1, DataAssumption
    <3>2. CASE v # None /\ r.data[<<m, k>>] = Nested
      <4>1. v = F[m][k] /\ v = N[m][k]
        BY <1>8, <1>12, <1>13, <1>14, <3>2
      <4>2. v \in Map => Kind[m][k] \in {"list", "array"}
        BY <1>3, <1>8, <1>18, <3>2 DEF Recurses
      <4> QED BY <1>14, <4>1, <4>2 DEF Nests
    <3>3. CASE v # None /\ r.data[<<m, k>>] # Nested
      <4>1. Top(c).typed => Kind[m][k] \notin {"string", "expandable"}
        BY <1>3, <1>8, <1>18, <3>3 DEF IsSameType
      <4> QED BY <1>8, <1>12, <1>13, <3>3, <4>1 DEF Nests
    <3> QED BY <3>1, <3>2, <3>3
  <2> QED BY <1>12, <1>16, <2>1, <2>2
<1>19. CASE v # None /\ Recurses(c, m, k)
  <2>1. r.data[<<m, k>>] = Nested /\ v \in Map
    BY <1>3, <1>8, <1>19 DEF Recurses
  <2>2. v = F[m][k] /\ v = N[m][k] /\ Raw[r][m][k] = v
    BY <1>8, <1>12, <1>13, <1>14, <2>1
  <2>3. Entered(c, k, v, Sent(c, v)) /\ Becomes(c, m, k, v)
    BY <1>8, <1>19, <2>1 DEF ReflectedAt, IsSameType, Recurses
  <2>4. PICK ks \in SUBSET Key : ks = Sent(c, v) /\ ks = {j \in Key : <<v, j>> \in DOMAIN r.data}
    BY <1>3 DEF Sent
  <2>5. PICK typed \in BOOLEAN : typed = (Top(c).typed /\ Kind[m][k] = "object")
    OBVIOUS
  <2>6. /\ \A n, j : Due(c, n, j) /\ ~(Top(c).typed /\ n = m /\ j = k) => Due(c, n, j)'
        /\ typed => \A j \in ks : Due(c, v, j)'
        /\ \A i \in DOMAIN stack'[c] :
              \/ /\ i \in DOMAIN stack[c]
                 /\ stack'[c][i].map = stack[c][i].map
                 /\ stack'[c][i].typed = stack[c][i].typed
              \/ stack'[c][i].map = v /\ stack'[c][i].typed = typed
    <3>1. /\ TypeOK /\ c \in Handler /\ k \in Key /\ v \in Map /\ ks \in SUBSET Key
          /\ stack[c] # <<>> /\ Entered(c, k, v, ks)
      BY <1>1, <1>2, <1>8, <2>1, <2>3, <2>4
    <3>2. /\ \A n, j : Due(c, n, j) /\ ~(Top(c).typed /\ n = Top(c).map /\ j = k) =>
                           Due(c, n, j)'
          /\ Top(c).typed /\ Kind[Top(c).map][k] = "object" => \A j \in ks : Due(c, v, j)'
          /\ \A i \in DOMAIN stack'[c] :
                \/ /\ i \in DOMAIN stack[c]
                   /\ stack'[c][i].map = stack[c][i].map
                   /\ stack'[c][i].typed = stack[c][i].typed
                \/ /\ stack'[c][i].map = v
                   /\ stack'[c][i].typed = (Top(c).typed /\ Kind[Top(c).map][k] = "object")
      BY ONLY <3>1, EnteredDue, Zenon
    <3> QED BY <1>8, <2>5, <3>2
  <2>7. \A n \in own[c], j \in Key : copy'[c][n][j] = copy[c][n][j]
    BY <1>8, <1>9, <2>3 DEF Becomes
  <2>8. typed => Nests(r, m, k) /\ v \in Asked[r]
    <3>1. typed => Nests(r, m, k) /\ m \in Asked[r]
      BY <1>7, <1>10, <1>11, <2>1, <2>5 DEF Nests
    <3> QED BY <1>8, <2>1, <2>2, <3>1, AskedClosed
  <2>9. PICK W \in SUBSET Map : W = IF typed THEN T \cup {v} ELSE T
    BY <2>1
  <2>10. r.root \in W /\ W \subseteq Asked[r] /\ T \subseteq W /\ (typed => v \in W)
    BY <1>7, <2>8, <2>9
  <2>11. \A i \in DOMAIN stack'[c] : stack'[c][i].typed => stack'[c][i].map \in W
    BY <1>7, <2>6, <2>10
  <2>12. \A n \in own[c], j \in Key : copy'[c][n][j] \in {N[n][j], F[n][j]}
    BY <1>7, <2>7
  <2>13. ASSUME NEW n \in W, NEW j \in Key
         PROVE  \/ Due(c, n, j)'
                \/ /\ copy'[c][n][j] = F[n][j]
                   /\ Nests(r, n, j) /\ Raw[r][n][j] \in Map => Raw[r][n][j] \in W
    <3>1. n \in own[c] /\ n \in Map
      BY <1>9, <2>10
    <3>2. CASE n = v /\ typed
      <4>1. CASE j \in ks
        BY <2>6, <3>2, <4>1
      <4>2. CASE j \notin ks
        <5>1. ~Reflects(r, n, j)
          BY <2>4, <3>2, <4>2 DEF Reflects
        <5>2. F[n][j] = N[n][j]
          BY <1>13, <3>1, <5>1
        <5> QED BY <2>12, <3>1, <5>1, <5>2 DEF Nests
      <4> QED BY <4>1, <4>2
    <3>3. CASE n = m /\ j = k /\ Top(c).typed
      <4>1. copy'[c][n][j] = F[n][j]
        BY <1>8, <2>2, <2>7, <3>3
      <4>2. Nests(r, n, j) => typed
        BY <2>5, <3>3 DEF Nests
      <4> QED BY <2>2, <2>10, <3>3, <4>1, <4>2
    <3>4. CASE ~(n = v /\ typed) /\ ~(n = m /\ j = k /\ Top(c).typed)
      <4>1. n \in T
        BY <2>9, <3>4
      <4>2. CASE Due(c, n, j)
        BY <2>6, <3>4, <4>2
      <4>3. CASE ~Due(c, n, j)
        BY <1>7, <2>7, <2>10, <3>1, <4>1, <4>3
      <4> QED BY <4>2, <4>3
    <3> QED BY <3>2, <3>3, <3>4
  <2> QED BY <1>15, <2>10, <2>11, <2>12, <2>13
<1> QED BY <1>17, <1>18, <1>19

----------------------------------------------------------------------------
(* The steps of writeResponse, and returns.                                *)

(* One step of writeResponse.                                              *)
LEMMA WriteAnswer ==
    ASSUME Exposed = {}, IInv, NEW c \in Handler, AnswerOf(c), WriteResponse(c)
    PROVE  AnswerOf(c)'
<1>1. TypeOK
  BY DEF IInv
<1>2. /\ pc[c] = "write" /\ stack[c] # <<>> /\ own' = own /\ pc' = pc /\ req' = req
      /\ path' = path /\ copy' = copy
  BY DEF WriteResponse
<1>3. PICK r \in Request : r = req[c]
  BY <1>1 DEF TypeOK
<1>4. PICK p \in ID : p = path[c].primary
  BY <1>1 DEF TypeOK, PathParamsMap, ID
<1>5. PICK F, L : F = Final[r][p] /\ L = Left[r][p]
  OBVIOUS
<1>6. PICK V \in SUBSET Map : Writing(c, V)
  BY <1>2 DEF AnswerOf
<1>7. /\ own[c] = Shown[r] /\ r.root \in V /\ V \subseteq L
      /\ \A i \in DOMAIN stack[c] : stack[c][i].map \in V
      /\ \A n \in own[c], j \in Key : copy[c][n][j] = F[n][j]
      /\ \A n \in Map, j \in Key : body[c][n][j] # None => n \in V /\ body[c][n][j] = F[n][j]
      /\ \A n \in V, j \in Key :
            Unvisited(c, n, j) \/ (body[c][n][j] = F[n][j] /\ (F[n][j] \in Map => F[n][j] \in V))
  BY <1>3, <1>4, <1>5, <1>6 DEF Writing
<1>8. PICK k, m, v :
        /\ k \in Top(c).left
        /\ m = Top(c).map /\ v = Read(c, m, k)
        /\ body' = [body EXCEPT ![c][m][k] = v]
        /\ IF v \in Map THEN Entered(c, k, v, Present(c, v)) ELSE Visited(c, k)
  BY DEF WriteResponse
<1>9. m \in own[c] /\ m \in Map /\ k \in Key /\ v = F[m][k] /\ (v \in Map => v \in own[c])
  <2>1. /\ Top(c).map \in own[c] /\ Top(c).map \in Map /\ k \in Key
        /\ Read(c, Top(c).map, k) = copy[c][Top(c).map][k]
        /\ copy[c][Top(c).map][k] \in Map => copy[c][Top(c).map][k] \in own[c]
    BY <1>2, <1>8, OwnTop
  <2> QED BY <1>7, <1>8, <2>1
<1>10. m \in V
  <2>1. Len(stack[c]) \in DOMAIN stack[c] /\ Top(c) = stack[c][Len(stack[c])]
    BY <1>1, <1>2, TopOfStack
  <2> QED BY <1>7, <1>8, <2>1
<1>11. L \subseteq own[c] /\ \A n \in L, j \in Key : F[n][j] \in Map => F[n][j] \in L
  BY <1>5, <1>7, LeftClosed
<1>12. \A n \in Map, j \in Key : body'[c][n][j] = IF n = m /\ j = k THEN v ELSE body[c][n][j]
  BY <1>1, <1>8, <1>9 DEF TypeOK
<1>13. ASSUME NEW W \in SUBSET Map, V \subseteq W, W \subseteq L,
              \A i \in DOMAIN stack'[c] : stack'[c][i].map \in W,
              \A n \in W, j \in Key :
                 \/ Unvisited(c, n, j)'
                 \/ body'[c][n][j] = F[n][j] /\ (F[n][j] \in Map => F[n][j] \in W)
       PROVE  AnswerOf(c)'
  <2>1. \A n \in Map, j \in Key : body'[c][n][j] # None => n \in W /\ body'[c][n][j] = F[n][j]
    BY <1>7, <1>9, <1>10, <1>12, <1>13
  <2>2. Writing(c, W)'
    <3>1. /\ own'[c] = Shown[req'[c]] /\ req'[c].root \in W
          /\ W \subseteq Left[req'[c]][path'[c].primary]
          /\ F = Final[req'[c]][path'[c].primary]
      BY <1>2, <1>3, <1>4, <1>5, <1>7, <1>13
    <3>2. \A n \in own'[c], j \in Key : copy'[c][n][j] = F[n][j]
      BY <1>2, <1>7
    <3> QED BY ONLY <1>13, <2>1, <3>1, <3>2 DEF Writing
  <2> QED BY <1>2, <2>2 DEF AnswerOf
<1>14. CASE v \notin Map
  <2>1. Visited(c, k)
    BY <1>8, <1>14
  <2>2. \A n, j : Unvisited(c, n, j) /\ (n # m \/ j # k) => Unvisited(c, n, j)'
    BY <1>1, <1>2, <1>8, <2>1, VisitedUnvisited
  <2>3. \A i \in DOMAIN stack'[c] : i \in DOMAIN stack[c] /\ stack'[c][i].map = stack[c][i].map
    BY <1>1, <1>2, <2>1, VisitedDue
  <2>4. ASSUME NEW n \in V, NEW j \in Key
        PROVE  \/ Unvisited(c, n, j)'
               \/ body'[c][n][j] = F[n][j] /\ (F[n][j] \in Map => F[n][j] \in V)
    <3>1. CASE n = m /\ j = k
      BY <1>9, <1>12, <1>14, <3>1
    <3>2. CASE ~(n = m /\ j = k)
      BY <1>7, <1>12, <2>2, <3>2
    <3> QED BY <3>1, <3>2
  <2> QED BY <1>7, <1>13, <2>3, <2>4
<1>15. CASE v \in Map
  <2>1. PICK ks \in SUBSET Key : ks = Present(c, v) /\ ks = {j \in Key : copy[c][v][j] # None}
    BY <1>9, <1>15, PresentOwn
  <2>2. Entered(c, k, v, ks)
    BY <1>8, <1>15, <2>1
  <2>3. /\ \A n, j : Unvisited(c, n, j) /\ (n # m \/ j # k) => Unvisited(c, n, j)'
        /\ \A j \in ks : Unvisited(c, v, j)'
    BY <1>1, <1>2, <1>8, <1>9, <1>15, <2>2, EnteredUnvisited
  <2>4. \A i \in DOMAIN stack'[c] :
           \/ i \in DOMAIN stack[c] /\ stack'[c][i].map = stack[c][i].map
           \/ stack'[c][i].map = v
    <3>1. /\ TypeOK /\ c \in Handler /\ k \in Key /\ v \in Map /\ ks \in SUBSET Key
          /\ stack[c] # <<>> /\ Entered(c, k, v, ks)
      BY <1>1, <1>2, <1>9, <1>15, <2>2
    <3>2. \A i \in DOMAIN stack'[c] :
             \/ /\ i \in DOMAIN stack[c]
                /\ stack'[c][i].map = stack[c][i].map
                /\ stack'[c][i].typed = stack[c][i].typed
             \/ /\ stack'[c][i].map = v
                /\ stack'[c][i].typed = (Top(c).typed /\ Kind[Top(c).map][k] = "object")
      BY ONLY <3>1, EnteredDue, Zenon
    <3> QED BY <3>2
  <2>5. PICK W \in SUBSET Map : W = V \cup {v}
    BY <1>15
  <2>6. ASSUME NEW n \in W, NEW j \in Key
        PROVE  \/ Unvisited(c, n, j)'
               \/ body'[c][n][j] = F[n][j] /\ (F[n][j] \in Map => F[n][j] \in W)
    <3>1. CASE n = m /\ j = k
      BY <1>9, <1>12, <2>5, <3>1
    <3>2. CASE ~(n = m /\ j = k) /\ n \in V
      BY <1>7, <1>12, <2>3, <2>5, <3>2
    <3>3. CASE ~(n = m /\ j = k) /\ n = v /\ j \in ks
      BY <2>3, <3>3
    <3>4. CASE ~(n = m /\ j = k) /\ n \notin V /\ n = v /\ j \notin ks
      <4>1. F[v][j] = None
        BY <1>7, <1>9, <1>15, <2>1, <3>4
      <4>2. body[c][v][j] = None
        BY <1>7, <1>15, <3>4
      <4> QED BY <1>12, <1>15, <3>4, <4>1, <4>2, DataAssumption
    <3> QED BY <2>5, <3>1, <3>2, <3>3, <3>4
  <2>7. V \subseteq W /\ W \subseteq L /\ \A i \in DOMAIN stack'[c] : stack'[c][i].map \in W
    BY <1>7, <1>9, <1>10, <1>11, <1>15, <2>4, <2>5
  <2> QED BY <1>13, <2>6, <2>7
<1> QED BY <1>14, <1>15

(* A call that returns.                                                    *)
LEMMA ReturnAnswer ==
    ASSUME IInv, NEW c \in Handler, AnswerOf(c), Return(c)
    PROVE  AnswerOf(c)'
<1>1. TypeOK
  BY DEF IInv
<1>2. /\ own' = own /\ pc' = pc /\ req' = req /\ path' = path /\ copy' = copy /\ body' = body
      /\ pc[c] \notin {"mint", "done"}
  <2>1. Len(stack[c]) > 1
    BY DEF Return
  <2>2. stack[c] # <<>>
    BY <2>1
  <2> QED BY <1>1, <2>2 DEF Return, TypeOK, Pass
<1>3. /\ DOMAIN stack'[c] \subseteq DOMAIN stack[c]
      /\ \A i \in DOMAIN stack'[c] : stack'[c][i] = stack[c][i]
      /\ \A i \in DOMAIN stack[c] : i \in DOMAIN stack'[c] \/ stack[c][i].left = {}
      /\ \A n, j : Unvisited(c, n, j)' <=> Unvisited(c, n, j)
  BY <1>1, ReturnFrames
<1>4. \A n, j : Due(c, n, j)' <=> Due(c, n, j)
  BY <1>3 DEF Due
<1>5. pc[c] = "generate" => Generating(c)'
  <2> SUFFICES ASSUME pc[c] = "generate" PROVE Generating(c)'
    OBVIOUS
  <2>1. Generating(c)
    BY DEF AnswerOf
  <2> QED BY <1>2, <1>3, <2>1 DEF Generating
<1>6. pc[c] = "record" => Naming(c)'
  <2> SUFFICES ASSUME pc[c] = "record" PROVE Naming(c)'
    OBVIOUS
  <2>1. PICK B, A : B = Raw[req[c]] /\ A = Named[req[c]][path[c].primary]
    OBVIOUS
  <2>2. PICK U, seen :
           U \in SUBSET Map /\ Walk(c, U, B, A) /\ seen = Seen(c, U) /\ Recorded(c, seen)
    BY <2>1 DEF AnswerOf, Naming
  <2>3. Walk(c, U, B, A)' /\ \A n, j : Pending(c, U, n, j)' <=> Pending(c, U, n, j)
    BY <1>1, <2>2, WalkReturn
  <2>4. Seen(c, U)' = seen
    BY <1>2, <2>2, <2>3 DEF Seen
  <2>5. Recorded(c, seen)'
    BY <1>2, <2>2 DEF Recorded, OldPrimaryIn
  <2>6. B = Raw[req'[c]] /\ A = Named[req'[c]][path'[c].primary]
    BY <1>2, <2>1
  <2> QED BY <2>2, <2>3, <2>4, <2>5, <2>6 DEF Naming
<1>7. pc[c] = "distribute" => Renaming(c)'
  <2> SUFFICES ASSUME pc[c] = "distribute" PROVE Renaming(c)'
    OBVIOUS
  <2>1. PICK B, A, seen : /\ B = Named[req[c]][path[c].primary]
                          /\ A = Renamed[req[c]][path[c].primary] /\ seen = own[c] \X Key
    OBVIOUS
  <2>2. (\E U \in SUBSET Map : Walk(c, U, B, A)) /\ Recorded(c, seen)
    BY <2>1 DEF AnswerOf, Renaming
  <2>3. PICK U \in SUBSET Map : Walk(c, U, B, A)'
    BY <1>1, <2>2, WalkReturn
  <2>4. Recorded(c, seen)'
    BY <1>2, <2>2 DEF Recorded, OldPrimaryIn
  <2>5. /\ B = Named[req'[c]][path'[c].primary] /\ A = Renamed[req'[c]][path'[c].primary]
        /\ seen = own'[c] \X Key
    BY <1>2, <2>1
  <2> QED BY <2>3, <2>4, <2>5 DEF Renaming
<1>8. pc[c] = "replace" => \E T \in SUBSET Map : Reflecting(c, T)'
  <2> SUFFICES ASSUME pc[c] = "replace" PROVE \E T \in SUBSET Map : Reflecting(c, T)'
    OBVIOUS
  <2>1. PICK T \in SUBSET Map : Reflecting(c, T)
    BY DEF AnswerOf
  <2>2. Reflecting(c, T)'
    BY <1>2, <1>3, <1>4, <2>1 DEF Reflecting
  <2> QED BY <2>2
<1>9. pc[c] = "write" => \E V \in SUBSET Map : Writing(c, V)'
  <2> SUFFICES ASSUME pc[c] = "write" PROVE \E V \in SUBSET Map : Writing(c, V)'
    OBVIOUS
  <2>1. PICK V \in SUBSET Map : Writing(c, V)
    BY DEF AnswerOf
  <2>2. Writing(c, V)'
    BY <1>2, <1>3, <2>1 DEF Writing
  <2> QED BY <2>2
<1>10. pc[c] \in {"record", "distribute", "replace", "write"} =>
          \E i \in MintedId : path'[c].primary = Primary(req'[c], i)
  BY <1>2 DEF AnswerOf
<1> QED BY <1>2, <1>5, <1>6, <1>7, <1>8, <1>9, <1>10 DEF AnswerOf

----------------------------------------------------------------------------
(* How the passes end.                                                     *)

(* A pass that is at its end is back at the root, with no key left.        *)
LEMMA EndFrame ==
    ASSUME IInv, NEW c \in Handler, EndPass(c)
    PROVE  /\ DOMAIN stack[c] = {1} /\ stack[c][1].left = {} /\ stack[c] # <<>>
           /\ pc[c] \in Pass /\ pc'[c] = NextPass(c)
           /\ \A n, j : ~Unvisited(c, n, j) /\ ~Due(c, n, j)
           /\ own' = own /\ req' = req /\ path' = path /\ copy' = copy /\ body' = body
<1>1. TypeOK
  BY DEF IInv
<1>2. Len(stack[c]) = 1 /\ Top(c).left = {}
  BY DEF EndPass
<1>3. stack[c] \in Seq(Frame) /\ 1..1 = {1}
  BY <1>1 DEF TypeOK
<1>4. DOMAIN stack[c] = {1} /\ stack[c][1].left = {} /\ stack[c] # <<>>
  BY <1>2, <1>3 DEF Top
<1>5. pc[c] \in Pass /\ pc'[c] = NextPass(c)
  BY <1>1, <1>4 DEF EndPass, TypeOK
<1>6. \A n, j : ~Unvisited(c, n, j) /\ ~Due(c, n, j)
  BY <1>4 DEF Unvisited, Due
<1> QED BY <1>4, <1>5, <1>6 DEF EndPass

(* The next pass, if there is one, begins at the root...                   *)
LEMMA NextStart ==
    ASSUME Exposed = {}, IInv, NEW c \in Handler, EndPass(c), NEW r \in Request, r = req[c],
           own[c] = Shown[r], pc'[c] \notin {"mint", "done"}
    PROVE  /\ DOMAIN stack'[c] = {1} /\ stack'[c][1].map = r.root /\ stack'[c][1].typed
           /\ pc'[c] = "replace" =>
                 stack'[c][1].left = {k \in Key : <<r.root, k>> \in DOMAIN r.data}
           /\ pc'[c] # "replace" =>
                 stack'[c][1].left = {k \in Key : copy'[c][r.root][k] # None}
<1>1. TypeOK
  BY DEF IInv
<1>2. pc'[c] = NextPass(c) /\ copy' = copy
  BY EndFrame
<1>3. PICK ks : /\ ks = (IF NextPass(c) = "replace" THEN Sent(c, r.root)
                         ELSE Present(c, r.root))
                /\ stack' = [stack EXCEPT ![c] = RootFrame(c, ks)]
  BY <1>2 DEF EndPass
<1>4. /\ DOMAIN stack'[c] = {1} /\ stack'[c][1].map = r.root
      /\ stack'[c][1].typed /\ stack'[c][1].left = ks
  <2>1. TypeOK /\ stack' = [stack EXCEPT ![c] = RootFrame(c, ks)]
    BY <1>1, <1>3
  <2> QED BY <2>1, RootStart
<1>5. r.root \in own[c]
  BY ShownClosed
<1>6. pc'[c] = "replace" => ks = {k \in Key : <<r.root, k>> \in DOMAIN r.data}
  BY <1>2, <1>3 DEF Sent
<1>7. pc'[c] # "replace" => ks = {k \in Key : copy'[c][r.root][k] # None}
  BY <1>2, <1>3, <1>5, PresentOwn
<1> QED BY <1>4, <1>6, <1>7

(* ... and writeResponse with the values that the response is to have.     *)
LEMMA WriteBegins ==
    ASSUME Exposed = {}, IInv, NEW c \in Handler, EndPass(c), NEW r \in Request, r = req[c],
           NEW p \in ID, p = path[c].primary, own[c] = Shown[r], SearchComplete(c),
           pc[c] \in {"generate", "distribute", "replace"}, pc'[c] = "write",
           \A m \in own[c], k \in Key : copy[c][m][k] = Final[r][p][m][k]
    PROVE  \E V \in SUBSET Map : Writing(c, V)'
<1>1. own' = own /\ req' = req /\ path' = path /\ copy' = copy /\ body' = body
  BY EndFrame
<1>2. /\ DOMAIN stack'[c] = {1} /\ stack'[c][1].map = r.root
      /\ stack'[c][1].left = {k \in Key : copy'[c][r.root][k] # None}
  BY NextStart
<1>3. body'[c] = Blank
  BY <1>1 DEF SearchComplete
<1>4. Writing(c, {r.root})'
  BY <1>1, <1>2, <1>3, WriteStart
<1>5. {r.root} \in SUBSET Map
  BY RequestAssumption
<1> QED BY <1>4, <1>5

(* A binary response has no keys.                                          *)
LEMMA BinaryBare ==
    ASSUME NEW r \in Request, r.root \in Binary, NEW k \in Key
    PROVE  Raw[r][r.root][k] = None
<1>1. r.root \in Map /\ Kind[r.root][k] = "none"
  BY DataAssumption, RequestAssumption
<1>2. r.root \in Copied[r]
  BY CopiedClosed
<1> QED BY <1>1, <1>2 DEF Raw

(* All that is shown has been generated.                                   *)
LEMMA GenerateEnd ==
    ASSUME Exposed = {}, IInv, NEW c \in Handler, AnswerOf(c), SearchComplete(c),
           EndPass(c), pc[c] = "generate"
    PROVE  AnswerOf(c)'
<1>1. TypeOK /\ Started(c) /\ MapsIsolated(c)
  BY DEF IInv, HandlerIsolated
<1>2. /\ \A n, j : ~Unvisited(c, n, j)
      /\ own' = own /\ req' = req /\ path' = path /\ copy' = copy
      /\ pc'[c] = IF req[c].root \in Binary THEN "write" ELSE "mint"
  BY EndFrame DEF NextPass
<1>3. PICK r \in Request : r = req[c]
  BY <1>1 DEF TypeOK
<1>4. Generating(c)
  BY DEF AnswerOf
<1>5. own[c] \subseteq Shown[r] /\ \A m \in own[c], k \in Key : copy[c][m][k] = Raw[r][m][k]
  BY <1>2, <1>3, <1>4 DEF Generating
<1>6. r.root \in own[c] /\ own[c] \in SUBSET Map
  BY <1>1, <1>3 DEF Started, TypeOK
<1>7. ASSUME NEW m \in own[c], NEW k \in Key, Raw[r][m][k] \in Map
      PROVE  Raw[r][m][k] \in own[c]
  BY <1>1, <1>5, <1>6, <1>7 DEF MapsIsolated
<1>8. own[c] = Shown[r]
  BY <1>5, <1>6, <1>7, ShownClosed
<1>9. CASE pc'[c] = "mint"
  <2>1. Generating(c)'
    BY <1>2, <1>3, <1>4, <1>5 DEF Generating
  <2> QED BY <1>2, <1>3, <1>8, <1>9, <2>1 DEF AnswerOf
<1>10. CASE pc'[c] = "write"
  <2>1. r.root \in Binary
    BY <1>2, <1>3, <1>10
  <2>2. \A k \in Key : Raw[r][r.root][k] = None
    BY <2>1, BinaryBare
  <2>3. PICK i \in MintedId, p \in ID : p = path[c].primary /\ p = Primary(r, i)
    <3>1. IdKey \in Key /\ None \notin Text /\ MintedId # {}
      BY DataAssumption
    <3>2. r.primary \in ID
      BY RequestAssumption DEF ID
    <3>3. path[c].primary = r.primary
      BY <1>3, <1>4 DEF Generating
    <3> QED BY <2>2, <3>1, <3>2, <3>3 DEF Primary
  <2>4. own[c] = {r.root}
    <3>1. \A k \in Key : Raw[r][r.root][k] \notin Map
      BY <2>2, DataAssumption
    <3>2. {r.root} \in SUBSET Map
      BY RequestAssumption
    <3>3. Shown[r] \subseteq {r.root}
      BY <3>1, <3>2, ShownClosed
    <3> QED BY <1>6, <1>8, <3>3
  <2>5. \A m \in own[c], k \in Key : copy[c][m][k] = Final[r][p][m][k]
    <3>1. r.root \in Map
      BY RequestAssumption
    <3>2. \A k \in Key : Final[r][p][r.root][k] = None
      BY <2>2, <3>1, FinalIs
    <3> QED BY <1>5, <2>2, <2>4, <3>2
  <2>6. \E V \in SUBSET Map : Writing(c, V)'
    BY <1>3, <1>8, <1>10, <2>3, <2>5, WriteBegins
  <2>7. \E j \in MintedId : path'[c].primary = Primary(req'[c], j)
    BY <1>2, <1>3, <2>3
  <2> QED BY <1>10, <2>6, <2>7 DEF AnswerOf
<1> QED BY <1>2, <1>9, <1>10

(* All of the tree has been recorded.                                      *)
LEMMA RecordEnd ==
    ASSUME Exposed = {}, ResponsesAreTrees, IInv, IInv', NEW c \in Handler, AnswerOf(c),
           EndPass(c), pc[c] = "record"
    PROVE  AnswerOf(c)'
<1>1. TypeOK /\ TypeOK'
  BY DEF IInv
<1>2. /\ pc'[c] = "distribute"
      /\ own' = own /\ req' = req /\ path' = path /\ copy' = copy
  BY EndFrame DEF NextPass
<1>3. PICK r \in Request : r = req[c]
  BY <1>1 DEF TypeOK
<1>4. PICK p \in ID : p = path[c].primary
  BY <1>1 DEF TypeOK, PathParamsMap, ID
<1>5. PICK R, N, A : /\ R = Raw[r] /\ N = Named[r][p] /\ A = Renamed[r][p]
                     /\ Like(r, R) /\ Like(r, N) /\ Like(r, A)
  BY Shapes
<1>6. PICK U, seen :
        U \in SUBSET Map /\ Walk(c, U, R, N) /\ seen = Seen(c, U) /\ Recorded(c, seen)
  BY <1>3, <1>4, <1>5 DEF AnswerOf, Naming
<1>7. /\ \A m \in own[c], k \in Key : copy[c][m][k] = N[m][k] /\ ~Pending(c, U, m, k)
      /\ own[c] = Shown[r]
  <2>1. Len(stack[c]) = 1 /\ Top(c).left = {} /\ Like(req[c], R)
    BY <1>3, <1>5 DEF EndPass
  <2> QED BY <1>1, <1>3, <1>6, <2>1, WalkEnd
<1>8. seen = own[c] \X Key
  <2>1. \A f \in own[c] \X Key : f[1] \in own[c] /\ f[2] \in Key
    OBVIOUS
  <2> QED BY <1>6, <1>7, <2>1 DEF Seen
<1>9. Recorded(c, own[c] \X Key)'
  <2>1. Recorded(c, seen)'
    BY <1>2, <1>6 DEF Recorded, OldPrimaryIn
  <2>2. seen = own'[c] \X Key
    BY <1>2, <1>8
  <2> QED BY <2>1, <2>2
<1>10. /\ DOMAIN stack'[c] = {1} /\ stack'[c][1].map = r.root
       /\ stack'[c][1].left = {k \in Key : copy'[c][r.root][k] # None}
  BY <1>2, <1>3, <1>7, NextStart
<1>11. PICK W : W = own'[c] \ {r.root}
  OBVIOUS
<1>12. r.root \in Map /\ W \in SUBSET Map
  BY <1>1, <1>11, RequestAssumption DEF TypeOK
<1>13. Walk(c, W, N, A)'
  BY <1>1, <1>2, <1>3, <1>5, <1>7, <1>10, <1>11, <1>12, WalkStart
<1>14. Renaming(c)'
  BY <1>2, <1>3, <1>4, <1>5, <1>9, <1>12, <1>13 DEF Renaming
<1>15. \E i \in MintedId : path'[c].primary = Primary(req'[c], i)
  BY <1>2 DEF AnswerOf
<1> QED BY <1>2, <1>14, <1>15 DEF AnswerOf

(* All old IDs have been replaced.                                         *)
LEMMA DistributeEnd ==
    ASSUME Exposed = {}, IInv, NEW c \in Handler, AnswerOf(c), SearchComplete(c),
           EndPass(c), pc[c] = "distribute"
    PROVE  AnswerOf(c)'
<1>1. TypeOK
  BY DEF IInv
<1>2. own' = own /\ req' = req /\ path' = path /\ copy' = copy
  BY EndFrame
<1>3. PICK r \in Request : r = req[c]
  BY <1>1 DEF TypeOK
<1>4. PICK p \in ID : p = path[c].primary
  BY <1>1 DEF TypeOK, PathParamsMap, ID
<1>5. PICK N, A : N = Named[r][p] /\ A = Renamed[r][p] /\ Like(r, N)
  BY Shapes
<1>6. PICK U \in SUBSET Map : Walk(c, U, N, A)
  BY <1>3, <1>4, <1>5 DEF AnswerOf, Renaming
<1>7. /\ \A m \in own[c], k \in Key : copy[c][m][k] = A[m][k]
      /\ own[c] = Shown[r]
  <2>1. Len(stack[c]) = 1 /\ Top(c).left = {} /\ Like(req[c], N)
    BY <1>3, <1>5 DEF EndPass
  <2>2. TypeOK /\ c \in Handler /\ U \in SUBSET Map /\ Walk(c, U, N, A)
    BY <1>1, <1>6
  <2>3. /\ \A m \in own[c], k \in Key : copy[c][m][k] = A[m][k] /\ ~Pending(c, U, m, k)
        /\ own[c] = Shown[req[c]]
    BY ONLY <2>1, <2>2, WalkEnd
  <2> QED BY <1>3, <2>3
<1>8. \E i \in MintedId : path'[c].primary = Primary(req'[c], i)
  BY <1>2 DEF AnswerOf
<1>9. CASE r.method = "POST"
  <2>1. pc'[c] = "replace"
    BY <1>3, <1>9, EndFrame DEF NextPass
  <2>2. /\ DOMAIN stack'[c] = {1} /\ stack'[c][1].map = r.root /\ stack'[c][1].typed
        /\ stack'[c][1].left = {k \in Key : <<r.root, k>> \in DOMAIN r.data}
    BY <1>3, <1>7, <2>1, NextStart
  <2>3. Reflecting(c, {r.root})'
    <3>1. /\ c \in Handler /\ r \in Request /\ r = req'[c] /\ p \in ID /\ p = path'[c].primary
          /\ own'[c] = Shown[r]
      BY <1>2, <1>3, <1>4, <1>7
    <3>2. /\ DOMAIN stack'[c] = {1} /\ stack'[c][1].map = r.root /\ stack'[c][1].typed
          /\ stack'[c][1].left = {k \in Key : <<r.root, k>> \in DOMAIN r.data}
      BY ONLY <2>2
    <3>3. \A m \in own'[c], k \in Key : copy'[c][m][k] = Renamed[r][p][m][k]
      BY <1>2, <1>5, <1>7
    <3> QED BY ONLY <3>1, <3>2, <3>3, ReflectStart, Zenon
  <2>4. {r.root} \in SUBSET Map
    BY RequestAssumption
  <2> QED BY <1>2, <1>8, <2>1, <2>3, <2>4 DEF AnswerOf
<1>10. CASE r.method # "POST"
  <2>1. pc'[c] = "write"
    BY <1>3, <1>10, EndFrame DEF NextPass
  <2>2. \A m \in own[c], k \in Key : copy[c][m][k] = Final[r][p][m][k]
    BY <1>1, <1>5, <1>7, <1>10, FinalIs DEF TypeOK
  <2>3. \E V \in SUBSET Map : Writing(c, V)'
    BY <1>3, <1>4, <1>7, <2>1, <2>2, WriteBegins
  <2> QED BY <1>2, <1>8, <2>1, <2>3 DEF AnswerOf
<1> QED BY <1>9, <1>10

(* All that the request asks for has been reflected.                       *)
LEMMA ReplaceEnd ==
    ASSUME Exposed = {}, IInv, NEW c \in Handler, AnswerOf(c), SearchComplete(c),
           EndPass(c), pc[c] = "replace"
    PROVE  AnswerOf(c)'
<1>1. TypeOK
  BY DEF IInv
<1>2. /\ own' = own /\ req' = req /\ path' = path /\ copy' = copy /\ pc'[c] = "write"
      /\ \A n, j : ~Due(c, n, j)
  BY EndFrame DEF NextPass
<1>3. PICK r \in Request : r = req[c]
  BY <1>1 DEF TypeOK
<1>4. PICK p \in ID : p = path[c].primary
  BY <1>1 DEF TypeOK, PathParamsMap, ID
<1>5. PICK N, F : N = Renamed[r][p] /\ F = Final[r][p]
  OBVIOUS
<1>6. PICK T \in SUBSET Map : Reflecting(c, T)
  BY DEF AnswerOf
<1>7. /\ own[c] = Shown[r] /\ r.root \in T /\ T \subseteq Asked[r]
      /\ \A m \in own[c], k \in Key : copy[c][m][k] \in {N[m][k], F[m][k]}
      /\ \A m \in T, k \in Key :
            /\ copy[c][m][k] = F[m][k]
            /\ Nests(r, m, k) /\ Raw[r][m][k] \in Map => Raw[r][m][k] \in T
  BY <1>2, <1>3, <1>4, <1>5, <1>6 DEF Reflecting
<1>8. T = Asked[r]
  BY <1>7, AskedClosed
<1>9. ASSUME NEW m \in own[c], NEW k \in Key PROVE copy[c][m][k] = F[m][k]
  <2>1. CASE m \in T
    BY <1>7, <2>1
  <2>2. CASE m \notin T
    <3>1. m \in Map
      BY <1>1 DEF TypeOK
    <3>2. F[m][k] = N[m][k]
      BY <1>5, <1>8, <2>2, <3>1 DEF Final
    <3> QED BY <1>7, <3>2
  <2> QED BY <2>1, <2>2
<1>10. \E V \in SUBSET Map : Writing(c, V)'
  <2>1. /\ Exposed = {} /\ IInv /\ c \in Handler /\ EndPass(c) /\ r \in Request /\ r = req[c]
        /\ p \in ID /\ p = path[c].primary /\ own[c] = Shown[r] /\ SearchComplete(c)
        /\ pc[c] \in {"distribute", "replace"} /\ pc'[c] = "write"
    BY <1>2, <1>3, <1>4, <1>7
  <2>2. \A m \in own[c], k \in Key : copy[c][m][k] = Final[r][p][m][k]
    BY ONLY <1>5, <1>9
  <2> QED BY ONLY <2>1, <2>2, WriteBegins, Zenon
<1>11. \E i \in MintedId : path'[c].primary = Primary(req'[c], i)
  BY <1>2 DEF AnswerOf
<1> QED BY <1>2, <1>10, <1>11 DEF AnswerOf

(* All that is left has been written.                                      *)
LEMMA WriteEnd ==
    ASSUME IInv, NEW c \in Handler, AnswerOf(c), EndPass(c), pc[c] = "write"
    PROVE  AnswerOf(c)'
<1>1. TypeOK
  BY DEF IInv
<1>2. /\ req' = req /\ body' = body /\ pc'[c] = "done" /\ \A n, j : ~Unvisited(c, n, j)
  BY EndFrame DEF NextPass
<1>3. PICK r \in Request : r = req[c]
  BY <1>1 DEF TypeOK
<1>4. PICK i \in MintedId : path[c].primary = Primary(r, i)
  BY <1>3 DEF AnswerOf
<1>5. PICK p \in ID : p = path[c].primary /\ p = Primary(r, i)
  BY <1>1, <1>4 DEF TypeOK, PathParamsMap, ID
<1>6. PICK F, L : F = Final[r][p] /\ L = Left[r][p]
  OBVIOUS
<1>7. PICK V \in SUBSET Map : Writing(c, V)
  BY DEF AnswerOf
<1>8. /\ r.root \in V /\ V \subseteq L
      /\ \A n \in Map, j \in Key : body[c][n][j] # None => n \in V
      /\ \A n \in V, j \in Key : body[c][n][j] = F[n][j] /\ (F[n][j] \in Map => F[n][j] \in V)
  BY <1>2, <1>3, <1>5, <1>6, <1>7 DEF Writing
<1>9. V = L
  <2>1. r \in Request /\ p \in ID
    OBVIOUS
  <2>2. /\ L \subseteq Map
        /\ \A S \in SUBSET Map :
              /\ r.root \in S
              /\ \A m \in S, k \in Key : F[m][k] \in Map => F[m][k] \in S
              => L \subseteq S
    BY ONLY <1>6, <2>1, LeftClosed, ShownClosed
  <2>3. V \in SUBSET Map /\ r.root \in V /\ V \subseteq L
    BY <1>8
  <2>4. \A m \in V, k \in Key : F[m][k] \in Map => F[m][k] \in V
    BY ONLY <1>8
  <2>5. L \subseteq V
    BY ONLY <2>2, <2>3, <2>4
  <2> QED BY ONLY <2>3, <2>5
<1>10. \A n \in Map, j \in Key : body[c][n][j] = IF n \in L THEN F[n][j] ELSE None
  BY <1>8, <1>9
<1>11. body[c] \in [Map -> [Key -> Value]]
  BY <1>1 DEF TypeOK
<1>12. body[c] = [n \in Map |-> [j \in Key |-> IF n \in L THEN F[n][j] ELSE None]]
  BY <1>10, <1>11
<1>13. body[c] = Ideal(r, i)
  BY <1>5, <1>6, <1>12 DEF Ideal
<1> QED BY <1>2, <1>3, <1>13 DEF AnswerOf

(* A pass that is over.                                                    *)
LEMMA EndPassAnswer ==
    ASSUME Exposed = {}, ResponsesAreTrees, IInv, IInv', NEW c \in Handler, AnswerOf(c),
           SearchComplete(c), EndPass(c)
    PROVE  AnswerOf(c)'
<1>1. pc[c] \in Pass
  BY EndFrame
<1> QED BY <1>1, GenerateEnd, RecordEnd, DistributeEnd, ReplaceEnd, WriteEnd DEF Pass

----------------------------------------------------------------------------
(* Every response is the one that Responses defines.                       *)

(* Every step keeps AnswerInv, if nothing is shared.                       *)
LEMMA NextAnswer ==
    ASSUME Exposed = {}, ResponsesAreTrees
    PROVE  IInv /\ IInv' /\ SearchInv /\ RecordInv /\ AnswerInv /\ [Next]_vars => AnswerInv'
<1> SUFFICES ASSUME IInv, IInv', SearchInv, RecordInv, AnswerInv, [Next]_vars, NEW d \in Handler
             PROVE  AnswerOf(d)'
  BY DEF AnswerInv
<1>1. AnswerOf(d) /\ SearchComplete(d) /\ RecordsOnce(d)
  BY DEF AnswerInv, SearchInv, RecordInv
<1>2. CASE Crash \/ UNCHANGED vars
  <2>1. Untouched(d)
    BY <1>2 DEF Crash, vars, Untouched, StoreKept
  <2> QED BY <1>1, <2>1, OthersAnswer
<1>3. ASSUME NEW c \in Handler, Arrive(c) \/ Step(c) PROVE AnswerOf(d)'
  <2>1. CASE d # c
    BY <1>1, <1>3, <2>1, OthersUntouched, OthersAnswer
  <2>2. CASE d = c
    BY <1>1, <1>3, <2>2, ArriveAnswer, GenerateAnswer, MintAnswer, RecordAnswer,
       DistributeAnswer, ReplaceAnswer, WriteAnswer, ReturnAnswer, EndPassAnswer DEF Step
  <2> QED BY <2>1, <2>2
<1> QED BY <1>2, <1>3 DEF Next

(* generator.go:126-178, whatever the order of the keys: if nothing is     *)
(* shared and responses are trees, the two ID passes turn each object of   *)
(* the response, once, from what was found into what Responses defines,    *)
(* and the passes that follow leave out nothing that they have to change.  *)
THEOREM PassesFollow == Exposed = {} /\ ResponsesAreTrees => (Spec => []AnswerInv)
<1> SUFFICES ASSUME Exposed = {}, ResponsesAreTrees PROVE Spec => []AnswerInv
  OBVIOUS
<1>1. Spec => []RecordInv
  BY OldIDsFromFixtures
<1>2. IInv /\ IInv' /\ SearchInv /\ RecordInv /\ AnswerInv /\ [Next]_vars => AnswerInv'
  BY NextAnswer
<1> QED BY <1>1, <1>2, Isolation, SearchesComplete, InitAnswer, PTL DEF Spec

(* Under the same conditions every response is the function of its         *)
(* request, the loaded fixtures and the minted ID that Responses defines,  *)
(* whatever the order of the keys and whoever else is being served.        *)
THEOREM ResponsesAreIdeal ==
    Exposed = {} /\ ResponsesAreTrees => (Spec => []AnswersStateless)
<1> SUFFICES ASSUME Exposed = {}, ResponsesAreTrees PROVE Spec => []AnswersStateless
  OBVIOUS
<1>1. Spec => []AnswerInv
  BY PassesFollow
<1>2. AnswerInv => AnswersStateless
  BY DEF AnswerInv, AnswerOf, AnswersStateless
<1> QED BY <1>1, <1>2, PTL

(* README.md:48, "stripe-mock is stateless": ... and the passes, with any  *)
(* number of handlers, implement the stateless mock.                       *)
THEOREM MockIsStateless ==
    Exposed = {} /\ ResponsesAreTrees => (Spec => ImplementsStatelessMock)
<1> SUFFICES ASSUME Exposed = {}, ResponsesAreTrees PROVE Spec => ImplementsStatelessMock
  OBVIOUS
<1>1. Spec => []AnswersStateless
  BY ResponsesAreIdeal
<1> QED BY <1>1, StatelessMockSteps, PTL
=============================================================================
