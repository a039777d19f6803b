----------------------- MODULE ResponseGenerationProofs -----------------------
(***************************************************************************)
(* Proofs about ResponseGeneration, for any number of handlers, any        *)
(* fixtures and any requests that satisfy the assumptions of Fixtures.     *)
(* The inductive invariant is IInv: the objects a handler can reach from   *)
(* its response are its own or exposed, hence what it writes is.  From it, *)
(* why no ID that the record pass has replaced is left over in a response  *)
(* (SearchInv), and that those IDs come from the fixtures, if responses    *)
(* are trees and nothing is handed out by reference (RecordInv).           *)
(***************************************************************************)
EXTENDS ResponseGeneration, SequenceTheorems, NaturalSets

(* What a step of a pass does to the call stacks: the stacks of the other  *)
(* handlers stay, and every frame of c's was there before, except for the  *)
(* frame of the map it enters.                                             *)
OldFrame(c, f) ==
    \E j \in DOMAIN stack[c] :
        /\ f.map = stack[c][j].map
        /\ f.typed = stack[c][j].typed
        /\ f.left \subseteq stack[c][j].left

(* A loop that goes on to its next key leaves every frame of generator.go's*)
(* recursion what it was, but for the keys that are left to it.            *)
LEMMA VisitedFrames ==
    ASSUME stack \in [Handler -> Seq(Frame)],
           NEW c \in Handler, NEW k, stack[c] # <<>>, Visited(c, k)
    PROVE  /\ stack' \in [Handler -> Seq(Frame)]
           /\ stack'[c] # <<>>
           /\ \A d \in Handler \ {c} : stack'[d] = stack[d]
           /\ \A i \in DOMAIN stack'[c] : OldFrame(c, stack'[c][i])
<1> DEFINE n == Len(stack[c])
           s == [stack[c] EXCEPT ![n] = [stack[c][n] EXCEPT !.left = @ \ {k}]]
<1>1. stack[c] \in Seq(Frame) /\ n \in Nat /\ n >= 1 /\ DOMAIN stack[c] = 1..n
  OBVIOUS
<1>2. stack[c][n] \in Frame
  BY <1>1
<1>3. [stack[c][n] EXCEPT !.left = @ \ {k}] \in Frame
  BY <1>2 DEF Frame
<1>4. s \in Seq(Frame) /\ Len(s) = n
  BY <1>1, <1>3
<1>5. stack' = [stack EXCEPT ![c] = s]
  BY DEF Visited
<1>6. stack'[c] = s
  BY <1>5
<1>7. ASSUME NEW i \in DOMAIN s PROVE OldFrame(c, s[i])
  <2>1. i \in DOMAIN stack[c]
    BY <1>1, <1>4
  <2>2. /\ s[i].map = stack[c][i].map
        /\ s[i].typed = stack[c][i].typed
        /\ s[i].left \subseteq stack[c][i].left
    BY <1>1, <1>2, <2>1 DEF Frame
  <2> QED BY <2>1, <2>2 DEF OldFrame
<1> HIDE DEF s
<1>8. stack' \in [Handler -> Seq(Frame)] /\ \A d \in Handler \ {c} : stack'[d] = stack[d]
  BY <1>4, <1>5
<1>9. stack'[c] # <<>>
  BY <1>1, <1>4, <1>6
<1> QED BY <1>6, <1>7, <1>8, <1>9

(* A recursive call leaves the frames of its callers what they were, and   *)
(* its own frame is about the object found at the key.                     *)
LEMMA EnteredFrames ==
    ASSUME stack \in [Handler -> Seq(Frame)],
           NEW c \in Handler, NEW k \in Key, NEW v \in Map, NEW ks \in SUBSET Key,
           stack[c] # <<>>, Entered(c, k, v, ks)
    PROVE  /\ stack' \in [Handler -> Seq(Frame)]
           /\ stack'[c] # <<>>
           /\ \A d \in Handler \ {c} : stack'[d] = stack[d]
           /\ \A i \in DOMAIN stack'[c] :
                 \/ OldFrame(c, stack'[c][i])
                 \/ /\ stack'[c][i].map = v
                    /\ stack'[c][i].typed => /\ Top(c).typed
                                             /\ Kind[Top(c).map][k] = "object"
                    /\ stack'[c][i].left = ks
<1> DEFINE n == Len(stack[c])
           s == [stack[c] EXCEPT ![n] = [stack[c][n] EXCEPT !.left = @ \ {k}]]
           parent == IF Kind[Top(c).map][k] \in {"list", "array"} THEN None ELSE k
           f == [map |-> v, key |-> parent,
                 typed |-> Top(c).typed /\ Kind[Top(c).map][k] = "object", left |-> ks]
<1>1. stack[c] \in Seq(Frame) /\ n \in Nat /\ n >= 1 /\ DOMAIN stack[c] = 1..n
  OBVIOUS
<1>2. stack[c][n] \in Frame
  BY <1>1
<1>3. [stack[c][n] EXCEPT !.left = @ \ {k}] \in Frame
  BY <1>2 DEF Frame
<1>4. s \in Seq(Frame) /\ Len(s) = n
  BY <1>1, <1>3
<1>5. Top(c).typed \in BOOLEAN
  BY <1>2 DEF Top, Frame
<1>6. f \in Frame
  BY <1>5 DEF Frame
<1>7. stack' = [stack EXCEPT ![c] = Append(s, f)]
  BY DEF Entered
<1>8. stack'[c] = Append(s, f) /\ Append(s, f) \in Seq(Frame) /\ Len(Append(s, f)) = n + 1
  BY <1>4, <1>6, <1>7
<1>9. ASSUME NEW i \in 1..n PROVE OldFrame(c, stack'[c][i])
  <2>1. stack'[c][i] = s[i]
    BY <1>1, <1>4, <1>6, <1>8
  <2>2. /\ s[i].map = stack[c][i].map
        /\ s[i].typed = stack[c][i].typed
        /\ s[i].left \subseteq stack[c][i].left
    BY <1>1, <1>2 DEF Frame
  <2> QED BY <1>1, <2>1, <2>2 DEF OldFrame
<1>10. stack'[c][n + 1] = f
  <2> HIDE DEF s, f, n
  <2> QED BY <1>4, <1>6, <1>8, AppendProperties
<1>11. DOMAIN stack'[c] = 1..(n + 1)
  BY <1>1, <1>8
<1>12. \A i \in DOMAIN stack'[c] : i \in 1..n \/ i = n + 1
  BY <1>1, <1>11
<1> HIDE DEF s, f
<1>13. stack' \in [Handler -> Seq(Frame)] /\ \A d \in Handler \ {c} : stack'[d] = stack[d]
  BY <1>7, <1>8
<1>14. stack'[c] # <<>>
  BY <1>1, <1>8
<1>15. /\ f.map = v /\ f.left = ks
       /\ f.typed => Top(c).typed /\ Kind[Top(c).map][k] = "object"
  BY DEF f
<1> QED BY <1>9, <1>10, <1>12, <1>13, <1>14, <1>15

----------------------------------------------------------------------------
(* The three parts of HandlerIsolated, under the steps of a pass.          *)

(* Going on to the next key keeps a pass in objects that are the handler's *)
(* own or exposed.                                                         *)
LEMMA VisitedIsolated ==
    ASSUME TypeOK, NEW c \in Handler, NEW k, stack[c] # <<>>, Visited(c, k),
           StackIsolated(c),
           own[c] \subseteq own'[c], pc'[c] = pc[c], req'[c] = req[c]
    PROVE  /\ stack' \in [Handler -> Seq(Frame)]
           /\ stack'[c] # <<>>
           /\ \A d \in Handler \ {c} : stack'[d] = stack[d]
           /\ StackIsolated(c)'
<1>1. stack \in [Handler -> Seq(Frame)]
  BY DEF TypeOK
<1>2. /\ stack' \in [Handler -> Seq(Frame)]
      /\ stack'[c] # <<>>
      /\ \A d \in Handler \ {c} : stack'[d] = stack[d]
      /\ \A i \in DOMAIN stack'[c] : OldFrame(c, stack'[c][i])
  BY <1>1, VisitedFrames
<1>3. ASSUME NEW i \in DOMAIN stack'[c] PROVE FrameIsolated(c, stack[c][i])'
  BY <1>2, ZenonT(40) DEF OldFrame, StackIsolated, FrameIsolated, Properties, Sent
<1> QED BY <1>2, <1>3 DEF StackIsolated

(* A pass that recurses into an object of its handler, or into an exposed  *)
(* one, keeps all its frames in such objects.                              *)
LEMMA EnteredIsolated ==
    ASSUME TypeOK, NEW c \in Handler, NEW k \in Key, NEW v \in Map, NEW ks \in SUBSET Key,
           stack[c] # <<>>, Entered(c, k, v, ks), StackIsolated(c),
           own[c] \subseteq own'[c], pc'[c] = pc[c], req'[c] = req[c],
           v \in own'[c] \cup Exposed,
           Top(c).typed /\ Kind[Top(c).map][k] = "object" => v \in own'[c],
           pc[c] = "generate" => v \in own'[c] /\ ks \subseteq Properties(v),
           pc[c] = "replace" => ks \subseteq Sent(c, v)
    PROVE  /\ stack' \in [Handler -> Seq(Frame)]
           /\ stack'[c] # <<>>
           /\ \A d \in Handler \ {c} : stack'[d] = stack[d]
           /\ StackIsolated(c)'
<1>1. stack \in [Handler -> Seq(Frame)]
  BY DEF TypeOK
<1>2. /\ stack' \in [Handler -> Seq(Frame)]
      /\ stack'[c] # <<>>
      /\ \A d \in Handler \ {c} : stack'[d] = stack[d]
      /\ \A i \in DOMAIN stack'[c] :
            \/ OldFrame(c, stack'[c][i])
            \/ /\ stack'[c][i].map = v
               /\ stack'[c][i].typed => /\ Top(c).typed
                                        /\ Kind[Top(c).map][k] = "object"
               /\ stack'[c][i].left = ks
  BY <1>1, EnteredFrames
<1>3. ASSUME NEW i \in DOMAIN stack'[c] PROVE FrameIsolated(c, stack[c][i])'
  <2>1. CASE OldFrame(c, stack'[c][i])
    BY <2>1 DEF OldFrame, StackIsolated, FrameIsolated, Properties, Sent
  <2>2. CASE ~OldFrame(c, stack'[c][i])
    BY <1>2, <2>2 DEF FrameIsolated, Properties, Sent
  <2> QED BY <2>1, <2>2
<1> QED BY <1>2, <1>3 DEF StackIsolated

(* Only c's own variables and the exposed part of the store change, and no *)
(* new reference to an object appears.                                     *)
LEMMA PutIsolated ==
    ASSUME TypeOK, StoreIsolated, NEW c \in Handler, MapsIsolated(c),
           NEW m \in own[c] \cup Exposed, NEW k \in Key, NEW v \in Value,
           \/ v \notin Map /\ (m \in own[c] \/ v \in RequestIDs \cup MintedId)
           \/ v = Read(c, m, k),
           Put(c, m, k, v), own' = own
    PROVE  /\ store' \in [Map -> [Key -> Value]]
           /\ copy' \in [Handler -> [Map -> [Key -> Value]]]
           /\ StoreIsolated'
           /\ \A d \in Handler \ {c} : copy'[d] = copy[d]
           /\ MapsIsolated(c)'
<1>1. /\ store \in [Map -> [Key -> Value]]
      /\ copy \in [Handler -> [Map -> [Key -> Value]]]
      /\ own[c] \subseteq Map /\ m \in Map
  BY ExposedAssumption DEF TypeOK
<1>2. CASE m \in own[c]
  <2>1. copy' = [copy EXCEPT ![c][m][k] = v] /\ store' = store
    BY <1>2 DEF Put
  <2>2. copy' \in [Handler -> [Map -> [Key -> Value]]]
    BY <1>1, <2>1
  <2>3. \A d \in Handler \ {c} : copy'[d] = copy[d]
    BY <1>1, <2>1
  <2>4. \A n \in Map, j \in Key : copy'[c][n][j] = IF n = m /\ j = k THEN v ELSE copy[c][n][j]
    BY <1>1, <2>1
  <2>5. v \notin Map \/ v = copy[c][m][k]
    BY <1>2 DEF Read
  <2>6. MapsIsolated(c)'
    BY <1>1, <2>4, <2>5 DEF MapsIsolated
  <2>7. StoreIsolated'
    BY <2>1 DEF StoreIsolated, CopiedFixturesPristine, PostDataNeverStored
  <2> QED BY <1>1, <2>1, <2>2, <2>3, <2>6, <2>7
<1>3. CASE m \notin own[c]
  <2>1. store' = [store EXCEPT ![m][k] = v] /\ copy' = copy
    BY <1>3 DEF Put
  <2>2. store' \in [Map -> [Key -> Value]]
    BY <1>1, <2>1
  <2>3. m \in Exposed
    BY <1>3
  <2>4. \A n \in Map, j \in Key : store'[n][j] = IF n = m /\ j = k THEN v ELSE store[n][j]
    BY <1>1, <2>1
  <2>5. \A n \in Map \ Exposed : store'[n] = store[n]
    BY <1>1, <2>1, <2>3
  <2>6. (v \notin Map /\ v \in RequestIDs \cup MintedId) \/ v = store[m][k]
    BY <1>3 DEF Read
  <2>7. CopiedFixturesPristine'
    BY <2>5 DEF StoreIsolated, CopiedFixturesPristine
  <2>8. PostDataNeverStored'
    BY <2>4, <2>6, <1>1 DEF StoreIsolated, PostDataNeverStored
  <2>9. \A n \in Map, j \in Key : store'[n][j] \in Map => store'[n][j] = Fixture[n][j]
    BY <2>4, <2>6, <1>1 DEF StoreIsolated
  <2>10. MapsIsolated(c)'
    BY <2>1 DEF MapsIsolated
  <2> QED BY <1>1, <2>1, <2>2, <2>7, <2>8, <2>9, <2>10 DEF StoreIsolated
<1> QED BY <1>2, <1>3

(* A handler that a step leaves alone stays isolated.                      *)
LEMMA OtherIsolated ==
    ASSUME NEW d \in Handler, HandlerIsolated(d),
           own'[d] = own[d], pc'[d] = pc[d], req'[d] = req[d],
           stack'[d] = stack[d], path'[d] = path[d], copy'[d] = copy[d]
    PROVE  HandlerIsolated(d)'
BY DEF HandlerIsolated, Started, MapsIsolated, StackIsolated, FrameIsolated, Sent

----------------------------------------------------------------------------
(* Initiation.                                                             *)

(* After startup, before any request, IInv holds.                          *)
LEMMA InitIInv == Init => IInv
<1> SUFFICES ASSUME Init PROVE IInv
  OBVIOUS
<1>1. (CHOOSE r \in Request : TRUE) \in Request
  BY RequestAssumption
<1>2. Blank \in [Map -> [Key -> Value]]
  BY DEF Blank, Value
<1>3. TypeOK
  <2>1. store \in [Map -> [Key -> Value]] /\ req \in [Handler -> Request]
    BY <1>1, DataAssumption DEF Init
  <2>2. /\ copy \in [Handler -> [Map -> [Key -> Value]]]
        /\ body \in [Handler -> [Map -> [Key -> Value]]]
    BY <1>2 DEF Init
  <2>3. stack \in [Handler -> Seq(Frame)]
    BY DEF Init
  <2>4. /\ own \in [Handler -> SUBSET Map]
        /\ pc \in [Handler -> Pass \cup {"idle", "mint", "done", "panicked"}]
        /\ crashed \in BOOLEAN
    BY DEF Init
  <2>5. ASSUME NEW c \in Handler PROVE pc[c] \in Pass <=> stack[c] # <<>>
    BY DEF Init, Pass
  <2>6. path \in [Handler -> PathParamsMap]
    BY DEF Init, PathParamsMap
  <2>7. ASSUME NEW c \in Handler PROVE DOMAIN path[c].old \subseteq DOMAIN req[c].secondary
    BY DEF Init
  <2> QED BY <2>1, <2>2, <2>3, <2>4, <2>5, <2>6, <2>7 DEF TypeOK
<1>4. StoreIsolated
  BY DataAssumption DEF Init, StoreIsolated, CopiedFixturesPristine, PostDataNeverStored
<1>5. ASSUME NEW c \in Handler PROVE HandlerIsolated(c)
  BY DataAssumption DEF Init, HandlerIsolated, Started, MapsIsolated, StackIsolated, Blank
<1> QED BY <1>3, <1>4, <1>5 DEF IInv

----------------------------------------------------------------------------
(* Preservation.                                                           *)

(* The map that a pass is visiting is the handler's own or exposed.        *)
LEMMA TopIsolated ==
    ASSUME TypeOK, NEW c \in Handler, StackIsolated(c), stack[c] # <<>>
    PROVE  /\ Top(c) \in Frame
           /\ FrameIsolated(c, Top(c))
           /\ pc[c] \in Pass
<1>1. stack[c] \in Seq(Frame) /\ Len(stack[c]) \in DOMAIN stack[c]
  BY DEF TypeOK
<1> QED BY <1>1 DEF Top, StackIsolated, TypeOK

(* What is left to prove of a step inside a pass of handler c.             *)
LEMMA PassStep ==
    ASSUME IInv, NEW c \in Handler, stack[c] # <<>>,
           pc' = pc, req' = req, crashed' = crashed,
           own' \in [Handler -> SUBSET Map],
           req[c].root \in own'[c],
           store' \in [Map -> [Key -> Value]],
           copy' \in [Handler -> [Map -> [Key -> Value]]],
           body' \in [Handler -> [Map -> [Key -> Value]]],
           stack' \in [Handler -> Seq(Frame)],
           stack'[c] # <<>>,
           \/ path' = path
           \/ \E p \in PathParamsMap :
                 /\ path' = [path EXCEPT ![c] = p]
                 /\ p.primary = path[c].primary
                 /\ DOMAIN p.old = DOMAIN path[c].old,
           \A d \in Handler \ {c} : /\ own'[d] = own[d]
                                    /\ copy'[d] = copy[d]
                                    /\ stack'[d] = stack[d],
           StoreIsolated', MapsIsolated(c)', StackIsolated(c)'
    PROVE  IInv'
<1>1. TypeOK /\ Started(c) /\ pc[c] \in Pass
  BY DEF IInv, HandlerIsolated, TypeOK
<1>2. /\ path' \in [Handler -> PathParamsMap]
      /\ \A d \in Handler : /\ path'[d].primary = path[d].primary
                            /\ DOMAIN path'[d].old = DOMAIN path[d].old
                            /\ d # c => path'[d] = path[d]
  BY <1>1 DEF TypeOK
<1>3. \A d \in Handler : stack'[d] # <<>> <=> stack[d] # <<>>
  OBVIOUS
<1>4. TypeOK'
  BY <1>1, <1>2, <1>3 DEF TypeOK
<1>5. HandlerIsolated(c)'
  BY <1>1, <1>2 DEF HandlerIsolated, Started
<1>6. ASSUME NEW d \in Handler \ {c} PROVE HandlerIsolated(d)'
  <2>1. path'[d] = path[d]
    BY <1>2
  <2>2. HandlerIsolated(d)
    BY DEF IInv
  <2> QED BY <2>1, <2>2, OtherIsolated
<1> QED BY <1>4, <1>5, <1>6 DEF IInv

(* Taking up a request: Generate starts with a new map for the root.       *)
LEMMA ArriveStep ==
    ASSUME IInv, NEW c \in Handler, Arrive(c) PROVE IInv'
<1>1. PICK r \in Request :
          /\ req' = [req EXCEPT ![c] = r]
          /\ path' = [path EXCEPT ![c] =
                        [primary |-> r.primary, oldPrimary |-> None,
                         old |-> [i \in DOMAIN r.secondary |-> {}]]]
          /\ own' = [own EXCEPT ![c] = {r.root}]
          /\ stack' = [stack EXCEPT ![c] =
                        <<[map |-> r.root, key |-> None, typed |-> TRUE,
                           left |-> Properties(r.root)]>>]
  BY DEF Arrive
<1>2. /\ copy' = [copy EXCEPT ![c] = Blank]
      /\ body' = [body EXCEPT ![c] = Blank]
      /\ pc' = [pc EXCEPT ![c] = "generate"]
      /\ store' = store /\ crashed' = crashed
  BY DEF Arrive
<1>3. TypeOK
  BY DEF IInv
<1>4. r.root \in Map /\ r.primary \in Text \cup {None}
  BY RequestAssumption
<1>5. Blank \in [Map -> [Key -> Value]]
  BY DEF Blank, Value
<1>6. [map |-> r.root, key |-> None, typed |-> TRUE, left |-> Properties(r.root)] \in Frame
  BY <1>4 DEF Frame, Properties
<1>7. TypeOK'
  <2>1. /\ store' \in [Map -> [Key -> Value]]
        /\ copy' \in [Handler -> [Map -> [Key -> Value]]]
        /\ body' \in [Handler -> [Map -> [Key -> Value]]]
        /\ own' \in [Handler -> SUBSET Map]
        /\ pc' \in [Handler -> Pass \cup {"idle", "mint", "done", "panicked"}]
        /\ req' \in [Handler -> Request]
        /\ crashed' \in BOOLEAN
    BY <1>1, <1>2, <1>3, <1>4, <1>5 DEF TypeOK, Pass
  <2>2. stack' \in [Handler -> Seq(Frame)]
    BY <1>1, <1>3, <1>6 DEF TypeOK
  <2>3. ASSUME NEW d \in Handler PROVE pc'[d] \in Pass <=> stack'[d] # <<>>
    BY <1>1, <1>2, <1>3 DEF TypeOK, Pass
  <2>4. path' \in [Handler -> PathParamsMap]
    <3>1. [i \in DOMAIN r.secondary |-> {}] \in Seq(SUBSET (Text \cup {None}))
      <4>1. r.secondary \in Seq([name : Name, id : Text])
        BY RequestAssumption
      <4> QED BY <4>1
    <3> QED BY <1>1, <1>3, <1>4, <3>1 DEF TypeOK, PathParamsMap
  <2>5. ASSUME NEW d \in Handler PROVE DOMAIN path'[d].old \subseteq DOMAIN req'[d].secondary
    BY <1>1, <1>3 DEF TypeOK
  <2> QED BY <2>1, <2>2, <2>3, <2>4, <2>5 DEF TypeOK
<1>8. StoreIsolated'
  BY <1>2 DEF IInv, StoreIsolated, CopiedFixturesPristine, PostDataNeverStored
<1>9. HandlerIsolated(c)'
  <2>1. /\ own'[c] = {r.root} /\ req'[c] = r /\ pc'[c] = "generate" /\ copy'[c] = Blank
        /\ path'[c].primary = r.primary
        /\ stack'[c] = <<[map |-> r.root, key |-> None, typed |-> TRUE,
                          left |-> Properties(r.root)]>>
    BY <1>1, <1>2, <1>3 DEF TypeOK
  <2>2. Started(c)'
    BY <2>1 DEF Started
  <2>3. MapsIsolated(c)'
    BY <2>1, DataAssumption DEF MapsIsolated, Blank
  <2>4. StackIsolated(c)'
    BY <2>1 DEF StackIsolated, FrameIsolated, Properties
  <2> QED BY <2>2, <2>3, <2>4 DEF HandlerIsolated
<1>10. ASSUME NEW d \in Handler \ {c} PROVE HandlerIsolated(d)'
  <2>1. /\ own'[d] = own[d] /\ pc'[d] = pc[d] /\ req'[d] = req[d]
        /\ stack'[d] = stack[d] /\ path'[d] = path[d] /\ copy'[d] = copy[d]
    BY <1>1, <1>2, <1>3 DEF TypeOK
  <2> QED BY <2>1, OtherIsolated DEF IInv
<1> QED BY <1>7, <1>8, <1>9, <1>10 DEF IInv

(* generateInternal refers to objects it copies and to exposed ones only.  *)
LEMMA GenerateStep ==
    ASSUME IInv, NEW c \in Handler, GenerateInternal(c) PROVE IInv'
<1>1. TypeOK /\ StoreIsolated /\ MapsIsolated(c) /\ StackIsolated(c) /\ Started(c)
  BY DEF IInv, HandlerIsolated
<1>2. pc[c] = "generate" /\ stack[c] # <<>>
  BY DEF GenerateInternal
<1>3. Top(c) \in Frame /\ FrameIsolated(c, Top(c))
  BY <1>1, <1>2, TopIsolated
<1> DEFINE m == Top(c).map
<1>4. m \in own[c] /\ m \in Map /\ Top(c).left \subseteq Properties(m)
  BY <1>1, <1>2, <1>3 DEF FrameIsolated, TypeOK
<1>5. /\ store' = store /\ pc' = pc /\ req' = req /\ path' = path
      /\ body' = body /\ crashed' = crashed
  BY DEF GenerateInternal
<1> DEFINE val(k) == IF FromTarget(req[c], m, k) THEN Target[m][k] ELSE store[m][k]
<1>6. PICK k \in Top(c).left :
         /\ copy' = [copy EXCEPT ![c][m][k] = val(k)]
         /\ IF CopiesInto(c, m, k, val(k))
            THEN /\ own' = [own EXCEPT ![c] = @ \cup {val(k)}]
                 /\ Entered(c, k, val(k), Properties(val(k)))
            ELSE own' = own /\ Visited(c, k)
  BY DEF GenerateInternal
<1> DEFINE v == val(k)
<1>7. k \in Key /\ Kind[m][k] # "none"
  BY <1>4 DEF Properties
<1>8. v \in Value
  BY <1>1, <1>4, <1>7, DataAssumption DEF TypeOK, Value
<1>9. /\ own' \in [Handler -> SUBSET Map]
      /\ \A d \in Handler \ {c} : own'[d] = own[d]
      /\ own[c] \subseteq own'[c]
      /\ v \in Map /\ Copies(req[c], m, k) => v \in own'[c]
  <2>1. \/ v \in Map /\ own' = [own EXCEPT ![c] = @ \cup {v}]
        \/ ~(v \in Map /\ Copies(req[c], m, k)) /\ own' = own
    BY <1>6 DEF CopiesInto
  <2>2. own \in [Handler -> SUBSET Map]
    BY <1>1 DEF TypeOK
  <2> HIDE DEF v, m
  <2> QED BY <2>1, <2>2
<1>10. /\ copy' \in [Handler -> [Map -> [Key -> Value]]]
       /\ \A d \in Handler \ {c} : copy'[d] = copy[d]
       /\ \A n \in Map, j \in Key :
             copy'[c][n][j] = IF n = m /\ j = k THEN v ELSE copy[c][n][j]
  BY <1>1, <1>4, <1>6, <1>7, <1>8 DEF TypeOK
<1>11. v \in Map => v \in own'[c] \cup Exposed
  <2>1. CASE Copies(req[c], m, k)
    BY <1>9, <2>1
  <2>2. CASE ~Copies(req[c], m, k) /\ v \in Map
    <3>1. ~FromTarget(req[c], m, k) /\ Kind[m][k] \notin {"none", "object", "wrapped", "list"}
      BY <1>7, <2>2 DEF Copies, FromTarget
    <3>2. v = Fixture[m][k]
      BY <1>1, <1>4, <1>7, <2>2, <3>1 DEF StoreIsolated
    <3> QED BY <1>4, <1>7, <2>2, <3>1, <3>2, ExposedAssumption
  <2> QED BY <2>1, <2>2
<1>12. v \in Map /\ Kind[m][k] = "object" => v \in own'[c]
  BY <1>9 DEF Copies
<1>13. MapsIsolated(c)'
  <2> SUFFICES ASSUME NEW n \in Map, NEW j \in Key, copy'[c][n][j] \in Map
               PROVE  /\ copy'[c][n][j] \in own'[c] \cup Exposed
                      /\ Kind[n][j] = "object" => copy'[c][n][j] \in own'[c]
    BY DEF MapsIsolated
  <2>1. CASE n = m /\ j = k
    <3>1. copy'[c][n][j] = v
      BY <1>10, <2>1
    <3> HIDE DEF v
    <3> QED BY <1>11, <1>12, <2>1, <3>1
  <2>2. CASE ~(n = m /\ j = k)
    <3>1. copy'[c][n][j] = copy[c][n][j]
      BY <1>10, <2>2
    <3> HIDE DEF v, m
    <3> QED BY <1>1, <1>9, <3>1 DEF MapsIsolated
  <2> QED BY <2>1, <2>2
<1>14. /\ stack' \in [Handler -> Seq(Frame)]
       /\ stack'[c] # <<>>
       /\ \A d \in Handler \ {c} : stack'[d] = stack[d]
       /\ StackIsolated(c)'
  <2>1. CASE CopiesInto(c, m, k, v)
    <3>1. v \in Map /\ v \in own'[c] /\ Entered(c, k, v, Properties(v))
      BY <1>6, <1>9, <2>1 DEF CopiesInto
    <3>2. Properties(v) \in SUBSET Key
      BY DEF Properties
    <3>3. pc'[c] = pc[c] /\ req'[c] = req[c]
      BY <1>5
    <3> HIDE DEF v
    <3> QED BY <1>1, <1>2, <1>7, <1>9, <3>1, <3>2, <3>3, EnteredIsolated
  <2>2. CASE ~CopiesInto(c, m, k, v)
    <3>1. Visited(c, k)
      BY <1>6, <2>2
    <3> QED BY <1>1, <1>2, <1>5, <1>9, <3>1, VisitedIsolated
  <2> QED BY <2>1, <2>2
<1>15. StoreIsolated'
  BY <1>1, <1>5 DEF StoreIsolated, CopiedFixturesPristine, PostDataNeverStored
<1>16. req[c].root \in own'[c]
  BY <1>1, <1>2, <1>9 DEF Started
<1>17. /\ store' \in [Map -> [Key -> Value]]
       /\ body' \in [Handler -> [Map -> [Key -> Value]]]
  BY <1>1, <1>5 DEF TypeOK
<1> HIDE DEF v, m
<1> QED BY <1>2, <1>5, <1>9, <1>10, <1>13, <1>14, <1>15, <1>16, <1>17, PassStep

(* No type assertion or nil pathParams fails in maybeGeneratePrimaryID: a  *)
(* pass starts at the root.                                                *)
LEMMA MintRuns ==
    ASSUME NEW c \in Handler, Started(c), MaybeGeneratePrimaryID(c)
    PROVE  /\ AfterMint(c) \in {"record", "replace", "write"}
           /\ AfterMint(c) = "replace" => req[c].method = "POST"
           /\ pc' = [pc EXCEPT ![c] = AfterMint(c)]
           /\ stack' = [stack EXCEPT ![c] =
                  RootFrame(c, IF AfterMint(c) = "replace" THEN Sent(c, req[c].root)
                               ELSE Present(c, req[c].root))]
<1>1. AfterMint(c) \in {"record", "replace", "write"}
  BY DEF AfterMint
<1>2. AfterMint(c) = "replace" => req[c].method = "POST"
  BY DEF AfterMint
<1>3. req[c].root \notin Binary
  BY DEF Started, MaybeGeneratePrimaryID
<1>4. ~(AfterMint(c) = "record" /\ NilPathParams(c))
  BY DEF AfterMint, ReplacesIDs
<1>5. ~Panics(c)
  BY <1>3, <1>4 DEF Panics
<1> QED BY <1>1, <1>2, <1>5 DEF MaybeGeneratePrimaryID

(* Minting an ID changes the PathParamsMap and starts a pass at the root.  *)
LEMMA MintStep ==
    ASSUME IInv, NEW c \in Handler, MaybeGeneratePrimaryID(c) PROVE IInv'
<1>1. TypeOK /\ StoreIsolated /\ MapsIsolated(c) /\ Started(c)
  BY DEF IInv, HandlerIsolated
<1>2. pc[c] = "mint"
  BY DEF MaybeGeneratePrimaryID
<1>3. /\ store' = store /\ copy' = copy /\ own' = own /\ req' = req
      /\ body' = body /\ crashed' = crashed
  BY DEF MaybeGeneratePrimaryID
<1>4. PICK start \in {"record", "replace", "write"} :
         /\ pc' = [pc EXCEPT ![c] = start]
         /\ stack' = [stack EXCEPT ![c] =
                        RootFrame(c, IF start = "replace" THEN Sent(c, req[c].root)
                                     ELSE Present(c, req[c].root))]
  BY <1>1, MintRuns
<1>5. path' = path \/ \E i \in MintedId : path' = [path EXCEPT ![c].primary = i]
  BY DEF MaybeGeneratePrimaryID
<1>6. /\ path' \in [Handler -> PathParamsMap]
      /\ \A d \in Handler : DOMAIN path'[d].old = DOMAIN path[d].old
      /\ \A d \in Handler \ {c} : path'[d] = path[d]
      /\ path'[c].primary \in {path[c].primary} \cup MintedId
  <2>1. CASE path' = path
    BY <1>1, <2>1 DEF TypeOK
  <2>2. CASE path' # path
    <3>1. PICK i \in MintedId : path' = [path EXCEPT ![c].primary = i]
      BY <1>5, <2>2
    <3>2. path[c] \in PathParamsMap /\ i \in Text
      BY <1>1, DataAssumption DEF TypeOK
    <3> DEFINE p == [path[c] EXCEPT !.primary = i]
    <3>3. p \in PathParamsMap /\ p.primary = i /\ p.old = path[c].old
      BY <3>2 DEF PathParamsMap
    <3>4. path' = [path EXCEPT ![c] = p]
      BY <3>1
    <3> HIDE DEF p
    <3> QED BY <1>1, <3>3, <3>4 DEF TypeOK
  <2> QED BY <2>1, <2>2
<1>7. req[c].root \in own[c] /\ req[c].root \in Map
  BY <1>1, <1>2 DEF Started, TypeOK
<1>8. PICK f \in Frame :
         /\ stack' = [stack EXCEPT ![c] = <<f>>]
         /\ f.map = req[c].root
         /\ start = "replace" => f.left \subseteq Sent(c, req[c].root)
  <2> DEFINE ks == IF start = "replace" THEN Sent(c, req[c].root)
                   ELSE Present(c, req[c].root)
             g == [map |-> req[c].root, key |-> None, typed |-> TRUE, left |-> ks]
  <2>1. g \in Frame
    BY <1>7 DEF Frame, Sent, Present
  <2> WITNESS g \in Frame
  <2> QED BY <1>4 DEF RootFrame
<1>9. stack'[c] = <<f>> /\ \A d \in Handler \ {c} : stack'[d] = stack[d]
  BY <1>1, <1>8 DEF TypeOK
<1>10. pc'[c] = start /\ \A d \in Handler \ {c} : pc'[d] = pc[d]
  BY <1>1, <1>4 DEF TypeOK
<1>11. StackIsolated(c)'
  <2>1. FrameIsolated(c, f)'
    BY <1>3, <1>7, <1>8, <1>10 DEF FrameIsolated, Sent
  <2>2. \A i \in DOMAIN stack'[c] : stack'[c][i] = f
    BY <1>9
  <2> QED BY <2>1, <2>2 DEF StackIsolated, FrameIsolated, Sent
<1>12. TypeOK'
  <2>1. stack' \in [Handler -> Seq(Frame)]
    BY <1>1, <1>8 DEF TypeOK
  <2>2. ASSUME NEW d \in Handler PROVE pc'[d] \in Pass <=> stack'[d] # <<>>
    <3>1. CASE d = c
      <4>1. <<f>> # <<>>
        OBVIOUS
      <4> QED BY <1>9, <1>10, <3>1, <4>1 DEF Pass
    <3>2. CASE d # c
      BY <1>1, <1>9, <1>10, <3>2 DEF TypeOK
    <3> QED BY <3>1, <3>2
  <2>3. pc' \in [Handler -> Pass \cup {"idle", "mint", "done", "panicked"}]
    BY <1>1, <1>4 DEF TypeOK, Pass
  <2> QED BY <1>1, <1>3, <1>6, <2>1, <2>2, <2>3 DEF TypeOK
<1>13. HandlerIsolated(c)'
  <2>1. Started(c)'
    BY <1>1, <1>2, <1>3, <1>6, <1>10 DEF Started
  <2>2. MapsIsolated(c)'
    BY <1>1, <1>3 DEF MapsIsolated
  <2> QED BY <1>11, <2>1, <2>2 DEF HandlerIsolated
<1>14. ASSUME NEW d \in Handler \ {c} PROVE HandlerIsolated(d)'
  BY <1>3, <1>6, <1>9, <1>10, OtherIsolated DEF IInv
<1>15. StoreIsolated'
  BY <1>1, <1>3 DEF StoreIsolated, CopiedFixturesPristine, PostDataNeverStored
<1> QED BY <1>12, <1>13, <1>14, <1>15 DEF IInv

(* A pass that descends into the object v found at key k, or stays in its  *)
(* frame; v is what the pass has read there.                               *)
LEMMA ReadIsolated ==
    ASSUME TypeOK, StoreIsolated, NEW c \in Handler, MapsIsolated(c), StackIsolated(c),
           stack[c] # <<>>, NEW k \in Top(c).left
    PROVE  /\ k \in Key
           /\ Top(c).map \in Map
           /\ Top(c).map \in own[c] \cup Exposed
           /\ Read(c, Top(c).map, k) \in Value
           /\ Read(c, Top(c).map, k) \in Map =>
                 /\ Read(c, Top(c).map, k) \in own[c] \cup Exposed
                 /\ Top(c).typed /\ Kind[Top(c).map][k] = "object" =>
                       Read(c, Top(c).map, k) \in own[c]
<1> DEFINE m == Top(c).map
<1>1. Top(c) \in Frame /\ FrameIsolated(c, Top(c))
  BY TopIsolated
<1>2. k \in Key /\ m \in Map /\ m \in own[c] \cup Exposed /\ (Top(c).typed => m \in own[c])
  BY <1>1, ExposedAssumption DEF Frame, FrameIsolated
<1>3. CASE m \in own[c]
  <2>1. Read(c, m, k) = copy[c][m][k]
    BY <1>3 DEF Read
  <2> HIDE DEF m
  <2>2. copy[c][m][k] \in Value
    BY <1>2 DEF TypeOK
  <2> QED BY <1>2, <2>1, <2>2 DEF MapsIsolated, m
<1>4. CASE m \notin own[c]
  <2>1. Read(c, m, k) = store[m][k] /\ m \in Exposed /\ ~Top(c).typed
    BY <1>2, <1>4 DEF Read
  <2> HIDE DEF m
  <2>2. store[m][k] \in Value
    BY <1>2 DEF TypeOK
  <2>3. store[m][k] \in Map => store[m][k] \in Exposed
    BY <1>2, <2>1, ExposedAssumption DEF StoreIsolated
  <2> QED BY <1>2, <2>1, <2>2, <2>3 DEF m
<1> QED BY <1>3, <1>4

(* What recordAndReplaceIDs writes is an ID of some request.               *)
LEMMA SecondaryID ==
    ASSUME NEW r \in Request, NEW i \in DOMAIN r.secondary
    PROVE  /\ r.secondary[i].id \in Text
           /\ r.secondary[i].id \in RequestIDs
           /\ r.secondary[i].name \in Name
<1> DEFINE S == [name : Name, id : Text]
<1>1. PICK s \in Seq(S) : s = r.secondary
  BY RequestAssumption
<1>2. r.secondary[i] \in S
  <2> HIDE DEF S
  <2>1. DOMAIN s = 1..Len(s)
    OBVIOUS
  <2>2. i \in 1..Len(s)
    BY <1>1, <2>1
  <2>3. s[i] \in S
    BY <2>2, ElementOfSeq
  <2> QED BY <1>1, <2>3
<1>3. r.secondary[i].id \in {r.secondary[j].id : j \in DOMAIN r.secondary}
  OBVIOUS
<1>4. {r.secondary[j].id : j \in DOMAIN r.secondary} \in
         {{q.secondary[j].id : j \in DOMAIN q.secondary} : q \in Request}
  OBVIOUS
<1> QED BY <1>2, <1>3, <1>4 DEF RequestIDs

(* recordAndReplaceIDs writes IDs, into objects of its own or exposed ones.*)
LEMMA RecordStep ==
    ASSUME IInv, NEW c \in Handler, RecordAndReplaceIDs(c) PROVE IInv'
<1>1. TypeOK /\ StoreIsolated /\ MapsIsolated(c) /\ StackIsolated(c) /\ Started(c)
  BY DEF IInv, HandlerIsolated
<1>2. pc[c] = "record" /\ stack[c] # <<>>
  BY DEF RecordAndReplaceIDs
<1>3. /\ own' = own /\ pc' = pc /\ req' = req /\ body' = body /\ crashed' = crashed
  BY DEF RecordAndReplaceIDs
<1> DEFINE f == Top(c)
           val(k) == Read(c, f.map, k)
<1>4. PICK k \in f.left :
        \/ /\ val(k) \in Map
           /\ Entered(c, k, val(k), Present(c, val(k)))
           /\ UNCHANGED <<store, copy, path>>
        \/ /\ val(k) \in Text /\ TakesPrimary(c, k)
           /\ Put(c, f.map, k, path[c].primary)
           /\ path' = [path EXCEPT ![c].oldPrimary = val(k)]
           /\ Visited(c, k)
        \/ /\ val(k) \in Text /\ ~TakesPrimary(c, k) /\ Matched(c, f, k) # {}
           /\ Put(c, f.map, k, req[c].secondary[Winner(c, f, k)].id)
           /\ path' = [path EXCEPT ![c].old =
                 [i \in DOMAIN @ |-> @[i] \cup (IF i \in Matched(c, f, k)
                                                THEN {val(k)} \ {Empty} ELSE {})]]
           /\ Visited(c, k)
        \/ /\ val(k) \notin Map
           /\ Visited(c, k)
           /\ UNCHANGED <<store, copy, path>>
  BY DEF RecordAndReplaceIDs
<1>5. /\ k \in Key /\ f.map \in Map /\ f.map \in own[c] \cup Exposed
      /\ val(k) \in Value
      /\ val(k) \in Map =>
            /\ val(k) \in own[c] \cup Exposed
            /\ f.typed /\ Kind[f.map][k] = "object" => val(k) \in own[c]
  BY <1>1, <1>2, ReadIsolated
<1> DEFINE v == val(k)
<1>6. /\ req[c].root \in own'[c] /\ own' \in [Handler -> SUBSET Map]
      /\ body' \in [Handler -> [Map -> [Key -> Value]]]
      /\ \A d \in Handler : own'[d] = own[d]
  BY <1>1, <1>2, <1>3 DEF TypeOK, Started
<1>7. path[c] \in PathParamsMap /\ req[c] \in Request
  BY <1>1 DEF TypeOK
<1>8. CASE v \in Map /\ Entered(c, k, v, Present(c, v)) /\ UNCHANGED <<store, copy, path>>
  <2>1. Present(c, v) \in SUBSET Key
    BY DEF Present
  <2>2. /\ stack' \in [Handler -> Seq(Frame)] /\ stack'[c] # <<>>
        /\ \A d \in Handler \ {c} : stack'[d] = stack[d]
        /\ StackIsolated(c)'
    <3> HIDE DEF v
    <3> QED BY <1>1, <1>2, <1>3, <1>5, <1>8, <2>1, EnteredIsolated DEF v
  <2>3. MapsIsolated(c)' /\ StoreIsolated'
    BY <1>1, <1>3, <1>8
       DEF MapsIsolated, StoreIsolated, CopiedFixturesPristine, PostDataNeverStored
  <2>4. /\ store' \in [Map -> [Key -> Value]]
        /\ copy' \in [Handler -> [Map -> [Key -> Value]]]
        /\ path' = path /\ copy' = copy
    BY <1>1, <1>8 DEF TypeOK
  <2> QED BY <1>2, <1>3, <1>6, <2>2, <2>3, <2>4, PassStep
<1>9. CASE Visited(c, k) /\ v \notin Map
  <2>1. /\ stack' \in [Handler -> Seq(Frame)] /\ stack'[c] # <<>>
        /\ \A d \in Handler \ {c} : stack'[d] = stack[d]
        /\ StackIsolated(c)'
    BY <1>1, <1>2, <1>3, <1>9, VisitedIsolated
  <2>2. CASE UNCHANGED <<store, copy, path>>
    <3>1. MapsIsolated(c)' /\ StoreIsolated'
      BY <1>1, <1>3, <2>2
         DEF MapsIsolated, StoreIsolated, CopiedFixturesPristine, PostDataNeverStored
    <3>2. /\ store' \in [Map -> [Key -> Value]]
          /\ copy' \in [Handler -> [Map -> [Key -> Value]]]
          /\ path' = path /\ copy' = copy
      BY <1>1, <2>2 DEF TypeOK
    <3> QED BY <1>2, <1>3, <1>6, <2>1, <3>1, <3>2, PassStep
  <2>3. CASE /\ v \in Text /\ TakesPrimary(c, k)
             /\ Put(c, f.map, k, path[c].primary)
             /\ path' = [path EXCEPT ![c].oldPrimary = v]
    <3>1. path[c].primary \in Text /\ path[c].primary \in RequestIDs \cup MintedId
      BY <1>1, <1>2, <1>7, <2>3 DEF TakesPrimary, PathParamsMap, Started, RequestIDs
    <3>2. path[c].primary \in Value /\ path[c].primary \notin Map
      BY <3>1, DataAssumption DEF Value
    <3>3. /\ store' \in [Map -> [Key -> Value]]
          /\ copy' \in [Handler -> [Map -> [Key -> Value]]]
          /\ StoreIsolated' /\ MapsIsolated(c)'
          /\ \A d \in Handler \ {c} : copy'[d] = copy[d]
      BY <1>1, <1>3, <1>5, <2>3, <3>1, <3>2, PutIsolated
    <3> DEFINE p == [path[c] EXCEPT !.oldPrimary = v]
    <3>4. /\ p \in PathParamsMap /\ p.primary = path[c].primary
          /\ DOMAIN p.old = DOMAIN path[c].old
      <4> HIDE DEF v
      <4> QED BY <1>7, <2>3 DEF PathParamsMap
    <3>5. path' = [path EXCEPT ![c] = p]
      BY <2>3
    <3> HIDE DEF p
    <3> QED BY <1>2, <1>3, <1>6, <2>1, <3>3, <3>4, <3>5, PassStep
  <2>4. CASE /\ v \in Text /\ Matched(c, f, k) # {}
             /\ Put(c, f.map, k, req[c].secondary[Winner(c, f, k)].id)
             /\ path' = [path EXCEPT ![c].old =
                   [i \in DOMAIN @ |-> @[i] \cup (IF i \in Matched(c, f, k)
                                                  THEN {v} \ {Empty} ELSE {})]]
    <3> DEFINE id == req[c].secondary[Winner(c, f, k)].id
    <3>1. Winner(c, f, k) \in Matched(c, f, k)
      BY <2>4 DEF Winner, Matched
    <3>2. Winner(c, f, k) \in DOMAIN req[c].secondary
      BY <3>1 DEF Matched, Params
    <3>3. id \in Text /\ id \in RequestIDs
      BY <1>7, <3>2, SecondaryID
    <3>4. id \in Value /\ id \notin Map
      BY <3>3, DataAssumption DEF Value
    <3> HIDE DEF id
    <3>5. /\ store' \in [Map -> [Key -> Value]]
          /\ copy' \in [Handler -> [Map -> [Key -> Value]]]
          /\ StoreIsolated' /\ MapsIsolated(c)'
          /\ \A d \in Handler \ {c} : copy'[d] = copy[d]
      BY <1>1, <1>3, <1>5, <2>4, <3>3, <3>4, PutIsolated DEF id
    <3> DEFINE added(i) == IF i \in Matched(c, f, k) THEN {v} \ {Empty} ELSE {}
               old == [i \in DOMAIN path[c].old |-> path[c].old[i] \cup added(i)]
               p == [path[c] EXCEPT !.old = old]
    <3>6. \A i : added(i) \subseteq Text \cup {None}
      BY <2>4
    <3>7. old \in Seq(SUBSET (Text \cup {None}))
      <4> HIDE DEF added
      <4>1. path[c].old \in Seq(SUBSET (Text \cup {None}))
        BY <1>7 DEF PathParamsMap
      <4> QED BY <3>6, <4>1
    <3>8. /\ p \in PathParamsMap /\ p.primary = path[c].primary
          /\ DOMAIN p.old = DOMAIN path[c].old
      <4>1. DOMAIN old = DOMAIN path[c].old
        OBVIOUS
      <4> HIDE DEF old
      <4> QED BY <1>7, <3>7, <4>1 DEF PathParamsMap
    <3>9. path' = [path EXCEPT ![c] = p]
      BY <2>4
    <3> HIDE DEF p
    <3> QED BY <1>2, <1>3, <1>6, <2>1, <3>5, <3>8, <3>9, PassStep
  <2> HIDE DEF v
  <2> QED BY <1>4, <1>9, <2>2, <2>3, <2>4 DEF v
<1>10. val(k) \in Text => val(k) \notin Map
  BY DataAssumption
<1> QED BY <1>4, <1>8, <1>9, <1>10

(* distributeReplacedIDs does too: each new ID is the primary one or a     *)
(* secondary one of the path.                                              *)
LEMMA DistributeStep ==
    ASSUME IInv, NEW c \in Handler, DistributeReplacedIDs(c) PROVE IInv'
<1>1. TypeOK /\ StoreIsolated /\ MapsIsolated(c) /\ StackIsolated(c) /\ Started(c)
  BY DEF IInv, HandlerIsolated
<1>2. pc[c] = "distribute" /\ stack[c] # <<>>
  BY DEF DistributeReplacedIDs
<1>3. /\ own' = own /\ pc' = pc /\ req' = req /\ path' = path
      /\ body' = body /\ crashed' = crashed
  BY DEF DistributeReplacedIDs
<1> DEFINE m == Top(c).map
           val(k) == Read(c, m, k)
<1>4. PICK k \in Top(c).left :
        \/ /\ val(k) \in Map
           /\ Entered(c, k, val(k), Present(c, val(k)))
           /\ UNCHANGED <<store, copy>>
        \/ /\ val(k) \notin Map
           /\ \E id \in NewIDs(c, val(k)) : Put(c, m, k, id)
           /\ Visited(c, k)
        \/ /\ val(k) \notin Map
           /\ Visited(c, k)
           /\ UNCHANGED <<store, copy>>
  BY DEF DistributeReplacedIDs
<1>5. /\ k \in Key /\ m \in Map /\ m \in own[c] \cup Exposed
      /\ val(k) \in Value
      /\ val(k) \in Map =>
            /\ val(k) \in own[c] \cup Exposed
            /\ Top(c).typed /\ Kind[m][k] = "object" => val(k) \in own[c]
  BY <1>1, <1>2, ReadIsolated
<1> DEFINE v == val(k)
<1>6. /\ req[c].root \in own'[c] /\ own' \in [Handler -> SUBSET Map]
      /\ body' \in [Handler -> [Map -> [Key -> Value]]]
      /\ \A d \in Handler : own'[d] = own[d]
  BY <1>1, <1>2, <1>3 DEF TypeOK, Started
<1>7. path[c] \in PathParamsMap /\ req[c] \in Request
      /\ DOMAIN path[c].old \subseteq DOMAIN req[c].secondary
  BY <1>1 DEF TypeOK
<1>8. CASE v \in Map /\ Entered(c, k, v, Present(c, v)) /\ UNCHANGED <<store, copy>>
  <2>1. Present(c, v) \in SUBSET Key
    BY DEF Present
  <2>2. /\ stack' \in [Handler -> Seq(Frame)] /\ stack'[c] # <<>>
        /\ \A d \in Handler \ {c} : stack'[d] = stack[d]
        /\ StackIsolated(c)'
    <3> HIDE DEF v
    <3> QED BY <1>1, <1>2, <1>3, <1>5, <1>8, <2>1, EnteredIsolated DEF v
  <2>3. MapsIsolated(c)' /\ StoreIsolated'
    BY <1>1, <1>3, <1>8
       DEF MapsIsolated, StoreIsolated, CopiedFixturesPristine, PostDataNeverStored
  <2>4. /\ store' \in [Map -> [Key -> Value]]
        /\ copy' \in [Handler -> [Map -> [Key -> Value]]]
        /\ copy' = copy
    BY <1>1, <1>8 DEF TypeOK
  <2> QED BY <1>2, <1>3, <1>6, <2>2, <2>3, <2>4, PassStep
<1>9. CASE Visited(c, k) /\ v \notin Map
  <2>1. /\ stack' \in [Handler -> Seq(Frame)] /\ stack'[c] # <<>>
        /\ \A d \in Handler \ {c} : stack'[d] = stack[d]
        /\ StackIsolated(c)'
    BY <1>1, <1>2, <1>3, <1>9, VisitedIsolated
  <2>2. CASE UNCHANGED <<store, copy>>
    <3>1. MapsIsolated(c)' /\ StoreIsolated'
      BY <1>1, <1>3, <2>2
         DEF MapsIsolated, StoreIsolated, CopiedFixturesPristine, PostDataNeverStored
    <3>2. /\ store' \in [Map -> [Key -> Value]]
          /\ copy' \in [Handler -> [Map -> [Key -> Value]]]
          /\ copy' = copy
      BY <1>1, <2>2 DEF TypeOK
    <3> QED BY <1>2, <1>3, <1>6, <2>1, <3>1, <3>2, PassStep
  <2>3. CASE \E id \in NewIDs(c, v) : Put(c, m, k, id)
    <3>1. PICK id \in NewIDs(c, v) : Put(c, m, k, id)
      BY <2>3
    <3>2. id \in {path[c].primary} \/ \E i \in DOMAIN req[c].secondary :
                                           id = req[c].secondary[i].id
      BY <1>7, <3>1 DEF NewIDs
    <3>3. id \in Text \cup {None} /\ id \in RequestIDs \cup MintedId
      <4>1. CASE id = path[c].primary
        BY <1>1, <1>2, <1>7, <4>1 DEF PathParamsMap, Started, RequestIDs
      <4>2. CASE \E i \in DOMAIN req[c].secondary : id = req[c].secondary[i].id
        BY <1>7, <4>2, SecondaryID
      <4> QED BY <3>2, <4>1, <4>2
    <3>4. id \in Value /\ id \notin Map
      BY <3>3, DataAssumption DEF Value
    <3>5. /\ store' \in [Map -> [Key -> Value]]
          /\ copy' \in [Handler -> [Map -> [Key -> Value]]]
          /\ StoreIsolated' /\ MapsIsolated(c)'
          /\ \A d \in Handler \ {c} : copy'[d] = copy[d]
      BY <1>1, <1>3, <1>5, <3>1, <3>3, <3>4, PutIsolated
    <3> QED BY <1>2, <1>3, <1>6, <2>1, <3>5, PassStep
  <2> HIDE DEF v
  <2> QED BY <1>4, <1>9, <2>2, <2>3 DEF v
<1> QED BY <1>4, <1>8, <1>9

(* ReplaceData writes parameters where a schema is known, so into objects  *)
(* of its own; elsewhere it only assigns a map to itself.                  *)
LEMMA ReplaceStep ==
    ASSUME IInv, NEW c \in Handler, ReplaceData(c) PROVE IInv'
<1>1. TypeOK /\ StoreIsolated /\ MapsIsolated(c) /\ StackIsolated(c) /\ Started(c)
  BY DEF IInv, HandlerIsolated
<1>2. pc[c] = "replace" /\ stack[c] # <<>>
  BY DEF ReplaceData
<1>3. /\ own' = own /\ pc' = pc /\ req' = req /\ path' = path
      /\ body' = body /\ crashed' = crashed
  BY DEF ReplaceData
<1> DEFINE f == Top(c)
           m == f.map
           val(k) == Read(c, m, k)
<1>4. PICK k \in f.left :
        \/ /\ Recurses(c, m, k)
           /\ Put(c, m, k, val(k))
           /\ Entered(c, k, val(k), Sent(c, val(k)))
        \/ /\ IsSameType(c, f, k)
           /\ Put(c, m, k, req[c].data[<<m, k>>])
           /\ Visited(c, k)
        \/ Visited(c, k) /\ UNCHANGED <<store, copy>>
  BY DEF ReplaceData
<1>5. /\ k \in Key /\ m \in Map /\ m \in own[c] \cup Exposed
      /\ val(k) \in Value
      /\ val(k) \in Map =>
            /\ val(k) \in own[c] \cup Exposed
            /\ f.typed /\ Kind[m][k] = "object" => val(k) \in own[c]
  BY <1>1, <1>2, ReadIsolated
<1> DEFINE v == val(k)
<1>6. /\ req[c].root \in own'[c] /\ own' \in [Handler -> SUBSET Map]
      /\ body' \in [Handler -> [Map -> [Key -> Value]]]
      /\ \A d \in Handler : own'[d] = own[d]
  BY <1>1, <1>2, <1>3 DEF TypeOK, Started
<1>7. CASE /\ Recurses(c, m, k)
           /\ Put(c, m, k, v)
           /\ Entered(c, k, v, Sent(c, v))
  <2>1. v \in Map
    BY <1>7 DEF Recurses
  <2>2. Sent(c, v) \in SUBSET Key
    BY DEF Sent
  <2>3. /\ stack' \in [Handler -> Seq(Frame)] /\ stack'[c] # <<>>
        /\ \A d \in Handler \ {c} : stack'[d] = stack[d]
        /\ StackIsolated(c)'
    <3> HIDE DEF v
    <3> QED BY <1>1, <1>2, <1>3, <1>5, <1>7, <2>1, <2>2, EnteredIsolated DEF v
  <2>4. /\ store' \in [Map -> [Key -> Value]]
        /\ copy' \in [Handler -> [Map -> [Key -> Value]]]
        /\ StoreIsolated' /\ MapsIsolated(c)'
        /\ \A d \in Handler \ {c} : copy'[d] = copy[d]
    BY <1>1, <1>3, <1>5, <1>7, PutIsolated
  <2> QED BY <1>2, <1>3, <1>6, <2>3, <2>4, PassStep
<1>8. CASE Visited(c, k)
  <2>1. /\ stack' \in [Handler -> Seq(Frame)] /\ stack'[c] # <<>>
        /\ \A d \in Handler \ {c} : stack'[d] = stack[d]
        /\ StackIsolated(c)'
    BY <1>1, <1>2, <1>3, <1>8, VisitedIsolated
  <2>2. CASE UNCHANGED <<store, copy>>
    <3>1. MapsIsolated(c)' /\ StoreIsolated'
      BY <1>1, <1>3, <2>2
         DEF MapsIsolated, StoreIsolated, CopiedFixturesPristine, PostDataNeverStored
    <3>2. /\ store' \in [Map -> [Key -> Value]]
          /\ copy' \in [Handler -> [Map -> [Key -> Value]]]
          /\ copy' = copy
      BY <1>1, <2>2 DEF TypeOK
    <3> QED BY <1>2, <1>3, <1>6, <2>1, <3>1, <3>2, PassStep
  <2>3. CASE IsSameType(c, f, k) /\ Put(c, m, k, req[c].data[<<m, k>>])
    <3>1. f.typed /\ req[c].data[<<m, k>>] # Nested
      BY <2>3 DEF IsSameType
    <3>2. FrameIsolated(c, f)
      BY <1>1, <1>2, TopIsolated
    <3>3. m \in own[c] /\ k \in Sent(c, m)
      BY <1>2, <3>1, <3>2 DEF FrameIsolated
    <3>4. req[c].data[<<m, k>>] \in Text
      <4>1. req[c] \in Request /\ <<m, k>> \in DOMAIN req[c].data
        BY <1>1, <3>3 DEF TypeOK, Sent
      <4> QED BY <3>1, <4>1, RequestAssumption
    <3>5. req[c].data[<<m, k>>] \in Value /\ req[c].data[<<m, k>>] \notin Map
      BY <3>4, DataAssumption DEF Value
    <3>6. /\ store' \in [Map -> [Key -> Value]]
          /\ copy' \in [Handler -> [Map -> [Key -> Value]]]
          /\ StoreIsolated' /\ MapsIsolated(c)'
          /\ \A d \in Handler \ {c} : copy'[d] = copy[d]
      BY <1>1, <1>3, <1>5, <2>3, <3>3, <3>5, PutIsolated
    <3> QED BY <1>2, <1>3, <1>6, <2>1, <3>6, PassStep
  <2>4. CASE Recurses(c, m, k) /\ Put(c, m, k, v) /\ Entered(c, k, v, Sent(c, v))
    BY <1>7, <2>4
  <2> HIDE DEF f, m, v
  <2> QED BY <1>4, <2>2, <2>3, <2>4 DEF f, m, v
<1> HIDE DEF f, m, v
<1> QED BY <1>4, <1>7, <1>8 DEF f, m, v

(* writeResponse writes nothing but the body.                              *)
LEMMA WriteStep ==
    ASSUME IInv, NEW c \in Handler, WriteResponse(c) PROVE IInv'
<1>1. TypeOK /\ StoreIsolated /\ MapsIsolated(c) /\ StackIsolated(c) /\ Started(c)
  BY DEF IInv, HandlerIsolated
<1>2. pc[c] = "write" /\ stack[c] # <<>>
  BY DEF WriteResponse
<1>3. /\ store' = store /\ copy' = copy /\ own' = own /\ pc' = pc /\ req' = req
      /\ path' = path /\ crashed' = crashed
  BY DEF WriteResponse
<1> DEFINE m == Top(c).map
           val(k) == Read(c, m, k)
<1>4. PICK k \in Top(c).left :
        /\ body' = [body EXCEPT ![c][m][k] = val(k)]
        /\ IF val(k) \in Map THEN Entered(c, k, val(k), Present(c, val(k)))
           ELSE Visited(c, k)
  BY DEF WriteResponse
<1>5. /\ k \in Key /\ m \in Map
      /\ val(k) \in Value
      /\ val(k) \in Map =>
            /\ val(k) \in own[c] \cup Exposed
            /\ Top(c).typed /\ Kind[m][k] = "object" => val(k) \in own[c]
  BY <1>1, <1>2, ReadIsolated
<1> DEFINE v == val(k)
<1>6. /\ body' \in [Handler -> [Map -> [Key -> Value]]]
      /\ req[c].root \in own'[c] /\ own' \in [Handler -> SUBSET Map]
      /\ store' \in [Map -> [Key -> Value]]
      /\ copy' \in [Handler -> [Map -> [Key -> Value]]]
  <2> HIDE DEF v
  <2> QED BY <1>1, <1>2, <1>3, <1>4, <1>5 DEF TypeOK, Started, v
<1>7. /\ stack' \in [Handler -> Seq(Frame)] /\ stack'[c] # <<>>
      /\ \A d \in Handler \ {c} : stack'[d] = stack[d]
      /\ StackIsolated(c)'
  <2>1. CASE v \in Map
    <3>1. Entered(c, k, v, Present(c, v)) /\ Present(c, v) \in SUBSET Key
      BY <1>4, <2>1 DEF Present
    <3> HIDE DEF v
    <3> QED BY <1>1, <1>2, <1>3, <1>5, <2>1, <3>1, EnteredIsolated DEF v
  <2>2. CASE v \notin Map
    <3>1. Visited(c, k)
      BY <1>4, <2>2
    <3> QED BY <1>1, <1>2, <1>3, <3>1, VisitedIsolated
  <2> QED BY <2>1, <2>2
<1>8. MapsIsolated(c)' /\ StoreIsolated'
  BY <1>1, <1>3
     DEF MapsIsolated, StoreIsolated, CopiedFixturesPristine, PostDataNeverStored
<1> QED BY <1>2, <1>3, <1>6, <1>7, <1>8, PassStep

(* A return from a recursive call drops the innermost frame only.          *)
LEMMA ReturnStep ==
    ASSUME IInv, NEW c \in Handler, Return(c) PROVE IInv'
<1>1. TypeOK /\ StoreIsolated /\ MapsIsolated(c) /\ StackIsolated(c) /\ Started(c)
  BY DEF IInv, HandlerIsolated
<1>2. /\ store' = store /\ copy' = copy /\ own' = own /\ pc' = pc /\ req' = req
      /\ path' = path /\ body' = body /\ crashed' = crashed
  BY DEF Return
<1> DEFINE n == Len(stack[c])
<1>3. stack[c] \in Seq(Frame) /\ n > 1 /\ stack' = [stack EXCEPT ![c] = Rest(c)]
  BY <1>1 DEF Return, TypeOK
<1>4. /\ Rest(c) \in Seq(Frame) /\ Len(Rest(c)) = n - 1
      /\ \A i \in 1..(n - 1) : Rest(c)[i] = stack[c][i]
  BY <1>3 DEF Rest
<1>5. stack'[c] = Rest(c) /\ \A d \in Handler \ {c} : stack'[d] = stack[d]
  BY <1>1, <1>3 DEF TypeOK
<1>6. stack' \in [Handler -> Seq(Frame)] /\ stack[c] # <<>> /\ stack'[c] # <<>>
  BY <1>1, <1>3, <1>4, <1>5 DEF TypeOK
<1>7. StackIsolated(c)'
  <2>1. ASSUME NEW i \in DOMAIN stack'[c]
        PROVE  i \in DOMAIN stack[c] /\ stack'[c][i] = stack[c][i]
    BY <1>3, <1>4, <1>5
  <2> QED BY <1>1, <1>2, <2>1 DEF StackIsolated, FrameIsolated, Sent
<1>8. req[c].root \in own'[c]
  <2>1. pc[c] \in Pass
    BY <1>1, <1>6 DEF TypeOK
  <2> QED BY <1>1, <1>2, <2>1 DEF Started, Pass
<1>9. MapsIsolated(c)' /\ StoreIsolated'
  BY <1>1, <1>2
     DEF MapsIsolated, StoreIsolated, CopiedFixturesPristine, PostDataNeverStored
<1> QED BY <1>1, <1>2, <1>5, <1>6, <1>7, <1>8, <1>9, PassStep DEF TypeOK

(* The end of a pass starts the next one at the root, or none.             *)
LEMMA EndPassStep ==
    ASSUME IInv, NEW c \in Handler, EndPass(c) PROVE IInv'
<1>1. TypeOK /\ StoreIsolated /\ MapsIsolated(c) /\ Started(c)
  BY DEF IInv, HandlerIsolated
<1>2. /\ store' = store /\ copy' = copy /\ own' = own /\ req' = req
      /\ path' = path /\ body' = body /\ crashed' = crashed
  BY DEF EndPass
<1>3. stack[c] # <<>>
  <2>1. stack[c] \in Seq(Frame) /\ Len(stack[c]) = 1
    BY <1>1 DEF EndPass, TypeOK
  <2> QED BY <2>1
<1>4. pc[c] \in Pass
  BY <1>1, <1>3 DEF TypeOK
<1>5. req[c].root \in own[c] /\ req[c].root \in Map
  BY <1>1, <1>4 DEF Started, TypeOK, Pass
<1> DEFINE next == NextPass(c)
<1>6. next \in {"mint", "done", "distribute", "replace", "write"}
  BY DEF NextPass
<1>7. next = "mint" => req[c].root \notin Binary
  BY DEF NextPass
<1>8. /\ pc'[c] = next /\ \A d \in Handler \ {c} : pc'[d] = pc[d]
      /\ pc' \in [Handler -> Pass \cup {"idle", "mint", "done", "panicked"}]
  <2>1. pc' = [pc EXCEPT ![c] = next]
    BY DEF EndPass
  <2> HIDE DEF next
  <2> QED BY <1>1, <1>6, <2>1 DEF TypeOK, Pass
<1>9. PICK s \in Seq(Frame) :
         /\ stack' = [stack EXCEPT ![c] = s]
         /\ s # <<>> <=> next \notin {"mint", "done"}
         /\ \A i \in DOMAIN s : /\ s[i].map = req[c].root
                                /\ next = "replace" => s[i].left \subseteq Sent(c, req[c].root)
  <2> DEFINE ks == IF next = "replace" THEN Sent(c, req[c].root)
                   ELSE Present(c, req[c].root)
             g == [map |-> req[c].root, key |-> None, typed |-> TRUE, left |-> ks]
  <2>1. g \in Frame /\ g.map = req[c].root /\ g.left = ks
    BY <1>5 DEF Frame, Sent, Present
  <2>2. stack' = [stack EXCEPT ![c] = IF next \in {"mint", "done"} THEN <<>> ELSE <<g>>]
    BY DEF EndPass, RootFrame
  <2> HIDE DEF next, g
  <2>3. CASE next \in {"mint", "done"}
    <3> WITNESS <<>> \in Seq(Frame)
    <3> QED BY <2>2, <2>3
  <2>4. CASE next \notin {"mint", "done"}
    <3>1. <<g>> \in Seq(Frame) /\ <<g>> # <<>> /\ \A i \in DOMAIN <<g>> : <<g>>[i] = g
      BY <2>1
    <3> USE <3>1
    <3> WITNESS <<g>> \in Seq(Frame)
    <3> QED BY <2>1, <2>2, <2>4, <3>1
  <2> QED BY <2>3, <2>4
<1> HIDE DEF next
<1>10. /\ stack'[c] = s /\ stack' \in [Handler -> Seq(Frame)]
      /\ \A d \in Handler \ {c} : stack'[d] = stack[d]
  BY <1>1, <1>9 DEF TypeOK
<1>11. TypeOK'
  <2>1. ASSUME NEW d \in Handler PROVE pc'[d] \in Pass <=> stack'[d] # <<>>
    <3>1. CASE d = c
      BY <1>6, <1>8, <1>9, <1>10, <3>1 DEF Pass
    <3>2. CASE d # c
      BY <1>1, <1>8, <1>10, <3>2 DEF TypeOK
    <3> QED BY <3>1, <3>2
  <2> QED BY <1>1, <1>2, <1>8, <1>10, <2>1 DEF TypeOK
<1>12. HandlerIsolated(c)'
  <2>1. Started(c)' /\ MapsIsolated(c)'
    BY <1>1, <1>2, <1>4, <1>6, <1>7, <1>8 DEF Started, MapsIsolated, Pass
  <2>2. pc'[c] # "generate"
    BY <1>6, <1>8
  <2>3. StackIsolated(c)'
    BY <1>2, <1>5, <1>8, <1>9, <1>10, <2>2 DEF StackIsolated, FrameIsolated, Sent
  <2> QED BY <2>1, <2>3 DEF HandlerIsolated
<1>13. ASSUME NEW d \in Handler \ {c} PROVE HandlerIsolated(d)'
  BY <1>2, <1>8, <1>10, OtherIsolated DEF IInv
<1>14. StoreIsolated'
  BY <1>1, <1>2 DEF StoreIsolated, CopiedFixturesPristine, PostDataNeverStored
<1> QED BY <1>11, <1>12, <1>13, <1>14 DEF IInv

(* Every step of the specification keeps IInv.                             *)
LEMMA NextIInv == IInv /\ [Next]_vars => IInv'
<1> SUFFICES ASSUME IInv, [Next]_vars PROVE IInv'
  OBVIOUS
<1>1. CASE \E c \in Handler : Arrive(c)
  BY <1>1, ArriveStep
<1>2. CASE \E c \in Handler : Step(c)
  <2>1. PICK c \in Handler : Step(c)
    BY <1>2
  <2>2. CASE GenerateInternal(c)
    BY <2>2, GenerateStep
  <2>3. CASE MaybeGeneratePrimaryID(c)
    BY <2>3, MintStep
  <2>4. CASE RecordAndReplaceIDs(c)
    BY <2>4, RecordStep
  <2>5. CASE DistributeReplacedIDs(c)
    BY <2>5, DistributeStep
  <2>6. CASE ReplaceData(c)
    BY <2>6, ReplaceStep
  <2>7. CASE WriteResponse(c)
    BY <2>7, WriteStep
  <2>8. CASE Return(c)
    BY <2>8, ReturnStep
  <2>9. CASE EndPass(c)
    BY <2>9, EndPassStep
  <2> QED BY <2>1, <2>2, <2>3, <2>4, <2>5, <2>6, <2>7, <2>8, <2>9 DEF Step
<1>3. CASE /\ UNCHANGED <<store, copy, own, pc, req, stack, path, body>>
           /\ crashed' \in BOOLEAN
  <2>1. TypeOK'
    BY <1>3 DEF IInv, TypeOK
  <2>2. StoreIsolated'
    BY <1>3 DEF IInv, StoreIsolated, CopiedFixturesPristine, PostDataNeverStored
  <2>3. ASSUME NEW d \in Handler PROVE HandlerIsolated(d)'
    BY <1>3, OtherIsolated DEF IInv
  <2> QED BY <2>1, <2>2, <2>3 DEF IInv
<1>4. CASE Crash
  BY <1>3, <1>4 DEF Crash
<1>5. CASE UNCHANGED vars
  BY <1>3, <1>5 DEF vars, IInv, TypeOK
<1> QED BY <1>1, <1>2, <1>4, <1>5 DEF Next

(* IInv is an invariant: it holds of the initial states and every step,    *)
(* Crash included, keeps it.                                               *)
THEOREM Isolation == Spec => []IInv
BY InitIInv, NextIInv, PTL DEF Spec

----------------------------------------------------------------------------
(* What a reader should know.                                              *)

(* Every variable has its type, and a handler has an empty call stack      *)
(* exactly when it is outside the recursive passes of generator.go.        *)
THEOREM TypeCorrect == Spec => []TypeOK
<1>1. IInv => TypeOK
  BY DEF IInv
<1> QED BY <1>1, Isolation, PTL

(* generator.go:120-131, for all requests and fixtures: no type assertion  *)
(* fails and no nil pathParams is dereferenced.                            *)
THEOREM NeverPanics == Spec => []NoPanic
<1>1. IInv => NoPanic
  BY DEF IInv, HandlerIsolated, Started, NoPanic
<1> QED BY <1>1, Isolation, PTL

(* However many requests are in flight, the passes of generator.go that    *)
(* write in place change no fixture but the exposed ones.                  *)
THEOREM FixturesPristine == Spec => []CopiedFixturesPristine
<1>1. IInv => CopiedFixturesPristine
  BY DEF IInv, StoreIsolated
<1> QED BY <1>1, Isolation, PTL

(* Even in an exposed fixture, ReplaceData leaves no request parameter:    *)
(* what is stored there is the loaded value or an ID.                      *)
THEOREM ParametersForgotten == Spec => []PostDataNeverStored
<1>1. IInv => PostDataNeverStored
  BY DEF IInv, StoreIsolated
<1> QED BY <1>1, Isolation, PTL

(* What a pass may next write in the store is exposed.                     *)
LEMMA WritesExposed ==
    ASSUME IInv, NEW c \in Handler
    PROVE  NextWrites(c) \subseteq Exposed
<1> SUFFICES ASSUME NEW m \in NextWrites(c) PROVE m \in Exposed
  OBVIOUS
<1>1. stack[c] # <<>> /\ m = Top(c).map /\ m \notin own[c]
  BY DEF NextWrites
<1>2. FrameIsolated(c, Top(c))
  BY <1>1, TopIsolated DEF IInv, HandlerIsolated
<1> QED BY <1>1, <1>2 DEF FrameIsolated

(* generator_test.go:98-127, for every number of handlers: if no fixture   *)
(* is handed out by reference, no two goroutines ever race on a map of the *)
(* store, and the Go runtime never stops the process.                      *)
THEOREM RaceFreedom == Exposed = {} => (Spec => [](NoDataRace /\ NoCrash))
<1> SUFFICES ASSUME Exposed = {} PROVE Spec => [](NoDataRace /\ NoCrash)
  OBVIOUS
<1>1. IInv => NoDataRace
  BY WritesExposed DEF NoDataRace
<1>2. Init => NoCrash
  BY DEF Init, NoCrash
<1>3. NoDataRace /\ NoCrash /\ [Next]_vars => NoCrash'
  <2> SUFFICES ASSUME NoDataRace, NoCrash, [Next]_vars PROVE NoCrash'
    OBVIOUS
  <2>1. ASSUME NEW c \in Handler, Arrive(c) \/ Step(c) PROVE crashed' = crashed
    BY <2>1 DEF Arrive, Step, GenerateInternal, MaybeGeneratePrimaryID,
                RecordAndReplaceIDs, DistributeReplacedIDs, ReplaceData,
                WriteResponse, Return, EndPass
  <2>2. ~Crash
    BY DEF Crash
  <2> QED BY <2>1, <2>2 DEF Next, vars, NoCrash
<1> QED BY <1>1, <1>2, <1>3, Isolation, PTL DEF Spec

----------------------------------------------------------------------------
(* The refinement of the abstract specification, step by step.             *)

(* What a client sees of a handler changes in no other way than by a       *)
(* request and by a response.                                              *)
LEMMA SilentSteps ==
    ASSUME NEW c \in Handler, TypeOK, pc[c] \in Pass \cup {"mint"},
           pc' = [pc EXCEPT ![c] = pc'[c]], pc'[c] \in Pass \cup {"mint"}, req' = req,
           \A d \in Handler : d # c => body'[d] = body[d]
    PROVE  UNCHANGED Mock!vars
<1> DEFINE status == [d \in Handler |-> CASE pc[d] = "idle" -> "idle"
                                          [] pc[d] = "done" -> "answered"
                                          [] OTHER -> "serving"]
           answer == [d \in Handler |-> IF pc[d] = "done" THEN body[d] ELSE Blank]
<1>1. \A d \in Handler : d # c => pc'[d] = pc[d]
  BY DEF TypeOK
<1>2. pc[c] \notin {"idle", "done"} /\ pc'[c] \notin {"idle", "done"}
  BY DEF Pass
<1>3. ASSUME NEW d \in Handler
      PROVE  /\ pc'[d] = "idle" <=> pc[d] = "idle"
             /\ pc'[d] = "done" <=> pc[d] = "done"
             /\ pc[d] = "done" => body'[d] = body[d]
  BY <1>1, <1>2
<1>4. status' = status
  BY <1>3
<1>5. answer' = answer
  BY <1>3
<1> QED BY <1>4, <1>5 DEF Mock!vars

(* A handler takes steps of its own only while it serves a request.        *)
LEMMA StepBusy ==
    ASSUME TypeOK, NEW c \in Handler, Step(c)
    PROVE  pc[c] \in Pass \cup {"mint"}
<1>1. stack[c] # <<>> => pc[c] \in Pass
  BY DEF TypeOK
<1>2. Len(stack[c]) >= 1 => stack[c] # <<>>
  OBVIOUS
<1>3. /\ GenerateInternal(c) \/ RecordAndReplaceIDs(c) \/ DistributeReplacedIDs(c)
            => stack[c] # <<>>
      /\ ReplaceData(c) \/ WriteResponse(c) => stack[c] # <<>>
  BY ONLY DEF GenerateInternal, RecordAndReplaceIDs, DistributeReplacedIDs, ReplaceData, WriteResponse
<1>4. MaybeGeneratePrimaryID(c) => pc[c] = "mint"
  BY ONLY DEF MaybeGeneratePrimaryID
<1>5. /\ Return(c) => Len(stack[c]) > 1
      /\ EndPass(c) => Len(stack[c]) = 1
  BY ONLY DEF Return, EndPass
<1>6. stack[c] = <<>> => ~(Len(stack[c]) > 1) /\ Len(stack[c]) # 1
  OBVIOUS
<1> QED BY <1>1, <1>3, <1>4, <1>5, <1>6 DEF Step

(* StatelessMock and this module mean the same response.                   *)
LEMMA SameIdeal == \A r, i : Mock!Ideal(r, i) = Ideal(r, i)
<1>1. Mock!Raw = Raw
  BY DEF Mock!Raw, Raw, Mock!Copied, Copied, Mock!Closure, Closure, Mock!Plain, Plain,
         Mock!FromTarget, FromTarget, Mock!Copies, Copies, Mock!Expanded, Expanded
<1>2. Mock!Shown = Shown
  BY <1>1 DEF Mock!Shown, Shown, Mock!Refers, Refers, Mock!Closure, Closure
<1>3. Mock!Claims = Claims
  BY <1>1, <1>2 DEF Mock!Claims, Claims, Mock!ByName, ByName, Mock!Under, Under
<1>4. Mock!Named = Named
  BY <1>1, <1>2, <1>3 DEF Mock!Named, Named, Mock!Claimed, Claimed, Mock!ID, ID,
                          Mock!ByName, ByName, Mock!Under, Under
<1>5. Mock!Old = Old
  BY <1>1, <1>2, <1>3 DEF Mock!Old, Old, Mock!OldIn, OldIn
<1>6. Mock!Renamed = Renamed
  BY <1>1, <1>4, <1>5 DEF Mock!Renamed, Renamed, Mock!Rename, Rename, Mock!ID, ID
<1>7. Mock!Asked = Asked
  BY <1>1 DEF Mock!Asked, Asked, Mock!Nests, Nests, Mock!Reflects, Reflects,
              Mock!Closure, Closure
<1>8. Mock!Final = Final
  BY <1>6, <1>7 DEF Mock!Final, Final, Mock!Reflects, Reflects, Mock!ID, ID
<1>9. Mock!Left = Left
  BY <1>8 DEF Mock!Left, Left, Mock!Refers, Refers, Mock!Closure, Closure, Mock!ID, ID
<1> QED BY <1>1, <1>8, <1>9 DEF Mock!Ideal, Ideal, Mock!Primary, Primary

(* maybeGeneratePrimaryID goes on to a pass.                               *)
LEMMA MintEnds ==
    ASSUME IInv, NEW c \in Handler, MaybeGeneratePrimaryID(c)
    PROVE  pc'[c] \in {"record", "replace", "write"}
<1>1. TypeOK /\ Started(c)
  BY DEF IInv, HandlerIsolated
<1>2. AfterMint(c) \in {"record", "replace", "write"} /\ pc' = [pc EXCEPT ![c] = AfterMint(c)]
  BY <1>1, MintRuns
<1>3. pc'[c] = AfterMint(c)
  BY <1>1, <1>2 DEF TypeOK
<1> QED BY <1>2, <1>3

(* README.md:48: a request and the response to it, which is computed by    *)
(* the passes in between, are all that a client can notice.  The detailed  *)
(* specification thus implements StatelessMock as soon as each response is *)
(* the one that StatelessMock defines.                                     *)
THEOREM StatelessMockSteps == Spec /\ []AnswersStateless => ImplementsStatelessMock
<1>1. Init => Mock!Init
  BY DEF Init, Mock!Init, Mock!NoAnswer, Blank
<1>2. IInv /\ AnswersStateless' /\ [Next]_vars => [Mock!Next]_(Mock!vars)
  <2> SUFFICES ASSUME IInv, AnswersStateless', [Next]_vars
               PROVE  Mock!Next \/ UNCHANGED Mock!vars
    OBVIOUS
  <2>1. TypeOK
    BY DEF IInv
  <2>2. CASE UNCHANGED vars \/ Crash
    BY <2>2 DEF vars, Crash, Mock!vars
  <2>3. ASSUME NEW c \in Handler, Arrive(c) PROVE Mock!Receive(c)
    <3>1. pc[c] \in {"idle", "done"} /\ pc' = [pc EXCEPT ![c] = "generate"]
          /\ body' = [body EXCEPT ![c] = Blank]
          /\ \E r \in Request : req' = [req EXCEPT ![c] = r]
      BY <2>3 DEF Arrive, IInv, HandlerIsolated, Started
    <3> QED BY <2>1, <3>1 DEF TypeOK, Mock!Receive, Mock!NoAnswer, Blank
  <2>4. ASSUME NEW c \in Handler, Step(c), pc'[c] # "done" PROVE UNCHANGED Mock!vars
    <3>1. pc' = [pc EXCEPT ![c] = pc'[c]] /\ req' = req
      BY <2>1, <2>4 DEF TypeOK, Step, GenerateInternal, MaybeGeneratePrimaryID,
         RecordAndReplaceIDs, DistributeReplacedIDs, ReplaceData, WriteResponse, Return, EndPass
    <3>2. pc[c] \in Pass \cup {"mint"}
      BY <2>1, <2>4, StepBusy
    <3>3. pc'[c] \in Pass \cup {"mint"}
      <4>1. CASE MaybeGeneratePrimaryID(c)
        BY <2>1, <4>1, MintEnds DEF Pass
      <4>2. CASE EndPass(c)
        BY <2>1, <2>4, <4>2 DEF TypeOK, Pass, EndPass, NextPass
      <4> QED
        BY <2>4, <3>2, <4>1, <4>2 DEF Step, GenerateInternal, RecordAndReplaceIDs,
           DistributeReplacedIDs, ReplaceData, WriteResponse, Return
    <3>4. \A d \in Handler : d # c => body'[d] = body[d]
      BY <2>1, <2>4 DEF TypeOK, Step, GenerateInternal, MaybeGeneratePrimaryID,
         RecordAndReplaceIDs, DistributeReplacedIDs, ReplaceData, WriteResponse, Return, EndPass
    <3> QED BY <2>1, <3>1, <3>2, <3>3, <3>4, SilentSteps
  <2>5. ASSUME NEW c \in Handler, Step(c), pc'[c] = "done" PROVE Mock!Reply(c)
    <3>1. pc[c] \in Pass \cup {"mint"}
      BY <2>1, <2>5, StepBusy
    <3>2. EndPass(c)
      <4>1. ~MaybeGeneratePrimaryID(c)
        BY <2>1, <2>5, MintEnds
      <4> QED
        BY <2>5, <3>1, <4>1 DEF Pass, Step, GenerateInternal, RecordAndReplaceIDs,
           DistributeReplacedIDs, ReplaceData, WriteResponse, Return
    <3>3. pc' = [pc EXCEPT ![c] = "done"] /\ body' = body /\ req' = req
      BY <2>1, <2>5, <3>2 DEF EndPass, TypeOK
    <3>4. PICK i \in MintedId : body'[c] = Ideal(req[c], i)
      <4>1. \E i \in MintedId : body'[c] = Ideal(req'[c], i)
        BY <2>5 DEF AnswersStateless
      <4> QED BY <3>3, <4>1
    <3> DEFINE status == [d \in Handler |-> CASE pc[d] = "idle" -> "idle"
                                             [] pc[d] = "done" -> "answered"
                                             [] OTHER -> "serving"]
               answer == [d \in Handler |-> IF pc[d] = "done" THEN body[d] ELSE Blank]
    <3>5. status[c] = "serving" /\ status' = [status EXCEPT ![c] = "answered"]
      BY <2>1, <3>1, <3>3 DEF TypeOK, Pass
    <3>6. answer' = [answer EXCEPT ![c] = body'[c]]
      BY <2>1, <3>1, <3>3 DEF TypeOK
    <3> QED BY <3>3, <3>4, <3>5, <3>6, SameIdeal DEF Mock!Reply
  <2> QED BY <2>2, <2>3, <2>4, <2>5 DEF Next, Mock!Next
<1> QED BY <1>1, <1>2, Isolation, PTL DEF Spec, ImplementsStatelessMock, Mock!Spec

----------------------------------------------------------------------------
(* What a step does to the call stack, frame by frame.                     *)

(* A loop that goes on takes one key from its own frame.                   *)
LEMMA VisitedLeft ==
    ASSUME stack \in [Handler -> Seq(Frame)],
           NEW c \in Handler, NEW k, stack[c] # <<>>, Visited(c, k)
    PROVE  /\ DOMAIN stack'[c] = DOMAIN stack[c]
           /\ Len(stack[c]) \in DOMAIN stack[c]
           /\ \A i \in DOMAIN stack[c] :
                 /\ stack'[c][i].map = stack[c][i].map
                 /\ stack'[c][i].key = stack[c][i].key
                 /\ stack'[c][i].typed = stack[c][i].typed
                 /\ stack'[c][i].left = IF i = Len(stack[c]) THEN stack[c][i].left \ {k}
                                        ELSE stack[c][i].left
           /\ \A d \in Handler \ {c} : stack'[d] = stack[d]
<1> DEFINE n == Len(stack[c])
           g == [stack[c][n] EXCEPT !.left = @ \ {k}]
           s == [stack[c] EXCEPT ![n] = g]
<1>1. stack[c] \in Seq(Frame) /\ n \in Nat /\ n >= 1 /\ DOMAIN stack[c] = 1..n
  OBVIOUS
<1>2. stack[c][n] \in Frame /\ n \in DOMAIN stack[c]
  BY <1>1
<1>3. /\ g.map = stack[c][n].map /\ g.key = stack[c][n].key /\ g.typed = stack[c][n].typed
      /\ g.left = stack[c][n].left \ {k}
  BY <1>2 DEF Frame
<1>4. stack' = [stack EXCEPT ![c] = s]
  BY DEF Visited
<1>5. DOMAIN s = DOMAIN stack[c] /\ \A i \in DOMAIN stack[c] : s[i] = IF i = n THEN g ELSE stack[c][i]
  BY <1>1
<1> HIDE DEF s, g
<1>6. stack'[c] = s /\ \A d \in Handler \ {c} : stack'[d] = stack[d]
  BY <1>4
<1> QED BY <1>2, <1>3, <1>5, <1>6

(* A recursive call does so too, and adds a frame.                         *)
LEMMA EnteredFrame ==
    ASSUME stack \in [Handler -> Seq(Frame)],
           NEW c \in Handler, NEW k \in Key, NEW v \in Map, NEW ks \in SUBSET Key,
           stack[c] # <<>>, Entered(c, k, v, ks)
    PROVE  /\ DOMAIN stack'[c] = DOMAIN stack[c] \cup {Len(stack[c]) + 1}
           /\ Len(stack[c]) \in DOMAIN stack[c] /\ Len(stack[c]) + 1 \notin DOMAIN stack[c]
           /\ \A i \in DOMAIN stack[c] :
                 /\ stack'[c][i].map = stack[c][i].map
                 /\ stack'[c][i].key = stack[c][i].key
                 /\ stack'[c][i].typed = stack[c][i].typed
                 /\ stack'[c][i].left = IF i = Len(stack[c]) THEN stack[c][i].left \ {k}
                                        ELSE stack[c][i].left
           /\ stack'[c][Len(stack[c]) + 1].map = v
           /\ stack'[c][Len(stack[c]) + 1].key =
                 (IF Kind[Top(c).map][k] \in {"list", "array"} THEN None ELSE k)
           /\ stack'[c][Len(stack[c]) + 1].typed =
                 (Top(c).typed /\ Kind[Top(c).map][k] = "object")
           /\ stack'[c][Len(stack[c]) + 1].left = ks
           /\ \A d \in Handler \ {c} : stack'[d] = stack[d]
<1> DEFINE n == Len(stack[c])
           g == [stack[c][n] EXCEPT !.left = @ \ {k}]
           s == [stack[c] EXCEPT ![n] = g]
           parent == IF Kind[Top(c).map][k] \in {"list", "array"} THEN None ELSE k
           f == [map |-> v, key |-> parent,
                 typed |-> Top(c).typed /\ Kind[Top(c).map][k] = "object", left |-> ks]
<1>1. stack[c] \in Seq(Frame) /\ n \in Nat /\ n >= 1 /\ DOMAIN stack[c] = 1..n
  OBVIOUS
<1>2. stack[c][n] \in Frame /\ n \in DOMAIN stack[c] /\ n + 1 \notin DOMAIN stack[c]
  BY <1>1
<1>3. /\ g.map = stack[c][n].map /\ g.key = stack[c][n].key /\ g.typed = stack[c][n].typed
      /\ g.left = stack[c][n].left \ {k} /\ g \in Frame
  BY <1>2 DEF Frame
<1>4. stack' = [stack EXCEPT ![c] = Append(s, f)]
  BY DEF Entered
<1>5. /\ s \in Seq(Frame) /\ Len(s) = n
      /\ \A i \in DOMAIN stack[c] : s[i] = IF i = n THEN g ELSE stack[c][i]
  BY <1>1, <1>3
<1>6. f \in Frame
  <2>1. Top(c).typed \in BOOLEAN
    BY <1>2 DEF Top, Frame
  <2> QED BY <2>1 DEF Frame
<1>7. /\ f.map = v /\ f.left = ks /\ f.key = parent
      /\ f.typed = (Top(c).typed /\ Kind[Top(c).map][k] = "object")
  OBVIOUS
<1> HIDE DEF s, g, f
<1>8. stack'[c] = Append(s, f) /\ \A d \in Handler \ {c} : stack'[d] = stack[d]
  BY <1>4
<1>9. /\ Len(stack'[c]) = n + 1 /\ stack'[c] \in Seq(Frame)
      /\ stack'[c][n + 1] = f
      /\ \A i \in 1..n : stack'[c][i] = s[i]
  <2> HIDE DEF n
  <2> QED BY <1>1, <1>5, <1>6, <1>8, AppendProperties
<1>10. DOMAIN stack'[c] = 1..(n + 1)
  BY <1>9
<1>11. 1..(n + 1) = 1..n \cup {n + 1}
  BY <1>1
<1> QED BY <1>1, <1>2, <1>3, <1>5, <1>7, <1>8, <1>9, <1>10, <1>11

(* In short.                                                               *)
LEMMA EnteredLeft ==
    ASSUME stack \in [Handler -> Seq(Frame)],
           NEW c \in Handler, NEW k \in Key, NEW v \in Map, NEW ks \in SUBSET Key,
           stack[c] # <<>>, Entered(c, k, v, ks)
    PROVE  /\ DOMAIN stack'[c] = DOMAIN stack[c] \cup {Len(stack[c]) + 1}
           /\ Len(stack[c]) \in DOMAIN stack[c] /\ Len(stack[c]) + 1 \notin DOMAIN stack[c]
           /\ \A i \in DOMAIN stack[c] :
                 /\ stack'[c][i].map = stack[c][i].map
                 /\ stack'[c][i].left = IF i = Len(stack[c]) THEN stack[c][i].left \ {k}
                                        ELSE stack[c][i].left
           /\ stack'[c][Len(stack[c]) + 1].map = v
           /\ stack'[c][Len(stack[c]) + 1].left = ks
           /\ \A d \in Handler \ {c} : stack'[d] = stack[d]
<1>1. /\ stack \in [Handler -> Seq(Frame)] /\ Entered(c, k, v, ks)
      /\ c \in Handler /\ k \in Key /\ v \in Map /\ ks \in SUBSET Key /\ stack[c] # <<>>
  OBVIOUS
<1>2. /\ DOMAIN stack'[c] = DOMAIN stack[c] \cup {Len(stack[c]) + 1}
      /\ Len(stack[c]) \in DOMAIN stack[c] /\ Len(stack[c]) + 1 \notin DOMAIN stack[c]
      /\ \A i \in DOMAIN stack[c] :
            /\ stack'[c][i].map = stack[c][i].map
            /\ stack'[c][i].key = stack[c][i].key
            /\ stack'[c][i].typed = stack[c][i].typed
            /\ stack'[c][i].left = IF i = Len(stack[c]) THEN stack[c][i].left \ {k}
                                   ELSE stack[c][i].left
      /\ stack'[c][Len(stack[c]) + 1].map = v
      /\ stack'[c][Len(stack[c]) + 1].key =
            (IF Kind[Top(c).map][k] \in {"list", "array"} THEN None ELSE k)
      /\ stack'[c][Len(stack[c]) + 1].typed =
            (Top(c).typed /\ Kind[Top(c).map][k] = "object")
      /\ stack'[c][Len(stack[c]) + 1].left = ks
      /\ \A d \in Handler \ {c} : stack'[d] = stack[d]
  BY ONLY <1>1, EnteredFrame, Zenon
<1> QED BY ONLY <1>2, Zenon

(* The innermost frame is one of the stack's.                              *)
LEMMA TopOfStack ==
    ASSUME TypeOK, NEW c \in Handler, stack[c] # <<>>
    PROVE  /\ Len(stack[c]) \in DOMAIN stack[c]
           /\ Top(c) = stack[c][Len(stack[c])]
           /\ Top(c) \in Frame
           /\ \A i \in DOMAIN stack[c] : stack[c][i] \in Frame
<1>1. stack[c] \in Seq(Frame)
  BY DEF TypeOK
<1> QED BY <1>1 DEF Top

(* A pass that starts has the root's frame only.                           *)
LEMMA RootLeft ==
    ASSUME NEW c, NEW ks
    PROVE  /\ DOMAIN RootFrame(c, ks) = {1}
           /\ RootFrame(c, ks)[1].map = req[c].root /\ RootFrame(c, ks)[1].typed
           /\ RootFrame(c, ks)[1].left = ks
<1>1. DOMAIN RootFrame(c, ks) = 1..1 /\ 1..1 = {1}
  BY DEF RootFrame
<1> QED BY <1>1 DEF RootFrame

----------------------------------------------------------------------------
(* What a write in place changes.                                          *)

(* No reference to an object appears in the store.                         *)
StoreKept == \A m \in Map, k \in Key : store'[m][k] \in Map => store'[m][k] = store[m][k]

(* A write to an own object changes that handler's view of it only; one to *)
(* another object puts no new reference there.                             *)
LEMMA PutReads ==
    ASSUME TypeOK, NEW c \in Handler, NEW m \in Map, NEW k \in Key, NEW v,
           Put(c, m, k, v), own'[c] = own[c], v \notin Map \/ v = Read(c, m, k)
    PROVE  /\ \A n \in Map, j \in Key :
                 /\ Read(c, n, j)' = IF n = m /\ j = k THEN v ELSE Read(c, n, j)
                 /\ copy'[c][n][j] = IF n = m /\ j = k /\ m \in own[c] THEN v ELSE copy[c][n][j]
           /\ \A d \in Handler \ {c} : copy'[d] = copy[d]
           /\ StoreKept
<1>1. /\ store \in [Map -> [Key -> Value]]
      /\ copy \in [Handler -> [Map -> [Key -> Value]]]
  BY DEF TypeOK
<1>2. CASE m \in own[c]
  <2>1. copy' = [copy EXCEPT ![c][m][k] = v] /\ store' = store
    BY <1>2 DEF Put
  <2>2. \A n \in Map, j \in Key : copy'[c][n][j] = IF n = m /\ j = k THEN v ELSE copy[c][n][j]
    BY <1>1, <2>1
  <2>3. \A d \in Handler \ {c} : copy'[d] = copy[d]
    BY <1>1, <2>1
  <2> QED BY <1>2, <2>1, <2>2, <2>3 DEF Read, StoreKept
<1>3. CASE m \notin own[c]
  <2>1. store' = [store EXCEPT ![m][k] = v] /\ copy' = copy
    BY <1>3 DEF Put
  <2>2. \A n \in Map, j \in Key : store'[n][j] = IF n = m /\ j = k THEN v ELSE store[n][j]
    BY <1>1, <2>1
  <2>3. Read(c, m, k) = store[m][k]
    BY <1>3 DEF Read
  <2>4. StoreKept
    BY <2>2, <2>3 DEF StoreKept
  <2> QED BY <1>3, <2>1, <2>2, <2>4 DEF Read
<1> QED BY <1>2, <1>3

(* An ID that the record pass takes from the path is a string, and given.  *)
LEMMA SecondaryGiven ==
    ASSUME TypeOK, NEW c \in Handler, NEW i \in DOMAIN req[c].secondary
    PROVE  req[c].secondary[i].id \notin Map /\ req[c].secondary[i].id \in Given(c)
<1>1. req[c] \in Request
  BY DEF TypeOK
<1>2. req[c].secondary[i].id \in Text
  BY <1>1, SecondaryID
<1>3. req[c].secondary[i].id \in {req[c].secondary[j].id : j \in DOMAIN req[c].secondary}
  OBVIOUS
<1> QED BY <1>2, <1>3, DataAssumption DEF Given

(* So is one that the distribute pass puts in the place of an old one.     *)
LEMMA NewIDGiven ==
    ASSUME TypeOK, NEW c \in Handler, NEW v, NEW id \in NewIDs(c, v)
    PROVE  id \notin Map /\ id \in Given(c)
<1>1. DOMAIN path[c].old \subseteq DOMAIN req[c].secondary /\ path[c] \in PathParamsMap
  BY DEF TypeOK
<1>2. CASE v = path[c].oldPrimary
  BY <1>1, <1>2, DataAssumption DEF NewIDs, Given, PathParamsMap
<1>3. CASE v # path[c].oldPrimary
  <2>1. PICK i \in DOMAIN path[c].old : id = req[c].secondary[i].id
    BY <1>3 DEF NewIDs
  <2> QED BY <1>1, <2>1, SecondaryGiven
<1> QED BY <1>2, <1>3

(* The Winner of the path parameters that match is one of them.            *)
LEMMA WinnerSecondary ==
    ASSUME NEW c, NEW f, NEW k, Matched(c, f, k) # {}
    PROVE  Winner(c, f, k) \in DOMAIN req[c].secondary
<1>1. Winner(c, f, k) \in Matched(c, f, k)
  BY DEF Winner, Matched
<1> QED BY <1>1 DEF Matched, Params

(* A parameter that ReplaceData reflects is a string.                      *)
LEMMA SentString ==
    ASSUME TypeOK, NEW c \in Handler, StackIsolated(c), pc[c] = "replace", stack[c] # <<>>,
           NEW k \in Top(c).left, IsSameType(c, Top(c), k)
    PROVE  /\ <<Top(c).map, k>> \in DOMAIN req[c].data
           /\ req[c].data[<<Top(c).map, k>>] \in Text
           /\ req[c].data[<<Top(c).map, k>>] \notin Map
<1>1. FrameIsolated(c, Top(c))
  BY TopIsolated
<1>2. <<Top(c).map, k>> \in DOMAIN req[c].data
  BY <1>1 DEF FrameIsolated, Sent
<1>3. req[c] \in Request /\ req[c].data[<<Top(c).map, k>>] # Nested
  BY DEF TypeOK, IsSameType
<1> QED BY <1>2, <1>3, RequestAssumption, DataAssumption

----------------------------------------------------------------------------
(* A step of one handler, seen by another.                                 *)

(* All that a step of handler c can change for handler d is the strings in *)
(* the store.                                                              *)
Untouched(d) ==
    /\ pc'[d] = pc[d] /\ req'[d] = req[d] /\ path'[d] = path[d] /\ body'[d] = body[d]
    /\ stack'[d] = stack[d] /\ own'[d] = own[d] /\ copy'[d] = copy[d]
    /\ StoreKept

(* What a step inside a pass does to the stacks of others.                 *)
LEMMA StackOfOthers ==
    ASSUME TypeOK, NEW c \in Handler, NEW k, NEW v, NEW ks,
           Visited(c, k) \/ Entered(c, k, v, ks)
    PROVE  \A d \in Handler \ {c} : stack'[d] = stack[d]
BY DEF Visited, Entered, TypeOK

(* The record pass writes IDs only, and into one handler's maps or the     *)
(* store.                                                                  *)
LEMMA RecordLocal ==
    ASSUME IInv, NEW c \in Handler, RecordAndReplaceIDs(c)
    PROVE  \A d \in Handler \ {c} : Untouched(d)
<1>1. TypeOK /\ StoreIsolated /\ MapsIsolated(c) /\ StackIsolated(c)
  BY DEF IInv, HandlerIsolated
<1>2. pc[c] = "record" /\ stack[c] # <<>>
  BY DEF RecordAndReplaceIDs
<1>3. /\ own' = own /\ pc' = pc /\ req' = req /\ body' = body
  BY DEF RecordAndReplaceIDs
<1> DEFINE f == Top(c)
           val(k) == Read(c, f.map, k)
<1>4. PICK k \in f.left :
        \/ Entered(c, k, val(k), Present(c, val(k))) /\ UNCHANGED <<store, copy, path>>
        \/ /\ TakesPrimary(c, k)
           /\ Put(c, f.map, k, path[c].primary)
           /\ path' = [path EXCEPT ![c].oldPrimary = val(k)]
           /\ Visited(c, k)
        \/ /\ Matched(c, f, k) # {}
           /\ Put(c, f.map, k, req[c].secondary[Winner(c, f, k)].id)
           /\ path' = [path EXCEPT ![c].old =
                 [i \in DOMAIN @ |-> @[i] \cup (IF i \in Matched(c, f, k)
                                                THEN {val(k)} \ {Empty} ELSE {})]]
           /\ Visited(c, k)
        \/ Visited(c, k) /\ UNCHANGED <<store, copy, path>>
  BY DEF RecordAndReplaceIDs
<1>5. k \in Key /\ f.map \in Map
  BY <1>1, <1>2, ReadIsolated
<1> HIDE DEF f, val
<1>6. \A d \in Handler \ {c} : stack'[d] = stack[d]
  BY <1>1, <1>4, StackOfOthers
<1>7. \A d \in Handler \ {c} : path'[d] = path[d]
  BY <1>1, <1>4 DEF TypeOK
<1>8. /\ \A d \in Handler \ {c} : copy'[d] = copy[d]
      /\ StoreKept
  <2>1. CASE UNCHANGED <<store, copy>>
    BY <2>1 DEF StoreKept
  <2>2. CASE TakesPrimary(c, k) /\ Put(c, f.map, k, path[c].primary)
    <3>1. path[c].primary \notin Map
      <4>1. path[c] \in PathParamsMap /\ path[c].primary # None
        BY <1>1, <2>2 DEF TypeOK, TakesPrimary
      <4> QED BY <4>1, DataAssumption DEF PathParamsMap
    <3> QED BY <1>1, <1>3, <1>5, <2>2, <3>1, PutReads
  <2>3. CASE Matched(c, f, k) # {} /\ Put(c, f.map, k, req[c].secondary[Winner(c, f, k)].id)
    <3>1. req[c].secondary[Winner(c, f, k)].id \notin Map
      BY <1>1, <2>3, WinnerSecondary, SecondaryGiven
    <3> QED BY <1>1, <1>3, <1>5, <2>3, <3>1, PutReads
  <2> QED BY <1>4, <2>1, <2>2, <2>3
<1> QED BY <1>3, <1>6, <1>7, <1>8 DEF Untouched

(* So does the distribute pass...                                          *)
LEMMA DistributeLocal ==
    ASSUME IInv, NEW c \in Handler, DistributeReplacedIDs(c)
    PROVE  \A d \in Handler \ {c} : Untouched(d)
<1>1. TypeOK /\ StoreIsolated /\ MapsIsolated(c) /\ StackIsolated(c)
  BY DEF IInv, HandlerIsolated
<1>2. pc[c] = "distribute" /\ stack[c] # <<>>
  BY DEF DistributeReplacedIDs
<1>3. /\ own' = own /\ pc' = pc /\ req' = req /\ path' = path /\ body' = body
  BY DEF DistributeReplacedIDs
<1> DEFINE m == Top(c).map
           val(k) == Read(c, m, k)
<1>4. PICK k \in Top(c).left :
        \/ Entered(c, k, val(k), Present(c, val(k))) /\ UNCHANGED <<store, copy>>
        \/ (\E id \in NewIDs(c, val(k)) : Put(c, m, k, id)) /\ Visited(c, k)
        \/ Visited(c, k) /\ UNCHANGED <<store, copy>>
  BY DEF DistributeReplacedIDs
<1>5. k \in Key /\ m \in Map
  BY <1>1, <1>2, ReadIsolated
<1> HIDE DEF m, val
<1>6. \A d \in Handler \ {c} : stack'[d] = stack[d]
  BY <1>1, <1>4, StackOfOthers
<1>7. /\ \A d \in Handler \ {c} : copy'[d] = copy[d]
      /\ StoreKept
  <2>1. CASE UNCHANGED <<store, copy>>
    BY <2>1 DEF StoreKept
  <2>2. CASE \E id \in NewIDs(c, val(k)) : Put(c, m, k, id)
    BY <1>1, <1>3, <1>5, <2>2, NewIDGiven, PutReads
  <2> QED BY <1>4, <2>1, <2>2
<1> QED BY <1>3, <1>6, <1>7 DEF Untouched

(* ... and ReplaceData writes parameters, or a map where it is already.    *)
LEMMA ReplaceLocal ==
    ASSUME IInv, NEW c \in Handler, ReplaceData(c)
    PROVE  \A d \in Handler \ {c} : Untouched(d)
<1>1. TypeOK /\ StoreIsolated /\ MapsIsolated(c) /\ StackIsolated(c)
  BY DEF IInv, HandlerIsolated
<1>2. pc[c] = "replace" /\ stack[c] # <<>>
  BY DEF ReplaceData
<1>3. /\ own' = own /\ pc' = pc /\ req' = req /\ path' = path /\ body' = body
  BY DEF ReplaceData
<1> DEFINE m == Top(c).map
           val(k) == Read(c, m, k)
<1>4. PICK k \in Top(c).left :
        \/ Put(c, m, k, val(k)) /\ Entered(c, k, val(k), Sent(c, val(k)))
        \/ /\ IsSameType(c, Top(c), k)
           /\ Put(c, m, k, req[c].data[<<m, k>>])
           /\ Visited(c, k)
        \/ Visited(c, k) /\ UNCHANGED <<store, copy>>
  BY DEF ReplaceData
<1>5. k \in Key /\ m \in Map
  BY <1>1, <1>2, ReadIsolated
<1>6. IsSameType(c, Top(c), k) => req[c].data[<<m, k>>] \notin Map
  BY <1>1, <1>2, SentString
<1>7. val(k) = Read(c, m, k)
  OBVIOUS
<1> HIDE DEF m, val
<1>8. \A d \in Handler \ {c} : stack'[d] = stack[d]
  BY <1>1, <1>4, StackOfOthers
<1>9. /\ \A d \in Handler \ {c} : copy'[d] = copy[d]
      /\ StoreKept
  <2>1. CASE UNCHANGED <<store, copy>>
    BY <2>1 DEF StoreKept
  <2>2. CASE Put(c, m, k, val(k))
    BY <1>1, <1>3, <1>5, <1>7, <2>2, PutReads
  <2>3. CASE IsSameType(c, Top(c), k) /\ Put(c, m, k, req[c].data[<<m, k>>])
    BY <1>1, <1>3, <1>5, <1>6, <2>3, PutReads
  <2> QED BY <1>4, <2>1, <2>2, <2>3
<1> QED BY <1>3, <1>8, <1>9 DEF Untouched

(* No step of a handler changes another one's own maps, call stack, path   *)
(* parameters or response.                                                 *)
LEMMA OthersUntouched ==
    ASSUME IInv, NEW c \in Handler, Arrive(c) \/ Step(c), NEW d \in Handler, d # c
    PROVE  Untouched(d)
<1>1. TypeOK
  BY DEF IInv
<1>2. CASE Arrive(c)
  BY <1>1, <1>2 DEF Arrive, TypeOK, Untouched, StoreKept
<1>3. CASE GenerateInternal(c)
  <2>1. PICK k \in Top(c).left :
           /\ \E x : copy' = [copy EXCEPT ![c][Top(c).map][k] = x]
           /\ (\E y : Entered(c, k, y, Properties(y)) /\ own' = [own EXCEPT ![c] = @ \cup {y}])
                 \/ (Visited(c, k) /\ own' = own)
    BY <1>3 DEF GenerateInternal
  <2>2. stack'[d] = stack[d]
    BY <1>1, <2>1, StackOfOthers
  <2>3. copy'[d] = copy[d] /\ own'[d] = own[d]
    BY <1>1, <2>1 DEF TypeOK
  <2> QED BY <1>3, <2>2, <2>3 DEF GenerateInternal, Untouched, StoreKept
<1>4. CASE MaybeGeneratePrimaryID(c)
  BY <1>1, <1>4 DEF MaybeGeneratePrimaryID, TypeOK, Untouched, StoreKept
<1>5. CASE RecordAndReplaceIDs(c)
  BY <1>5, RecordLocal
<1>6. CASE DistributeReplacedIDs(c)
  BY <1>6, DistributeLocal
<1>7. CASE ReplaceData(c)
  BY <1>7, ReplaceLocal
<1>8. CASE WriteResponse(c)
  <2>1. PICK k \in Top(c).left :
           /\ \E x : body' = [body EXCEPT ![c][Top(c).map][k] = x]
           /\ (\E y : Entered(c, k, y, Present(c, y))) \/ Visited(c, k)
    BY <1>8 DEF WriteResponse
  <2>2. stack'[d] = stack[d]
    BY <1>1, <2>1, StackOfOthers
  <2>3. body'[d] = body[d]
    BY <1>1, <2>1 DEF TypeOK
  <2> QED BY <1>8, <2>2, <2>3 DEF WriteResponse, Untouched, StoreKept
<1>9. CASE Return(c)
  BY <1>1, <1>9 DEF Return, TypeOK, Untouched, StoreKept
<1>10. CASE EndPass(c)
  BY <1>1, <1>10 DEF EndPass, TypeOK, Untouched, StoreKept
<1> QED BY <1>2, <1>3, <1>4, <1>5, <1>6, <1>7, <1>8, <1>9, <1>10 DEF Step

----------------------------------------------------------------------------
(* The search of the distribute pass.                                      *)

(* What SearchInv says of one handler.                                     *)
SearchOf(c) == SearchComplete(c) /\ \A m \in own[c], k \in Key : Current(c, body[c][m][k])

(* Objects are never IDs that were replaced.                               *)
LEMMA ReplacedAreIDs ==
    ASSUME TypeOK, NEW c \in Handler
    PROVE  \A v \in Replaced(c) : v \notin Map
<1>1. path[c] \in PathParamsMap
  BY DEF TypeOK
<1>2. path[c].oldPrimary \in Text \cup {None} /\ path[c].old \in Seq(SUBSET (Text \cup {None}))
  BY <1>1 DEF PathParamsMap
<1>3. \A i \in DOMAIN path[c].old : path[c].old[i] \in SUBSET (Text \cup {None})
  BY <1>2
<1>4. \A v \in Replaced(c) : v \in Text \cup {None}
  BY <1>2, <1>3 DEF Replaced
<1> QED BY <1>4, DataAssumption

(* An ID that was replaced has a new one: the distribute pass overlooks    *)
(* none.                                                                   *)
LEMMA NewIDsComplete ==
    ASSUME TypeOK, NEW c \in Handler, NEW v, NewIDs(c, v) = {}
    PROVE  v \notin Replaced(c)
<1>1. v # path[c].oldPrimary
  BY DEF NewIDs
<1> DEFINE S == {i \in DOMAIN path[c].old : v \in path[c].old[i]}
<1>2. path[c].old \in Seq(SUBSET (Text \cup {None}))
  BY DEF TypeOK, PathParamsMap
<1>3. DOMAIN path[c].old = 1..Len(path[c].old) /\ Len(path[c].old) \in Nat
  BY <1>2
<1>4. S = {}
  <2> SUFFICES ASSUME S # {} PROVE FALSE
    OBVIOUS
  <2>1. S \subseteq Nat
    BY <1>3
  <2>2. PICK i \in S : \A j \in S : i <= j
    <3> HIDE DEF S
    <3> QED BY <2>1, Least
  <2>3. \A h \in 1..(i - 1) : h \in DOMAIN path[c].old /\ v \notin path[c].old[h]
    BY <1>3, <2>1, <2>2
  <2>4. req[c].secondary[i].id \in NewIDs(c, v)
    BY <1>1, <2>2, <2>3 DEF NewIDs
  <2> QED BY <2>4
<1> QED BY <1>1, <1>4 DEF Replaced

(* While nothing has been serialised, the body is up to date.              *)
LEMMA BlankBody ==
    ASSUME TypeOK', NEW c \in Handler, body'[c] = Blank
    PROVE  /\ \A m \in own'[c], k \in Key : Current(c, body[c][m][k])'
           /\ \A m \in Map, k \in Key : body'[c][m][k] # None => m \in own'[c] \cup Exposed
<1>1. \A m \in Map, k \in Key : body'[c][m][k] = None
  BY DEF Blank
<1>2. own'[c] \subseteq Map
  BY DEF TypeOK
<1>3. None \in Given(c)'
  BY DEF Given
<1> QED BY <1>1, <1>2, <1>3 DEF Current

(* Steps of others keep a search: they put no reference into the objects   *)
(* they share.                                                             *)
LEMMA OthersSearch ==
    ASSUME NEW d \in Handler, SearchOf(d), Untouched(d)
    PROVE  SearchOf(d)'
<1>1. Replaced(d)' = Replaced(d) /\ Given(d)' = Given(d)
  BY DEF Untouched, Replaced, Given
<1>2. ASSUME NEW V \in SUBSET Map, NEW m \in V, NEW k \in Key, Settled(d, m, k, V)
      PROVE  Settled(d, m, k, V)'
  BY <1>1, <1>2 DEF Settled, Current, Read, Untouched, StoreKept
<1>3. ASSUME NEW V \in SUBSET Map, Searching(d, V) PROVE Searching(d, V)'
  BY <1>2, <1>3 DEF Searching, Unvisited, Untouched
<1>4. ASSUME NEW V \in SUBSET Map, Searched(d, V) PROVE Searched(d, V)'
  BY <1>2, <1>4 DEF Searched, Untouched
<1>5. SearchComplete(d)'
  BY <1>1, <1>3, <1>4 DEF SearchOf, SearchComplete, Untouched
<1>6. \A m \in own'[d], k \in Key : Current(d, body[d][m][k])'
  BY <1>1 DEF SearchOf, Current, Untouched
<1> QED BY <1>5, <1>6 DEF SearchOf

(* A search goes on from a key that is settled...                          *)
LEMMA SearchVisited ==
    ASSUME TypeOK, NEW c \in Handler, NEW V \in SUBSET Map,
           NEW m \in Map, NEW k \in Key, stack[c] # <<>>, m = Top(c).map, Visited(c, k),
           own'[c] = own[c], path'[c] = path[c], req'[c] = req[c],
           \A n \in Map, j \in Key : n # m \/ j # k =>
               Read(c, n, j)' = Read(c, n, j) /\ copy'[c][n][j] = copy[c][n][j],
           Settled(c, m, k, V)'
    PROVE  /\ Searching(c, V) => Searching(c, V)'
           /\ Searched(c, V) => Searched(c, V)'
<1>1. stack \in [Handler -> Seq(Frame)]
  BY DEF TypeOK
<1>2. /\ DOMAIN stack'[c] = DOMAIN stack[c]
      /\ Len(stack[c]) \in DOMAIN stack[c]
      /\ \A i \in DOMAIN stack[c] :
            /\ stack'[c][i].map = stack[c][i].map
            /\ stack'[c][i].left = IF i = Len(stack[c]) THEN stack[c][i].left \ {k}
                                   ELSE stack[c][i].left
  BY <1>1, VisitedLeft
<1>3. stack[c][Len(stack[c])].map = m
  BY DEF Top
<1>4. ASSUME NEW n, NEW j, Unvisited(c, n, j), n # m \/ j # k PROVE Unvisited(c, n, j)'
  BY <1>2, <1>3, <1>4 DEF Unvisited
<1>5. Replaced(c)' = Replaced(c) /\ Given(c)' = Given(c)
  BY DEF Replaced, Given
<1>6. ASSUME NEW n \in V, NEW j \in Key, Settled(c, n, j, V) PROVE Settled(c, n, j, V)'
  BY <1>5, <1>6 DEF Settled, Current
<1>7. Searching(c, V) => Searching(c, V)'
  BY <1>4, <1>6 DEF Searching
<1>8. Searched(c, V) => Searched(c, V)'
  BY <1>2, <1>6 DEF Searched
<1> QED BY <1>7, <1>8

(* ... and into an object, whose keys are visited next, unless it has been *)
(* found before.                                                           *)
LEMMA SearchEntered ==
    ASSUME TypeOK, NEW c \in Handler, NEW V \in SUBSET Map, Searching(c, V),
           NEW k \in Key, NEW v \in Map, stack[c] # <<>>, Top(c).map \in Map,
           v = Read(c, Top(c).map, k), Entered(c, k, v, Present(c, v)),
           own'[c] = own[c], path'[c] = path[c], req'[c] = req[c],
           store' = store, copy' = copy
    PROVE  Searching(c, V \cup {v})'
<1>1. PICK m \in Map : m = Top(c).map
  OBVIOUS
<1>2. PICK ks \in SUBSET Key : ks = Present(c, v)
  BY DEF Present
<1>3. /\ stack \in [Handler -> Seq(Frame)] /\ Entered(c, k, v, ks)
      /\ c \in Handler /\ k \in Key /\ v \in Map /\ ks \in SUBSET Key /\ stack[c] # <<>>
  BY <1>2 DEF TypeOK
<1>4. /\ DOMAIN stack'[c] = DOMAIN stack[c] \cup {Len(stack[c]) + 1}
      /\ Len(stack[c]) \in DOMAIN stack[c] /\ Len(stack[c]) + 1 \notin DOMAIN stack[c]
      /\ \A i \in DOMAIN stack[c] :
            /\ stack'[c][i].map = stack[c][i].map
            /\ stack'[c][i].left = IF i = Len(stack[c]) THEN stack[c][i].left \ {k}
                                   ELSE stack[c][i].left
      /\ stack'[c][Len(stack[c]) + 1].map = v
      /\ stack'[c][Len(stack[c]) + 1].left = ks
  BY ONLY <1>3, EnteredLeft, Zenon
<1>5. stack[c][Len(stack[c])].map = m
  BY <1>1 DEF Top
<1> DEFINE W == V \cup {v}
<1>6. ASSUME NEW n, NEW j, Unvisited(c, n, j), n # m \/ j # k PROVE Unvisited(c, n, j)'
  BY <1>4, <1>5, <1>6 DEF Unvisited
<1>7. Replaced(c)' = Replaced(c) /\ Given(c)' = Given(c)
  BY DEF Replaced, Given
<1>8. ASSUME NEW n, NEW j, Settled(c, n, j, V) PROVE Settled(c, n, j, W)'
  BY <1>7, <1>8 DEF Settled, Current, Read
<1>9. Settled(c, m, k, W)'
  <2>1. Current(c, v)
    BY ReplacedAreIDs DEF Current
  <2>2. m \in own[c] => copy[c][m][k] = v
    BY <1>1 DEF Read
  <2>3. Read(c, m, k)' = v
    BY <1>1 DEF Read
  <2> QED BY <1>7, <2>1, <2>2, <2>3 DEF Settled, Current
<1>10. ASSUME NEW j \in Key PROVE Unvisited(c, v, j)' \/ Settled(c, v, j, W)'
  <2>1. CASE j \in Present(c, v)
    BY <1>4, <1>2, <2>1 DEF Unvisited
  <2>2. CASE j \notin Present(c, v)
    <3>1. Read(c, v, j)' = None /\ (v \in own[c] => copy[c][v][j] = None)
      BY <2>2 DEF Present, Read
    <3>2. None \in Given(c)' /\ None \notin Map
      BY DataAssumption DEF Given
    <3> QED BY <3>1, <3>2 DEF Settled, Current
  <2> QED BY <2>1, <2>2
<1> HIDE DEF W
<1>11. ASSUME NEW n \in V, NEW j \in Key PROVE Unvisited(c, n, j)' \/ Settled(c, n, j, W)'
  BY <1>6, <1>8, <1>9 DEF Searching
<1>12. req'[c].root \in W
  BY DEF Searching, W
<1> QED BY <1>10, <1>11, <1>12 DEF Searching, W

----------------------------------------------------------------------------
(* SearchInv is inductive: each step of handler c keeps c's part of it.    *)

(* A request that arrives has replaced nothing yet.                        *)
LEMMA ArriveSearch ==
    ASSUME IInv, IInv', NEW c \in Handler, Arrive(c)
    PROVE  SearchOf(c)'
<1>1. TypeOK /\ TypeOK'
  BY DEF IInv
<1>2. pc'[c] = "generate" /\ body'[c] = Blank
  BY <1>1 DEF Arrive, TypeOK
<1>3. \E r \in Request :
        path'[c] = [primary |-> r.primary, oldPrimary |-> None,
                    old |-> [i \in DOMAIN r.secondary |-> {}]]
  BY <1>1 DEF Arrive, TypeOK
<1>4. path'[c].oldPrimary = None /\ \A i \in DOMAIN path'[c].old : path'[c].old[i] = {}
  BY <1>3
<1>5. Replaced(c)' = {None}
  BY <1>4 DEF Replaced
<1>6. /\ \A m \in own'[c], k \in Key : Current(c, body[c][m][k])'
      /\ \A m \in Map, k \in Key : body'[c][m][k] # None => m \in own'[c] \cup Exposed
  BY <1>1, <1>2, BlankBody
<1> QED BY <1>2, <1>5, <1>6 DEF SearchOf, SearchComplete

(* generateInternal replaces nothing either.                               *)
LEMMA GenerateSearch ==
    ASSUME IInv, IInv', NEW c \in Handler, SearchOf(c), GenerateInternal(c)
    PROVE  SearchOf(c)'
<1>1. pc[c] = "generate" /\ pc' = pc /\ req' = req /\ path' = path /\ body' = body
  BY DEF GenerateInternal
<1>2. body'[c] = Blank /\ Replaced(c)' = {None}
  BY <1>1 DEF SearchOf, SearchComplete, Replaced
<1>3. /\ \A m \in own'[c], k \in Key : Current(c, body[c][m][k])'
      /\ \A m \in Map, k \in Key : body'[c][m][k] # None => m \in own'[c] \cup Exposed
  BY <1>2, BlankBody DEF IInv
<1> QED BY <1>1, <1>2, <1>3 DEF SearchOf, SearchComplete

(* If the ID passes are skipped there is nothing to search for.            *)
LEMMA MintSearch ==
    ASSUME IInv, IInv', NEW c \in Handler, SearchOf(c), MaybeGeneratePrimaryID(c)
    PROVE  SearchOf(c)'
<1>1. TypeOK /\ TypeOK'
  BY DEF IInv
<1>2. /\ pc[c] = "mint" /\ own' = own /\ req' = req /\ body' = body
      /\ store' = store /\ copy' = copy
  BY DEF MaybeGeneratePrimaryID
<1>3. /\ pc'[c] \in {"record", "replace", "write"}
      /\ pc'[c] = "replace" => req[c].method = "POST"
      /\ pc'[c] # "record" => path' = path
  <2>1. Started(c)
    BY DEF IInv, HandlerIsolated
  <2>2. /\ AfterMint(c) \in {"record", "replace", "write"}
        /\ AfterMint(c) = "replace" => req[c].method = "POST"
        /\ pc' = [pc EXCEPT ![c] = AfterMint(c)]
    BY <2>1, MintRuns
  <2>3. pc'[c] = AfterMint(c)
    BY <1>1, <2>2 DEF TypeOK
  <2>4. AfterMint(c) # "record" => ~Mints(c)
    BY DEF AfterMint, ReplacesIDs, NilPathParams
  <2>5. ~Mints(c) => path' = path
    BY DEF MaybeGeneratePrimaryID
  <2> QED BY <2>2, <2>3, <2>4, <2>5
<1>4. body'[c] = Blank /\ Replaced(c) = {None}
  BY <1>2 DEF SearchOf, SearchComplete
<1>5. /\ \A m \in own'[c], k \in Key : Current(c, body[c][m][k])'
      /\ \A m \in Map, k \in Key : body'[c][m][k] # None => m \in own'[c] \cup Exposed
  BY <1>1, <1>4, BlankBody
<1>6. pc'[c] \in {"replace", "write"} => \E V \in SUBSET Map : Searched(c, V)'
  <2> SUFFICES ASSUME pc'[c] \in {"replace", "write"} PROVE \E V \in SUBSET Map : Searched(c, V)'
    OBVIOUS
  <2>1. Replaced(c)' = {None} /\ None \in Given(c)'
    BY <1>3, <1>4 DEF Replaced, Given
  <2>2. req'[c].root \in Map
    BY <1>1, RequestAssumption DEF TypeOK
  <2>3. ASSUME NEW i \in DOMAIN stack'[c] PROVE stack'[c][i].map \in Map
    <3>1. stack'[c] \in Seq(Frame)
      BY <1>1 DEF TypeOK
    <3>2. stack'[c][i] \in Frame
      BY <3>1
    <3> QED BY <3>2 DEF Frame
  <2>4. Searched(c, Map)'
    BY <2>1, <2>2, <2>3 DEF Searched, Settled, Current
  <2> QED BY <2>4
<1> QED BY <1>2, <1>3, <1>4, <1>5, <1>6 DEF SearchOf, SearchComplete

(* The record pass serialises nothing, and the search is still to come.    *)
LEMMA RecordSearch ==
    ASSUME IInv, IInv', NEW c \in Handler, SearchOf(c), RecordAndReplaceIDs(c)
    PROVE  SearchOf(c)'
<1>1. pc[c] = "record" /\ pc' = pc /\ body' = body
  BY DEF RecordAndReplaceIDs
<1>2. body'[c] = Blank
  BY <1>1 DEF SearchOf, SearchComplete
<1>3. /\ \A m \in own'[c], k \in Key : Current(c, body[c][m][k])'
      /\ \A m \in Map, k \in Key : body'[c][m][k] # None => m \in own'[c] \cup Exposed
  BY <1>2, BlankBody DEF IInv
<1> QED BY <1>1, <1>2, <1>3 DEF SearchOf, SearchComplete

(* One step of the search: an object is entered; or an old ID gets its new *)
(* one; or the value is no old ID.                                         *)
LEMMA DistributeSearch ==
    ASSUME IInv, IInv', NEW c \in Handler, SearchOf(c), DistributeReplacedIDs(c)
    PROVE  SearchOf(c)'
<1>1. TypeOK /\ TypeOK' /\ StoreIsolated /\ MapsIsolated(c) /\ StackIsolated(c)
  BY DEF IInv, HandlerIsolated
<1>2. pc[c] = "distribute" /\ stack[c] # <<>>
  BY DEF DistributeReplacedIDs
<1>3. own' = own /\ pc' = pc /\ req' = req /\ path' = path /\ body' = body
  BY DEF DistributeReplacedIDs
<1>4. PICK m \in Map, k \in Key : m = Top(c).map /\ k \in Top(c).left /\
        \/ /\ Read(c, m, k) \in Map
           /\ Entered(c, k, Read(c, m, k), Present(c, Read(c, m, k)))
           /\ UNCHANGED <<store, copy>>
        \/ /\ Read(c, m, k) \notin Map
           /\ \E id \in NewIDs(c, Read(c, m, k)) : Put(c, m, k, id)
           /\ Visited(c, k)
        \/ /\ Read(c, m, k) \notin Map /\ NewIDs(c, Read(c, m, k)) = {}
           /\ Visited(c, k)
           /\ UNCHANGED <<store, copy>>
  <2>1. PICK k \in Top(c).left :
        \/ /\ Read(c, Top(c).map, k) \in Map
           /\ Entered(c, k, Read(c, Top(c).map, k), Present(c, Read(c, Top(c).map, k)))
           /\ UNCHANGED <<store, copy>>
        \/ /\ Read(c, Top(c).map, k) \notin Map
           /\ \E id \in NewIDs(c, Read(c, Top(c).map, k)) : Put(c, Top(c).map, k, id)
           /\ Visited(c, k)
        \/ /\ Read(c, Top(c).map, k) \notin Map /\ NewIDs(c, Read(c, Top(c).map, k)) = {}
           /\ Visited(c, k)
           /\ UNCHANGED <<store, copy>>
    BY DEF DistributeReplacedIDs
  <2>2. Top(c).map \in Map /\ k \in Key
    BY <1>1, <1>2, ReadIsolated
  <2> QED BY <2>1, <2>2
<1>5. PICK v : v = Read(c, m, k)
  OBVIOUS
<1>6. PICK V \in SUBSET Map : Searching(c, V)
  BY <1>2 DEF SearchOf, SearchComplete
<1>7. CASE v \in Map /\ Entered(c, k, v, Present(c, v)) /\ UNCHANGED <<store, copy>>
  <2>1. Searching(c, V \cup {v})'
    BY <1>1, <1>2, <1>3, <1>4, <1>5, <1>6, <1>7, SearchEntered
  <2>2. V \cup {v} \in SUBSET Map
    BY <1>7
  <2>3. \E W \in SUBSET Map : Searching(c, W)'
    BY <2>1, <2>2
  <2> QED BY <1>2, <1>3, <2>3 DEF SearchOf, SearchComplete, Current, Replaced, Given
<1>8. CASE v \notin Map /\ Visited(c, k)
           /\ (\E id \in NewIDs(c, v) : Put(c, m, k, id))
  <2>1. PICK id \in NewIDs(c, v) : Put(c, m, k, id)
    BY <1>8
  <2>2. id \notin Map /\ id \in Given(c)
    BY <1>1, NewIDGiven
  <2>3. \A n \in Map, j \in Key :
           /\ Read(c, n, j)' = IF n = m /\ j = k THEN id ELSE Read(c, n, j)
           /\ copy'[c][n][j] = IF n = m /\ j = k /\ m \in own[c] THEN id ELSE copy[c][n][j]
    BY <1>1, <1>3, <2>1, <2>2, PutReads
  <2>4. Given(c)' = Given(c)
    BY <1>3 DEF Given
  <2>5. Settled(c, m, k, V)'
    BY <1>3, <2>2, <2>3, <2>4 DEF Settled, Current
  <2>6. Searching(c, V)'
    BY <1>1, <1>2, <1>3, <1>4, <1>6, <1>8, <2>3, <2>5, SearchVisited
  <2>7. \E W \in SUBSET Map : Searching(c, W)'
    BY <2>6
  <2> QED BY <1>2, <1>3, <2>7 DEF SearchOf, SearchComplete, Current, Replaced, Given
<1>9. CASE v \notin Map /\ Visited(c, k) /\ NewIDs(c, v) = {} /\ UNCHANGED <<store, copy>>
  <2>1. v \notin Replaced(c) /\ Replaced(c)' = Replaced(c)
    BY <1>1, <1>3, <1>9, NewIDsComplete DEF Replaced
  <2>2. \A n \in Map, j \in Key :
           Read(c, n, j)' = Read(c, n, j) /\ copy'[c][n][j] = copy[c][n][j]
    BY <1>3, <1>9 DEF Read
  <2>3. m \in own[c] => copy[c][m][k] = v
    BY <1>5 DEF Read
  <2>4. Settled(c, m, k, V)'
    BY <1>3, <1>5, <1>9, <2>1, <2>2, <2>3 DEF Settled, Current
  <2>5. Searching(c, V)'
    BY <1>1, <1>2, <1>3, <1>4, <1>6, <1>9, <2>2, <2>4, SearchVisited
  <2>6. \E W \in SUBSET Map : Searching(c, W)'
    BY <2>5
  <2> QED BY <1>2, <1>3, <2>6 DEF SearchOf, SearchComplete, Current, Replaced, Given
<1> QED BY <1>4, <1>5, <1>7, <1>8, <1>9

(* A search that is over stays over while parameters are reflected: they   *)
(* are given, and a map is assigned to itself.                             *)
LEMMA ReplaceSearch ==
    ASSUME IInv, IInv', NEW c \in Handler, SearchOf(c), ReplaceData(c)
    PROVE  SearchOf(c)'
<1>1. TypeOK /\ TypeOK' /\ StoreIsolated /\ MapsIsolated(c) /\ StackIsolated(c)
  BY DEF IInv, HandlerIsolated
<1>2. pc[c] = "replace" /\ stack[c] # <<>>
  BY DEF ReplaceData
<1>3. own' = own /\ pc' = pc /\ req' = req /\ path' = path /\ body' = body
  BY DEF ReplaceData
<1>4. PICK m \in Map, k \in Key : m = Top(c).map /\ k \in Top(c).left /\
        \/ /\ Read(c, m, k) \in Map
           /\ Put(c, m, k, Read(c, m, k))
           /\ Entered(c, k, Read(c, m, k), Sent(c, Read(c, m, k)))
        \/ /\ IsSameType(c, Top(c), k)
           /\ Put(c, m, k, req[c].data[<<m, k>>])
           /\ Visited(c, k)
        \/ Visited(c, k) /\ UNCHANGED <<store, copy>>
  <2>1. PICK k \in Top(c).left :
        \/ /\ Read(c, Top(c).map, k) \in Map
           /\ Put(c, Top(c).map, k, Read(c, Top(c).map, k))
           /\ Entered(c, k, Read(c, Top(c).map, k), Sent(c, Read(c, Top(c).map, k)))
        \/ /\ IsSameType(c, Top(c), k)
           /\ Put(c, Top(c).map, k, req[c].data[<<Top(c).map, k>>])
           /\ Visited(c, k)
        \/ Visited(c, k) /\ UNCHANGED <<store, copy>>
    BY DEF ReplaceData, Recurses
  <2>2. Top(c).map \in Map /\ k \in Key
    BY <1>1, <1>2, ReadIsolated
  <2> QED BY <2>1, <2>2
<1>5. PICK v : v = Read(c, m, k)
  OBVIOUS
<1>6. PICK V \in SUBSET Map : Searched(c, V)
  BY <1>2 DEF SearchOf, SearchComplete
<1>7. m \in V
  BY <1>1, <1>2, <1>4, <1>6, TopOfStack DEF Searched
<1>8. Given(c)' = Given(c) /\ Replaced(c)' = Replaced(c)
  BY <1>3 DEF Given, Replaced
<1>9. Searched(c, V)'
  <2>1. CASE v \in Map /\ Put(c, m, k, v) /\ Entered(c, k, v, Sent(c, v))
    <3>1. \A n \in Map, j \in Key :
             Read(c, n, j)' = Read(c, n, j) /\ copy'[c][n][j] = copy[c][n][j]
      <4>1. \A n \in Map, j \in Key :
               /\ Read(c, n, j)' = IF n = m /\ j = k THEN v ELSE Read(c, n, j)
               /\ copy'[c][n][j] = IF n = m /\ j = k /\ m \in own[c] THEN v ELSE copy[c][n][j]
        BY <1>1, <1>3, <1>5, <2>1, PutReads
      <4>2. m \in own[c] => copy[c][m][k] = v
        BY <1>5 DEF Read
      <4> QED BY <1>5, <4>1, <4>2
    <3>2. PICK ks \in SUBSET Key : ks = Sent(c, v)
      BY DEF Sent
    <3>3. /\ stack \in [Handler -> Seq(Frame)] /\ Entered(c, k, v, ks)
          /\ c \in Handler /\ k \in Key /\ v \in Map /\ ks \in SUBSET Key /\ stack[c] # <<>>
      BY <1>1, <1>2, <2>1, <3>2 DEF TypeOK
    <3>4. /\ DOMAIN stack'[c] = DOMAIN stack[c] \cup {Len(stack[c]) + 1}
          /\ \A i \in DOMAIN stack[c] : stack'[c][i].map = stack[c][i].map
          /\ stack'[c][Len(stack[c]) + 1].map = v
      BY ONLY <3>3, EnteredLeft, ZenonT(40)
    <3>5. v \in V
      BY <1>5, <1>6, <1>7, <2>1 DEF Searched, Settled
    <3>6. \A i \in DOMAIN stack'[c] : stack'[c][i].map \in V
      BY <1>6, <3>4, <3>5 DEF Searched
    <3>7. ASSUME NEW n \in V, NEW j \in Key PROVE Settled(c, n, j, V)'
      BY <1>3, <1>6, <1>8, <3>1 DEF Searched, Settled, Current
    <3> QED BY <1>3, <1>6, <3>6, <3>7 DEF Searched
  <2>2. CASE /\ IsSameType(c, Top(c), k)
             /\ Put(c, m, k, req[c].data[<<m, k>>])
             /\ Visited(c, k)
    <3>1. PICK t : t = req[c].data[<<m, k>>]
      OBVIOUS
    <3>2. <<m, k>> \in DOMAIN req[c].data /\ t \notin Map
      BY <1>1, <1>2, <1>4, <2>2, <3>1, SentString
    <3>3. t \in Given(c)
      <4>1. req[c].method = "POST"
        BY <1>2 DEF SearchOf, SearchComplete
      <4> QED BY <3>1, <3>2, <4>1 DEF Given
    <3>4. \A n \in Map, j \in Key :
             /\ Read(c, n, j)' = IF n = m /\ j = k THEN t ELSE Read(c, n, j)
             /\ copy'[c][n][j] = IF n = m /\ j = k /\ m \in own[c] THEN t ELSE copy[c][n][j]
      BY <1>1, <1>3, <2>2, <3>1, <3>2, PutReads
    <3>5. Settled(c, m, k, V)'
      BY <1>3, <1>8, <3>2, <3>3, <3>4 DEF Settled, Current
    <3> QED BY <1>1, <1>2, <1>3, <1>4, <1>6, <2>2, <3>4, <3>5, SearchVisited
  <2>3. CASE Visited(c, k) /\ UNCHANGED <<store, copy>>
    <3>1. \A n \in Map, j \in Key :
             Read(c, n, j)' = Read(c, n, j) /\ copy'[c][n][j] = copy[c][n][j]
      BY <1>3, <2>3 DEF Read
    <3>2. Settled(c, m, k, V)'
      BY <1>3, <1>6, <1>7, <1>8, <3>1 DEF Searched, Settled, Current
    <3> QED BY <1>1, <1>2, <1>3, <1>4, <1>6, <2>3, <3>1, <3>2, SearchVisited
  <2> QED BY <1>4, <1>5, <2>1, <2>2, <2>3
<1>10. \E W \in SUBSET Map : Searched(c, W)'
  BY <1>9
<1> QED BY <1>2, <1>3, <1>8, <1>10 DEF SearchOf, SearchComplete, Current

(* writeResponse serialises what has been searched.                        *)
LEMMA WriteSearch ==
    ASSUME IInv, IInv', NEW c \in Handler, SearchOf(c), WriteResponse(c)
    PROVE  SearchOf(c)'
<1>1. TypeOK /\ TypeOK' /\ StoreIsolated /\ MapsIsolated(c) /\ StackIsolated(c)
  BY DEF IInv, HandlerIsolated
<1>2. pc[c] = "write" /\ stack[c] # <<>>
  BY DEF WriteResponse
<1>3. /\ store' = store /\ copy' = copy /\ own' = own /\ pc' = pc /\ req' = req
      /\ path' = path
  BY DEF WriteResponse
<1>4. PICK m \in Map, k \in Key :
        /\ m = Top(c).map /\ k \in Top(c).left /\ m \in own[c] \cup Exposed
        /\ body' = [body EXCEPT ![c][m][k] = Read(c, m, k)]
        /\ IF Read(c, m, k) \in Map
           THEN Entered(c, k, Read(c, m, k), Present(c, Read(c, m, k)))
           ELSE Visited(c, k)
  <2>1. PICK k \in Top(c).left :
        /\ body' = [body EXCEPT ![c][Top(c).map][k] = Read(c, Top(c).map, k)]
        /\ IF Read(c, Top(c).map, k) \in Map
           THEN Entered(c, k, Read(c, Top(c).map, k), Present(c, Read(c, Top(c).map, k)))
           ELSE Visited(c, k)
    BY DEF WriteResponse
  <2>2. Top(c).map \in Map /\ k \in Key /\ Top(c).map \in own[c] \cup Exposed
    BY <1>1, <1>2, ReadIsolated
  <2> QED BY <2>1, <2>2
<1>5. PICK v : v = Read(c, m, k)
  OBVIOUS
<1>6. PICK V \in SUBSET Map : Searched(c, V)
  BY <1>2 DEF SearchOf, SearchComplete
<1>7. m \in V
  BY <1>1, <1>2, <1>4, <1>6, TopOfStack DEF Searched
<1>8. Given(c)' = Given(c) /\ Replaced(c)' = Replaced(c)
  BY <1>3 DEF Given, Replaced
<1>9. \A n \in Map, j \in Key :
         Read(c, n, j)' = Read(c, n, j) /\ copy'[c][n][j] = copy[c][n][j]
  BY <1>3 DEF Read
<1>10. ASSUME NEW n \in V, NEW j \in Key PROVE Settled(c, n, j, V)'
  BY <1>3, <1>6, <1>8, <1>9 DEF Searched, Settled, Current
<1>11. Searched(c, V)'
  <2>1. CASE v \in Map
    <3>1. PICK ks \in SUBSET Key : ks = Present(c, v)
      BY DEF Present
    <3>2. /\ stack \in [Handler -> Seq(Frame)] /\ Entered(c, k, v, ks)
          /\ c \in Handler /\ k \in Key /\ v \in Map /\ ks \in SUBSET Key /\ stack[c] # <<>>
      BY <1>1, <1>2, <1>4, <1>5, <2>1, <3>1 DEF TypeOK
    <3>3. /\ DOMAIN stack'[c] = DOMAIN stack[c] \cup {Len(stack[c]) + 1}
          /\ \A i \in DOMAIN stack[c] : stack'[c][i].map = stack[c][i].map
          /\ stack'[c][Len(stack[c]) + 1].map = v
      BY ONLY <3>2, EnteredLeft, ZenonT(40)
    <3>4. v \in V
      BY <1>5, <1>6, <1>7, <2>1 DEF Searched, Settled
    <3>5. \A i \in DOMAIN stack'[c] : stack'[c][i].map \in V
      BY <1>6, <3>3, <3>4 DEF Searched
    <3> QED BY <1>3, <1>6, <1>10, <3>5 DEF Searched
  <2>2. CASE v \notin Map
    <3>1. Visited(c, k)
      BY <1>4, <1>5, <2>2
    <3> QED BY <1>1, <1>2, <1>3, <1>4, <1>6, <1>7, <1>9, <1>10, <3>1, SearchVisited
  <2> QED BY <2>1, <2>2
<1>12. \A n \in Map, j \in Key : body'[c][n][j] = IF n = m /\ j = k THEN v ELSE body[c][n][j]
  BY <1>1, <1>4, <1>5 DEF TypeOK
<1>13. m \in own[c] => Current(c, v)
  BY <1>5, <1>6, <1>7 DEF Searched, Settled, Read
<1>14. own[c] \subseteq Map
  BY <1>1 DEF TypeOK
<1>15. ASSUME NEW n \in own'[c], NEW j \in Key PROVE Current(c, body[c][n][j])'
  BY <1>3, <1>8, <1>12, <1>13, <1>14 DEF SearchOf, Current
<1>16. \A n \in Map, j \in Key : body'[c][n][j] # None => n \in own'[c] \cup Exposed
  BY <1>3, <1>4, <1>12 DEF SearchOf, SearchComplete
<1>17. \E W \in SUBSET Map : Searched(c, W)'
  BY <1>11
<1> QED BY <1>2, <1>3, <1>15, <1>16, <1>17 DEF SearchOf, SearchComplete

(* A call returns when it has nothing left to visit.                       *)
LEMMA ReturnSearch ==
    ASSUME IInv, IInv', NEW c \in Handler, SearchOf(c), Return(c)
    PROVE  SearchOf(c)'
<1>1. TypeOK
  BY DEF IInv
<1>2. /\ store' = store /\ copy' = copy /\ own' = own /\ pc' = pc /\ req' = req
      /\ path' = path /\ body' = body
  BY DEF Return
<1>3. /\ stack[c] \in Seq(Frame) /\ Len(stack[c]) > 1 /\ Len(stack[c]) \in Nat
      /\ stack' = [stack EXCEPT ![c] = SubSeq(stack[c], 1, Len(stack[c]) - 1)]
      /\ stack[c][Len(stack[c])].left = {}
  BY <1>1 DEF Return, TypeOK, Rest, Top
<1>4. /\ DOMAIN stack[c] = 1..Len(stack[c])
      /\ DOMAIN stack'[c] = 1..(Len(stack[c]) - 1)
      /\ \A i \in 1..(Len(stack[c]) - 1) : stack'[c][i] = stack[c][i]
  BY <1>1, <1>3 DEF TypeOK
<1>5. ASSUME NEW n, NEW j, Unvisited(c, n, j) PROVE Unvisited(c, n, j)'
  <2>1. PICK i \in DOMAIN stack[c] : stack[c][i].map = n /\ j \in stack[c][i].left
    BY <1>5 DEF Unvisited
  <2>2. i \in 1..(Len(stack[c]) - 1)
    BY <1>3, <1>4, <2>1
  <2> QED BY <1>4, <2>1, <2>2 DEF Unvisited
<1>6. Given(c)' = Given(c) /\ Replaced(c)' = Replaced(c)
  BY <1>2 DEF Given, Replaced
<1>7. ASSUME NEW V \in SUBSET Map, NEW n \in V, NEW j \in Key, Settled(c, n, j, V)
      PROVE  Settled(c, n, j, V)'
  BY <1>2, <1>6, <1>7 DEF Settled, Current, Read
<1>8. ASSUME NEW V \in SUBSET Map, Searching(c, V) PROVE Searching(c, V)'
  BY <1>2, <1>5, <1>7, <1>8 DEF Searching
<1>9. ASSUME NEW V \in SUBSET Map, Searched(c, V) PROVE Searched(c, V)'
  <2>1. \A i \in DOMAIN stack'[c] : i \in DOMAIN stack[c] /\ stack'[c][i] = stack[c][i]
    BY <1>3, <1>4
  <2> QED BY <1>2, <1>7, <1>9, <2>1 DEF Searched
<1> QED BY <1>2, <1>6, <1>8, <1>9 DEF SearchOf, SearchComplete, Current

(* The distribute pass starts with all of the root to search; when it is   *)
(* over nothing is left to visit, so that what it searched is settled.     *)
LEMMA EndPassSearch ==
    ASSUME IInv, IInv', NEW c \in Handler, SearchOf(c), EndPass(c)
    PROVE  SearchOf(c)'
<1>1. TypeOK /\ Started(c)
  BY DEF IInv, HandlerIsolated
<1>2. /\ store' = store /\ copy' = copy /\ own' = own /\ req' = req
      /\ path' = path /\ body' = body
  BY DEF EndPass
<1>3. pc'[c] = NextPass(c)
  BY <1>1 DEF EndPass, TypeOK
<1>4. stack[c] \in Seq(Frame) /\ Len(stack[c]) = 1 /\ stack[c][1].left = {}
  BY <1>1 DEF EndPass, TypeOK, Top
<1>5. DOMAIN stack[c] = {1} /\ stack[c] # <<>>
  <2>1. 1..1 = {1}
    OBVIOUS
  <2> QED BY <1>4, <2>1
<1>6. pc[c] \in Pass /\ req[c].root \in Map
  BY <1>1, <1>5, RequestAssumption DEF TypeOK
<1>7. NextPass(c) \notin {"mint", "done"} =>
        stack'[c] = RootFrame(c, IF NextPass(c) = "replace" THEN Sent(c, req[c].root)
                                 ELSE Present(c, req[c].root))
  BY <1>1 DEF EndPass, TypeOK
<1>8. Given(c)' = Given(c) /\ Replaced(c)' = Replaced(c)
  BY <1>2 DEF Given, Replaced
<1>9. ASSUME NEW V \in SUBSET Map, NEW n \in V, NEW j \in Key, Settled(c, n, j, V)
      PROVE  Settled(c, n, j, V)'
  BY <1>2, <1>8, <1>9 DEF Settled, Current, Read
<1>10. /\ \A m \in own'[c], k \in Key : Current(c, body[c][m][k])'
       /\ \A m \in Map, k \in Key : body'[c][m][k] # None => m \in own'[c] \cup Exposed
  BY <1>2, <1>8 DEF SearchOf, SearchComplete, Current
<1>11. CASE pc[c] = "generate"
  <2>1. pc'[c] \in {"mint", "write"} /\ Replaced(c) = {None} /\ body[c] = Blank
    BY <1>3, <1>11 DEF NextPass, SearchOf, SearchComplete
  <2>2. CASE pc'[c] = "mint"
    BY <1>2, <1>8, <1>10, <1>11, <2>1, <2>2 DEF SearchOf, SearchComplete
  <2>3. CASE pc'[c] = "write"
    <3>1. None \in Given(c)'
      BY DEF Given
    <3>2. ASSUME NEW i \in DOMAIN stack'[c] PROVE stack'[c][i].map \in Map
      <4>1. stack'[c] \in Seq(Frame)
        BY DEF IInv, TypeOK
      <4>2. stack'[c][i] \in Frame
        BY <4>1
      <4> QED BY <4>2 DEF Frame
    <3>3. ASSUME NEW n \in Map, NEW j \in Key
          PROVE  Settled(c, n, j, Map)'
      BY <1>8, <2>1, <3>1 DEF Settled, Current
    <3>4. req'[c].root \in Map
      BY <1>2, <1>6
    <3>5. Searched(c, Map)'
      BY <3>2, <3>3, <3>4 DEF Searched
    <3>6. \E W \in SUBSET Map : Searched(c, W)'
      BY <3>5
    <3> QED BY <1>2, <1>10, <2>3, <3>6 DEF SearchOf, SearchComplete
  <2> QED BY <2>1, <2>2, <2>3
<1>12. CASE pc[c] = "record"
  <2>1. pc'[c] = "distribute" /\ NextPass(c) = "distribute"
    BY <1>3, <1>12 DEF NextPass
  <2>2. /\ stack'[c] = RootFrame(c, Present(c, req[c].root))
    BY <1>7, <2>1
  <2>3. /\ DOMAIN stack'[c] = {1} /\ stack'[c][1].map = req[c].root
        /\ stack'[c][1].left = Present(c, req[c].root)
    BY <2>2, RootLeft
  <2>4. ASSUME NEW k \in Key
        PROVE  Unvisited(c, req[c].root, k)' \/ Settled(c, req[c].root, k, {req[c].root})'
    <3>1. CASE k \in Present(c, req[c].root)
      BY <1>2, <2>3, <3>1 DEF Unvisited
    <3>2. CASE k \notin Present(c, req[c].root)
      <4>1. /\ Read(c, req[c].root, k)' = None
            /\ req[c].root \in own[c] => copy[c][req[c].root][k] = None
        BY <1>2, <3>2 DEF Present, Read
      <4>2. None \in Given(c)' /\ None \notin Map
        BY DataAssumption DEF Given
      <4> QED BY <1>2, <4>1, <4>2 DEF Settled, Current
    <3> QED BY <3>1, <3>2
  <2>5. Searching(c, {req[c].root})'
    BY <1>2, <2>4 DEF Searching
  <2>6. \E V \in SUBSET Map : Searching(c, V)'
    <3>1. {req[c].root}' = {req[c].root} /\ {req[c].root} \in SUBSET Map
      BY <1>2, <1>6
    <3> QED BY <2>5, <3>1
  <2> QED BY <1>2, <1>10, <1>12, <2>1, <2>6 DEF SearchOf, SearchComplete
<1>13. CASE pc[c] \in {"distribute", "replace"}
  <2>1. PICK V \in SUBSET Map : /\ req[c].root \in V
                                /\ \A n \in V, j \in Key : Settled(c, n, j, V)
    <3>1. CASE pc[c] = "distribute"
      <4>1. PICK V \in SUBSET Map : Searching(c, V)
        BY <3>1 DEF SearchOf, SearchComplete
      <4>2. \A n, j : ~Unvisited(c, n, j)
        BY <1>4, <1>5 DEF Unvisited
      <4> QED BY <4>1, <4>2 DEF Searching
    <3>2. CASE pc[c] = "replace"
      BY <3>2 DEF SearchOf, SearchComplete, Searched
    <3> QED BY <1>13, <3>1, <3>2
  <2>2. /\ pc'[c] \in {"replace", "write"}
        /\ pc'[c] = "replace" => req[c].method = "POST"
        /\ pc'[c] = "replace" => pc[c] = "distribute"
    BY <1>3, <1>13 DEF NextPass
  <2>3. DOMAIN stack'[c] = {1} /\ stack'[c][1].map = req[c].root
    <3>1. \E ks : stack'[c] = RootFrame(c, ks)
      BY <1>3, <1>7, <2>2
    <3> QED BY <3>1, RootLeft
  <2>4. Searched(c, V)'
    BY <1>2, <1>9, <2>1, <2>3 DEF Searched
  <2>5. \E W \in SUBSET Map : Searched(c, W)'
    BY <2>4
  <2> QED BY <1>2, <1>10, <1>13, <2>2, <2>5 DEF SearchOf, SearchComplete
<1>14. CASE pc[c] = "write"
  <2>1. pc'[c] = "done"
    BY <1>3, <1>14 DEF NextPass
  <2> QED BY <1>10, <2>1 DEF SearchOf, SearchComplete
<1> QED BY <1>6, <1>11, <1>12, <1>13, <1>14 DEF Pass

(* SearchInv holds before any request...                                   *)
LEMMA InitSearch == Init => SearchInv
<1> SUFFICES ASSUME Init, NEW c \in Handler PROVE SearchOf(c)
  BY DEF SearchInv, OldIDsAreGiven, SearchOf
<1>1. pc[c] = "idle" /\ own[c] = {} /\ body[c] = Blank
  BY DEF Init
<1>2. \A m \in Map, k \in Key : body[c][m][k] = None
  BY <1>1 DEF Blank
<1> QED BY <1>1, <1>2 DEF SearchOf, SearchComplete

(* ... and every step keeps it.                                            *)
LEMMA NextSearch == IInv /\ IInv' /\ SearchInv /\ [Next]_vars => SearchInv'
<1> SUFFICES ASSUME IInv, IInv', SearchInv, [Next]_vars, NEW d \in Handler PROVE SearchOf(d)'
  BY DEF SearchInv, OldIDsAreGiven, SearchOf
<1>1. SearchOf(d)
  BY DEF SearchInv, OldIDsAreGiven, SearchOf
<1>2. CASE Crash \/ UNCHANGED vars
  <2>1. Untouched(d)
    BY <1>2 DEF Crash, vars, Untouched, StoreKept
  <2> QED BY <1>1, <2>1, OthersSearch
<1>3. ASSUME NEW c \in Handler, Arrive(c) \/ Step(c) PROVE SearchOf(d)'
  <2>1. CASE d # c
    BY <1>1, <1>3, <2>1, OthersUntouched, OthersSearch
  <2>2. CASE d = c
    BY <1>1, <1>3, <2>2, ArriveSearch, GenerateSearch, MintSearch, RecordSearch,
       DistributeSearch, ReplaceSearch, WriteSearch, ReturnSearch, EndPassSearch DEF Step
  <2> QED BY <2>1, <2>2
<1> QED BY <1>2, <1>3 DEF Next

(* generator.go:638-672: the distribute pass searches all that a response  *)
(* holds, and the passes that follow add nothing to it but what the        *)
(* request itself gives.                                                   *)
THEOREM SearchesComplete == Spec => []SearchInv
BY Isolation, InitIInv, NextIInv, InitSearch, NextSearch, PTL DEF Spec

(* generator.go:141-144, for all fixtures and requests and any handlers    *)
(* beside: in the objects that are a response's own, an ID that was        *)
(* replaced is left only where the request itself gave it.                 *)
THEOREM OldIDsReplaced == Spec => []OldIDsAreGiven
<1>1. SearchInv => OldIDsAreGiven
  BY DEF SearchInv
<1> QED BY <1>1, SearchesComplete, PTL

----------------------------------------------------------------------------
(* RecordInv, for fixtures that are never handed out by reference.         *)

(* Then every object a handler meets is a copy of its own, made from the   *)
(* fixtures as they were loaded.                                           *)
LEMMA NothingShared ==
    ASSUME Exposed = {}, IInv, NEW c \in Handler
    PROVE  /\ \A m \in Map : store[m] = Fixture[m]
           /\ \A i \in DOMAIN stack[c] : stack[c][i].map \in own[c]
           /\ \A m \in Map, k \in Key : copy[c][m][k] \in Map => copy[c][m][k] \in own[c]
<1>1. StoreIsolated /\ HandlerIsolated(c)
  BY DEF IInv
<1> QED BY <1>1 DEF StoreIsolated, CopiedFixturesPristine, HandlerIsolated, MapsIsolated,
             StackIsolated, FrameIsolated

(* Steps of others do not disturb a record pass.                           *)
LEMMA OthersRecord ==
    ASSUME NEW d \in Handler, RecordsOnce(d), Untouched(d)
    PROVE  RecordsOnce(d)'
<1>1. Replaced(d)' = Replaced(d)
  BY DEF Untouched, Replaced
<1>2. ASSUME NEW m, NEW k, AsGenerated(d, m, k) PROVE AsGenerated(d, m, k)'
  BY <1>2 DEF AsGenerated, Untouched
<1>3. ASSUME NEW R, NEW U, Recording(d, R, U) PROVE Recording(d, R, U)'
  BY <1>3 DEF Recording, AsGenerated, Untouched
<1> QED BY <1>1, <1>2, <1>3 DEF RecordsOnce, Untouched

(* The pass goes on to the next key.  No other frame and no object it has  *)
(* not entered is about the one that it may have written to.               *)
LEMMA RecordingVisited ==
    ASSUME TypeOK, NEW c \in Handler, NEW R, NEW U, Recording(c, R, U),
           NEW m, NEW k, stack[c] # <<>>, m = Top(c).map, Visited(c, k), req'[c] = req[c],
           \A n \in Map, j \in Key : n # m \/ j # k => copy'[c][n][j] = copy[c][n][j],
           R \subseteq Map
    PROVE  Recording(c, R, U)'
<1>1. stack \in [Handler -> Seq(Frame)]
  BY DEF TypeOK
<1>2. /\ DOMAIN stack'[c] = DOMAIN stack[c]
      /\ Len(stack[c]) \in DOMAIN stack[c]
      /\ \A i \in DOMAIN stack[c] :
            /\ stack'[c][i].map = stack[c][i].map
            /\ stack'[c][i].left = IF i = Len(stack[c]) THEN stack[c][i].left \ {k}
                                   ELSE stack[c][i].left
  BY <1>1, VisitedLeft
<1>3. stack[c][Len(stack[c])].map = m
  BY DEF Top
<1>4. m \in R \ U
  BY <1>2, <1>3 DEF Recording
<1>5. \A i \in DOMAIN stack[c] : stack[c][i].map = m => i = Len(stack[c])
  BY <1>2, <1>3 DEF Recording
<1>6. \A i \in DOMAIN stack[c] : stack[c][i].left \subseteq Key
  BY TopOfStack DEF Frame
<1>7. ASSUME NEW n \in Map, NEW j \in Key, n # m \/ j # k
      PROVE  /\ copy'[c][n][j] = copy[c][n][j]
             /\ AsGenerated(c, n, j) => AsGenerated(c, n, j)'
  BY <1>7 DEF AsGenerated
<1>8. ASSUME NEW n \in U, NEW j \in Key
      PROVE  /\ AsGenerated(c, n, j)'
             /\ copy'[c][n][j] \in Map => copy'[c][n][j] \in U
  <2>1. n \in Map /\ n # m
    BY <1>4 DEF Recording
  <2> QED BY <1>7, <2>1 DEF Recording
<1>9. ASSUME NEW i \in DOMAIN stack'[c]
      PROVE  /\ stack'[c][i].map \in R \ U
             /\ \A j \in DOMAIN stack'[c] : stack'[c][i].map = stack'[c][j].map => i = j
  BY <1>2 DEF Recording
<1>10. \A i \in DOMAIN stack[c] : \A j \in stack[c][i].left :
         /\ AsGenerated(c, stack[c][i].map, j)
         /\ copy[c][stack[c][i].map][j] \in Map => copy[c][stack[c][i].map][j] \in U
  BY DEF Recording
<1>11. ASSUME NEW i \in DOMAIN stack'[c], NEW j \in stack'[c][i].left
       PROVE  /\ AsGenerated(c, stack[c][i].map, j)'
              /\ copy'[c][stack'[c][i].map][j] \in Map => copy'[c][stack'[c][i].map][j] \in U
  <2>1. i \in DOMAIN stack[c] /\ j \in stack[c][i].left /\ j \in Key
    BY <1>2, <1>6
  <2>2. PICK n \in Map : n = stack[c][i].map /\ n = stack'[c][i].map
    BY <1>2, <2>1 DEF Recording
  <2>3. n # m \/ j # k
    BY <1>2, <1>5, <2>1, <2>2
  <2>4. AsGenerated(c, n, j) /\ (copy[c][n][j] \in Map => copy[c][n][j] \in U)
    BY <1>10, <2>1, <2>2 DEF AsGenerated
  <2>5. AsGenerated(c, n, j)' /\ copy'[c][n][j] = copy[c][n][j]
    BY <1>7, <2>1, <2>3, <2>4
  <2> QED BY <2>2, <2>4, <2>5 DEF AsGenerated
<1>12. IsTree(req'[c], R) /\ U \subseteq R
  BY DEF Recording
<1> QED BY <1>8, <1>9, <1>11, <1>12 DEF Recording

(* It enters an object, for the only time: nothing else refers to it.      *)
LEMMA RecordingEntered ==
    ASSUME TypeOK, NEW c \in Handler, NEW R \in SUBSET Map, NEW U, Recording(c, R, U),
           NEW m \in Map, NEW k \in Key, NEW v \in Map, NEW ks \in SUBSET Key,
           stack[c] # <<>>, m = Top(c).map, k \in Top(c).left, v = copy[c][m][k],
           Entered(c, k, v, ks), req'[c] = req[c], copy' = copy
    PROVE  Recording(c, R, U \ {v})'
<1>1. /\ stack \in [Handler -> Seq(Frame)] /\ Entered(c, k, v, ks)
      /\ c \in Handler /\ k \in Key /\ v \in Map /\ ks \in SUBSET Key /\ stack[c] # <<>>
  BY DEF TypeOK
<1>2. /\ DOMAIN stack'[c] = DOMAIN stack[c] \cup {Len(stack[c]) + 1}
      /\ Len(stack[c]) \in DOMAIN stack[c] /\ Len(stack[c]) + 1 \notin DOMAIN stack[c]
      /\ \A i \in DOMAIN stack[c] :
            /\ stack'[c][i].map = stack[c][i].map
            /\ stack'[c][i].left = IF i = Len(stack[c]) THEN stack[c][i].left \ {k}
                                   ELSE stack[c][i].left
      /\ stack'[c][Len(stack[c]) + 1].map = v
      /\ stack'[c][Len(stack[c]) + 1].left = ks
  BY ONLY <1>1, EnteredLeft, Zenon
<1>3. stack[c][Len(stack[c])].map = m /\ k \in stack[c][Len(stack[c])].left
  BY DEF Top
<1>4. m \in R \ U /\ v \in U /\ U \subseteq R /\ AsGenerated(c, m, k) /\ IsTree(req[c], R)
  BY <1>2, <1>3 DEF Recording
<1>5. v = Plain(req[c], m, k) /\ k \in Properties(m)
  <2>1. v # None
    BY DataAssumption
  <2> QED BY <1>4, <2>1 DEF AsGenerated
<1>6. ASSUME NEW n \in R, NEW j \in Key, AsGenerated(c, n, j), copy[c][n][j] = v
      PROVE  n = m /\ j = k
  <2>1. copy[c][n][j] # None
    BY <1>6, DataAssumption
  <2>2. j \in Properties(n) /\ Plain(req[c], n, j) = v
    BY <1>6, <2>1 DEF AsGenerated
  <2> QED BY <1>4, <1>5, <2>2 DEF IsTree
<1>7. \A i \in DOMAIN stack[c] : stack[c][i].map = m => i = Len(stack[c])
  BY <1>2, <1>3 DEF Recording
<1>8. \A n, j : AsGenerated(c, n, j) => AsGenerated(c, n, j)'
  BY DEF AsGenerated
<1>9. \A i \in DOMAIN stack[c] : stack[c][i].left \subseteq Key
  BY TopOfStack DEF Frame
<1>10. ASSUME NEW n \in U, NEW j \in Key
       PROVE  /\ AsGenerated(c, n, j) /\ AsGenerated(c, n, j)'
              /\ copy[c][n][j] \in Map => copy[c][n][j] \in U \ {v}
  <2>1. AsGenerated(c, n, j) /\ (copy[c][n][j] \in Map => copy[c][n][j] \in U)
    BY DEF Recording
  <2>2. n \in R /\ n # m
    BY <1>4
  <2> QED BY <1>6, <1>8, <2>1, <2>2
<1>11. ASSUME NEW i \in DOMAIN stack'[c]
       PROVE  stack'[c][i].map \in R \ (U \ {v})
  BY <1>2, <1>4 DEF Recording
<1>12. ASSUME NEW i \in DOMAIN stack'[c], NEW j \in DOMAIN stack'[c],
              stack'[c][i].map = stack'[c][j].map
       PROVE  i = j
  <2>1. \A h \in DOMAIN stack[c] : stack[c][h].map # v
    BY <1>4 DEF Recording
  <2>2. \A g, h \in DOMAIN stack[c] : stack[c][g].map = stack[c][h].map => g = h
    BY DEF Recording
  <2>3. CASE i \in DOMAIN stack[c] /\ j \in DOMAIN stack[c]
    BY <1>2, <1>12, <2>2, <2>3
  <2>4. CASE i \in DOMAIN stack[c] /\ j = Len(stack[c]) + 1
    BY <1>2, <1>12, <2>1, <2>4
  <2>5. CASE i = Len(stack[c]) + 1 /\ j \in DOMAIN stack[c]
    BY <1>2, <1>12, <2>1, <2>5
  <2> QED BY <1>2, <2>3, <2>4, <2>5
<1>13. \A i \in DOMAIN stack[c] : \A j \in stack[c][i].left :
         /\ AsGenerated(c, stack[c][i].map, j)
         /\ copy[c][stack[c][i].map][j] \in Map => copy[c][stack[c][i].map][j] \in U
  BY DEF Recording
<1>14. ASSUME NEW i \in DOMAIN stack'[c], NEW j \in stack'[c][i].left
       PROVE  /\ AsGenerated(c, stack[c][i].map, j)'
              /\ copy[c][stack'[c][i].map][j] \in Map => copy[c][stack'[c][i].map][j] \in U \ {v}
  <2>1. CASE i \in DOMAIN stack[c]
    <3>1. j \in stack[c][i].left /\ j \in Key
      BY <1>2, <1>9, <2>1
    <3>2. PICK n \in R : n = stack[c][i].map /\ n = stack'[c][i].map
      BY <1>2, <2>1 DEF Recording
    <3>3. n # m \/ j # k
      BY <1>2, <1>7, <2>1, <3>2
    <3>4. AsGenerated(c, n, j) /\ (copy[c][n][j] \in Map => copy[c][n][j] \in U)
      BY <1>13, <2>1, <3>1, <3>2 DEF AsGenerated
    <3>5. AsGenerated(c, n, j)'
      BY <1>8, <3>4
    <3>6. copy[c][n][j] # v
      BY <1>6, <3>1, <3>3, <3>4
    <3> QED BY <3>2, <3>4, <3>5, <3>6 DEF AsGenerated
  <2>2. CASE i = Len(stack[c]) + 1
    <3>1. j \in Key /\ stack'[c][i].map = v
      BY <1>2, <2>2
    <3>2. AsGenerated(c, v, j)' /\ (copy[c][v][j] \in Map => copy[c][v][j] \in U \ {v})
      BY <1>4, <1>10, <3>1
    <3> QED BY <3>1, <3>2 DEF AsGenerated
  <2> QED BY <1>2, <2>1, <2>2
<1>15. IsTree(req'[c], R) /\ U \ {v} \subseteq R
  BY <1>4
<1> QED BY <1>10, <1>11, <1>12, <1>14, <1>15 DEF Recording

(* A request that arrives has generated nothing.                           *)
LEMMA ArriveRecord ==
    ASSUME IInv, NEW c \in Handler, Arrive(c)
    PROVE  RecordsOnce(c)'
<1>1. TypeOK
  BY DEF IInv
<1>2. pc'[c] = "generate" /\ copy'[c] = Blank
  BY <1>1 DEF Arrive, TypeOK
<1>3. \E r \in Request :
        path'[c] = [primary |-> r.primary, oldPrimary |-> None,
                    old |-> [i \in DOMAIN r.secondary |-> {}]]
  BY <1>1 DEF Arrive, TypeOK
<1>4. path'[c].oldPrimary = None /\ \A i \in DOMAIN path'[c].old : path'[c].old[i] = {}
  BY <1>3
<1>5. Replaced(c)' \subseteq FixtureIDs
  BY <1>4 DEF Replaced, FixtureIDs
<1>6. \A m \in Map, k \in Key : AsGenerated(c, m, k)'
  BY <1>2 DEF Blank, AsGenerated
<1> QED BY <1>2, <1>5, <1>6 DEF RecordsOnce

(* What generateInternal puts into its maps is what the loaded fixtures    *)
(* and the expansions say.                                                 *)
LEMMA GenerateRecord ==
    ASSUME Exposed = {}, IInv, NEW c \in Handler, RecordsOnce(c), GenerateInternal(c)
    PROVE  RecordsOnce(c)'
<1>1. TypeOK /\ StackIsolated(c)
  BY DEF IInv, HandlerIsolated
<1>2. /\ pc[c] = "generate" /\ stack[c] # <<>> /\ pc' = pc /\ req' = req /\ path' = path
  BY DEF GenerateInternal
<1>3. Replaced(c)' = Replaced(c)
  BY <1>2 DEF Replaced
<1>4. Top(c) \in Frame /\ FrameIsolated(c, Top(c))
  BY <1>1, <1>2, TopIsolated
<1>5. PICK m \in Map, k \in Key : k \in Properties(m) /\
        copy' = [copy EXCEPT ![c][m][k] =
                   IF FromTarget(req[c], m, k) THEN Target[m][k] ELSE store[m][k]]
  BY <1>2, <1>4 DEF GenerateInternal, FrameIsolated, Frame
<1>6. copy' = [copy EXCEPT ![c][m][k] = Plain(req[c], m, k)]
  BY <1>5, NothingShared DEF Plain
<1>7. \A n \in Map, j \in Key :
         copy'[c][n][j] = IF n = m /\ j = k THEN Plain(req[c], m, k) ELSE copy[c][n][j]
  BY <1>1, <1>6 DEF TypeOK
<1>8. ASSUME NEW n \in Map, NEW j \in Key PROVE AsGenerated(c, n, j)'
  BY <1>2, <1>5, <1>7 DEF RecordsOnce, AsGenerated
<1> QED BY <1>2, <1>3, <1>8 DEF RecordsOnce

(* The record pass has entered the root of a tree, and nothing else.       *)
LEMMA MintRecord ==
    ASSUME ResponsesAreTrees, IInv, NEW c \in Handler, RecordsOnce(c),
           MaybeGeneratePrimaryID(c)
    PROVE  RecordsOnce(c)'
<1>1. TypeOK
  BY DEF IInv
<1>2. pc[c] = "mint" /\ req' = req /\ copy' = copy
  BY DEF MaybeGeneratePrimaryID
<1>3. /\ pc'[c] \in {"record", "replace", "write"}
      /\ pc'[c] = "record" => stack'[c] = RootFrame(c, Present(c, req[c].root))
  <2>1. Started(c)
    BY DEF IInv, HandlerIsolated
  <2>2. /\ AfterMint(c) \in {"record", "replace", "write"}
        /\ pc' = [pc EXCEPT ![c] = AfterMint(c)]
        /\ stack' = [stack EXCEPT ![c] =
               RootFrame(c, IF AfterMint(c) = "replace" THEN Sent(c, req[c].root)
                            ELSE Present(c, req[c].root))]
    BY <2>1, MintRuns
  <2> QED BY <1>1, <2>2 DEF TypeOK
<1>4. path'[c].oldPrimary = path[c].oldPrimary /\ path'[c].old = path[c].old
  BY <1>1 DEF MaybeGeneratePrimaryID, TypeOK, PathParamsMap
<1>5. Replaced(c)' \subseteq FixtureIDs
  BY <1>4 DEF Replaced, RecordsOnce
<1>6. \A m \in Map, k \in Key : AsGenerated(c, m, k)
  BY <1>2 DEF RecordsOnce
<1>7. CASE pc'[c] = "record"
  <2>1. PICK R \in SUBSET Map : IsTree(req[c], R)
    BY <1>1 DEF ResponsesAreTrees, TypeOK
  <2>2. PICK root \in Map : root = req[c].root
    BY <2>1 DEF IsTree
  <2>3. /\ DOMAIN stack'[c] = {1} /\ stack'[c][1].map = root
        /\ stack'[c][1].left = Present(c, root)
    BY <1>3, <1>7, <2>2, RootLeft
  <2>4. ASSUME NEW m \in R, NEW k \in Key
        PROVE  /\ AsGenerated(c, m, k)'
               /\ copy'[c][m][k] \in Map => copy'[c][m][k] \in R \ {root}
    <3>1. AsGenerated(c, m, k)
      BY <1>6
    <3>2. None \notin Map
      BY DataAssumption
    <3> QED BY <1>2, <2>1, <2>2, <3>1, <3>2 DEF AsGenerated, IsTree
  <2>5. root \in R
    BY <2>1, <2>2 DEF IsTree
  <2>6. \A k \in Present(c, root) : k \in Key
    BY DEF Present
  <2>7. \A i \in DOMAIN stack'[c] :
          \A k \in stack'[c][i].left :
             /\ AsGenerated(c, stack[c][i].map, k)'
             /\ copy'[c][stack'[c][i].map][k] \in Map =>
                   copy'[c][stack'[c][i].map][k] \in R \ {root}
    BY <2>3, <2>4, <2>5, <2>6 DEF AsGenerated
  <2>8. IsTree(req'[c], R)
    BY <1>2, <2>1
  <2>9. Recording(c, R, R \ {root})'
    BY <2>3, <2>4, <2>5, <2>7, <2>8 DEF Recording
  <2>10. \E S, U \in SUBSET Map : Recording(c, S, U)'
    BY <2>9
  <2> QED BY <1>5, <1>7, <2>10 DEF RecordsOnce
<1> QED BY <1>3, <1>5, <1>7 DEF RecordsOnce

(* What the record pass replaces is as it was generated, hence an ID of    *)
(* the fixtures.                                                           *)
LEMMA RecordRecord ==
    ASSUME Exposed = {}, IInv, NEW c \in Handler, RecordsOnce(c), RecordAndReplaceIDs(c)
    PROVE  RecordsOnce(c)'
<1>1. TypeOK /\ StoreIsolated /\ MapsIsolated(c) /\ StackIsolated(c)
  BY DEF IInv, HandlerIsolated
<1>2. pc[c] = "record" /\ stack[c] # <<>>
  BY DEF RecordAndReplaceIDs
<1>3. own' = own /\ pc' = pc /\ req' = req
  BY DEF RecordAndReplaceIDs
<1>4. PICK f \in Frame, m \in Map, k \in Key :
        /\ f = Top(c) /\ m = Top(c).map /\ k \in Top(c).left /\ m \in own[c]
        /\ \/ /\ Read(c, m, k) \in Map
              /\ Entered(c, k, Read(c, m, k), Present(c, Read(c, m, k)))
              /\ UNCHANGED <<store, copy, path>>
           \/ /\ Read(c, m, k) \in Text /\ TakesPrimary(c, k)
              /\ Put(c, m, k, path[c].primary)
              /\ path' = [path EXCEPT ![c].oldPrimary = Read(c, m, k)]
              /\ Visited(c, k)
           \/ /\ Read(c, m, k) \in Text /\ Matched(c, f, k) # {}
              /\ Put(c, m, k, req[c].secondary[Winner(c, f, k)].id)
              /\ path' = [path EXCEPT ![c].old =
                    [i \in DOMAIN @ |-> @[i] \cup (IF i \in Matched(c, f, k)
                                                   THEN {Read(c, m, k)} \ {Empty} ELSE {})]]
              /\ Visited(c, k)
           \/ /\ Read(c, m, k) \notin Map
              /\ Visited(c, k)
              /\ UNCHANGED <<store, copy, path>>
  <2>1. PICK k \in Top(c).left :
           \/ /\ Read(c, Top(c).map, k) \in Map
              /\ Entered(c, k, Read(c, Top(c).map, k), Present(c, Read(c, Top(c).map, k)))
              /\ UNCHANGED <<store, copy, path>>
           \/ /\ Read(c, Top(c).map, k) \in Text /\ TakesPrimary(c, k)
              /\ Put(c, Top(c).map, k, path[c].primary)
              /\ path' = [path EXCEPT ![c].oldPrimary = Read(c, Top(c).map, k)]
              /\ Visited(c, k)
           \/ /\ Read(c, Top(c).map, k) \in Text /\ Matched(c, Top(c), k) # {}
              /\ Put(c, Top(c).map, k, req[c].secondary[Winner(c, Top(c), k)].id)
              /\ path' = [path EXCEPT ![c].old =
                    [i \in DOMAIN @ |-> @[i] \cup (IF i \in Matched(c, Top(c), k)
                                                   THEN {Read(c, Top(c).map, k)} \ {Empty}
                                                   ELSE {})]]
              /\ Visited(c, k)
           \/ /\ Read(c, Top(c).map, k) \notin Map
              /\ Visited(c, k)
              /\ UNCHANGED <<store, copy, path>>
    BY DEF RecordAndReplaceIDs
  <2>2. Top(c).map \in Map /\ k \in Key /\ Top(c).map \in own[c]
    BY <1>1, <1>2, ReadIsolated
  <2>3. Top(c) \in Frame
    BY <1>1, <1>2, TopOfStack
  <2> QED BY <2>1, <2>2, <2>3
<1>5. PICK v : v = Read(c, m, k)
  OBVIOUS
<1>6. v = copy[c][m][k]
  BY <1>4, <1>5 DEF Read
<1>7. PICK R \in SUBSET Map, U \in SUBSET Map : Recording(c, R, U)
  BY <1>2 DEF RecordsOnce
<1>8. CASE v \in Map
  <2>1. /\ Entered(c, k, v, Present(c, v)) /\ UNCHANGED <<store, copy, path>>
    BY <1>4, <1>5, <1>8, DataAssumption
  <2>2. PICK ks \in SUBSET Key : ks = Present(c, v)
    BY DEF Present
  <2>3. Entered(c, k, v, ks)
    BY <2>1, <2>2
  <2>4. Recording(c, R, U \ {v})'
    BY <1>1, <1>2, <1>3, <1>4, <1>6, <1>7, <1>8, <2>1, <2>3, RecordingEntered
  <2>5. \E S, W \in SUBSET Map : Recording(c, S, W)'
    BY <2>4
  <2>6. Replaced(c)' = Replaced(c)
    BY <2>1 DEF Replaced
  <2> QED BY <1>2, <1>3, <2>5, <2>6 DEF RecordsOnce
<1>9. CASE v \notin Map
  <2>1. v \in FixtureIDs
    <3>1. AsGenerated(c, m, k)
      <4>1. Len(stack[c]) \in DOMAIN stack[c] /\ Top(c) = stack[c][Len(stack[c])]
        BY <1>1, <1>2, TopOfStack
      <4>2. \A i \in DOMAIN stack[c] : \A j \in stack[c][i].left :
               AsGenerated(c, stack[c][i].map, j)
        BY <1>7 DEF Recording
      <4> QED BY <1>4, <4>1, <4>2 DEF AsGenerated
    <3>2. v # None => v = Plain(req[c], m, k)
      BY <1>6, <3>1 DEF AsGenerated
    <3>3. v # None => v = Fixture[m][k]
      BY <1>9, <3>2, DataAssumption DEF Plain
    <3> QED BY <3>3 DEF FixtureIDs
  <2>2. Visited(c, k)
    BY <1>4, <1>5, <1>9
  <2>3. \A n \in Map, j \in Key : n # m \/ j # k => copy'[c][n][j] = copy[c][n][j]
    <3>1. CASE \E id : Put(c, m, k, id)
      BY <1>1, <1>4, <3>1 DEF Put, TypeOK
    <3>2. CASE copy' = copy
      BY <3>2
    <3> QED BY <1>4, <1>5, <1>9, <3>1, <3>2
  <2>4. Recording(c, R, U)'
    BY <1>1, <1>2, <1>3, <1>4, <1>7, <2>2, <2>3, RecordingVisited
  <2>5. \E S, W \in SUBSET Map : Recording(c, S, W)'
    BY <2>4
  <2>6. Replaced(c)' \subseteq Replaced(c) \cup {v}
    <3>1. CASE path' = path
      BY <3>1 DEF Replaced
    <3>2. CASE path' = [path EXCEPT ![c].oldPrimary = v]
      <4>1. path'[c].oldPrimary = v /\ path'[c].old = path[c].old
        BY <1>1, <3>2 DEF TypeOK, PathParamsMap
      <4> QED BY <4>1 DEF Replaced
    <3>3. CASE path' = [path EXCEPT ![c].old =
                          [i \in DOMAIN @ |-> @[i] \cup (IF i \in Matched(c, f, k)
                                                         THEN {v} \ {Empty} ELSE {})]]
      <4>1. PICK g : g = [i \in DOMAIN path[c].old |->
                           path[c].old[i] \cup (IF i \in Matched(c, f, k)
                                                THEN {v} \ {Empty} ELSE {})]
        OBVIOUS
      <4>2. path'[c].oldPrimary = path[c].oldPrimary /\ path'[c].old = g
        BY <1>1, <3>3, <4>1 DEF TypeOK, PathParamsMap
      <4>3. DOMAIN g = DOMAIN path[c].old /\ \A i \in DOMAIN g : g[i] \subseteq path[c].old[i] \cup {v}
        BY <4>1
      <4> QED BY <4>2, <4>3 DEF Replaced
    <3> QED BY <1>4, <1>5, <1>9, <3>1, <3>2, <3>3
  <2> QED BY <1>2, <1>3, <2>1, <2>5, <2>6 DEF RecordsOnce
<1> QED BY <1>8, <1>9

(* The steps after it replace nothing, and those that end a call or a pass *)
(* leave fewer keys to visit.                                              *)
LEMMA LaterRecord ==
    ASSUME IInv, NEW c \in Handler, RecordsOnce(c),
           DistributeReplacedIDs(c) \/ ReplaceData(c) \/ WriteResponse(c)
    PROVE  RecordsOnce(c)'
<1>1. pc[c] \in {"distribute", "replace", "write"} /\ pc' = pc /\ path' = path
  BY DEF DistributeReplacedIDs, ReplaceData, WriteResponse
<1>2. Replaced(c)' = Replaced(c)
  BY <1>1 DEF Replaced
<1> QED BY <1>1, <1>2 DEF RecordsOnce

(* A call of the record pass that returns has no keys left.                *)
LEMMA ReturnRecord ==
    ASSUME IInv, NEW c \in Handler, RecordsOnce(c), Return(c)
    PROVE  RecordsOnce(c)'
<1>1. TypeOK
  BY DEF IInv
<1>2. copy' = copy /\ pc' = pc /\ req' = req /\ path' = path
  BY DEF Return
<1>3. /\ stack[c] \in Seq(Frame) /\ Len(stack[c]) > 1 /\ Len(stack[c]) \in Nat
      /\ stack' = [stack EXCEPT ![c] = SubSeq(stack[c], 1, Len(stack[c]) - 1)]
  BY <1>1 DEF Return, TypeOK, Rest
<1>4. /\ DOMAIN stack[c] = 1..Len(stack[c])
      /\ DOMAIN stack'[c] = 1..(Len(stack[c]) - 1)
      /\ \A i \in 1..(Len(stack[c]) - 1) : stack'[c][i] = stack[c][i]
  BY <1>1, <1>3 DEF TypeOK
<1>5. \A i \in DOMAIN stack'[c] : i \in DOMAIN stack[c] /\ stack'[c][i] = stack[c][i]
  BY <1>3, <1>4
<1>6. ASSUME NEW R, NEW U, Recording(c, R, U) PROVE Recording(c, R, U)'
  BY <1>2, <1>5, <1>6 DEF Recording, AsGenerated
<1>7. Replaced(c)' = Replaced(c)
  BY <1>2 DEF Replaced
<1> QED BY <1>2, <1>6, <1>7 DEF RecordsOnce, AsGenerated

(* A pass that ends leaves what it has recorded.                           *)
LEMMA EndPassRecord ==
    ASSUME IInv, NEW c \in Handler, RecordsOnce(c), EndPass(c)
    PROVE  RecordsOnce(c)'
<1>1. copy' = copy /\ req' = req /\ path' = path
  BY DEF EndPass
<1>2. pc'[c] = NextPass(c)
  BY DEF EndPass, IInv, TypeOK
<1>3. pc'[c] \notin {"generate", "record"} /\ (pc'[c] = "mint" => pc[c] = "generate")
  BY <1>2 DEF NextPass
<1>4. Replaced(c)' = Replaced(c)
  BY <1>1 DEF Replaced
<1> QED BY <1>1, <1>3, <1>4 DEF RecordsOnce, AsGenerated

(* RecordInv holds before any request...                                   *)
LEMMA InitRecord == Init => RecordInv
<1> SUFFICES ASSUME Init, NEW c \in Handler PROVE RecordsOnce(c)
  BY DEF RecordInv
<1>1. pc[c] = "idle" /\ path[c] = [primary |-> None, oldPrimary |-> None, old |-> <<>>]
  BY DEF Init
<1>2. Replaced(c) = {None}
  BY <1>1 DEF Replaced
<1> QED BY <1>1, <1>2 DEF RecordsOnce, FixtureIDs

(* ... and every step keeps it, if nothing is shared.                      *)
LEMMA NextRecord ==
    ASSUME Exposed = {}, ResponsesAreTrees
    PROVE  IInv /\ RecordInv /\ [Next]_vars => RecordInv'
<1> SUFFICES ASSUME IInv, RecordInv, [Next]_vars, NEW d \in Handler PROVE RecordsOnce(d)'
  BY DEF RecordInv
<1>1. RecordsOnce(d)
  BY DEF RecordInv
<1>2. CASE Crash \/ UNCHANGED vars
  <2>1. Untouched(d)
    BY <1>2 DEF Crash, vars, Untouched, StoreKept
  <2> QED BY <1>1, <2>1, OthersRecord
<1>3. ASSUME NEW c \in Handler, Arrive(c) \/ Step(c) PROVE RecordsOnce(d)'
  <2>1. CASE d # c
    BY <1>1, <1>3, <2>1, OthersUntouched, OthersRecord
  <2>2. CASE d = c
    BY <1>1, <1>3, <2>2, ArriveRecord, GenerateRecord, MintRecord, RecordRecord,
       LaterRecord, ReturnRecord, EndPassRecord DEF Step
  <2> QED BY <2>1, <2>2
<1> QED BY <1>2, <1>3 DEF Next

(* What recordAndReplaceIDs takes for an old ID has come from the fixtures *)
(* and not from another request, nor from its own work on this one.        *)
THEOREM OldIDsFromFixtures == Exposed = {} /\ ResponsesAreTrees => (Spec => []RecordInv)
<1> SUFFICES ASSUME Exposed = {}, ResponsesAreTrees PROVE Spec => []RecordInv
  OBVIOUS
<1>1. IInv /\ RecordInv /\ [Next]_vars => RecordInv'
  BY NextRecord
<1> QED BY <1>1, Isolation, InitRecord, PTL DEF Spec

(* An ID that a request other than a POST gives is none of the fixtures'.  *)
LEMMA GivenIsFresh ==
    ASSUME IDsAreFresh, IInv, NEW c \in Handler, pc[c] # "idle", req[c].method # "POST",
           NEW v \in Given(c), v \in FixtureIDs
    PROVE  v = None
<1>1. req[c] \in Request /\ path[c].primary \in {req[c].primary} \cup MintedId
  BY DEF IInv, TypeOK, HandlerIsolated, Started
<1>2. v = None \/ v \in RequestIDs \cup MintedId
  <2>1. CASE v \in {path[c].primary, None}
    BY <1>1, <2>1 DEF RequestIDs
  <2>2. CASE \E i \in DOMAIN req[c].secondary : v = req[c].secondary[i].id
    BY <1>1, <2>2, SecondaryID
  <2>3. {f \in DOMAIN req[c].data : req[c].method = "POST"} = {}
    OBVIOUS
  <2> QED BY <2>1, <2>2, <2>3 DEF Given
<1>3. v = None \/ \E m \in Map, k \in Key : v = Fixture[m][k]
  BY DEF FixtureIDs
<1> QED BY <1>2, <1>3 DEF IDsAreFresh

(* generator.go:141-144: no ID that was replaced is left in a complete     *)
(* response, if the fixtures hold objects only where the schema describes  *)
(* them, a response is a tree, and the client's IDs are not the fixtures'. *)
THEOREM StaleIDsGone ==
    Exposed = {} /\ ResponsesAreTrees /\ IDsAreFresh => (Spec => []ReplacedIDsGone)
<1> SUFFICES ASSUME Exposed = {}, ResponsesAreTrees, IDsAreFresh
             PROVE  Spec => []ReplacedIDsGone
  OBVIOUS
<1>1. Spec => []RecordInv
  BY OldIDsFromFixtures
<1>2. Spec => []SearchInv
  BY SearchesComplete
<1>3. IInv /\ SearchInv /\ RecordInv => ReplacedIDsGone
  <2> SUFFICES ASSUME IInv, SearchInv, RecordInv, NEW c \in Handler, pc[c] = "done",
                      req[c].method # "POST", NEW m \in Map, NEW k \in Key,
                      NEW i \in DOMAIN path[c].old,
                      body[c][m][k] \in path[c].old[i] \cup {path[c].oldPrimary}
               PROVE  body[c][m][k] = None
    BY DEF ReplacedIDsGone
  <2>1. body[c][m][k] \in Replaced(c)
    BY DEF Replaced
  <2>2. body[c][m][k] # None => m \in own[c]
    BY DEF SearchInv, SearchComplete
  <2>3. m \in own[c] => body[c][m][k] \in Given(c)
    BY <2>1 DEF SearchInv, OldIDsAreGiven, Current
  <2>4. body[c][m][k] \in FixtureIDs
    BY <2>1 DEF RecordInv, RecordsOnce
  <2> QED BY <2>2, <2>3, <2>4, GivenIsFresh
<1> QED BY <1>1, <1>2, <1>3, Isolation, PTL

=============================================================================
