------------------------- MODULE ResponseGeneration -------------------------
(***************************************************************************)
(* How server/generator.go builds the response to a request, with several  *)
(* requests in flight: net/http runs HandleRequest in a goroutine of its   *)
(* own for each of them, all of them share one *spec.Fixtures, and nothing *)
(* takes a lock.                                                           *)
(*                                                                         *)
(* Generate makes up to five recursive passes over one tree of Go maps:    *)
(*   generate    generateInternal copies the fixture into a new tree, but  *)
(*               for the values it returns by reference;                   *)
(*   record      recordAndReplaceIDs writes the IDs of the path into it;   *)
(*   distribute  distributeReplacedIDs renames other mentions of old IDs;  *)
(*   replace     ReplaceData reflects POST parameters;                     *)
(*   write       writeResponse serialises the tree.                        *)
(* Each step below visits one key of one map, in any order of the keys (Go *)
(* iterates a map in random order) and depth first (each pass recurses in  *)
(* the middle of its loop): stack[c] is the call stack of the pass.        *)
(***************************************************************************)
EXTENDS Responses

VARIABLES
    store,    \* the loaded fixtures, shared by all handlers
    copy,     \* copy[c][m]: the private map c made for fixture object m
    own,      \* own[c]: the objects c has made a private map for
    pc,       \* which pass each handler is in
    req,      \* the request each handler serves
    stack,    \* the frames of the recursion, innermost last
    path,     \* the PathParamsMap: primary, and the IDs it replaced
    body,     \* what has been serialised so far
    crashed   \* the Go runtime has stopped the process

vars == <<store, copy, own, pc, req, stack, path, body, crashed>>

Pass == {"generate", "record", "distribute", "replace", "write"}

Frame == [map : Map, key : Key \cup {None}, typed : BOOLEAN, left : SUBSET Key]

PathParamsMap ==
    [primary : Text \cup {None}, oldPrimary : Text \cup {None},
     old : Seq(SUBSET (Text \cup {None}))]

Blank == [m \in Map |-> [k \in Key |-> None]]

(* The handler's view of its response: its own maps, or the store's.       *)
Read(c, m, k) == IF m \in own[c] THEN copy[c][m][k] ELSE store[m][k]

Top(c) == stack[c][Len(stack[c])]

Rest(c) == SubSeq(stack[c], 1, Len(stack[c]) - 1)

AtRoot(c) == Len(stack[c]) = 1

(* The innermost loop goes on to its next key, without recursing.          *)
Visited(c, k) == stack' = [stack EXCEPT ![c][Len(stack[c])].left = @ \ {k}]

(* It recurses into the map v found at key k, to visit its keys ks.        *)
(* parentKey is nil for the items of a slice (generator.go:1029).          *)
Entered(c, k, v, ks) ==
    LET f == Top(c)
        parent == IF Kind[f.map][k] \in {"list", "array"} THEN None ELSE k
    IN  stack' = [stack EXCEPT ![c] =
                    Append([stack[c] EXCEPT ![Len(stack[c])].left = @ \ {k}],
                           [map |-> v, key |-> parent,
                            typed |-> f.typed /\ Kind[f.map][k] = "object",
                            left |-> ks])]

Put(c, m, k, v) ==
    IF m \in own[c]
    THEN copy' = [copy EXCEPT ![c][m][k] = v] /\ UNCHANGED store
    ELSE store' = [store EXCEPT ![m][k] = v] /\ UNCHANGED copy

Properties(m) == {k \in Key : Kind[m][k] # "none"}

Present(c, m) == {k \in Key : Read(c, m, k) # None}

Sent(c, m) == {k \in Key : <<m, k>> \in DOMAIN req[c].data}

RootFrame(c, ks) ==
    <<[map |-> req[c].root, key |-> None, typed |-> TRUE, left |-> ks]>>

----------------------------------------------------------------------------
(* The passes.                                                             *)

(* Startup has loaded the fixtures; nothing has been served.               *)
Init ==
    /\ store = Fixture
    /\ copy = [c \in Handler |-> Blank]
    /\ own = [c \in Handler |-> {}]
    /\ pc = [c \in Handler |-> "idle"]
    /\ req = [c \in Handler |-> CHOOSE r \in Request : TRUE]
    /\ stack = [c \in Handler |-> <<>>]
    /\ path = [c \in Handler |-> [primary |-> None, oldPrimary |-> None, old |-> <<>>]]
    /\ body = [c \in Handler |-> Blank]
    /\ crashed = FALSE

(* HandleRequest has routed and validated a request, and calls Generate.   *)
Arrive(c) ==
    /\ ~crashed
    /\ pc[c] \in {"idle", "done", "panicked"}
    /\ \E r \in Request :
          /\ req' = [req EXCEPT ![c] = r]
          /\ path' = [path EXCEPT ![c] =
                        [primary |-> r.primary, oldPrimary |-> None,
                         old |-> [i \in DOMAIN r.secondary |-> {}]]]
          /\ own' = [own EXCEPT ![c] = {r.root}]
          /\ stack' = [stack EXCEPT ![c] =
                        <<[map |-> r.root, key |-> None, typed |-> TRUE,
                           left |-> Properties(r.root)]>>]
    /\ copy' = [copy EXCEPT ![c] = Blank]
    /\ body' = [body EXCEPT ![c] = Blank]
    /\ pc' = [pc EXCEPT ![c] = "generate"]
    /\ UNCHANGED <<store, crashed>>

(* Mutant: objects nested in a fixture are shared, only the top one copied. *)
CopiesTopOnly(c, m, k, v) == v \in Map /\ FromTarget(req[c], m, k)

(* generateInternal goes on to build a new map for the object found there; *)
(* whatever is not such an object it returns as it is, reference and all.  *)
CopiesInto(c, m, k, v) == v \in Map /\ Copies(req[c], m, k)

GenerateInternal(c) ==
    /\ ~crashed
    /\ pc[c] = "generate" /\ stack[c] # <<>>
    /\ \E k \in Top(c).left :
          LET m == Top(c).map
              v == IF FromTarget(req[c], m, k) THEN Target[m][k] ELSE store[m][k]
          IN  /\ copy' = [copy EXCEPT ![c][m][k] = v]
              /\ IF CopiesInto(c, m, k, v)
                 THEN own' = [own EXCEPT ![c] = @ \cup {v}] /\ Entered(c, k, v, Properties(v))
                 ELSE own' = own /\ Visited(c, k)
    /\ UNCHANGED <<store, pc, req, path, body, crashed>>

(* A create endpoint has no ID in its path: one is minted, if the response *)
(* has an `id` to replace.  With no path parameter at all and nothing      *)
(* minted, pathParams is nil.                                              *)
Mints(c) == path[c].primary = None /\ copy[c][req[c].root][IdKey] \in Text

NilPathParams(c) == path[c].primary = None /\ req[c].secondary = <<>> /\ ~Mints(c)

(* Mutant: the ID passes are made in any case.                             *)
ReplacesAlways(c) == TRUE

ReplacesIDs(c) == ~NilPathParams(c)

AfterMint(c) ==
    IF ReplacesIDs(c) THEN "record"
    ELSE IF req[c].method = "POST" THEN "replace" ELSE "write"

(* What is no object fails the type assertion of maybeGeneratePrimaryID,   *)
(* and the record pass dereferences pathParams at the first string it sees.*)
Panics(c) ==
    \/ path[c].primary = None /\ req[c].root \in Binary
    \/ AfterMint(c) = "record" /\ NilPathParams(c)

MaybeGeneratePrimaryID(c) ==
    /\ ~crashed
    /\ pc[c] = "mint"
    /\ \/ Mints(c) /\ \E i \in MintedId : path' = [path EXCEPT ![c].primary = i]
       \/ ~Mints(c) /\ UNCHANGED path
    /\ pc' = [pc EXCEPT ![c] = IF Panics(c) THEN "panicked" ELSE AfterMint(c)]
    /\ stack' = [stack EXCEPT ![c] =
          IF Panics(c) THEN <<>>
          ELSE RootFrame(c, IF AfterMint(c) = "replace" THEN Sent(c, req[c].root)
                            ELSE Present(c, req[c].root))]
    /\ UNCHANGED <<store, copy, own, req, body, crashed>>

----------------------------------------------------------------------------
(* recordAndReplaceIDs.  Params(c, n) are the path parameters called n.    *)

Params(c, n) == {i \in DOMAIN req[c].secondary : req[c].secondary[i].name = n}

(* The parameters that field k of the map in frame f is an ID of: by the   *)
(* name of the field, or, for a nested `id`, by the name of the resource   *)
(* and by the parent's key.                                                *)
Matched(c, f, k) ==
    IF k # IdKey THEN Params(c, k)
    ELSE IF AtRoot(c) THEN {}
    ELSE Params(c, ObjectName[f.map]) \cup Params(c, f.key)

(* Of the two matches of a nested `id` the parent key's is written last.   *)
Winner(c, f, k) ==
    CHOOSE i \in Matched(c, f, k) :
        k = IdKey /\ Params(c, f.key) # {} => i \in Params(c, f.key)

(* Mutant: every `id` of the response takes the ID of the path.             *)
TakesPrimaryAnywhere(c, k) == k = IdKey /\ path[c].primary # None

TakesPrimary(c, k) == AtRoot(c) /\ k = IdKey /\ path[c].primary # None

RecordAndReplaceIDs(c) ==
    /\ ~crashed
    /\ pc[c] = "record" /\ stack[c] # <<>>
    /\ \E k \in Top(c).left :
          LET f == Top(c)
              v == Read(c, f.map, k)
              matched == Matched(c, f, k)
          IN  \/ /\ v \in Map
                 /\ Entered(c, k, v, Present(c, v))
                 /\ UNCHANGED <<store, copy, path>>
              \/ /\ v \in Text /\ TakesPrimary(c, k)
                 /\ Put(c, f.map, k, path[c].primary)
                 /\ path' = [path EXCEPT ![c].oldPrimary = v]
                 /\ Visited(c, k)
              \/ /\ v \in Text /\ ~TakesPrimary(c, k) /\ matched # {}
                 /\ Put(c, f.map, k, req[c].secondary[Winner(c, f, k)].id)
                 /\ path' = [path EXCEPT ![c].old =
                       [i \in DOMAIN @ |-> @[i] \cup (IF i \in matched THEN {v} \ {Empty}
                                                      ELSE {})]]
                 /\ Visited(c, k)
              \/ /\ v \notin Map /\ (v \in Text => ~TakesPrimary(c, k) /\ matched = {})
                 /\ Visited(c, k)
                 /\ UNCHANGED <<store, copy, path>>
    /\ UNCHANGED <<own, pc, req, body, crashed>>

----------------------------------------------------------------------------
(* distributeReplacedIDs.  A `url` is represented by the ID inside it.     *)

(* Mutant: IDs replaced by a path parameter are not looked for.            *)
NewIDsOfPrimary(c, v) == IF v = path[c].oldPrimary THEN {path[c].primary} ELSE {}

(* The new ID for a value that is an ID replaced by the pass before: the   *)
(* primary one, else that of the first path parameter that replaced it.    *)
NewIDs(c, v) ==
    IF v = path[c].oldPrimary THEN {path[c].primary}
    ELSE {req[c].secondary[i].id : i \in
            {j \in DOMAIN path[c].old :
                v \in path[c].old[j] /\ \A h \in 1..(j - 1) : v \notin path[c].old[h]}}

DistributeReplacedIDs(c) ==
    /\ ~crashed
    /\ pc[c] = "distribute" /\ stack[c] # <<>>
    /\ \E k \in Top(c).left :
          LET m == Top(c).map
              v == Read(c, m, k)
          IN  \/ /\ v \in Map
                 /\ Entered(c, k, v, Present(c, v))
                 /\ UNCHANGED <<store, copy>>
              \/ /\ v \notin Map
                 /\ \E id \in NewIDs(c, v) : Put(c, m, k, id)
                 /\ Visited(c, k)
              \/ /\ v \notin Map /\ NewIDs(c, v) = {}
                 /\ Visited(c, k)
                 /\ UNCHANGED <<store, copy>>
    /\ UNCHANGED <<own, pc, req, path, body, crashed>>

----------------------------------------------------------------------------
(* ReplaceData, over the keys of the request data that the response has.   *)

(* Both sides are maps: recurse, and assign the map to itself.             *)
Recurses(c, m, k) ==
    /\ req[c].data[<<m, k>>] = Nested
    /\ Read(c, m, k) \in Map
    /\ Kind[m][k] \notin {"list", "array"}

(* Mutant: the kind of a field is looked up whatever the schema above it.   *)
IsSameTypeAnywhere(c, f, k) ==
    /\ req[c].data[<<f.map, k>>] # Nested
    /\ Kind[f.map][k] \in {"string", "expandable"}

(* Mutant: a parameter takes the place of another string only.             *)
IsSameTypeAsValue(c, f, k) ==
    /\ req[c].data[<<f.map, k>>] # Nested
    /\ f.typed
    /\ Kind[f.map][k] \in {"string", "expandable"}
    /\ Read(c, f.map, k) \in Text

(* isSameType, for a string parameter.  Only the request value is compared *)
(* with the schema of the field, and a schema is known only while the      *)
(* recursion stays within objects with Properties.                         *)
IsSameType(c, f, k) ==
    /\ req[c].data[<<f.map, k>>] # Nested
    /\ f.typed
    /\ Kind[f.map][k] \in {"string", "expandable"}

ReplaceData(c) ==
    /\ ~crashed
    /\ pc[c] = "replace" /\ stack[c] # <<>>
    /\ \E k \in Top(c).left :
          LET f == Top(c)
              v == Read(c, f.map, k)
          IN  \/ /\ v # None /\ Recurses(c, f.map, k)
                 /\ Put(c, f.map, k, v)
                 /\ Entered(c, k, v, Sent(c, v))
              \/ /\ v # None /\ IsSameType(c, f, k)
                 /\ Put(c, f.map, k, req[c].data[<<f.map, k>>])
                 /\ Visited(c, k)
              \/ /\ v = None \/ ~(Recurses(c, f.map, k) \/ IsSameType(c, f, k))
                 /\ Visited(c, k)
                 /\ UNCHANGED <<store, copy>>
    /\ UNCHANGED <<own, pc, req, path, body, crashed>>

----------------------------------------------------------------------------
(* writeResponse serialises the tree while other handlers go on.           *)
WriteResponse(c) ==
    /\ ~crashed
    /\ pc[c] = "write" /\ stack[c] # <<>>
    /\ \E k \in Top(c).left :
          LET m == Top(c).map
              v == Read(c, m, k)
          IN  /\ body' = [body EXCEPT ![c][m][k] = v]
              /\ IF v \in Map THEN Entered(c, k, v, Present(c, v)) ELSE Visited(c, k)
    /\ UNCHANGED <<store, copy, own, pc, req, path, crashed>>

(* A pass returns from a map whose keys are all visited, to its caller...  *)
Return(c) ==
    /\ ~crashed
    /\ Len(stack[c]) > 1 /\ Top(c).left = {}
    /\ stack' = [stack EXCEPT ![c] = Rest(c)]
    /\ UNCHANGED <<store, copy, own, pc, req, path, body, crashed>>

(* Mutant: reflected parameters are followed by another search for old IDs. *)
NextPassAgain(c) ==
    CASE pc[c] = "generate" -> IF req[c].root \in Binary THEN "write" ELSE "mint"
      [] pc[c] \in {"record", "replace"} -> "distribute"
      [] pc[c] = "distribute" /\ req[c].method = "POST" -> "replace"
      [] pc[c] = "distribute" /\ req[c].method # "POST" -> "write"
      [] OTHER -> "done"

(* Mutant: a binary response goes through all the passes.                  *)
NextPassOfAny(c) ==
    CASE pc[c] = "generate" -> "mint"
      [] pc[c] = "record" -> "distribute"
      [] pc[c] = "distribute" /\ req[c].method = "POST" -> "replace"
      [] pc[c] = "distribute" /\ req[c].method # "POST" -> "write"
      [] pc[c] = "replace" -> "write"
      [] OTHER -> "done"

(* A binary response is written as it is.                                  *)
NextPass(c) ==
    CASE pc[c] = "generate" -> IF req[c].root \in Binary THEN "write" ELSE "mint"
      [] pc[c] = "record" -> "distribute"
      [] pc[c] = "distribute" /\ req[c].method = "POST" -> "replace"
      [] pc[c] = "distribute" /\ req[c].method # "POST" -> "write"
      [] pc[c] = "replace" -> "write"
      [] OTHER -> "done"

(* ... and from the root to the sequence of passes in Generate and         *)
(* HandleRequest.                                                          *)
EndPass(c) ==
    /\ ~crashed
    /\ Len(stack[c]) = 1 /\ Top(c).left = {}
    /\ pc' = [pc EXCEPT ![c] = NextPass(c)]
    /\ stack' = [stack EXCEPT ![c] =
          IF NextPass(c) \in {"mint", "done"} THEN <<>>
          ELSE RootFrame(c, IF NextPass(c) = "replace" THEN Sent(c, req[c].root)
                            ELSE Present(c, req[c].root))]
    /\ UNCHANGED <<store, copy, own, req, path, body, crashed>>

----------------------------------------------------------------------------
(* Go's maps are not safe for concurrent use.  A goroutine is about to     *)
(* access a store map when it may next visit a key of it.                  *)

Writes(c, k) ==
    LET f == Top(c)
        v == Read(c, f.map, k)
    IN  \/ /\ pc[c] = "record" /\ v \in Text
           /\ TakesPrimary(c, k) \/ Matched(c, f, k) # {}
        \/ /\ pc[c] = "distribute" /\ v \notin Map
           /\ NewIDs(c, v) # {}
        \/ /\ pc[c] = "replace" /\ v # None
           /\ Recurses(c, f.map, k) \/ IsSameType(c, f, k)

NextReads(c) ==
    {m \in Map : /\ stack[c] # <<>> /\ m = Top(c).map /\ Top(c).left # {}
                 /\ pc[c] = "generate" \/ m \notin own[c]}

NextWrites(c) ==
    {m \in Map : /\ stack[c] # <<>> /\ m = Top(c).map /\ m \notin own[c]
                 /\ \E k \in Top(c).left : Writes(c, k)}

NoDataRace ==
    \A c, d \in Handler : c # d => NextWrites(c) \cap NextReads(d) = {}

(* "fatal error: concurrent map read and map write" stops the whole        *)
(* process; net/http cannot recover it.  The runtime detects such an       *)
(* overlap at times, not always.                                           *)
Crash ==
    /\ ~crashed
    /\ ~NoDataRace
    /\ crashed' = TRUE
    /\ UNCHANGED <<store, copy, own, pc, req, stack, path, body>>

Step(c) ==
    \/ GenerateInternal(c)
    \/ MaybeGeneratePrimaryID(c)
    \/ RecordAndReplaceIDs(c)
    \/ DistributeReplacedIDs(c)
    \/ ReplaceData(c)
    \/ WriteResponse(c)
    \/ Return(c)
    \/ EndPass(c)

Next == Crash \/ \E c \in Handler : Arrive(c) \/ Step(c)

(* The Go scheduler runs every goroutine again and again; nobody has to    *)
(* send requests.                                                          *)
Spec == Init /\ [][Next]_vars /\ \A c \in Handler : WF_vars(Step(c))

----------------------------------------------------------------------------
(* Properties.                                                             *)

(* Every variable holds a value of its type, and every handler outside the *)
(* recursive passes has an empty call stack.                               *)
TypeOK ==
    /\ store \in [Map -> [Key -> Value]]
    /\ copy \in [Handler -> [Map -> [Key -> Value]]]
    /\ own \in [Handler -> SUBSET Map]
    /\ pc \in [Handler -> Pass \cup {"idle", "mint", "done", "panicked"}]
    /\ req \in [Handler -> Request]
    /\ stack \in [Handler -> Seq(Frame)]
    /\ \A c \in Handler : pc[c] \in Pass <=> stack[c] # <<>>
    /\ path \in [Handler -> PathParamsMap]
    /\ \A c \in Handler : DOMAIN path[c].old \subseteq DOMAIN req[c].secondary
    /\ body \in [Handler -> [Map -> [Key -> Value]]]
    /\ crashed \in BOOLEAN

(* generator.go:120-131: whatever mixture of path, fixture and schema a    *)
(* request comes to, the passes that take an object for granted are not    *)
(* run on a binary response, nor those that dereference the path           *)
(* parameters without any.  (The panic of a handler closes the connection  *)
(* of its client, who gets no response.)                                   *)
NoPanic == \A c \in Handler : pc[c] # "panicked"

(* The three passes that write in place leave the loaded fixtures alone,   *)
(* except for objects that generateInternal hands out by reference.        *)
CopiedFixturesPristine ==
    \A m \in Map \ Exposed : store[m] = Fixture[m]

(* README.md:48-51: parameters of a POST are reflected into its response   *)
(* and forgotten.  Whatever a handler leaves behind in the store is an ID, *)
(* from a path or minted; it is never a parameter.                         *)
RequestIDs == {r.primary : r \in Request} \cup
              UNION {{r.secondary[i].id : i \in DOMAIN r.secondary} : r \in Request}

PostDataNeverStored ==
    \A m \in Map, k \in Key :
        store[m][k] \in {Fixture[m][k]} \cup RequestIDs \cup MintedId

(* generator.go:141-144: once a response is complete no ID that the record *)
(* pass replaced is left anywhere in it, wherever in the tree, and before  *)
(* or after the replacement, the iteration came across it.  (A POST may    *)
(* send the old ID as a parameter.)                                        *)
ReplacedIDsGone ==
    \A c \in Handler :
        pc[c] = "done" /\ req[c].method # "POST" =>
            \A m \in Map, k \in Key, i \in DOMAIN path[c].old :
                body[c][m][k] \notin (path[c].old[i] \cup {path[c].oldPrimary}) \ {None}

(* README.md:48 and the comment above recordAndReplaceIDs: a finished      *)
(* response is the function of its request that StatelessMock defines.     *)
Mock == INSTANCE StatelessMock WITH
            status <- [c \in Handler |-> CASE pc[c] = "idle" -> "idle"
                                           [] pc[c] = "done" -> "answered"
                                           [] OTHER -> "serving"],
            request <- req,
            answer <- [c \in Handler |-> IF pc[c] = "done" THEN body[c] ELSE Blank]

AnswersStateless ==
    \A c \in Handler :
        pc[c] = "done" => \E i \in MintedId : body[c] = Ideal(req[c], i)

(* The whole promise: this module implements the stateless mock.           *)
ImplementsStatelessMock == Mock!Spec

(* generator_test.go:98-127 TestConcurrentAccess: concurrent requests do   *)
(* not bring the process down.                                             *)
NoCrash == ~crashed

(* Every request taken up is answered, unless the runtime stops the        *)
(* process: no pass waits for another handler or loops forever.            *)
Answered ==
    \A c \in Handler :
        (pc[c] \notin {"idle", "done"}) ~> (pc[c] = "done" \/ crashed)

----------------------------------------------------------------------------
(* Why this holds: a handler's maps refer only to maps of its own and to   *)
(* exposed objects, and so do the frames of its passes.                    *)
FrameIsolated(c, f) ==
    /\ f.map \in own[c] \cup Exposed
    /\ f.typed => f.map \in own[c]
    /\ pc[c] = "generate" => f.map \in own[c] /\ f.left \subseteq Properties(f.map)
    /\ pc[c] = "replace" => f.left \subseteq Sent(c, f.map)

StackIsolated(c) == \A i \in DOMAIN stack[c] : FrameIsolated(c, stack[c][i])

MapsIsolated(c) ==
    \A m \in Map, k \in Key : copy[c][m][k] \in Map =>
        /\ copy[c][m][k] \in own[c] \cup Exposed
        /\ Kind[m][k] = "object" => copy[c][m][k] \in own[c]

(* A handler that serves a request has not panicked, and only for an       *)
(* object does it come to mint an ID.                                      *)
Started(c) ==
    /\ pc[c] # "panicked"
    /\ pc[c] = "mint" => req[c].root \notin Binary
    /\ pc[c] # "idle" => /\ req[c].root \in own[c]
                         /\ path[c].primary \in {req[c].primary} \cup MintedId

HandlerIsolated(c) == Started(c) /\ MapsIsolated(c) /\ StackIsolated(c)

StoreIsolated ==
    /\ CopiedFixturesPristine
    /\ PostDataNeverStored
    /\ \A m \in Map, k \in Key : store[m][k] \in Map => store[m][k] = Fixture[m][k]

(* The inductive invariant of ResponseGenerationProofs.                    *)
IInv == TypeOK /\ StoreIsolated /\ \A c \in Handler : HandlerIsolated(c)

----------------------------------------------------------------------------
(* Why no stale ID is left over: the distribute pass searches a set of     *)
(* objects that contains the root and is closed under "refers to", but for *)
(* the keys still to be visited.  At its end nothing is left to visit, and *)
(* the passes that follow do not leave the set.                            *)

(* The IDs that the record pass has replaced so far...                     *)
Replaced(c) == {path[c].oldPrimary} \cup UNION {path[c].old[i] : i \in DOMAIN path[c].old}

(* ... and what the request itself may put into its response.              *)
Given(c) ==
    {path[c].primary, None}
        \cup {req[c].secondary[i].id : i \in DOMAIN req[c].secondary}
        \cup {req[c].data[f] : f \in {x \in DOMAIN req[c].data : req[c].method = "POST"}}

Current(c, v) == v \in Replaced(c) => v \in Given(c)

Unvisited(c, m, k) == \E i \in DOMAIN stack[c] : stack[c][i].map = m /\ k \in stack[c][i].left

(* Key k of object m has been searched: it is up to date, and leads to an  *)
(* object among V if to any.  (An object that is not the handler's own may *)
(* get another ID from another handler.)                                   *)
Settled(c, m, k, V) ==
    /\ m \in own[c] => Current(c, copy[c][m][k])
    /\ Read(c, m, k) \in Map => Read(c, m, k) \in V

Searching(c, V) ==
    /\ req[c].root \in V
    /\ \A m \in V, k \in Key : Unvisited(c, m, k) \/ Settled(c, m, k, V)

Searched(c, V) ==
    /\ req[c].root \in V
    /\ \A m \in V, k \in Key : Settled(c, m, k, V)
    /\ \A i \in DOMAIN stack[c] : stack[c][i].map \in V

(* generator.go:141-144, whatever the fixtures: an ID that the record pass *)
(* replaced is in a response only where the request itself gives it anew   *)
(* (as the ID of the path or as a parameter), or in an object that is      *)
(* shared with other handlers.                                             *)
OldIDsAreGiven ==
    \A c \in Handler : \A m \in own[c], k \in Key : Current(c, body[c][m][k])

SearchComplete(c) ==
    /\ pc[c] \in {"generate", "mint"} => Replaced(c) = {None}
    /\ pc[c] \in {"generate", "mint", "record", "distribute", "replace"} => body[c] = Blank
    /\ \A m \in Map, k \in Key : body[c][m][k] # None => m \in own[c] \cup Exposed
    /\ pc[c] = "replace" => req[c].method = "POST"
    /\ pc[c] = "distribute" => \E V \in SUBSET Map : Searching(c, V)
    /\ pc[c] \in {"replace", "write"} => \E V \in SUBSET Map : Searched(c, V)

SearchInv == OldIDsAreGiven /\ \A c \in Handler : SearchComplete(c)

----------------------------------------------------------------------------
(* Why the IDs that are replaced are those of the fixtures, and never one  *)
(* that the same request has put there: a response is a tree.              *)

(* R holds the objects of the response to r, each of which is found at one *)
(* key of one other; the root is found at none.                            *)
IsTree(r, R) ==
    /\ r.root \in R
    /\ \A m \in R : \A k \in Properties(m) : Plain(r, m, k) \in Map =>
          /\ Plain(r, m, k) \in R \ {r.root}
          /\ \A n \in R : \A j \in Properties(n) :
                Plain(r, n, j) = Plain(r, m, k) => n = m /\ j = k

ResponsesAreTrees == \A r \in Request : \E R \in SUBSET Map : IsTree(r, R)

(* Clients use other IDs than those that the fixtures happen to have.      *)
IDsAreFresh == \A m \in Map, k \in Key : Fixture[m][k] \notin (RequestIDs \cup MintedId) \ {None}

(* The record pass has not come to key k of object m yet.                  *)
AsGenerated(c, m, k) ==
    copy[c][m][k] # None => k \in Properties(m) /\ copy[c][m][k] = Plain(req[c], m, k)

(* U are the objects of the response that it has not entered yet.          *)
Recording(c, R, U) ==
    /\ IsTree(req[c], R) /\ U \subseteq R
    /\ \A m \in U, k \in Key :
          /\ AsGenerated(c, m, k)
          /\ copy[c][m][k] \in Map => copy[c][m][k] \in U
    /\ \A i \in DOMAIN stack[c] :
          /\ stack[c][i].map \in R \ U
          /\ \A k \in stack[c][i].left :
                /\ AsGenerated(c, stack[c][i].map, k)
                /\ copy[c][stack[c][i].map][k] \in Map => copy[c][stack[c][i].map][k] \in U
          /\ \A j \in DOMAIN stack[c] : stack[c][i].map = stack[c][j].map => i = j

FixtureIDs == {None} \cup UNION {{Fixture[m][k] : k \in Key} : m \in Map}

RecordsOnce(c) ==
    /\ Replaced(c) \subseteq FixtureIDs
    /\ pc[c] \in {"generate", "mint"} => \A m \in Map, k \in Key : AsGenerated(c, m, k)
    /\ pc[c] = "record" => \E R, U \in SUBSET Map : Recording(c, R, U)

RecordInv == \A c \in Handler : RecordsOnce(c)

----------------------------------------------------------------------------
(* Why a response is the one that Responses defines.  The two ID passes    *)
(* walk the tree once and turn what they found, B, into A; ReplaceData and *)
(* writeResponse come to all that is asked for and to all that is left.    *)

Pending(c, U, m, k) == m \in U \/ Unvisited(c, m, k)

(* U are the objects that have not been entered yet: those that a key      *)
(* still to be visited leads to, and those below.                          *)
FoundIn(c, B, f) ==
    \E m \in own[c], k \in Key :
        /\ B[m][k] = f.map
        /\ f.key = IF Kind[m][k] \in {"list", "array"} THEN None ELSE k

WalkFrames(c, U, B) ==
    /\ stack[c] # <<>> /\ stack[c][1].map = req[c].root
    /\ \A i \in DOMAIN stack[c] :
          /\ stack[c][i].map \in own[c] \ U
          /\ \A k \in stack[c][i].left : B[stack[c][i].map][k] # None
          /\ i > 1 => FoundIn(c, B, stack[c][i])
    /\ \A i, j \in DOMAIN stack[c] : stack[c][i].map = stack[c][j].map => i = j

Walk(c, U, B, A) ==
    /\ own[c] = Shown[req[c]] /\ U \subseteq own[c] \ {req[c].root}
    /\ WalkFrames(c, U, B)
    /\ \A m \in own[c], k \in Key :
          /\ copy[c][m][k] = IF Pending(c, U, m, k) THEN B[m][k] ELSE A[m][k]
          /\ B[m][k] \in Map => (B[m][k] \in U <=> Pending(c, U, m, k))

(* The IDs replaced so far are those of the keys seen so far.              *)
Seen(c, U) == {f \in own[c] \X Key : ~Pending(c, U, f[1], f[2])}

OldPrimaryIn(c, seen) ==
    LET r == req[c]
        id == Raw[r][r.root][IdKey]
    IN  IF path[c].primary # None /\ id \in Text /\ <<r.root, IdKey>> \in seen THEN id ELSE None

Recorded(c, seen) ==
    /\ path[c].oldPrimary = OldPrimaryIn(c, seen)
    /\ DOMAIN path[c].old = DOMAIN req[c].secondary
    /\ \A i \in DOMAIN req[c].secondary : path[c].old[i] = OldIn(req[c], i, seen)

(* ReplaceData has yet to come to key k of m, below objects only.          *)
Due(c, m, k) ==
    \E i \in DOMAIN stack[c] :
        stack[c][i].typed /\ stack[c][i].map = m /\ k \in stack[c][i].left

Reflecting(c, T) ==
    LET r == req[c]
        renamed == Renamed[r][path[c].primary]
        final == Final[r][path[c].primary]
    IN  /\ own[c] = Shown[r] /\ r.root \in T /\ T \subseteq Asked[r]
        /\ \A i \in DOMAIN stack[c] : stack[c][i].typed => stack[c][i].map \in T
        /\ \A m \in own[c], k \in Key : copy[c][m][k] \in {renamed[m][k], final[m][k]}
        /\ \A m \in T, k \in Key :
              \/ Due(c, m, k)
              \/ /\ copy[c][m][k] = final[m][k]
                 /\ Nests(r, m, k) /\ Raw[r][m][k] \in Map => Raw[r][m][k] \in T

Writing(c, V) ==
    LET r == req[c]
        final == Final[r][path[c].primary]
    IN  /\ own[c] = Shown[r] /\ r.root \in V /\ V \subseteq Left[r][path[c].primary]
        /\ \A i \in DOMAIN stack[c] : stack[c][i].map \in V
        /\ \A m \in own[c], k \in Key : copy[c][m][k] = final[m][k]
        /\ \A m \in Map, k \in Key :
              body[c][m][k] # None => m \in V /\ body[c][m][k] = final[m][k]
        /\ \A m \in V, k \in Key :
              \/ Unvisited(c, m, k)
              \/ /\ body[c][m][k] = final[m][k]
                 /\ final[m][k] \in Map => final[m][k] \in V

(* What has become of the response to c's request, pass by pass.           *)
Generating(c) ==
    /\ path[c] = [primary |-> req[c].primary, oldPrimary |-> None,
                  old |-> [i \in DOMAIN req[c].secondary |-> {}]]
    /\ own[c] \subseteq Shown[req[c]]
    /\ \A m \in own[c], k \in Key :
          Unvisited(c, m, k) \/ copy[c][m][k] = Raw[req[c]][m][k]

Naming(c) ==
    \E U \in SUBSET Map :
        /\ Walk(c, U, Raw[req[c]], Named[req[c]][path[c].primary])
        /\ Recorded(c, Seen(c, U))

Renaming(c) ==
    /\ \E U \in SUBSET Map :
          Walk(c, U, Named[req[c]][path[c].primary], Renamed[req[c]][path[c].primary])
    /\ Recorded(c, own[c] \X Key)

AnswerOf(c) ==
    /\ pc[c] \in {"generate", "mint"} => Generating(c)
    /\ pc[c] = "mint" => own[c] = Shown[req[c]]
    /\ pc[c] \in {"record", "distribute", "replace", "write"} =>
          \E i \in MintedId : path[c].primary = Primary(req[c], i)
    /\ pc[c] = "record" => Naming(c)
    /\ pc[c] = "distribute" => Renaming(c)
    /\ pc[c] = "replace" => \E T \in SUBSET Map : Reflecting(c, T)
    /\ pc[c] = "write" => \E V \in SUBSET Map : Writing(c, V)
    /\ pc[c] = "done" => \E i \in MintedId : body[c] = Ideal(req[c], i)

AnswerInv == \A c \in Handler : AnswerOf(c)

=============================================================================
