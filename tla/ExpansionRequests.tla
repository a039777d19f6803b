--------------------------- MODULE ExpansionRequests ---------------------------
(***************************************************************************)
(* Requests with an `expand` parameter, one after the other: how           *)
(* extractExpansions reads it, and that a response is generated from what  *)
(* it has read.  How, is in Expansions.                                    *)
(*                                                                         *)
(* A dotted expansion is the sequence of its names.  Parameter values are  *)
(* those of NestedParams.                                                  *)
(***************************************************************************)
EXTENDS Integers, Sequences

CONSTANTS
    Name,               \* what stands between the dots
    Wildcard,           \* "*"
    Root,               \* the response schemas of the operations
    Method,             \* the methods of requests
    Expand,             \* what requests send as `expand`, or None
    Generated(_, _, _), \* the results of generateInternal, for a schema, method and level
    None

(* The results of a Go call: a value, an error, or a panic.                *)
Ok(v)       == [kind |-> "ok", value |-> v]
Unsupported == [kind |-> "unsupported"]
Panic       == [kind |-> "panic"]

(* A string is split at each dot, so that it has at least one name.        *)
Dotted == {p \in Seq(Name) : p # <<>>}

ASSUME ExpandAssumption ==
    \A e \in Expand \ {None} :
        /\ e.kind \in {"string", "map", "array"}
        /\ e.kind = "string" => e.of \in Dotted
        /\ e.kind = "array" =>
              /\ Len(e.items) \in Nat /\ DOMAIN e.items = 1..Len(e.items)
              /\ \A i \in DOMAIN e.items :
                    e.items[i].kind = "string" => e.items[i].of \in Dotted

VARIABLES
    schema, method, expand,  \* the request
    pc,                      \* how far it has got
    level,                   \* its ExpansionLevel, or None
    response,                \* its response, or None while there is none
    plain                    \* the response of this operation without `expand`

vars == <<schema, method, expand, pc, level, response, plain>>

----------------------------------------------------------------------------
(* parseExpansionLevel.  It sorts its strings first, and only maps come    *)
(* out of it, so a set of them is as good as a list.                       *)

Bare == [wildcard |-> FALSE, expansions |-> <<>>]

(* Mutant: a field that is listed by itself loses what is to be expanded   *)
(* within it.                                                              *)
GroupsNotListed(raw) == {p[1] : p \in raw} \ {p[1] : p \in {q \in raw : Len(q) = 1}}

Groups(raw) == {p[1] : p \in {q \in raw : Len(q) > 1}}

Listed(raw) == {p[1] : p \in {q \in raw : Len(q) = 1}} \ {Wildcard}

Within(raw, k) == {Tail(p) : p \in {q \in raw : Len(q) > 1 /\ q[1] = k}}

(* The groups are parsed by themselves.                                    *)
LevelBy(parse, raw) ==
    [wildcard |-> <<Wildcard>> \in raw,
     expansions |-> [k \in Groups(raw) \cup Listed(raw) |->
                        IF k \in Groups(raw) THEN parse[Within(raw, k)] ELSE Bare]]

(* The strings of a group are shorter than those it comes from:            *)
(* ParsedTo[n] is the function for strings of up to n names.               *)
ParsedTo[n \in Nat] ==
    IF n = 0 THEN [raw \in SUBSET Dotted |-> Bare]
    ELSE [raw \in SUBSET Dotted |-> LevelBy(ParsedTo[n - 1], raw)]

Depth(raw) ==
    CHOOSE n \in {0} \cup {Len(p) : p \in raw} : \A p \in raw : Len(p) <= n

ParseExpansionLevel(raw) == ParsedTo[Depth(raw)][raw]

(* extractExpansions, whose type assertion fails on an item that is not a  *)
(* string.                                                                 *)
LevelOf(e) ==
    IF e = None \/ e.kind = "map" THEN None
    ELSE IF e.kind = "string" THEN ParseExpansionLevel({e.of})
    ELSE IF \E i \in DOMAIN e.items : e.items[i].kind # "string" THEN Panic
    ELSE ParseExpansionLevel({e.items[i].of : i \in DOMAIN e.items})

(* None stands for a response that is not there yet, and is not a result   *)
(* of generateInternal, whatever else Generated may give.                  *)
ASSUME GeneratedAssumption ==
    /\ None # Panic
    /\ \A s \in Root, m \in Method, e \in Expand \cup {None} : LevelOf(e) # Panic =>
          None \notin Generated(s, m, LevelOf(e))

----------------------------------------------------------------------------
Init ==
    /\ schema \in Root /\ method \in Method
    /\ pc = "extract" /\ expand = None /\ level = None
    /\ response = None /\ plain = None

(* Mutant: without an `expand` the last level is used again.               *)
ExtractIfSent ==
    /\ pc = "extract"
    /\ IF LevelOf(expand) = Panic
       THEN pc' = "done" /\ response' = Panic /\ UNCHANGED level
       ELSE /\ pc' = "generate" /\ UNCHANGED response
            /\ level' = IF expand = None THEN level ELSE LevelOf(expand)
    /\ UNCHANGED <<schema, method, expand, plain>>

ExtractExpansions ==
    /\ pc = "extract"
    /\ IF LevelOf(expand) = Panic
       THEN pc' = "done" /\ response' = Panic /\ level' = None
       ELSE pc' = "generate" /\ level' = LevelOf(expand) /\ UNCHANGED response
    /\ UNCHANGED <<schema, method, expand, plain>>

Generate ==
    /\ pc = "generate"
    /\ pc' = "done"
    /\ response' \in Generated(schema, method, level)
    /\ plain' = IF plain = None THEN response' ELSE plain
    /\ UNCHANGED <<schema, method, expand, level>>

(* The client asks for the same, with something (else) expanded.           *)
AskAgain ==
    /\ pc = "done"
    /\ expand' \in Expand
    /\ pc' = "extract" /\ response' = None
    /\ UNCHANGED <<schema, method, level, plain>>

Next == ExtractExpansions \/ Generate \/ AskAgain

Spec == Init /\ [][Next]_vars

----------------------------------------------------------------------------
(* Properties.                                                             *)

(* What the client wrote, as a set of sequences of names.                  *)
Asked ==
    IF expand = None THEN {}
    ELSE CASE expand.kind = "string" -> {expand.of}
           [] expand.kind = "array" ->
                {expand.items[i].of :
                    i \in {j \in DOMAIN expand.items : expand.items[j].kind = "string"}}
           [] OTHER -> {}

(* The first i names of p are asked for, by themselves or further on.      *)
AskedTo(raw, p, i) ==
    i = 0 \/ \E q \in raw : /\ i <= Len(q) /\ \A j \in 1..i : q[j] = p[j]
                            /\ i = Len(q) => q[i] # Wildcard

(* The node of level l that the names of p lead to, if there is one.       *)
NodesAt(l, p) ==
    LET at[i \in 0..Len(p)] ==
            IF i = 0 THEN {l}
            ELSE {n.expansions[p[i]] : n \in {x \in at[i - 1] : p[i] \in DOMAIN x.expansions}}
    IN  at[Len(p)]

IsPrefixTreeAt(l, raw, p) ==
    /\ NodesAt(l, p) # {} <=> AskedTo(raw, p, Len(p))
    /\ \A n \in NodesAt(l, p) : n.wildcard <=> Append(p, Wildcard) \in raw

(* The names that lead to a node, or away from one.                        *)
Candidates ==
    {<<>>} \cup UNION {{Append(SubSeq(q, 1, i), k) : i \in 0..Len(q), k \in Name} : q \in Asked}

(* server.go:751-753: the parsed level has a node for every prefix of what *)
(* was asked for, in whatever order, together with its extensions or by    *)
(* itself, and a wildcard exactly where one was written last.              *)
LevelIsPrefixTree ==
    pc # "extract" /\ level # None => \A p \in Candidates : IsPrefixTreeAt(level, Asked, p)

(* server.go:347-360: a response is what is generated for the `expand` of  *)
(* its own request, whatever earlier requests had expanded, and a request  *)
(* whose `expand` cannot be read is not generated for.                     *)
TypeOK ==
    /\ pc \in {"extract", "generate", "done"}
    /\ response # None <=> pc = "done"
    /\ response # None =>
          response \in IF LevelOf(expand) = Panic THEN {Panic}
                       ELSE Generated(schema, method, LevelOf(expand))
=============================================================================
