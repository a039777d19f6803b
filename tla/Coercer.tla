-------------------------------- MODULE Coercer --------------------------------
(***************************************************************************)
(* param/coercer: strings become what the schema of the request says they  *)
(* are, and maps with integer keys become slices.                          *)
(*                                                                         *)
(* The Go code works in place: a value that is not coerced in the end may  *)
(* have been changed inside.  An outcome has the value that the caller     *)
(* still holds (old), the one it is given (new), and the flags ok and err. *)
(* Go iterates maps in random order and stops at the first error, so a     *)
(* coercion has a set of outcomes.                                         *)
(***************************************************************************)
EXTENDS NestedParams

CONSTANTS
    Reads,          \* Reads[type]: what strconv makes of the strings that it accepts
    IndexOf,        \* the map keys that are numbers, and which
    MaxSliceSize,   \* the largest index that is accepted
    None            \* no such sub-schema

(* A schema is a record, with properties a function (empty when the schema *)
(* has none), items and additional (its additionalProperties) a schema or  *)
(* None, anyOf a sequence of schemas, and enum a set of strings.            *)

ASSUME CoercerAssumption ==
    /\ DOMAIN Reads = {"boolean", "integer", "number", "string"}
    /\ MaxSliceSize \in Nat
    /\ \A k \in DOMAIN IndexOf : IndexOf[k] \in Nat

Outcome(old, new, ok, err) == [old |-> old, new |-> new, ok |-> ok, err |-> err]

Refused(val) == Outcome(val, Nil, FALSE, FALSE)

(* coerceNonObjectSchema tries what the schema may be, in turn.            *)
Else(outcomes, Try(_)) ==
    UNION {IF o.ok \/ o.err THEN {o} ELSE Try(o.old) : o \in outcomes}

(* isSchemaPrimitiveType and coercePrimitiveType.                          *)
CoercePrimitive(val, s) ==
    IF /\ val.kind = "string" /\ val.of \in DOMAIN Reads[s.type]
       /\ ~(s.enum # {} /\ val.of \in DOMAIN Reads["number"])
    THEN Outcome(val, [kind |-> s.type, of |-> Reads[s.type][val.of]], TRUE, FALSE)
    ELSE Refused(val)

----------------------------------------------------------------------------
(* parseIntegerIndexedMap.                                                 *)

IsIntegerIndexed(entries) == DOMAIN entries \subseteq DOMAIN IndexOf

Indexes(entries) == {IndexOf[k] : k \in DOMAIN entries}

BiggestIndex(entries) == Max(Indexes(entries) \cup {0})

(* Mutant: any size will do.                                               *)
NeverTooLarge(entries) == FALSE

TooLarge(entries) == BiggestIndex(entries) > MaxSliceSize

(* Which key an index is taken from: of "1" and "01" the one visited last. *)
Sources(entries) ==
    {from \in [Indexes(entries) -> DOMAIN entries] :
        \A i \in Indexes(entries) : IndexOf[from[i]] = i}

(* Mutant: indexes are taken to count from 1.                              *)
SliceFromOne(entries, from) ==
    [n \in 1..(BiggestIndex(entries) + 1) |->
        IF n \in Indexes(entries) THEN entries[from[n]] ELSE Nil]

Slice(entries, from) ==
    [n \in 1..(BiggestIndex(entries) + 1) |->
        IF n - 1 \in Indexes(entries) THEN entries[from[n - 1]] ELSE Nil]

----------------------------------------------------------------------------
RECURSIVE CoerceSubSchema(_, _)

(* The loops over the children of a map or, in order, of a slice: which of *)
(* them are visited (all, or up to an error), what the loop stores for     *)
(* them (after), and what becomes of the children themselves (inPlace).    *)
Visits(vals, sub, ordered) ==
    LET all == DOMAIN vals
        results == [k \in all |-> CoerceSubSchema(vals[k], sub[k])]
        choices == {c \in [all -> UNION {results[k] : k \in all}] :
                        \A k \in all : c[k] \in results[k]}
        bad(c) == {k \in all : c[k].err}
        visited(c) ==
            IF bad(c) = {} THEN {all}
            ELSE IF ordered THEN {1..Min(bad(c))}
            ELSE {some \cup {k} : some \in SUBSET (all \ bad(c)), k \in bad(c)}
        visit(c, ks) ==
            [err |-> bad(c) # {},
             allOk |-> \A k \in ks : c[k].ok \/ vals[k].kind = "nil",
             after |-> [k \in all |-> IF k \notin ks THEN vals[k]
                                      ELSE IF c[k].ok /\ ~c[k].err THEN c[k].new
                                      ELSE c[k].old],
             inPlace |-> [k \in all |-> IF k \in ks THEN c[k].old ELSE vals[k]]]
    IN  UNION {{visit(c, ks) : ks \in visited(c)} : c \in choices}

(* How the loops over additionalProperties and items end.                  *)
Looped(visit, old, new) ==
    IF visit.err THEN Outcome(old, Nil, FALSE, TRUE)
    ELSE IF visit.allOk THEN Outcome(old, new, TRUE, FALSE)
    ELSE Refused(old)

CoerceParams(schema, data) ==
    {Outcome(Map(v.after @@ data), Map(v.after @@ data), TRUE, v.err) :
        v \in Visits(Restrict(data, DOMAIN schema.properties \cap DOMAIN data),
                     schema.properties, FALSE)}

CoerceAdditional(val, s) ==
    IF s.additional = None \/ val.kind # "map" THEN {Refused(val)}
    ELSE {Looped(v, Map(v.after), Map(v.after)) :
             v \in Visits(val.entries, [k \in DOMAIN val.entries |-> s.additional], FALSE)}

(* An error in a branch is lost, unless the branch is an object.           *)
CoerceBranch(val, s) ==
    {IF o.ok THEN o ELSE Refused(o.old) : o \in CoerceSubSchema(val, s)}

CoerceAnyOf(val, s) ==
    FoldLeft(LAMBDA outcomes, sub : Else(outcomes, LAMBDA old : CoerceBranch(old, sub)),
             {Refused(val)}, s.anyOf)

CoerceItems(items, s) ==
    IF s.items = None
    THEN {[err |-> FALSE, allOk |-> TRUE, after |-> items, inPlace |-> items]}
    ELSE Visits(items, [n \in DOMAIN items |-> s.items], TRUE)

(* A map that becomes a slice stays what it was for the caller, but for    *)
(* what is changed inside its values.                                      *)
CoerceArray(val, s) ==
    IF s.type # "array" THEN {Refused(val)}
    ELSE IF val.kind = "array"
    THEN {Looped(v, Array(v.after), Array(v.after)) : v \in CoerceItems(val.items, s)}
    ELSE IF val.kind # "map" \/ ~IsIntegerIndexed(val.entries) THEN {Refused(val)}
    ELSE IF TooLarge(val.entries) THEN {Outcome(val, Nil, FALSE, TRUE)}
    ELSE UNION {
        LET old(v) == Map([k \in DOMAIN val.entries |->
                              IF from[IndexOf[k]] = k THEN v.inPlace[IndexOf[k] + 1]
                              ELSE val.entries[k]])
        IN  {Looped(v, old(v), Array(v.after)) : v \in CoerceItems(Slice(val.entries, from), s)}
        : from \in Sources(val.entries)}

CoerceNonObjectSchema(val, s) ==
    IF s.type \in DOMAIN Reads THEN {CoercePrimitive(val, s)}
    ELSE Else(Else(CoerceAdditional(val, s), LAMBDA old : CoerceAnyOf(old, s)),
              LAMBDA old : CoerceArray(old, s))

CoerceSubSchema(val, s) ==
    IF DOMAIN s.properties = {} THEN CoerceNonObjectSchema(val, s)
    ELSE IF val.kind = "map" THEN CoerceParams(s, val.entries)
    ELSE {Refused(val)}
=============================================================================
