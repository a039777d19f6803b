------------------------------ MODULE NestedParams ------------------------------
(***************************************************************************)
(* param/nestedtypeassembler: how pairs such as `items[][price]=x` become  *)
(* nested Go values.  A parameter value is a record tagged by its kind:    *)
(* a string, a map, an array, the nil of a gap in a slice, or, once the    *)
(* coercer has been there, one of JSON's other scalars.                    *)
(***************************************************************************)
EXTENDS ParamKeys, SequencesExt, FiniteSets

String(t) == [kind |-> "string", of |-> t]
Map(f)    == [kind |-> "map", entries |-> f]
Array(s)  == [kind |-> "array", items |-> s]
Nil       == [kind |-> "nil"]
Error     == [kind |-> "error"]

----------------------------------------------------------------------------
(* The nested value that one pair denotes, by itself.                      *)
BuildParamStructure(key, parts, value) ==
    IF \E i \in DOMAIN parts : parts[i].type = "raw" THEN Error
    ELSE Map(key :> FoldRight(LAMBDA p, sub : IF p.type = "array" THEN Array(<<sub>>)
                                              ELSE Map(p.content :> sub),
                              parts, String(value)))

(* Mutant: the element is extended whatever it has already.                *)
AlwaysCollapses(arr1, arr2) == Last(arr1).kind = "map" /\ arr2[1].kind = "map"

(* maybeCollapseArrays: arr2 has one element, which goes on with the last  *)
(* one of arr1, unless it has a key that the latter has with a string.     *)
MaybeCollapseArrays(arr1, arr2) ==
    LET last == Last(arr1)
        next == arr2[1]
    IN  /\ last.kind = "map" /\ next.kind = "map"
        /\ \A k \in DOMAIN last.entries \cap DOMAIN next.entries :
              last.entries[k].kind \in {"array", "map"}

RECURSIVE MergeMaps(_, _)

MergeValues(val1, val2) ==
    IF val1.kind = "map" /\ val2.kind = "map" THEN Map(MergeMaps(val1.entries, val2.entries))
    ELSE IF val1.kind = "array" /\ val2.kind = "array"
    THEN IF MaybeCollapseArrays(val1.items, val2.items)
         THEN Array(Append(Front(val1.items),
                           Map(MergeMaps(Last(val1.items).entries, val2.items[1].entries))))
         ELSE Array(val1.items \o val2.items)
    ELSE val2

(* mergeMapsRecursive, by what it leaves in map1.                          *)
MergeMaps(map1, map2) ==
    [k \in DOMAIN map1 \cup DOMAIN map2 |->
        IF k \notin DOMAIN map1 THEN map2[k]
        ELSE IF k \notin DOMAIN map2 THEN map1[k]
        ELSE MergeValues(map1[k], map2[k])]

(* One turn of the loop of AssembleParams.                                 *)
AssemblePair(params, pair) ==
    LET parts == ParseKey(pair.key)
    IN  IF parts = <<>> THEN params
        ELSE IF parts[1].type # "raw" THEN Error
        ELSE LET built == BuildParamStructure(parts[1].content, Tail(parts), pair.value)
             IN  IF built = Error THEN Error ELSE Map(MergeMaps(params.entries, built.entries))
=============================================================================
