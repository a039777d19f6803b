------------------------------- MODULE Reflection -------------------------------
(***************************************************************************)
(* generator/datareplacer: a POST finds its own parameters in the response *)
(* where they have a name and, by the schema of the response, a type in    *)
(* common.  The references of that schema are resolved here; a sub-schema  *)
(* that does not exist is None.                                            *)
(***************************************************************************)
EXTENDS Coercer

RECURSIVE SameType(_, _)

(* isSameType: "same", "other", or "panic" for a schema without a type.    *)
(* The branches of an anyOf are tried in turn; of an array only the first  *)
(* item counts; a map never matches, nor does "object" match anything.     *)
SameType(s, v) ==
    CASE s = None \/ v = Nil -> "other"
      [] s # None /\ v # Nil /\ s.anyOf # <<>> ->
            FoldLeft(LAMBDA sofar, b : IF sofar = "other" THEN SameType(b, v) ELSE sofar,
                     "other", s.anyOf)
      [] s # None /\ v # Nil /\ s.anyOf = <<>> ->
            CASE s.type = "" -> "panic"
              [] s.type = "array" /\ v.kind = "array" /\ v.items # <<>> /\ s.items # None ->
                    SameType(s.items, v.items[1])
              [] s.type = "number" /\ v.kind = "integer" -> "same"
              [] OTHER -> IF s.type = v.kind THEN "same" ELSE "other"

(* Mutant: maps are values like any others.                                *)
NeverMaps(sent, value) == FALSE

BothMaps(sent, value) == sent.kind = "map" /\ value.kind = "map"

RECURSIVE ReplaceData(_, _, _)

(* replaceDataInternal: what responseData becomes, or Error for a panic.   *)
ReplaceData(requestData, responseData, s) ==
    LET sub(k) == IF s # None /\ k \in DOMAIN s.properties THEN s.properties[k] ELSE None
        replaced(k) ==
            LET sent == requestData[k]
                value == responseData[k]
            IN  IF BothMaps(sent, value)
                THEN ReplaceData(sent.entries, value.entries, sub(k))
                ELSE CASE SameType(sub(k), sent) = "same" -> sent
                       [] SameType(sub(k), sent) = "other" -> value
                       [] SameType(sub(k), sent) = "panic" -> Error
        new == [k \in DOMAIN responseData |->
                   IF k \in DOMAIN requestData THEN replaced(k) ELSE responseData[k]]
    IN  IF \E k \in DOMAIN new : new[k] = Error THEN Error ELSE Map(new)
=============================================================================
