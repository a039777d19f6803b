------------------------------- MODULE Validation -------------------------------
(***************************************************************************)
(* spec/query.go and spec/validate.go: the schema that the parameters of a *)
(* GET have, and what the validator built from a schema accepts.  Beyond   *)
(* what Coercer knows of a schema, it has                                  *)
(*   required    the set of the properties that must be there              *)
(*   closed      additionalProperties: false                               *)
(* The schema of no request is nullable, and formats, lengths and patterns *)
(* are left out.                                                           *)
(***************************************************************************)
EXTENDS Coercer

(* Schema{Type: TypeObject}, but for what the caller adds.                 *)
AnyObject ==
    [type |-> "object", enum |-> {}, properties |-> <<>>, items |-> None, anyOf |-> <<>>,
     additional |-> None, required |-> {}, closed |-> TRUE]

(* parameters is a list of records [name, in, schema (or None), required]; *)
(* of two with one name, the later one counts.                             *)
BuildQuerySchema(parameters) ==
    LET query == SelectSeq(parameters, LAMBDA p : p.in = "query")
        last(k) == query[Max({i \in DOMAIN query : query[i].name = k})]
    IN  [AnyObject EXCEPT
            !.properties = [k \in {p.name : p \in ToSet(query)} |->
                               IF last(k).schema = None THEN AnyObject ELSE last(k).schema],
            !.required = {p.name : p \in {q \in ToSet(query) : q.required}}]

(* The validator takes no integer for a number, but a whole number for an  *)
(* integer; and the nil of a gap has no type.                              *)
HasType(v, type) ==
    \/ v.kind = type
    \/ v.kind = "map" /\ type = "object"
    \/ v.kind = "number" /\ type = "integer" /\ v.of \in DOMAIN Reads["integer"]

RECURSIVE Accepts(_, _)

(* getJSONSchemaForOpenAPI3Schema turns each keyword into the same one of  *)
(* JSON Schema.                                                            *)
Accepts(s, v) ==
    /\ s.type # "" => HasType(v, s.type)
    /\ s.enum # {} => v.kind = "string" /\ v.of \in s.enum
    /\ s.anyOf # <<>> => \E i \in DOMAIN s.anyOf : Accepts(s.anyOf[i], v)
    /\ v.kind = "map" =>
          /\ s.required \subseteq DOMAIN v.entries
          /\ \A k \in DOMAIN v.entries :
                IF k \in DOMAIN s.properties THEN Accepts(s.properties[k], v.entries[k])
                ELSE IF s.additional # None THEN Accepts(s.additional, v.entries[k])
                ELSE ~s.closed
    /\ v.kind = "array" /\ s.items # None =>
          \A n \in DOMAIN v.items : Accepts(s.items, v.items[n])
=============================================================================
