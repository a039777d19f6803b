------------------------------- MODULE Expansions -------------------------------
(***************************************************************************)
(* What generateInternal makes of the `expand` parameter, for the requests *)
(* of ExpansionRequests.  The IDs and the POST parameters that Generate    *)
(* writes into the response later are in ResponseGeneration.               *)
(*                                                                         *)
(* Values are those of NestedParams; a dotted expansion is the sequence of *)
(* its names.  A schema is a record of what generator.go asks about it:    *)
(*   ref          the definition it refers to, or None                     *)
(*   type, shape  its type, and "list", "search", "binary" or "plain"      *)
(*   nullable, enum (a list of values), anyOf (a list of schemas)          *)
(*   properties   a function, or None; required, a set of its keys         *)
(*   items        of a list, the schema of its data                        *)
(*   resource     its XResourceID, or None                                 *)
(*   expandable   its XExpandableFields, or None                           *)
(*   oneOf        the first of its XExpansionResources, or None; a schema  *)
(*                that has one has a union of it and a string as anyOf     *)
(*   anchored     its pattern starts with a "^"                            *)
(*   default      the value that a synthetic fixture has for a scalar      *)
(***************************************************************************)
EXTENDS ExpansionRequests, NestedParams

CONSTANTS
    Definitions,    \* the schemas that are referred to
    Fixture,        \* the fixture of each XResourceID that has one
    Rank            \* the order of names as strings

(* sort.SearchStrings requires it; bundled specifications comply.          *)
ASSUME SortedAssumption ==
    \A d \in DOMAIN Definitions : Definitions[d].expandable # None =>
        \A i, j \in DOMAIN Definitions[d].expandable :
            i < j => Rank[Definitions[d].expandable[i]] < Rank[Definitions[d].expandable[j]]

MaybeDereference(s) ==
    IF s = Panic \/ s.ref = None THEN s
    ELSE IF s.ref \in DOMAIN Definitions THEN Definitions[s.ref] ELSE Panic

(* SearchStrings returns the length of the list for a name that sorts      *)
(* after all of it, and a place to insert it for any other unknown name.   *)
(* Mutant: the last name of the list is taken for one that comes after it. *)
LastNotSupported(s, exp) ==
    exp # None /\ s.expandable # None =>
        \A k \in DOMAIN exp.expansions :
            \E i \in DOMAIN s.expandable : Rank[s.expandable[i]] > Rank[k]

Supported(s, exp) ==
    exp # None /\ s.expandable # None =>
        \A k \in DOMAIN exp.expansions :
            \E i \in DOMAIN s.expandable : Rank[s.expandable[i]] >= Rank[k]

IsDeletedResource(s) == s.properties # None /\ "deleted" \in DOMAIN s.properties

(* findAnyOfBranch, or else the first branch; Panic for a branch before it *)
(* that refers to nothing.                                                 *)
AnyOfBranch(s, m) ==
    LET branches == [i \in DOMAIN s.anyOf |-> MaybeDereference(s.anyOf[i])]
        ends == SelectSeq(branches, LAMBDA b :
                    b = Panic \/ (IsDeletedResource(b) <=> m = "DELETE"))
    IN  IF ends = <<>> THEN s.anyOf[1] ELSE ends[1]

RECURSIVE SyntheticFixture(_, _)

(* Panic where Go panics.  Within an object only the properties that are   *)
(* required; of the branches of an anyOf, the first that is not a          *)
(* reference.  A property that is itself a reference has no type here, and *)
(* so it is unhandled.                                                     *)
SyntheticFixture(s, exp) ==
    LET branches == [i \in DOMAIN s.anyOf |-> MaybeDereference(s.anyOf[i])]
        inline == SelectSeq(s.anyOf, LAMBDA b : b.ref = None)
        sub(k) == IF exp # None /\ k \in DOMAIN exp.expansions THEN exp.expansions[k] ELSE None
        entries == [k \in s.required |-> SyntheticFixture(s.properties[k], sub(k))]
    IN  CASE s.nullable /\ exp = None -> Nil
          [] ~(s.nullable /\ exp = None) /\ s.enum # <<>> -> s.enum[1]
          [] ~(s.nullable /\ exp = None) /\ s.enum = <<>> /\ s.anyOf # <<>> ->
                IF inline # <<>> THEN SyntheticFixture(inline[1], exp)
                ELSE IF branches[1] = Panic THEN Panic ELSE SyntheticFixture(branches[1], exp)
          [] ~(s.nullable /\ exp = None) /\ s.enum = <<>> /\ s.anyOf = <<>> ->
                CASE s.type = "array" -> Array(<<>>)
                  [] s.type = "object" -> IF \E k \in s.required : entries[k] = Panic
                                          THEN Panic ELSE Map(entries)
                  [] s.type = "" -> Panic
                  [] OTHER -> s.default

SubExpansions(exp, k) ==
    IF exp = None THEN None
    ELSE IF k \in DOMAIN exp.expansions THEN exp.expansions[k]
    ELSE IF exp.wildcard THEN Bare ELSE None

(* Mutant: a list without any for its data passes on its own.              *)
ListExpansions(exp) ==
    IF exp # None /\ "data" \in DOMAIN exp.expansions THEN exp.expansions["data"] ELSE exp

(* A list passes on the expansions of its data, but no wildcard.           *)
DataExpansions(exp) ==
    IF exp # None /\ "data" \in DOMAIN exp.expansions THEN exp.expansions["data"] ELSE None

RECURSIVE GenerateInternal(_, _, _, _)

(* Go visits the properties in random order, and the first that fails is   *)
(* the one that counts.                                                    *)
GenerateObject(s, example, m, exp) ==
    LET given == DOMAIN s.properties \cap DOMAIN example
        asked == {k \in DOMAIN s.properties : SubExpansions(exp, k) # None}
        result == [k \in given \cup asked |->
                      GenerateInternal(s.properties[k],
                                       IF k \in given THEN example[k] ELSE None, m,
                                       SubExpansions(exp, k))]
        failures == {r \in UNION {result[k] : k \in given \cup asked} : r.kind # "ok"}
    IN  IF failures # {} THEN failures
        ELSE {Ok(Map([k \in given \cup asked |-> (CHOOSE r \in result[k] : TRUE).value]))}

(* generateURLForListableResource: from the pattern, from the example, or  *)
(* the path of the request.  Its type assertions may fail.                 *)
ListURL(s, example) ==
    IF s.properties["url"].anchored THEN String("pattern")
    ELSE IF example = None THEN String("path")
    ELSE IF example.kind # "map" \/ "url" \notin DOMAIN example.entries THEN Panic
    ELSE IF example.entries["url"].kind = "string" THEN example.entries["url"] ELSE Panic

(* generateListResource and generateSearchResultResource: one item, always *)
(* generated anew.  Of the other properties of a list only its URL is not  *)
(* constant; they are left out here.                                       *)
GenerateList(s, example, m, exp) ==
    LET hasURL == "url" \in DOMAIN s.properties
        url == IF hasURL THEN "url" :> ListURL(s, example) ELSE <<>>
        around(item) == IF hasURL /\ url["url"] = Panic THEN Panic
                        ELSE Ok(Map("data" :> Array(<<item>>) @@ url))
    IN  {IF r.kind = "ok" THEN around(r.value) ELSE r :
            r \in GenerateInternal(s.items, None, m, DataExpansions(exp))}

FromExample(s, example, m, exp) ==
    CASE example = Panic -> {Panic}
      [] example = Nil -> {IF exp # None THEN Panic ELSE Ok(Nil)}
      [] example \notin {Nil, Panic} /\ (s.type # "object" \/ s.properties = None) ->
            {IF s.type = "" THEN Panic ELSE Ok(example)}
      [] example \notin {Nil, Panic} /\ s.type = "object" /\ s.properties # None ->
            IF example.kind = "map" THEN GenerateObject(s, example.entries, m, exp) ELSE {Panic}

(* The results of generateInternal; example is None where Go has nil, and  *)
(* Nil where it has a valueWrapper around nil.                             *)
GenerateInternal(s0, given, m, exp) ==
    LET s == MaybeDereference(s0)
        fromFixture == given \in {None, Nil} /\ s.resource # None
        example == IF fromFixture THEN Fixture[s.resource] ELSE given
        single == Len(s.anyOf) = 1 /\ s.nullable
    IN  IF s = Panic THEN {Panic}
        ELSE IF ~Supported(s, exp) THEN {Unsupported}
        ELSE IF fromFixture /\ s.resource \notin DOMAIN Fixture THEN {Panic}
        ELSE IF s.oneOf # None
        THEN IF exp # None THEN GenerateInternal(s.oneOf, None, m, exp)
             ELSE GenerateInternal(s.anyOf[1], example, m, exp)
        ELSE IF single /\ example # Nil THEN GenerateInternal(s.anyOf[1], example, m, exp)
        ELSE IF single /\ exp = None THEN {Ok(Nil)}
        ELSE IF s.anyOf # <<>> THEN GenerateInternal(AnyOfBranch(s, m), None, m, exp)
        ELSE IF s.shape \in {"list", "search"} THEN GenerateList(s, example, m, exp)
        ELSE IF s.shape = "binary" THEN {Ok(String("Stripe binary response"))}
        ELSE FromExample(s, IF \/ example = None
                               \/ exp # None /\ example = Nil /\ s.resource = None
                            THEN SyntheticFixture(s, exp) ELSE example, m, exp)

(* Generate begins with no example.                                        *)
ResponseOf(s, m, exp) == GenerateInternal(s, None, m, exp)

----------------------------------------------------------------------------
(* Properties.                                                             *)

(* w is v but for what is asked for at or below paths.                     *)
RECURSIVE SameElsewhere(_, _, _)

SameElsewhere(v, w, paths) ==
    LET below(k) == {Tail(p) : p \in {q \in paths : q[1] = k /\ Len(q) > 1}}
        touched(k) == {<<k>>, <<Wildcard>>} \cap paths # {} \/ below(k) # {}
    IN  CASE v.kind = "map" /\ w.kind = "map" ->
               /\ \A k \in DOMAIN v.entries :
                     /\ k \in DOMAIN w.entries
                     /\ IF touched(k) THEN SameElsewhere(v.entries[k], w.entries[k], below(k))
                        ELSE v.entries[k] = w.entries[k]
               /\ \A k \in DOMAIN w.entries \ DOMAIN v.entries : touched(k)
          [] v.kind = "array" /\ w.kind = "array" /\ v.items # <<>> /\ w.items # <<>> ->
               SameElsewhere(v.items[1], w.items[1], paths)
          [] OTHER -> TRUE

(* generator.go:375-415: whatever is expanded, the rest of the response    *)
(* is what it would have been, no field is lost, and none is added that    *)
(* was not asked for.                                                      *)
ExpansionsAreLocal ==
    response # None /\ response.kind = "ok" /\ plain # None /\ plain.kind = "ok" =>
        SameElsewhere(plain.value, response.value, Asked)

(* The schema that is reached from s by a path of fields that each schema  *)
(* on the way declares as expandable, or None.                             *)
RECURSIVE Declared(_, _)

Declared(s0, path) ==
    LET s == MaybeDereference(s0)
        into == CASE s.oneOf # None -> s.oneOf
                  [] s.oneOf = None /\ s.anyOf # <<>> -> AnyOfBranch(s, method)
                  [] OTHER -> None
    IN  IF s = Panic THEN None
        ELSE IF into # None THEN Declared(into, path)
        ELSE IF path = <<>> THEN s
        ELSE IF s.shape \in {"list", "search"}
        THEN IF path[1] = "data" THEN Declared(s.items, Tail(path)) ELSE None
        ELSE IF s.expandable # None /\ path[1] \in ToSet(s.expandable)
        THEN Declared(s.properties[path[1]], Tail(path)) ELSE None

RECURSIVE At(_, _)

At(v, path) ==
    IF v.kind = "array" THEN At(v.items[1], path)
    ELSE IF path = <<>> THEN v
    ELSE IF v.kind = "map" /\ path[1] \in DOMAIN v.entries
    THEN At(v.entries[path[1]], Tail(path)) ELSE Nil

(* The fixture of the resource itself has been put in place of its ID.     *)
Shown(path) ==
    LET target == Declared(schema, path)
        value == At(response.value, path)
    IN  target.type = "object" /\ target.properties # None =>
            /\ value.kind = "map"
            /\ target.required \subseteq DOMAIN value.entries

(* The schemas that what is asked for leads to and through.                *)
OnTheWay == UNION {{Declared(schema, SubSeq(p, 1, i)) : i \in 0..Len(p)} : p \in Asked}

(* A resource or list without a usable fixture cannot be answered at all   *)
(* (generator_test.go:594-596); an embedded object needs no fixture.       *)
Answerable(t) ==
    t.resource # None \/ t.shape \in {"list", "search"} =>
        \A r \in ResponseOf(t, method, None) : r.kind = "ok"

(* generator.go:729-738: if each resource and list on the way can be       *)
(* answered by itself, an expansion that the schemas declare, at any       *)
(* depth, in lists, of fields that are null or absent in the fixtures, of  *)
(* embedded objects that have no fixture, is neither refused nor fails,    *)
(* whatever the order of the properties, and shows the object in full.     *)
DeclaredExpansionsServed ==
    /\ response # None /\ Asked # {} /\ plain.kind = "ok"
    /\ \A p \in Asked : Declared(schema, p) # None
    /\ \A t \in OnTheWay : Answerable(t)
    => response.kind = "ok" /\ \A p \in Asked : Shown(p)
=============================================================================
