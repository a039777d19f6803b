------------------------------ MODULE RequestData ------------------------------
(***************************************************************************)
(* From the query and the body of a request to what its response shows of  *)
(* them: param.ParseParams (parser.ParseFormString, the multipart form of  *)
(* net/http, AssembleParams), coercer.CoerceParams, the validator and at   *)
(* last datareplacer.ReplaceData, with a client that sends its request     *)
(* again and again.                                                        *)
(*                                                                         *)
(* A form is the sequence of its pieces, what stands between the `&` or in *)
(* the parts of a multipart body: a key, a value (or Absent), and whether  *)
(* it is an uploaded file.  A client that follows the conventions of Rack  *)
(* has a tree of typed values in mind, and writes its arrays as `a[]` or   *)
(* with indexes, as `a[0]` (style), its keys in the order Rank gives them. *)
(***************************************************************************)
EXTENDS Validation, Reflection

CONSTANTS
    Request,     \* [method, multipart, query, body, tree, style]
    Schema,      \* the schema of the bodies of the operation
    Parameters,  \* the parameters of a GET of it
    ResponseSchema, Fixture,   \* its response, generated but for the reflection
    Rank,        \* the order in which clients send the keys of a map
    Empty,       \* the empty string
    Absent,      \* a piece without "="
    Undecodable, \* a key or value that url.QueryUnescape rejects
    Malformed    \* a multipart body that net/http rejects

VARIABLES
    request,    \* the request
    pc,         \* the stage of its handling
    values,     \* the pairs not assembled yet
    params,     \* what has been assembled
    data,       \* what has been coerced
    response,   \* what is answered; Error if the handler panics
    earlier     \* how the same request ended the first time

vars == <<request, pc, values, params, data, response, earlier>>

Pair(piece) == [key |-> piece.key, value |-> piece.value]

(* Mutant: only the keys are unescaped.                                    *)
KeysDecode(form) == \A i \in DOMAIN form : form[i].key # <<Undecodable>>

Decodes(form) ==
    \A i \in DOMAIN form : form[i].key # <<Undecodable>> /\ form[i].value # Undecodable

ParseFormString(form) ==
    [i \in DOMAIN form |->
        [key |-> form[i].key,
         value |-> IF form[i].value = Absent THEN Empty ELSE form[i].value]]

(* Mutant: the values of one key come in any order too.                    *)
Shuffled(parts, file) ==
    LET some == SelectSeq(parts, LAMBDA p : p.file = file)
    IN  {[n \in DOMAIN some |-> some[order[n]]] : order \in SetToSeqs(DOMAIN some)}

(* MultipartForm has maps from keys to lists of values: the keys come in   *)
(* any order, the values of one key in theirs.                             *)
Grouped(parts, file) ==
    LET some == SelectSeq(parts, LAMBDA p : p.file = file)
        ofKey(k) == SelectSeq(some, LAMBDA p : p.key = k)
    IN  {FlattenSeq([n \in DOMAIN keys |-> ofKey(keys[n])]) :
            keys \in SetToSeqs({p.key : p \in ToSet(some)})}

MultipartForm(parts) ==
    {fields \o files : fields \in Grouped(parts, FALSE), files \in Grouped(parts, TRUE)}

----------------------------------------------------------------------------
Init ==
    /\ request \in Request
    /\ pc = "query"
    /\ values = <<>> /\ params = Map(<<>>) /\ data = Nil
    /\ response = Nil /\ earlier = Nil

(* The query string is read whatever the method.                           *)
ParseQuery ==
    /\ pc = "query"
    /\ IF Decodes(request.query)
       THEN pc' = "body" /\ values' = ParseFormString(request.query)
       ELSE pc' = "refused" /\ UNCHANGED values
    /\ UNCHANGED <<request, params, data, response, earlier>>

(* A multipart body is read even for a GET; another body only otherwise.   *)
ParseMultipart ==
    /\ pc = "body" /\ request.multipart
    /\ IF request.body = Malformed THEN pc' = "refused" /\ UNCHANGED values
       ELSE /\ pc' = "assemble"
            /\ \E form \in MultipartForm(request.body) :
                  values' = values \o [i \in DOMAIN form |-> Pair(form[i])]
    /\ UNCHANGED <<request, params, data, response, earlier>>

ParseBody ==
    /\ pc = "body" /\ ~request.multipart
    /\ IF request.method = "GET" THEN pc' = "assemble" /\ UNCHANGED values
       ELSE IF Decodes(request.body)
       THEN pc' = "assemble" /\ values' = values \o ParseFormString(request.body)
       ELSE pc' = "refused" /\ UNCHANGED values
    /\ UNCHANGED <<request, params, data, response, earlier>>

AssembleParams ==
    /\ pc = "assemble" /\ values # <<>>
    /\ LET next == AssemblePair(params, Head(values))
       IN  IF next = Error THEN pc' = "refused" /\ UNCHANGED params
           ELSE pc' = pc /\ params' = next
    /\ values' = Tail(values)
    /\ UNCHANGED <<request, data, response, earlier>>

(* initializeRouter has built it with the route.                           *)
RequestSchema == IF request.method = "GET" THEN BuildQuerySchema(Parameters) ELSE Schema

Coerce ==
    /\ pc = "assemble" /\ values = <<>>
    /\ \E o \in CoerceParams(RequestSchema, params.entries) :
          IF o.err THEN pc' = "refused" /\ UNCHANGED data
          ELSE pc' = "coerced" /\ data' = o.new
    /\ UNCHANGED <<request, values, params, response, earlier>>

Validate ==
    /\ pc = "coerced"
    /\ pc' = IF Accepts(RequestSchema, data) THEN "valid" ELSE "refused"
    /\ UNCHANGED <<request, values, params, data, response, earlier>>

(* Only a POST is reflected (the end of Generate).                         *)
Reflect ==
    /\ pc = "valid"
    /\ pc' = "answered"
    /\ response' = IF request.method = "POST"
                   THEN ReplaceData(data.entries, Fixture.entries, ResponseSchema)
                   ELSE Fixture
    /\ UNCHANGED <<request, values, params, data, earlier>>

Ended == pc \in {"refused", "answered"}

(* How a request has been understood.                                      *)
Result == IF pc = "answered" THEN data ELSE Error

(* The client sends the same request once more.                            *)
SendAgain ==
    /\ Ended
    /\ earlier' = IF earlier = Nil THEN Result ELSE earlier
    /\ pc' = "query" /\ values' = <<>> /\ params' = Map(<<>>)
    /\ data' = Nil /\ response' = Nil
    /\ UNCHANGED request

Next ==
    \/ ParseQuery \/ ParseMultipart \/ ParseBody
    \/ AssembleParams \/ Coerce \/ Validate \/ Reflect
    \/ SendAgain

Spec == Init /\ [][Next]_vars

----------------------------------------------------------------------------
(* What clients send.                                                      *)

InOrder(entries) == SetToSortSeq(DOMAIN entries, LAMBDA j, k : Rank[j] < Rank[k])

RECURSIVE Encode(_, _, _)

(* The pairs that say that the value called name is v.                     *)
Encode(name, v, style) ==
    CASE v.kind = "map" ->
            FlattenSeq([n \in DOMAIN InOrder(v.entries) |->
                LET k == InOrder(v.entries)[n]
                IN  Encode(IF name = <<>> THEN k ELSE name \o Bracketed(k),
                           v.entries[k], style)])
      [] v.kind = "array" ->
            FlattenSeq([n \in DOMAIN v.items |->
                Encode(name \o Bracketed(IF style = "[]" THEN <<>>
                                         ELSE CHOOSE k \in DOMAIN IndexOf : IndexOf[k] = n - 1),
                       v.items[n], style)])
      [] v.kind = "nil" -> <<>>
      [] OTHER -> <<[key |-> name, value |-> v.of, file |-> FALSE]>>

(* What Rack's `[]` can express: no array directly within an array, no     *)
(* gaps, and an element that is a map starts with a string that the        *)
(* element before it has too, which is how the end of that one is told.    *)
Scalar(v) == v.kind \notin {"map", "array", "nil"}

RECURSIVE Separable(_)

Separable(v) ==
    CASE v.kind = "map" -> \A k \in DOMAIN v.entries : Separable(v.entries[k])
      [] v.kind = "array" ->
            \A n \in DOMAIN v.items :
               LET item == v.items[n]
               IN  /\ item.kind \notin {"array", "nil"} /\ Separable(item)
                   /\ n > 1 /\ item.kind = "map" =>
                         LET first == Head(InOrder(item.entries))
                             before == v.items[n - 1].entries
                         IN  /\ Scalar(item.entries[first])
                             /\ first \in DOMAIN before /\ Scalar(before[first])
      [] OTHER -> TRUE

(* The parts of a multipart form are not kept in order, so that the keys   *)
(* of an element of a `[]` array may come apart.                           *)
RECURSIVE HasMapElements(_)

HasMapElements(v) ==
    CASE v.kind = "map" -> \E k \in DOMAIN v.entries : HasMapElements(v.entries[k])
      [] v.kind = "array" -> \E n \in DOMAIN v.items : v.items[n].kind = "map"
      [] OTHER -> FALSE

(* Properties.                                                             *)

(* The comment on AssembleParams and on CoerceParams: the program receives *)
(* the very values that the client had in mind, whether in the query, the  *)
(* body or a multipart body, and whatever order the maps are iterated in,  *)
(* for arrays of either style, and accepts them if its schema does.        *)
RoundTrip ==
    /\ Ended /\ request.tree # Nil
    /\ request.style = "[]" =>
          Separable(request.tree) /\ ~(request.multipart /\ HasMapElements(request.tree))
    => Result = IF Accepts(RequestSchema, request.tree) THEN request.tree ELSE Error

(* README.md:48: the same request is understood in the same way each time, *)
(* unless it is multipart with keys whose order counts, or writes one      *)
(* index in two ways.                                                      *)
Pieces ==
    ToSet(request.query) \cup (IF request.body = Malformed THEN {} ELSE ToSet(request.body))

SpellsIndexTwice ==
    \E p, q \in Pieces : \E i \in DOMAIN p.key \cap DOMAIN q.key :
        /\ p.key[i] # q.key[i]
        /\ {<<p.key[i]>>, <<q.key[i]>>} \subseteq DOMAIN IndexOf
        /\ IndexOf[<<p.key[i]>>] = IndexOf[<<q.key[i]>>]

(* p appends to an array at bracket i, and q has to do with that array too. *)
Appends(p, i) == i < Len(p.key) /\ p.key[i] = "[" /\ p.key[i + 1] = "]"

OrderCounts ==
    \E p, q \in Pieces :
        /\ p.key # q.key
        /\ \/ IsPrefix(p.key, q.key)
           \/ \E i \in DOMAIN p.key : Appends(p, i) /\ IsPrefix(SubSeq(p.key, 1, i), q.key)

UnderstoodAlike ==
    Ended /\ earlier # Nil /\ ~SpellsIndexTwice /\ ~(request.multipart /\ OrderCounts)
        => Result = earlier

(* coercer.go:11-15: coercion changes types and nothing else; whichever    *)
(* branch of an anyOf is taken in the end, and whatever the ones before it *)
(* have changed in place, every string that was sent is still there.       *)
RECURSIVE SameContent(_, _)

SameContent(v, w) ==
    CASE v.kind = "string" -> w.kind \in DOMAIN Reads /\ v.of \in DOMAIN Reads[w.kind]
                                /\ w.of = Reads[w.kind][v.of]
      [] v.kind = "map" /\ w.kind = "map" ->
            /\ DOMAIN v.entries = DOMAIN w.entries
            /\ \A k \in DOMAIN v.entries : SameContent(v.entries[k], w.entries[k])
      [] v.kind = "map" /\ w.kind = "array" ->
            /\ \A k \in DOMAIN v.entries :
                  /\ IndexOf[k] + 1 \in DOMAIN w.items
                  /\ SameContent(v.entries[k], w.items[IndexOf[k] + 1])
            /\ \A n \in DOMAIN w.items :
                  w.items[n].kind = "nil" <=> n - 1 \notin Indexes(v.entries)
      [] v.kind = "array" /\ w.kind = "array" ->
            /\ Len(v.items) = Len(w.items)
            /\ \A n \in DOMAIN v.items : SameContent(v.items[n], w.items[n])
      [] OTHER -> FALSE

CoercionKeepsContent ==
    data # Nil /\ ~SpellsIndexTwice => SameContent(params, data)

(* coercer.go:69-72: whatever indexes a client makes up, no slice is       *)
(* longer than the limit allows, or else than the request itself.          *)
RECURSIVE Longest(_)

Longest(v) ==
    CASE v.kind = "map" -> Max({0} \cup {Longest(v.entries[k]) : k \in DOMAIN v.entries})
      [] v.kind = "array" -> Max({Len(v.items)} \cup {Longest(v.items[n]) : n \in DOMAIN v.items})
      [] OTHER -> 0

SlicesBounded ==
    data # Nil => \/ Longest(data) <= MaxSliceSize + 1
                  \/ Longest(data) <= Len(request.query) + Len(request.body)

(* datareplacer.go:10-17 and 37-72: a POST, and nothing else, finds what   *)
(* it sent in the place where it sent it if the schema of the response has *)
(* that type there; and the rest, the keys included, is as it was.         *)
RECURSIVE Places(_)

Places(v) ==
    {<<>>} \cup (IF v.kind # "map" THEN {}
                 ELSE UNION {{<<k>> \o p : p \in Places(v.entries[k])} : k \in DOMAIN v.entries})

RECURSIVE At(_, _)

At(v, place) ==
    IF place = <<>> THEN v
    ELSE IF v.kind = "map" /\ place[1] \in DOMAIN v.entries
    THEN At(v.entries[place[1]], Tail(place)) ELSE Nil

RECURSIVE SchemaAt(_, _)

SchemaAt(s, place) ==
    IF place = <<>> THEN s
    ELSE IF place[1] \in DOMAIN s.properties
    THEN SchemaAt(s.properties[place[1]], Tail(place)) ELSE AnyObject

(* Objects within what may be a string as well are another matter.         *)
Plainly(place) == \A p \in Prefixes(place) : SchemaAt(ResponseSchema, p).anyOf = <<>>

ReflectsParameters ==
    pc = "answered" =>
        /\ request.method # "POST" => response = Fixture
        /\ \A p \in {q \in Places(Fixture) : Plainly(q)} :
              LET old == At(Fixture, p)
                  sent == At(data, p)
                  new == At(response, p)
              IN  IF old.kind = "map"
                  THEN new.kind = "map" /\ DOMAIN new.entries = DOMAIN old.entries
                  ELSE /\ new.kind # "map" /\ new \in {old, sent}
                       /\ /\ request.method = "POST" /\ Scalar(sent)
                          /\ sent.kind = SchemaAt(ResponseSchema, p).type
                          => new = sent

(* datareplacer.go:66-70: nothing is replaced where "a field is set as an  *)
(* ID, but the response field is the hydrated object of that".             *)
HydratedObjectsKept ==
    response.kind = "map" =>
        \A p \in Places(Fixture) : At(Fixture, p).kind = "map" => At(response, p).kind = "map"

(* parser.go:34-48, nestedtypeassembler.go:36-44: until the coercer has    *)
(* seen them, all parameters are strings, even the absent ones, and no     *)
(* escape that could not be decoded is among them.                         *)
RECURSIVE Strings(_)

Strings(v) ==
    CASE v.kind = "map" -> UNION {Strings(v.entries[k]) : k \in DOMAIN v.entries}
      [] v.kind = "array" -> UNION {Strings(v.items[n]) : n \in DOMAIN v.items}
      [] v.kind = "string" -> {v.of}
      [] OTHER -> {Absent}

TypeOK ==
    /\ pc \in {"query", "body", "assemble", "coerced", "valid", "answered", "refused"}
    /\ params.kind = "map"
    /\ Strings(params) \cap {Absent, Undecodable} = {}
    /\ pc \in {"coerced", "valid", "answered"} => data.kind = "map"
    /\ response.kind = (IF pc = "answered" THEN "map" ELSE "nil")
    /\ earlier.kind \in {"nil", "error", "map"}
=============================================================================
