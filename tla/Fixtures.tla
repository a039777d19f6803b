------------------------------ MODULE Fixtures ------------------------------
(***************************************************************************)
(* The fixture store and the requests that stripe-mock answers from it,    *)
(* as constants shared by StatelessMock and ResponseGeneration.            *)
(*                                                                         *)
(* A fixture is a tree of JSON objects.  A JSON object is an element of    *)
(* Map, a string is an element of Text, and null is Null; None stands for  *)
(* an absent key, which is not the same to ReplaceData.  Fixture[m] gives  *)
(* the value of every key of object m.  Kind[m][k] says what the OpenAPI   *)
(* schema of m declares for property k, as far as generator.go tells       *)
(* schemas apart:                                                          *)
(*   "none"        no such property (the key is dropped from a copy)       *)
(*   "string"      a scalar                                                *)
(*   "object"      an object with Properties, generated from the fixture   *)
(*   "wrapped"     anyOf around such an object, as for nullable ones       *)
(*   "list"        a list resource, whose one item is Target[m][k]         *)
(*   "expandable"  anyOf [string, $ref], with resource Target[m][k]        *)
(*   "opaque"      an object without Properties (metadata, hashes)         *)
(*   "array"       a plain array                                           *)
(* A null is kept, whatever the kind, but for the data of a list and for   *)
(* what is expanded.  (Of an "object" whose own schema is a resource, the  *)
(* fixture of that resource replaces a null: it stands in Fixture here.)   *)
(***************************************************************************)
EXTENDS Integers, Sequences, FiniteSets

CONSTANTS
    Handler,    \* the net/http goroutines that run HandleRequest
    Map,        \* the JSON objects of the fixture store
    Key,        \* the keys of those objects
    Name,       \* names of path parameters and of resources; Key \subseteq Name
    Text,       \* strings: IDs and parameter values
    None,       \* no value
    Null,       \* the JSON null
    Nested,     \* stands for "a map of further parameters" in request data
    Empty,      \* the empty string
    IdKey,      \* the key "id"
    Kind, Target, Fixture, ObjectName,
    Request,    \* the requests clients may send
    MintedId,   \* what randomID may return
    Binary,     \* the roots of binary responses, such as PDFs, which have no keys
    Exposed     \* objects that a response may hold by reference (see below)

Value == Text \cup Map \cup {None, Null}

KindName == {"none", "string", "object", "wrapped", "list", "expandable", "opaque",
             "array"}

(***************************************************************************)
(* A request as the generator sees it, after routing, parsing and          *)
(* validation, is a record: root, the object at the root of the response   *)
(* schema; method; expand, the fields that `expand` asks for; primary and  *)
(* secondary, the IDs taken from the path (server.go PathParamsMap); and   *)
(* data, the request data, keyed by the response field that each parameter *)
(* lines up with.  RequestAssumption below gives their types.              *)
(***************************************************************************)

(* The branch of generateInternal that builds a new map for property k of m  *)
(* (generator.go:202-229, 280-311, 365-418).  Every other branch returns the *)
(* example value itself, so an object found there is shared with the store.  *)
Expanded(r, m, k) == Kind[m][k] = "expandable" /\ <<m, k>> \in r.expand

Copies(r, m, k) == Kind[m][k] \in {"object", "wrapped", "list"} \/ Expanded(r, m, k)

(* A fixture object that is not the example passed in, but looked up anew. *)
FromTarget(r, m, k) == Kind[m][k] = "list" \/ Expanded(r, m, k)

(* What the fixtures and the expansions put at property k of object m.     *)
Plain(r, m, k) == IF FromTarget(r, m, k) THEN Target[m][k] ELSE Fixture[m][k]

ASSUME DataAssumption ==
    /\ Key \subseteq Name /\ IdKey \in Key
    /\ Map \cap Text = {} /\ None \notin Text \cup Map \cup Name
    /\ Null \notin Text \cup Map \cup {None}
    /\ Nested \notin Text /\ Empty \in Text
    /\ Kind \in [Map -> [Key -> KindName]]
    /\ Target \in [Map -> [Key -> Map]]
    /\ Fixture \in [Map -> [Key -> Value]]
    /\ ObjectName \in [Map -> Name]
    /\ MintedId \subseteq Text /\ MintedId # {}
    /\ Binary \subseteq Map /\ \A m \in Binary, k \in Key : Kind[m][k] = "none"

(* Path parameter names are distinct: compilePath turns them into named      *)
(* groups of one regular expression, which must not repeat a name.           *)
ASSUME RequestAssumption ==
    /\ Request # {}
    /\ \A r \in Request :
          /\ r.root \in Map /\ r.method \in {"GET", "POST", "DELETE"}
          /\ r.expand \subseteq Map \X Key
          /\ r.primary \in Text \cup {None}
          /\ r.secondary \in Seq([name : Name, id : Text])
          /\ \A i, j \in DOMAIN r.secondary :
                r.secondary[i].name = r.secondary[j].name => i = j
          /\ DOMAIN r.data \subseteq Map \X Key
          /\ \A f \in DOMAIN r.data : r.data[f] \in Text \cup {Nested}

(***************************************************************************)
(* Exposed contains every object that some request receives by reference   *)
(* and is closed downwards.  It is empty when the fixtures hold objects    *)
(* only where the schema has Properties.                                   *)
(***************************************************************************)
ASSUME ExposedAssumption ==
    /\ Exposed \subseteq Map
    /\ \A m \in Map, k \in Key :
          /\ Fixture[m][k] \in Map
          /\ m \in Exposed \/ Kind[m][k] \notin {"none", "object", "wrapped", "list"}
          => Fixture[m][k] \in Exposed
=============================================================================
