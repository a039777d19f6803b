-------------------------------- MODULE Requests --------------------------------
(***************************************************************************)
(* What RequestHandling and Verdicts both speak about: requests, and what  *)
(* the specification says of the operations they are for.  An operation is *)
(* a pair of a method and a path.                                          *)
(*                                                                         *)
(* A request has, besides a method and a path,                             *)
(*   auth      Authorization, split at blanks; the key that comes second   *)
(*             is decoded and split at "_", and has no parts if it cannot  *)
(*             be decoded                                                  *)
(*   version   Stripe-Version, or None                                     *)
(*   key       Idempotency-Key, or None                                    *)
(*   type      Content-Type up to the first semicolon, or None             *)
(*   data      the query or the body                                       *)
(***************************************************************************)
EXTENDS Paths

CONSTANTS
    Client,
    Sends,          \* Sends[c]: the requests that client c makes
    Option,         \* the options of the command line: [strict, verbose]
    Version,        \* info.version of the specification
    Response,       \* the media types of the response of each operation, or None
    MediaType,
    Body,           \* the schema of each media type of the body of each operation;
                    \* of a GET, that of its query, under None
    Unparsable,     \* the data that ParseParams fails on
    Coercible,      \* the data that CoerceParams accepts, by schema
    Valid,          \* the data that the validator accepts, by schema
    Untyped,        \* the data in whose `expand` there is something but strings
    Outcome         \* what may become of Generate, by path and data

ASSUME RequestsAssumption ==
    /\ Sends \in [Client -> SUBSET Query]
    /\ \A o \in Option : o.strict \in BOOLEAN /\ o.verbose \in BOOLEAN
    /\ None \notin MediaType
    /\ DOMAIN Response = Method \X Path /\ DOMAIN Body = Method \X Path
    /\ \A op \in Method \X Path :
          /\ Response[op] = {None} \/ Response[op] \subseteq {"json", "pdf"}
          /\ DOMAIN Body[op] \subseteq MediaType \cup {None}
    /\ \A p \in Path, q \in Query :
          /\ Outcome[p][q.data] # {}
          /\ Outcome[p][q.data] \subseteq {"ok", "error", "panic", "unserializable"}

----------------------------------------------------------------------------
(* validateAuth.                                                           *)
ValidateAuth(auth) ==
    /\ Len(auth) = 2
    /\ auth[1] \in {"Basic", "Bearer"}
    /\ Len(auth[2]) = 3
    /\ auth[2][1] \in {"rk", "sk"}
    /\ auth[2][2] = "test"
    /\ auth[2][3] # Empty

(* The versions that a server with these options accepts.                  *)
OtherVersion(o, q) == o.strict /\ q.version \notin {None, Version}

(* Of the headers of a response, those that depend on the request.         *)
Blank == [id |-> FALSE, key |-> None, type |-> None]

SetHeaders(q) == [Blank EXCEPT !.id = TRUE, !.key = q.key]

(* The media type of the response of op, or None.                          *)
ContentOf(op) ==
    IF "json" \in Response[op] THEN "json"
    ELSE IF "pdf" \in Response[op] THEN "pdf" ELSE None

(* getRequestBodySchema returns any of these.                              *)
RequestMediaTypes(op) == IF DOMAIN Body[op] = {} THEN {None} ELSE DOMAIN Body[op]

(* The status codes of what HandleRequest can end with.                    *)
Status ==
    [ok           |-> 200, unauthorized |-> 401, version   |-> 400,
     unparsable   |-> 400, unrecognized |-> 404, noResponse |-> 500, noContent  |-> 500,
     params       |-> 400, noType     |-> 400, otherType    |-> 400, coercion   |-> 400,
     validation   |-> 400, generation |-> 500, serialization |-> 500]

(* The headers, and the responses, that there are.                         *)
Headers ==
    [id : BOOLEAN, key : {q.key : q \in Query} \cup {None}, type : {"json", "pdf", None}]

Replies ==
    [verdict : DOMAIN Status \cup {"moved"}, status : Nat, route : Path \cup {None},
     header : Headers]

(* None is not anything else.                                              *)
ASSUME NoneAssumption ==
    /\ None \notin Query /\ None \notin Path /\ None \notin Replies
    /\ None \notin DOMAIN Status \cup {"panic", "unserializable", "json", "pdf"}

(* The answer of net/http to a path that is not clean.                     *)
Moved == [verdict |-> "moved", status |-> 301, route |-> None, header |-> Blank]

(* writeResponse: a header that is not set yet is that of JSON.            *)
Reply(verdict, header, route) ==
    [verdict |-> verdict, status |-> Status[verdict], route |-> route,
     header |-> [header EXCEPT !.type = IF header.type = None THEN "json" ELSE header.type]]
=============================================================================
