---------------------------- MODULE RequestHandling ----------------------------
(***************************************************************************)
(* HandleRequest: the checks a request has to pass, one after the other,   *)
(* the headers and the response that are the result, for several clients   *)
(* at once, with restarts of the server.  Its routing table is Router's    *)
(* (whose step Serve is taken apart here); parsing, coercion and           *)
(* generation have modules of their own, and only their outcomes matter.   *)
(***************************************************************************)
EXTENDS Requests

VARIABLES
    unsorted, routes,   \* as in Router
    media,      \* requestMediaType of every operation, or None
    options,    \* of the command line
    pc,         \* how far each request has got; "closed" without a response
    request,    \* the request of each client
    url,        \* r.URL.Path, from which doubled slashes are taken
    route,      \* the path of its route, or None
    header,     \* w.Header()
    verdict,    \* what is being written, or None
    reply       \* what the client has received for its last request, or None

R == INSTANCE Router WITH answer <- reply

vars == <<unsorted, routes, media, options, pc, request, url, route, header, verdict, reply>>

Idle == {"idle", "done", "closed"}

----------------------------------------------------------------------------
(* What is found wrong at each stage, or None; "panic" where the code      *)
(* dereferences nil or a type assertion fails.                             *)

HeaderError(q) ==
    IF ~ValidateAuth(q.auth) THEN "unauthorized"
    ELSE IF OtherVersion(options, q) THEN "version" ELSE None

ContentError(op) ==
    IF Response[op] = {None} THEN "noResponse"
    ELSE IF ContentOf(op) = None THEN "noContent" ELSE None

TypeError(q, type) ==
    IF q.method \in {"GET", "DELETE"} THEN None
    ELSE IF type = None THEN "panic"
    ELSE IF q.type = None THEN "noType"
    ELSE IF q.type # type THEN "otherType" ELSE None

(* validateAndCoerceRequest.                                               *)
RequestError(q, op) ==
    LET type == media[op]
    IN  IF TypeError(q, type) # None THEN TypeError(q, type)
        ELSE IF type \notin DOMAIN Body[op] THEN "panic"
        ELSE IF q.data \notin Coercible[Body[op][type]] THEN "coercion"
        ELSE IF q.data \notin Valid[Body[op][type]] THEN "validation" ELSE None

----------------------------------------------------------------------------
Operation(c) == <<request[c].method, route[c]>>

(* net/http recovers a panic, and closes the connection.                   *)
Check(c, error, next) ==
    /\ pc' = [pc EXCEPT ![c] = IF error = None THEN next
                               ELSE IF error = "panic" THEN "closed" ELSE "write"]
    /\ verdict' = [verdict EXCEPT ![c] = IF error = "panic" THEN None ELSE error]

(* Mutant: the listeners are opened before the routing table is complete.  *)
SendEarly(c, q) ==
    /\ pc[c] \in Idle
    /\ request' = [request EXCEPT ![c] = q]
    /\ url' = [url EXCEPT ![c] = q.path]
    /\ route' = [route EXCEPT ![c] = None]
    /\ header' = [header EXCEPT ![c] = Blank]
    /\ verdict' = [verdict EXCEPT ![c] = None]
    /\ pc' = [pc EXCEPT ![c] = "mux"]
    /\ reply' = [reply EXCEPT ![c] = None]
    /\ UNCHANGED <<unsorted, routes, media, options>>

Send(c, q) ==
    /\ R!Serving /\ pc[c] \in Idle
    /\ request' = [request EXCEPT ![c] = q]
    /\ url' = [url EXCEPT ![c] = q.path]
    /\ route' = [route EXCEPT ![c] = None]
    /\ header' = [header EXCEPT ![c] = Blank]
    /\ verdict' = [verdict EXCEPT ![c] = None]
    /\ pc' = [pc EXCEPT ![c] = "mux"]
    /\ reply' = [reply EXCEPT ![c] = None]
    /\ UNCHANGED <<unsorted, routes, media, options>>

(* DoubleSlashFixHandler, and the ServeMux behind it.                      *)
ServeHTTP(c) ==
    /\ pc[c] = "mux"
    /\ url' = [url EXCEPT ![c] = FixedPath(request[c].path)]
    /\ IF Redirects(url'[c])
       THEN pc' = [pc EXCEPT ![c] = "done"] /\ reply' = [reply EXCEPT ![c] = Moved]
       ELSE pc' = [pc EXCEPT ![c] = "headers"] /\ UNCHANGED reply
    /\ UNCHANGED <<unsorted, routes, media, options, request, route, header, verdict>>

(* Mutant: the headers are set before they are validated.                  *)
SetAndValidateHeaders(c) ==
    /\ pc[c] = "headers"
    /\ Check(c, HeaderError(request[c]), "route")
    /\ header' = [header EXCEPT ![c] = SetHeaders(request[c])]
    /\ UNCHANGED <<unsorted, routes, media, options, request, url, route, reply>>

ValidateHeaders(c) ==
    LET error == HeaderError(request[c])
    IN  /\ pc[c] = "headers"
        /\ Check(c, error, "route")
        /\ header' = IF error = None THEN [header EXCEPT ![c] = SetHeaders(request[c])]
                     ELSE header
        /\ UNCHANGED <<unsorted, routes, media, options, request, url, route, reply>>

FindRoute(c) ==
    /\ pc[c] = "route"
    /\ \E found \in {RouteRequest(routes[request[c].method], url[c])} :
          LET routed == found.status = "routed"
          IN  /\ Check(c, IF routed THEN None ELSE found.status, "response")
              /\ route' = IF routed THEN [route EXCEPT ![c] = found.route] ELSE route
    /\ UNCHANGED <<unsorted, routes, media, options, request, url, header, reply>>

ChooseContent(c) ==
    LET error == ContentError(Operation(c))
    IN  /\ pc[c] = "response"
        /\ Check(c, error, "params")
        /\ header' = IF error = None
                     THEN [header EXCEPT ![c].type = ContentOf(Operation(c))] ELSE header
        /\ UNCHANGED <<unsorted, routes, media, options, request, url, route, reply>>

ParseParams(c) ==
    /\ pc[c] = "params"
    /\ Check(c, IF request[c].data \in Unparsable THEN "params" ELSE None, "validate")
    /\ UNCHANGED <<unsorted, routes, media, options, request, url, route, header, reply>>

ValidateAndCoerceRequest(c) ==
    /\ pc[c] = "validate"
    /\ Check(c, RequestError(request[c], Operation(c)), "generate")
    /\ UNCHANGED <<unsorted, routes, media, options, request, url, route, header, reply>>

(* extractExpansions and Generate; a verbose server serialises the         *)
(* response once more, to print it, and panics if it cannot.               *)
GenerateError(outcome) ==
    CASE outcome = "ok" -> "ok"
      [] outcome = "error" -> "generation"
      [] outcome = "panic" -> "panic"
      [] outcome = "unserializable" -> IF options.verbose THEN "panic" ELSE "unserializable"

Generate(c) ==
    /\ pc[c] = "generate"
    /\ IF request[c].data \in Untyped THEN Check(c, "panic", "write")
       ELSE \E o \in Outcome[route[c]][request[c].data] : Check(c, GenerateError(o), "write")
    /\ UNCHANGED <<unsorted, routes, media, options, request, url, route, header, reply>>

(* Mutant: the second call is given the same response again.               *)
WriteAgain(c) ==
    /\ pc[c] = "write" /\ verdict[c] # "unserializable"
    /\ reply' = [reply EXCEPT ![c] = Reply(verdict[c], header[c], route[c])]
    /\ pc' = [pc EXCEPT ![c] = "done"]
    /\ UNCHANGED <<unsorted, routes, media, options, request, url, route, header, verdict>>

(* writeResponse, which calls itself when it cannot serialise.             *)
WriteResponse(c) ==
    /\ pc[c] = "write"
    /\ IF verdict[c] = "unserializable"
       THEN /\ verdict' = [verdict EXCEPT ![c] = "serialization"]
            /\ UNCHANGED <<pc, reply>>
       ELSE /\ reply' = [reply EXCEPT ![c] = Reply(verdict[c], header[c], route[c])]
            /\ pc' = [pc EXCEPT ![c] = "done"]
            /\ UNCHANGED verdict
    /\ UNCHANGED <<unsorted, routes, media, options, request, url, route, header>>

HandleRequest(c) ==
    \/ ServeHTTP(c) \/ ValidateHeaders(c) \/ FindRoute(c) \/ ChooseContent(c)
    \/ ParseParams(c) \/ ValidateAndCoerceRequest(c) \/ Generate(c) \/ WriteResponse(c)

----------------------------------------------------------------------------
(* What getRequestBodySchema may return for all the paths of a method.     *)
MediaChoices ==
    [m \in Method |-> {choice \in [Path -> UNION {RequestMediaTypes(<<m, p>>) : p \in Path}] :
                          \A p \in Path : choice[p] \in RequestMediaTypes(<<m, p>>)}]

InitializeRouter(m) ==
    /\ R!InitializeRouter(m)
    /\ \E choice \in MediaChoices[m] :
          media' = [op \in DOMAIN media |-> IF op[1] = m THEN choice[op[2]] ELSE media[op]]
    /\ UNCHANGED <<options, pc, request, url, route, header, verdict>>

(* The process ends, for whatever reason, and is started again in the same *)
(* way.  Whoever was waiting sees the connection closed.                   *)
Restart ==
    /\ R!Restart
    /\ media' = [op \in DOMAIN media |-> None]
    /\ pc' = [c \in Client |-> IF pc[c] \in Idle THEN pc[c] ELSE "closed"]
    /\ url' = [c \in Client |-> <<>>]
    /\ route' = [c \in Client |-> None]
    /\ header' = [c \in Client |-> Blank]
    /\ verdict' = [c \in Client |-> None]
    /\ UNCHANGED <<options, request>>

Init ==
    /\ unsorted = Method
    /\ routes = [m \in Method |-> <<>>]
    /\ media = [op \in Method \X Path |-> None]
    /\ options \in Option
    /\ pc = [c \in Client |-> "idle"]
    /\ request = [c \in Client |-> None]
    /\ url = [c \in Client |-> <<>>]
    /\ route = [c \in Client |-> None]
    /\ header = [c \in Client |-> Blank]
    /\ verdict = [c \in Client |-> None]
    /\ reply = [c \in Client |-> None]

Next ==
    \/ \E m \in Method : InitializeRouter(m)
    \/ Restart
    \/ \E c \in Client : HandleRequest(c) \/ \E q \in Sends[c] : Send(c, q)

(* Every handler is a goroutine of its own, and none of them ever waits.   *)
Spec == Init /\ [][Next]_vars /\ \A c \in Client : WF_vars(HandleRequest(c))

----------------------------------------------------------------------------
(* Properties.                                                             *)

(* main.go:98-113: a request is only ever handled with the whole table,    *)
(* and server.go:229-375: its handler returns once it has written, which   *)
(* is when the client has its one response.                                *)
TypeOK ==
    /\ unsorted \subseteq Method /\ DOMAIN routes = Method
    /\ DOMAIN media = Method \X Path /\ options \in Option
    /\ pc \in [Client -> Idle \cup {"mux", "headers", "route", "response", "params",
                                    "validate", "generate", "write"}]
    /\ request \in [Client -> Query \cup {None}]
    /\ url \in [Client -> Seq(Text)]
    /\ route \in [Client -> Path \cup {None}]
    /\ header \in [Client -> Headers]
    /\ verdict \in [Client -> DOMAIN Status \cup {"unserializable", None}]
    /\ reply \in [Client -> Replies \cup {None}]
    /\ \A c \in Client :
          /\ pc[c] \notin Idle => R!Serving /\ request[c] # None
          /\ reply[c] # None <=> pc[c] = "done"
          /\ pc[c] = "write" => verdict[c] # None
    /\ \A op \in DOMAIN media : op[1] \notin unsorted => media[op] \in RequestMediaTypes(op)

(* server.go:229-375: whatever the order of the table, whoever else asks   *)
(* and however often the server is restarted, the response is the one that *)
(* the first objection to the request calls for, with the headers for it,  *)
(* and a connection is closed without one only by a panic that the request *)
(* cannot but cause, or along with all the others.                         *)
V == INSTANCE Verdicts WITH
        asked <- [c \in Client |-> IF pc[c] \in Idle THEN None ELSE request[c]],
        told <- reply

ImplementsVerdicts == V!Spec

(* The invariant that this follows from: what is known of a request at     *)
(* each stage.  What is written at the end is one of the answers there are *)
(* to it, since all objections graver than the verdict have been ruled out *)
(* on the way.                                                             *)
Ruled(c) ==
    LET q == request[c]
        ids == {url[c][i] : i \in Parameters(route[c])}
    IN  /\ pc[c] \in {"mux", "headers"} => header[c] = Blank
        /\ pc[c] \in {"mux", "headers", "route"} => route[c] = None
        /\ pc[c] \in {"headers", "route", "response", "params", "validate", "generate"} =>
              url[c] = FixedPath(q.path) /\ ~Redirects(url[c])
        /\ pc[c] \in {"route", "response", "params", "validate", "generate"} =>
              HeaderError(q) = None
        /\ pc[c] \in {"route", "response"} => header[c] = SetHeaders(q)
        /\ pc[c] \in {"response", "params", "validate", "generate"} =>
              route[c] \in Fittest(q.method, url[c]) /\ \A id \in ids : Unescaped[id] # Invalid
        /\ pc[c] \in {"params", "validate", "generate"} =>
              /\ ContentError(Operation(c)) = None
              /\ header[c] = [SetHeaders(q) EXCEPT !.type = ContentOf(Operation(c))]
        /\ pc[c] \in {"validate", "generate"} => q.data \notin Unparsable
        /\ pc[c] = "generate" => RequestError(q, Operation(c)) = None

Told(c) ==
    LET final == IF verdict[c] = "unserializable" THEN "serialization" ELSE verdict[c]
    IN  /\ pc[c] = "write" =>
              Reply(final, header[c], route[c]) \in V!Answers[options][request[c]]
        /\ pc[c] = "done" => reply[c] \in V!Answers[options][request[c]]

IInv ==
    /\ TypeOK
    /\ \A m \in Method \ unsorted : <<m, routes[m]>> \in SortedRoutes
    /\ \A c \in Client : Ruled(c) /\ Told(c)

(* README.md:48, stripe-mock is stateless: two clients that send the same  *)
(* request get the same response, one of them maybe from before a restart, *)
(* provided that the specification determines it: there are no two routes  *)
(* of equal rank, the operation accepts bodies of one type only, and but   *)
(* for panics there is one way for Generate to end.                        *)
Determined ==
    {q \in Query :
        LET fittest == Fittest(q.method, FixedPath(q.path))
        IN  \A p, r \in fittest :
               /\ p = r
               /\ \A t, u \in RequestMediaTypes(<<q.method, p>>) : t = u
               /\ \A x, y \in Outcome[p][q.data] \ {"panic"} : x = y}

SameForAll ==
    \A c, d \in Client :
        /\ reply[c] # None /\ reply[d] # None
        /\ request[c] = request[d] /\ request[c] \in Determined
        => reply[c] = reply[d]

(* server.go:892-928: every request is answered, or its connection closed, *)
(* also when its response cannot be serialised.                            *)
Answered == \A c \in Client : pc[c] \notin Idle ~> pc[c] \in Idle
=============================================================================
