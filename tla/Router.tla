-------------------------------- MODULE Router --------------------------------
(***************************************************************************)
(* How a request finds its operation: DoubleSlashFixHandler, the ServeMux  *)
(* behind it, and the routing table of server.go.  The table is rebuilt at *)
(* every start from Go maps, whose iteration order is random, and sorted   *)
(* with sort.Slice, which is not stable, so that two runs of the program   *)
(* on one specification need not have the same table.                      *)
(***************************************************************************)
EXTENDS Paths

VARIABLES
    unsorted,   \* the methods whose routes are not sorted yet
    routes,     \* the routing table: routes[m] is a list of paths
    answer      \* what clients remember: the last answer to each request

vars == <<unsorted, routes, answer>>

----------------------------------------------------------------------------
(* initializeRouter.                                                       *)

(* The table of one method; the loop at the end sorts them one by one.     *)
InitializeRouter(m) ==
    /\ m \in unsorted
    /\ \E sorted \in SortedRoutes :
          sorted[1] = m /\ routes' = [routes EXCEPT ![m] = sorted[2]]
    /\ unsorted' = unsorted \ {m}
    /\ UNCHANGED answer

(* The listeners are opened only when the table is complete (main.go:98-113). *)
Serving == unsorted = {}

----------------------------------------------------------------------------
(* The handler, as far as the route, and the process.                      *)

Serve(q) ==
    /\ Serving
    /\ LET path == FixedPath(q.path)
       IN  answer' = [answer EXCEPT ![q] = IF Redirects(path) THEN Result("moved")
                                           ELSE RouteRequest(routes[q.method], path)]
    /\ UNCHANGED <<unsorted, routes>>

(* The process ends, for whatever reason, and is started again.            *)
Restart ==
    /\ Serving
    /\ unsorted' = Method
    /\ routes' = [m \in Method |-> <<>>]
    /\ UNCHANGED answer

Init ==
    /\ unsorted = Method
    /\ routes = [m \in Method |-> <<>>]
    /\ answer = [q \in Query |-> None]

Next ==
    \/ \E m \in Method : InitializeRouter(m)
    \/ Restart
    \/ \E q \in Query : Serve(q)

Spec == Init /\ [][Next]_vars

----------------------------------------------------------------------------
(* Properties, all of them about what clients are told, in terms of the    *)
(* specification.  Candidates[q] are the paths q may be routed to.         *)

Fixed == [q \in Query |-> FixedPath(q.path)]

Candidates ==
    [q \in Query |-> {p \in Path : /\ \E v \in Operations[p] : Upper[v] = q.method
                                  /\ Matches(p, Fixed[q])}]

(* What there is to answer to q, whatever the table.                       *)
Possible(q) ==
    IF Redirects(Fixed[q]) THEN {Result("moved")}
    ELSE IF Candidates[q] = {} THEN {Result("unrecognized")}
    ELSE {RouteTo(p, Fixed[q]) : p \in Fittest(q.method, Fixed[q])}

(* The invariant that the properties below follow from: every list that is *)
(* sorted is complete (server.go:467-505), and every answer given so far,  *)
(* also by an earlier process, is one that there is to the request.        *)
IInv ==
    /\ unsorted \subseteq Method
    /\ DOMAIN routes = Method /\ DOMAIN answer = Query
    /\ \A m \in Method \ unsorted : <<m, routes[m]>> \in SortedRoutes
    /\ \A q \in Query : answer[q] # None => answer[q] \in Possible(q)

TypeOK ==
    /\ unsorted \subseteq Method
    /\ \A m \in Method \ unsorted :
          ToSet(routes[m]) = {p \in Path : \E v \in Operations[p] : Upper[v] = m}
    /\ \A q \in Query :
          answer[q] # None =>
             /\ answer[q].status \in {"routed", "unparsable", "unrecognized", "moved"}
             /\ answer[q].status = "routed" <=> answer[q].route \in Path

(* server.go:473-479: the static `/v1/invoices/upcoming` is preferred over *)
(* `/v1/invoices/:invoice`: no other match of the request has fewer        *)
(* parameters, whatever the order in which the maps were iterated.         *)
PrefersStaticRoutes ==
    \A q \in Query : answer[q] # None /\ answer[q].status = "routed" =>
        \A p \in Candidates[q] : NumParams(answer[q].route) <= NumParams(p)

(* server.go:277-291: a request is refused as unrecognized exactly when no *)
(* path of the specification matches it under its method.                  *)
RecognizesAllOperations ==
    \A q \in Query : answer[q] # None /\ answer[q].status # "moved" =>
        (answer[q].status = "unrecognized" <=> Candidates[q] = {})

(* server.go:524-565: every parameter of the path is handed on exactly     *)
(* once, in order and under its name, the last one as the primary ID if    *)
(* the route has one: the IDs put back into the pattern give the path.     *)
IDs(a) == [i \in DOMAIN a.secondary |-> a.secondary[i].id] \o
          (IF a.primary = None THEN <<>> ELSE <<a.primary>>)

IDsRebuildPath ==
    \A q \in Query : answer[q] # None /\ answer[q].status = "routed" =>
        LET a == answer[q]
            path == Fixed[q]
            nth(i) == Cardinality({j \in 1..i : a.route[j] \in Param})
        IN  /\ Len(IDs(a)) = nth(Len(a.route))
            /\ \A i \in DOMAIN a.route :
                  IF a.route[i] \notin Param THEN path[i] = a.route[i]
                  ELSE /\ IDs(a)[nth(i)] = Unescaped[path[i]]
                       /\ nth(i) \in DOMAIN a.secondary =>
                             a.secondary[nth(i)].name = a.route[i]

(* README.md:48, stripe-mock is stateless: a client that repeats a request *)
(* is told the same, before and after a restart, unless the specification  *)
(* itself has two routes of equal rank for it (the bundled ones do not).   *)
Ambiguous ==
    {q \in Query : \E p, r \in Candidates[q] :
        /\ p # r /\ NumParams(p) = NumParams(r)
        /\ \A o \in Candidates[q] : NumParams(p) <= NumParams(o)}

SameRouteAfterRestart ==
    [][\A q \in Query \ Ambiguous : answer[q] # None => answer'[q] = answer[q]]_vars

(* server.go:31-39: doubled slashes are ignored, and never redirected.     *)
(* (Of three in a row two are left, and net/http redirects the request.)   *)
OnlyDoubled(p) ==
    /\ p[Len(p)] # Empty
    /\ \A i \in 1..(Len(p) - 1) : ~(p[i] = Empty /\ p[i + 1] = Empty)

WithoutEmpty(p) == Subsequence(p, {i \in DOMAIN p : p[i] # Empty})

Doublings ==
    {d \in (Query \ Ambiguous) \X Query :
        /\ OnlyDoubled(d[1].path)
        /\ d[2].method = d[1].method /\ d[2].path = WithoutEmpty(d[1].path)}

DoubledSlashesIgnored ==
    \A d \in Doublings :
        answer[d[1]] # None /\ answer[d[2]] # None => answer[d[1]] = answer[d[2]]
=============================================================================
