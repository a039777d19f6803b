--------------------------------- MODULE Paths ---------------------------------
(***************************************************************************)
(* Paths, of requests and of the specification, and what the server does   *)
(* with them: doubled slashes are taken out of those of requests, those of *)
(* the specification are compiled and sorted, and the parameters of one    *)
(* are found in the other.                                                 *)
(*                                                                         *)
(* A path is the sequence of its segments, the strings after each slash:   *)
(* "/v1//charges" is <<"v1", "", "charges">>.  In the paths of the OpenAPI *)
(* specification a segment of Param is a parameter, and it is its name.    *)
(***************************************************************************)
EXTENDS Integers, Sequences, SequencesExt, FiniteSets

CONSTANTS
    Path,          \* the paths of the specification
    Operations,    \* Operations[p]: the verbs of p, in lower case
    Upper,         \* Upper[v]: verb v in upper case
    Method,        \* request methods
    Param,         \* parameter segments
    Action,        \* the segments of hasPrimaryIDSuffixes: "capture", ...
    Text,          \* the segments of request paths
    Legal,         \* those that the character class of compilePath admits
    Unescaped,     \* url.QueryUnescape of a segment, or Invalid
    Invalid, Empty, None,
    Query          \* the requests: [method, path]

ASSUME PathAssumption ==
    /\ IsFiniteSet(Path)
    /\ Operations \in [Path -> SUBSET DOMAIN Upper]
    /\ \A v \in DOMAIN Upper : Upper[v] \in Method
    /\ \A p \in Path : p \in Seq(Param \cup Text) /\ p # <<>>
    /\ Param \cap Text = {} /\ Empty \in Text /\ Legal \subseteq Text \ {Empty}
    /\ DOMAIN Unescaped = Text /\ None \notin {Unescaped[t] : t \in Text}
    /\ \A q \in Query : q.method \in Method /\ q.path \in Seq(Text)

(* The elements of p at the positions in S, in their order: what SelectSeq *)
(* returns, in terms that proofs can use.                                  *)
Position(S, i) == Cardinality({j \in S : j <= i})

Nth(S, n) == CHOOSE i \in S : Position(S, i) = n

Subsequence(p, S) == [n \in 1..Cardinality(S) |-> p[Nth(S, n)]]

----------------------------------------------------------------------------
(* DoubleSlashFixHandler.  strings.Replace scans once, from left to right, *)
(* so the slashes of a run are taken in pairs.                             *)

(* Mutant: only the first doubled slash is replaced.                       *)
FirstDropped(p, i) ==
    /\ p[i] = Empty /\ i < Len(p)
    /\ \A j \in 1..(i - 1) : p[j] # Empty

Dropped(p, i) ==
    /\ p[i] = Empty /\ i < Len(p)
    /\ \E start \in 1..i :
          /\ \A j \in start..i : p[j] = Empty
          /\ start > 1 => p[start - 1] # Empty
          /\ (i - start) % 2 = 0

FixedPath(p) == Subsequence(p, {i \in DOMAIN p : ~Dropped(p, i)})

(* net/http redirects a path with a doubled slash left in it.              *)
Redirects(p) == \E i \in 1..(Len(p) - 1) : p[i] = Empty

----------------------------------------------------------------------------
(* initializeRouter and compilePath.                                       *)

Parameters(p) == {i \in DOMAIN p : p[i] \in Param}

(* pathParamNames, and len(pathParamNames).                                *)
Params(p) == Subsequence(p, Parameters(p))

NumParams(p) == Cardinality(Parameters(p))

(* Mutant: the verbs stay as the specification spells them.                *)
Verbatim(p) == Operations[p]

MethodsOf(p) == {Upper[v] : v \in Operations[p]}

(* Mutant: the paths with fewer segments come first.                       *)
ShortestFirst(s) == \A i, j \in DOMAIN s : i < j => Len(s[i]) <= Len(s[j])

StaticFirst(s) ==
    \A i, j \in DOMAIN s : i < j => NumParams(s[i]) <= NumParams(s[j])

(* A method and a list that registering its routes in a random order, and  *)
(* sorting them, may end with.                                             *)
SortedRoutes ==
    UNION {{<<m, s>> : s \in {r \in SetToSeqs({p \in Path : m \in MethodsOf(p)}) :
                                 StaticFirst(r)}} : m \in Method}

HasPrimaryID(p) == p[Len(p)] \in Param \cup Action

----------------------------------------------------------------------------
(* routeRequest.                                                           *)

Matches(p, path) ==
    /\ Len(p) = Len(path)
    /\ \A i \in DOMAIN p : IF p[i] \in Param THEN path[i] \in Legal ELSE path[i] = p[i]

(* Mutant: one parameter is always taken for the primary ID.               *)
AllButOne(p) == NumParams(p) - 1

NumSecondaryIDs(p) == IF HasPrimaryID(p) THEN NumParams(p) - 1 ELSE NumParams(p)

(* The paths under m that match path, and those with the fewest parameters *)
(* of them: what path may be routed to.                                    *)
Fitting(m, path) == {p \in Path : m \in MethodsOf(p) /\ Matches(p, path)}

Fittest(m, path) ==
    {p \in Fitting(m, path) : \A r \in Fitting(m, path) : NumParams(p) <= NumParams(r)}

Result(status) == [status |-> status, route |-> <<>>, primary |-> None, secondary |-> <<>>]

(* A path that spells out no parameter has no PathParamsMap at all.        *)
RouteTo(p, path) ==
    LET matches == Subsequence(path, Parameters(p))
        ids == [n \in DOMAIN matches |-> Unescaped[matches[n]]]
    IN  IF ids = <<>> THEN [Result("routed") EXCEPT !.route = p]
        ELSE IF Invalid \in ToSet(ids) THEN Result("unparsable")
        ELSE [status |-> "routed", route |-> p,
              primary |-> IF HasPrimaryID(p) THEN ids[Len(ids)] ELSE None,
              secondary |-> [n \in 1..NumSecondaryIDs(p) |->
                                [name |-> Params(p)[n], id |-> ids[n]]]]

(* The first of the routes that matches.                                   *)
RouteRequest(list, path) ==
    LET matching == {i \in DOMAIN list : Matches(list[i], path)}
    IN  IF matching = {} THEN Result("unrecognized")
        ELSE RouteTo(list[CHOOSE i \in matching : \A j \in matching : i <= j], path)
=============================================================================
