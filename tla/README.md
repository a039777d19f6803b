# A verification project for stripe-mock

stripe-mock answers Stripe API requests from an OpenAPI specification and a
file of fixtures. It looks like a program without state, but it is a concurrent
one: every request runs in a goroutine of its own, all of them share one tree of
Go maps (the fixtures), nothing takes a lock, and several passes over a response
write in place. This directory models that program in TLA+, checks it with TLC
on small instances, and proves with TLAPS, for every instance, that the concurrent
passes over a response implement a mock without state, that the pipeline
implements a table of verdicts, and what routing and startup promise.

## The system

| Component | Source | State | Operations | Interacts with |
|---|---|---|---|---|
| Startup and listeners | `main.go` | options, listeners | check options, load data, open HTTP and HTTPS, serve | hands the `StubServer` to two serving goroutines; the operating system |
| Routing | `server/server.go` (`DoubleSlashFixHandler`, `initializeRouter`, `compilePath`, `routeRequest`) | routing table, built once per start | build and sort, match, extract IDs | gives a `PathParamsMap` to generation |
| Request pipeline | `server/server.go` (`HandleRequest`, `validateAndCoerceRequest`, `validateAuth`, `writeResponse`) | none, but header order matters | check, route, parse, validate, generate, write | calls everything below |
| Parameter parsing and assembly | `param/` (`param.go`, `parser`, `form`, `nestedtypeassembler`) | none | form strings to nested maps | the pipeline |
| Coercion | `param/coercer` | writes the request data in place | strings to numbers, indexed maps to slices | the pipeline |
| Expansion parsing | `server/server.go` (`extractExpansions`, `parseExpansionLevel`) | none | `expand[]` to a tree | generation |
| Response generation | `server/generator.go` | the shared fixtures; per request, a response tree and the replaced IDs | `generateInternal`, `recordAndReplaceIDs`, `distributeReplacedIDs` | reads and, by aliasing, writes the fixtures |
| Parameter reflection | `generator/datareplacer` | writes the response in place | `ReplaceData` | generation |
| Query schema and validation | `spec/query.go`, `spec/validate.go` | none | schema of a GET, translation to JSON Schema | the pipeline |
| Specification | `spec/spec.go` | the specification, read-only | unmarshal | all; not modelled |
| Embedded data, vendored code | `embedded/`, `vendor/` | read-only | none | not modelled |

What is hard here, and therefore what the properties are about:

* *Interleaving and aliasing.* `generateInternal` copies a fixture only where the
  schema has properties; elsewhere the response contains the fixture's own map.
  Any write of a later pass there is a write to state shared by all handlers.
* *Iteration order.* Go iterates maps in random order. The passes, and the
  routing table, must come out the same in spite of it.
* *Order of the passes.* An ID can be met before it is known to be stale.
* *Start and end of the process.* Listeners are opened one after the other while
  the first one is already serving, in an environment where other processes
  hold addresses and earlier runs have left socket files.
* *Boundaries.* Capture groups against parameters, runs of slashes, nil
  `PathParamsMap`, indexes of arrays, an insertion point taken for a match.
* *Values rebuilt from pieces.* `a[][x]=1` says nothing of where an element of
  the array ends; a multipart form has lost the order of its keys; the coercer
  writes in place while it is still trying what a value may be.
* *A dozen early returns.* Which headers a response has, and whether there is a
  response at all, depends on the return that was taken.

`PROJECT.json` lists each hazard at its line, with the properties that watch it.

What makes each component correct: generation - a response is a function of its
request, nobody else's request shows in it, the process survives; routing - the
specification alone decides; startup - the listeners are those asked for and a
start never hangs; pipeline - each refusal happens before any effect and carries
the right headers; parsing and coercion - the assembled value depends on the
pairs and their order only.

## The modules

* **`Fixtures`** - the constants shared by the next three: the fixture store as a
  function from objects and keys to values, what the schema says of each key
  (`Kind`), the requests, and the assumptions about them. A key that is absent
  (`None`) is told from one that is `Null`: `ReplaceData` writes over the second
  only. `Copies` says which
  branches of `generateInternal` build a new map. `Exposed` is the set of
  fixture objects that some response holds by reference, closed downwards; it is
  empty when no object lies where the schema has no properties.
* **`Responses`** - the response to a request in closed form, without passes or
  order: what is copied and what is found there (`Raw`), the IDs of the path
  (`Named`), the renaming of stale IDs (`Renamed`), the reflected parameters
  (`Final`), and what of it is reached from the root (`Ideal`). What is reached is
  a least set (`Closure`), not a recursion.
* **`StatelessMock`** - the abstract specification, with no shared state: a
  request is received, and answered with `Ideal(request, minted)`.
* **`ResponseGeneration`** - the detailed specification of `Generate` and
  `writeResponse`. `store` is the `*spec.Fixtures`; `copy[c]` and `own[c]` are
  the maps handler `c` has made, one per fixture object; `stack[c]` is the call
  stack of the recursive pass it is in (`pc[c]`), each frame with the keys its
  `range` loop has left; `path[c]` is the `PathParamsMap` with the IDs replaced
  so far. One action visits one key: `GenerateInternal`, `RecordAndReplaceIDs`,
  `DistributeReplacedIDs`, `ReplaceData`, `WriteResponse`; `Return` and `EndPass`
  are the returns, `MaybeGeneratePrimaryID` the step between passes, which leaves
  the ID passes out if there are no path parameters (`ReplacesIDs`), `NextPass` the
  order of the passes, none of which a binary response goes through, `Arrive`
  the call of `Generate`, `Crash` the runtime's detection of a data race.
  `Put` writes to a handler's own map or, where it has none, to the store: that
  is the aliasing.
* **`ResponseGenerationProofs`** - that handlers do not disturb each other, what becomes
  of the IDs that are replaced, and the steps of the refinement;
  **`StatelessMockProofs`**, which extends it - that a response is the one of
  `Responses`.
* **`Paths`** - what the server does with paths, as operators: `FixedPath`,
  `SortedRoutes` (the lists that registering and sorting may end with),
  `RouteRequest`, `RouteTo` (the IDs), and `Fittest`, the paths that the
  specification alone would route a request to. **`PathsProofs`** has lemmas
  about each of them, on subsequences by position and on first matches.
* **`Router`** - paths as sequences of segments; the routing table per method,
  which `InitializeRouter` fills in any order that sorting allows; `Serve` fixes
  double slashes, routes, and extracts IDs; `Restart` builds the table anew.
  `answer` is what clients remember, across restarts. **`RouterProofs`** has its
  theorems.
* **`Startup`** - `main` as a sequence of steps over all combinations of options
  and `PORT`, with other processes that bind and free addresses, serving
  goroutines that may fail at any time, and restarts. **`StartupProofs`** has its
  theorems.
* **`Requests`** - what a request consists of, what the specification says of an
  operation, and the decisions that concern these alone: `ValidateAuth`,
  `ContentOf`, `RequestMediaTypes`, the status codes, `Reply` (the headers that
  `writeResponse` leaves).
* **`Answers`** - what there is to answer to a request: it has a set of
  `Objections`; the gravest by `Rank` is the answer, with the headers of that
  verdict, and if there is none, the outcome of generation is. No table, no
  handler, no order of steps: `Answers` is a function of options and request.
  Doubled slashes are taken out here in one scan from left to right
  (`Slashes`), not by the positions that `FixedPath` drops.
* **`Verdicts`** - the abstract specification of the pipeline: a client asks, and is
  told one of the `Answers`.
* **`RequestHandling`** - `HandleRequest`, one action per stage (`ServeHTTP`,
  `ValidateHeaders`, `FindRoute`, `ChooseContent`, `ParseParams`,
  `ValidateAndCoerceRequest`, `Generate`, `WriteResponse`), for several clients;
  `header[c]` is what has been set on the `ResponseWriter` so far. It composes
  with `Router` (`R == INSTANCE Router`): its table is the one that
  `R!InitializeRouter` builds, now with a media type per operation, and its
  stages call the operators of `Paths` as `Router` does. `Restart` ends the process with
  requests in flight. What parsing, coercion, validation and generation decide
  is given by constants here (`Unparsable`, `Coercible`, `Valid`, `Outcome`):
  the modules below are about those. **`RequestHandlingProofs`** has its theorems,
  and before them the lemmas about `Answers`.
* **`NaturalSets`** - two lemmas on the order of the naturals that the proofs need:
  a set has a least element, and induction over a set.
* **`ParamKeys`** - `ParseKey`, the state machine of `parseKey` over the tokens of a
  key, and how clients write such keys.
* **`NestedParams`** - the values of parameters, `BuildParamStructure`,
  `MergeMaps`/`MaybeCollapseArrays`, and `AssemblePair`, one turn of
  `AssembleParams`.
* **`Coercer`** - `CoerceSubSchema` and what it calls. Because the code works in
  place and iterates maps in random order, a coercion has a *set* of outcomes,
  each with the value the caller is given and the value it still holds.
* **`Validation`** - `BuildQuerySchema` and what the validator accepts.
* **`Reflection`** - `ReplaceData` and `isSameType` as functions.
* **`RequestData`** - composes these four: the stages of one request from the
  pieces of its forms to its response (`ParseQuery`, `ParseMultipart`,
  `ParseBody`, `AssembleParams` pair by pair, `Coerce`, `Validate`, `Reflect`), and
  a client that sends it again and again. The reference definition is the tree
  of typed values that the client had in mind: `Encode` writes it as pairs, and
  `RoundTrip` asks for it back.
* **`ExpansionRequests`** - requests for one thing with different expansions, one
  after the other: `ExtractExpansions` reads the parameter (`LevelOf`,
  `ParseExpansionLevel`), `Generate` hands the level on. What is generated from it is a
  constant operator here (`Generated`). `ParsedTo[n]` is `parseExpansionLevel` for
  strings of up to `n` names, a function on sets of strings, so that it can be
  proved about. **`ParametersProofs`** has the theorems about this module and
  about `ParamKeys`.
* **`Expansions`** - extends it with what `Generated` stands for: every branch
  of `generateInternal` with its errors and panics (`GenerateInternal` is the set
  of its results), `generateSyntheticFixture` included. `Declared` is the reference: the
  schema that a path of declared expandable fields leads to. An expansion is
  promised to be served if each resource and list on the way to it can be answered by
  itself (`Answerable`): one without a fixture panics (generator.go:195), as does a
  list whose fixture is null or has no `url` (generator.go:469-470). Embedded objects need
  no fixture, which is what the run `expanded_config` is about.
* **`MCResponse`, `MCShared`, `MCRouter`, `MCRequestHandling`, `MCRequestData`,
  `MCExpansions`** - the instances that TLC checks (`Startup` needs no
  definitions beyond its cfg).

`ResponseGeneration` has the writes of the passes and their sharing, but takes
schemas in its stride; `Expansions` has all of the schemas, for one request at a
time. `RequestHandling` has the order of the stages and the clients, the
others what happens within a stage.

## The runs

| Run | Checks | States | Shows |
|---|---|---|---|
| `response` | `NoPanic`, `NoDataRace`, `CopiedFixturesPristine`, `ReplacedIDsGone`, `OldIDsAreGiven`, `RecordInv`, `AnswerInv`, `ImplementsStatelessMock` | 108,811 | with fixtures that are copied throughout, two handlers do not interfere, none of them panics, and each implements the stateless mock; with the invariants that this is proved from |
| `shared` | `IInv`, `SearchInv`, `PostDataNeverStored`, `Answered` | 96,732 | with a fixture handed out by reference: the inductive invariants, no parameter in the store, every request comes to an end |
| `stateless` | `AnswersStateless` | violated | one request's ID shows up in the next one's answer |
| `crash` | `NoCrash` | violated | two requests race on the shared object and Go stops the process |
| `router` | `IInv`, `TypeOK`, `PrefersStaticRoutes`, `RecognizesAllOperations`, `IDsRebuildPath`, `DoubledSlashesIgnored`, `SameRouteAfterRestart` | 29,952 | the specification alone decides the route, whatever the iteration order |
| `startup` | `IInv`, `TypeOK`, `AddressesHonoured`, `UnaskedProtocolOff`, `Settles` | 13,828 | the listeners are those asked for and no start hangs |
| `startup_unix` | `UnixSocketWorks` | violated | `-unix` alone makes the process abort |
| `handling` | `IInv`, `TypeOK`, `ImplementsVerdicts`, `SameForAll`, `Answered` | 97,112 | the pipeline, with its table, its clients and restarts, implements the table of verdicts, and answers everyone |
| `request_data` | `TypeOK`, `RoundTrip`, `UnderstoodAlike`, `CoercionKeepsContent`, `SlicesBounded`, `ReflectsParameters` | 11,221 | what a client means is what the program understands, validates and reflects, however it is encoded |
| `hydrated` | `HydratedObjectsKept` | violated | an ID that was sent replaces the object that was expanded |
| `expansions` | `TypeOK`, `LevelIsPrefixTree`, `ExpansionsAreLocal`, `DeclaredExpansionsServed` | 529,550 | each request is answered with its own level, the tree of what was asked for; what is declared and can be answered is shown, and nothing else changes |
| `expanded_config` | `DeclaredExpansionsServed` | violated | an expansion of an object without a fixture panics |

**Bounds.** *response*: two handlers, and four fixture objects taken from
refunds and charges, and a PDF: an expandable field, a nested object, a list, a field
that is null, and mutual mentions of IDs; requests to retrieve, list, create and update,
expanded or not, with zero, one or two path parameters. The store is the only thing handlers share,
so a third handler adds no new pair of accesses; the two are interchangeable
(`Symmetry`), since this run has no liveness property. Each fixture object is reached
by a response along at most one path, so that one private map per object is
enough. *shared*: the shape of the bundled `billing.alert` fixture, where
`usage_threshold.meter` is expandable and its fixture is a whole object that
holds the alert's own ID; the run `stateless` uses one handler, so that its
counterexample is sequential. *router*: seven paths (static, with one and two
parameters, with an action suffix, and two of equal rank that both match one
path) and eight requests, with doubled and tripled slashes, escapes that decode
and one that does not, and a method that is spelled in lower case. *handling*: seven operations, among them one
with a PDF, one with bodies of two types, one without a body, one without a 200
response and one without known content, and two paths of equal rank; two clients,
of which one tries everything that can be wrong with a request and the other
repeats a few of them, since handlers share nothing but the table.
*request_data*: the shapes of parameter schemas in the bundled specification
(objects, arrays of objects, arrays without items, hashes, `anyOf` with an
enumeration, an object or nested arrays), trees for them with arrays of one and
two elements in both styles, by all three ways; and malformed keys, mixed styles,
gaps, indexes at and above the limit (2 here, 1000 in the code: only the comparison
matters), two spellings of one index, escapes that do not decode. *expansions*:
a charge with expandable fields that are present, null, absent and without a
fixture, a list within it, a list and a search result of it, a deleted resource, a
resource that has no fixture, a reference that leads nowhere, and lists whose fixture is
null, with and without a pattern for the URL;
requests with none, one or two expansions, wildcards, and items that are no strings. *startup*:
one port and one socket to choose from, the two default ports, a number or
garbage in `PORT`, and one address that other processes contend for.

**Fairness.** `ResponseGeneration` assumes weak fairness of each handler's step:
the Go scheduler preempts and runs every goroutine, and no step of a pass blocks
on anything. Nothing is assumed of clients (`Arrive`) nor of the runtime's race
detection (`Crash`), which is why `Answered` ends with "or the process has
crashed". `Startup` assumes weak fairness of the main goroutine only; other
processes, failing listeners and restarts may or may not happen. `RequestHandling` assumes weak fairness of each client's handler:
it is a goroutine, and nothing in `HandleRequest` waits for anything; clients,
restarts and even the building of the table (which always ends, in `Startup`) may
stop. `Router`, `RequestData` and `Expansions` have no liveness property and no
fairness.

**Deadlock.** Checked in `response`, `router`, `startup`, `handling`,
`request_data` and `expansions`. In the runs on
`MCShared` the process may be stopped for good by `Crash`.

## What is proved

All theorems are checked by TLAPS, for any constants that meet the assumptions
named here; TLC evaluates every assumption in the runs of the modules that make it.

| Module | Theorem | States | Under |
|---|---|---|---|
| `ResponseGenerationProofs` | `Isolation` | `[]IInv` | |
| | `TypeCorrect` | `[]TypeOK` | |
| | `NeverPanics` | `[]NoPanic` | |
| | `FixturesPristine` | `[]CopiedFixturesPristine` | |
| | `ParametersForgotten` | `[]PostDataNeverStored` | |
| | `RaceFreedom` | `[](NoDataRace /\ NoCrash)` | `Exposed = {}` |
| | `StatelessMockSteps` | `ImplementsStatelessMock` | `[]AnswersStateless` |
| | `SearchesComplete` | `[]SearchInv` | |
| | `OldIDsReplaced` | `[]OldIDsAreGiven` | |
| | `OldIDsFromFixtures` | `[]RecordInv` | `Exposed = {}`, `ResponsesAreTrees` |
| | `StaleIDsGone` | `[]ReplacedIDsGone` | the same, and `IDsAreFresh` |
| `StatelessMockProofs` | `PassesFollow` | `[]AnswerInv` | `Exposed = {}`, `ResponsesAreTrees` |
| | `ResponsesAreIdeal` | `[]AnswersStateless` | the same |
| | `MockIsStateless` | `ImplementsStatelessMock` | the same |
| `RouterProofs` | `PossibleAnswers` | `[]IInv` | |
| | `TypeCorrect`, `StaticPreferred`, `AllRecognized`, `PathRebuilt`, `SlashesIgnored` | the five invariants of the run `router` | |
| | `Repeatable` | `SameRouteAfterRestart` | |
| `RequestHandlingProofs` | `StagesRuledOut` | `[]IInv` | |
| | `TypeCorrect` | `[]TypeOK` | |
| | `VerdictsImplemented` | `ImplementsVerdicts` | |
| | `Stateless` | `[]SameForAll` | |
| `ParametersProofs` | `KeysParseBack` | `ParseKey` undoes `KeyOf` | |
| | `ParsedIsPrefixTree` | `IsPrefixTreeAt`, for all sets of strings and all paths | |
| | `LevelsArePrefixTrees` | `[]LevelIsPrefixTree` | |
| | `TypeCorrect` | `[]TypeOK` of `ExpansionRequests` | |
| `StartupProofs` | `Listeners` | `[]IInv` | |
| | `TypeCorrect`, `AddressesListenedAt`, `ProtocolOff` | `[]TypeOK`, `[]AddressesHonoured`, `[]UnaskedProtocolOff` | |

### Responses

*Assumptions.* `DataAssumption` (types; some ID can be minted),
`RequestAssumption` (types; the parameters of a path have different names, which
`compilePath` ensures), `ExposedAssumption` (`Exposed` holds at least what is handed
out by reference). Nothing else is assumed of fixtures and schemas: cycles, shared
objects and every number of handlers are included, up to `OldIDsReplaced`.

*Three hypotheses* are stated in the theorems themselves, because the code does not
ensure them. `Exposed = {}`: no fixture holds an object where its schema has no
properties. Without it the theorems are false, which the runs `stateless` and
`crash` show. `ResponsesAreTrees`: no object is reached along two paths; a fixture is
unmarshalled from JSON, so that only the meeting of two expansions in one fixture
could violate it. (In the model, where a private copy is named after its
fixture, two copies of one fixture would be taken for one.) `IDsAreFresh`:
clients use other IDs than the fixtures; a client that asks for the very ID of
the fixture gets it, under that name, as it should. All three hold in `MCResponse`,
where the last two are assumptions that TLC evaluates, and `Exposed` is empty.

*Isolation.* None of the safety properties is inductive. That the store is intact
does not prevent the next write from hitting it; what does is that the frame of
the pass that writes is about a map of the handler's own, and that is so because
every reference the pass could have followed leads to such a map or to an exposed
one. `IInv` says exactly this, in three layers: `StackIsolated` (every frame is on
an own or exposed object, and `ReplaceData`'s frames where a schema is known are on
own ones), `MapsIsolated` (every object a private map refers to is own or
exposed, and own where the schema has properties) and `StoreIsolated` (the store
still has the references it was loaded with, and differs from the fixtures only
in exposed objects and only by IDs). The proof has a lemma per action; the
passes share `PutIsolated`, `VisitedIsolated`, `EnteredIsolated` and `PassStep`,
which say what a write, a next key and a recursive call keep. `RaceFreedom`
follows from `WritesExposed`: whatever a pass may next write in the store is
exposed. `NeverPanics` is part of `IInv` (`Started`): only a response that is an object
gets to `MaybeGeneratePrimaryID`, and that leaves the ID passes out without an ID.

*Stale IDs.* That a recursive pass misses nothing seems to call for induction over
the tree. `SearchInv` avoids it: at every moment of the distribute pass there is a set
`V` with the root in it that no reference leads out of, except at keys a frame of the
stack has still to visit, and everything in `V` is up to date, with the same
exception. A recursive call adds an object to `V` and all of its keys to the
exception; when the stack is empty there is no exception left. It needs no
tree, so `OldIDsReplaced` holds for cyclic fixtures, too. It leaves the question of
which IDs are replaced: `RecordInv` says that an object the record pass has not entered
holds what it was generated with, so that what is replaced are the IDs
of the fixtures. This is where a tree is needed: an object that is entered twice
has its new ID recorded as an old one.

*The refinement.* `AnswerInv` describes the response pass by pass. During the two
passes that rename IDs it is a `Walk`: there is a set `U` of objects not entered yet,
a key that is in `U` or still to be visited has what the pass found (`B`), every
other one what the pass makes of it (`A`), and the references into `U` are
exactly those from such keys. For the record pass, `Recorded` adds that the IDs
replaced so far are those in the keys seen so far, a set, whatever the order in which
they were met. `ReplaceData` and `writeResponse` come to part of the response only
(`Reflecting`, `Writing`): the objects they have come to are within the
`Closure` that `Responses` defines, which is least, and at the end they are closed
under the same relation, so that they are all of it. Both inclusions need only
that a least set is least: no induction over data. The largest lemmas say what one
visit does to one key (`RecordVisit`, `DistributeVisit`, `ReplaceVisit`) and that
this is `A` of it (`MatchedClaims`, `NewIDsRename`). `MockIsStateless` combines this with
`StatelessMockSteps`: every action but the last of a response is invisible to the client.

### Routing

*Assumption.* `PathAssumption`: types; parameters are told from text, and
`Legal` does not contain the empty segment (`compilePath` asks for one
character or more). The answers do not follow from the table that happens to be there,
since a client may remember one from before a restart. `IInv` therefore says that
every answer is one of those possible for the request (`Possible`), for which
no table is needed, and that every sorted list is a permutation, by
parameters, of what the specification has for its method. The lemma behind it is
`FirstMatch`: the first match of a sorted list is one with the fewest parameters.
`PathRebuilt` needs `Subsequence`, the segments at a set of positions, whose
lemmas (`PositionBijection`, `NthOfPosition`) count positions; `SlashesIgnored` needs
that a path with nothing but doubled slashes loses exactly its empty segments.

### The pipeline

*Assumptions.* `PathAssumption`, `RequestsAssumption` (types; generation ends
somehow) and `NoneAssumption` (None is nothing else). `IInv` is `TypeOK`, the sorted lists, and per
client `Ruled` and `Told`. `Ruled` says what a handler knows of its request at each
stage: everything that the earlier stages check has been passed. `Told` says that
what is written is an answer there is. When a stage refuses, `Ruled` shows that all
objections graver than the one raised have been ruled out, hence that it is the
first (`HeaderVerdict`, `RouteVerdict`, `ContentVerdict`, `TypeVerdict`, `DataVerdict`,
one per group of checks). `Answers` takes doubled slashes out in one
scan and `FixedPath` by positions: `SlashesAsFixed` shows they agree for every path,
the one induction here, over a set of lengths. A step of one client changes nothing
that `Ruled` and `Told` of another are about (`OneClient`); the table changes only while
nobody is served. `VerdictsImplemented` needs of a step only who is told what.
`Stateless` is about the requests with one answer (`Determined`: one fittest
route, one media type, one outcome but for panics); it does not hold for others,
where the code itself leaves the choice to the iteration order.

### Parameters

*Keys.* `KeysParseBack` is about `ParseKey` alone: for any sequence of parts, `KeyOf`
writes a key from which `ParseKey` gets these parts. The parts may be of any
length, a name may contain a `]` and the key of a map a `[`; a name has to be where it
can be told from its neighbours (not next to another one, and not at the end,
where `parseKey` drops it). It is proved by following the state of the machine
through a run of text (`RawRead`, `MapRead`) and through a pair of brackets
(`BracketRead`), and these through the parts.

*Expansions.* *Assumptions*: `ExpandAssumption` (types: what a request sends is a
string, a map or a list, and a string has at least one name) and
`GeneratedAssumption`, that None is none of the results of generation. Nothing is said of
what these are, nor that there is but one: they stand for whatever the iteration over maps
and the state of the fixtures give. `ParsedIsPrefixTree` is the claim about `parseExpansionLevel` for every set of
strings, along every path of names. It is an induction along one path: the node at its
first `i` names is what is parsed from `Below(raw, p, i)`, the rests of the strings
that go on below them (`Reached`), because the group of the next name is just
what is below that (`BelowNext`), and a name has a field if it has a group or ends
there (`FieldsBelow`). That the function which parses groups exists and meets its
equation is proved first (`ParsedToIs`). `IInv` then adds to the properties that a
response is generated with the level of its own request; `TypeCorrect` concludes that
it is a result for the `expand` of that request, whatever level the one before had.

### Startup

*Assumption.* `StartupAssumption`: ports, sockets and the default addresses are
different things. `IInv` adds `Checked` (past the checks, no options conflict) and
`Opened` (a listener is at what the getter returns for the options; after its step, it
is there unless the getter returns none). The properties then concern options alone.

### Only model-checked

* Liveness: `Answered` of `ResponseGeneration` and of `RequestHandling`, `Settles`.
* What is computed by recursion over values and schemas: all of `Coercer`,
  `Validation`, `Reflection` and `RequestData`, the merging of `NestedParams`, and of
  `Expansions` what is generated (`ExpansionsAreLocal`, `DeclaredExpansionsServed`).
  These operators are recursive, as the functions of the code are, over values and
  schemas of any kind and shape. Keys and levels are recursive in their length only,
  which is why they could be proved: a function on the naturals stands for the
  recursion, and `NaturalSets!InductiveSet` for the induction.
* The properties of the runs that expect a violation.

## Where the code differs from what is said of it

* `stateless`: README.md:48-51 of the repository promises that a request has no
  effect on future ones. An ID written into a fixture that
  `generateInternal` returned by reference stays there.
* `crash`: concurrent requests for such a resource race on a Go map.
* `startup_unix`: `-unix` alone is accepted and then fails, because both
  protocols bind the one socket.
* `hydrated`: datareplacer.go:68-70 gives the reason for `isSameType`, but it looks
  at the schema of the response and not at its value: where a field may be a
  string or an object, as every expandable one, a string replaces an object that
  was expanded. (`POST /v1/charges` with `customer=cus_1&expand[]=customer`; the
  bundled specification has 69 such fields.)
* `expanded_config`: `generateSyntheticFixture` does not dereference a required
  property (generator.go:807), and panics on it. (27 fields of
  `payment_method_configuration`, for which there is no fixture.)

Noted while modelling, without a run of its own: main.go:248 tests `httpAddr`
where the message speaks of `-https-addr`; main.go:290 and 327 ignore the
`-http(s)-addr` options, so that `-https-addr` alone still starts HTTP on the
default port; `-http -https` starts no listener and the runtime stops the
process (main_test.go accepts similar combinations as valid); with `PORT` set and
no options both protocols use that port and the process aborts; three slashes in
a row are still redirected. The comment at server.go:270 exempts only invalid
authorization from the Request-Id, but a refused version has none either
(`HeadersOf`). Errors of an operation that serves a PDF, once its content has been
chosen, are JSON under `Content-Type: application/pdf`. A POST to an operation
without a body, which `-spec` permits, dereferences nil (server.go:815). A number
parameter NaN, which `strconv.ParseFloat` accepts, ends in a panic under
`-verbose` (server.go:370) and in a 500 without. An unknown expansion that sorts before
the last expandable field is accepted and ignored (generator.go:181); `*.x` is no
wildcard, and lists do not hand a wildcard on to their data. An array that fits
only the second of two array branches of an `anyOf` is coerced half by the
first and then refused (coercer.go:186-192). An array is reflected if its first item
fits. Two spellings of one index (`a[1]`, `a[01]`) leave one value, either of them.

## Not modelled

* The text of IDs and URLs. A minted ID is any member of `MintedId`; a `url` is
  represented by the ID embedded in it; of a generated list, only `data` and where its
  `url` comes from are modelled in `Expansions`.
* Parameters other than strings and maps in the `ReplaceData` of
  `ResponseGeneration`; they are in `Reflection`, which has no sharing.
* Formats, lengths and patterns in schemas, nullable parameters (no request
  schema of the bundled specification has any), and references from request
  schemas to components. What `strconv` accepts is a constant, and the
  validator is modelled by what the vendored `jsval` does with the keywords
  that remain: a number schema refuses an integer, for one.
* Where strings are split: a form is a list of pieces, a key a list of tokens, an
  `Authorization` header a list of parts. A client that disconnects, the size limit
  of multipart bodies, and errors of reading a body or an uploaded file.
* `json.Marshal` sorts keys; the model serialises in any order, a superset of
  the behaviours. Likewise `Router` allows every order that sorting permits,
  a superset of what `sort.Slice` does.
* A load failure (`-spec`, `-fixtures`, validators) is one outcome of `Load`.
* Segments of the specification's paths are matched literally, although
  `compilePath` does not quote them in its regular expression.
* `spec/spec.go`: unmarshalling of a trusted file, once per start.
* `embedded/` and `vendor/`: data and third-party code.

## What is left

Each safety property that a run of `ResponseGeneration`, `Router`, `RequestHandling`,
`Startup` or `ExpansionRequests` checks is proved, and both refinements are. To go
further, the recursion over values would have to be bounded by their depth, as that
over strings is in `ParsedTo`:

1. `RequestData!TypeOK`, that parameters are strings until they are coerced:
   merging would become a function on the values of each depth.
2. `SlicesBounded` and `CoercionKeepsContent`: the same for coercion, by the depth of
   the schema; the limit itself concerns one map at a time.
3. `ExpansionsAreLocal`: generation descends the schema and the level together, so that
   the depth of the level bounds it, but for `anyOf`.
