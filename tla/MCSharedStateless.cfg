\* The process may be stopped by the runtime for good: CHECK_DEADLOCK FALSE.
SPECIFICATION Spec
CONSTANTS
    Handler = {"h1"}
    None = "none"
    Null = "null"
    Nested = "nested"
    Empty = ""
    IdKey = "id"
    Map <- MCMap
    Key <- MCKey
    Name <- MCName
    Text <- MCText
    Kind <- MCKind
    Target <- MCTarget
    Fixture <- MCFixture
    ObjectName <- MCObjectName
    Request <- MCRequest
    MintedId = {"alrt_new"}
    Binary = {}
    Exposed = {"meter"}
INVARIANTS AnswersStateless
CHECK_DEADLOCK FALSE
