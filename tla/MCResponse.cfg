SPECIFICATION Spec
CONSTANTS
    Handler = {h1, h2}
    None = "none"
    Null = "null"
    Nested = "nested"
    Empty = ""
    IdKey = "id"
    Map <- MCMap
    Key <- MCKey
    Name <- MCName
    Text <- MCText
    Kind <- MCKind
    Target <- MCTarget
    Fixture <- MCFixture
    ObjectName <- MCObjectName
    Request <- MCRequest
    MintedId = {"re_new"}
    Binary = {"receipt"}
    Exposed = {}
INVARIANTS NoPanic NoDataRace CopiedFixturesPristine ReplacedIDsGone OldIDsAreGiven RecordInv AnswerInv
SYMMETRY Symmetry
PROPERTIES ImplementsStatelessMock
