SPECIFICATION Spec
CONSTANTS
    None = None
    Invalid = "invalid"
    Empty = ""
    Path <- MCPath
    Operations <- MCOperations
    Upper <- MCUpper
    Method <- MCMethod
    Param = {"{charge}", "{quote}", "{line}", "{file}"}
    Action = {"pdf"}
    Text <- MCText
    Legal = {"charges", "search", "quotes", "pdf", "files", "events", "x", "%0"}
    Unescaped <- MCUnescaped
    Query <- MCQuery
    Client = {"first", "second"}
    Sends <- MCSends
    Option <- MCOption
    Version = "new"
    Response <- MCResponse
    MediaType = {"form", "multipart"}
    Body <- MCBody
    Unparsable = {"unparsable"}
    Coercible <- MCCoercible
    Valid <- MCValid
    Untyped = {"expandMap"}
    Outcome <- MCOutcome
INVARIANTS IInv TypeOK SameForAll
PROPERTIES ImplementsVerdicts Answered
