SPECIFICATION Spec
CONSTANTS
    None = None
    Invalid = "invalid"
    Empty = ""
    Path <- MCPath
    Operations <- MCOperations
    Upper <- MCUpper
    Method = {"GET", "POST", "get"}
    Param = {"{charge}", "{refund}", "{list}"}
    Action = {"capture"}
    Text <- MCText
    Legal = {"charges", "search", "capture", "refunds", "latest", "ch_1", "a+b", "%0"}
    Unescaped <- MCUnescaped
    Query <- MCQuery
INVARIANTS IInv TypeOK PrefersStaticRoutes RecognizesAllOperations IDsRebuildPath DoubledSlashesIgnored
PROPERTIES SameRouteAfterRestart
