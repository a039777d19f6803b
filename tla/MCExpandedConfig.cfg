SPECIFICATION Spec
CONSTANTS
    None = None
    Wildcard = "*"
    Method = {"GET", "DELETE"}
    Definitions <- MCDefinitions
    Fixture <- MCFixture
    Rank <- MCRank
    Name <- MCName
    Generated <- ResponseOf
    Root <- ConfigRoot
    Expand <- ConfigExpand
INVARIANTS DeclaredExpansionsServed
