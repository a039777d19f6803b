SPECIFICATION Spec
CONSTANTS
    None = None
    Wildcard = "*"
    Method = {"GET", "DELETE"}
    Definitions <- MCDefinitions
    Fixture <- MCFixture
    Rank <- MCRank
    Name <- MCName
    Generated <- ResponseOf
    Root <- MCRoot
    Expand <- MCExpand
INVARIANTS TypeOK LevelIsPrefixTree ExpansionsAreLocal DeclaredExpansionsServed
