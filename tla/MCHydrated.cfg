SPECIFICATION Spec
CONSTANTS
    None = None
    Absent = "absent"
    Undecodable = "undecodable"
    Malformed = Malformed
    Empty = ""
    MaxSliceSize = 2
    Reads <- MCReads
    IndexOf <- MCIndexOf
    Rank <- MCRank
    Schema <- HydratedBody
    Parameters <- MCParameters
    ResponseSchema <- HydratedSchema
    Fixture <- HydratedFixture
    Request <- HydratedRequest
INVARIANT HydratedObjectsKept
