SPECIFICATION Spec
CONSTANTS
    None = None
    Absent = "absent"
    Undecodable = "undecodable"
    Malformed = Malformed
    Empty = ""
    MaxSliceSize = 2
    Reads <- MCReads
    IndexOf <- MCIndexOf
    Rank <- MCRank
    Schema <- MCSchema
    Parameters <- MCParameters
    ResponseSchema <- MCResponseSchema
    Fixture <- MCFixture
    Request <- MCRequest
INVARIANTS TypeOK RoundTrip UnderstoodAlike CoercionKeepsContent SlicesBounded ReflectsParameters
