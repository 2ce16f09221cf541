SPECIFICATION MediaSpec
CONSTANTS
    Users = {u1, u2}
    MaxEpoch = 1
    MaxAlbumMembers = 2
    MaxInflight = 1
    MediaIds = {m1}
    Assets = {"blob"}
    Data = {d1}
    NoData = NoData
    MaxRes = 1
    MaxRequests = 2
SYMMETRY UserSymmetry
\* An album that is gone, or a spent bound, may leave nothing to do.
CHECK_DEADLOCK FALSE
INVARIANTS
    PublishedToMembersOnly
