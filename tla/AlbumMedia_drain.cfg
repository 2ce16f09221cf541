SPECIFICATION FairMediaSpec
CONSTANTS
    Users = {u1}
    MaxEpoch = 0
    MaxAlbumMembers = 2
    MaxInflight = 0
    MediaIds = {m1}
    Assets = {"blob", "thumb"}
    Data = {d1, d2}
    NoData = NoData
    MaxRes = 1
    MaxRequests = 2
\* An album that is gone, or a spent bound, may leave nothing to do.
CHECK_DEADLOCK FALSE
INVARIANTS
    ConfirmedStored
PROPERTIES
    QueueDrains
