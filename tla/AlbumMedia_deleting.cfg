SPECIFICATION MediaSpec
CONSTANTS
    Users = {u1}
    MaxEpoch = 0
    MaxAlbumMembers = 2
    MaxInflight = 0
    MediaIds = {m1}
    Assets = {"blob"}
    Data = {d1}
    NoData = NoData
    MaxRes = 1
    MaxRequests = 1
\* An album that is gone, or a spent bound, may leave nothing to do.
CHECK_DEADLOCK FALSE
PROPERTIES
    DeletingPublishesNothing
