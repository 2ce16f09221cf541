\* Avatars: two uploads' ids, one of them reserved again with the same or other
\* bytes.  Photos: one account, two photos, two contents, two reservations.
SPECIFICATION SidedSpec
CONSTANTS
    Members = {p1}
    AvatarIds = {a1, a2}
    ReusedIds = {a2}
    MaxKeys = 3
    Users = {u1}
    MaxEpoch = 0
    MaxAlbumMembers = 2
    MaxInflight = 0
    MediaIds = {m1, m2}
    FirstPhoto = m1
    Assets = {"blob"}
    MaxRes = 2
    Data = {d1, d2}
    NoData = NoData
    MaxRequests = 2
SYMMETRY DataSymmetry
\* Spent bounds leave nothing to do.
CHECK_DEADLOCK FALSE
INVARIANTS
    UploadTypeOK
    KeysAccounted
    ShownStored
    ConfirmedStored
    SweptStaysClean
