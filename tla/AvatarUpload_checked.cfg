SPECIFICATION Spec
CONSTANTS
    Members = {p1}
    AvatarIds = {a1, a2}
    Data = {d1, d2}
    NoData = NoData
    ReusedIds = {a1, a2}
    MaxKeys = 2
    MaxRequests = 2
SYMMETRY IdDataSymmetry
\* Spent bounds leave nothing to do.
CHECK_DEADLOCK FALSE
PROPERTIES
    CheckedBeforeShown
