\* The smallest instance in which a rotation can arrive late.
SPECIFICATION SidedSpec
CONSTANTS
    Fetchers = {}
    Boot = 1
    Target = 1
    Low = 1
    Period = 2
    Skew = 2
    Ahead = 1
    MaxNow = 2
    MaxGen = 1
    MaxSpk = 2
    MaxIdx = 0
    MaxCalls = 1
\* Spent bounds leave nothing to do.
CHECK_DEADLOCK FALSE
INVARIANTS
    AcceptedAddressable
