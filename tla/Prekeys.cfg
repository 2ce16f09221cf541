SPECIFICATION SidedSpec
CONSTANTS
    Fetchers = {f1, f2}
    Boot = 1
    Target = 2
    Low = 1
    Period = 2
    Skew = 2
    Ahead = 1
    MaxNow = 3
    MaxGen = 2
    MaxSpk = 4
    MaxIdx = 2
    MaxCalls = 2
SYMMETRY FetcherSymmetry
\* Spent bounds leave nothing to do.
CHECK_DEADLOCK FALSE
INVARIANTS
    TypeOK
    OpkGivenOnce
    AdvertisedWorks
    SettledAgrees
PROPERTIES
    KeepsDirectory
