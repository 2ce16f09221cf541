SPECIFICATION SidedSpec
CONSTANTS
    Verifiers = {v1, v2}
    Phones = {p1}
    MaxAttempts = 2
    MaxRequests = 2
    SessionTTL = 1
    Window = 1
    MaxDay = 2
    MaxCodes = 2
    MaxWindows = 2
    MaxAccounts = 2
    Outbox = 1
    MaxGen = 2
    MaxJoins = 1
    MaxReplies = 2
    MaxReports = 2
SYMMETRY VerifierSymmetry
\* Spent bounds leave nothing to do.
CHECK_DEADLOCK FALSE
INVARIANTS
    DeviceTypeOK
    GuessBudget
    OneAccount
    ExpiryHonest
    NewestSavedLast
    ReportsKept
    OursNeverWiped
PROPERTIES
    KeepsSignInPromise
    DeletedShutOut
    DiscardsDeadOnly
    ShelfForward
