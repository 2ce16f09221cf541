\* Four accounts, three epochs, room for three members at a time, two
\* RemoveMember requests in flight; the founder and one other may delete
\* their accounts.
SPECIFICATION FoundedSpec
CONSTANTS
    Users = {u1, u2, u3, u4}
    Founder = u1
    Deleters = {u1, u2}
    MaxEpoch = 2
    MaxAlbumMembers = 3
    MaxInflight = 2
\* An album whose accounts are all gone has nothing left to do.
CHECK_DEADLOCK FALSE
INVARIANTS
    TypeOK
    FreezeSound
    HistoryReadable
    RosterSound
PROPERTIES
    SharedLossConfirmed
    DeletionCompletes
