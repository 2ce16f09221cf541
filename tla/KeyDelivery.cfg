\* The phone of the admin or of the member it invites, one epoch beyond the
\* first, two requests of the phone on their way, one lost thing.
SPECIFICATION FoundedSpec
CONSTANTS
    Users = {u1, u2}
    Founder = u1
    MaxEpoch = 1
    MaxAlbumMembers = 2
    MaxInflight = 1
    MaxTries = 2
    MaxCalls = 2
    MaxEvents = 1
    MaxFaults = 1
\* An album that is gone may leave nothing to do.
CHECK_DEADLOCK FALSE
INVARIANTS
    DeliveryTypeOK
    KeysAgree
PROPERTIES
    KeysArrive
    DebtPaid
