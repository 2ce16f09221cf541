\* Two devices and two receipts, drawn by one device or by both.
SPECIFICATION Spec
CONSTANTS
    Devices = {d1, d2}
    Receipts = {r1, r2}
    Albums = {a1}
    Slots = {s1, s2}
    None = None
SYMMETRY DeletionSymmetry
\* An account that is gone and a device that is wiped have nothing left to do.
CHECK_DEADLOCK FALSE
INVARIANTS
    TypeOK
    WipedOnlyIfAccepted
    AcceptedNotStranded
    PlanCovers
PROPERTIES
    KeepsPromise
