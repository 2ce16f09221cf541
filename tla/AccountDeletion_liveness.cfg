\* One device, one receipt; no symmetry, since a leads-to is checked.
SPECIFICATION FairSpec
CONSTANTS
    Devices = {d1}
    Receipts = {r1}
    Albums = {a1}
    Slots = {s1, s2}
    None = None
CHECK_DEADLOCK FALSE
PROPERTIES
    AcceptedIsWiped
