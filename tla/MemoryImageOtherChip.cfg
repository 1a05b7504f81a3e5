CONSTANTS
    Layout <- MCLayout
    Chips = {c1, c2}
    MaxEpoch = 1
    Crashes = FALSE
    DiskFull = FALSE
    None = None
    Absent = Absent
SPECIFICATION Spec
INVARIANT ImageOfTarget
