CONSTANTS
    Layout <- MCLayout
    Chips = {c1}
    MaxEpoch = 1
    Crashes = TRUE
    DiskFull = FALSE
    None = None
    Absent = Absent
SPECIFICATION Spec
INVARIANT ImageOfTarget
