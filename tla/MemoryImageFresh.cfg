CONSTANTS
    Layout <- MCLayout
    Chips = {c1, c2}
    MaxEpoch = 3
    Crashes = TRUE
    DiskFull = TRUE
    None = None
    Absent = Absent
SPECIFICATION Spec
INVARIANT FreshWhenAsked
PROPERTY ImageNeverOlder
