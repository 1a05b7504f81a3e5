CONSTANTS
    Sections <- MCSections
    MaxAddr = 11
    MaxLen = 3
SPECIFICATION Spec
INVARIANT AcceptsEveryContained
