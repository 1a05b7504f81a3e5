CONSTANTS
    Sections <- MCSections
    Top = 5
    Vals = {0, 1, 2, 3, 4}
    Wnd = 1
    MaxLen = 2
    None = None
SPECIFICATION Spec
INVARIANT ReadsChecked
