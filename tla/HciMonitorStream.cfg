CONSTANTS
  Cli = Cli
  Rx = Rx
  None = None
  t1 = t1
  t2 = t2
  v1 = v1
  v2 = v2
  Timers <- MCTimers
  Viewers <- MCOneViewer
  ExitKinds = {"exit0", "exitErr"}
  MaxCallbacks = 1
SPECIFICATION Spec
INVARIANT StreamWellFormed
SYMMETRY MCSymmetry
