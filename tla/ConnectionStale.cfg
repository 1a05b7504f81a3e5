CONSTANTS
    Size = 3
    r1 = r1
    r2 = r2
    Remotes <- MCRemotes
    NoConn = NoConn
    None = None
    Numbers <- MCNumbers
SPECIFICATION Spec
INVARIANT SentToAnnounced
SYMMETRY MCSymmetry
