CONSTANTS
    Imports = {i1, i2, i3}
    Skills = {1, 2, 3}
    Requests <- MCRequests
    MinRuns = 1
    MinRate = 200000
    MinLift = 500000
    Window = 5
    None = None

SYMMETRY MCSymmetry
SPECIFICATION Spec

INVARIANT EdgesFollowWindow
CHECK_DEADLOCK FALSE
