SPECIFICATION Spec
CONSTANTS
    MinPoints = 3
    Grid <- MCGrid
    Probes <- MCProbes
    MaxLine = 5
    MaxPoints = 4
    Tolerance = 1
    MinReach = 1
    MaxReach = 2
    Turn = 8
    ArcStep = 2
    Cones = {0, 1, 2}
    MaxPulls = 3
INVARIANTS WithinTolerance AcceptedIsSimple GrabKeepsArea GoesRoundOnce
PROPERTIES ThinningEnds 
CHECK_DEADLOCK FALSE
