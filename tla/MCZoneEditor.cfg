SPECIFICATION Spec
CONSTANTS
    MinPoints = 3
    Places = {here, there}
    Start = here
    RadiusStep = 2
    MaxRadius = 4
    NewRadius = 2
    DrawnRadii = {1, 5}
    MaxPulls = 2
    MaxCorners = 4
    MaxPieces = 2
    MaxPiece = 3
INVARIANTS HoldIsFresh CircleMatches NothingOutlives
PROPERTIES DragMovesOnlyNew
CONSTRAINT Simple
