CONSTANTS
    Nodes = 5
    PossibleEdges <- UpgradesAndCycles
SPECIFICATION Spec
INVARIANTS
    PathIsShortest
    PathIsNewest
PROPERTY Termination
