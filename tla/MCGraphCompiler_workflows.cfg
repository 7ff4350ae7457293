CONSTANTS
    Shapes <- MCShapes
    MaxEdges = 5
    Canvases <- MCCanvases
    None = None
SPECIFICATION FairSpec
INVARIANTS
    MachineIsWellFormed
    MachineFollowsTheGraph
    SimpleGraphsRunWhole
CHECK_DEADLOCK FALSE
PROPERTIES
    CompilerEnds
