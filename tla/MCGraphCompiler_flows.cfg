CONSTANTS
    Shapes = {}
    MaxEdges = 0
    Canvases <- RoutedCanvases
    None = None
SPECIFICATION FairSpec
INVARIANTS
    FlowsRunWhole
CHECK_DEADLOCK FALSE
