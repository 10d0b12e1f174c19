SPECIFICATION Spec
CONSTANTS
    tap = tap
    swipe = swipe
    drag = drag
    None = None
    MaxActions = 2
    Shapes <- MCShapes
    ShapeOf <- MCShapeOf
    MaxScreen = 2
    MaxSessions = 2
    MaxApps = 2
    Samples = 1
    MaxLines = 1
    HostAhead = FALSE
CHECK_DEADLOCK FALSE
INVARIANTS
  ArmsAreHonest
PROPERTIES
  EveryArmSettles
