SPECIFICATION PartsSpec
CONSTANTS
    wheat = wheat
    silver = silver
    Order <- MCOrder
    Period <- MCPeriod
    Rows = 2
    Lats = {3, 7, 10}
    Start = 7
    MAX_ISLANDS = 10
    Marks = 4
    ScreenSizes = {portrait, landscape}
    LayoutInTime = TRUE
    NoSize = NoSize
    Unset = Unset
    MainThread = main
    Co = {co1, co2}
    BoundaryYields = FALSE
    MaxCcalls = 4
    Slack = 2
    MaxFrames = 3
    N = 4
    MaxActive = 3
    Values <- MCValues
    MaxRef = 5
    MaxObj = 4
    MaxThreads = 2
    MaxStack = 2
    SweepMax = 3
    Key <- MCKey
    MaxInt = 4
    TableSizes = {0, 2}
    Lasts = {3}
    BufferSize = 3
    Limit = 4
    Lengths = {0, 1, 2, 4, 7}
    MaxText = 22
    Keys = {1, 2, 3}
    MaxLen = 6
INVARIANTS OneCentre FixShowsItsIslands MatchIsPreferred GsubSplices LexAsWritten
           BufferHoldsText ListsKept RefsFindTheirValues RehashLeavesRoom LenIsBoundary
           CountIsDepth FinalizedOnce HooksBack UpvalsAreSafe
PROPERTIES RedrawSettles ImplementsMap ResumedWasWaiting CloseEnds
CHECK_DEADLOCK FALSE
