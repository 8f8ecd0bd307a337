SPECIFICATION Spec
CONSTANTS
    Main = Main
    Co = {a, b}
    BoundaryYields = TRUE
    MaxCcalls = 4
    Slack = 2
    MaxFrames = 2
PROPERTY ResumedWasWaiting
CHECK_DEADLOCK FALSE
