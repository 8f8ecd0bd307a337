SPECIFICATION Spec
CONSTANTS
    MaxCcalls = 2
    Slack = 2
    MaxDepth = 4
INVARIANTS
    NothingRunsAfterError
