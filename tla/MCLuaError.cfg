SPECIFICATION FairSpec
CONSTANTS
    MaxCcalls = 2
    Slack = 2
    MaxDepth = 5
INVARIANTS
    HandlerChain
    PendingIsInnermost
    CheckedCodeStops
PROPERTIES
    ProtectedCallRestores
    ErrorIsDelivered
    ImplementsLongJump
