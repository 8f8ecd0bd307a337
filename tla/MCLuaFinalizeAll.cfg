SPECIFICATION Spec
CONSTANTS
    N = 3
    MaxActive = 2
INVARIANTS AllFinalizersCalled
CHECK_DEADLOCK FALSE
