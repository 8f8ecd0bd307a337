SPECIFICATION Spec
CONSTANTS
    Main = Main
    Registry = Registry
    a = a
    b = b
    c = c
    Obj = {Main, Registry, a, b}
    Kinds = {"table", "function", "thread"}
    Modes = {"strong"}
    SweepMax = 1
    MaxBasic = 1
    MaxRefs = 2
    MaxStack = 2
SYMMETRY Sym
INVARIANTS UsableIsSafe OneListEach DeadAwaitSweep
