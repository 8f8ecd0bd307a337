SPECIFICATION Spec
CONSTANTS
    Main = Main
    Registry = Registry
    a = a
    b = b
    c = c
    Obj = {Main, Registry, a, b}
    Kinds = {"table", "userdata", "string"}
    Modes = {"strong", "k", "v"}
    SweepMax = 1
    MaxBasic = 0
    MaxRefs = 1
    MaxStack = 2
SYMMETRY Sym
INVARIANT UsableIsSafe
PROPERTY ImplementsHeap
