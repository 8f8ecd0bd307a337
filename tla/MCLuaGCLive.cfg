SPECIFICATION FairSpec
CONSTANTS
    Main = Main
    Registry = Registry
    a = a
    b = b
    c = c
    Obj = {Main, Registry, a, b}
    Kinds = {"table", "userdata"}
    Modes = {"strong"}
    SweepMax = 1
    MaxBasic = 0
    MaxRefs = 1
    MaxStack = 1
PROPERTY GarbageIsCollected
