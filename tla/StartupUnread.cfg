CONSTANTS
    Configs = {"base", "flags"}
    Shapes <- MCShapes
    Uplinks <- MCUplinks
    FrontCount = 2
    Slots <- MCSlots
    Flows = {1, 2}
    MapIds = {1, 2, 3, 4, 5}
    MaxMishaps = 2
    SeedNodes = {"n1", "n2"}
    Seeds = {1, 2, 3, 4, 5, 6}
    Node = "n1"
    Peer = "n2"
    Base = "base"
    Followed = 1
SPECIFICATION Spec
INVARIANT WholeThoughUnread
CHECK_DEADLOCK FALSE
