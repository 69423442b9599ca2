SPECIFICATION Spec
CONSTANTS
    o1 = o1
    o2 = o2
    Owners = {o1, o2}
    ParentAmount = 1
    FunderAmount = 1000
    Kinds = {"file", "did_profile"}
    ParentPuzzles <- BothParents
    Shapes <- MCShapes
    ThreadedForms = {"direct"}
    MaxCalls = 3
CHECK_DEADLOCK FALSE
INVARIANTS
    TypeOK
    NoFrozenStore
    SuccessIsLaunched
    MemosBelongToTheLaunch
PROPERTIES
    RefusalIsAtomic
