SPECIFICATION Spec
CONSTANTS
    o1 = o1
    o2 = o2
    Owners = {o1, o2}
    ParentAmount = 1
    FunderAmount = 1000
    Kinds = {"file"}
    ParentPuzzles <- OrdinaryParent
    Shapes <- OrphanShapes
    ThreadedForms = {"direct", "orphan"}
    MaxCalls = 2
CHECK_DEADLOCK FALSE
INVARIANTS
    NoUnlaunchableSuccess
