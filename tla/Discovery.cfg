SPECIFICATION Spec
CONSTANTS
    d1 = d1
    d2 = d2
    o1 = o1
    o2 = o2
    Dids = {d1, d2}
    Owners = {o1, o2}
    Routes = {"direct", "zero", "intermediate"}
    Parts = {"whole", "staged", "parent"}
    EvenAmounts = {0, 2}
    ForeignMemos <- MCForeignMemos
    MaxBlocks = 3
SYMMETRY Symmetry
CHECK_DEADLOCK FALSE
INVARIANTS
    TypeOK
    ScanMatchesLaunches
    WalkNamesTheLauncher
    LaunchIsAllOrNothing
    BothOnlyByZeroLauncher
