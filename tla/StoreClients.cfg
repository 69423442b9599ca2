SPECIFICATION Spec
CONSTANTS
    alice = alice
    bob = bob
    m1 = m1
    m2 = m2
    Clients = {alice, bob}
    KeyOf <- MCKeyOf
    Metadata = {m1, m2}
    FirstInfos <- BothInfos
    FirstAmount = 1
    FirstMemos = {"full"}
    OtherMoves = {"transfer", "oracle"}
    OtherMemos = {"full"}
    ForeignSpends = {}
    MaxBuilt = 2
    MaxConfirmed = 2
CHECK_DEADLOCK FALSE
INVARIANTS
    MeltIsForTheOwner
PROPERTIES
    UpdatePreservesIdentity
    ClientsCompareAndSwap
