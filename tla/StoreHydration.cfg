SPECIFICATION Spec
CONSTANTS
    alice = alice
    bob = bob
    m1 = m1
    m2 = m2
    Clients = {alice}
    KeyOf <- MCKeyOf
    Metadata = {m1, m2}
    FirstInfos <- BothInfos
    FirstAmount = 3
    FirstMemos = {"full", "truncated"}
    OtherMoves = {"write", "grant"}
    OtherMemos = {"full", "truncated"}
    ForeignSpends <- MCForeignSpends
    MaxBuilt = 2
    MaxConfirmed = 2
CHECK_DEADLOCK FALSE
INVARIANTS
    TypeOK
    HeldStoreMatchesItsCoin
    FreshStoreIsSpendable
