SPECIFICATION Spec
CONSTANTS
    alice = alice
    bob = bob
    m1 = m1
    m2 = m2
    Clients = {alice, bob}
    KeyOf <- MCKeyOf
    Metadata = {m1, m2}
    FirstInfos <- PlainOnly
    FirstAmount = 1
    FirstMemos = {"full"}
    OtherMoves = {"transfer"}
    OtherMemos = {"none"}
    ForeignSpends = {}
    MaxBuilt = 1
    MaxConfirmed = 2
CHECK_DEADLOCK FALSE
PROPERTIES
    UpdatePreservesIdentity
