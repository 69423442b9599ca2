SPECIFICATION Spec
CONSTANTS
    k1 = k1
    k2 = k2
    Keys = {k1, k2}
    Kinds = {"file"}
    U64Max = 7
    Fees = {0, 2, 6, 7}
    Funding <- MCFunding
    MaxMints = 2
    Networks = {"mainnet", "testnet11"}
    ThisNetwork = "testnet11"
CHECK_DEADLOCK FALSE
INVARIANTS
    WalletTypeOK
    BuiltMintIsLaunchable
    OnlySignedMintsConfirm
    OnlyFeesAreLost
