------------------------- MODULE MCStoreLifecycle -------------------------
(* Small instances of StoreLifecycle for TLC.                              *)
EXTENDS StoreLifecycle, TLC

CONSTANTS alice, bob, m1, m2

MCKeyOf == [c \in {alice, bob} |-> IF c = alice THEN "k1" ELSE "k2"]

StoreId == CoinId(LauncherCoin)

Plain     == Info(StoreId, m1, P2Hash("k1"), {})
Delegated == Info(StoreId, m1, P2Hash("k1"), {Writer("writer"), Oracle("oracle_ph", 0)})
BothInfos == {Plain, Delegated}
PlainOnly == {Plain}

(* Another store's recreation, and an ordinary spend.                      *)
OtherLauncher == Coin(Genesis, LauncherPh, 7)
OtherInfo == Info(CoinId(OtherLauncher), m2, P2Hash("k2"), {})
MCForeignSpends ==
    {StoreSpend(Coin(CoinId(OtherLauncher), StorePh(OtherInfo), 1), OtherInfo,
                EveProof(Genesis, 7), "k2", Recreate(m2, P2Hash("k2"), NoMemos)),
     StoreSpend(Coin(Genesis, TreeHash(OrdinaryPuzzle), 5), OrdinaryPuzzle,
                EveProof(Genesis, 1), "k2", [form |-> "other"])}
=============================================================================
