---------------------------- MODULE MCOwnerWalk ----------------------------
(* Small instances of OwnerWalk for TLC.                                   *)
EXTENDS OwnerWalk, TLC

CONSTANTS d1, d2

Out(p, amount) == [ph |-> TreeHash(p), amount |-> amount]

(* A launcher, the recognised intermediate, the ordinary even coin of the  *)
(* memo-scannable chain, and a coin that only looks like a DID's.          *)
SmallOutputSpecs ==
    {Out(LauncherPuzzle, 1), Out(IntermediatePuzzle(LauncherPh, 1), 0),
     Out(OrdinaryPuzzle, 0), Out(DidPuzzle(d1), 1)}

(* Also an intermediate launcher at an amount the walk must not climb past.*)
MCOutputSpecs == SmallOutputSpecs \cup {Out(IntermediatePuzzle(LauncherPh, 1), 2)}

(* Coins a forging source invents: a launcher under a coin with a DID's    *)
(* puzzle hash, and one under an intermediate under such a coin.           *)
FakeDid(d) == Coin(CoinId(NoCoin), TreeHash(DidPuzzle(d)), 1)
FakeIntermediate(d) ==
    Coin(CoinId(FakeDid(d)), TreeHash(IntermediatePuzzle(LauncherPh, 1)), 0)
MCFabricated ==
    {FakeDid(d1), FakeIntermediate(d1),
     Coin(CoinId(FakeDid(d1)), LauncherPh, 1),
     Coin(CoinId(FakeIntermediate(d1)), LauncherPh, 1)}

DidSymmetry == Permutations({d1, d2})
=============================================================================
