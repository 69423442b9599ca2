-------------------------- MODULE MCLaunchSession --------------------------
(* Small instances of LaunchSession for TLC.                               *)
EXTENDS LaunchSession, TLC

CONSTANTS o1, o2

Shape(form, amount, singleton, number) ==
    [form |-> form, amount |-> amount, singleton |-> singleton, number |-> number]

Direct(amount)       == Shape("direct", amount, amount, 0)
Intermediate(number) == Shape("intermediate", 1, 1, number)

BothParents == {OrdinaryPuzzle, DidPuzzle("d1")}
OrdinaryParent == {OrdinaryPuzzle}

(* Legal launchers of either kind and the ones the legality check is for:  *)
(* an even launcher, an odd one minting an even store, a zero one minting  *)
(* an odd store, a coin at another puzzle hash.                            *)
MCShapes ==
    {Direct(1), Direct(3), Direct(2), Shape("direct", 1, 2, 0), Shape("direct", 0, 1, 0),
     Shape("foreign", 1, 1, 0), Intermediate(0), Intermediate(1),
     Shape("orphan", 1, 1, 0), Shape("bare", 1, 1, 0)}

MemoShapes == {Direct(1), Direct(3), Intermediate(0)}

OrphanShapes == {Direct(1), Shape("orphan", 1, 1, 0)}

OwnerSymmetry == Permutations({o1, o2})
=============================================================================
