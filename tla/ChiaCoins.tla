----------------------------- MODULE ChiaCoins -----------------------------
(***************************************************************************)
(* The vocabulary dig-merkle borrows from the Chia libraries: coins, coin  *)
(* ids, curried puzzles and tree hashes.                                   *)
(*                                                                         *)
(* sha256 is taken to be collision free, so a hash is a tagged constructor *)
(* around what it commits to.  Every comparison of two hashes in the code  *)
(* is a comparison of two such values here.                                *)
(***************************************************************************)
EXTENDS Integers

(* types.rs re-exports chia_protocol::Coin; ph is its puzzle_hash.         *)
Coin(parent, ph, amount) ==
    [parent |-> parent, ph |-> ph, amount |-> amount]

CoinId(c) == <<"coin_id", c>>

(* The parent id of a coin that predates everything modelled: the id of no *)
(* coin.                                                                   *)
Genesis == <<"genesis">>

(* A puzzle is a mod and the arguments curried into it.                    *)
Curried(mod, args) == [mod |-> mod, args |-> args]

TreeHash(p) == <<"tree_hash", p>>

LauncherPuzzle     == Curried("singleton_launcher", <<>>)
OrdinaryPuzzle     == Curried("standard", <<>>)
DidPuzzle(did)     == Curried("did", <<did>>)
(* NFT_INTERMEDIATE_LAUNCHER curried to the puzzle hash it will create and *)
(* to the mint number that tells one parent's intermediates apart.         *)
IntermediatePuzzle(launcherPh, number) ==
    Curried("nft_intermediate", <<launcherPh, number>>)

LauncherPh == TreeHash(LauncherPuzzle)

(* A puzzle whose singleton layer is not the canonical one: it cannot be   *)
(* spent, and the SDK's DID parser raises on it.                           *)
BadSingletonPuzzle == Curried("bad_singleton", <<>>)

(* Bytes that are no CLVM at all.                                          *)
GarbagePuzzle == Curried("garbage", <<>>)
=============================================================================
