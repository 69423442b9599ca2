---------------------------- MODULE StoreCoins ----------------------------
(***************************************************************************)
(* A DataLayer store as the crate handles it: the Datastore value (its     *)
(* coin, lineage proof and info), the puzzle its coin commits to, and what *)
(* a spend of that coin does.  Pure definitions: hydrate.rs, lineage.rs    *)
(* and the SDK's Datastore, as update.rs and melt.rs use it.               *)
(*                                                                         *)
(* Metadata is one value, replaced whole.  A delegation set is a set of    *)
(* delegated puzzles (writers and oracles; an admin's rights over the set  *)
(* are the owner's "grant"); the empty one means no delegation layer.      *)
(***************************************************************************)
EXTENDS ChiaCoins

P2Hash(key) == TreeHash(Curried("standard", <<key>>))

Info(launcherId, metadata, owner, delegated) ==
    [launcherId |-> launcherId, metadata |-> metadata,
     owner |-> owner, delegated |-> delegated]

Datastore(coin, proof, info) == [coin |-> coin, proof |-> proof, info |-> info]

EveProof(parentParent, amount) == [parentParent |-> parentParent, amount |-> amount]

LineageProof(parentParent, inner, amount) ==
    [parentParent |-> parentParent, inner |-> inner, amount |-> amount]

(* DelegatedPuzzle: a writer's key, or an oracle and the fee it takes.     *)
Writer(key)     == [kind |-> "writer", key |-> key]
Oracle(ph, fee) == [kind |-> "oracle", ph |-> ph, fee |-> fee]

(* A Datastore's info: an owner is a standard puzzle's hash.               *)
IsDelegatedPuzzle(p) ==
    p = IF p.kind = "writer" THEN Writer(p.key) ELSE Oracle(p.ph, p.fee)

IsStoreInfo(info) ==
    /\ info = Info(info.launcherId, info.metadata, info.owner, info.delegated)
    /\ info.owner = P2Hash(info.owner[2].args[1])
    /\ \A p \in info.delegated : IsDelegatedPuzzle(p)
-----------------------------------------------------------------------------
(* The puzzle under the state layer: the delegation layer if there is a    *)
(* delegation set, else the bare owner puzzle.                             *)
Layer(info) ==
    IF info.delegated = {} THEN info.owner
    ELSE TreeHash(Curried("delegation", <<info.launcherId, info.owner, info.delegated>>))

StateLayerHash(metadata, updater, layer) ==
    TreeHash(Curried("nft_state", <<metadata, updater, layer>>))

DL_UPDATER  == "dl_metadata_updater"
NFT_UPDATER == "nft_metadata_updater_default"

SingletonPh(launcherId, inner) == TreeHash(Curried("datastore", <<launcherId, inner>>))

(* The puzzle hash of a store coin with this info.                         *)
StorePh(info) ==
    SingletonPh(info.launcherId, StateLayerHash(info.metadata, DL_UPDATER, Layer(info)))

(* What a store coin commits to, read back out of its puzzle hash.         *)
CommittedInfo(coin) ==
    LET singleton == coin.ph[2].args
        state     == singleton[2][2].args
        layer     == state[3]
    IN IF layer[2].mod = "delegation"
         THEN Info(singleton[1], state[1], layer[2].args[2], layer[2].args[3])
         ELSE Info(singleton[1], state[1], layer, {})
-----------------------------------------------------------------------------
(* What a store's inner puzzle can be made to do.  A recreation names the  *)
(* new layer by its hash; its memos may tell what is behind the hash.      *)
Recreate(metadata, layer, memos) ==
    [form |-> "recreate", metadata |-> metadata, layer |-> layer, memos |-> memos]
Melting == [form |-> "melt"]
Launching(info, amount, memos) ==
    [form |-> "launch", storePh |-> StorePh(info), amount |-> amount,
     metadata |-> info.metadata, memos |-> memos]

(* The memos a recreation or a launch may carry.  A fee is written as a    *)
(* minimal integer: the zero fee is the empty byte string.  "truncated":   *)
(* they name an oracle and stop before its fee.                            *)
FeeMemo(fee) == IF fee = 0 THEN <<>> ELSE <<fee>>
DelegatedMemo(puzzle) ==
    IF puzzle.kind = "oracle" THEN [puzzle EXCEPT !.fee = FeeMemo(puzzle.fee)] ELSE puzzle

NoMemos == [form |-> "none"]
TruncatedMemos == [form |-> "truncated"]
RecreationMemos(owner, delegated) ==
    [form |-> "full", owner |-> owner, delegated |-> {DelegatedMemo(p) : p \in delegated}]

(* DelegatedPuzzle::from_memos, the empty fee memo being a zero fee.       *)
FeeOf(memo) == IF memo = <<>> THEN 0 ELSE memo[1]
DelegatedFromMemos(memos) ==
    {IF p.kind = "oracle" THEN [p EXCEPT !.fee = FeeOf(p.fee)] ELSE p : p \in memos.delegated}

(* A spend of a store coin.  reveal is the Info its puzzle reveal carries; *)
(* of its delegation set a parser sees only the merkle root.  A launcher's *)
(* reveal is the launcher puzzle; it launches a store at storePh.          *)
StoreSpend(coin, reveal, proof, key, does) ==
    [coin |-> coin, reveal |-> reveal, proof |-> proof, key |-> key, does |-> does]

RevealHash(reveal) ==
    IF reveal \in {LauncherPuzzle, OrdinaryPuzzle} THEN TreeHash(reveal) ELSE StorePh(reveal)

(* The odd coin a recreation makes - of one mojo, whatever its parent is   *)
(* worth - and the lineage proof it must carry.                            *)
ChildCoin(spend) ==
    Coin(CoinId(spend.coin),
         SingletonPh(spend.reveal.launcherId,
                     StateLayerHash(spend.does.metadata, DL_UPDATER, spend.does.layer)),
         1)

ChildProof(spend) ==
    LineageProof(spend.coin.parent,
                 StateLayerHash(spend.reveal.metadata, DL_UPDATER, Layer(spend.reveal)),
                 spend.coin.amount)

(* What memos tell, if they are not cut off: owner and delegation set.     *)
ReadMemos(memos) ==
    IF memos.form = "truncated" THEN [is |-> "missing_memo"]
    ELSE [is |-> "ok", owner |-> memos.owner, delegated |-> DelegatedFromMemos(memos)]

(* Datastore::from_spend.  A launcher's solution always carries memos.  A  *)
(* recreation's, when there are any, tell the owner and the delegation     *)
(* set; otherwise the owner is re-derived from the PARENT's puzzle, and a  *)
(* layer recreated as it was keeps the delegation set the caller supplies  *)
(* (update.rs:173-181).                                                    *)
FromSpend(spend, parentDelegated) ==
    LET does     == spend.does
        launched == spend.coin.ph = LauncherPh
        asItWas  == IF spend.reveal.delegated = {} THEN {} ELSE parentDelegated
        told     == IF launched \/ does.memos.form # "none" THEN ReadMemos(does.memos)
                    ELSE [is |-> "ok", owner |-> spend.reveal.owner,
                          delegated |-> IF does.layer = Layer(spend.reveal) THEN asItWas ELSE {}]
        eve(info)   == Datastore(Coin(CoinId(spend.coin), does.storePh, does.amount),
                                 EveProof(spend.coin.parent, spend.coin.amount), info)
        child(info) == Datastore(ChildCoin(spend), ChildProof(spend), info)
    IN IF launched # (does.form = "launch") \/ spend.reveal = OrdinaryPuzzle
         THEN [is |-> "not_datastore"]
       ELSE IF does.form = "melt" THEN [is |-> "missing_child"]
       ELSE IF told.is # "ok"     THEN told
       ELSE [is |-> "ok",
             store |-> IF launched
                         THEN eve(Info(CoinId(spend.coin), does.metadata,
                                       told.owner, told.delegated))
                         ELSE child(Info(spend.reveal.launcherId, does.metadata,
                                         told.owner, told.delegated))]

(* Datastore::spend: the puzzle it reveals.  Without a delegation layer    *)
(* the owner's own p2 puzzle is in it.                                     *)
Revealed(store, key) ==
    IF store.info.delegated = {} THEN [store.info EXCEPT !.owner = P2Hash(key)]
    ELSE store.info
-----------------------------------------------------------------------------
(* hydrate.rs                                                              *)

(* Mutant: a reveal is not compared with its coin.                         *)
RequireNothing(spend) == TRUE

(* require_reveal_matches_coin                                             *)
RevealMatchesCoin(spend) == RevealHash(spend.reveal) = spend.coin.ph

(* Mutant: the SDK's internal error variants leak.                         *)
HydrateUnmapped(spend) ==
    IF ~ RevealMatchesCoin(spend) THEN [is |-> "chain"] ELSE FromSpend(spend, {})

(* hydrate: it supplies no delegated puzzles to the SDK.                   *)
Hydrate(spend) ==
    IF ~ RevealMatchesCoin(spend) THEN [is |-> "chain"]
    ELSE LET parsed == FromSpend(spend, {})
         IN CASE parsed.is = "missing_child" -> [is |-> "missing_lineage"]
              [] parsed.is = "missing_memo"  -> [is |-> "missing_hint"]
              [] OTHER                       -> parsed
-----------------------------------------------------------------------------
(* lineage.rs                                                              *)

(* Mutant: the SDK's own inner_puzzle_hash, with the default updater.      *)
ParentInnerPuzzleHashOfSdk(store) ==
    StateLayerHash(store.info.metadata, NFT_UPDATER, Layer(store.info))

(* parent_inner_puzzle_hash                                                *)
ParentInnerPuzzleHash(store) ==
    StateLayerHash(store.info.metadata, DL_UPDATER, Layer(store.info))

ChildLineageProof(store) ==
    LineageProof(store.coin.parent, ParentInnerPuzzleHash(store), store.coin.amount)
=============================================================================
