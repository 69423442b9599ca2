-------------------------- MODULE StoreLifecycle ---------------------------
(***************************************************************************)
(* update.rs, melt.rs, hydrate.rs and lineage.rs at work on one store:     *)
(* clients hold Datastore values, fresh or stale, build unsigned spends    *)
(* from them, chain further spends onto children that are not confirmed    *)
(* yet, and hydrate from what a chain source gives them, while the store   *)
(* is also spent by other software.                                        *)
(***************************************************************************)
EXTENDS StoreCoins, FiniteSets

CONSTANTS
    Clients,
    KeyOf,          \* the key each client signs with
    Metadata,       \* values of DigDataStoreMetadata
    FirstInfos,     \* how the store may have been launched
    FirstAmount,    \* the amount it was launched with, odd
    FirstMemos,     \* with which memos: subset of {"full", "truncated"}
    OtherMoves,     \* what other software does: subset of
                    \* {"write", "oracle", "grant", "transfer"}
    OtherMemos,     \* with which memos: subset of {"none", "full", "truncated"}
    ForeignSpends,  \* spends of other coins a chain source may mix up with ours
    MaxBuilt,       \* bound: spends the clients build
    MaxConfirmed    \* bound: spends of the store on chain

VARIABLES
    tip,        \* the unspent store coins: one, or none once melted
    chain,      \* the confirmed spends
    author,     \* history: who made the tip, "client" or "other"
    built,      \* the spends the clients built: [spend, op, metadata, seen, key]
    held,       \* the Datastore each client holds, or Nothing
    result      \* what the last call returned

vars == <<tip, chain, author, built, held, result>>

Nothing == [coin |-> "nothing"]

ASSUME FirstAmountIsOdd == FirstAmount \in Nat /\ FirstAmount % 2 = 1

LauncherCoin == Coin(Genesis, LauncherPh, FirstAmount)

ASSUME FirstInfosAreOfThisStore ==
    \A info \in FirstInfos : IsStoreInfo(info) /\ info.launcherId = CoinId(LauncherCoin)

(* A recreation's memos, when it has them all, tell what is behind the new *)
(* layer's hash; one without any leaves an undelegated layer as it was.    *)
WellHinted(spend) ==
    LET does == spend.does
        told == Info(spend.reveal.launcherId, does.metadata, does.memos.owner,
                     DelegatedFromMemos(does.memos))
    IN \/ does.memos.form = "full" /\ IsStoreInfo(told) /\ does.layer = Layer(told)
       \/ does.memos.form = "none" /\ spend.reveal.delegated = {}
            /\ does.layer = Layer(spend.reveal)
       \/ does.memos.form = "truncated"

(* The coin spends a source may mix up with this store's: ordinary ones,   *)
(* and another store's melts and hinted recreations.                       *)
ASSUME ForeignSpendsAreForeign ==
    \A f \in ForeignSpends :
        /\ f = StoreSpend(f.coin, f.reveal, f.proof, f.key, f.does)
        /\ f.coin = Coin(f.coin.parent, f.coin.ph, f.coin.amount)
        /\ \/ f.reveal = OrdinaryPuzzle
           \/ /\ IsStoreInfo(f.reveal) /\ f.reveal.launcherId # CoinId(LauncherCoin)
              /\ StorePh(f.reveal) = f.coin.ph
              /\ f.does.form \in {"melt", "recreate"}
              /\ f.does.form = "recreate" => WellHinted(f)

(* mint.rs writes full memos; other software may have cut them off.        *)
LaunchSpend(info, memos) ==
    StoreSpend(LauncherCoin, LauncherPuzzle, EveProof(Genesis, FirstAmount), "none",
               Launching(info, FirstAmount,
                         IF memos = "truncated" THEN TruncatedMemos
                         ELSE RecreationMemos(info.owner, info.delegated)))

(* The store is on chain, launched as mint.rs launches it.                 *)
Init ==
    /\ \E info \in FirstInfos, memos \in FirstMemos :
         /\ chain = {LaunchSpend(info, memos)}
         /\ tip = {Coin(CoinId(LauncherCoin), StorePh(info), FirstAmount)}
    /\ author = "other"
    /\ built = {}
    /\ held = [c \in Clients |-> Nothing]
    /\ result = "none"
-----------------------------------------------------------------------------
(* update.rs                                                               *)

(* Mutant: the recreation forgets the delegation set.                      *)
RecreationForOwner(info, metadata) == Recreate(metadata, info.owner, NoMemos)

(* Mutant: the recreation anchors the metadata the store already had.      *)
RecreationUnchanged(info, metadata) ==
    Recreate(info.metadata, Layer(info),
             IF info.delegated = {} THEN NoMemos
             ELSE RecreationMemos(info.owner, info.delegated))

(* owner_create_coin_condition as update_root calls it: the same owner and *)
(* delegation set, hinted when there is one.                               *)
Recreation(info, metadata) ==
    Recreate(metadata, Layer(info),
             IF info.delegated = {} THEN NoMemos
             ELSE RecreationMemos(info.owner, info.delegated))

(* update_root; "custom" is Owner::Custom.  An SDK spend through a         *)
(* delegation layer fails for a key that is not the owner's.               *)
UpdateRoot(store, key, metadata) ==
    LET spend == StoreSpend(store.coin, Revealed(store, key), store.proof, key,
                            Recreation(store.info, metadata))
        child == FromSpend(spend, store.info.delegated)
    IN IF key = "custom" THEN [is |-> "unsupported_owner"]
       ELSE IF store.info.delegated # {} /\ P2Hash(key) # store.info.owner
         THEN [is |-> "driver"]
       ELSE [is |-> "ok", spend |-> spend, child |-> child.store]

(* melt.rs                                                                 *)

(* Mutant: authority is read off the coin's own layer.                     *)
CoinIsTheOwners(store, key) == P2Hash(key) = Layer(store.info)

(* gate_owner_controls_store                                               *)
OwnerControlsStore(store, key) == P2Hash(key) = store.info.owner

Melt(store, key) ==
    IF key = "custom" THEN [is |-> "unsupported_owner"]
    ELSE IF ~ OwnerControlsStore(store, key) THEN [is |-> "not_the_owner"]
    ELSE [is |-> "ok",
          spend |-> StoreSpend(store.coin, Revealed(store, key), store.proof, key, Melting)]
-----------------------------------------------------------------------------
(* The chain's rules for a store coin (external).                          *)
Owns(key, info) == P2Hash(key) = info.owner

MayWrite(key, info) == Writer(key) \in info.delegated

(* Anyone may spend the store through an oracle, as it is.                 *)
HasOracle(info) == \E p \in info.delegated : p.kind = "oracle"
ReadsOnly(spend) == HasOracle(spend.reveal) /\ spend.does.metadata = spend.reveal.metadata

ProofHolds(spend) ==
    LET parent == IF "inner" \in DOMAIN spend.proof
                    THEN Coin(spend.proof.parentParent,
                              SingletonPh(spend.reveal.launcherId, spend.proof.inner),
                              spend.proof.amount)
                    ELSE Coin(spend.proof.parentParent, LauncherPh, spend.proof.amount)
    IN spend.coin.parent = CoinId(parent)

Valid(spend) ==
    /\ spend.coin \in tip
    /\ RevealHash(spend.reveal) = spend.coin.ph
    /\ ProofHolds(spend)
    /\ \/ Owns(spend.key, spend.reveal)
       \/ /\ spend.does.form = "recreate" /\ spend.does.layer = Layer(spend.reveal)
          /\ MayWrite(spend.key, spend.reveal) \/ ReadsOnly(spend)

Apply(spend) ==
    /\ Cardinality(chain) <= MaxConfirmed
    /\ Valid(spend)
    /\ chain' = chain \cup {spend}
    /\ tip' = IF spend.does.form = "melt" THEN {} ELSE {ChildCoin(spend)}
-----------------------------------------------------------------------------
(* A client hydrates from a spend its source returns: a confirmed one, one *)
(* of the pool, or one whose coin is ours and whose content is not.        *)
Answers ==
    chain \cup {b.spend : b \in built} \cup ForeignSpends
        \cup {[f EXCEPT !.coin = s.coin] : f \in ForeignSpends, s \in chain}

ClientHydrates(c, spend) ==
    /\ result' = Hydrate(spend).is
    /\ held' = IF Hydrate(spend).is = "ok" THEN [held EXCEPT ![c] = Hydrate(spend).store]
               ELSE held
    /\ UNCHANGED <<tip, chain, author, built>>

(* A client updates the store it holds and, if it is the owner, may go on  *)
(* with the child: as returned, or with the proof child_lineage_proof      *)
(* derives for it.                                                         *)
ClientUpdates(c, key, metadata, goesOn) ==
    LET store == held[c]
        returned == UpdateRoot(store, key, metadata)
    IN /\ store # Nothing
       /\ Cardinality(built) < MaxBuilt
       /\ goesOn = "stay" \/ OwnerControlsStore(store, key)
       /\ result' = returned.is
       /\ IF returned.is # "ok" THEN UNCHANGED <<built, held>>
          ELSE /\ built' = built \cup {[spend |-> returned.spend, op |-> "update",
                                        metadata |-> metadata, seen |-> store.info, key |-> key]}
               /\ held' = CASE goesOn = "stay"  -> held
                            [] goesOn = "child" -> [held EXCEPT ![c] = returned.child]
                            [] goesOn = "proof" ->
                                 [held EXCEPT ![c] = Datastore(returned.child.coin,
                                                               ChildLineageProof(store),
                                                               returned.child.info)]
       /\ UNCHANGED <<tip, chain, author>>

ClientMelts(c, key) ==
    LET returned == Melt(held[c], key)
    IN /\ held[c] # Nothing
       /\ Cardinality(built) < MaxBuilt
       /\ result' = returned.is
       /\ built' = IF returned.is # "ok" THEN built
                   ELSE built \cup {[spend |-> returned.spend, op |-> "melt", metadata |-> "none",
                                      seen |-> held[c].info, key |-> key]}
       /\ UNCHANGED <<tip, chain, author, held>>

(* A spend a client built and signed is confirmed.                         *)
Confirm(entry) ==
    /\ Apply(entry.spend)
    /\ author' = "client"
    /\ UNCHANGED <<built, held, result>>

(* The proof a coin of the chain needs, as its creator's spend gives it.   *)
TrueProof(coin) ==
    LET creator == CHOOSE s \in chain : CoinId(s.coin) = coin.parent
    IN IF creator.coin = LauncherCoin THEN EveProof(Genesis, FirstAmount) ELSE ChildProof(creator)

Keys == {KeyOf[c] : c \in Clients}

(* Other software spends the store, with whatever memos it writes; who may *)
(* do what is the chain's to say.                                          *)
OtherSpend(coin, key, next, memos) ==
    StoreSpend(coin, CommittedInfo(coin), TrueProof(coin), key,
               Recreate(next.metadata, Layer(next),
                        CASE memos = "none"      -> NoMemos
                          [] memos = "truncated" -> TruncatedMemos
                          [] memos = "full"      ->
                               RecreationMemos(next.owner, next.delegated)))

OthersMake(coin, key, next, memos) ==
    /\ Apply(OtherSpend(coin, key, next, memos))
    /\ author' = "other"
    /\ UNCHANGED <<built, held, result>>

OthersWrite(coin, key, metadata, memos) ==
    OthersMake(coin, key, [CommittedInfo(coin) EXCEPT !.metadata = metadata], memos)

OthersRead(coin, memos) == OthersMake(coin, "anyone", CommittedInfo(coin), memos)

OthersGrant(coin, key, delegated, memos) ==
    OthersMake(coin, key, [CommittedInfo(coin) EXCEPT !.delegated = delegated], memos)

OthersTransfer(coin, key, owner, memos) ==
    OthersMake(coin, key, [CommittedInfo(coin) EXCEPT !.owner = P2Hash(owner)], memos)

DelegationSets == {info.delegated : info \in FirstInfos}
WriterKeys == {p.key : p \in {q \in UNION DelegationSets : q.kind = "writer"}}

Next ==
    \/ \E c \in Clients, spend \in Answers : ClientHydrates(c, spend)
    \/ \E c \in Clients, metadata \in Metadata, goesOn \in {"stay", "child", "proof"} :
         ClientUpdates(c, KeyOf[c], metadata, goesOn)
    \/ \E c \in Clients : ClientMelts(c, KeyOf[c])
    \/ \E entry \in built : Confirm(entry)
    \/ \E coin \in tip, memos \in OtherMemos :
         \/ /\ "write" \in OtherMoves
            /\ \E key \in Keys \cup WriterKeys, metadata \in Metadata :
                 OthersWrite(coin, key, metadata, memos)
         \/ /\ "oracle" \in OtherMoves
            /\ OthersRead(coin, memos)
         \/ /\ "grant" \in OtherMoves
            /\ \E key \in Keys, delegated \in DelegationSets :
                 OthersGrant(coin, key, delegated, memos)
         \/ /\ "transfer" \in OtherMoves
            /\ \E key, owner \in Keys : OthersTransfer(coin, key, owner, memos)

Spec == Init /\ [][Next]_vars
-----------------------------------------------------------------------------
HeldStores == {held[c] : c \in Clients} \ {Nothing}

(* One coin at most is the store, and every spend on chain but the first   *)
(* continues another.                                                      *)
TypeOK ==
    /\ Cardinality(tip) <= 1
    /\ \A coin \in tip : \E s \in chain : coin.parent = CoinId(s.coin)
    /\ \A s \in chain : s.coin = LauncherCoin \/ \E t \in chain : s.coin.parent = CoinId(t.coin)
    /\ \A b \in built : b.op \in {"update", "melt"} /\ b.spend.does.form \in {"recreate", "melt"}
    /\ \A store \in HeldStores : store.coin.amount % 2 = 1
    /\ result \in {"none", "ok", "driver", "chain", "not_datastore", "missing_lineage",
                   "missing_hint", "unsupported_owner", "not_the_owner"}

(* hydrate.rs:23-30, 47-62; lineage.rs:16-33; update.rs:22-28.  The store  *)
(* a client holds - hydrated, returned by an update, or given a derived    *)
(* proof - is the one its coin commits to, and a coin that descends from   *)
(* this store is never held as another's.                                  *)
HeldStoreMatchesItsCoin ==
    \A store \in HeldStores :
        /\ StorePh(store.info) = store.coin.ph
        /\ store.coin.parent \in {CoinId(s.coin) : s \in chain} =>
             store.info.launcherId = CoinId(LauncherCoin)

(* update.rs:22-39, lineage.rs:16-33.  As long as the coin a client holds  *)
(* is unspent, its owner can update it: whatever path the Datastore came   *)
(* along, the spend built from it is one the chain accepts, and the child  *)
(* is the coin that spend makes.                                           *)
FreshStoreIsSpendable ==
    \A c \in Clients :
        held[c] # Nothing /\ held[c].coin \in tip /\ Owns(KeyOf[c], CommittedInfo(held[c].coin)) =>
            \A metadata \in Metadata :
                LET returned == UpdateRoot(held[c], KeyOf[c], metadata)
                IN /\ returned.is = "ok"
                   /\ Valid(returned.spend)
                   /\ returned.child.coin = ChildCoin(returned.spend)
                   /\ CommittedInfo(returned.child.coin) = returned.child.info

(* melt.rs:69-105.  melt refuses everyone but the owner on chain and never *)
(* refuses the owner, with or without a delegation layer.                  *)
MeltIsForTheOwner ==
    \A c \in Clients :
        held[c] # Nothing /\ held[c].coin \in tip =>
            (Melt(held[c], KeyOf[c]).is = "ok" <=> Owns(KeyOf[c], CommittedInfo(held[c].coin)))

(* update.rs:3-9.  When a spend built by update_root confirms - a stale    *)
(* one, or one chained on an unconfirmed child - the store keeps its       *)
(* launcher id, owner and delegation set, and anchors what was asked.      *)
UpdatePreservesIdentity ==
    [][\A b \in built : b.op = "update" /\ b.spend \in chain' \ chain =>
         \A coin \in tip, next \in tip' :
            CommittedInfo(next) = [CommittedInfo(coin) EXCEPT !.metadata = b.metadata]]_vars

(* Abstractly a store is a register that its clients compare and swap      *)
(* (StoreRegister): whatever they hold, however stale, and however their   *)
(* spends are chained and reordered, an update that confirms replaces      *)
(* exactly the state its author saw (update.rs:3-9, 28-39).                *)
Gone == <<"melted">>
tipId == IF tip = {} THEN Gone ELSE CoinId(CHOOSE coin \in tip : TRUE)
tipInfo ==
    LET live == IF tip # {} THEN tip ELSE {s.coin : s \in {x \in chain : x.does.form = "melt"}}
    IN CommittedInfo(CHOOSE coin \in live : TRUE)
offersMade ==
    {[on |-> CoinId(b.spend.coin), seen |-> b.seen, op |-> b.op, metadata |-> b.metadata,
      by |-> P2Hash(b.key)] : b \in built}
storeCoinIds == {tipId} \cup {CoinId(s.coin) : s \in {x \in chain : x.coin # LauncherCoin}}
Register == INSTANCE StoreRegister
    WITH Melted <- Gone, token <- tipId, content <- tipInfo, author <- author,
         offers <- offersMade, used <- storeCoinIds \ {Gone}
ClientsCompareAndSwap == Register!RegisterSpec
=============================================================================
