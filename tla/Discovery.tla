----------------------------- MODULE Discovery -----------------------------
(***************************************************************************)
(* How a store is found again.  mint.rs launches stores from wallets, from *)
(* coins a DID made, and from DIDs themselves; hint.rs lets a scan of the  *)
(* launcher memos find them by owner; read.rs walks from the store id to   *)
(* the DID that authorized it.  This module composes the three over one    *)
(* chain: blocks are whole bundles, built as the callers in the tests      *)
(* build them, and count only if the chain accepts them.                   *)
(*                                                                         *)
(* The walk is one look here: OwnerWalk shows that reading step by step    *)
(* from a faithful source amounts to that (AnswersAsOneLook).              *)
(***************************************************************************)
EXTENDS LaunchBuilder, DidRecognition

CONSTANTS
    Dids, Owners,   \* launcher ids of DIDs; puzzle hash seeds of owners
    Routes,         \* launcher shapes: subset of {"direct", "zero", "intermediate"}
    Parts,          \* what a caller submits of a composition: subset of
                    \* {"whole", "staged", "parent"}
    EvenAmounts,    \* amounts of the ordinary coins DIDs make
    ForeignMemos,   \* second memos that other producers write
    MaxBlocks       \* bound: accepted bundles

ASSUME RoutesAssumption == Routes \subseteq {"direct", "zero", "intermediate"}
ASSUME PartsAssumption  == Parts \subseteq {"whole", "staged", "parent"}
ASSUME EvenAssumption   == \A n \in EvenAmounts : n \in Nat /\ ~ IsOdd(n)
ASSUME MaxBlocksIsNat   == MaxBlocks \in Nat
(* Only this crate launches stores of its second kind.                     *)
ASSUME ForeignAssumption == DID_PROFILE_LAUNCHER_HINT \notin ForeignMemos

VARIABLES
    unspent,    \* the coins of the chain
    confirmed,  \* the confirmed spends
    launches,   \* history: [parent, launcherCoin, owner, classified, memosWritten]
    blocks      \* bundles accepted so far

vars == <<unspent, confirmed, launches, blocks>>

P2(owner) == TreeHash(Curried("standard", <<owner>>))

DidCoin(did)     == Coin(Genesis, TreeHash(DidPuzzle(did)), 1)
WalletCoin(owner) == Coin(Genesis, P2(owner), 2)

(* A coin spent to nothing, for what the other spends of a block lack.     *)
Funder(n) == Coin(Genesis, P2(<<"funder", n>>), 4)

Init ==
    /\ unspent = {DidCoin(d) : d \in Dids} \cup {WalletCoin(o) : o \in Owners}
                   \cup {Funder(n) : n \in 1..MaxBlocks}
    /\ confirmed = {} /\ launches = {} /\ blocks = 0

IsDid(coin) == coin.ph[2].mod = "did"

(* A block with this bundle in it is accepted.                             *)
Accept(bundle) ==
    LET block == bundle \cup {CoinSpend(Funder(blocks + 1), <<>>, {})}
    IN /\ blocks < MaxBlocks
       /\ Valid(block, unspent)
       /\ unspent' = (unspent \cup AllOutputs(block)) \ {s.coin : s \in block}
       /\ confirmed' = confirmed \cup block
       /\ blocks' = blocks + 1
-----------------------------------------------------------------------------
(* Did::update: the DID recreates itself, hinted, and emits conditions.    *)
DidUpdate(coin, creates, asserts) ==
    CoinSpend(coin, <<CreateCoin(coin.ph, coin.amount, <<coin.ph>>)>> \o creates, asserts)

(* A DID makes an ordinary coin of an even amount, hinted to its owner.    *)
DidMakesOrdinaryCoin(did, owner, amount) ==
    /\ Accept({DidUpdate(did, <<CreateCoin(P2(owner), amount, <<P2(owner)>>)>>, {})})
    /\ UNCHANGED launches

(* A wallet pays another, as every ordinary payment hints it.              *)
Pay(coin, owner) ==
    /\ Accept({CoinSpend(coin, <<CreateCoin(P2(owner), coin.amount, <<P2(owner)>>)>>, {})})
    /\ UNCHANGED launches

LauncherFor(coin, route) ==
    CASE route = "direct"       -> NewLauncher(CoinId(coin), 1)
      [] route = "zero"         -> WithSingletonAmount(NewLauncher(CoinId(coin), 0), 1)
      [] route = "intermediate" -> IntermediateLauncher(CoinId(coin), 0)

StagedFor(coin, route) ==
    IF route = "intermediate" THEN {IntermediateSpend(CoinId(coin), 0)} ELSE {}

(* launch_from_singleton and its like: the launch, and the parent's spend  *)
(* that emits its parent conditions.                                       *)
ParentSpend(coin, launch) ==
    IF IsDid(coin) THEN DidUpdate(coin, launch.creates, launch.asserts)
    ELSE CoinSpend(coin, launch.creates, launch.asserts)

(* A store is launched and submitted.  A caller that drains its context    *)
(* before its parent's spend is in it has two bundles on its hands.        *)
Launch(coin, route, kind, owner, part) ==
    LET launch == LaunchWithKind(StagedFor(coin, route), kind, LauncherFor(coin, route), P2(owner))
        parent == ParentSpend(coin, launch)
    IN /\ launch.is = "ok"
       /\ Accept(CASE part = "whole"  -> launch.ctx \cup {parent}
                   [] part = "staged" -> launch.ctx
                   [] part = "parent" -> {parent})
       /\ launches' = launches \cup
            {[parent |-> coin, launcherCoin |-> LauncherFor(coin, route).coin, owner |-> owner,
              classified |-> SomeKind(kind), memosWritten |-> launch.memosWritten]}

(* Other software launches a store: a legacy producer, one with a kind     *)
(* this version does not know.                                             *)
ForeignLaunch(coin, owner, memo) ==
    LET launcher == NewLauncher(CoinId(coin), 1)
        memos == <<DigstoreOwnerHint(P2(owner)), memo>>
    IN /\ Accept({LauncherSpend(launcher, P2(owner)),
                  CoinSpend(coin, <<CreateCoin(LauncherPh, 1, memos)>>,
                            {CoinId(launcher.coin)})})
       /\ launches' = launches \cup
            {[parent |-> coin, launcherCoin |-> launcher.coin, owner |-> owner,
              classified |-> IF memo = DATASTORE_LAUNCHER_HINT THEN SomeKind("file") ELSE NoKind,
              memosWritten |-> TRUE]}

Ordinary == {c \in unspent : \E o \in Owners : c.ph = P2(o)}
LiveDids == {c \in unspent : IsDid(c)}

Next ==
    \/ \E did \in LiveDids, owner \in Owners, amount \in EvenAmounts :
         DidMakesOrdinaryCoin(did, owner, amount)
    \/ \E coin \in Ordinary, owner \in Owners : Pay(coin, owner)
    \/ \E coin \in Ordinary \cup LiveDids, route \in Routes, kind \in StoreKinds,
          owner \in Owners, part \in Parts : Launch(coin, route, kind, owner, part)
    \/ \E coin \in Ordinary, owner \in Owners, memo \in ForeignMemos :
         ForeignLaunch(coin, owner, memo)

Spec == Init /\ [][Next]_vars
-----------------------------------------------------------------------------
(* get_coin_records_by_hint: the CREATE_COINs whose first memo is hint.    *)
HintedBy(hint) ==
    {e \in confirmed \X (1..4) :
        /\ e[2] \in DOMAIN e[1].creates
        /\ LET memos == e[1].creates[e[2]].memos IN memos # <<>> /\ Head(memos) = hint}

(* What a reader learns of an owner's stores.                              *)
ScanByOwner(owner) ==
    {[coin |-> Created(e[1], e[2]), memos |-> e[1].creates[e[2]].memos] :
        e \in HintedBy(DigstoreOwnerHint(P2(owner)))}

ClassifiedBy(record) ==
    IF Len(record.memos) < 2 THEN NoKind ELSE FromLauncherHint(record.memos[2])

(* resolve_owner_did against a source that serves the whole chain.         *)
CoinSpendOf(id) ==
    IF \E s \in confirmed : CoinId(s.coin) = id
      THEN LET s == CHOOSE s \in confirmed : CoinId(s.coin) = id
           IN Found([coin |-> s.coin, reveal |-> s.coin.ph[2], solution |-> "valid"])
      ELSE NotFound

Recognised(answer, id) ==
    IF IsBound(answer, id) THEN DidRefFromSpend(answer[2]) ELSE UnboundOutcome(answer)

ResolveOwnerDid(storeId) ==
    LET launcher == CoinSpendOf(storeId)
        creatorId == launcher[2].coin.parent
        creator == CoinSpendOf(creatorId)
        singletonId == creator[2].coin.parent
    IN IF ~ IsBound(launcher, storeId) THEN UnboundOutcome(launcher)
       ELSE IF Recognised(creator, creatorId) # OkNone \/ ~ IsBound(creator, creatorId)
         THEN Recognised(creator, creatorId)
       ELSE IF IsLauncherIntermediate(creator[2], launcher[2].coin)
         THEN Recognised(CoinSpendOf(singletonId), singletonId)
       ELSE OkNone

StoreIdOf(l) == CoinId(l.launcherCoin)
-----------------------------------------------------------------------------
(* hint.rs:3-16, 29-34; mint.rs:281-291.  Querying an owner's hint returns *)
(* exactly the launcher coins of the stores launched for that owner whose  *)
(* launch reported its memos written - none of the owner's ordinary coins, *)
(* no other owner's store - and each classifies as the kind it was         *)
(* launched as, or as none when its producer's kind is unknown here.       *)
ScanMatchesLaunches ==
    \A owner \in Owners :
        {<<r.coin, ClassifiedBy(r)>> : r \in ScanByOwner(owner)} =
        {<<l.launcherCoin, l.classified>> :
            l \in {x \in launches : x.owner = owner /\ x.memosWritten}}

(* read.rs:107-134, 238-245.  A store the DID's own spend launched,        *)
(* directly or through the intermediate, resolves to that DID; a store     *)
(* whose funding merely descends from a DID resolves to none.              *)
WalkNamesTheLauncher ==
    \A l \in launches :
        ResolveOwnerDid(StoreIdOf(l)) =
            IF IsDid(l.parent) THEN OkSome(l.parent.ph[2].args[1]) ELSE OkNone

(* mint.rs:254-257, 204-205.  However a caller cuts its composition up,    *)
(* the chain never holds half a launch: a launcher coin that exists was    *)
(* spent into its store in the same block.                                 *)
LaunchIsAllOrNothing ==
    \A c \in AllOutputs(confirmed) : c.ph = LauncherPh => c \in {s.coin : s \in confirmed}

(* mint.rs:299-307.  A launch is scannable by its memos or resolvable by   *)
(* its lineage, not both, with one exception: the 0-mojo launcher that a   *)
(* DID emits itself, which is legal because 0 is even.                     *)
BothOnlyByZeroLauncher ==
    \A l \in launches :
        (\E r \in ScanByOwner(l.owner) : r.coin = l.launcherCoin)
            /\ ResolveOwnerDid(StoreIdOf(l)) # OkNone
          => IsDid(l.parent) /\ l.launcherCoin.amount = 0

(* The chain's coins all come from somewhere, none is spent twice, and     *)
(* every launch recorded is of a launcher some spend created.              *)
TypeOK ==
    /\ blocks \in 0..MaxBlocks
    /\ \A s, t \in confirmed : s.coin = t.coin => s = t
    /\ unspent \cap {s.coin : s \in confirmed} = {}
    /\ \A c \in unspent : c.parent = Genesis \/ c \in AllOutputs(confirmed)
    /\ \A l \in launches :
         /\ l.launcherCoin \in AllOutputs(confirmed)
         /\ l.classified \in {SomeKind(k) : k \in StoreKinds} \cup {NoKind}
=============================================================================
