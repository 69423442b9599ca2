---------------------------- MODULE StoreProofs ----------------------------
(***************************************************************************)
(* The store's lifecycle, for any clients, keys, metadata, delegation sets *)
(* and any number of spends: what a client holds is what its coin commits  *)
(* to, and its updates compare and swap.                                   *)
(*                                                                         *)
(* Throughout, other software hints the transfers it makes: "none" is not  *)
(* among OtherMemos.  Without that none of it holds (StoreUnhintedTransfer).*)
(***************************************************************************)
EXTENDS StoreLifecycle, FiniteSetTheorems, TLAPS

(* The puzzle a store coin commits to tells its layers apart.              *)
LEMMA StorePhIsInjective ==
    ASSUME NEW i, NEW j, IsStoreInfo(i), IsStoreInfo(j), StorePh(i) = StorePh(j)
    PROVE  i = j
<1>1. /\ i.launcherId = j.launcherId
      /\ i.metadata = j.metadata
      /\ Layer(i) = Layer(j)
  BY DEF StorePh, SingletonPh, StateLayerHash, TreeHash, Curried
<1>2. /\ i.owner[2].mod = "standard"
      /\ j.owner[2].mod = "standard"
  BY DEF IsStoreInfo, P2Hash, TreeHash, Curried
<1>3. \A x : Curried("delegation", x).mod = "delegation"
  BY DEF Curried
<1>4. i.delegated = {} <=> j.delegated = {}
  BY <1>1, <1>2, <1>3 DEF Layer, TreeHash
<1>5. i.owner = j.owner /\ i.delegated = j.delegated
  BY <1>1, <1>4 DEF Layer, TreeHash, Curried
<1>6. QED
  BY <1>1, <1>5 DEF IsStoreInfo, Info

(* Reading a store coin's puzzle hash back gives the info it was made of.  *)
LEMMA CommittedInfoOf ==
    ASSUME NEW i, IsStoreInfo(i), NEW coin, coin.ph = StorePh(i)
    PROVE  CommittedInfo(coin) = i
<1> DEFINE singleton == coin.ph[2].args
           state == singleton[2][2].args
<1>1. /\ singleton[1] = i.launcherId
      /\ state[1] = i.metadata
      /\ state[3] = Layer(i)
  BY DEF StorePh, SingletonPh, StateLayerHash, TreeHash, Curried
<1>2. i.owner[2].mod = "standard"
  BY DEF IsStoreInfo, P2Hash, TreeHash, Curried
<1>3. CASE i.delegated = {}
  <2>1. state[3] = i.owner /\ state[3][2].mod # "delegation"
    BY <1>1, <1>2, <1>3 DEF Layer
  <2>2. CommittedInfo(coin) = Info(singleton[1], state[1], state[3], {})
    BY <2>1 DEF CommittedInfo
  <2>3. QED
    BY <1>1, <1>3, <2>1, <2>2 DEF IsStoreInfo
<1>4. CASE i.delegated # {}
  <2>1. /\ state[3][2].mod = "delegation"
        /\ state[3][2].args[2] = i.owner
        /\ state[3][2].args[3] = i.delegated
    BY <1>1, <1>4 DEF Layer, TreeHash, Curried
  <2>2. CommittedInfo(coin) =
          Info(singleton[1], state[1], state[3][2].args[2], state[3][2].args[3])
    BY <2>1 DEF CommittedInfo
  <2>3. QED
    BY <1>1, <2>1, <2>2 DEF IsStoreInfo
<1>5. QED
  BY <1>3, <1>4

(* What full memos say of a delegation set is read back as it was: a zero  *)
(* fee and all.                                                            *)
LEMMA MemosRoundTrip ==
    ASSUME NEW owner, NEW delegated, \A p \in delegated : IsDelegatedPuzzle(p)
    PROVE  DelegatedFromMemos(RecreationMemos(owner, delegated)) = delegated
<1> DEFINE Back(p) == IF p.kind = "oracle" THEN [p EXCEPT !.fee = FeeOf(p.fee)] ELSE p
<1>1. ASSUME NEW p \in delegated
      PROVE  Back(DelegatedMemo(p)) = p
  <2>1. CASE p.kind = "oracle"
    <3>1. FeeOf(FeeMemo(p.fee)) = p.fee
      BY DEF FeeOf, FeeMemo
    <3>2. p = [kind |-> "oracle", ph |-> p.ph, fee |-> p.fee]
      BY <2>1 DEF IsDelegatedPuzzle, Oracle
    <3>3. DelegatedMemo(p) = [kind |-> "oracle", ph |-> p.ph, fee |-> FeeMemo(p.fee)]
      BY <2>1, <3>2 DEF DelegatedMemo
    <3>4. Back(DelegatedMemo(p)) = [kind |-> "oracle", ph |-> p.ph, fee |-> FeeOf(FeeMemo(p.fee))]
      BY <3>3
    <3>5. QED
      BY <3>1, <3>2, <3>4
  <2>2. CASE p.kind # "oracle"
    BY <2>2 DEF DelegatedMemo
  <2>3. QED
    BY <2>1, <2>2
<1>2. RecreationMemos(owner, delegated).delegated = {DelegatedMemo(p) : p \in delegated}
  BY DEF RecreationMemos
<1>3. DelegatedFromMemos(RecreationMemos(owner, delegated))
        = {Back(q) : q \in {DelegatedMemo(p) : p \in delegated}}
  BY <1>2 DEF DelegatedFromMemos
<1> HIDE DEF Back
<1>4. {Back(q) : q \in {DelegatedMemo(p) : p \in delegated}} = delegated
  BY <1>1
<1>5. QED
  BY <1>3, <1>4
-----------------------------------------------------------------------------
IsCoin(coin) == coin = Coin(coin.parent, coin.ph, coin.amount)

(* The coin a store's lineage proof says it came from.                     *)
ProvenParent(store) ==
    IF "inner" \in DOMAIN store.proof
      THEN Coin(store.proof.parentParent,
                SingletonPh(store.info.launcherId, store.proof.inner), store.proof.amount)
      ELSE Coin(store.proof.parentParent, LauncherPh, store.proof.amount)

(* A store as a client may hold it: its info is what its coin commits to,  *)
(* and its proof the one the coin needs.                                   *)
SoundStore(store) ==
    /\ IsStoreInfo(store.info)
    /\ IsCoin(store.coin)
    /\ StorePh(store.info) = store.coin.ph
    /\ store.coin.amount % 2 = 1
    /\ store.coin.parent = CoinId(ProvenParent(store))
    /\ "inner" \notin DOMAIN store.proof => store.info.launcherId = store.coin.parent

(* A spend that recreates a store whose reveal its coin commits to.        *)
IsRecreation(spend) ==
    /\ IsCoin(spend.coin)
    /\ IsStoreInfo(spend.reveal) /\ StorePh(spend.reveal) = spend.coin.ph
    /\ spend.does.form = "recreate"

(* The child a recreation makes is a store of the same launcher.           *)
LEMMA ChildIsSound ==
    ASSUME NEW spend, IsRecreation(spend), NEW next, IsStoreInfo(next),
           next.launcherId = spend.reveal.launcherId,
           next.metadata = spend.does.metadata, Layer(next) = spend.does.layer
    PROVE  /\ SoundStore(Datastore(ChildCoin(spend), ChildProof(spend), next))
           /\ StorePh(next) = ChildCoin(spend).ph
<1> DEFINE store == Datastore(ChildCoin(spend), ChildProof(spend), next)
<1>1. /\ store.coin = ChildCoin(spend) /\ store.proof = ChildProof(spend) /\ store.info = next
  BY DEF Datastore
<1>2. /\ ChildCoin(spend).parent = CoinId(spend.coin)
      /\ ChildCoin(spend).amount = 1
      /\ IsCoin(ChildCoin(spend))
      /\ ChildCoin(spend).ph = StorePh(next)
  BY DEF ChildCoin, Coin, IsCoin, StorePh
<1>3. /\ "inner" \in DOMAIN store.proof
      /\ ProvenParent(store) = spend.coin
  <2>1. store.proof = LineageProof(spend.coin.parent,
             StateLayerHash(spend.reveal.metadata, DL_UPDATER, Layer(spend.reveal)),
             spend.coin.amount)
    BY <1>1 DEF ChildProof
  <2>2. /\ "inner" \in DOMAIN store.proof
        /\ store.proof.parentParent = spend.coin.parent
        /\ store.proof.amount = spend.coin.amount
        /\ SingletonPh(store.info.launcherId, store.proof.inner) = spend.coin.ph
    BY <1>1, <2>1 DEF LineageProof, IsRecreation, StorePh
  <2>3. QED
    BY <2>2 DEF ProvenParent, IsRecreation, IsCoin
<1> HIDE DEF store
<1>4. QED
  BY <1>1, <1>2, <1>3 DEF SoundStore, store

(* Parsing a hinted recreation gives that child, or nothing.               *)
LEMMA RecreationParses ==
    ASSUME NEW spend, IsRecreation(spend), WellHinted(spend), NEW supplied
    PROVE  LET parsed == FromSpend(spend, supplied)
           IN /\ parsed.is \in {"ok", "missing_memo"}
              /\ spend.does.memos.form # "truncated" => parsed.is = "ok"
              /\ parsed.is = "ok" =>
                   /\ SoundStore(parsed.store)
                   /\ parsed.store.coin = ChildCoin(spend)
                   /\ parsed.store.proof = ChildProof(spend)
                   /\ parsed.store.info.metadata = spend.does.metadata
                   /\ parsed.store.info.launcherId = spend.reveal.launcherId
<1> DEFINE does == spend.does
           parsed == FromSpend(spend, supplied)
           child(owner, delegated) ==
             [is |-> "ok",
              store |-> Datastore(ChildCoin(spend), ChildProof(spend),
                          Info(spend.reveal.launcherId, does.metadata, owner, delegated))]
<1>1. /\ spend.coin.ph # LauncherPh
      /\ spend.reveal # OrdinaryPuzzle
      /\ does.form = "recreate"
  BY DEF IsRecreation, StorePh, SingletonPh, LauncherPh, LauncherPuzzle, OrdinaryPuzzle,
         TreeHash, Curried, IsStoreInfo, Info
<1>2. ASSUME NEW owner, NEW delegated,
             IsStoreInfo(Info(spend.reveal.launcherId, does.metadata, owner, delegated)),
             does.layer = Layer(Info(spend.reveal.launcherId, does.metadata, owner, delegated)),
             parsed = child(owner, delegated)
      PROVE  /\ parsed.is = "ok"
             /\ SoundStore(parsed.store)
             /\ parsed.store.coin = ChildCoin(spend)
             /\ parsed.store.proof = ChildProof(spend)
             /\ parsed.store.info.metadata = does.metadata
             /\ parsed.store.info.launcherId = spend.reveal.launcherId
  <2> DEFINE next == Info(spend.reveal.launcherId, does.metadata, owner, delegated)
  <2>1. next.launcherId = spend.reveal.launcherId /\ next.metadata = does.metadata
    BY DEF Info
  <2>2. SoundStore(Datastore(ChildCoin(spend), ChildProof(spend), next))
    BY <1>2, <2>1, ChildIsSound
  <2>3. QED
    BY <1>2, <2>1, <2>2 DEF Datastore
<1>3. CASE does.memos.form = "full"
  <2> DEFINE owner == does.memos.owner
             delegated == DelegatedFromMemos(does.memos)
  <2>1. /\ IsStoreInfo(Info(spend.reveal.launcherId, does.metadata, owner, delegated))
        /\ does.layer = Layer(Info(spend.reveal.launcherId, does.metadata, owner, delegated))
    BY <1>3 DEF WellHinted
  <2>2. parsed = child(owner, delegated)
    BY <1>1, <1>3 DEF FromSpend, ReadMemos
  <2> HIDE DEF parsed, child, owner, delegated
  <2>3. QED
    BY <1>2, <2>1, <2>2 DEF parsed
<1>4. CASE does.memos.form = "none"
  <2> DEFINE owner == spend.reveal.owner
  <2>1. /\ spend.reveal.delegated = {}
        /\ does.layer = Layer(spend.reveal)
    BY <1>4 DEF WellHinted
  <2>2. parsed = child(owner, {})
    BY <1>1, <1>4, <2>1 DEF FromSpend, ReadMemos
  <2>3. IsStoreInfo(Info(spend.reveal.launcherId, does.metadata, owner, {}))
    BY DEF IsRecreation, IsStoreInfo, Info
  <2>4. does.layer = Layer(Info(spend.reveal.launcherId, does.metadata, owner, {}))
    BY <2>1 DEF Layer, Info
  <2> HIDE DEF parsed, child, owner
  <2>5. QED
    BY <1>2, <2>2, <2>3, <2>4 DEF parsed
<1>5. CASE does.memos.form = "truncated"
  <2>1. parsed.is = "missing_memo"
    BY <1>1, <1>5 DEF FromSpend, ReadMemos
  <2>2. QED
    BY <1>5, <2>1
<1>6. QED
  BY <1>3, <1>4, <1>5 DEF WellHinted

-----------------------------------------------------------------------------
IsLaunch(spend) ==
    \E info \in FirstInfos, memos \in FirstMemos : spend = LaunchSpend(info, memos)

(* A spend made of a store: a melt, or a recreation that is hinted when    *)
(* its reveal is really the coin's.                                        *)
IsStoreSpend(spend) ==
    /\ IsCoin(spend.coin) /\ IsStoreInfo(spend.reveal)
    /\ spend.does.form \in {"melt", "recreate"}
    /\ StorePh(spend.reveal) = spend.coin.ph /\ spend.does.form = "recreate"
         => WellHinted(spend)

HydrateResults == {"ok", "chain", "not_datastore", "missing_lineage", "missing_hint"}

(* What hydrate may make of a spend.                                       *)
HydratesSoundly(spend) ==
    /\ Hydrate(spend).is \in HydrateResults
    /\ Hydrate(spend).is = "ok" => SoundStore(Hydrate(spend).store)

(* hydrate.rs:69-83.  hydrate adds a check to from_spend and renames its   *)
(* errors: it is sound where from_spend is.                                *)
LEMMA ParsedHydrates ==
    ASSUME NEW spend, FromSpend(spend, {}).is \in {"ok", "not_datastore", "missing_child", "missing_memo"},
           FromSpend(spend, {}).is = "ok" => SoundStore(FromSpend(spend, {}).store)
    PROVE  HydratesSoundly(spend)
BY DEF HydratesSoundly, Hydrate, HydrateResults

(* A store's puzzle is no ordinary one and not the launcher's.             *)
LEMMA InfoIsNoPuzzle ==
    ASSUME NEW info, IsStoreInfo(info)
    PROVE  RevealHash(info) = StorePh(info) /\ info # OrdinaryPuzzle
BY DEF IsStoreInfo, Info, RevealHash, LauncherPuzzle, OrdinaryPuzzle, Curried

(* What is read out of the spend of a store coin is what the recreated     *)
(* coin commits to.                                                        *)
LEMMA StoreSpendHydrates ==
    ASSUME NEW spend, IsStoreSpend(spend)
    PROVE  HydratesSoundly(spend)
<1>1. CASE StorePh(spend.reveal) # spend.coin.ph
  <2>1. Hydrate(spend).is = "chain"
    BY <1>1, InfoIsNoPuzzle DEF IsStoreSpend, Hydrate, RevealMatchesCoin
  <2>2. QED
    BY <2>1 DEF HydratesSoundly, HydrateResults
<1>2. CASE StorePh(spend.reveal) = spend.coin.ph /\ spend.does.form = "recreate"
  <2>1. IsRecreation(spend) /\ WellHinted(spend)
    BY <1>2 DEF IsStoreSpend, IsRecreation
  <2>2. /\ FromSpend(spend, {}).is \in {"ok", "missing_memo"}
        /\ FromSpend(spend, {}).is = "ok" => SoundStore(FromSpend(spend, {}).store)
    BY <2>1, RecreationParses
  <2>3. QED
    BY <2>2, ParsedHydrates
<1>3. CASE StorePh(spend.reveal) = spend.coin.ph /\ spend.does.form = "melt"
  <2>1. FromSpend(spend, {}).is \in {"not_datastore", "missing_child"}
    BY <1>3 DEF FromSpend
  <2>2. QED
    BY <2>1, ParsedHydrates
<1>4. QED
  BY <1>1, <1>2, <1>3 DEF IsStoreSpend

(* So is what is read out of a launch.                                     *)
LEMMA LaunchHydrates ==
    ASSUME NEW spend, IsLaunch(spend)
    PROVE  HydratesSoundly(spend)
<1>1. PICK info \in FirstInfos, memos \in FirstMemos : spend = LaunchSpend(info, memos)
  BY DEF IsLaunch
<1>2. /\ IsStoreInfo(info)
      /\ info.launcherId = CoinId(LauncherCoin)
  BY FirstInfosAreOfThisStore
<1>3. /\ spend.coin = LauncherCoin /\ spend.coin.ph = LauncherPh
      /\ spend.reveal = LauncherPuzzle
      /\ spend.coin.parent = Genesis /\ spend.coin.amount = FirstAmount
      /\ spend.does.form = "launch" /\ spend.does.storePh = StorePh(info)
      /\ spend.does.amount = FirstAmount /\ spend.does.metadata = info.metadata
      /\ spend.does.memos = IF memos = "truncated" THEN TruncatedMemos
                            ELSE RecreationMemos(info.owner, info.delegated)
  BY <1>1 DEF LaunchSpend, StoreSpend, LauncherCoin, Launching, Coin
<1>4. spend.reveal # OrdinaryPuzzle
  BY <1>3 DEF LauncherPuzzle, OrdinaryPuzzle, Curried
<1>5. CASE memos = "truncated"
  <2>1. FromSpend(spend, {}).is = "missing_memo"
    BY <1>3, <1>4, <1>5 DEF FromSpend, ReadMemos, TruncatedMemos
  <2>2. QED
    BY <2>1, ParsedHydrates
<1>6. CASE memos # "truncated"
  <2> DEFINE store == Datastore(Coin(CoinId(LauncherCoin), StorePh(info), FirstAmount),
                                EveProof(Genesis, FirstAmount), info)
  <2>1. /\ spend.does.memos.form = "full"
        /\ spend.does.memos.owner = info.owner
        /\ DelegatedFromMemos(spend.does.memos) = info.delegated
    BY <1>2, <1>3, <1>6, MemosRoundTrip DEF RecreationMemos, IsStoreInfo
  <2>2. FromSpend(spend, {}) =
          [is |-> "ok",
           store |-> Datastore(Coin(CoinId(LauncherCoin), StorePh(info), FirstAmount),
                               EveProof(Genesis, FirstAmount),
                               Info(CoinId(LauncherCoin), info.metadata, info.owner, info.delegated))]
    BY <1>3, <1>4, <2>1 DEF FromSpend, ReadMemos
  <2>3. Info(CoinId(LauncherCoin), info.metadata, info.owner, info.delegated) = info
    BY <1>2 DEF IsStoreInfo
  <2>4. FromSpend(spend, {}).is = "ok" /\ FromSpend(spend, {}).store = store
    BY <2>2, <2>3
  <2>5. "inner" \notin DOMAIN store.proof /\ ProvenParent(store) = LauncherCoin
    BY DEF Datastore, EveProof, ProvenParent, LauncherCoin
  <2>6. SoundStore(store)
    BY <1>2, <2>5, FirstAmountIsOdd DEF SoundStore, Datastore, Coin, IsCoin
  <2> HIDE DEF store
  <2>7. QED
    BY <2>4, <2>6, ParsedHydrates
<1>7. QED
  BY <1>5, <1>6

(* An ordinary coin's spend is no store, whatever coin it is served under. *)
LEMMA OrdinaryHydrates ==
    ASSUME NEW spend, spend.reveal = OrdinaryPuzzle
    PROVE  HydratesSoundly(spend)
<1>1. FromSpend(spend, {}).is = "not_datastore"
  BY DEF FromSpend
<1>2. QED
  BY <1>1, ParsedHydrates

-----------------------------------------------------------------------------
(* What a client builds: a spend of the coin it looked at, by its own key, *)
(* that the chain can only take from the owner.                            *)
IsOffer(b) ==
    /\ IsStoreInfo(b.seen)
    /\ IsCoin(b.spend.coin) /\ StorePh(b.seen) = b.spend.coin.ph
    /\ b.spend.key = b.key
    /\ b.spend.reveal = IF b.seen.delegated = {} THEN [b.seen EXCEPT !.owner = P2Hash(b.key)]
                        ELSE b.seen
    /\ b.seen.delegated # {} => P2Hash(b.key) = b.seen.owner
    /\ \/ b.op = "update" /\ b.spend.does = Recreation(b.seen, b.metadata)
       \/ b.op = "melt" /\ b.spend.does = Melting

(* The recreation update_root asks for is the store with other metadata.   *)
LEMMA RecreationIsHinted ==
    ASSUME NEW spend, IsStoreInfo(spend.reveal), NEW metadata,
           spend.does = Recreation(spend.reveal, metadata)
    PROVE  LET next == [spend.reveal EXCEPT !.metadata = metadata]
           IN /\ IsStoreInfo(next) /\ next.launcherId = spend.reveal.launcherId
              /\ next.metadata = spend.does.metadata /\ Layer(next) = spend.does.layer
              /\ spend.does.form = "recreate" /\ spend.does.memos.form # "truncated"
              /\ WellHinted(spend)
              /\ spend.does.memos.form = "full" =>
                   /\ spend.does.memos.owner = spend.reveal.owner
                   /\ DelegatedFromMemos(spend.does.memos) = spend.reveal.delegated
              /\ spend.does.memos.form = "none" => spend.reveal.delegated = {}
<1> DEFINE info == spend.reveal
           next == [info EXCEPT !.metadata = metadata]
<1>1. next = Info(info.launcherId, metadata, info.owner, info.delegated)
  BY DEF IsStoreInfo, Info
<1>2. IsStoreInfo(next) /\ Layer(next) = Layer(info)
  BY <1>1 DEF IsStoreInfo, Info, Layer
<1>3. /\ spend.does.form = "recreate" /\ spend.does.metadata = metadata
      /\ spend.does.layer = Layer(info)
  BY DEF Recreation, Recreate
<1>4. CASE info.delegated = {}
  <2>1. spend.does.memos.form = "none"
    BY <1>4 DEF Recreation, Recreate, NoMemos
  <2>2. WellHinted(spend)
    BY <1>3, <1>4, <2>1 DEF WellHinted
  <2>3. QED
    BY <1>1, <1>2, <1>3, <1>4, <2>1, <2>2 DEF Info
<1>5. CASE info.delegated # {}
  <2>1. spend.does.memos = RecreationMemos(info.owner, info.delegated)
    BY <1>5 DEF Recreation, Recreate
  <2>2. /\ spend.does.memos.form = "full"
        /\ spend.does.memos.owner = info.owner
        /\ DelegatedFromMemos(spend.does.memos) = info.delegated
    BY <2>1, MemosRoundTrip DEF RecreationMemos, IsStoreInfo
  <2>3. WellHinted(spend)
    BY <1>1, <1>2, <1>3, <2>2 DEF WellHinted
  <2>4. QED
    BY <1>1, <1>2, <1>3, <2>2, <2>3 DEF Info
<1>6. QED
  BY <1>4, <1>5

(* An offer whose reveal is the coin's is the owner's.                     *)
LEMMA RevealingOffer ==
    ASSUME NEW b, IsOffer(b), StorePh(b.spend.reveal) = b.spend.coin.ph
    PROVE  b.spend.reveal = b.seen /\ P2Hash(b.key) = b.seen.owner
<1>1. IsStoreInfo(b.spend.reveal)
  BY DEF IsOffer, IsStoreInfo, Info, P2Hash, TreeHash, Curried
<1>2. b.spend.reveal = b.seen
  BY <1>1, StorePhIsInjective DEF IsOffer
<1>3. QED
  BY <1>2 DEF IsOffer, IsStoreInfo, Info

(* What a client built is the spend of a store coin.                       *)
LEMMA OfferIsStoreSpend ==
    ASSUME NEW b, IsOffer(b)
    PROVE  IsStoreSpend(b.spend)
<1>1. IsStoreInfo(b.spend.reveal)
  BY DEF IsOffer, IsStoreInfo, Info, P2Hash, TreeHash, Curried
<1>2. b.spend.does.form \in {"melt", "recreate"}
  BY DEF IsOffer, Recreation, Recreate, Melting
<1>3. ASSUME StorePh(b.spend.reveal) = b.spend.coin.ph, b.spend.does.form = "recreate"
      PROVE  WellHinted(b.spend)
  <2>1. b.spend.does = Recreation(b.spend.reveal, b.metadata)
    BY <1>3, RevealingOffer DEF IsOffer, Melting
  <2>2. QED
    BY <1>1, <2>1, RecreationIsHinted
<1>4. QED
  BY <1>1, <1>2, <1>3 DEF IsStoreSpend, IsOffer

(* What update_root returns for a store that is what its coin commits to.  *)
LEMMA UpdateRootReturns ==
    ASSUME NEW store, SoundStore(store), NEW key, NEW metadata
    PROVE  LET returned == UpdateRoot(store, key, metadata)
               spend    == returned.spend
           IN /\ returned.is \in {"ok", "driver", "unsupported_owner"}
              /\ returned.is = "ok" =>
                   IsOffer([spend |-> spend, op |-> "update", metadata |-> metadata,
                            seen |-> store.info, key |-> key])
              /\ key # "custom" /\ P2Hash(key) = store.info.owner =>
                   /\ returned.is = "ok"
                   /\ spend.coin = store.coin /\ spend.reveal = store.info
                   /\ spend.proof = store.proof /\ spend.key = key
                   /\ spend.does.form = "recreate"
                   /\ returned.child = Datastore(ChildCoin(spend), ChildLineageProof(store),
                                                 [store.info EXCEPT !.metadata = metadata])
                   /\ SoundStore(returned.child)
<1> DEFINE returned == UpdateRoot(store, key, metadata)
           spend == StoreSpend(store.coin, Revealed(store, key), store.proof, key,
                               Recreation(store.info, metadata))
           child == FromSpend(spend, store.info.delegated)
<1>1. /\ spend.coin = store.coin /\ spend.reveal = Revealed(store, key)
      /\ spend.proof = store.proof /\ spend.key = key
      /\ spend.does = Recreation(store.info, metadata)
  BY DEF StoreSpend
<1>2. CASE key = "custom"
  BY <1>2 DEF UpdateRoot
<1>3. CASE key # "custom" /\ store.info.delegated # {} /\ P2Hash(key) # store.info.owner
  BY <1>3 DEF UpdateRoot
<1>4. CASE key # "custom" /\ (store.info.delegated = {} \/ P2Hash(key) = store.info.owner)
  <2>1. returned = [is |-> "ok", spend |-> spend, child |-> child.store]
    BY <1>4 DEF UpdateRoot
  <2> HIDE DEF spend
  <2>2. IsOffer([spend |-> spend, op |-> "update", metadata |-> metadata,
                 seen |-> store.info, key |-> key])
    BY <1>1, <1>4 DEF IsOffer, SoundStore, Revealed
  <2>3. ASSUME P2Hash(key) = store.info.owner
        PROVE  /\ spend.reveal = store.info
               /\ spend.does.form = "recreate"
               /\ child.store = Datastore(ChildCoin(spend), ChildLineageProof(store),
                                          [store.info EXCEPT !.metadata = metadata])
               /\ SoundStore(child.store)
    <3>1. spend.reveal = store.info
      BY <1>1, <2>3 DEF Revealed, SoundStore, IsStoreInfo, Info
    <3> DEFINE next == [store.info EXCEPT !.metadata = metadata]
    <3>2. /\ IsStoreInfo(spend.reveal)
          /\ spend.does = Recreation(spend.reveal, metadata)
      BY <1>1, <3>1 DEF SoundStore
    <3>3. /\ IsStoreInfo(next) /\ next.launcherId = spend.reveal.launcherId
          /\ next.metadata = spend.does.metadata /\ Layer(next) = spend.does.layer
          /\ spend.does.form = "recreate"
          /\ WellHinted(spend) /\ spend.does.memos.form # "truncated"
      BY <3>1, <3>2, RecreationIsHinted
    <3>4. IsRecreation(spend)
      BY <1>1, <3>1, <3>3 DEF IsRecreation, SoundStore
    <3>5. /\ child.is = "ok" /\ SoundStore(child.store)
          /\ child.store.coin = ChildCoin(spend)
          /\ child.store.proof = ChildProof(spend)
      BY <3>3, <3>4, RecreationParses
    <3>6. StorePh(child.store.info) = ChildCoin(spend).ph /\ StorePh(next) = ChildCoin(spend).ph
      BY <3>3, <3>4, <3>5, ChildIsSound DEF SoundStore
    <3>7. child.store.info = next
      BY <3>3, <3>5, <3>6, StorePhIsInjective DEF SoundStore
    <3>8. ChildProof(spend) = ChildLineageProof(store)
      BY <1>1, <3>1 DEF ChildProof, ChildLineageProof, ParentInnerPuzzleHash
    <3>9. \E coin, proof, info : child.store = Datastore(coin, proof, info)
      BY <3>3, <3>4, <3>5 DEF FromSpend
    <3>10. child.store = Datastore(ChildCoin(spend), ChildProof(spend), next)
      BY <3>5, <3>7, <3>9 DEF Datastore
    <3>11. QED
      BY <3>1, <3>3, <3>5, <3>8, <3>10
  <2>4. QED
    BY <1>1, <2>1, <2>2, <2>3
<1>5. QED
  BY <1>2, <1>3, <1>4

(* An update the chain takes recreates what its author saw, with the       *)
(* metadata asked for.                                                     *)
LEMMA AcceptedUpdate ==
    ASSUME NEW b, IsOffer(b), b.op = "update", RevealHash(b.spend.reveal) = b.spend.coin.ph
    PROVE  LET next == [b.seen EXCEPT !.metadata = b.metadata]
           IN /\ CommittedInfo(b.spend.coin) = b.seen
              /\ P2Hash(b.key) = b.seen.owner
              /\ b.spend.does.form = "recreate"
              /\ CommittedInfo(ChildCoin(b.spend)) = next
<1> DEFINE next == [b.seen EXCEPT !.metadata = b.metadata]
<1>1. IsStoreInfo(b.spend.reveal)
  BY OfferIsStoreSpend DEF IsStoreSpend
<1>2. /\ b.spend.reveal = b.seen
      /\ P2Hash(b.key) = b.seen.owner
  BY <1>1, InfoIsNoPuzzle, RevealingOffer
<1>3. b.spend.does = Recreation(b.spend.reveal, b.metadata)
  BY <1>2 DEF IsOffer
<1>4. /\ IsStoreInfo(next) /\ next.launcherId = b.spend.reveal.launcherId
      /\ next.metadata = b.spend.does.metadata /\ Layer(next) = b.spend.does.layer
      /\ b.spend.does.form = "recreate"
  <2> DEFINE after == [b.spend.reveal EXCEPT !.metadata = b.metadata]
  <2>1. /\ IsStoreInfo(after) /\ after.launcherId = b.spend.reveal.launcherId
        /\ after.metadata = b.spend.does.metadata /\ Layer(after) = b.spend.does.layer
        /\ b.spend.does.form = "recreate"
    BY <1>1, <1>3, RecreationIsHinted
  <2>2. after = next
    BY <1>2
  <2>3. QED
    BY <2>1, <2>2
<1>5. IsRecreation(b.spend)
  BY <1>1, <1>2, <1>4 DEF IsRecreation, IsOffer
<1>6. StorePh(next) = ChildCoin(b.spend).ph
  BY <1>4, <1>5, ChildIsSound
<1>7. CommittedInfo(ChildCoin(b.spend)) = next
  BY <1>4, <1>6, CommittedInfoOf
<1>8. CommittedInfo(b.spend.coin) = b.seen
  BY CommittedInfoOf DEF IsOffer
<1>9. QED
  BY <1>2, <1>4, <1>7, <1>8
-----------------------------------------------------------------------------
(* The inductive invariant.                                                *)
Results == {"none", "ok", "driver", "chain", "not_datastore", "missing_lineage",
            "missing_hint", "unsupported_owner", "not_the_owner"}

OfThisStore(info) == IsStoreInfo(info) /\ info.launcherId = CoinId(LauncherCoin)

(* A confirmed spend is the launch, or revealed what this store's coin     *)
(* commits to; it continues another.                                       *)
ChainInv ==
    \A s \in chain :
        /\ \/ IsLaunch(s)
           \/ /\ IsStoreSpend(s)
              /\ StorePh(s.reveal) = s.coin.ph /\ OfThisStore(s.reveal)
        /\ s.coin = LauncherCoin \/ \E t \in chain : s.coin.parent = CoinId(t.coin)

(* The tip is one coin of this store, a child of the chain, never spent;   *)
(* after a melt there is none.                                             *)
TipInv ==
    /\ \A coin \in tip :
         /\ IsCoin(coin)
         /\ \E t \in chain : coin.parent = CoinId(t.coin)
         /\ \A s \in chain : s.coin # coin /\ s.does.form # "melt"
         /\ OfThisStore(CommittedInfo(coin)) /\ StorePh(CommittedInfo(coin)) = coin.ph
    /\ \A x, y \in tip : x = y

BuiltInv == \A b \in built : IsOffer(b)

HeldInv ==
    /\ held = [c \in Clients |-> held[c]]
    /\ \A c \in Clients : held[c] # Nothing => SoundStore(held[c])

IInv == ChainInv /\ TipInv /\ BuiltInv /\ HeldInv /\ result \in Results

(* Other software hints the recreations it makes, or cuts the hint off.    *)
OthersHint == OtherMemos \subseteq {"full", "truncated"}

(* The invariant holds once the store is launched.                         *)
LEMMA StoreInit == Init => IInv
<1> SUFFICES ASSUME Init PROVE IInv
  OBVIOUS
<1>1. PICK info \in FirstInfos, memos \in FirstMemos :
        /\ chain = {LaunchSpend(info, memos)}
        /\ tip = {Coin(CoinId(LauncherCoin), StorePh(info), FirstAmount)}
  BY DEF Init
<1> DEFINE launch == LaunchSpend(info, memos)
           coin == Coin(CoinId(LauncherCoin), StorePh(info), FirstAmount)
<1>2. launch.coin = LauncherCoin /\ launch.does.form = "launch"
  BY DEF LaunchSpend, StoreSpend, Launching
<1>3. IsLaunch(launch)
  BY DEF IsLaunch
<1>4. ChainInv
  BY <1>1, <1>2, <1>3 DEF ChainInv
<1>5. IsStoreInfo(info) /\ info.launcherId = CoinId(LauncherCoin)
  BY FirstInfosAreOfThisStore
<1>6. coin.ph = StorePh(info) /\ coin.parent = CoinId(LauncherCoin) /\ IsCoin(coin)
  BY DEF Coin, IsCoin
<1>7. CommittedInfo(coin) = info
  BY <1>5, <1>6, CommittedInfoOf
<1>8. coin # LauncherCoin
  BY <1>6 DEF LauncherCoin, Coin, CoinId, Genesis
<1> HIDE DEF launch, coin
<1>9. TipInv
  BY <1>1, <1>2, <1>5, <1>6, <1>7, <1>8 DEF TipInv, OfThisStore, launch, coin
<1>10. BuiltInv /\ HeldInv /\ result \in Results
  BY DEF Init, BuiltInv, HeldInv, Results
<1>11. QED
  BY <1>4, <1>9, <1>10 DEF IInv

(* A spend the chain takes makes a coin of this store, unless it melts it. *)
LEMMA AppliedSpend ==
    ASSUME ChainInv, TipInv, NEW spend, IsStoreSpend(spend), Apply(spend),
           spend.does.form = "recreate" =>
             \E next : /\ IsStoreInfo(next) /\ next.launcherId = spend.reveal.launcherId
                       /\ next.metadata = spend.does.metadata /\ Layer(next) = spend.does.layer
    PROVE  ChainInv' /\ TipInv'
<1>1. /\ spend.coin \in tip
      /\ StorePh(spend.reveal) = spend.coin.ph
      /\ chain' = chain \cup {spend}
      /\ tip' = IF spend.does.form = "melt" THEN {} ELSE {ChildCoin(spend)}
  BY InfoIsNoPuzzle DEF Apply, Valid, IsStoreSpend
<1>2. CommittedInfo(spend.coin) = spend.reveal
  BY <1>1, CommittedInfoOf DEF IsStoreSpend
<1>3. OfThisStore(spend.reveal)
  BY <1>1, <1>2 DEF TipInv
<1>4. \E t \in chain : spend.coin.parent = CoinId(t.coin)
  BY <1>1 DEF TipInv
<1>5. ChainInv'
  BY <1>1, <1>3, <1>4 DEF ChainInv, OfThisStore
<1>6. CASE spend.does.form = "melt"
  BY <1>1, <1>5, <1>6 DEF TipInv
<1>7. CASE spend.does.form = "recreate"
  <2>1. PICK next : /\ IsStoreInfo(next) /\ next.launcherId = spend.reveal.launcherId
                    /\ next.metadata = spend.does.metadata /\ Layer(next) = spend.does.layer
    BY <1>7
  <2> DEFINE child == ChildCoin(spend)
  <2>2. IsRecreation(spend)
    BY <1>1, <1>7 DEF IsRecreation, IsStoreSpend
  <2>3. StorePh(next) = child.ph
    BY <2>1, <2>2, ChildIsSound
  <2>4. CommittedInfo(child) = next /\ OfThisStore(next)
    BY <1>3, <2>1, <2>3, CommittedInfoOf DEF OfThisStore
  <2>5. child.parent = CoinId(spend.coin) /\ IsCoin(child)
    BY DEF ChildCoin, Coin, IsCoin
  <2> HIDE DEF child
  <2>6. ASSUME NEW s \in chain' PROVE s.coin # child
    <3>1. SUFFICES ASSUME s.coin = child PROVE FALSE
      OBVIOUS
    <3>2. s.coin # LauncherCoin
      BY <2>5, <3>1 DEF LauncherCoin, Coin, CoinId, Genesis
    <3>3. \E t \in chain : s.coin.parent = CoinId(t.coin)
      BY <1>1, <1>4, <3>2 DEF ChainInv
    <3>4. \E t \in chain : t.coin = spend.coin
      BY <2>5, <3>1, <3>3 DEF CoinId
    <3>5. QED
      BY <1>1, <3>4 DEF TipInv
  <2>7. \A s \in chain' : s.does.form # "melt"
    BY <1>1, <1>7 DEF TipInv
  <2>8. tip' = {child}
    BY <1>1, <1>7 DEF child
  <2>9. \E t \in chain' : child.parent = CoinId(t.coin)
    BY <1>1, <2>5
  <2>10. QED
    BY <1>5, <2>3, <2>4, <2>5, <2>6, <2>7, <2>8, <2>9 DEF TipInv
<1>8. QED
  BY <1>5, <1>6, <1>7 DEF IsStoreSpend

(* Whatever a source makes of the chain, the pool and other coins, hydrate *)
(* gives a store its coin commits to, or an error (hydrate.rs:23-83).      *)
LEMMA AnswersHydrate ==
    ASSUME ChainInv, BuiltInv, NEW spend \in Answers
    PROVE  HydratesSoundly(spend)
<1>1. CASE spend \in chain
  BY <1>1, LaunchHydrates, StoreSpendHydrates DEF ChainInv
<1>2. CASE spend \in {b.spend : b \in built}
  BY <1>2, OfferIsStoreSpend, StoreSpendHydrates DEF BuiltInv
<1>3. CASE spend \in ForeignSpends
  <2>1. CASE spend.reveal = OrdinaryPuzzle
    BY <2>1, OrdinaryHydrates
  <2>2. CASE spend.reveal # OrdinaryPuzzle
    <3>1. IsStoreSpend(spend)
      BY <1>3, <2>2, ForeignSpendsAreForeign DEF IsStoreSpend, IsCoin
    <3>2. QED
      BY <3>1, StoreSpendHydrates
  <2>3. QED
    BY <2>1, <2>2
<1>4. CASE spend \in {[f EXCEPT !.coin = s.coin] : f \in ForeignSpends, s \in chain}
  <2>1. PICK f \in ForeignSpends, s \in chain : spend = [f EXCEPT !.coin = s.coin]
    BY <1>4
  <2>2. f = StoreSpend(f.coin, f.reveal, f.proof, f.key, f.does)
    BY ForeignSpendsAreForeign
  <2>3. spend.coin = s.coin /\ spend.reveal = f.reveal /\ spend.does = f.does
    BY <2>1, <2>2 DEF StoreSpend
  <2>4. CASE f.reveal = OrdinaryPuzzle
    BY <2>3, <2>4, OrdinaryHydrates
  <2>5. CASE f.reveal # OrdinaryPuzzle
    <3>1. /\ IsStoreInfo(f.reveal) /\ f.reveal.launcherId # CoinId(LauncherCoin)
          /\ f.does.form \in {"melt", "recreate"}
      BY <2>5, ForeignSpendsAreForeign
    <3>2. CASE IsLaunch(s)
      <4>1. s.coin = LauncherCoin
        BY <3>2 DEF IsLaunch, LaunchSpend, StoreSpend
      <4>2. IsCoin(s.coin) /\ s.coin.ph = LauncherPh
        BY <4>1 DEF LauncherCoin, IsCoin, Coin
      <4>3. StorePh(f.reveal) # LauncherPh
        BY DEF StorePh, SingletonPh, LauncherPh, LauncherPuzzle, TreeHash, Curried
      <4>4. IsStoreSpend(spend)
        BY <2>3, <3>1, <4>2, <4>3 DEF IsStoreSpend
      <4>5. QED
        BY <4>4, StoreSpendHydrates
    <3>3. CASE ~ IsLaunch(s)
      <4>1. IsStoreSpend(s) /\ StorePh(s.reveal) = s.coin.ph /\ OfThisStore(s.reveal)
        BY <3>3 DEF ChainInv
      <4>2. StorePh(f.reveal) # s.coin.ph
        BY <3>1, <4>1, StorePhIsInjective DEF OfThisStore
      <4>3. IsStoreSpend(spend)
        BY <2>3, <3>1, <4>1, <4>2 DEF IsStoreSpend
      <4>4. QED
        BY <4>3, StoreSpendHydrates
    <3>4. QED
      BY <3>2, <3>3
  <2>6. QED
    BY <2>4, <2>5
<1>5. QED
  BY <1>1, <1>2, <1>3, <1>4 DEF Answers

(* Other software, when it hints, makes a store its spend tells of.        *)
LEMMA OtherSpendMakes ==
    ASSUME NEW coin, IsCoin(coin), OfThisStore(CommittedInfo(coin)),
           StorePh(CommittedInfo(coin)) = coin.ph,
           NEW next, IsStoreInfo(next), next.launcherId = CommittedInfo(coin).launcherId,
           NEW memos \in {"full", "truncated"}, NEW key,
           NEW spend, spend = OtherSpend(coin, key, next, memos)
    PROVE  /\ IsStoreSpend(spend)
           /\ spend.does.form = "recreate"
           /\ next.launcherId = spend.reveal.launcherId
           /\ next.metadata = spend.does.metadata /\ Layer(next) = spend.does.layer
<1>1. /\ spend.coin = coin /\ spend.reveal = CommittedInfo(coin)
      /\ spend.does = Recreate(next.metadata, Layer(next),
                               IF memos = "truncated" THEN TruncatedMemos
                               ELSE RecreationMemos(next.owner, next.delegated))
  BY DEF OtherSpend, StoreSpend
<1>2. /\ spend.does.form = "recreate"
      /\ spend.does.metadata = next.metadata /\ spend.does.layer = Layer(next)
  BY <1>1 DEF Recreate
<1>3. WellHinted(spend)
  <2>1. CASE memos = "truncated"
    BY <1>1, <2>1 DEF WellHinted, Recreate, TruncatedMemos
  <2>2. CASE memos = "full"
    <3>1. spend.does.memos = RecreationMemos(next.owner, next.delegated)
      BY <1>1, <2>2 DEF Recreate
    <3>2. /\ spend.does.memos.form = "full" /\ spend.does.memos.owner = next.owner
          /\ DelegatedFromMemos(spend.does.memos) = next.delegated
      BY <3>1, MemosRoundTrip DEF RecreationMemos, IsStoreInfo
    <3>3. next = Info(spend.reveal.launcherId, spend.does.metadata,
                      spend.does.memos.owner, DelegatedFromMemos(spend.does.memos))
      BY <1>1, <1>2, <3>2 DEF IsStoreInfo
    <3>4. QED
      BY <1>2, <3>2, <3>3 DEF WellHinted
  <2>3. QED
    BY <2>1, <2>2
<1>4. QED
  BY <1>1, <1>2, <1>3 DEF IsStoreSpend, OfThisStore

(* A step of other software, whatever it is after.                         *)
OthersStep ==
    \E coin \in tip, memos \in OtherMemos : \E key, next :
        /\ OfThisStore(next)
        /\ OthersMake(coin, key, next, memos)

(* Whatever other software does to the tip, it recreates it.               *)
LEMMA OthersMakeStores ==
    ASSUME TipInv, NEW coin \in tip, NEW memos \in OtherMemos,
           \/ \E key \in Keys \cup WriterKeys, metadata \in Metadata :
                OthersWrite(coin, key, metadata, memos)
           \/ OthersRead(coin, memos)
           \/ \E key \in Keys, delegated \in DelegationSets :
                OthersGrant(coin, key, delegated, memos)
           \/ \E key, owner \in Keys : OthersTransfer(coin, key, owner, memos)
    PROVE  OthersStep
<1> DEFINE info == CommittedInfo(coin)
<1>1. /\ OfThisStore(info)
      /\ info = Info(info.launcherId, info.metadata, info.owner, info.delegated)
  BY DEF TipInv, OfThisStore, IsStoreInfo
<1> HIDE DEF info
<1>2. \A metadata : OfThisStore([info EXCEPT !.metadata = metadata])
  BY <1>1 DEF OfThisStore, IsStoreInfo, Info
<1>3. \A delegated \in DelegationSets : OfThisStore([info EXCEPT !.delegated = delegated])
  BY <1>1, FirstInfosAreOfThisStore DEF OfThisStore, IsStoreInfo, Info, DelegationSets
<1>4. \A owner : OfThisStore([info EXCEPT !.owner = P2Hash(owner)])
  BY <1>1 DEF OfThisStore, IsStoreInfo, Info, P2Hash, TreeHash, Curried
<1>5. CASE \E key \in Keys \cup WriterKeys, metadata \in Metadata :
             OthersWrite(coin, key, metadata, memos)
  BY <1>2, <1>5 DEF OthersStep, OthersWrite, info
<1>6. CASE OthersRead(coin, memos)
  BY <1>1, <1>6 DEF OthersStep, OthersRead, info
<1>7. CASE \E key \in Keys, delegated \in DelegationSets : OthersGrant(coin, key, delegated, memos)
  BY <1>3, <1>7 DEF OthersStep, OthersGrant, info
<1>8. CASE \E key, owner \in Keys : OthersTransfer(coin, key, owner, memos)
  BY <1>4, <1>8 DEF OthersStep, OthersTransfer, info
<1>9. QED
  BY <1>5, <1>6, <1>7, <1>8

(* The same, as a spend that is applied.                                   *)
LEMMA OthersApply ==
    ASSUME OthersHint, TipInv, OthersStep
    PROVE  /\ \E spend : /\ Apply(spend) /\ IsStoreSpend(spend)
                         /\ \E next : /\ OfThisStore(next)
                                      /\ next.launcherId = spend.reveal.launcherId
                                      /\ next.metadata = spend.does.metadata
                                      /\ Layer(next) = spend.does.layer
                         /\ spend.does.form = "recreate"
           /\ author' = "other"
           /\ UNCHANGED <<built, held, result>>
<1>1. PICK coin, memos, key, next :
        /\ coin \in tip /\ memos \in OtherMemos
        /\ OfThisStore(next) /\ OthersMake(coin, key, next, memos)
  BY DEF OthersStep
<1>2. PICK spend : spend = OtherSpend(coin, key, next, memos)
  OBVIOUS
<1>3. Apply(spend) /\ author' = "other" /\ UNCHANGED <<built, held, result>>
  BY <1>1, <1>2 DEF OthersMake
<1>4. memos \in {"full", "truncated"}
  BY <1>1 DEF OthersHint
<1>5. /\ IsStoreSpend(spend)
      /\ spend.does.form = "recreate"
      /\ next.launcherId = spend.reveal.launcherId
      /\ next.metadata = spend.does.metadata /\ Layer(next) = spend.does.layer
  BY <1>1, <1>2, <1>4, OtherSpendMakes DEF TipInv, OfThisStore
<1>6. QED
  BY <1>1, <1>3, <1>5

(* To hydrate keeps the invariant, whichever spend the source returned;    *)
LEMMA HydratesStep ==
    ASSUME IInv, NEW c \in Clients, NEW spend \in Answers, ClientHydrates(c, spend)
    PROVE  IInv'
<1>1. HydratesSoundly(spend)
  BY AnswersHydrate DEF IInv
<1>2. result' \in Results
  BY <1>1 DEF ClientHydrates, HydratesSoundly, HydrateResults, Results
<1>3. HeldInv'
  BY <1>1 DEF IInv, HeldInv, ClientHydrates, HydratesSoundly
<1>4. ChainInv' /\ TipInv' /\ BuiltInv'
  BY DEF IInv, ClientHydrates, ChainInv, TipInv, BuiltInv
<1>5. QED
  BY <1>2, <1>3, <1>4 DEF IInv

(* so does an update, chained or not,                                      *)
LEMMA UpdatesStep ==
    ASSUME IInv, NEW c \in Clients, NEW metadata, NEW goesOn \in {"stay", "child", "proof"},
           ClientUpdates(c, KeyOf[c], metadata, goesOn)
    PROVE  IInv'
<1> DEFINE store == held[c]
           key == KeyOf[c]
           returned == UpdateRoot(store, key, metadata)
           offer == [spend |-> returned.spend, op |-> "update", metadata |-> metadata,
                     seen |-> store.info, key |-> key]
<1>1. /\ goesOn = "stay" \/ OwnerControlsStore(store, key)
      /\ result' = returned.is
      /\ UNCHANGED <<tip, chain, author>>
      /\ SoundStore(store)
  BY DEF ClientUpdates, IInv, HeldInv
<1>2. /\ returned.is \in {"ok", "driver", "unsupported_owner"}
      /\ returned.is = "ok" => IsOffer(offer)
  BY <1>1, UpdateRootReturns
<1>3. ChainInv' /\ TipInv' /\ result' \in Results
  BY <1>1, <1>2 DEF IInv, ChainInv, TipInv, Results
<1>4. CASE returned.is # "ok"
  <2>1. UNCHANGED <<built, held>>
    BY <1>4 DEF ClientUpdates
  <2>2. QED
    BY <1>3, <2>1 DEF IInv, BuiltInv, HeldInv
<1>5. CASE returned.is = "ok"
  <2>1. built' = built \cup {offer}
    BY <1>5 DEF ClientUpdates
  <2> HIDE DEF offer
  <2>2. BuiltInv'
    BY <1>2, <1>5, <2>1 DEF IInv, BuiltInv
  <2>3. CASE goesOn = "stay"
    <3>1. held' = held
      BY <1>5, <2>3 DEF ClientUpdates
    <3>2. QED
      BY <1>3, <2>2, <3>1 DEF IInv, HeldInv
  <2>4. CASE goesOn # "stay"
    <3>1. key # "custom" /\ P2Hash(key) = store.info.owner
      BY <1>1, <1>5, <2>4 DEF UpdateRoot, OwnerControlsStore
    <3>2. /\ returned.child = Datastore(ChildCoin(returned.spend), ChildLineageProof(store),
                                        [store.info EXCEPT !.metadata = metadata])
          /\ SoundStore(returned.child)
      BY <1>1, <3>1, UpdateRootReturns
    <3>3. Datastore(returned.child.coin, ChildLineageProof(store), returned.child.info)
            = returned.child
      BY <3>2 DEF Datastore
    <3>4. held' = [held EXCEPT ![c] = returned.child]
      BY <1>5, <2>4, <3>3 DEF ClientUpdates
    <3> HIDE DEF returned
    <3>5. HeldInv'
      BY <3>2, <3>4 DEF IInv, HeldInv
    <3>6. QED
      BY <1>3, <2>2, <3>5 DEF IInv
  <2>5. QED
    BY <2>3, <2>4
<1>6. QED
  BY <1>4, <1>5

(* a melt,                                                                 *)
LEMMA MeltsStep ==
    ASSUME IInv, NEW c \in Clients, ClientMelts(c, KeyOf[c])
    PROVE  IInv'
<1> DEFINE store == held[c]
           key == KeyOf[c]
           spend == StoreSpend(store.coin, Revealed(store, key), store.proof, key, Melting)
           offer == [spend |-> spend, op |-> "melt", metadata |-> "none",
                     seen |-> store.info, key |-> key]
<1>1. /\ result' = Melt(store, key).is
      /\ UNCHANGED <<tip, chain, author, held>>
      /\ SoundStore(store)
  BY DEF ClientMelts, IInv, HeldInv
<1>2. Melt(store, key).is \in {"ok", "unsupported_owner", "not_the_owner"}
  BY DEF Melt
<1>3. ChainInv' /\ TipInv' /\ HeldInv' /\ result' \in Results
  BY <1>1, <1>2 DEF IInv, ChainInv, TipInv, HeldInv, Results
<1>4. CASE Melt(store, key).is # "ok"
  <2>1. built' = built
    BY <1>4 DEF ClientMelts
  <2>2. QED
    BY <1>3, <2>1 DEF IInv, BuiltInv
<1>5. CASE Melt(store, key).is = "ok"
  <2>1. P2Hash(key) = store.info.owner /\ Melt(store, key).spend = spend
    BY <1>5 DEF Melt, OwnerControlsStore
  <2>2. built' = built \cup {offer}
    BY <1>5, <2>1 DEF ClientMelts
  <2>3. /\ spend.coin = store.coin /\ spend.reveal = Revealed(store, key)
        /\ spend.key = key /\ spend.does = Melting
    BY DEF StoreSpend
  <2> HIDE DEF spend
  <2>4. IsOffer(offer)
    BY <1>1, <2>1, <2>3 DEF IsOffer, SoundStore, Revealed
  <2> HIDE DEF offer
  <2>5. BuiltInv'
    BY <2>2, <2>4 DEF IInv, BuiltInv
  <2>6. QED
    BY <1>3, <2>5 DEF IInv
<1>6. QED
  BY <1>4, <1>5

(* a spend that confirms,                                                  *)
LEMMA ConfirmStep ==
    ASSUME IInv, NEW entry \in built, Confirm(entry)
    PROVE  IInv'
<1>1. IsOffer(entry)
  BY DEF IInv, BuiltInv
<1> DEFINE spend == entry.spend
<1>2. Apply(spend) /\ UNCHANGED <<built, held, result>>
  BY DEF Confirm
<1>3. IsStoreSpend(spend)
  BY <1>1, OfferIsStoreSpend
<1>4. ASSUME spend.does.form = "recreate"
      PROVE  \E next : /\ IsStoreInfo(next) /\ next.launcherId = spend.reveal.launcherId
                       /\ next.metadata = spend.does.metadata /\ Layer(next) = spend.does.layer
  <2>1. StorePh(spend.reveal) = spend.coin.ph
    BY <1>2, <1>3, InfoIsNoPuzzle DEF Apply, Valid, IsStoreSpend
  <2>2. spend.does = Recreation(spend.reveal, entry.metadata)
    BY <1>1, <1>4, <2>1, RevealingOffer DEF IsOffer, Melting
  <2> DEFINE next == [spend.reveal EXCEPT !.metadata = entry.metadata]
  <2>3. IsStoreInfo(spend.reveal)
    BY <1>3 DEF IsStoreSpend
  <2> HIDE DEF spend
  <2>4. /\ IsStoreInfo(next) /\ next.launcherId = spend.reveal.launcherId
        /\ next.metadata = spend.does.metadata /\ Layer(next) = spend.does.layer
    BY <2>2, <2>3, RecreationIsHinted
  <2>5. QED
    BY <2>4
<1> HIDE DEF spend
<1>5. ChainInv' /\ TipInv'
  BY <1>2, <1>3, <1>4, AppliedSpend DEF IInv
<1>6. QED
  BY <1>2, <1>5 DEF IInv, BuiltInv, HeldInv

(* and whatever other software does, if it hints its transfers.            *)
LEMMA OthersPreserve ==
    ASSUME OthersHint, IInv, OthersStep
    PROVE  IInv'
<1>1. /\ \E spend : /\ Apply(spend) /\ IsStoreSpend(spend)
                    /\ \E next : /\ OfThisStore(next)
                                 /\ next.launcherId = spend.reveal.launcherId
                                 /\ next.metadata = spend.does.metadata
                                 /\ Layer(next) = spend.does.layer
      /\ UNCHANGED <<built, held, result>>
  BY OthersApply DEF IInv
<1>2. ChainInv' /\ TipInv'
  BY <1>1, AppliedSpend DEF IInv, OfThisStore
<1>3. QED
  BY <1>1, <1>2 DEF IInv, BuiltInv, HeldInv

(* A step of the system, sorted by who takes it.                           *)
LEMMA WhoSteps ==
    ASSUME IInv, [Next]_vars
    PROVE  \/ \E c \in Clients, spend \in Answers : ClientHydrates(c, spend)
           \/ \E c \in Clients, metadata \in Metadata, goesOn \in {"stay", "child", "proof"} :
                ClientUpdates(c, KeyOf[c], metadata, goesOn)
           \/ \E c \in Clients : ClientMelts(c, KeyOf[c])
           \/ \E entry \in built : Confirm(entry)
           \/ OthersStep
           \/ UNCHANGED vars
<1>1. ASSUME NEW coin \in tip, NEW memos \in OtherMemos,
             \/ \E key \in Keys \cup WriterKeys, metadata \in Metadata :
                  OthersWrite(coin, key, metadata, memos)
             \/ OthersRead(coin, memos)
             \/ \E key \in Keys, delegated \in DelegationSets :
                  OthersGrant(coin, key, delegated, memos)
             \/ \E key, owner \in Keys : OthersTransfer(coin, key, owner, memos)
      PROVE  OthersStep
  BY <1>1, OthersMakeStores DEF IInv
<1>2. QED
  BY <1>1 DEF Next

(* Every step keeps it.                                                    *)
LEMMA StoreStep ==
    ASSUME OthersHint, IInv, [Next]_vars
    PROVE  IInv'
<1>1. ASSUME UNCHANGED vars PROVE IInv'
  BY <1>1 DEF vars, IInv, ChainInv, TipInv, BuiltInv, HeldInv
<1>2. QED
  BY <1>1, WhoSteps, HydratesStep, UpdatesStep, MeltsStep, ConfirmStep, OthersPreserve

(* It holds of every store and its clients.                                *)
LEMMA StoreInvariant ==
    ASSUME OthersHint
    PROVE  Spec => []IInv
<1>1. IInv /\ [Next]_vars => IInv'
  BY StoreStep
<1>2. QED
  BY <1>1, StoreInit, PTL DEF Spec
-----------------------------------------------------------------------------
(* The spends, stores and results of a store's life have their types: one  *)
(* coin at most is the store, and what hydrate, update_root and melt       *)
(* answer is one of their documented results.                              *)
THEOREM StoreTypeCorrect ==
    ASSUME OthersHint
    PROVE  Spec => []TypeOK
<1>1. ASSUME IInv PROVE TypeOK
  <2>1. Cardinality(tip) <= 1
    <3>1. CASE tip = {}
      BY <3>1, FS_EmptySet
    <3>2. CASE tip # {}
      <4>1. PICK coin \in tip : tip = {coin}
        BY <1>1, <3>2 DEF IInv, TipInv
      <4>2. Cardinality({coin}) = 1
        BY FS_Singleton
      <4>3. QED
        BY <4>1, <4>2
    <3>3. QED
      BY <3>1, <3>2
  <2>2. \A b \in built : b.op \in {"update", "melt"} /\ b.spend.does.form \in {"recreate", "melt"}
    BY <1>1, OfferIsStoreSpend DEF IInv, BuiltInv, IsOffer, IsStoreSpend
  <2>3. \A store \in HeldStores : store.coin.amount % 2 = 1
    BY <1>1 DEF IInv, HeldInv, HeldStores, SoundStore
  <2>4. QED
    BY <1>1, <2>1, <2>2, <2>3 DEF TypeOK, IInv, ChainInv, TipInv, Results
<1>2. QED
  BY <1>1, StoreInvariant, PTL

(* A store whose coin descends from this one's is held as this one.        *)
LEMMA HeldLauncherId ==
    ASSUME IInv, NEW store, SoundStore(store), NEW s \in chain, store.coin.parent = CoinId(s.coin)
    PROVE  store.info.launcherId = CoinId(LauncherCoin)
<1>1. ProvenParent(store) = s.coin
  BY DEF SoundStore, CoinId
<1>2. CASE IsLaunch(s)
  <2>1. s.coin = LauncherCoin
    BY <1>2 DEF IsLaunch, LaunchSpend, StoreSpend
  <2>2. "inner" \notin DOMAIN store.proof
    BY <1>1, <2>1 DEF ProvenParent, LauncherCoin, Coin, SingletonPh, LauncherPh, LauncherPuzzle,
                      TreeHash, Curried
  <2>3. QED
    BY <2>1, <2>2 DEF SoundStore
<1>3. CASE ~ IsLaunch(s)
  <2>1. StorePh(s.reveal) = s.coin.ph /\ OfThisStore(s.reveal)
    BY <1>3 DEF IInv, ChainInv
  <2>2. s.coin.ph # LauncherPh
    BY <2>1 DEF StorePh, SingletonPh, LauncherPh, LauncherPuzzle, TreeHash, Curried
  <2>3. s.coin.ph = SingletonPh(store.info.launcherId, store.proof.inner)
    BY <1>1, <2>2 DEF ProvenParent, Coin
  <2>4. QED
    BY <2>1, <2>3 DEF StorePh, SingletonPh, TreeHash, Curried, OfThisStore
<1>4. QED
  BY <1>2, <1>3

(* hydrate.rs:23-83.  For any source, any clients and any chain of spends, *)
(* what a client holds is what its coin commits to, and no descendant of   *)
(* this store is ever held as another's.                                   *)
THEOREM HoldsWhatItsCoinCommitsTo ==
    ASSUME OthersHint
    PROVE  Spec => []HeldStoreMatchesItsCoin
<1>1. ASSUME IInv PROVE HeldStoreMatchesItsCoin
  <2>1. \A store \in HeldStores : SoundStore(store)
    BY <1>1 DEF IInv, HeldInv, HeldStores
  <2>2. QED
    BY <1>1, <2>1, HeldLauncherId DEF HeldStoreMatchesItsCoin, SoundStore
<1>2. QED
  BY <1>1, StoreInvariant, PTL

(* The clients' keys are standard ones: Owner::Custom is refused.          *)
StandardKeys == \A c \in Clients : KeyOf[c] # "custom"

(* lineage.rs:16-74, update.rs:22-101.  Whatever path a Datastore came     *)
(* along, while its coin is unspent its owner's update is one the chain    *)
(* accepts, and the child returned is the coin it makes.                   *)
THEOREM FreshStoresAreSpendable ==
    ASSUME OthersHint, StandardKeys
    PROVE  Spec => []FreshStoreIsSpendable
<1>1. ASSUME IInv PROVE FreshStoreIsSpendable
  <2>1. SUFFICES ASSUME NEW c \in Clients, held[c] # Nothing, held[c].coin \in tip,
                        Owns(KeyOf[c], CommittedInfo(held[c].coin)), NEW metadata \in Metadata
                 PROVE  LET returned == UpdateRoot(held[c], KeyOf[c], metadata)
                        IN /\ returned.is = "ok"
                           /\ Valid(returned.spend)
                           /\ returned.child.coin = ChildCoin(returned.spend)
                           /\ CommittedInfo(returned.child.coin) = returned.child.info
    BY DEF FreshStoreIsSpendable
  <2> DEFINE store == held[c]
             key == KeyOf[c]
             returned == UpdateRoot(store, key, metadata)
             spend == returned.spend
  <2>2. SoundStore(store)
    BY <1>1, <2>1 DEF IInv, HeldInv
  <2>3. CommittedInfo(store.coin) = store.info
    BY <2>2, CommittedInfoOf DEF SoundStore
  <2>4. key # "custom" /\ P2Hash(key) = store.info.owner
    BY <2>1, <2>3 DEF StandardKeys, Owns
  <2> HIDE DEF store, key
  <2>5. /\ returned.is = "ok"
        /\ spend.coin = store.coin /\ spend.reveal = store.info
        /\ spend.proof = store.proof /\ spend.key = key
        /\ returned.child = Datastore(ChildCoin(spend), ChildLineageProof(store),
                                      [store.info EXCEPT !.metadata = metadata])
        /\ SoundStore(returned.child)
    BY <2>2, <2>4, UpdateRootReturns
  <2>6. spend.coin \in tip
    BY <2>1, <2>5 DEF store
  <2> HIDE DEF returned
  <2>7. RevealHash(spend.reveal) = spend.coin.ph
    BY <2>2, <2>5, InfoIsNoPuzzle DEF SoundStore
  <2>8. ProofHolds(spend)
    BY <2>2, <2>5 DEF ProofHolds, SoundStore, ProvenParent
  <2>9. Owns(spend.key, spend.reveal)
    BY <2>4, <2>5 DEF Owns
  <2>10. Valid(spend)
    BY <2>6, <2>7, <2>8, <2>9 DEF Valid
  <2>11. returned.child.coin = ChildCoin(spend)
    BY <2>5 DEF Datastore
  <2>12. CommittedInfo(returned.child.coin) = returned.child.info
    BY <2>5, CommittedInfoOf DEF SoundStore
  <2>13. QED
    BY <2>5, <2>10, <2>11, <2>12 DEF returned, store, key
<1>2. QED
  BY <1>1, StoreInvariant, PTL

(* melt.rs:69-118.  While the coin a client holds is unspent, melt builds  *)
(* its irreversible spend for the owner on chain and for nobody else, with *)
(* or without a delegation layer.                                          *)
THEOREM OnlyTheOwnerMelts ==
    ASSUME OthersHint, StandardKeys
    PROVE  Spec => []MeltIsForTheOwner
<1>1. ASSUME IInv PROVE MeltIsForTheOwner
  <2>1. SUFFICES ASSUME NEW c \in Clients, held[c] # Nothing
                 PROVE  Melt(held[c], KeyOf[c]).is = "ok"
                          <=> Owns(KeyOf[c], CommittedInfo(held[c].coin))
    BY DEF MeltIsForTheOwner
  <2>2. CommittedInfo(held[c].coin) = held[c].info
    BY <1>1, <2>1, CommittedInfoOf DEF IInv, HeldInv, SoundStore
  <2>3. KeyOf[c] # "custom"
    BY DEF StandardKeys
  <2>4. QED
    BY <2>2, <2>3 DEF Melt, OwnerControlsStore, Owns
<1>2. QED
  BY <1>1, StoreInvariant, PTL

(* One step: a spend enters the chain only by being applied.               *)
LEMMA NewSpendsAreApplied ==
    ASSUME OthersHint, IInv, [Next]_vars, NEW spend, spend \in chain', spend \notin chain
    PROVE  Apply(spend)
<1>1. CASE \E entry \in built : Confirm(entry)
  <2>1. PICK entry \in built : Apply(entry.spend)
    BY <1>1 DEF Confirm
  <2>2. spend = entry.spend
    BY <2>1 DEF Apply
  <2>3. QED
    BY <2>1, <2>2
<1>2. CASE OthersStep
  <2>1. PICK other : Apply(other)
    BY <1>2, OthersApply DEF IInv
  <2>2. spend = other
    BY <2>1 DEF Apply
  <2>3. QED
    BY <2>1, <2>2
<1>3. CASE chain' = chain
  BY <1>3
<1>4. QED
  BY <1>1, <1>2, <1>3, WhoSteps DEF ClientHydrates, ClientUpdates, ClientMelts, vars

(* update.rs:3-9, 22-28.  A spend of update_root that confirms - stale, or *)
(* chained on a child that was not confirmed - keeps launcher id, owner    *)
(* and delegation set, and anchors the metadata asked for.                 *)
THEOREM UpdatesPreserveIdentity ==
    ASSUME OthersHint
    PROVE  Spec => UpdatePreservesIdentity
<1>1. ASSUME IInv, [Next]_vars, NEW b \in built, b.op = "update", b.spend \in chain' \ chain,
             NEW coin \in tip, NEW next \in tip'
      PROVE  CommittedInfo(next) = [CommittedInfo(coin) EXCEPT !.metadata = b.metadata]
  <2>1. Apply(b.spend)
    BY <1>1, NewSpendsAreApplied
  <2>2. IsOffer(b)
    BY <1>1 DEF IInv, BuiltInv
  <2>3. /\ b.spend.coin = coin
        /\ RevealHash(b.spend.reveal) = b.spend.coin.ph
    BY <1>1, <2>1 DEF Apply, Valid, IInv, TipInv
  <2>4. /\ CommittedInfo(b.spend.coin) = b.seen
        /\ b.spend.does.form = "recreate"
        /\ CommittedInfo(ChildCoin(b.spend)) = [b.seen EXCEPT !.metadata = b.metadata]
    BY <1>1, <2>2, <2>3, AcceptedUpdate
  <2>5. next = ChildCoin(b.spend)
    BY <1>1, <2>1, <2>4 DEF Apply
  <2>6. QED
    BY <2>3, <2>4, <2>5
<1>2. IInv /\ [Next]_vars =>
        [\A b \in built : b.op = "update" /\ b.spend \in chain' \ chain =>
           \A coin \in tip, next \in tip' :
              CommittedInfo(next) = [CommittedInfo(coin) EXCEPT !.metadata = b.metadata]]_vars
  BY <1>1
<1>3. QED
  BY <1>2, StoreInvariant, PTL DEF Spec, UpdatePreservesIdentity
-----------------------------------------------------------------------------
(* The store implements the compare-and-swap register of StoreRegister.    *)
usedTokens == storeCoinIds \ {Gone}

(* There is one tip, and the register holds what it commits to.            *)
LEMMA TheTip ==
    ASSUME TipInv, NEW coin \in tip
    PROVE  /\ tip = {coin} /\ tipId = CoinId(coin) /\ tipInfo = CommittedInfo(coin)
           /\ tipId # Gone
<1>1. tip = {coin}
  BY DEF TipInv
<1>2. (CHOOSE x \in tip : TRUE) = coin
  BY <1>1
<1>3. CoinId(coin) # Gone
  BY DEF CoinId, Gone
<1>4. QED
  BY <1>1, <1>2, <1>3 DEF tipId, tipInfo

(* A coin a store spend makes has a token the register never had: its      *)
(* parent was unspent, so nothing descends from it.                        *)
LEMMA NewToken ==
    ASSUME ChainInv, TipInv, NEW coin \in tip, NEW spend, spend.coin = coin
    PROVE  CoinId(ChildCoin(spend)) \notin usedTokens
<1> DEFINE child == ChildCoin(spend)
<1>1. child.parent = CoinId(coin)
  BY DEF ChildCoin, Coin
<1> HIDE DEF child
<1>2. child # coin
  <2>1. PICK t \in chain : coin.parent = CoinId(t.coin)
    BY DEF TipInv
  <2>2. t.coin # coin
    BY DEF TipInv
  <2>3. QED
    BY <1>1, <2>1, <2>2 DEF CoinId
<1>3. ASSUME NEW s \in chain PROVE child # s.coin
  <2>1. SUFFICES ASSUME child = s.coin PROVE FALSE
    OBVIOUS
  <2>2. s.coin # LauncherCoin
    BY <1>1, <2>1 DEF LauncherCoin, Coin, CoinId, Genesis
  <2>3. PICK t \in chain : s.coin.parent = CoinId(t.coin)
    BY <2>2 DEF ChainInv
  <2>4. t.coin = coin
    BY <1>1, <2>1, <2>3 DEF CoinId
  <2>5. QED
    BY <2>4 DEF TipInv
<1>4. tipId = CoinId(coin)
  BY TheTip
<1>5. QED
  BY <1>2, <1>3, <1>4 DEF usedTokens, storeCoinIds, CoinId, child

(* What a recreation does to the register, whoever makes it.               *)
LEMMA RecreationAdvances ==
    ASSUME IInv, NEW spend, IsStoreSpend(spend), Apply(spend), spend.does.form = "recreate", TipInv'
    PROVE  /\ tipId = CoinId(spend.coin) /\ tipId # Gone /\ tipInfo = CommittedInfo(spend.coin)
           /\ tipInfo' = CommittedInfo(ChildCoin(spend))
           /\ tipId' \notin usedTokens
           /\ usedTokens' = usedTokens \cup {tipId'}
<1> DEFINE coin == spend.coin
           child == ChildCoin(spend)
<1>1. /\ coin \in tip /\ tip' = {child} /\ chain' = chain \cup {spend}
      /\ RevealHash(spend.reveal) = coin.ph
  BY DEF Apply, Valid
<1>2. tipId = CoinId(coin) /\ tipId # Gone /\ tipInfo = CommittedInfo(coin)
  BY <1>1, TheTip DEF IInv
<1>3. tipId' = CoinId(child) /\ tipInfo' = CommittedInfo(child)
  <2>1. (CHOOSE x \in tip' : TRUE) = child
    BY <1>1
  <2>2. QED
    BY <1>1, <2>1 DEF tipId, tipInfo
<1>4. CoinId(child) \notin usedTokens
  BY <1>1, NewToken DEF IInv
<1>5. coin # LauncherCoin
  BY <1>1 DEF IInv, TipInv, LauncherCoin, Coin, CoinId, Genesis
<1>6. CoinId(child) # Gone
  BY DEF CoinId, Gone
<1>7. storeCoinIds' = storeCoinIds \cup {CoinId(child)}
  <2>1. {CoinId(s.coin) : s \in {x \in chain' : x.coin # LauncherCoin}}
          = {CoinId(s.coin) : s \in {x \in chain : x.coin # LauncherCoin}} \cup {CoinId(coin)}
    BY <1>1, <1>5
  <2>2. QED
    BY <1>2, <1>3, <2>1 DEF storeCoinIds
<1>8. QED
  BY <1>2, <1>3, <1>4, <1>6, <1>7 DEF usedTokens
-----------------------------------------------------------------------------
(* A launched store is a register at its start.                            *)
LEMMA RegisterStart ==
    ASSUME Init
    PROVE  Register!RegisterInit
<1>1. PICK info \in FirstInfos, memos \in FirstMemos :
        /\ chain = {LaunchSpend(info, memos)}
        /\ tip = {Coin(CoinId(LauncherCoin), StorePh(info), FirstAmount)}
  BY DEF Init
<1>2. \A s \in chain : s.coin = LauncherCoin
  BY <1>1 DEF LaunchSpend, StoreSpend
<1>3. storeCoinIds = {tipId}
  BY <1>2 DEF storeCoinIds
<1>4. tipId # Gone
  BY <1>1 DEF tipId, CoinId, Gone
<1>5. offersMade = {} /\ author = "other"
  BY DEF Init, offersMade
<1>6. QED
  BY <1>3, <1>4, <1>5 DEF Register!RegisterInit

(* An offer of an accepted entry is on the current token and content.      *)
LEMMA ConfirmRefines ==
    ASSUME IInv, NEW entry \in built, Confirm(entry), IInv'
    PROVE  \E o \in offersMade : Register!UpdateTakesEffect(o) \/ Register!MeltTakesEffect(o)
<1> DEFINE spend == entry.spend
           o == [on |-> CoinId(spend.coin), seen |-> entry.seen, op |-> entry.op,
                 metadata |-> entry.metadata, by |-> P2Hash(entry.key)]
<1>1. /\ Apply(spend) /\ author' = "client" /\ built' = built
      /\ IsOffer(entry) /\ IsStoreSpend(spend)
  BY OfferIsStoreSpend DEF Confirm, IInv, BuiltInv
<1>2. /\ spend.coin \in tip /\ chain' = chain \cup {spend}
      /\ RevealHash(spend.reveal) = spend.coin.ph
  BY <1>1 DEF Apply, Valid
<1>3. o \in offersMade /\ offersMade' = offersMade
  BY <1>1 DEF offersMade
<1>4. tipId = CoinId(spend.coin) /\ tipId # Gone /\ tipInfo = CommittedInfo(spend.coin)
  BY <1>2, TheTip DEF IInv
<1>5. /\ CommittedInfo(spend.coin) = entry.seen
      /\ P2Hash(entry.key) = entry.seen.owner
  <2>1. StorePh(spend.reveal) = spend.coin.ph
    BY <1>1, <1>2, InfoIsNoPuzzle DEF IsStoreSpend
  <2>2. QED
    BY <1>1, <2>1, RevealingOffer, CommittedInfoOf DEF IsOffer
<1>6. CASE entry.op = "update"
  <2>1. /\ spend.does.form = "recreate"
        /\ CommittedInfo(ChildCoin(spend)) = [entry.seen EXCEPT !.metadata = entry.metadata]
    BY <1>1, <1>2, <1>6, AcceptedUpdate
  <2>2. /\ tipInfo' = CommittedInfo(ChildCoin(spend))
        /\ tipId' \notin usedTokens
        /\ usedTokens' = usedTokens \cup {tipId'}
    BY <1>1, <2>1, RecreationAdvances DEF IInv
  <2> HIDE DEF spend
  <2>3. Register!UpdateTakesEffect(o)
    BY <1>1, <1>3, <1>4, <1>5, <1>6, <2>1, <2>2
    DEF Register!UpdateTakesEffect, Register!Advance, usedTokens
  <2>4. QED
    BY <1>3, <2>3
<1>7. CASE entry.op = "melt"
  <2>1. spend.does.form = "melt"
    BY <1>1, <1>7 DEF IsOffer, Melting
  <2>2. tip' = {} /\ tipId' = Gone
    BY <1>1, <2>1 DEF Apply, tipId
  <2>3. {x \in chain' : x.does.form = "melt"} = {spend}
    BY <1>2, <2>1 DEF IInv, TipInv
  <2>4. tipInfo' = CommittedInfo(spend.coin)
    <3>1. {s.coin : s \in {x \in chain' : x.does.form = "melt"}} = {spend.coin}
      BY <2>3
    <3>2. tipInfo' = CommittedInfo(CHOOSE coin \in {spend.coin} : TRUE)
      BY <2>2, <3>1 DEF tipInfo
    <3>3. QED
      BY <3>2
  <2>5. usedTokens' = usedTokens
    <3>1. spend.coin # LauncherCoin
      BY <1>2 DEF IInv, TipInv, LauncherCoin, Coin, CoinId, Genesis
    <3>2. {CoinId(s.coin) : s \in {x \in chain' : x.coin # LauncherCoin}}
            = {CoinId(s.coin) : s \in {x \in chain : x.coin # LauncherCoin}} \cup {CoinId(spend.coin)}
      BY <1>2, <3>1
    <3>3. storeCoinIds' = storeCoinIds \cup {Gone}
      BY <1>4, <2>2, <3>2 DEF storeCoinIds
    <3>4. QED
      BY <3>3 DEF usedTokens
  <2> HIDE DEF spend
  <2>6. Register!MeltTakesEffect(o)
    BY <1>1, <1>3, <1>4, <1>5, <1>7, <2>2, <2>4, <2>5
    DEF Register!MeltTakesEffect, usedTokens
  <2>7. QED
    BY <1>3, <2>6
<1>8. QED
  BY <1>1, <1>6, <1>7 DEF IsOffer

(* What others do is a write of somebody else's.                           *)
LEMMA OthersRefine ==
    ASSUME OthersHint, IInv, OthersStep, IInv'
    PROVE  Register!OthersWrite
<1>1. PICK spend, next : /\ Apply(spend) /\ IsStoreSpend(spend) /\ spend.does.form = "recreate"
                         /\ OfThisStore(next) /\ next.launcherId = spend.reveal.launcherId
                         /\ next.metadata = spend.does.metadata /\ Layer(next) = spend.does.layer
  BY OthersApply DEF IInv
<1>2. author' = "other" /\ built' = built
  BY OthersApply DEF IInv
<1>3. /\ tipId # Gone /\ tipInfo = CommittedInfo(spend.coin)
      /\ tipInfo' = CommittedInfo(ChildCoin(spend))
      /\ tipId' \notin usedTokens
      /\ usedTokens' = usedTokens \cup {tipId'}
  BY <1>1, RecreationAdvances DEF IInv
<1>4. /\ spend.coin \in tip
      /\ tip' = {ChildCoin(spend)}
  BY <1>1 DEF Apply, Valid
<1>5. OfThisStore(tipInfo) /\ OfThisStore(tipInfo')
  BY <1>3, <1>4 DEF IInv, TipInv
<1>6. offersMade' = offersMade
  BY <1>2 DEF offersMade
<1>7. QED
  BY <1>2, <1>3, <1>5, <1>6
  DEF Register!OthersWrite, Register!Advance, usedTokens, OfThisStore

(* A client's own steps only make offers.                                  *)
LEMMA BuildingRefines ==
    ASSUME UNCHANGED <<tip, chain, author>>, NEW entry,
           built' = built \cup {entry} \/ built' = built
    PROVE  Register!Offer \/ UNCHANGED Register!registerVars
<1>1. UNCHANGED <<tipId, tipInfo, author, usedTokens>>
  BY DEF tipId, tipInfo, usedTokens, storeCoinIds
<1>2. CASE built' = built
  BY <1>1, <1>2 DEF Register!registerVars, offersMade, usedTokens
<1>3. CASE built' = built \cup {entry}
  <2> DEFINE o == [on |-> CoinId(entry.spend.coin), seen |-> entry.seen, op |-> entry.op,
                   metadata |-> entry.metadata, by |-> P2Hash(entry.key)]
  <2>1. offersMade' = offersMade \cup {o}
    BY <1>3 DEF offersMade
  <2> HIDE DEF o
  <2>2. QED
    BY <1>1, <2>1 DEF Register!Offer, usedTokens
<1>4. QED
  BY <1>2, <1>3

(* Every step of the store is a step of the register, or a stutter.        *)
LEMMA RegisterStep ==
    ASSUME OthersHint, IInv, [Next]_vars, IInv'
    PROVE  [Register!RegisterNext]_Register!registerVars
<1>1. ASSUME NEW c \in Clients, NEW spend \in Answers, ClientHydrates(c, spend)
      PROVE  UNCHANGED Register!registerVars
  BY <1>1 DEF ClientHydrates, Register!registerVars, tipId, tipInfo, offersMade, storeCoinIds
<1>2. ASSUME NEW c \in Clients, NEW metadata \in Metadata, NEW goesOn \in {"stay", "child", "proof"},
             ClientUpdates(c, KeyOf[c], metadata, goesOn)
      PROVE  Register!Offer \/ UNCHANGED Register!registerVars
  <2>1. /\ UNCHANGED <<tip, chain, author>>
        /\ \E entry : built' = built \cup {entry} \/ built' = built
    BY <1>2 DEF ClientUpdates
  <2>2. QED
    BY <2>1, BuildingRefines
<1>3. ASSUME NEW c \in Clients, ClientMelts(c, KeyOf[c])
      PROVE  Register!Offer \/ UNCHANGED Register!registerVars
  <2>1. /\ UNCHANGED <<tip, chain, author>>
        /\ \E entry : built' = built \cup {entry} \/ built' = built
    BY <1>3 DEF ClientMelts
  <2>2. QED
    BY <2>1, BuildingRefines
<1>4. ASSUME UNCHANGED vars PROVE UNCHANGED Register!registerVars
  BY <1>4 DEF vars, Register!registerVars, tipId, tipInfo, offersMade, storeCoinIds
<1>5. QED
  BY <1>1, <1>2, <1>3, <1>4, WhoSteps, ConfirmRefines, OthersRefine DEF Register!RegisterNext

(* update.rs:3-9, 28-39.  However stale the Datastore it was built from,   *)
(* and however its author's spends are chained and reordered, a client's   *)
(* spend takes effect only on the very state its author saw, for the owner *)
(* alone, and replaces exactly that: no update is lost.                    *)
THEOREM StoreIsARegister ==
    ASSUME OthersHint
    PROVE  Spec => ClientsCompareAndSwap
<1>1. Init => Register!RegisterInit
  BY RegisterStart
<1>2. IInv /\ IInv' /\ [Next]_vars => [Register!RegisterNext]_Register!registerVars
  BY RegisterStep
<1>3. QED
  BY <1>1, <1>2, StoreInvariant, PTL DEF Spec, ClientsCompareAndSwap, Register!RegisterSpec
=============================================================================
