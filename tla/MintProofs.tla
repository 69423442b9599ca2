----------------------------- MODULE MintProofs -----------------------------
(***************************************************************************)
(* Proofs about MintWallet, for every width of an amount, every set of     *)
(* keys, kinds, fees and networks, every finite set of funding coins and   *)
(* any number of mints.                                                    *)
(***************************************************************************)
EXTENDS MintWallet, LaunchBuilderProofs

-----------------------------------------------------------------------------
(* What a mint that returned Ok hands over, written out.                   *)
LauncherCoin(coin) == Coin(CoinId(coin), LauncherPh, 1)

StoreOf(coin, ph) ==
    Coin(CoinId(LauncherCoin(coin)),
         TreeHash(Curried("datastore", <<CoinId(LauncherCoin(coin)), ph>>)), 1)

ChangeOf(coin, ph, fee) == Coin(CoinId(coin), ph, coin.amount - (fee + 1))

HintedCreate(ph, kind) == CreateCoin(LauncherPh, 1, OwnerDiscoveryMemos(ph, kind))

OwnerCreates(coin, kind, ph, fee) ==
    IF coin.amount > fee + 1
      THEN <<HintedCreate(ph, kind), CreateCoin(ph, coin.amount - (fee + 1), <<ph>>)>>
      ELSE <<HintedCreate(ph, kind)>>

OwnerSpend(key, coin, kind, ph, fee) ==
    [coin |-> coin, reveal |-> P2Hash(key), creates |-> OwnerCreates(coin, kind, ph, fee),
     asserts |-> {CoinId(LauncherCoin(coin))}]

StoreSpend(coin, ph) ==
    [coin |-> LauncherCoin(coin), reveal |-> LauncherPh,
     creates |-> <<CreateCoin(StoreOf(coin, ph).ph, 1, NoMemos)>>, asserts |-> {}]

(* The launch builder, called for a coin of its own and an odd mojo, never *)
(* refuses.                                                                *)
LEMMA LaunchFromACoin ==
    ASSUME NEW coin, NEW kind, NEW ph
    PROVE  LET launch == LaunchWithKind({}, kind, NewLauncher(CoinId(coin), 1), ph)
           IN /\ launch.is = "ok"
              /\ launch.ctx = {StoreSpend(coin, ph)}
              /\ launch.creates = <<HintedCreate(ph, kind)>>
              /\ launch.asserts = {CoinId(LauncherCoin(coin))}
              /\ launch.datastore = StoreOf(coin, ph)
<1> DEFINE launcher == NewLauncher(CoinId(coin), 1)
           launch   == LaunchWithKind({}, kind, launcher, ph)
           hinted   == OverrideLauncherHint(launcher.creates, launcher.coin, ph, kind)
           staged   == {} \cup {LauncherSpend(launcher, ph)}
<1>1. /\ launcher.coin = LauncherCoin(coin)
      /\ launcher.creates = <<CreateCoin(LauncherPh, 1, NoMemos)>>
      /\ launcher.asserts = {} /\ launcher.singletonAmount = 1
  BY DEF NewLauncher, FromCoin, LauncherCoin, Coin
<1> HIDE DEF launcher
<1>2. StoreCoin(launcher, ph) = StoreOf(coin, ph)
  BY <1>1 DEF StoreCoin, StoreOf
<1>3. /\ StoreOf(coin, ph).amount = 1
      /\ LauncherCoin(coin).ph = LauncherPh /\ LauncherCoin(coin).amount = 1
      /\ LauncherCoin(coin).parent = CoinId(coin)
  BY DEF StoreOf, LauncherCoin, Coin
<1>4. LauncherSpend(launcher, ph) = StoreSpend(coin, ph)
  BY <1>1, <1>2, <1>3 DEF LauncherSpend, CoinSpend, SpendRevealing, StoreSpend
<1>5. LauncherIsLegal(launcher) /\ MintedAmountIsOdd(1)
  BY <1>1, <1>3 DEF LauncherIsLegal, MintedAmountIsOdd, IsOdd
<1>6. hinted.creates = <<HintedCreate(ph, kind)>>
  <2> DEFINE plain == CreateCoin(LauncherPh, 1, NoMemos)
  <2>1. plain.ph = LauncherPh /\ plain.amount = 1
    BY DEF CreateCoin
  <2>2. IsThisLauncher(plain, LauncherCoin(coin))
    BY <1>3, <2>1 DEF IsThisLauncher, LauncherCoin, Coin
  <2>3. [plain EXCEPT !.memos = OwnerDiscoveryMemos(ph, kind)] = HintedCreate(ph, kind)
    BY DEF CreateCoin, HintedCreate
  <2> HIDE DEF plain
  <2>4. launcher.creates = <<plain>>
    BY <1>1 DEF plain
  <2>5. hinted.creates = [i \in DOMAIN <<plain>> |-> HintedCreate(ph, kind)]
    BY <1>1, <2>2, <2>3, <2>4 DEF OverrideLauncherHint
  <2> QED BY <2>5
<1>7. ReachesTheLauncher(staged, hinted.creates, launcher.coin)
  <2>1. HintedCreate(ph, kind).ph = LauncherPh /\ HintedCreate(ph, kind).amount = 1
    BY DEF HintedCreate, CreateCoin
  <2>2. CreatesCoin(hinted.creates, LauncherPh, 1)
    BY <1>6, <2>1 DEF CreatesCoin
  <2> QED BY <1>1, <1>3, <2>2 DEF ReachesTheLauncher
<1>8. ParentAsserts(launcher) = {CoinId(LauncherCoin(coin))}
  BY <1>1 DEF ParentAsserts
<1> HIDE DEF hinted, staged
<1>9. launch = [is |-> "ok", ctx |-> staged, creates |-> hinted.creates,
                asserts |-> ParentAsserts(launcher),
                datastore |-> StoreCoin(launcher, ph), memosWritten |-> hinted.written]
  BY <1>2, <1>3, <1>5, <1>7 DEF LaunchWithKind, hinted, staged
<1> HIDE DEF launch
<1>10. QED
  BY <1>2, <1>4, <1>6, <1>8, <1>9 DEF staged, launch, launcher

(* What mint_datastore_with_kind returns.                                  *)
LEMMA MintReturns ==
    ASSUME NEW kind, NEW coin, NEW key, NEW owner, NEW ph, NEW fee,
           coin.amount \in Nat, fee \in Nat, owner = Standard(key) \/ owner = Custom(key)
    PROVE  LET returned == MintWithKind(kind, coin, owner, ph, fee)
           IN /\ returned.is \in {"ok", "unsupported_owner", "fee_overflow"}
              /\ returned.is = "ok" =>
                   /\ owner = Standard(key) /\ fee + 1 <= U64Max
                   /\ returned.bundle = {StoreSpend(coin, ph),
                                         OwnerSpend(key, coin, kind, ph, fee)}
                   /\ returned.datastore = StoreOf(coin, ph)
<1> DEFINE launch == LaunchWithKind({}, kind, NewLauncher(CoinId(coin), 1), ph)
           returned == MintWithKind(kind, coin, owner, ph, fee)
           creates == launch.creates \o Change(coin.amount, Reserved(fee), ph)
           spend == InnerSpend(owner, coin, creates, launch.asserts)
<1>1. /\ launch.is = "ok" /\ launch.ctx = {StoreSpend(coin, ph)}
      /\ launch.creates = <<HintedCreate(ph, kind)>>
      /\ launch.asserts = {CoinId(LauncherCoin(coin))}
      /\ launch.datastore = StoreOf(coin, ph)
  BY LaunchFromACoin
<1> HIDE DEF launch
<1>2. creates = OwnerCreates(coin, kind, ph, fee)
  <2> DEFINE h == HintedCreate(ph, kind)
             c == CreateCoin(ph, coin.amount - (fee + 1), <<ph>>)
  <2> HIDE DEF h, c
  <2>1. launch.creates = <<h>>
    BY <1>1 DEF h
  <2>2. CASE coin.amount > fee + 1
    <3>1. Change(coin.amount, Reserved(fee), ph) = <<c>>
      BY <2>2 DEF Change, Reserved, c
    <3>2. creates = <<h, c>>
      BY <2>1, <3>1, ConcatOfOnes
    <3> QED BY <2>2, <3>2 DEF OwnerCreates, h, c
  <2>3. CASE ~ (coin.amount > fee + 1)
    <3>1. Change(coin.amount, Reserved(fee), ph) = <<>>
      BY <2>3 DEF Change, Reserved
    <3>2. creates = <<h>>
      BY <2>1, <3>1
    <3> QED BY <2>3, <3>2 DEF OwnerCreates, h
  <2> QED BY <2>2, <2>3
<1> HIDE DEF creates
<1>3. CASE owner = Custom(key)
  <2>1. returned.is = "unsupported_owner"
    BY <1>3 DEF MintWithKind, AcceptsOwner, Custom
  <2> QED BY <2>1
<1>4. CASE owner = Standard(key)
  <2>1. AcceptsOwner(owner) /\ owner.form = "standard" /\ owner.key = key
    BY <1>4 DEF AcceptsOwner, Standard
  <2>2. CASE Reserved(fee) > U64Max
    <3>1. returned.is = "fee_overflow"
      BY <1>1, <2>1, <2>2 DEF MintWithKind, launch
    <3> QED BY <3>1
  <2>3. CASE ~ (Reserved(fee) > U64Max)
    <3>1. spend = OwnerSpend(key, coin, kind, ph, fee)
      BY <1>1, <1>2, <2>1 DEF InnerSpend, SpendRevealing, OwnerSpend
    <3>2. returned = MerkleCoinSpend(launch.ctx \cup {spend}, launch.datastore)
      BY <1>1, <2>1, <2>3 DEF MintWithKind, launch, creates
    <3> HIDE DEF returned, spend
    <3>3. /\ returned.is = "ok" /\ returned.bundle = launch.ctx \cup {spend}
          /\ returned.datastore = launch.datastore
      BY <3>2 DEF MerkleCoinSpend
    <3>4. fee + 1 <= U64Max
      BY <2>3, BoundsAreNat DEF Reserved
    <3> QED BY <1>1, <1>4, <3>1, <3>3, <3>4 DEF returned
  <2> QED BY <2>2, <2>3
<1> QED BY <1>3, <1>4

-----------------------------------------------------------------------------
(* A coin spent at a key's puzzle hash, a launcher and a store are never   *)
(* the same coin.                                                          *)
LEMMA HashesDiffer ==
    ASSUME NEW key, NEW coin, NEW ph
    PROVE  /\ P2Hash(key) # LauncherPh
           /\ P2Hash(key) # StoreOf(coin, ph).ph
           /\ LauncherPh # StoreOf(coin, ph).ph
           /\ P2Hash(key)[2].mod = "standard" /\ LauncherPh[2].mod = "singleton_launcher"
BY DEF P2Hash, LauncherPh, LauncherPuzzle, StoreOf, Coin, TreeHash, Curried

(* Every mint that returned Ok, as it was asked for and what it returned.  *)
IsMint(m) ==
    /\ \E k \in Keys : m.owner = Standard(k)
    /\ \E k \in Keys : m.ph = P2Hash(k)
    /\ \E k \in Keys : m.coin.ph = P2Hash(k)
    /\ m.fee \in Nat /\ m.fee + 1 <= U64Max
    /\ m.coin.amount \in 0..U64Max
    /\ m.bundle = {StoreSpend(m.coin, m.ph),
                   OwnerSpend(m.owner.key, m.coin, m.kind, m.ph, m.fee)}
    /\ m.datastore = StoreOf(m.coin, m.ph)

(* The coins such a mint leaves behind, besides its launcher.              *)
Leaves(m) ==
    {StoreOf(m.coin, m.ph)} \cup
      (IF m.coin.amount > m.fee + 1 THEN {ChangeOf(m.coin, m.ph, m.fee)} ELSE {})

(* What its bundle spends and creates.                                     *)
LEMMA BundleMoves ==
    ASSUME NEW m, IsMint(m)
    PROVE  /\ {s.coin : s \in m.bundle} = {m.coin, LauncherCoin(m.coin)}
           /\ AllOutputs(m.bundle) = {LauncherCoin(m.coin)} \cup Leaves(m)
           /\ \A s \in m.bundle : \A i \in DOMAIN s.creates :
                s.creates[i].amount \in 0..U64Max
<1> DEFINE launch == StoreSpend(m.coin, m.ph)
           pay    == OwnerSpend(m.owner.key, m.coin, m.kind, m.ph, m.fee)
           h      == HintedCreate(m.ph, m.kind)
           c      == CreateCoin(m.ph, m.coin.amount - (m.fee + 1), <<m.ph>>)
           t      == CreateCoin(StoreOf(m.coin, m.ph).ph, 1, NoMemos)
<1>1. m.bundle = {launch, pay}
  BY DEF IsMint
<1>2. /\ launch.coin = LauncherCoin(m.coin) /\ launch.creates = <<t>>
      /\ pay.coin = m.coin /\ pay.creates = OwnerCreates(m.coin, m.kind, m.ph, m.fee)
  BY DEF StoreSpend, OwnerSpend
<1>3. /\ h.ph = LauncherPh /\ h.amount = 1
      /\ c.ph = m.ph /\ c.amount = m.coin.amount - (m.fee + 1)
      /\ t.ph = StoreOf(m.coin, m.ph).ph /\ t.amount = 1
  BY DEF HintedCreate, CreateCoin
<1>4. OwnerCreates(m.coin, m.kind, m.ph, m.fee)
        = IF m.coin.amount > m.fee + 1 THEN <<h, c>> ELSE <<h>>
  BY DEF OwnerCreates
<1>5. /\ Coin(CoinId(m.coin), LauncherPh, 1) = LauncherCoin(m.coin)
      /\ Coin(CoinId(m.coin), m.ph, m.coin.amount - (m.fee + 1))
           = ChangeOf(m.coin, m.ph, m.fee)
      /\ Coin(CoinId(LauncherCoin(m.coin)), StoreOf(m.coin, m.ph).ph, 1)
           = StoreOf(m.coin, m.ph)
  BY DEF LauncherCoin, ChangeOf, StoreOf, Coin
<1> HIDE DEF launch, pay, h, c, t
<1>6. Outputs(launch) = {StoreOf(m.coin, m.ph)}
  <2>1. DOMAIN launch.creates = {1} /\ launch.creates[1] = t
    BY <1>2
  <2>2. Created(launch, 1) = StoreOf(m.coin, m.ph)
    BY <1>2, <1>3, <1>5, <2>1 DEF Created
  <2> QED BY <2>1, <2>2 DEF Outputs
<1>7. CASE m.coin.amount > m.fee + 1
  <2>1. DOMAIN pay.creates = {1, 2} /\ pay.creates[1] = h /\ pay.creates[2] = c
    <3>1. pay.creates = <<h, c>>
      BY <1>2, <1>4, <1>7
    <3>2. DOMAIN <<h, c>> = {1, 2}
      OBVIOUS
    <3> QED BY <3>1, <3>2
  <2>2. /\ Created(pay, 1) = LauncherCoin(m.coin)
        /\ Created(pay, 2) = ChangeOf(m.coin, m.ph, m.fee)
    BY <1>2, <1>3, <1>5, <2>1 DEF Created
  <2>3. Outputs(pay) = {LauncherCoin(m.coin), ChangeOf(m.coin, m.ph, m.fee)}
    BY <2>1, <2>2 DEF Outputs
  <2>4. Leaves(m) = {StoreOf(m.coin, m.ph), ChangeOf(m.coin, m.ph, m.fee)}
    BY <1>7 DEF Leaves
  <2>5. c.amount \in 0..U64Max /\ 1 \in 0..U64Max
    BY <1>3, <1>7, BoundsAreNat DEF IsMint
  <2>6. \A s \in m.bundle : \A i \in DOMAIN s.creates : s.creates[i].amount \in 0..U64Max
    BY <1>1, <1>2, <1>3, <2>1, <2>5
  <2> QED BY <1>1, <1>2, <1>6, <2>3, <2>4, <2>6 DEF AllOutputs
<1>8. CASE ~ (m.coin.amount > m.fee + 1)
  <2>1. DOMAIN pay.creates = {1} /\ pay.creates[1] = h
    <3>1. pay.creates = <<h>>
      BY <1>2, <1>4, <1>8
    <3> QED BY <3>1
  <2>2. Created(pay, 1) = LauncherCoin(m.coin)
    BY <1>2, <1>3, <1>5, <2>1 DEF Created
  <2>3. Outputs(pay) = {LauncherCoin(m.coin)}
    BY <2>1, <2>2 DEF Outputs
  <2>4. Leaves(m) = {StoreOf(m.coin, m.ph)}
    BY <1>8 DEF Leaves
  <2>5. 1 \in 0..U64Max
    BY BoundsAreNat DEF IsMint
  <2>6. \A s \in m.bundle : \A i \in DOMAIN s.creates : s.creates[i].amount \in 0..U64Max
    BY <1>1, <1>2, <1>3, <2>1, <2>5
  <2> QED BY <1>1, <1>2, <1>6, <2>3, <2>4, <2>6 DEF AllOutputs
<1> QED BY <1>7, <1>8

-----------------------------------------------------------------------------
(* The inductive invariant.  Coins descend from the funding: the parent of *)
(* a coin is spent before the coin exists, so that no bundle can recreate  *)
(* a coin the chain has seen.                                              *)
IsCoin(c) ==
    c = Coin(c.parent, c.ph, c.amount) /\ c.amount \in 0..U64Max /\ c.parent # CoinId(c)

CoinInv ==
    /\ \A c \in unspent \cup spent : IsCoin(c)
    /\ \A c \in unspent \cup spent : c.parent = Genesis \/ \E p \in spent : c.parent = CoinId(p)
    /\ unspent \cap spent = {}
    /\ IsFiniteSet(unspent)

MintInv == \A m \in built : IsMint(m) /\ m.coin \in unspent \cup spent

SignInv ==
    \A a \in approved : \E m \in built, n \in Networks :
        a = [bundle |-> m.bundle, network |-> n]

ConfirmInv ==
    /\ confirmed \subseteq built /\ IsFiniteSet(confirmed)
    /\ \A m \in confirmed : m.coin \in spent

CallInv ==
    /\ calls \in 0..MaxMints
    /\ result \in {"none", "ok", "unsupported_owner", "fee_overflow"}

IInv == CoinInv /\ MintInv /\ SignInv /\ ConfirmInv /\ CallInv

(* The invariant holds of a wallet that has minted nothing.                *)
LEMMA InitInv == Init => IInv
<1> SUFFICES ASSUME Init PROVE IInv
  OBVIOUS
<1>1. CoinInv
  <2>1. ASSUME NEW c \in Funding PROVE IsCoin(c) /\ c.parent = Genesis
    BY FundingIsOld, CoinIdsDiffer DEF IsCoin, Coin
  <2> QED BY <2>1, FundingIsOld DEF Init, CoinInv
<1>2. ConfirmInv
  BY FS_EmptySet DEF Init, ConfirmInv
<1> QED BY <1>1, <1>2, BoundsAreNat DEF Init, IInv, MintInv, SignInv, CallInv

(* What a confirmation does to the coins.                                  *)
LEMMA ConfirmStep ==
    ASSUME IInv, NEW m \in built, Confirm(m)
    PROVE  /\ m.coin \in unspent
           /\ unspent' = (unspent \ {m.coin}) \cup Leaves(m)
           /\ spent' = spent \cup {m.coin, LauncherCoin(m.coin)}
           /\ (Leaves(m) \cup {LauncherCoin(m.coin)}) \cap (unspent \cup spent) = {}
           /\ confirmed' = confirmed \cup {m} /\ m \notin confirmed
<1> DEFINE l == LauncherCoin(m.coin)
           store == StoreOf(m.coin, m.ph)
           change == ChangeOf(m.coin, m.ph, m.fee)
<1>1. IsMint(m) /\ m.coin \in unspent \cup spent /\ IsCoin(m.coin)
  BY DEF IInv, MintInv, CoinInv
<1>2. /\ {s.coin : s \in m.bundle} = {m.coin, l}
      /\ AllOutputs(m.bundle) = {l} \cup Leaves(m)
      /\ Leaves(m) \subseteq {store, change}
  BY <1>1, BundleMoves DEF Leaves
<1>3. /\ l.parent = CoinId(m.coin) /\ l.ph = LauncherPh
      /\ change.parent = CoinId(m.coin) /\ store.parent = CoinId(l)
  BY DEF LauncherCoin, ChangeOf, StoreOf, Coin
<1>4. m.coin.ph # LauncherPh /\ m.coin.ph # store.ph /\ l.ph # store.ph
  BY <1>1, <1>3, HashesDiffer DEF IsMint
<1> HIDE DEF l, store, change
<1>5. m.coin \notin {l} \cup Leaves(m)
  <2>1. m.coin # l /\ m.coin # store
    BY <1>3, <1>4
  <2>2. m.coin # change
    BY <1>1, <1>3 DEF IsCoin
  <2> QED BY <1>2, <2>1, <2>2
<1>6. m.coin \in unspent
  <2>1. m.coin \in unspent \cup AllOutputs(m.bundle)
    <3>1. PICK s \in m.bundle : s.coin = m.coin
      BY <1>2
    <3> QED BY <3>1 DEF Confirm, Valid
  <2> QED BY <1>2, <1>5, <2>1
<1>7. m.coin \notin spent
  BY <1>6 DEF IInv, CoinInv
<1>8. ASSUME NEW c \in unspent \cup spent PROVE c.parent # CoinId(m.coin)
  BY <1>7, CoinIdsDiffer DEF IInv, CoinInv
<1>9. l \notin unspent \cup spent /\ change \notin unspent \cup spent
  BY <1>3, <1>8
<1>10. store \notin unspent \cup spent
  <2>1. SUFFICES ASSUME store \in unspent \cup spent PROVE FALSE
    OBVIOUS
  <2>2. \E p \in spent : CoinId(l) = CoinId(p)
    BY <1>3, <2>1, CoinIdsDiffer DEF IInv, CoinInv
  <2> QED BY <1>9, <2>2, CoinIdsDiffer
<1>11. l \notin Leaves(m)
  <2>1. l # store
    BY <1>4
  <2>2. l # change
    <3>1. change.ph = m.ph /\ m.ph # LauncherPh
      BY <1>1, HashesDiffer DEF IsMint, change, ChangeOf, Coin
    <3> QED BY <1>3, <3>1
  <2> QED BY <1>2, <2>1, <2>2
<1>12. /\ unspent' = (unspent \cup ({l} \cup Leaves(m))) \ {m.coin, l}
       /\ spent' = spent \cup {m.coin, l}
       /\ confirmed' = confirmed \cup {m}
  BY <1>2 DEF Confirm
<1>13. unspent' = (unspent \ {m.coin}) \cup Leaves(m)
  BY <1>5, <1>9, <1>11, <1>12
<1>14. m \notin confirmed
  BY <1>7 DEF IInv, ConfirmInv
<1> QED BY <1>2, <1>6, <1>9, <1>10, <1>12, <1>13, <1>14 DEF l

(* A mint that confirms moves its coin to the spent ones and adds coins    *)
(* that were never there.                                                  *)
LEMMA ConfirmKeepsCoins ==
    ASSUME IInv, NEW m \in built, Confirm(m)
    PROVE  CoinInv'
<1> DEFINE l == LauncherCoin(m.coin)
           store == StoreOf(m.coin, m.ph)
           change == ChangeOf(m.coin, m.ph, m.fee)
<1>1. IsMint(m) /\ IsCoin(m.coin)
  BY DEF IInv, MintInv, CoinInv
<1>2. /\ m.coin \in unspent
      /\ unspent' = (unspent \ {m.coin}) \cup Leaves(m)
      /\ spent' = spent \cup {m.coin, l}
      /\ (Leaves(m) \cup {l}) \cap (unspent \cup spent) = {}
  BY ConfirmStep
<1>3. /\ l = Coin(l.parent, l.ph, l.amount) /\ l.parent = CoinId(m.coin)
      /\ l.ph = LauncherPh /\ l.amount = 1
      /\ store = Coin(store.parent, store.ph, store.amount) /\ store.parent = CoinId(l)
      /\ store.amount = 1
      /\ change = Coin(change.parent, change.ph, change.amount)
      /\ change.parent = CoinId(m.coin) /\ change.ph = m.ph
      /\ change.amount = m.coin.amount - (m.fee + 1)
  BY DEF LauncherCoin, ChangeOf, StoreOf, Coin
<1>4. m.coin.ph # LauncherPh /\ m.ph # LauncherPh /\ l.ph # store.ph /\ m.ph # store.ph
  BY <1>1, <1>3, HashesDiffer DEF IsMint
<1>5. 1 \in 0..U64Max /\ m.coin.amount \in 0..U64Max /\ m.fee \in Nat
  BY <1>1, BoundsAreNat DEF IsMint
<1>6. Leaves(m) \subseteq {store} \cup {c \in {change} : m.coin.amount > m.fee + 1}
  BY DEF Leaves
<1> HIDE DEF l, store, change
<1>7. IsCoin(l)
  BY <1>3, <1>4, <1>5, CoinIdsDiffer DEF IsCoin
<1>8. IsCoin(store)
  BY <1>3, <1>4, <1>5, CoinIdsDiffer DEF IsCoin
<1>9. m.coin.amount > m.fee + 1 => IsCoin(change)
  <2>1. change.parent # CoinId(change)
    BY <1>1, <1>3, CoinIdsDiffer DEF IsCoin
  <2>2. m.coin.amount > m.fee + 1 => change.amount \in 0..U64Max
    BY <1>3, <1>5, BoundsAreNat
  <2> QED BY <1>3, <2>1, <2>2 DEF IsCoin
<1>10. ASSUME NEW c \in unspent' \cup spent'
       PROVE  IsCoin(c) /\ (c.parent = Genesis \/ \E p \in spent' : c.parent = CoinId(p))
  <2>1. c \in unspent \cup spent \cup Leaves(m) \cup {l}
    BY <1>2
  <2>2. CASE c \in unspent \cup spent
    BY <1>2, <2>2 DEF IInv, CoinInv
  <2>3. CASE c \in Leaves(m) \cup {l}
    <3>1. IsCoin(c)
      BY <1>6, <1>7, <1>8, <1>9, <2>3
    <3>2. \E p \in spent' : c.parent = CoinId(p)
      BY <1>2, <1>3, <1>6, <2>3
    <3> QED BY <3>1, <3>2
  <2> QED BY <2>1, <2>2, <2>3
<1>11. unspent' \cap spent' = {}
  <2>1. l \notin Leaves(m) /\ m.coin \notin Leaves(m)
    <3>1. l \notin {store, change}
      BY <1>3, <1>4
    <3>2. m.coin \notin Leaves(m)
      BY <1>2
    <3> QED BY <1>6, <3>1, <3>2
  <2>2. unspent \cap spent = {}
    BY DEF IInv, CoinInv
  <2> QED BY <1>2, <2>1, <2>2
<1>12. IsFiniteSet(unspent')
  <2>1. IsFiniteSet(unspent \ {m.coin})
    BY FS_RemoveElement DEF IInv, CoinInv
  <2>2. IsFiniteSet({store, change})
    <3>1. IsFiniteSet({store}) /\ IsFiniteSet({change}) /\ {store, change} = {store} \cup {change}
      BY FS_Singleton
    <3> QED BY <3>1, FS_Union
  <2>3. IsFiniteSet(Leaves(m))
    BY <1>6, <2>2, FS_Subset
  <2> QED BY <1>2, <2>1, <2>3, FS_Union
<1> QED BY <1>10, <1>11, <1>12 DEF CoinInv, IsCoin

(* A mint, whatever it returns, keeps the invariant;                       *)
LEMMA MintKeepsInv ==
    ASSUME IInv, NEW kind \in Kinds, NEW coin \in WalletCoins, NEW owner \in OwnerArguments,
           NEW ph, \E k \in Keys : ph = P2Hash(k), NEW fee \in Fees,
           Mint(kind, coin, owner, ph, fee)
    PROVE  IInv'
<1> DEFINE returned == MintWithKind(kind, coin, owner, ph, fee)
           mint == [coin |-> coin, owner |-> owner, ph |-> ph, fee |-> fee, kind |-> kind,
                    bundle |-> returned.bundle, datastore |-> returned.datastore]
<1>1. PICK key \in Keys : owner \in {Standard(key), Custom(key)}
  BY DEF OwnerArguments
<1>2. /\ coin \in unspent \cup spent /\ coin.amount \in 0..U64Max
      /\ \E k \in Keys : coin.ph = P2Hash(k)
  BY DEF WalletCoins, IInv, CoinInv, IsCoin
<1>3. coin.amount \in Nat /\ fee \in Nat
  BY <1>2, BoundsAreNat, FeesAreU64
<1>4. /\ returned.is \in {"ok", "unsupported_owner", "fee_overflow"}
      /\ returned.is = "ok" =>
           /\ owner = Standard(key) /\ fee + 1 <= U64Max
           /\ returned.bundle = {StoreSpend(coin, ph), OwnerSpend(key, coin, kind, ph, fee)}
           /\ returned.datastore = StoreOf(coin, ph)
  <2>1. CASE owner = Standard(key)
    BY <1>3, <2>1, MintReturns
  <2>2. CASE owner = Custom(key)
    BY <1>3, <2>2, MintReturns
  <2> QED BY <1>1, <2>1, <2>2
<1>5. /\ calls < MaxMints /\ calls' = calls + 1 /\ result' = returned.is
      /\ built' = IF returned.is # "ok" THEN built ELSE built \cup {mint}
      /\ UNCHANGED <<unspent, spent, approved, confirmed>>
  BY DEF Mint
<1> HIDE DEF returned
<1>6. returned.is = "ok" => IsMint(mint)
  BY <1>1, <1>2, <1>3, <1>4 DEF IsMint, Standard
<1>7. MintInv'
  <2>1. ASSUME NEW m \in built' PROVE IsMint(m) /\ m.coin \in unspent \cup spent
    <3>1. CASE m \in built
      BY <3>1 DEF IInv, MintInv
    <3>2. CASE m \notin built
      <4>1. returned.is = "ok" /\ m = mint
        BY <1>5, <3>2
      <4> QED BY <1>2, <1>6, <4>1
    <3> QED BY <3>1, <3>2
  <2> QED BY <1>5, <2>1 DEF MintInv, IsMint
<1>8. CoinInv'
  BY <1>5 DEF IInv, CoinInv, IsCoin
<1>9. built \subseteq built'
  BY <1>5
<1>10. SignInv' /\ ConfirmInv'
  BY <1>5, <1>9 DEF IInv, SignInv, ConfirmInv
<1>11. CallInv'
  BY <1>4, <1>5, BoundsAreNat DEF IInv, CallInv
<1> QED BY <1>7, <1>8, <1>10, <1>11 DEF IInv

(* so does a signature,                                                    *)
LEMMA SignKeepsInv ==
    ASSUME IInv, NEW m \in built, NEW network \in Networks, Sign(m, network)
    PROVE  IInv'
<1>1. SignInv'
  BY DEF IInv, SignInv, Sign
<1>2. CoinInv' /\ MintInv' /\ ConfirmInv' /\ CallInv'
  BY DEF IInv, CoinInv, IsCoin, MintInv, IsMint, ConfirmInv, CallInv, Sign
<1> QED BY <1>1, <1>2 DEF IInv

(* and a mint that confirms.                                               *)
LEMMA ConfirmKeepsInv ==
    ASSUME IInv, NEW m \in built, Confirm(m)
    PROVE  IInv'
<1>1. /\ m.coin \in unspent
      /\ unspent' = (unspent \ {m.coin}) \cup Leaves(m)
      /\ spent' = spent \cup {m.coin, LauncherCoin(m.coin)}
      /\ confirmed' = confirmed \cup {m}
  BY ConfirmStep
<1>2. UNCHANGED <<built, approved, calls, result>>
  BY DEF Confirm
<1>3. MintInv'
  BY <1>1, <1>2 DEF IInv, MintInv, IsMint
<1>4. ConfirmInv'
  <2>1. IsFiniteSet(confirmed')
    BY <1>1, FS_AddElement DEF IInv, ConfirmInv
  <2> QED BY <1>1, <1>2, <2>1 DEF IInv, ConfirmInv
<1>5. SignInv' /\ CallInv'
  BY <1>2 DEF IInv, SignInv, CallInv
<1> QED BY <1>3, <1>4, <1>5, ConfirmKeepsCoins DEF IInv

(* Every step of the wallet and of the chain keeps it.                     *)
LEMMA NextKeepsInv == IInv /\ [Next]_vars => IInv'
<1> SUFFICES ASSUME IInv, [Next]_vars PROVE IInv'
  OBVIOUS
<1>1. ASSUME NEW kind \in Kinds, NEW coin \in WalletCoins, NEW owner \in OwnerArguments,
             NEW key \in Keys, NEW fee \in Fees, Mint(kind, coin, owner, P2Hash(key), fee)
      PROVE  IInv'
  <2>1. \E k \in Keys : P2Hash(key) = P2Hash(k)
    OBVIOUS
  <2> QED BY <1>1, <2>1, MintKeepsInv
<1>2. ASSUME NEW mint \in built, NEW network \in Networks, Sign(mint, network)
      PROVE  IInv'
  BY <1>2, SignKeepsInv
<1>3. ASSUME NEW mint \in built, Confirm(mint)
      PROVE  IInv'
  BY <1>3, ConfirmKeepsInv
<1>4. CASE UNCHANGED vars
  BY <1>4 DEF vars, IInv, CoinInv, IsCoin, MintInv, IsMint, SignInv, ConfirmInv, CallInv
<1> QED BY <1>1, <1>2, <1>3, <1>4 DEF Next

(* It holds in every wallet that can come about.                           *)
LEMMA Invariance == Spec => []IInv
<1> QED BY InitInv, NextKeepsInv, PTL DEF Spec

(* mint.rs:148-172.  Amounts stay within the width and no coin is spent    *)
(* twice, whichever mints are retried or funded by change: what a bundle   *)
(* creates is never a coin the chain has already seen.                     *)
THEOREM MintTypeCorrect == Spec => []WalletTypeOK
<1>1. IInv => WalletTypeOK
  <2> SUFFICES ASSUME IInv PROVE WalletTypeOK
    OBVIOUS
  <2>1. \A c \in unspent \cup spent : c.amount \in 0..U64Max
    BY DEF IInv, CoinInv, IsCoin
  <2>2. \A m \in built : \A s \in m.bundle : \A i \in DOMAIN s.creates :
          s.creates[i].amount \in 0..U64Max
    BY BundleMoves DEF IInv, MintInv
  <2>3. {a.bundle : a \in approved} \subseteq {m.bundle : m \in built}
    BY DEF IInv, SignInv
  <2> QED BY <2>1, <2>2, <2>3 DEF WalletTypeOK, IInv, CoinInv, ConfirmInv, CallInv
<1> QED BY <1>1, Invariance, PTL

-----------------------------------------------------------------------------
(* What a key is asked to sign for a mint is one message, and from that    *)
(* message the whole mint can be read back: its coin, and through the      *)
(* launcher's hint and memos, the store it makes.                          *)
Signed(m, network) ==
    [key |-> m.owner.key,
     message |-> <<<<OwnerCreates(m.coin, m.kind, m.ph, m.fee),
                     {CoinId(LauncherCoin(m.coin))}>>, CoinId(m.coin), network>>]

(* sign.rs:30-36.  Of a mint one signature is reported, and the chain asks *)
(* for that one and no other.                                              *)
LEMMA MintAsksForOneSignature ==
    ASSUME NEW m, IsMint(m), NEW network
    PROVE  /\ RequiredSignatures(m.bundle, network) \subseteq {Signed(m, network)}
           /\ \A s \in m.bundle : \A d \in AggSigs(s) :
                [key |-> d.key, message |-> Message(d, s, network)] = Signed(m, network)
           /\ \E s \in m.bundle : \E d \in AggSigs(s) :
                [key |-> d.key, message |-> Message(d, s, network)] = Signed(m, network)
<1> DEFINE launch == StoreSpend(m.coin, m.ph)
           pay    == OwnerSpend(m.owner.key, m.coin, m.kind, m.ph, m.fee)
           over   == <<OwnerCreates(m.coin, m.kind, m.ph, m.fee),
                       {CoinId(LauncherCoin(m.coin))}>>
           demand(k) == [kind |-> "me", key |-> k, over |-> over]
<1>1. m.bundle = {launch, pay} /\ m.owner.key \in Keys
  BY DEF IsMint, Standard
<1>2. /\ launch.reveal = LauncherPh
      /\ pay.reveal = P2Hash(m.owner.key) /\ pay.coin = m.coin
      /\ <<pay.creates, pay.asserts>> = over
  BY DEF StoreSpend, OwnerSpend
<1> HIDE DEF launch, pay, over
<1>3. AggSigs(launch) = {}
  <2>1. \A k \in Keys : launch.reveal # P2Hash(k)
    BY <1>2, HashesDiffer
  <2> QED BY <2>1 DEF AggSigs
<1>4. AggSigs(pay) = {demand(m.owner.key)}
  <2>1. \A k \in Keys : P2Hash(m.owner.key) = P2Hash(k) => k = m.owner.key
    BY DEF P2Hash, TreeHash, Curried
  <2>2. {k \in Keys : pay.reveal = P2Hash(k)} = {m.owner.key}
    BY <1>1, <1>2, <2>1
  <2> QED BY <1>2, <2>2 DEF AggSigs
<1>5. /\ demand(m.owner.key).kind = "me" /\ demand(m.owner.key).key = m.owner.key
      /\ demand(m.owner.key).over = over
  OBVIOUS
<1> HIDE DEF demand
<1>6. [key |-> demand(m.owner.key).key, message |-> Message(demand(m.owner.key), pay, network)]
        = Signed(m, network)
  BY <1>2, <1>5 DEF Message, Signed, over
<1>7. \A s \in m.bundle : \A d \in AggSigs(s) :
        [key |-> d.key, message |-> Message(d, s, network)] = Signed(m, network)
  BY <1>1, <1>3, <1>4, <1>6
<1>8. \E s \in m.bundle : \E d \in AggSigs(s) :
        [key |-> d.key, message |-> Message(d, s, network)] = Signed(m, network)
  BY <1>1, <1>4, <1>6
<1>9. RequiredSignatures(m.bundle, network) \subseteq {Signed(m, network)}
  BY <1>7 DEF RequiredSignatures
<1> QED BY <1>7, <1>8, <1>9

(* A signature made for one mint and one network serves for no other.      *)
LEMMA SignatureNamesTheBundle ==
    ASSUME NEW m, IsMint(m), NEW n, IsMint(n), NEW on, NEW at, Signed(m, on) = Signed(n, at)
    PROVE  m.bundle = n.bundle /\ on = at
<1>1. /\ m.owner.key = n.owner.key
      /\ OwnerCreates(m.coin, m.kind, m.ph, m.fee) = OwnerCreates(n.coin, n.kind, n.ph, n.fee)
      /\ CoinId(m.coin) = CoinId(n.coin) /\ on = at
  BY DEF Signed
<1>2. m.coin = n.coin
  BY <1>1, CoinIdsDiffer
<1>3. ASSUME NEW c, NEW kind, NEW ph, NEW fee
      PROVE  OwnerCreates(c, kind, ph, fee)[1].memos[1] = DigstoreOwnerHint(ph)
  <2>1. OwnerCreates(c, kind, ph, fee)[1] = HintedCreate(ph, kind)
    BY DEF OwnerCreates
  <2> QED BY <2>1 DEF HintedCreate, CreateCoin, OwnerDiscoveryMemos
<1>4. DigstoreOwnerHint(m.ph) = DigstoreOwnerHint(n.ph)
  <2>1. /\ OwnerCreates(m.coin, m.kind, m.ph, m.fee)[1].memos[1] = DigstoreOwnerHint(m.ph)
        /\ OwnerCreates(n.coin, n.kind, n.ph, n.fee)[1].memos[1] = DigstoreOwnerHint(n.ph)
    BY <1>3
  <2> QED BY <1>1, <2>1
<1>5. m.ph = n.ph
  BY <1>4 DEF DigstoreOwnerHint
<1>6. /\ StoreSpend(m.coin, m.ph) = StoreSpend(n.coin, n.ph)
      /\ OwnerSpend(m.owner.key, m.coin, m.kind, m.ph, m.fee)
           = OwnerSpend(n.owner.key, n.coin, n.kind, n.ph, n.fee)
  BY <1>1, <1>2, <1>5 DEF OwnerSpend
<1> QED BY <1>1, <1>6 DEF IsMint

(* sign.rs:18-24; context.rs:33-36.  A mint confirms only if the holder of *)
(* its key signed that very bundle for this network: no signature given    *)
(* for another mint, another coin or another network is worth anything.    *)
THEOREM MintsConfirmAsSigned == Spec => []OnlySignedMintsConfirm
<1>1. Init => OnlySignedMintsConfirm
  BY DEF Init, OnlySignedMintsConfirm
<1>2. IInv /\ OnlySignedMintsConfirm /\ [Next]_vars => OnlySignedMintsConfirm'
  <2> SUFFICES ASSUME IInv, OnlySignedMintsConfirm, [Next]_vars
               PROVE  OnlySignedMintsConfirm'
    OBVIOUS
  <2>1. approved \subseteq approved'
    BY DEF Next, Mint, Sign, Confirm, vars
  <2>2. CASE confirmed' = confirmed
    BY <2>1, <2>2 DEF OnlySignedMintsConfirm
  <2>3. ASSUME NEW m \in built, Confirm(m)
        PROVE  OnlySignedMintsConfirm'
    <3>1. IsMint(m)
      BY DEF IInv, MintInv
    <3>2. Signed(m, ThisNetwork) \in Signatures
      <4>1. Authorized(m.bundle, Signatures)
        BY <2>3 DEF Confirm
      <4> QED BY <3>1, <4>1, MintAsksForOneSignature DEF Authorized
    <3>3. PICK a \in approved : Signed(m, ThisNetwork) \in RequiredSignatures(a.bundle, a.network)
      BY <3>2 DEF Signatures
    <3>4. PICK n \in built, network \in Networks : a = [bundle |-> n.bundle, network |-> network]
      BY DEF IInv, SignInv
    <3>5. a.bundle = n.bundle /\ a.network = network /\ IsMint(n)
      BY <3>4 DEF IInv, MintInv
    <3>6. Signed(m, ThisNetwork) = Signed(n, network)
      BY <3>3, <3>5, MintAsksForOneSignature
    <3>7. m.bundle = n.bundle /\ ThisNetwork = network
      BY <3>1, <3>5, <3>6, SignatureNamesTheBundle
    <3>8. [bundle |-> m.bundle, network |-> ThisNetwork] \in approved
      BY <3>4, <3>7
    <3>9. confirmed' = confirmed \cup {m}
      BY <2>3 DEF Confirm
    <3> QED BY <2>1, <3>8, <3>9 DEF OnlySignedMintsConfirm
  <2>4. confirmed' = confirmed \/ \E m \in built : Confirm(m)
    BY DEF Next, Mint, Sign, vars
  <2> QED BY <2>2, <2>3, <2>4
<1> QED BY <1>1, <1>2, Invariance, PTL DEF Spec

-----------------------------------------------------------------------------
(* What mints burn.                                                        *)
Burned(S)   == [m \in S |-> Burns(m)]

BurnedBy(S) == MapThenSumSet(Burns, S)

(* The wallet's totals are those of the balance rule.                      *)
LEMMA TotalIsCoinTotal == ASSUME NEW S PROVE Total(S) = CoinTotal(S)
BY DEF Total, CoinTotal, MapThenSumSet, MapThenFoldSet

(* What coins are worth is a sum.                                          *)
LEMMA TotalIsSum ==
    ASSUME NEW S, IsFiniteSet(S) PROVE Total(S) = Sum(Amounts(S), S)
BY TotalIsCoinTotal, CoinTotalIsSum

(* One coin more adds what it is worth.                                    *)
LEMMA TotalAdds ==
    ASSUME NEW S, NEW x, IsFiniteSet(S), x \notin S, x.amount \in Int,
           \A c \in S : c.amount \in Int
    PROVE  /\ Total(S) \in Int
           /\ Total(S \cup {x}) = x.amount + Total(S)
BY TotalIsCoinTotal, CoinTotalAdds

(* What mints burn is a sum.                                               *)
LEMMA BurnsAreSum ==
    ASSUME NEW S, IsFiniteSet(S) PROVE BurnedBy(S) = Sum(Burned(S), S)
<1> DEFINE D(h) == [s \in SUBSET S |-> IF s = {} THEN 0
                      ELSE Burns(CHOOSE x \in s : TRUE) + h[s \ {CHOOSE x \in s : TRUE}]]
<1>1. \A s \in SUBSET S : s # {} => Pick(s) \in S
  BY DEF Pick
<1>2. \A h : D(h) = [s \in SUBSET S |-> IF s = {} THEN 0
                       ELSE Burned(S)[Pick(s)] + h[s \ {Pick(s)}]]
  BY <1>1 DEF Burned, Pick
<1>3. \A h : h = D(h) <=> Sums(h, Burned(S), S)
  BY <1>2 DEF Sums
<1>4. BurnedBy(S) = (CHOOSE h : h = D(h))[S]
  BY DEF BurnedBy, MapThenSumSet, MapThenFoldSet
<1> HIDE DEF D
<1>5. PICK g : Sums(g, Burned(S), S)
  BY SumsExist
<1>6. \A h : h = D(h) <=> h = g
  BY <1>3, <1>5, SumsAreUnique
<1>7. (CHOOSE h : h = D(h)) = g
  BY <1>6
<1> QED BY <1>4, <1>5, <1>7, SumIs

(* One mint more.                                                          *)
LEMMA BurnsAdd ==
    ASSUME NEW S, NEW x, IsFiniteSet(S), x \notin S, Burns(x) \in Int,
           \A m \in S : Burns(m) \in Int
    PROVE  /\ BurnedBy(S) \in Int
           /\ BurnedBy(S \cup {x}) = Burns(x) + BurnedBy(S)
<1>1. IsFiniteSet(S \cup {x})
  BY FS_AddElement
<1>2. Integral(Burned(S \cup {x}), S \cup {x})
  BY DEF Burned, Integral
<1>3. \A y \in S : Burned(S)[y] = Burned(S \cup {x})[y]
  BY DEF Burned
<1>4. Burned(S \cup {x})[x] = Burns(x)
  BY DEF Burned
<1>5. Sum(Burned(S), S) \in Int /\ Sum(Burned(S \cup {x}), S \cup {x}) = Burns(x) + Sum(Burned(S), S)
  BY <1>2, <1>3, <1>4, SumAdds
<1>6. /\ BurnedBy(S) = Sum(Burned(S), S)
      /\ BurnedBy(S \cup {x}) = Sum(Burned(S \cup {x}), S \cup {x})
  BY <1>1, BurnsAreSum
<1> QED BY <1>5, <1>6

-----------------------------------------------------------------------------
(* mint.rs:42-46, 181-195.  A confirmation takes from the unspent coins    *)
(* what the mint burns, and nothing else.                                  *)
LEMMA ConfirmBurnsTheFee ==
    ASSUME IInv, NEW m \in built, Confirm(m)
    PROVE  /\ Total(unspent) \in Int
           /\ Total(unspent') = Total(unspent) - Burns(m)
<1> DEFINE store  == StoreOf(m.coin, m.ph)
           change == ChangeOf(m.coin, m.ph, m.fee)
           kept   == unspent \ {m.coin}
<1>1. /\ m.coin \in unspent
      /\ unspent' = kept \cup Leaves(m)
      /\ Leaves(m) \cap (unspent \cup spent) = {}
  BY ConfirmStep
<1>2. IsMint(m)
  BY DEF IInv, MintInv
<1>3. /\ IsFiniteSet(kept) /\ m.coin \notin kept
      /\ \A c \in unspent : c.amount \in Int
  BY BoundsAreNat, FS_RemoveElement DEF IInv, CoinInv, IsCoin
<1>4. unspent = kept \cup {m.coin}
  BY <1>1
<1>5. Total(kept) \in Int /\ Total(unspent) = m.coin.amount + Total(kept)
  BY <1>1, <1>3, <1>4, TotalAdds
<1>6. /\ store.amount = 1 /\ change.amount = m.coin.amount - (m.fee + 1)
      /\ store.ph # change.ph
  <2>1. PICK k \in Keys : m.ph = P2Hash(k)
    BY <1>2 DEF IsMint
  <2>2. change.ph = m.ph /\ store.amount = 1
        /\ change.amount = m.coin.amount - (m.fee + 1)
    BY DEF StoreOf, ChangeOf, Coin
  <2> HIDE DEF store, change
  <2>3. store.ph # P2Hash(k)
    BY HashesDiffer DEF store
  <2> QED BY <2>1, <2>2, <2>3
<1>7. m.coin.amount \in Nat /\ m.fee \in Nat
  BY <1>2, BoundsAreNat DEF IsMint
<1>8. /\ Leaves(m) = {store} \cup (IF m.coin.amount > m.fee + 1 THEN {change} ELSE {})
      /\ store \notin kept
  BY <1>1 DEF Leaves
<1> HIDE DEF store, change, kept
<1>9. Total(kept \cup {store}) = 1 + Total(kept)
  BY <1>1, <1>3, <1>4, <1>6, <1>8, TotalAdds
<1>10. CASE m.coin.amount > m.fee + 1
  <2>1. /\ unspent' = (kept \cup {store}) \cup {change}
        /\ change \notin kept \cup {store}
    BY <1>1, <1>4, <1>6, <1>8, <1>10
  <2>2. IsFiniteSet(kept \cup {store}) /\ \A c \in kept \cup {store} : c.amount \in Int
    BY <1>3, <1>4, <1>6, FS_AddElement
  <2>3. change.amount \in Int
    BY <1>6, <1>7
  <2>4. Total(unspent') = change.amount + Total(kept \cup {store})
    BY <2>1, <2>2, <2>3, TotalAdds
  <2>5. Burns(m) = m.fee
    BY <1>7, <1>10 DEF Burns
  <2> QED BY <1>5, <1>6, <1>7, <1>9, <2>4, <2>5
<1>11. CASE ~ (m.coin.amount > m.fee + 1)
  <2>1. Total(unspent') = 1 + Total(kept)
    BY <1>1, <1>8, <1>9, <1>11
  <2>2. Burns(m) = m.coin.amount - 1
    BY <1>7, <1>11 DEF Burns
  <2> QED BY <1>5, <1>7, <2>1, <2>2
<1> QED BY <1>10, <1>11

(* mint.rs:42-46, 181-195.  Over any sequence of mints, retries and mints  *)
(* funded by change, the chain loses the fees and nothing else.            *)
THEOREM MintsLoseOnlyFees == Spec => []OnlyFeesAreLost
<1>0. OnlyFeesAreLost <=> Total(unspent) + BurnedBy(confirmed) = Total(Funding)
  BY DEF OnlyFeesAreLost, BurnedBy
<1>1. Init => OnlyFeesAreLost
  <2> SUFFICES ASSUME Init PROVE OnlyFeesAreLost
    OBVIOUS
  <2>1. BurnedBy({}) = 0
    BY FS_EmptySet, BurnsAreSum, SumOfNone
  <2>2. Total(Funding) \in Int
    <3>1. IsFiniteSet(Funding) /\ \A c \in Funding : c.amount \in Int
      BY FundingIsOld, BoundsAreNat
    <3>2. Integral(Amounts(Funding), Funding)
      BY <3>1 DEF Integral, Amounts
    <3>3. Sum(Amounts(Funding), Funding) \in Int
      BY <3>1, <3>2, SumIsInteger
    <3> QED BY <3>1, <3>3, TotalIsSum
  <2> QED BY <1>0, <2>1, <2>2 DEF Init
<1>2. IInv /\ OnlyFeesAreLost /\ [Next]_vars => OnlyFeesAreLost'
  <2> SUFFICES ASSUME IInv, OnlyFeesAreLost, [Next]_vars PROVE OnlyFeesAreLost'
    OBVIOUS
  <2>1. CASE UNCHANGED <<unspent, confirmed>>
    BY <2>1 DEF OnlyFeesAreLost
  <2>2. ASSUME NEW m \in built, Confirm(m)
        PROVE  OnlyFeesAreLost'
    <3>1. /\ Total(unspent) \in Int /\ Total(unspent') = Total(unspent) - Burns(m)
      BY <2>2, ConfirmBurnsTheFee
    <3>2. confirmed' = confirmed \cup {m} /\ m \notin confirmed
      BY <2>2, ConfirmStep
    <3>3. \A n \in built : Burns(n) \in Int
      BY BoundsAreNat DEF IInv, MintInv, IsMint, Burns
    <3>4. /\ BurnedBy(confirmed) \in Int
          /\ BurnedBy(confirmed \cup {m}) = Burns(m) + BurnedBy(confirmed)
      BY <3>2, <3>3, BurnsAdd DEF IInv, ConfirmInv
    <3>5. Total(unspent) + BurnedBy(confirmed) = Total(Funding)
      BY <1>0
    <3>6. Total(unspent') + BurnedBy(confirmed') = Total(Funding)
      BY <3>1, <3>2, <3>3, <3>4, <3>5
    <3> QED BY <3>6 DEF OnlyFeesAreLost, BurnedBy
  <2>3. UNCHANGED <<unspent, confirmed>> \/ \E m \in built : Confirm(m)
    BY DEF Next, Mint, Sign, vars
  <2> QED BY <2>1, <2>2, <2>3
<1> QED BY <1>1, <1>2, Invariance, PTL DEF Spec

-----------------------------------------------------------------------------
(* What two coins are worth.                                               *)
LEMMA TotalOfTwo ==
    ASSUME NEW x, NEW y, x # y, x.amount \in Int, y.amount \in Int
    PROVE  /\ IsFiniteSet({x, y})
           /\ Total({x, y}) = x.amount + y.amount
<1> DEFINE none == {}
           one  == {x}
           two  == {x, y}
<1>1. /\ IsFiniteSet(none) /\ Total(none) = 0 /\ one = none \cup {x} /\ x \notin none
      /\ IsFiniteSet(one) /\ two = one \cup {y} /\ y \notin one
      /\ \A c \in none : c.amount \in Int
      /\ \A c \in one : c.amount \in Int
  <2>1. IsFiniteSet({}) /\ IsFiniteSet({x})
    BY FS_EmptySet, FS_Singleton
  <2>2. Total({}) = 0
    BY <2>1, TotalIsSum, SumOfNone
  <2> QED BY <2>1, <2>2
<1> HIDE DEF none, one, two
<1>2. Total(one) = x.amount + Total(none)
  BY <1>1, TotalAdds
<1>3. IsFiniteSet(one \cup {y}) /\ Total(one \cup {y}) = y.amount + Total(one)
  BY <1>1, TotalAdds, FS_AddElement
<1>4. IsFiniteSet(two) /\ Total(two) = x.amount + y.amount
  BY <1>1, <1>2, <1>3
<1> QED BY <1>4 DEF two

(* What a bundle of two spends.                                            *)
LEMMA TotalInOfTwo ==
    ASSUME NEW x, NEW y, x # y, x.coin.amount \in Int, y.coin.amount \in Int
    PROVE  TotalIn({x, y}) = x.coin.amount + y.coin.amount
<1> DEFINE none == {}
           one  == {x}
           two  == {x, y}
<1>1. /\ IsFiniteSet(none) /\ TotalIn(none) = 0 /\ one = none \cup {x} /\ x \notin none
      /\ IsFiniteSet(one) /\ two = one \cup {y} /\ y \notin one
      /\ \A s \in none : s.coin.amount \in Int
      /\ \A s \in one : s.coin.amount \in Int
  <2>1. IsFiniteSet({}) /\ IsFiniteSet({x})
    BY FS_EmptySet, FS_Singleton
  <2>2. TotalIn({}) = 0
    BY <2>1, TotalInIsSum, SumOfNone
  <2> QED BY <2>1, <2>2
<1> HIDE DEF none, one, two
<1>2. TotalIn(one) = x.coin.amount + TotalIn(none)
  BY <1>1, TotalInAdds
<1>3. TotalIn(one \cup {y}) = y.coin.amount + TotalIn(one)
  BY <1>1, TotalInAdds
<1>4. TotalIn(two) = x.coin.amount + y.coin.amount
  BY <1>1, <1>2, <1>3
<1> QED BY <1>4 DEF two

(* A bundle whose coin holds the launcher's mojo creates no more than it   *)
(* spends.                                                                 *)
LEMMA MintIsBalanced ==
    ASSUME NEW m, IsMint(m), m.coin.amount >= 1
    PROVE  Balanced(m.bundle)
<1> DEFINE launch == StoreSpend(m.coin, m.ph)
           pay    == OwnerSpend(m.owner.key, m.coin, m.kind, m.ph, m.fee)
           l      == LauncherCoin(m.coin)
           store  == StoreOf(m.coin, m.ph)
           change == ChangeOf(m.coin, m.ph, m.fee)
<1>1. m.bundle = {launch, pay} /\ m.coin.amount \in Nat /\ m.fee \in Nat
  BY BoundsAreNat DEF IsMint
<1>2. AllOutputs(m.bundle) = {l} \cup Leaves(m)
  BY BundleMoves
<1>3. /\ launch.coin.amount = 1 /\ pay.coin.amount = m.coin.amount /\ launch # pay
  <2>1. launch.coin = l /\ pay.coin = m.coin /\ l.amount = 1 /\ l.ph = LauncherPh
    BY DEF StoreSpend, OwnerSpend, LauncherCoin, Coin
  <2>2. m.coin.ph # LauncherPh
    BY HashesDiffer DEF IsMint
  <2> HIDE DEF launch, pay, l
  <2> QED BY <2>1, <2>2
<1>4. /\ l.ph = LauncherPh /\ change.ph = m.ph /\ l.amount = 1 /\ store.amount = 1
      /\ change.amount = m.coin.amount - (m.fee + 1)
  BY DEF LauncherCoin, StoreOf, ChangeOf, Coin
<1>5. l.ph # store.ph /\ l.ph # change.ph /\ store.ph # change.ph
  <2>1. PICK k \in Keys : m.ph = P2Hash(k)
    BY DEF IsMint
  <2>2. P2Hash(k) # LauncherPh /\ P2Hash(k) # store.ph /\ LauncherPh # store.ph
    BY HashesDiffer
  <2> QED BY <1>4, <2>1, <2>2
<1>6. Leaves(m) = {store} \cup (IF m.coin.amount > m.fee + 1 THEN {change} ELSE {})
  BY DEF Leaves
<1> HIDE DEF launch, pay, l, store, change
<1>7. TotalIn(m.bundle) = m.coin.amount + 1
  <2>1. launch # pay /\ launch.coin.amount \in Int /\ pay.coin.amount \in Int
    BY <1>1, <1>3
  <2>2. TotalIn({launch, pay}) = launch.coin.amount + pay.coin.amount
    BY ONLY <2>1, TotalInOfTwo
  <2> QED BY <1>1, <1>3, <2>2
<1>8. IsFiniteSet({l, store}) /\ Total({l, store}) = 2
  <2>1. l # store
    BY <1>5
  <2>2. IsFiniteSet({l, store}) /\ Total({l, store}) = l.amount + store.amount
    BY <1>4, <2>1, TotalOfTwo
  <2> QED BY <1>4, <2>2
<1>9. TotalOut(m.bundle) = Total({l} \cup Leaves(m))
  BY <1>2 DEF TotalOut, Total
<1>10. CASE m.coin.amount > m.fee + 1
  <2>1. {l} \cup Leaves(m) = {l, store} \cup {change} /\ change \notin {l, store}
    BY <1>5, <1>6, <1>10
  <2>2. change.amount \in Int /\ \A c \in {l, store} : c.amount \in Int
    BY <1>1, <1>4
  <2>3. PICK S : S = {l, store}
    OBVIOUS
  <2>4. Total(S \cup {change}) = change.amount + Total(S)
    BY <1>8, <2>1, <2>2, <2>3, TotalAdds
  <2>5. TotalOut(m.bundle) = (m.coin.amount - (m.fee + 1)) + 2
    BY <1>4, <1>8, <1>9, <2>1, <2>3, <2>4
  <2> QED BY <1>1, <1>7, <2>5 DEF Balanced
<1>11. CASE ~ (m.coin.amount > m.fee + 1)
  <2>1. {l} \cup Leaves(m) = {l, store}
    BY <1>6, <1>11
  <2>2. TotalOut(m.bundle) = 2
    <3>1. PICK S : S = {l} \cup Leaves(m)
      OBVIOUS
    <3>2. S = {l, store}
      BY <2>1, <3>1
    <3>3. Total(S) = 2 /\ TotalOut(m.bundle) = Total(S)
      BY <1>8, <1>9, <3>1, <3>2
    <3> QED BY <3>3
  <2> QED BY <1>1, <1>7, <2>2 DEF Balanced
<1> QED BY <1>10, <1>11

(* The rest of the chain's rules, for a coin its own key controls.         *)
LEMMA MintIsValid ==
    ASSUME NEW m, IsMint(m), OwnsTheCoin(m), m.coin.amount >= 1
    PROVE  Valid(m.bundle, {m.coin})
<1> DEFINE launch == StoreSpend(m.coin, m.ph)
           pay    == OwnerSpend(m.owner.key, m.coin, m.kind, m.ph, m.fee)
           l      == LauncherCoin(m.coin)
<1>1. m.bundle = {launch, pay}
  BY DEF IsMint
<1>2. /\ launch.coin = l /\ launch.reveal = LauncherPh /\ launch.asserts = {}
      /\ launch.creates = <<CreateCoin(StoreOf(m.coin, m.ph).ph, 1, NoMemos)>>
      /\ pay.coin = m.coin /\ pay.reveal = P2Hash(m.owner.key)
      /\ pay.asserts = {CoinId(l)}
      /\ pay.creates = OwnerCreates(m.coin, m.kind, m.ph, m.fee)
      /\ l.ph = LauncherPh
  BY DEF StoreSpend, OwnerSpend, LauncherCoin, Coin
<1>3. /\ m.coin.ph = P2Hash(m.owner.key)
      /\ m.coin.ph # LauncherPh /\ m.ph # LauncherPh
      /\ m.coin.ph[2].mod = "standard" /\ LauncherPh[2].mod = "singleton_launcher"
  BY HashesDiffer DEF OwnsTheCoin, IsMint
<1>4. AllOutputs(m.bundle) = {l} \cup Leaves(m)
  BY BundleMoves
<1>5. DistinctOutputs(m.bundle)
  <2> HIDE DEF launch, pay
  <2>1. DOMAIN launch.creates = {1}
    BY <1>2
  <2>2. ASSUME NEW i \in DOMAIN pay.creates, NEW j \in DOMAIN pay.creates,
               Created(pay, i) = Created(pay, j)
        PROVE  i = j
    <3> DEFINE h == HintedCreate(m.ph, m.kind)
               c == CreateCoin(m.ph, m.coin.amount - (m.fee + 1), <<m.ph>>)
    <3>1. h.ph = LauncherPh /\ c.ph = m.ph
      BY DEF HintedCreate, CreateCoin
    <3>2. pay.creates = <<h, c>> \/ pay.creates = <<h>>
      BY <1>2 DEF OwnerCreates
    <3> HIDE DEF h, c
    <3>3. \A k \in DOMAIN pay.creates : Created(pay, k).ph = pay.creates[k].ph
      BY DEF Created, Coin
    <3>4. pay.creates[i].ph = pay.creates[j].ph
      BY <2>2, <3>3
    <3>5. CASE pay.creates = <<h>>
      BY <3>5
    <3>6. CASE pay.creates = <<h, c>>
      <4>1. DOMAIN pay.creates = {1, 2} /\ pay.creates[1] = h /\ pay.creates[2] = c
        BY <3>6
      <4> QED BY <1>3, <3>1, <3>4, <4>1
    <3> QED BY <3>2, <3>5, <3>6
  <2> QED BY <1>1, <2>1, <2>2 DEF DistinctOutputs
<1>6. \A s \in m.bundle : SingletonRule(s)
  <2> HIDE DEF launch, pay, l
  <2> QED BY <1>1, <1>2, <1>3 DEF SingletonRule
<1>7. /\ \A s \in m.bundle : s.coin \in {m.coin} \cup AllOutputs(m.bundle)
      /\ \A s \in m.bundle : s.reveal = s.coin.ph
      /\ \A s, t \in m.bundle : s.coin = t.coin => s = t
      /\ \A s \in m.bundle : s.asserts \subseteq {CoinId(t.coin) : t \in m.bundle}
  <2> HIDE DEF launch, pay, l
  <2>1. {CoinId(t.coin) : t \in m.bundle} = {CoinId(l), CoinId(m.coin)}
    BY <1>1, <1>2
  <2>2. l # m.coin
    BY <1>2, <1>3
  <2> QED BY <1>1, <1>2, <1>3, <1>4, <2>1, <2>2
<1> QED BY <1>5, <1>6, <1>7, MintIsBalanced DEF Valid

(* mint.rs:138-148, 173-179; sign.rs:30-36.  A mint that returned Ok for a *)
(* funded coin of its own key would confirm with the one signature that is *)
(* reported, and makes the store it promises.                              *)
THEOREM BuiltMintsLaunch == Spec => []BuiltMintIsLaunchable
<1>1. IInv => BuiltMintIsLaunchable
  <2> SUFFICES ASSUME IInv, NEW m \in built, OwnsTheCoin(m), m.coin.amount >= 1
               PROVE  LET required == RequiredSignatures(m.bundle, ThisNetwork)
                      IN /\ Valid(m.bundle, {m.coin})
                         /\ Authorized(m.bundle, required)
                         /\ Cardinality(required) = 1
                         /\ \A r \in required : r.key = m.owner.key
                         /\ m.datastore \in AllOutputs(m.bundle)
    BY DEF BuiltMintIsLaunchable
  <2> DEFINE required == RequiredSignatures(m.bundle, ThisNetwork)
  <2>1. IsMint(m)
    BY DEF IInv, MintInv
  <2>2. Valid(m.bundle, {m.coin})
    BY <2>1, MintIsValid
  <2>3. required = {Signed(m, ThisNetwork)}
    <3>1. /\ required \subseteq {Signed(m, ThisNetwork)}
          /\ \E s \in m.bundle : \E d \in AggSigs(s) :
               [key |-> d.key, message |-> Message(d, s, ThisNetwork)] = Signed(m, ThisNetwork)
      BY <2>1, MintAsksForOneSignature
    <3>2. Signed(m, ThisNetwork) \in required
      BY <3>1 DEF RequiredSignatures
    <3> QED BY <3>1, <3>2
  <2>4. Authorized(m.bundle, required)
    BY DEF Authorized, RequiredSignatures
  <2>5. Cardinality(required) = 1 /\ \A r \in required : r.key = m.owner.key
    <3>1. Cardinality({Signed(m, ThisNetwork)}) = 1
      BY FS_Singleton
    <3>2. Signed(m, ThisNetwork).key = m.owner.key
      BY DEF Signed
    <3> QED BY <2>3, <3>1, <3>2
  <2>6. m.datastore \in AllOutputs(m.bundle)
    BY <2>1, BundleMoves DEF IsMint, Leaves
  <2> QED BY <2>2, <2>4, <2>5, <2>6
<1> QED BY <1>1, Invariance, PTL
=============================================================================
