---------------------------- MODULE LaunchProofs ----------------------------
(***************************************************************************)
(* Proofs about LaunchSession, for every set of launcher shapes, owners    *)
(* and kinds, every parent and any number of calls.                        *)
(***************************************************************************)
EXTENDS LaunchSession, LaunchBuilderProofs

-----------------------------------------------------------------------------
(* The memo rewrite keeps a list of CREATE_COINs one, and its length.      *)
LEMMA RewriteKeepsType ==
    ASSUME NEW creates \in Seq(CreateCoins), NEW coin,
           NEW owner \in Owners, NEW kind \in Kinds
    PROVE  OverrideLauncherHint(creates, coin, owner, kind).creates \in Seq(CreateCoins)
<1> DEFINE rewritten == OverrideLauncherHint(creates, coin, owner, kind).creates
<1>1. OwnerDiscoveryMemos(owner, kind) \in MemoLists
  <2>1. <<owner, kind>> \in Owners \X Kinds
    OBVIOUS
  <2>2. OwnerDiscoveryMemos(<<owner, kind>>[1], <<owner, kind>>[2])
          = OwnerDiscoveryMemos(owner, kind)
    OBVIOUS
  <2> QED BY <2>1, <2>2 DEF MemoLists
<1>2. ASSUME NEW i \in DOMAIN creates
      PROVE  rewritten[i] \in CreateCoins
  <2>1. creates[i] \in CreateCoins
    OBVIOUS
  <2>2. [creates[i] EXCEPT !.memos = OwnerDiscoveryMemos(owner, kind)] \in CreateCoins
    BY <1>1, <2>1 DEF CreateCoins
  <2> QED BY <2>1, <2>2 DEF OverrideLauncherHint
<1>3. DOMAIN rewritten = 1..Len(creates) /\ Len(creates) \in Nat
  BY DEF OverrideLauncherHint
<1>4. rewritten = [i \in 1..Len(creates) |-> rewritten[i]]
  BY <1>3 DEF OverrideLauncherHint
<1>5. rewritten \in [1..Len(creates) -> CreateCoins]
  BY <1>2, <1>3, <1>4
<1>6. \E n \in Nat : rewritten \in [1..n -> CreateCoins]
  BY <1>3, <1>5
<1> HIDE DEF rewritten
<1>7. rewritten \in Seq(CreateCoins)
  BY <1>6, SeqDef
<1> QED BY <1>7 DEF rewritten

(* The launchers a caller hands over carry CREATE_COINs of that type.      *)
LEMMA LauncherOfType ==
    ASSUME TypeOK, NEW shape \in Shapes
    PROVE  /\ LauncherOf(shape).creates \in Seq(CreateCoins)
           /\ Threaded(LauncherOf(shape)).creates \in Seq(CreateCoins)
<1>1. LauncherOf(shape).creates \in Seq(CreateCoins)
  <2>0. shape.form \in Forms /\ shape.amount \in Nat
    BY ShapesAreTyped
  <2>1. CASE shape.form = "direct"
    <3>1. CreateCoin(LauncherPh, shape.amount, NoMemos) \in CreateCoins
      BY <2>0 DEF CreateCoin, CreateCoins, EmittedHashes, MemoLists
    <3>2. LauncherOf(shape).creates = <<CreateCoin(LauncherPh, shape.amount, NoMemos)>>
      BY <2>1 DEF LauncherOf, NewLauncher, FromCoin, WithSingletonAmount
    <3> QED BY <3>1, <3>2
  <2>2. CASE shape.form \in {"bare", "foreign", "orphan"}
    <3>1. LauncherOf(shape).creates = <<>>
      BY <2>2 DEF LauncherOf, FromCoin, WithSingletonAmount
    <3> QED BY <3>1
  <2>3. CASE shape.form = "intermediate"
    <3> DEFINE ph == IntermediateCoin(CoinId(parent), shape.number).ph
    <3>1. CreateCoin(ph, 0, NoMemos) \in CreateCoins
      BY DEF CreateCoin, CreateCoins, EmittedHashes, MemoLists
    <3>2. LauncherOf(shape).creates = <<CreateCoin(ph, 0, NoMemos)>>
      BY <2>3 DEF LauncherOf, IntermediateLauncher, FromCoin, WithSingletonAmount
    <3> QED BY <3>1, <3>2
  <2> QED BY <2>0, <2>1, <2>2, <2>3 DEF Forms
<1>2. Threaded(LauncherOf(shape)).creates = emitted \o LauncherOf(shape).creates
  BY DEF Threaded, WithSingletonAmount, FromCoin
<1> QED BY <1>1, <1>2 DEF TypeOK

-----------------------------------------------------------------------------
HandedOver(shape, threaded) ==
    IF threaded THEN Threaded(LauncherOf(shape)) ELSE LauncherOf(shape)

(* What one call returns: a launcher refused as illegal leaves the context *)
(* as it was, and whatever gets past that check mints an odd store.        *)
LEMMA CallReturns ==
    ASSUME TypeOK, NEW shape \in Shapes, NEW threaded \in BOOLEAN,
           NEW owner \in Owners, NEW kind \in Kinds
    PROVE  LET launcher == HandedOver(shape, threaded)
               returned == LaunchWithKind(ctx, kind, launcher, owner)
           IN /\ returned.is \in {"ok", "illegal", "unreachable"}
              /\ returned.is = "illegal" => returned.ctx = ctx
              /\ returned.is # "illegal" =>
                   /\ IsOdd(launcher.singletonAmount)
                   /\ returned.ctx = ctx \cup {LauncherSpend(launcher, owner)}
              /\ returned.is = "ok" => returned.creates \in Seq(CreateCoins)
<1> DEFINE launcher == HandedOver(shape, threaded)
           returned == LaunchWithKind(ctx, kind, launcher, owner)
<1>1. launcher.creates \in Seq(CreateCoins)
  BY LauncherOfType DEF HandedOver
<1>2. OverrideLauncherHint(launcher.creates, launcher.coin, owner, kind).creates
        \in Seq(CreateCoins)
  BY <1>1, RewriteKeepsType
<1>3. StoreCoin(launcher, owner).amount = launcher.singletonAmount
  BY DEF StoreCoin, Coin
<1> HIDE DEF launcher
<1>4. CASE ~ LauncherIsLegal(launcher)
  <2>1. returned = [is |-> "illegal", ctx |-> ctx]
    BY <1>4 DEF LaunchWithKind
  <2> QED BY <2>1 DEF launcher
<1>5. CASE LauncherIsLegal(launcher)
  <2>1. IsOdd(launcher.singletonAmount) /\ MintedAmountIsOdd(StoreCoin(launcher, owner).amount)
    BY <1>3, <1>5 DEF LauncherIsLegal, MintedAmountIsOdd
  <2> DEFINE staged == ctx \cup {LauncherSpend(launcher, owner)}
             hinted == OverrideLauncherHint(launcher.creates, launcher.coin, owner, kind)
  <2>2. CASE ~ ReachesTheLauncher(staged, hinted.creates, launcher.coin)
    <3>1. returned = [is |-> "unreachable", ctx |-> staged]
      BY <1>5, <2>1, <2>2 DEF LaunchWithKind
    <3> QED BY <2>1, <3>1 DEF launcher
  <2>3. CASE ReachesTheLauncher(staged, hinted.creates, launcher.coin)
    <3>1. returned.is = "ok" /\ returned.ctx = staged /\ returned.creates = hinted.creates
      BY <1>5, <2>1, <2>3 DEF LaunchWithKind
    <3> QED BY <1>2, <2>1, <3>1 DEF launcher
  <2> QED BY <2>2, <2>3
<1> QED BY <1>4, <1>5

(* A Launch step, in terms of that call.                                   *)
LEMMA LaunchStep ==
    ASSUME NEW shape \in Shapes, NEW threaded \in BOOLEAN,
           NEW owner \in Owners, NEW kind \in Kinds,
           Launch(shape, threaded, owner, kind)
    PROVE  LET returned == LaunchWithKind(ctx, kind, HandedOver(shape, threaded), owner)
           IN /\ phase = "compose" /\ calls < MaxCalls
              /\ ctx' = returned.ctx
              /\ calls' = calls + 1 /\ result' = returned.is
              /\ IF returned.is = "ok"
                   THEN /\ emitted' = IF threaded THEN returned.creates
                                      ELSE emitted \o returned.creates
                        /\ launches' # {}
                   ELSE emitted' = emitted /\ launches' = launches
              /\ UNCHANGED <<parent, phase, bundle>>
BY DEF Launch, HandedOver

-----------------------------------------------------------------------------
(* Whatever shapes, owners, kinds and parent a session has, its variables  *)
(* keep their types: in particular the conditions the parent is to emit    *)
(* stay CREATE_COINs of launchers and intermediates.                       *)
THEOREM TypeCorrect == Spec => []TypeOK
<1>1. Init => TypeOK
  <2> SUFFICES ASSUME Init PROVE TypeOK
    OBVIOUS
  <2>1. emitted \in Seq(CreateCoins)
    BY DEF Init
  <2> QED BY <2>1, MaxCallsIsNat DEF Init, TypeOK
<1>2. TypeOK /\ [Next]_vars => TypeOK'
  <2> SUFFICES ASSUME TypeOK, [Next]_vars PROVE TypeOK'
    OBVIOUS
  <2>0. parent' = parent => CreateCoins' = CreateCoins
    BY DEF CreateCoins, EmittedHashes, MemoLists
  <2>1. ASSUME NEW number, StageIntermediate(number) PROVE TypeOK'
    BY <2>0, <2>1 DEF TypeOK, StageIntermediate, Parents
  <2>2. ASSUME NEW shape \in Shapes, NEW threaded \in BOOLEAN, NEW owner \in Owners,
               NEW kind \in Kinds, Launch(shape, threaded, owner, kind)
        PROVE  TypeOK'
    <3> DEFINE returned == LaunchWithKind(ctx, kind, HandedOver(shape, threaded), owner)
    <3>1. /\ returned.is \in {"ok", "illegal", "unreachable"}
          /\ returned.is = "ok" => returned.creates \in Seq(CreateCoins)
      BY CallReturns
    <3>2. /\ phase = "compose" /\ calls < MaxCalls
          /\ calls' = calls + 1 /\ result' = returned.is
          /\ returned.is = "ok" =>
               emitted' = IF threaded THEN returned.creates ELSE emitted \o returned.creates
          /\ returned.is # "ok" => emitted' = emitted
          /\ UNCHANGED <<parent, phase, bundle>>
      BY <2>2, LaunchStep
    <3> HIDE DEF returned
    <3>3. emitted' \in Seq(CreateCoins)
      <4>0. emitted \in Seq(CreateCoins)
        BY DEF TypeOK
      <4>1. CASE returned.is # "ok"
        BY <3>2, <4>0, <4>1
      <4>2. CASE returned.is = "ok" /\ threaded
        BY <3>1, <3>2, <4>2
      <4>3. CASE returned.is = "ok" /\ ~ threaded
        <5>1. emitted \o returned.creates \in Seq(CreateCoins)
          BY <3>1, <4>0, <4>3
        <5> QED BY <3>2, <4>3, <5>1
      <4> QED BY <4>1, <4>2, <4>3
    <3>4. parent' \in Parents' /\ calls' \in 0..MaxCalls
      BY <3>2, MaxCallsIsNat DEF TypeOK, Parents
    <3> QED BY <2>0, <3>1, <3>2, <3>3, <3>4 DEF TypeOK
  <2>3. ASSUME SpendParentAndDrain PROVE TypeOK'
    BY <2>0, <2>3 DEF TypeOK, SpendParentAndDrain, Parents
  <2>4. ASSUME StartOver PROVE TypeOK'
    <3>1. emitted' \in Seq(CreateCoins)'
      BY <2>4 DEF StartOver
    <3> QED BY <2>4, <3>1 DEF TypeOK, StartOver, Parents
  <2>5. ASSUME Submit PROVE TypeOK'
    BY <2>0, <2>5 DEF TypeOK, Submit, Parents
  <2>6. ASSUME UNCHANGED vars PROVE TypeOK'
    BY <2>0, <2>6 DEF TypeOK, vars, Parents
  <2> QED BY <2>1, <2>2, <2>3, <2>4, <2>5, <2>6 DEF Next
<1> QED BY <1>1, <1>2, PTL DEF Spec

-----------------------------------------------------------------------------
(* mint.rs:1527-1544.  However many launches are composed, in whatever     *)
(* order and shapes, one refused as illegal leaves the context untouched.  *)
THEOREM IllegalRefusalIsAtomic == Spec => RefusalIsAtomic
<1>1. TypeOK /\ [Next]_vars => (calls' # calls /\ result' = "illegal" => UNCHANGED ctx)
  <2> SUFFICES ASSUME TypeOK, [Next]_vars, calls' # calls, result' = "illegal"
               PROVE  ctx' = ctx
    OBVIOUS
  <2>1. PICK shape \in Shapes, threaded \in BOOLEAN, owner \in Owners, kind \in Kinds :
             Launch(shape, threaded, owner, kind)
    BY DEF Next, StageIntermediate, SpendParentAndDrain, StartOver, Submit, vars
  <2> DEFINE returned == LaunchWithKind(ctx, kind, HandedOver(shape, threaded), owner)
  <2>2. returned.is = "illegal" => returned.ctx = ctx
    BY CallReturns
  <2>3. ctx' = returned.ctx /\ result' = returned.is
    BY <2>1, LaunchStep
  <2> QED BY <2>2, <2>3
<1>2. TypeOK /\ [Next]_vars =>
        [calls' # calls /\ result' = "illegal" => UNCHANGED ctx]_vars
  BY <1>1
<1> QED BY <1>2, TypeCorrect, PTL DEF Spec, RefusalIsAtomic

-----------------------------------------------------------------------------
(* A spend whose store outputs, if any, are odd.                           *)
OnlyOddStores(spend) ==
    \A c \in Outputs(spend) : c.ph[2].mod = "datastore" => IsOdd(c.amount)

(* The strengthening of NoFrozenStore: every spend staged or drained.      *)
StoresAreOdd == \A s \in ctx \cup bundle : OnlyOddStores(s)

(* An intermediate creates a launcher and no store.                        *)
LEMMA IntermediateMintsNone ==
    ASSUME NEW id, NEW number
    PROVE  OnlyOddStores(IntermediateSpend(id, number))
<1> DEFINE spend == IntermediateSpend(id, number)
<1>1. spend.creates = <<CreateCoin(LauncherPh, 1, NoMemos)>>
  BY DEF IntermediateSpend, CoinSpend, SpendRevealing
<1>2. ASSUME NEW c \in Outputs(spend) PROVE c.ph = LauncherPh
  BY <1>1, <1>2 DEF Outputs, Created, Coin, CreateCoin
<1>3. LauncherPh[2].mod = "singleton_launcher"
  BY DEF LauncherPh, LauncherPuzzle, TreeHash, Curried
<1> QED BY <1>2, <1>3 DEF OnlyOddStores

(* A launcher creates a store of the odd amount its caller asked for.      *)
LEMMA LauncherMintsOdd ==
    ASSUME NEW launcher, NEW owner, IsOdd(launcher.singletonAmount)
    PROVE  OnlyOddStores(LauncherSpend(launcher, owner))
<1> DEFINE spend == LauncherSpend(launcher, owner)
           store == StoreCoin(launcher, owner)
<1>1. spend.creates = <<CreateCoin(store.ph, store.amount, NoMemos)>>
  BY DEF LauncherSpend, CoinSpend, SpendRevealing
<1>2. store.amount = launcher.singletonAmount
  BY DEF StoreCoin, Coin
<1>3. ASSUME NEW c \in Outputs(spend) PROVE c.amount = launcher.singletonAmount
  BY <1>1, <1>2, <1>3 DEF Outputs, Created, Coin, CreateCoin
<1> QED BY <1>3 DEF OnlyOddStores

(* The parent's launch conditions are to launchers and intermediates, and  *)
(* its own successor is odd.                                               *)
LEMMA ParentMintsOdd ==
    ASSUME TypeOK
    PROVE  OnlyOddStores(ParentSpend)
<1>1. ASSUME NEW cc \in CreateCoins PROVE cc.ph[2].mod # "datastore"
  <2>1. LauncherPh[2].mod = "singleton_launcher"
    BY DEF LauncherPh, LauncherPuzzle, TreeHash, Curried
  <2>2. ASSUME NEW id, NEW number
        PROVE  IntermediateCoin(id, number).ph[2].mod = "nft_intermediate"
    BY DEF IntermediateCoin, IntermediatePuzzle, Coin, TreeHash, Curried
  <2> QED BY <1>1, <2>1, <2>2 DEF CreateCoins, EmittedHashes
<1>2. IsOdd(parent.amount)
  BY ParentIsOdd DEF TypeOK, Parents, Coin
<1> DEFINE successor == CreateCoin(parent.ph, parent.amount, NoMemos)
<1>3. ASSUME NEW i \in DOMAIN ParentSpend.creates
      PROVE  ParentSpend.creates[i] \in CreateCoins \cup {successor}
  <2>1. emitted \in Seq(CreateCoins)
    BY DEF TypeOK
  <2>2. ParentSpend.creates = emitted \/ ParentSpend.creates = Append(emitted, successor)
    BY DEF ParentSpend, CoinSpend, SpendRevealing
  <2>3. CASE ParentSpend.creates = emitted
    BY <1>3, <2>1, <2>3
  <2>4. CASE ParentSpend.creates = Append(emitted, successor)
    BY <1>3, <2>1, <2>4
  <2> QED BY <2>2, <2>3, <2>4
<1>4. successor.amount = parent.amount
  BY DEF CreateCoin
<1>5. ASSUME NEW c \in Outputs(ParentSpend), c.ph[2].mod = "datastore"
      PROVE  IsOdd(c.amount)
  <2>1. PICK i \in DOMAIN ParentSpend.creates :
             c.ph = ParentSpend.creates[i].ph /\ c.amount = ParentSpend.creates[i].amount
    BY <1>5 DEF Outputs, Created, Coin
  <2> QED BY <1>1, <1>2, <1>3, <1>4, <1>5, <2>1
<1> QED BY <1>5 DEF OnlyOddStores

(* The coin that pays creates nothing.                                     *)
LEMMA FunderMintsNone == OnlyOddStores(CoinSpend(Funder, <<>>, {}))
BY DEF OnlyOddStores, Outputs, CoinSpend, SpendRevealing

(* mint.rs:265-274, 410-445.  No composition of launches leaves a frozen   *)
(* store on chain.                                                         *)
THEOREM NothingFreezes == Spec => []NoFrozenStore
<1>1. Init => StoresAreOdd
  BY DEF Init, StoresAreOdd
<1>2. TypeOK /\ StoresAreOdd /\ [Next]_vars => StoresAreOdd'
  <2> SUFFICES ASSUME TypeOK, StoresAreOdd, [Next]_vars PROVE StoresAreOdd'
    OBVIOUS
  <2>1. ASSUME NEW number, StageIntermediate(number) PROVE StoresAreOdd'
    <3>1. ctx' = ctx \cup {IntermediateSpend(CoinId(parent), number)} /\ bundle' = bundle
      BY <2>1 DEF StageIntermediate
    <3>2. OnlyOddStores(IntermediateSpend(CoinId(parent), number))
      BY IntermediateMintsNone
    <3> QED BY <3>1, <3>2 DEF StoresAreOdd
  <2>2. ASSUME NEW shape \in Shapes, NEW threaded \in BOOLEAN, NEW owner \in Owners,
               NEW kind \in Kinds, Launch(shape, threaded, owner, kind)
        PROVE  StoresAreOdd'
    <3> DEFINE launcher == HandedOver(shape, threaded)
               returned == LaunchWithKind(ctx, kind, launcher, owner)
    <3>1. /\ returned.is = "illegal" => returned.ctx = ctx
          /\ returned.is # "illegal" =>
               /\ IsOdd(launcher.singletonAmount)
               /\ returned.ctx = ctx \cup {LauncherSpend(launcher, owner)}
      BY CallReturns
    <3>2. ctx' = returned.ctx /\ bundle' = bundle
      BY <2>2, LaunchStep
    <3> HIDE DEF launcher, returned
    <3>3. IsOdd(launcher.singletonAmount) => OnlyOddStores(LauncherSpend(launcher, owner))
      BY LauncherMintsOdd
    <3> QED BY <3>1, <3>2, <3>3 DEF StoresAreOdd
  <2>3. ASSUME SpendParentAndDrain PROVE StoresAreOdd'
    <3>1. ctx' = {} /\ bundle' = ctx \cup {ParentSpend, CoinSpend(Funder, <<>>, {})}
      BY <2>3 DEF SpendParentAndDrain
    <3> QED BY <3>1, ParentMintsOdd, FunderMintsNone DEF StoresAreOdd
  <2>4. ASSUME StartOver \/ Submit \/ UNCHANGED vars PROVE StoresAreOdd'
    BY <2>4 DEF StartOver, Submit, vars, StoresAreOdd
  <2> QED BY <2>1, <2>2, <2>3, <2>4 DEF Next
<1>3. StoresAreOdd => NoFrozenStore
  BY DEF StoresAreOdd, OnlyOddStores, NoFrozenStore, AllOutputs
<1> QED BY <1>1, <1>2, <1>3, TypeCorrect, PTL DEF Spec

-----------------------------------------------------------------------------
(* What a session gathers.  A direct launch is created by the parent, an   *)
(* intermediate one by the hop the parent creates.                         *)
Pid == CoinId(parent)
DirectLauncher(amount) == Coin(Pid, LauncherPh, amount)
Hop(number) == IntermediateCoin(Pid, number)
HopSpend(number) == IntermediateSpend(Pid, number)
HopLauncher(number) == Coin(CoinId(Hop(number)), LauncherPh, 1)

Minted(create) == Coin(Pid, create.ph, create.amount)

StoreSpend(l) ==
    CoinSpend(l.launcherCoin, <<CreateCoin(l.datastore.ph, l.datastore.amount, NoMemos)>>, {})

(* The mojos of the dearest store.                                         *)
Covers(most) ==
    /\ MaxCalls * most <= FunderAmount
    /\ \A s \in Shapes : s.singleton <= most

Most == CHOOSE most \in 0..FunderAmount : Covers(most)

(* There is an amount no store of the session exceeds, and the funder pays *)
(* it for every call.                                                      *)
LEMMA MostCovers == Most \in Nat /\ Covers(Most)
<1>1. Most \in 0..FunderAmount /\ Covers(Most)
  BY FunderPaysForAll DEF Most, Covers
<1> QED BY <1>1, FunderPaysForAll

IsLaunch(l) ==
    /\ l.datastore = Coin(CoinId(l.launcherCoin), l.datastore.ph, l.datastore.amount)
    /\ l.datastore.ph[2].mod = "datastore"
    /\ l.datastore.amount \in 0..Most
    /\ \/ l.memosWritten = TRUE  /\ \E amount \in Nat : l.launcherCoin = DirectLauncher(amount)
       \/ l.memosWritten = FALSE /\ \E number : l.launcherCoin = HopLauncher(number)

EmittedFor(create, l) ==
    \/ /\ l.memosWritten = TRUE
       /\ Minted(create) = l.launcherCoin
       /\ create.memos = OwnerDiscoveryMemos(l.owner, l.kind)
    \/ /\ l.memosWritten = FALSE
       /\ create.memos = NoMemos
       /\ \E number : l.launcherCoin = HopLauncher(number) /\ Minted(create) = Hop(number)

(* The session's coins, field by field; two intermediates of one number    *)
(* are one coin.                                                           *)
LEMMA SessionCoins ==
    /\ \A amount : LET l == DirectLauncher(amount)
                   IN l.parent = Pid /\ l.ph = LauncherPh /\ l.amount = amount
    /\ \A number : LET h == Hop(number)
                   IN h.parent = Pid /\ h.ph[2].mod = "nft_intermediate" /\ h.amount = 0
    /\ \A number : LET l == HopLauncher(number)
                   IN l.parent = CoinId(Hop(number)) /\ l.ph = LauncherPh /\ l.amount = 1
    /\ LauncherPh[2].mod = "singleton_launcher"
    /\ \A m, n : Hop(m) = Hop(n) => m = n
BY DEF DirectLauncher, Hop, HopLauncher, IntermediateCoin, Coin, LauncherPh, LauncherPuzzle,
       IntermediatePuzzle, TreeHash, Curried

(* The spends a launch stages, condition by condition.                     *)
LEMMA SessionSpends ==
    /\ \A number : /\ HopSpend(number).coin = Hop(number)
                   /\ HopSpend(number).creates = <<CreateCoin(LauncherPh, 1, NoMemos)>>
                   /\ Outputs(HopSpend(number)) = {HopLauncher(number)}
    /\ \A l : /\ StoreSpend(l).coin = l.launcherCoin
              /\ StoreSpend(l).creates = <<CreateCoin(l.datastore.ph, l.datastore.amount, NoMemos)>>
<1>1. \A number : /\ HopSpend(number).coin = Hop(number)
                  /\ HopSpend(number).creates = <<CreateCoin(LauncherPh, 1, NoMemos)>>
                  /\ HopSpend(number) = CoinSpend(Hop(number), <<CreateCoin(LauncherPh, 1, NoMemos)>>, {})
  BY DEF HopSpend, IntermediateSpend, CoinSpend, SpendRevealing, Hop
<1>2. ASSUME NEW number PROVE Outputs(HopSpend(number)) = {HopLauncher(number)}
  <2>1. Outputs(HopSpend(number)) = {Child(Hop(number), CreateCoin(LauncherPh, 1, NoMemos))}
    BY <1>1, OneOutput
  <2>2. Child(Hop(number), CreateCoin(LauncherPh, 1, NoMemos)) = HopLauncher(number)
    BY DEF Child, CreateCoin, HopLauncher
  <2> QED BY <2>1, <2>2
<1>3. \A l : /\ StoreSpend(l).coin = l.launcherCoin
             /\ StoreSpend(l).creates = <<CreateCoin(l.datastore.ph, l.datastore.amount, NoMemos)>>
  BY DEF StoreSpend, CoinSpend, SpendRevealing
<1> QED BY <1>1, <1>2, <1>3

(* A condition added to a list none of whose others makes this launcher,   *)
(* and the list the memo rewrite makes of the whole.                       *)
AddsLast(T, creates, create, out, coin, ph, kind) ==
    /\ creates \in Seq(T) /\ create \in T /\ out \in T
    /\ \A i \in DOMAIN creates : ~ IsThisLauncher(creates[i], coin)
    /\ out = IF IsThisLauncher(create, coin)
               THEN [create EXCEPT !.memos = OwnerDiscoveryMemos(ph, kind)] ELSE create

RewritesLast(creates, create, out, coin, ph, kind) ==
    LET hinted == OverrideLauncherHint(creates \o <<create>>, coin, ph, kind)
    IN /\ hinted.creates = creates \o <<out>>
       /\ hinted.written \in BOOLEAN
       /\ hinted.written <=> IsThisLauncher(create, coin)

(* mint.rs:561-598.  When only the last condition can create the launcher, *)
(* override_launcher_hint rewrites the memos of that one, or of none.      *)
LEMMA RewriteOfLast ==
    ASSUME NEW T, NEW creates, NEW create, NEW out, NEW coin, NEW ph, NEW kind,
           AddsLast(T, creates, create, out, coin, ph, kind)
    PROVE  RewritesLast(creates, create, out, coin, ph, kind)
<1> USE DEF AddsLast
<1> DEFINE old == creates \o <<create>>
           new == creates \o <<out>>
           hinted == OverrideLauncherHint(old, coin, ph, kind)
           n == Len(creates)
<1>1. <<create>> \in Seq(T) /\ <<out>> \in Seq(T) /\ Len(<<create>>) = 1 /\ Len(<<out>>) = 1
      /\ <<create>>[1] = create /\ <<out>>[1] = out /\ n \in Nat /\ DOMAIN creates = 1..n
  OBVIOUS
<1>2. /\ old \in Seq(T) /\ Len(old) = n + 1
      /\ \A i \in 1..(n + 1) : old[i] = IF i <= n THEN creates[i] ELSE <<create>>[i - n]
  BY <1>1, ConcatProperties
<1>3. /\ new \in Seq(T) /\ Len(new) = n + 1
      /\ \A i \in 1..(n + 1) : new[i] = IF i <= n THEN creates[i] ELSE <<out>>[i - n]
  BY <1>1, ConcatProperties
<1>4. /\ \A i \in 1..n : old[i] = creates[i] /\ new[i] = creates[i]
      /\ old[n + 1] = create /\ new[n + 1] = out
  <2>1. \A i \in 1..n : i \in 1..(n + 1) /\ i <= n
    BY <1>1
  <2>2. n + 1 \in 1..(n + 1) /\ ~ (n + 1 <= n) /\ (n + 1) - n = 1
    BY <1>1
  <2> HIDE DEF old, new, n
  <2> QED BY <1>1, <1>2, <1>3, <2>1, <2>2
<1>5. DOMAIN old = 1..(n + 1) /\ DOMAIN new = 1..(n + 1)
  BY <1>2, <1>3
<1>6. \A i \in 1..(n + 1) : i \in 1..n \/ i = n + 1
  BY <1>1
<1> HIDE DEF old, new, n
<1>7. /\ hinted.creates = [i \in DOMAIN old |->
                             IF IsThisLauncher(old[i], coin)
                               THEN [old[i] EXCEPT !.memos = OwnerDiscoveryMemos(ph, kind)]
                               ELSE old[i]]
      /\ hinted.written = \E i \in DOMAIN old : IsThisLauncher(old[i], coin)
  BY DEF OverrideLauncherHint
<1>8. hinted.written \in BOOLEAN /\ (hinted.written <=> IsThisLauncher(create, coin))
  <2>1. n + 1 \in 1..(n + 1)
    BY <1>1
  <2>2. \A i \in DOMAIN creates : ~ IsThisLauncher(creates[i], coin)
    OBVIOUS
  <2>3. (\E i \in DOMAIN old : IsThisLauncher(old[i], coin)) <=> IsThisLauncher(create, coin)
    BY <1>1, <1>4, <1>5, <1>6, <2>1, <2>2
  <2> QED BY <1>7, <2>3
<1>9. hinted.creates = new
  <2>1. \A i \in 1..(n + 1) : hinted.creates[i] = new[i]
    BY <1>1, <1>4, <1>5, <1>6, <1>7
  <2>2. new = [i \in 1..(n + 1) |-> new[i]]
    BY <1>3, <1>5
  <2>3. hinted.creates = [i \in 1..(n + 1) |-> hinted.creates[i]]
    BY <1>5, <1>7
  <2> QED BY <2>1, <2>2, <2>3
<1> QED BY <1>8, <1>9 DEF old, new, RewritesLast

-----------------------------------------------------------------------------
(* The launchers a caller hands over, form by form.                        *)
Plain(amount) == CreateCoin(LauncherPh, amount, NoMemos)
HopCreate(number) == CreateCoin(Hop(number).ph, 0, NoMemos)

(* What each way to obtain a Launcher hands to the builder.                *)
LEMMA LauncherForms ==
    ASSUME NEW shape \in Shapes
    PROVE  LET launcher == LauncherOf(shape)
           IN /\ launcher.singletonAmount = shape.singleton
              /\ shape.form = "direct" =>
                   /\ launcher.coin = DirectLauncher(shape.amount)
                   /\ launcher.creates = <<Plain(shape.amount)>> /\ launcher.asserts = {}
                   /\ Threaded(launcher).coin = DirectLauncher(shape.amount)
                   /\ Threaded(launcher).creates = emitted \o <<Plain(shape.amount)>>
                   /\ Threaded(launcher).asserts = asserted
                   /\ Threaded(launcher).singletonAmount = shape.singleton
              /\ shape.form = "intermediate" =>
                   /\ launcher.coin = HopLauncher(shape.number)
                   /\ launcher.creates = <<HopCreate(shape.number)>>
                   /\ launcher.asserts = {CoinId(Hop(shape.number))}
              /\ shape.form \in {"bare", "foreign", "orphan"} => launcher.creates = <<>>
<1> DEFINE launcher == LauncherOf(shape)
<1>1. shape.form = "direct" =>
        /\ launcher.coin = DirectLauncher(shape.amount)
        /\ launcher.creates = <<Plain(shape.amount)>> /\ launcher.asserts = {}
        /\ launcher.singletonAmount = shape.singleton
  BY DEF LauncherOf, WithSingletonAmount, NewLauncher, FromCoin, DirectLauncher, Pid, Plain
<1>2. shape.form = "intermediate" =>
        /\ launcher.coin = HopLauncher(shape.number)
        /\ launcher.creates = <<HopCreate(shape.number)>>
        /\ launcher.asserts = {CoinId(Hop(shape.number))}
        /\ launcher.singletonAmount = shape.singleton
  BY DEF LauncherOf, WithSingletonAmount, IntermediateLauncher, FromCoin, HopLauncher, Hop, Pid, HopCreate
<1>3. shape.form \in {"bare", "foreign", "orphan"} =>
        launcher.creates = <<>> /\ launcher.singletonAmount = shape.singleton
  BY DEF LauncherOf, WithSingletonAmount, FromCoin
<1>4. shape.form \in {"direct", "intermediate", "bare", "foreign", "orphan"}
  BY ShapesAreTyped DEF Forms
<1>5. \A x : LET t == Threaded(x)
             IN /\ t.coin = x.coin /\ t.creates = emitted \o x.creates
                /\ t.asserts = asserted \cup x.asserts /\ t.singletonAmount = x.singletonAmount
  BY DEF Threaded, WithSingletonAmount, FromCoin
<1> HIDE DEF launcher
<1>6. shape.form = "direct" =>
        /\ Threaded(launcher).coin = DirectLauncher(shape.amount)
        /\ Threaded(launcher).creates = emitted \o <<Plain(shape.amount)>>
        /\ Threaded(launcher).asserts = asserted
        /\ Threaded(launcher).singletonAmount = shape.singleton
  BY <1>1, <1>5
<1> QED BY <1>1, <1>2, <1>3, <1>4, <1>6 DEF launcher

(* A launcher whose coin nothing handed over with it creates is refused.   *)
LEMMA BareIsRefused ==
    ASSUME NEW staged, NEW launcher, launcher.creates = <<>>, NEW kind, NEW owner
    PROVE  LaunchWithKind(staged, kind, launcher, owner).is # "ok"
<1> DEFINE returned == LaunchWithKind(staged, kind, launcher, owner)
           hinted == OverrideLauncherHint(launcher.creates, launcher.coin, owner, kind)
<1>1. DOMAIN hinted.creates = {}
  BY DEF OverrideLauncherHint
<1> HIDE DEF hinted
<1>2. \A S : ~ ReachesTheLauncher(S, hinted.creates, launcher.coin)
  BY <1>1 DEF ReachesTheLauncher, CreatesCoin
<1>3. returned.is = "ok" => ReachesTheLauncher(returned.ctx, hinted.creates, launcher.coin)
  BY AcceptedLaunch DEF hinted
<1> QED BY <1>2, <1>3

(* What emitted conditions create, seen from their launches.               *)
EmittedInv ==
    /\ \A i \in DOMAIN emitted : \E l \in launches : EmittedFor(emitted[i], l)
    /\ \A l \in launches : \E i \in DOMAIN emitted : EmittedFor(emitted[i], l)
    /\ \A i, j \in DOMAIN emitted : Minted(emitted[i]) = Minted(emitted[j]) => i = j

(* No condition gathered so far creates a launcher that was not launched   *)
(* yet.                                                                    *)
LEMMA FreshLauncher ==
    ASSUME EmittedInv, NEW amount, \A l \in launches : l.launcherCoin # DirectLauncher(amount)
    PROVE  \A i \in DOMAIN emitted : ~ IsThisLauncher(emitted[i], DirectLauncher(amount))
<1> SUFFICES ASSUME NEW i \in DOMAIN emitted PROVE ~ IsThisLauncher(emitted[i], DirectLauncher(amount))
  OBVIOUS
<1>1. PICK l \in launches : EmittedFor(emitted[i], l)
  BY DEF EmittedInv
<1>2. Minted(emitted[i]) # DirectLauncher(amount)
  <2>1. CASE Minted(emitted[i]) = l.launcherCoin
    BY <2>1
  <2>2. CASE \E number : Minted(emitted[i]) = Hop(number)
    BY <2>2, SessionCoins
  <2> QED BY <1>1, <2>1, <2>2 DEF EmittedFor
<1>3. DirectLauncher(amount).parent = Pid
  BY SessionCoins
<1> QED BY <1>2, <1>3, CoinIdsDiffer DEF IsThisLauncher, Minted

(* What a call adds when it returns Ok: a launch, its store's spend, and   *)
(* one condition that leads to its launcher.                               *)
Adds(l, e) ==
    /\ IsLaunch(l)
    /\ \A m \in launches : m.launcherCoin # l.launcherCoin
    /\ \A number : l.launcherCoin = HopLauncher(number) => HopSpend(number) \in ctx
    /\ launches' = launches \cup {l}
    /\ ctx' = ctx \cup {StoreSpend(l)}
    /\ EmittedFor(e, l)
    /\ emitted' = emitted \o <<e>>
    /\ asserted' \subseteq asserted \cup {CoinId(s.coin) : s \in ctx'}

(* The store a call mints.                                                 *)
LEMMA MintedStore ==
    ASSUME NEW shape \in Shapes, NEW launcher, launcher.singletonAmount = shape.singleton,
           NEW owner, NEW l, l.launcherCoin = launcher.coin, l.datastore = StoreCoin(launcher, owner)
    PROVE  /\ l.datastore = Coin(CoinId(l.launcherCoin), l.datastore.ph, l.datastore.amount)
           /\ l.datastore.ph[2].mod = "datastore"
           /\ l.datastore.amount \in 0..Most
           /\ LauncherSpend(launcher, owner) = StoreSpend(l)
<1>1. l.datastore.amount = shape.singleton
      /\ l.datastore = Coin(CoinId(l.launcherCoin), l.datastore.ph, l.datastore.amount)
      /\ l.datastore.ph[2].mod = "datastore"
  BY DEF StoreCoin, Coin, TreeHash, Curried
<1>2. shape.singleton \in 0..Most
  BY MostCovers, ShapesAreTyped DEF Covers
<1>3. LauncherSpend(launcher, owner) = StoreSpend(l)
  BY DEF LauncherSpend, StoreSpend
<1> QED BY <1>1, <1>2, <1>3

(* mint.rs:316-383.  A call that returns Ok adds one launch, its spends    *)
(* and one condition to what there was, and changes nothing else.          *)
LEMMA OkCall ==
    ASSUME TypeOK, EmittedInv, ThreadedForms \subseteq {"direct"},
           NEW shape \in Shapes, NEW threaded \in BOOLEAN, NEW owner \in Owners, NEW kind \in Kinds,
           Launch(shape, threaded, owner, kind), result' = "ok"
    PROVE  \E l, e : Adds(l, e)
<1> DEFINE launcher == HandedOver(shape, threaded)
           returned == LaunchWithKind(ctx, kind, launcher, owner)
           hinted == OverrideLauncherHint(launcher.creates, launcher.coin, owner, kind)
           l == [launcherCoin |-> launcher.coin, owner |-> owner, kind |-> kind,
                 datastore |-> returned.datastore, memosWritten |-> returned.memosWritten]
<1>1. /\ returned.is = "ok"
      /\ threaded => shape.form = "direct"
      /\ NeedsIntermediate(shape) => HopSpend(shape.number) \in ctx
      /\ \A m \in launches : m.launcherCoin # launcher.coin
      /\ ctx' = returned.ctx
      /\ emitted' = IF threaded THEN returned.creates ELSE emitted \o returned.creates
      /\ asserted' = asserted \cup returned.asserts
      /\ launches' = launches \cup {l}
  BY DEF Launch, HandedOver, HopSpend, Pid
<1>2. /\ returned.ctx = ctx \cup {LauncherSpend(launcher, owner)}
      /\ returned.creates = hinted.creates
      /\ returned.asserts = launcher.asserts \cup {CoinId(launcher.coin)}
      /\ returned.memosWritten = hinted.written
      /\ returned.datastore = StoreCoin(launcher, owner)
  BY <1>1, AcceptedLaunch
<1>3. shape.form \in {"direct", "intermediate"}
  <2>1. shape.form \in {"direct", "intermediate", "bare", "foreign", "orphan"}
    BY ShapesAreTyped DEF Forms
  <2>2. ASSUME shape.form \in {"bare", "foreign", "orphan"} PROVE FALSE
    <3>1. launcher.creates = <<>>
      BY <1>1, <2>2, LauncherForms DEF HandedOver
    <3> HIDE DEF launcher
    <3> QED BY <1>1, <3>1, BareIsRefused
  <2> QED BY <2>1, <2>2
<1>4. launcher.singletonAmount = shape.singleton
  BY <1>1, LauncherForms DEF HandedOver
<1>5. /\ l.launcherCoin = launcher.coin /\ l.owner = owner /\ l.kind = kind
      /\ l.datastore = StoreCoin(launcher, owner) /\ l.memosWritten = hinted.written
  BY <1>2
<1>6. l.launcherCoin = launcher.coin /\ \A m \in launches : m.launcherCoin # l.launcherCoin
  BY <1>1
<1>7. StoreSpend(l).coin = launcher.coin
  BY <1>5, SessionSpends
<1> HIDE DEF l
<1>8. /\ l.datastore = Coin(CoinId(l.launcherCoin), l.datastore.ph, l.datastore.amount)
      /\ l.datastore.ph[2].mod = "datastore"
      /\ l.datastore.amount \in 0..Most
      /\ LauncherSpend(launcher, owner) = StoreSpend(l)
  <2> HIDE DEF launcher
  <2> QED BY <1>4, <1>5, MintedStore
<1>9. ctx' = ctx \cup {StoreSpend(l)}
  BY <1>1, <1>2, <1>8
<1>10. CoinId(launcher.coin) \in {CoinId(s.coin) : s \in ctx'}
  <2>1. StoreSpend(l) \in ctx'
    BY <1>9
  <2> QED BY <1>7, <2>1
<1>11. CASE shape.form = "direct"
  <2> DEFINE plain == Plain(shape.amount)
             e == CreateCoin(LauncherPh, shape.amount, OwnerDiscoveryMemos(owner, kind))
  <2>0. shape.amount \in Nat
    BY ShapesAreTyped
  <2>1. /\ launcher.coin = DirectLauncher(shape.amount)
        /\ launcher.creates = IF threaded THEN emitted \o <<plain>> ELSE <<plain>>
        /\ launcher.asserts \subseteq asserted
    BY <1>11, LauncherForms DEF HandedOver
  <2>2. /\ plain \in CreateCoins /\ e \in CreateCoins
    <3>1. OwnerDiscoveryMemos(owner, kind) \in MemoLists
      <4>1. <<owner, kind>> \in Owners \X Kinds
        OBVIOUS
      <4>2. OwnerDiscoveryMemos(<<owner, kind>>[1], <<owner, kind>>[2]) = OwnerDiscoveryMemos(owner, kind)
        OBVIOUS
      <4> QED BY <4>1, <4>2 DEF MemoLists
    <3> QED BY <2>0, <3>1 DEF Plain, CreateCoin, CreateCoins, EmittedHashes, MemoLists
  <2>3. /\ IsThisLauncher(plain, launcher.coin)
        /\ e = [plain EXCEPT !.memos = OwnerDiscoveryMemos(owner, kind)]
    <3>1. plain.ph = LauncherPh /\ plain.amount = shape.amount
      BY DEF Plain, CreateCoin
    <3>2. launcher.coin.parent = Pid
      BY <2>1, SessionCoins
    <3> QED BY <2>1, <3>1, <3>2 DEF IsThisLauncher, DirectLauncher, Plain, CreateCoin
  <2>4. Minted(e) = launcher.coin /\ e.memos = OwnerDiscoveryMemos(owner, kind)
    BY <2>1 DEF Minted, CreateCoin, DirectLauncher
  <2>5. \A i \in DOMAIN emitted : ~ IsThisLauncher(emitted[i], launcher.coin)
    BY <1>1, <2>1, FreshLauncher
  <2>6. emitted \in Seq(CreateCoins)
    BY DEF TypeOK
  <2> HIDE DEF plain, e
  <2>7. e = IF IsThisLauncher(plain, launcher.coin)
              THEN [plain EXCEPT !.memos = OwnerDiscoveryMemos(owner, kind)] ELSE plain
    BY <2>3
  <2> HIDE DEF launcher, hinted
  <2>8. hinted.creates = (IF threaded THEN emitted \o <<e>> ELSE <<e>>) /\ hinted.written = TRUE
    <3>1. PICK coin : coin = launcher.coin
      OBVIOUS
    <3>2. CASE threaded
      <4>1. AddsLast(CreateCoins, emitted, plain, e, coin, owner, kind)
        BY <2>2, <2>5, <2>6, <2>7, <3>1 DEF AddsLast
      <4>2. RewritesLast(emitted, plain, e, coin, owner, kind)
        BY ONLY <4>1, RewriteOfLast
      <4>3. hinted = OverrideLauncherHint(emitted \o <<plain>>, coin, owner, kind)
        BY <2>1, <3>1, <3>2 DEF hinted
      <4> QED BY <2>3, <3>1, <3>2, <4>2, <4>3 DEF RewritesLast
    <3>3. CASE ~ threaded
      <4>1. e = IF IsThisLauncher(plain, coin)
                  THEN [plain EXCEPT !.memos = OwnerDiscoveryMemos(owner, kind)] ELSE plain
        BY <2>7, <3>1
      <4>2. LET h == OverrideLauncherHint(<<plain>>, coin, owner, kind)
            IN /\ h.creates = <<e>>
               /\ h.written \in BOOLEAN
               /\ h.written <=> IsThisLauncher(plain, coin)
        BY ONLY <4>1, RewriteOfOne
      <4>3. hinted = OverrideLauncherHint(<<plain>>, coin, owner, kind)
        BY <2>1, <3>1, <3>3 DEF hinted
      <4> QED BY <2>3, <3>1, <3>3, <4>2, <4>3
    <3> QED BY <3>2, <3>3
  <2>9. emitted' = emitted \o <<e>>
    BY <1>1, <1>2, <2>8
  <2>10. EmittedFor(e, l) /\ l.memosWritten = TRUE
    BY <1>5, <2>4, <2>8 DEF EmittedFor
  <2>11. l.launcherCoin = DirectLauncher(shape.amount)
    BY <1>5, <2>1
  <2>12. \A number : l.launcherCoin # HopLauncher(number)
    <3> SUFFICES ASSUME NEW number, DirectLauncher(shape.amount) = HopLauncher(number) PROVE FALSE
      BY <2>11
    <3>1. Pid = CoinId(Hop(number)) /\ Hop(number).parent = Pid
      BY SessionCoins
    <3>2. parent = Hop(number) /\ parent.parent = Genesis
      BY <3>1, CoinIdsDiffer DEF Pid, TypeOK, Parents, Coin
    <3> QED BY <3>1, <3>2, CoinIdsDiffer DEF Pid
  <2>13. asserted' \subseteq asserted \cup {CoinId(s.coin) : s \in ctx'}
    BY <1>1, <1>2, <1>10, <2>1
  <2>14. IsLaunch(l)
    BY <1>8, <2>0, <2>10, <2>11 DEF IsLaunch
  <2> QED BY <1>1, <1>6, <1>9, <2>9, <2>10, <2>12, <2>13, <2>14 DEF Adds
<1>12. CASE shape.form = "intermediate"
  <2> DEFINE n == shape.number
             e == HopCreate(n)
  <2>1. ~ threaded /\ HopSpend(n) \in ctx
    BY <1>1, <1>12 DEF NeedsIntermediate
  <2>2. /\ launcher.coin = HopLauncher(n) /\ launcher.creates = <<e>>
        /\ launcher.asserts = {CoinId(Hop(n))}
    BY <1>12, <2>1, LauncherForms DEF HandedOver
  <2>3. Minted(e) = Hop(n) /\ e.memos = NoMemos /\ e.ph = Hop(n).ph
    BY DEF Minted, HopCreate, CreateCoin, Hop, IntermediateCoin, Coin, Pid
  <2>4. ~ IsThisLauncher(e, launcher.coin)
    <3>1. e.ph # LauncherPh /\ launcher.coin.ph = LauncherPh
      BY <2>2, <2>3, SessionCoins
    <3>2. Coin(launcher.coin.parent, e.ph, e.amount).ph = e.ph
      BY CoinFields
    <3> HIDE DEF launcher, e
    <3> QED BY <3>1, <3>2, CoinIdsDiffer DEF IsThisLauncher
  <2> HIDE DEF e
  <2>5. hinted.creates = <<e>> /\ hinted.written = FALSE
    <3> HIDE DEF launcher
    <3>1. PICK out : out = IF IsThisLauncher(e, launcher.coin)
                             THEN [e EXCEPT !.memos = OwnerDiscoveryMemos(owner, kind)] ELSE e
      OBVIOUS
    <3>2. LET h == OverrideLauncherHint(<<e>>, launcher.coin, owner, kind)
          IN /\ h.creates = <<out>> /\ h.written \in BOOLEAN
             /\ h.written <=> IsThisLauncher(e, launcher.coin)
      BY ONLY <3>1, RewriteOfOne
    <3> QED BY <2>2, <2>4, <3>1, <3>2
  <2>6. CoinId(Hop(n)) \in {CoinId(s.coin) : s \in ctx'}
    <3>1. HopSpend(n) \in ctx' /\ HopSpend(n).coin = Hop(n)
      BY <1>9, <2>1, SessionSpends
    <3> QED BY <3>1
  <2> HIDE DEF launcher, hinted
  <2>7. emitted' = emitted \o <<e>>
    BY <1>1, <1>2, <2>1, <2>5
  <2>8. EmittedFor(e, l) /\ l.memosWritten = FALSE /\ l.launcherCoin = HopLauncher(n)
    BY <1>5, <2>2, <2>3, <2>5 DEF EmittedFor
  <2>9. \A number : l.launcherCoin = HopLauncher(number) => HopSpend(number) \in ctx
    <3> SUFFICES ASSUME NEW number, HopLauncher(n) = HopLauncher(number) PROVE number = n
      BY <2>1, <2>8
    <3> QED BY SessionCoins, CoinIdsDiffer
  <2>10. asserted' \subseteq asserted \cup {CoinId(s.coin) : s \in ctx'}
    BY <1>1, <1>2, <1>10, <2>2, <2>6
  <2> QED BY <1>1, <1>6, <1>8, <1>9, <2>7, <2>8, <2>9, <2>10 DEF Adds, IsLaunch
<1> QED BY <1>3, <1>11, <1>12

-----------------------------------------------------------------------------
(* The session's invariant.  Staged are the spends the launches staged,    *)
(* wherever they now are; Paying, the two the caller adds to them.         *)
FunderSpend == CoinSpend(Funder, <<>>, {})
Paying == {ParentSpend, FunderSpend}
Staged == IF phase = "compose" THEN ctx ELSE bundle \ Paying

(* Every spend is an intermediate's or a launch's, and every launch has    *)
(* the spends that lead to its store.                                      *)
SpendsInv ==
    /\ \A s \in Staged : \/ \E number : s = HopSpend(number)
                         \/ \E l \in launches : s = StoreSpend(l)
    /\ \A l \in launches : StoreSpend(l) \in Staged
    /\ \A l \in launches : \A number :
          l.launcherCoin = HopLauncher(number) => HopSpend(number) \in Staged
    /\ asserted \subseteq {CoinId(s.coin) : s \in Staged}

LaunchesInv ==
    /\ \A l \in launches : IsLaunch(l)
    /\ \A l, m \in launches : l.launcherCoin = m.launcherCoin => l = m

(* What is made is paid for by what is spent, but for the stores.          *)
Made == {s.coin : s \in Staged} \cup {l.datastore : l \in launches}

MoneyInv ==
    /\ IsFiniteSet(Staged) /\ IsFiniteSet(Made)
    /\ \A c \in Made : c.amount \in Nat
    /\ CoinTotal(Made) <= TotalIn(Staged) + calls * Most

(* What the drain took: everything, and nothing that leads nowhere.        *)
DrainedInv ==
    phase # "compose" =>
        /\ Paying \subseteq bundle
        /\ \A number : HopSpend(number) \in Staged =>
              \E l \in launches : l.launcherCoin = HopLauncher(number)

SessionInv == SpendsInv /\ LaunchesInv /\ EmittedInv /\ MoneyInv /\ DrainedInv

IInv ==
    /\ phase = "compose" => bundle = {}
    /\ phase # "compose" => result # "unreachable"
    /\ result # "unreachable" => SessionInv

(* Nothing of this depends on anything but the parent coin.                *)
LEMMA SameParent ==
    ASSUME parent' = parent
    PROVE  /\ Pid' = Pid
           /\ \A number : /\ Hop(number)' = Hop(number)
                          /\ HopSpend(number)' = HopSpend(number)
                          /\ HopLauncher(number)' = HopLauncher(number)
           /\ \A l : IsLaunch(l)' <=> IsLaunch(l)
           /\ \A create : Minted(create)' = Minted(create)
           /\ \A create, l : EmittedFor(create, l)' <=> EmittedFor(create, l)
<1>1. /\ Pid' = Pid
      /\ \A number : Hop(number)' = Hop(number)
      /\ \A amount : DirectLauncher(amount)' = DirectLauncher(amount)
  BY DEF Pid, Hop, DirectLauncher
<1>2. /\ \A number : HopLauncher(number)' = HopLauncher(number)
      /\ \A number : HopSpend(number)' = HopSpend(number)
      /\ \A create : Minted(create)' = Minted(create)
  BY <1>1 DEF HopLauncher, HopSpend, Minted
<1>3. \A l : IsLaunch(l)' <=> IsLaunch(l)
  BY <1>1, <1>2 DEF IsLaunch
<1>4. \A create, l : EmittedFor(create, l)' <=> EmittedFor(create, l)
  BY <1>1, <1>2 DEF EmittedFor
<1> QED BY <1>1, <1>2, <1>3, <1>4

(* Coins of different kinds differ.                                        *)
LEMMA LaunchCoins ==
    ASSUME NEW l, IsLaunch(l)
    PROVE  /\ l.launcherCoin.ph = LauncherPh
           /\ l.launcherCoin.amount \in Nat /\ l.datastore.amount \in 0..Most
           /\ l.datastore.ph # LauncherPh
           /\ l.datastore.parent = CoinId(l.launcherCoin)
           /\ \A number : l.launcherCoin # Hop(number) /\ l.datastore # Hop(number)
           /\ Outputs(StoreSpend(l)) = {l.datastore}
<1>1. /\ l.launcherCoin.ph = LauncherPh
      /\ l.launcherCoin.amount \in Nat
  BY SessionCoins DEF IsLaunch
<1>2. l.datastore.ph # LauncherPh /\ l.datastore.parent = CoinId(l.launcherCoin)
  BY SessionCoins, CoinFields DEF IsLaunch
<1>3. \A number : l.launcherCoin # Hop(number) /\ l.datastore # Hop(number)
  BY <1>1, SessionCoins DEF IsLaunch
<1> DEFINE create == CreateCoin(l.datastore.ph, l.datastore.amount, NoMemos)
<1>4. Outputs(StoreSpend(l)) = {Child(l.launcherCoin, create)}
  BY OneOutput DEF StoreSpend
<1>5. Child(l.launcherCoin, create) = l.datastore
  BY DEF Child, CreateCoin, IsLaunch
<1> QED BY <1>1, <1>2, <1>3, <1>4, <1>5 DEF IsLaunch

-----------------------------------------------------------------------------
(* What StageIntermediate adds keeps the books.                            *)
LEMMA StageKeepsMoney ==
    ASSUME TypeOK, SpendsInv, LaunchesInv, MoneyInv, phase = "compose",
           NEW number, HopSpend(number) \notin ctx,
           ctx' = ctx \cup {HopSpend(number)},
           UNCHANGED <<parent, launches, calls, phase>>
    PROVE  MoneyInv'
<1> DEFINE hop == Hop(number)
           spend == HopSpend(number)
<1>1. Staged = ctx /\ Staged' = ctx \cup {spend}
  BY DEF Staged
<1>2. spend.coin = hop /\ hop.amount = 0
  BY SessionSpends, SessionCoins
<1>3. Made' = Made \cup {hop}
  BY <1>1, <1>2 DEF Made
<1>4. hop \notin Made
  <2>1. ASSUME NEW s \in Staged, s.coin = hop PROVE FALSE
    <3>1. ASSUME NEW n, s = HopSpend(n) PROVE FALSE
      BY <1>1, <2>1, <3>1, SessionCoins, SessionSpends
    <3>2. ASSUME NEW l \in launches, s = StoreSpend(l) PROVE FALSE
      BY <2>1, <3>2, LaunchCoins, SessionSpends DEF LaunchesInv
    <3> QED BY <3>1, <3>2 DEF SpendsInv
  <2>2. ASSUME NEW l \in launches, l.datastore = hop PROVE FALSE
    BY <2>2, LaunchCoins DEF LaunchesInv
  <2> QED BY <2>1, <2>2 DEF Made
<1> HIDE DEF hop, spend
<1>5. \A s \in Staged : s.coin.amount \in Int
  BY DEF MoneyInv, Made
<1>6. /\ TotalIn(Staged) \in Int /\ TotalIn(Staged') = 0 + TotalIn(Staged)
      /\ CoinTotal(Made) \in Int /\ CoinTotal(Made') = 0 + CoinTotal(Made)
  <2>1. PICK T : T = Staged
    OBVIOUS
  <2>2. PICK M : M = Made
    OBVIOUS
  <2>3. /\ IsFiniteSet(T) /\ spend \notin T /\ spend.coin.amount = 0 /\ spend.coin.amount \in Int
        /\ \A s \in T : s.coin.amount \in Int
        /\ IsFiniteSet(M) /\ hop \notin M /\ hop.amount = 0 /\ hop.amount \in Int
        /\ \A c \in M : c.amount \in Int
    BY <1>1, <1>2, <1>4, <1>5, <2>1, <2>2 DEF MoneyInv, spend
  <2>4. TotalIn(T) \in Int /\ TotalIn(T \cup {spend}) = spend.coin.amount + TotalIn(T)
    BY ONLY <2>3, TotalInAdds
  <2>5. CoinTotal(M) \in Int /\ CoinTotal(M \cup {hop}) = hop.amount + CoinTotal(M)
    BY ONLY <2>3, CoinTotalAdds
  <2> QED BY <1>1, <1>3, <2>1, <2>2, <2>3, <2>4, <2>5
<1>7. IsFiniteSet(Staged') /\ IsFiniteSet(Made')
  <2>1. IsFiniteSet(Staged \cup {spend}) /\ IsFiniteSet(Made \cup {hop})
    BY FS_AddElement DEF MoneyInv
  <2> QED BY <1>1, <1>3, <2>1
<1>8. \A c \in Made' : c.amount \in Nat
  BY <1>2, <1>3 DEF MoneyInv
<1>9. CoinTotal(Made)' = CoinTotal(Made') /\ TotalIn(Staged)' = TotalIn(Staged')
  OBVIOUS
<1>10. CoinTotal(Made') <= TotalIn(Staged') + calls * Most
  <2>1. calls * Most \in Int
    BY MostCovers, MaxCallsIsNat DEF TypeOK
  <2>2. CoinTotal(Made) <= TotalIn(Staged) + calls * Most
    BY DEF MoneyInv
  <2> QED BY <1>6, <2>1, <2>2
<1> QED BY <1>7, <1>8, <1>10 DEF MoneyInv

(* So does what a call that returns Ok adds.                               *)
LEMMA AddsKeepsMoney ==
    ASSUME TypeOK, SpendsInv, LaunchesInv, MoneyInv, phase = "compose",
           NEW l, NEW e, Adds(l, e), calls' = calls + 1,
           UNCHANGED <<parent, phase>>
    PROVE  MoneyInv'
<1> DEFINE coin == l.launcherCoin
           store == l.datastore
           spend == StoreSpend(l)
<1>1. Staged = ctx /\ Staged' = ctx \cup {spend} /\ launches' = launches \cup {l}
  BY DEF Staged, Adds
<1>2. spend.coin = coin
  BY SessionSpends
<1>3. /\ coin.ph = LauncherPh /\ coin.amount \in Nat /\ store.amount \in 0..Most
      /\ store.ph # LauncherPh /\ store.parent = CoinId(coin)
      /\ \A number : coin # Hop(number) /\ store # Hop(number)
  BY LaunchCoins DEF Adds
<1>4. Made' = Made \cup {coin, store}
  BY <1>1, <1>2 DEF Made
<1>5. \A m \in launches : m.launcherCoin # coin
  BY DEF Adds
<1> HIDE DEF coin, store, spend
<1>6. \A m \in launches : /\ m.launcherCoin.ph = LauncherPh /\ m.datastore.ph # LauncherPh
                          /\ m.datastore.parent = CoinId(m.launcherCoin)
  BY LaunchCoins DEF LaunchesInv
<1>7. \A s \in Staged : s.coin # coin /\ s.coin # store
  <2>1. ASSUME NEW n PROVE HopSpend(n).coin # coin /\ HopSpend(n).coin # store
    BY <1>3, SessionSpends
  <2>2. ASSUME NEW m \in launches PROVE StoreSpend(m).coin # coin /\ StoreSpend(m).coin # store
    BY <1>3, <1>5, <1>6, SessionSpends
  <2> QED BY <2>1, <2>2 DEF SpendsInv
<1>8. \A m \in launches : m.datastore # coin /\ m.datastore # store
  BY <1>3, <1>5, <1>6, CoinIdsDiffer
<1>9. coin \notin Made /\ store \notin Made /\ coin # store /\ spend \notin Staged
  BY <1>2, <1>3, <1>7, <1>8 DEF Made
<1>10. \A s \in Staged : s.coin.amount \in Int
  BY DEF MoneyInv, Made
<1>11. /\ TotalIn(Staged) \in Int /\ TotalIn(Staged') = coin.amount + TotalIn(Staged)
       /\ CoinTotal(Made) \in Int
       /\ CoinTotal(Made') = store.amount + (coin.amount + CoinTotal(Made))
       /\ IsFiniteSet(Staged') /\ IsFiniteSet(Made')
  <2>1. PICK T : T = Staged
    OBVIOUS
  <2>2. PICK M : M = Made
    OBVIOUS
  <2>3. PICK N : N = M \cup {coin}
    OBVIOUS
  <2>4. store.amount \in Int
    BY <1>3, MostCovers
  <2>5. /\ IsFiniteSet(T) /\ spend \notin T /\ spend.coin.amount \in Int
        /\ \A s \in T : s.coin.amount \in Int
        /\ IsFiniteSet(M) /\ coin \notin M /\ coin.amount \in Int
        /\ \A c \in M : c.amount \in Int
    BY <1>1, <1>2, <1>3, <1>9, <1>10, <2>1, <2>2 DEF MoneyInv
  <2>6. IsFiniteSet(N) /\ store \notin N /\ \A c \in N : c.amount \in Int
    BY <1>9, <2>2, <2>3, <2>5, FS_AddElement
  <2>7. TotalIn(T) \in Int /\ TotalIn(T \cup {spend}) = spend.coin.amount + TotalIn(T)
    BY ONLY <2>5, TotalInAdds
  <2>8. CoinTotal(M) \in Int /\ CoinTotal(M \cup {coin}) = coin.amount + CoinTotal(M)
    BY ONLY <2>5, CoinTotalAdds
  <2>9. CoinTotal(N \cup {store}) = store.amount + CoinTotal(N)
    BY ONLY <2>4, <2>6, CoinTotalAdds
  <2>10. IsFiniteSet(T \cup {spend}) /\ IsFiniteSet(N \cup {store})
    BY <2>5, <2>6, FS_AddElement
  <2>11. Staged' = T \cup {spend} /\ Made' = N \cup {store}
    BY <1>1, <1>4, <2>1, <2>2, <2>3
  <2> QED BY <1>2, <2>1, <2>2, <2>3, <2>7, <2>8, <2>9, <2>10, <2>11
<1>12. \A c \in Made' : c.amount \in Nat
  BY <1>3, <1>4, MostCovers DEF MoneyInv
<1>13. CoinTotal(Made') <= TotalIn(Staged') + calls' * Most
  <2>1. Most \in Nat /\ calls \in Nat
    BY MostCovers, MaxCallsIsNat DEF TypeOK
  <2>2. calls' * Most = calls * Most + Most /\ calls * Most \in Int
    BY <2>1
  <2>3. CoinTotal(Made) <= TotalIn(Staged) + calls * Most
    BY DEF MoneyInv
  <2>4. store.amount <= Most /\ store.amount \in Int /\ coin.amount \in Int
    BY <1>3, <2>1
  <2> HIDE DEF Made, Staged
  <2> QED BY <1>11, <2>1, <2>2, <2>3, <2>4
<1> QED BY <1>11, <1>12, <1>13 DEF MoneyInv

-----------------------------------------------------------------------------
(* An intermediate that is staged ahead of its launch keeps the invariant. *)
LEMMA StageKeeps ==
    ASSUME TypeOK, SessionInv, NEW number, StageIntermediate(number)
    PROVE  SessionInv'
<1>1. /\ phase = "compose" /\ HopSpend(number) \notin ctx
      /\ ctx' = ctx \cup {HopSpend(number)}
      /\ UNCHANGED <<parent, emitted, asserted, launches, calls, phase>>
  BY DEF StageIntermediate, HopSpend, Pid
<1>2. Staged = ctx /\ Staged' = ctx \cup {HopSpend(number)}
  BY <1>1 DEF Staged
<1>3. SpendsInv'
  <2>1. \A s \in Staged' : \/ \E n : s = HopSpend(n)
                           \/ \E l \in launches : s = StoreSpend(l)
    BY <1>2 DEF SessionInv, SpendsInv
  <2>2. asserted \subseteq {CoinId(s.coin) : s \in Staged'}
    BY <1>2 DEF SessionInv, SpendsInv
  <2>3. /\ \A l \in launches : StoreSpend(l) \in Staged'
        /\ \A l \in launches : \A n : l.launcherCoin = HopLauncher(n) => HopSpend(n) \in Staged'
    BY <1>2 DEF SessionInv, SpendsInv
  <2> QED BY <1>1, <2>1, <2>2, <2>3, SameParent DEF SpendsInv
<1>4. LaunchesInv' /\ EmittedInv'
  BY <1>1, SameParent DEF SessionInv, LaunchesInv, EmittedInv
<1>5. MoneyInv'
  BY <1>1, StageKeepsMoney DEF SessionInv
<1>6. DrainedInv'
  BY <1>1 DEF DrainedInv
<1> QED BY <1>3, <1>4, <1>5, <1>6 DEF SessionInv

(* One launch more keeps what is known of the conditions.                  *)
LEMMA AddsKeepsEmitted ==
    ASSUME TypeOK, LaunchesInv, EmittedInv, NEW l, NEW e, Adds(l, e), parent' = parent
    PROVE  EmittedInv'
<1> DEFINE n == Len(emitted)
<1>1. /\ n \in Nat /\ DOMAIN emitted = 1..n /\ DOMAIN emitted' = 1..(n + 1)
      /\ \A i \in 1..n : emitted'[i] = emitted[i]
      /\ emitted'[n + 1] = e
  <2>1. emitted \in Seq(CreateCoins)
    BY DEF TypeOK
  <2>2. emitted' = emitted \o <<e>>
    BY DEF Adds
  <2>3. emitted \in Seq(CreateCoins \cup {e}) /\ <<e>> \in Seq(CreateCoins \cup {e})
        /\ Len(<<e>>) = 1 /\ <<e>>[1] = e
    BY <2>1
  <2>4. /\ emitted' \in Seq(CreateCoins \cup {e}) /\ Len(emitted') = n + 1
        /\ \A i \in 1..(n + 1) : emitted'[i] = IF i <= n THEN emitted[i] ELSE <<e>>[i - n]
    BY <2>2, <2>3, ConcatProperties
  <2>5. n \in Nat /\ DOMAIN emitted = 1..n /\ DOMAIN emitted' = 1..(n + 1)
    BY <2>1, <2>4
  <2>6. \A i \in 1..n : i \in 1..(n + 1) /\ i <= n
    BY <2>5
  <2>7. n + 1 \in 1..(n + 1) /\ ~ (n + 1 <= n) /\ (n + 1) - n = 1
    BY <2>5
  <2> HIDE DEF n
  <2> QED BY <2>3, <2>4, <2>5, <2>6, <2>7
<1>2. \A i \in 1..(n + 1) : i \in 1..n \/ i = n + 1
  BY <1>1
<1>3. n + 1 \in 1..(n + 1) /\ \A i \in 1..n : i \in 1..(n + 1)
  BY <1>1
<1> HIDE DEF n
<1>4. /\ launches' = launches \cup {l} /\ EmittedFor(e, l) /\ IsLaunch(l)
      /\ \A m \in launches : m.launcherCoin # l.launcherCoin
  BY DEF Adds
<1>5. \A i \in 1..n : Minted(emitted[i]) # Minted(e)
  <2> SUFFICES ASSUME NEW i \in 1..n, Minted(emitted[i]) = Minted(e) PROVE FALSE
    OBVIOUS
  <2>1. PICK m \in launches : EmittedFor(emitted[i], m)
    BY <1>1 DEF EmittedInv
  <2>2. IsLaunch(m) /\ m.launcherCoin # l.launcherCoin
    BY <1>4 DEF LaunchesInv
  <2>3. \A k : /\ m.launcherCoin # Hop(k) /\ l.launcherCoin # Hop(k)
    BY <1>4, <2>2, LaunchCoins
  <2> QED BY <1>4, <2>1, <2>2, <2>3, SessionCoins DEF EmittedFor
<1>6. \A i \in DOMAIN emitted' : \E m \in launches' : EmittedFor(emitted'[i], m)
  BY <1>1, <1>2, <1>4 DEF EmittedInv
<1>7. \A m \in launches' : \E i \in DOMAIN emitted' : EmittedFor(emitted'[i], m)
  <2>1. ASSUME NEW m \in launches PROVE \E i \in DOMAIN emitted' : EmittedFor(emitted'[i], m)
    <3>1. PICK i \in 1..n : EmittedFor(emitted[i], m)
      BY <1>1 DEF EmittedInv
    <3> QED BY <1>1, <1>3, <3>1
  <2>2. \E i \in DOMAIN emitted' : EmittedFor(emitted'[i], l)
    BY <1>1, <1>3, <1>4
  <2> QED BY <1>4, <2>1, <2>2
<1>8. \A i, j \in DOMAIN emitted' : Minted(emitted'[i]) = Minted(emitted'[j]) => i = j
  <2> SUFFICES ASSUME NEW i \in DOMAIN emitted', NEW j \in DOMAIN emitted',
                      Minted(emitted'[i]) = Minted(emitted'[j])
               PROVE  i = j
    OBVIOUS
  <2>1. CASE i \in 1..n /\ j \in 1..n
    BY <1>1, <2>1 DEF EmittedInv
  <2>2. CASE i = n + 1 /\ j \in 1..n
    BY <1>1, <1>5, <2>2
  <2>3. CASE i \in 1..n /\ j = n + 1
    BY <1>1, <1>5, <2>3
  <2> QED BY <1>1, <1>2, <2>1, <2>2, <2>3
<1> QED BY <1>6, <1>7, <1>8, SameParent DEF EmittedInv

(* One launch more keeps the invariant.                                    *)
LEMMA AddsKeeps ==
    ASSUME TypeOK, SessionInv, phase = "compose", NEW l, NEW e, Adds(l, e),
           calls' = calls + 1, UNCHANGED <<parent, phase>>
    PROVE  SessionInv'
<1>1. /\ Staged = ctx /\ Staged' = ctx \cup {StoreSpend(l)}
      /\ launches' = launches \cup {l}
  BY DEF Staged, Adds
<1>2. SpendsInv'
  <2>1. \A s \in Staged' : \/ \E n : s = HopSpend(n)
                           \/ \E m \in launches' : s = StoreSpend(m)
    BY <1>1 DEF SessionInv, SpendsInv
  <2>2. asserted' \subseteq {CoinId(s.coin) : s \in Staged'}
    BY <1>1 DEF SessionInv, SpendsInv, Adds, Staged
  <2>3. \A m \in launches' : StoreSpend(m) \in Staged'
    BY <1>1 DEF SessionInv, SpendsInv
  <2>4. \A m \in launches' : \A n : m.launcherCoin = HopLauncher(n) => HopSpend(n) \in Staged'
    BY <1>1 DEF SessionInv, SpendsInv, Adds
  <2> QED BY <2>1, <2>2, <2>3, <2>4, SameParent DEF SpendsInv
<1>3. LaunchesInv'
  <2>1. \A m \in launches' : IsLaunch(m)
    BY <1>1 DEF SessionInv, LaunchesInv, Adds
  <2>2. \A k, m \in launches' : k.launcherCoin = m.launcherCoin => k = m
    BY <1>1 DEF SessionInv, LaunchesInv, Adds
  <2> QED BY <2>1, <2>2, SameParent DEF LaunchesInv
<1>4. EmittedInv'
  BY AddsKeepsEmitted DEF SessionInv
<1>5. MoneyInv'
  BY AddsKeepsMoney DEF SessionInv
<1>6. DrainedInv'
  BY DEF DrainedInv
<1> QED BY <1>2, <1>3, <1>4, <1>5, <1>6 DEF SessionInv

(* A call that counts and leaves the session as it was.                    *)
LEMMA RefusalKeeps ==
    ASSUME TypeOK, SessionInv, phase = "compose", ctx' = ctx, calls' = calls + 1,
           UNCHANGED <<parent, emitted, asserted, launches, phase>>
    PROVE  SessionInv'
<1>1. Staged = ctx /\ Staged' = Staged /\ Made' = Made
  BY DEF Staged, Made
<1>2. SpendsInv' /\ LaunchesInv' /\ EmittedInv'
  BY <1>1, SameParent DEF SessionInv, SpendsInv, LaunchesInv, EmittedInv
<1>3. MoneyInv'
  <2>1. Most \in Nat /\ calls \in Nat
    BY MostCovers, MaxCallsIsNat DEF TypeOK
  <2>2. CoinTotal(Made) \in Int /\ TotalIn(Staged) \in Int
    <3>1. \A s \in Staged : s.coin.amount \in Int
      BY DEF SessionInv, MoneyInv, Made
    <3>2. Integral(Amounts(Made), Made) /\ Integral(Incoming(Staged), Staged)
      BY <3>1 DEF SessionInv, MoneyInv, Integral, Amounts, Incoming
    <3> QED BY <3>2, CoinTotalIsSum, TotalInIsSum, SumIsInteger DEF SessionInv, MoneyInv
  <2>3. calls' * Most = calls * Most + Most /\ calls * Most \in Int
    BY <2>1
  <2>4. CoinTotal(Made) <= TotalIn(Staged) + calls * Most
    BY DEF SessionInv, MoneyInv
  <2>5. CoinTotal(Made') <= TotalIn(Staged') + calls' * Most
    <3> HIDE DEF Made, Staged
    <3> QED BY <1>1, <2>1, <2>2, <2>3, <2>4
  <2> QED BY <1>1, <2>5 DEF SessionInv, MoneyInv
<1>4. DrainedInv'
  BY DEF DrainedInv
<1> QED BY <1>2, <1>3, <1>4 DEF SessionInv

(* A session nothing has been gathered in.                                 *)
Nothing ==
    /\ phase = "compose" /\ ctx = {} /\ emitted = <<>> /\ asserted = {}
    /\ launches = {} /\ calls \in Nat

(* It holds of a session in which nothing was called.                      *)
LEMMA EmptySession == Nothing => SessionInv
<1> SUFFICES ASSUME Nothing PROVE SessionInv
  OBVIOUS
<1> USE DEF Nothing
<1>1. Staged = {} /\ Made = {}
  BY DEF Staged, Made
<1>2. IsFiniteSet({})
  BY FS_EmptySet
<1>3. CoinTotal({}) = 0 /\ TotalIn({}) = 0
  BY <1>2, CoinTotalIsSum, TotalInIsSum, SumOfNone
<1>4. 0 <= 0 + calls * Most
  <2>1. Most \in Nat
    BY MostCovers
  <2> QED BY <2>1
<1>5. MoneyInv
  BY <1>1, <1>2, <1>3, <1>4 DEF MoneyInv
<1> QED BY <1>1, <1>5 DEF SessionInv, SpendsInv, LaunchesInv, EmittedInv, DrainedInv

(* The coins spent by launches and intermediates are new ones.             *)
LEMMA StagedIsNew ==
    ASSUME TypeOK, SpendsInv, LaunchesInv
    PROVE  /\ \A s \in Staged : s.coin.parent # Genesis
           /\ ParentSpend.coin.parent = Genesis /\ FunderSpend.coin.parent = Genesis
<1>1. \A number : HopSpend(number).coin.parent # Genesis
  BY SessionSpends, SessionCoins, CoinIdsDiffer DEF Pid
<1>2. \A l \in launches : StoreSpend(l).coin.parent # Genesis
  <2> SUFFICES ASSUME NEW l \in launches PROVE l.launcherCoin.parent # Genesis
    BY SessionSpends
  <2>1. l.launcherCoin.parent = Pid \/ \E n : l.launcherCoin.parent = CoinId(Hop(n))
    BY SessionCoins DEF LaunchesInv, IsLaunch
  <2> QED BY <2>1, CoinIdsDiffer DEF Pid
<1>3. ParentSpend.coin = parent /\ parent.parent = Genesis
  BY DEF ParentSpend, CoinSpend, SpendRevealing, TypeOK, Parents, Coin
<1>4. FunderSpend.coin.parent = Genesis
  BY DEF FunderSpend, CoinSpend, SpendRevealing, Funder, Coin
<1> QED BY <1>1, <1>2, <1>3, <1>4 DEF SpendsInv

(* It outlives the drain: what is submitted is the context, the parent and *)
(* the funder.                                                             *)
LEMMA DrainKeeps ==
    ASSUME TypeOK, SessionInv, SpendParentAndDrain
    PROVE  SessionInv'
<1>1. /\ phase = "compose" /\ phase' = "drained"
      /\ NothingStranded
      /\ bundle' = ctx \cup Paying
      /\ UNCHANGED <<parent, emitted, asserted, launches, calls>>
  BY DEF SpendParentAndDrain, Paying, FunderSpend
<1>2. ParentSpend' = ParentSpend /\ FunderSpend' = FunderSpend
  BY <1>1 DEF ParentSpend, FunderSpend, IsSingleton
<1>3. Staged = ctx /\ Staged' = Staged
  <2>1. Paying' = Paying
    BY <1>2 DEF Paying
  <2>2. Staged = ctx /\ Staged' = (ctx \cup Paying) \ Paying
    BY <1>1, <2>1 DEF Staged
  <2>3. \A s \in Staged : s \notin Paying
    BY StagedIsNew DEF SessionInv, Paying
  <2> QED BY <2>2, <2>3
<1>4. Made' = Made
  BY <1>1, <1>3 DEF Made
<1>5. SpendsInv' /\ LaunchesInv' /\ EmittedInv'
  BY <1>1, <1>3, SameParent DEF SessionInv, SpendsInv, LaunchesInv, EmittedInv
<1>6. MoneyInv'
  BY <1>1, <1>3, <1>4 DEF SessionInv, MoneyInv
<1>7. DrainedInv'
  <2>1. Paying' \subseteq bundle'
    BY <1>1, <1>2 DEF Paying
  <2>2. ASSUME NEW number, HopSpend(number) \in Staged
        PROVE  \E l \in launches : l.launcherCoin = HopLauncher(number)
    <3>1. HopSpend(number) \in ctx /\ HopSpend(number).coin = Hop(number)
          /\ Hop(number).ph # LauncherPh
      BY <1>3, <2>2, SessionSpends, SessionCoins
    <3>2. PICK l \in launches : l.launcherCoin.parent = CoinId(Hop(number))
      BY <1>1, <3>1 DEF NothingStranded
    <3>3. parent # Hop(number)
      <4>1. parent.parent = Genesis /\ Hop(number).parent = Pid
        BY SessionCoins DEF TypeOK, Parents, Coin
      <4> QED BY <4>1, CoinIdsDiffer DEF Pid
    <3>4. PICK k : l.launcherCoin = HopLauncher(k)
      BY <3>2, <3>3, SessionCoins, CoinIdsDiffer DEF SessionInv, LaunchesInv, IsLaunch, Pid
    <3>5. k = number
      BY <3>2, <3>4, SessionCoins, CoinIdsDiffer
    <3> QED BY <3>4, <3>5
  <2> QED BY <1>1, <1>3, <2>1, <2>2, SameParent DEF DrainedInv
<1> QED BY <1>5, <1>6, <1>7 DEF SessionInv

(* Nothing a verdict changes is in it.                                     *)
LEMMA NothingNewKeeps ==
    ASSUME SessionInv, Submit \/ UNCHANGED vars
    PROVE  SessionInv'
<1>1. /\ UNCHANGED <<parent, ctx, emitted, asserted, launches, calls, bundle>>
      /\ (phase = "compose") <=> (phase' = "compose")
  BY DEF Submit, vars
<1>2. Paying' = Paying
  BY <1>1 DEF Paying, ParentSpend, FunderSpend, IsSingleton
<1>3. Staged' = Staged
  BY <1>1, <1>2 DEF Staged
<1>4. Made' = Made
  BY <1>1, <1>3 DEF Made
<1>5. SpendsInv' /\ LaunchesInv' /\ EmittedInv'
  BY <1>1, <1>3, SameParent DEF SessionInv, SpendsInv, LaunchesInv, EmittedInv
<1>6. MoneyInv'
  BY <1>1, <1>3, <1>4 DEF SessionInv, MoneyInv
<1>7. DrainedInv'
  BY <1>1, <1>2, <1>3, SameParent DEF SessionInv, DrainedInv
<1> QED BY <1>5, <1>6, <1>7 DEF SessionInv

(* It holds in every session, unless the last call was refused as          *)
(* unreachable.                                                            *)
LEMMA IInvHolds ==
    ASSUME ThreadedForms \subseteq {"direct"}
    PROVE  Spec => []IInv
<1>1. Init => IInv
  <2> SUFFICES ASSUME Init PROVE IInv
    OBVIOUS
  <2>1. SessionInv
    BY EmptySession DEF Init, Nothing
  <2> QED BY <2>1 DEF Init, IInv
<1>2. TypeOK /\ IInv /\ [Next]_vars => IInv'
  <2> SUFFICES ASSUME TypeOK, IInv, [Next]_vars PROVE IInv'
    OBVIOUS
  <2>1. ASSUME NEW number, StageIntermediate(number) PROVE IInv'
    BY <2>1, StageKeeps DEF IInv, StageIntermediate
  <2>2. ASSUME NEW shape \in Shapes, NEW threaded \in BOOLEAN, NEW owner \in Owners,
               NEW kind \in Kinds, Launch(shape, threaded, owner, kind)
        PROVE  IInv'
    <3>1. /\ SessionInv /\ phase = "compose" /\ calls' = calls + 1
          /\ bundle = {} /\ UNCHANGED <<parent, phase, bundle>>
      BY <2>2 DEF IInv, Launch
    <3>2. CASE result' = "ok"
      <4>1. \E l, e : Adds(l, e)
        BY <2>2, <3>1, <3>2, OkCall DEF SessionInv
      <4>2. SessionInv'
        BY <3>1, <4>1, AddsKeeps
      <4> QED BY <3>1, <3>2, <4>2 DEF IInv
    <3>3. CASE result' = "illegal"
      <4> DEFINE returned == LaunchWithKind(ctx, kind, HandedOver(shape, threaded), owner)
      <4>1. returned.is = "illegal" => returned.ctx = ctx
        BY CallReturns
      <4>2. ctx' = ctx
        BY <2>2, <3>3, <4>1, LaunchStep
      <4>3. UNCHANGED <<emitted, asserted, launches>>
        BY <2>2, <3>3 DEF Launch
      <4>4. SessionInv'
        BY <3>1, <4>2, <4>3, RefusalKeeps
      <4> QED BY <3>1, <3>3, <4>4 DEF IInv
    <3>4. CASE result' = "unreachable"
      BY <3>1, <3>4 DEF IInv
    <3>5. result' \in {"ok", "illegal", "unreachable"}
      <4> DEFINE returned == LaunchWithKind(ctx, kind, HandedOver(shape, threaded), owner)
      <4>1. returned.is \in {"ok", "illegal", "unreachable"}
        BY CallReturns
      <4> QED BY <2>2, <4>1, LaunchStep
    <3> QED BY <3>2, <3>3, <3>4, <3>5
  <2>3. ASSUME SpendParentAndDrain PROVE IInv'
    <3>1. SessionInv'
      BY <2>3, DrainKeeps DEF IInv, SpendParentAndDrain
    <3> QED BY <2>3, <3>1 DEF IInv, SpendParentAndDrain
  <2>4. ASSUME StartOver PROVE IInv'
    <3>1. calls \in Nat
      BY MaxCallsIsNat DEF TypeOK
    <3>2. Nothing'
      BY <2>4, <3>1 DEF StartOver, Nothing
    <3>3. SessionInv'
      BY <3>2, EmptySession, PTL
    <3> QED BY <2>4, <3>3 DEF IInv, StartOver
  <2>5. ASSUME Submit \/ UNCHANGED vars PROVE IInv'
    <3>1. SessionInv => SessionInv'
      BY <2>5, NothingNewKeeps
    <3> QED BY <2>5, <3>1 DEF IInv, Submit, vars
  <2> QED BY <2>1, <2>2, <2>3, <2>4, <2>5 DEF Next
<1> QED BY <1>1, <1>2, TypeCorrect, PTL DEF Spec

-----------------------------------------------------------------------------
(* What the parent emits: the launches' conditions, and its successor.     *)
Successor == CreateCoin(parent.ph, parent.amount, NoMemos)

(* The parent's spend: the conditions as they were returned, and the       *)
(* singleton's successor after them.                                       *)
LEMMA ParentCreates ==
    ASSUME TypeOK
    PROVE  LET n == Len(emitted)
               creates == ParentSpend.creates
           IN /\ n \in Nat /\ DOMAIN emitted = 1..n
              /\ DOMAIN creates = IF IsSingleton(parent) THEN 1..(n + 1) ELSE 1..n
              /\ \A i \in 1..n : creates[i] = emitted[i]
              /\ IsSingleton(parent) => creates[n + 1] = Successor
              /\ ParentSpend.coin = parent /\ ParentSpend.asserts = asserted
              /\ ParentSpend.reveal = parent.ph
<1> DEFINE n == Len(emitted)
<1>1. emitted \in Seq(CreateCoins)
  BY DEF TypeOK
<1>2. n \in Nat /\ DOMAIN emitted = 1..n
  BY <1>1
<1>3. /\ ParentSpend.creates = (IF IsSingleton(parent) THEN Append(emitted, Successor) ELSE emitted)
      /\ ParentSpend.coin = parent /\ ParentSpend.asserts = asserted
      /\ ParentSpend.reveal = parent.ph
  BY DEF ParentSpend, CoinSpend, SpendRevealing, Successor
<1>4. /\ DOMAIN Append(emitted, Successor) = 1..(n + 1)
      /\ \A i \in 1..n : Append(emitted, Successor)[i] = emitted[i]
      /\ Append(emitted, Successor)[n + 1] = Successor
  <2>1. emitted \in Seq(CreateCoins \cup {Successor})
    BY <1>1
  <2>2. PICK T : T = CreateCoins \cup {Successor}
    OBVIOUS
  <2>3. emitted \in Seq(T) /\ Successor \in T
    BY <2>1, <2>2
  <2>4. /\ Append(emitted, Successor) \in Seq(T) /\ Len(Append(emitted, Successor)) = n + 1
        /\ \A i \in 1..n : Append(emitted, Successor)[i] = emitted[i]
        /\ Append(emitted, Successor)[n + 1] = Successor
    BY ONLY <2>3, AppendProperties
  <2> QED BY <2>4
<1> QED BY <1>2, <1>3, <1>4

(* Where a singleton's successor is not: among what launches are made of.  *)
LEMMA SuccessorIsApart ==
    ASSUME TypeOK
    PROVE  /\ parent.parent = Genesis /\ parent.amount = ParentAmount
           /\ IsOdd(parent.amount) /\ parent.amount \in Nat
           /\ IsSingleton(parent) => parent.ph # LauncherPh
           /\ IsSingleton(parent) => \A number : parent.ph # Hop(number).ph
           /\ \A number : parent # Hop(number)
           /\ \A number : Pid # CoinId(Hop(number))
<1>1. /\ parent.parent = Genesis /\ parent.amount = ParentAmount
      /\ IsOdd(parent.amount) /\ parent.amount \in Nat
  BY ParentIsOdd DEF TypeOK, Parents, Coin
<1>2. \A number : Hop(number).parent # Genesis
  BY SessionCoins, CoinIdsDiffer DEF Pid
<1>3. IsSingleton(parent) => parent.ph # LauncherPh
  BY SessionCoins DEF IsSingleton
<1>4. IsSingleton(parent) => \A number : parent.ph # Hop(number).ph
  BY SessionCoins DEF IsSingleton
<1> QED BY <1>1, <1>2, <1>3, <1>4, CoinIdsDiffer DEF Pid

(* What a drained bundle is made of.                                       *)
LEMMA DrainedBundle ==
    ASSUME SpendsInv, DrainedInv, phase # "compose"
    PROVE  /\ bundle = Staged \cup Paying
           /\ \A s \in bundle : \/ s = ParentSpend \/ s = FunderSpend
                                \/ \E number : s = HopSpend(number) /\ s \in Staged
                                \/ \E l \in launches : s = StoreSpend(l)
<1>1. bundle = Staged \cup Paying
  BY DEF DrainedInv, Staged
<1> QED BY <1>1 DEF SpendsInv, Paying

(* mint.rs:561-598.  Every launcher condition carries the memos of the     *)
(* launch it is for.                                                       *)
LEMMA MemosFollow ==
    ASSUME TypeOK, SessionInv
    PROVE  MemosBelongToTheLaunch
<1> SUFFICES ASSUME phase # "compose", NEW l \in launches, NEW s \in bundle,
                    NEW i \in DOMAIN s.creates, Created(s, i) = l.launcherCoin
             PROVE  s.creates[i].memos = IF l.memosWritten THEN OwnerDiscoveryMemos(l.owner, l.kind)
                                         ELSE NoMemos
  BY DEF MemosBelongToTheLaunch, LauncherConditions
<1>1. IsLaunch(l) /\ l.launcherCoin.ph = LauncherPh /\ \A number : l.launcherCoin # Hop(number)
  BY LaunchCoins DEF SessionInv, LaunchesInv
<1>2. s.creates[i].ph = LauncherPh
  BY <1>1, CoinFields DEF Created
<1>3. CASE s = ParentSpend
  <2>1. CASE i \in DOMAIN emitted
    <3>1. s.creates[i] = emitted[i] /\ s.coin = parent
      BY <1>3, <2>1, ParentCreates
    <3>2. Minted(emitted[i]) = l.launcherCoin
      BY <3>1 DEF Minted, Created, Pid
    <3>3. PICK m \in launches : EmittedFor(emitted[i], m)
      BY <2>1 DEF SessionInv, EmittedInv
    <3>4. m.memosWritten = TRUE /\ m.launcherCoin = l.launcherCoin
          /\ emitted[i].memos = OwnerDiscoveryMemos(m.owner, m.kind)
      BY <1>1, <3>2, <3>3 DEF EmittedFor
    <3>5. m = l
      BY <3>4 DEF SessionInv, LaunchesInv
    <3> QED BY <3>1, <3>4, <3>5
  <2>2. CASE i \notin DOMAIN emitted
    <3>1. IsSingleton(parent) /\ s.creates[i] = Successor
      <4>1. i \in 1..(Len(emitted) + 1) /\ i \notin 1..Len(emitted) /\ IsSingleton(parent)
            /\ Len(emitted) \in Nat
        BY <1>3, <2>2, ParentCreates
      <4>2. i = Len(emitted) + 1
        BY <4>1
      <4> QED BY <1>3, <4>1, <4>2, ParentCreates
    <3>2. s.creates[i].ph = parent.ph
      BY <3>1 DEF Successor, CreateCoin
    <3> QED BY <1>2, <3>1, <3>2, SuccessorIsApart
  <2> QED BY <2>1, <2>2
<1>4. CASE s = FunderSpend
  BY <1>4 DEF FunderSpend, CoinSpend, SpendRevealing
<1>5. ASSUME NEW number, s = HopSpend(number)
      PROVE  s.creates[i].memos = IF l.memosWritten THEN OwnerDiscoveryMemos(l.owner, l.kind)
                                  ELSE NoMemos
  <2>1. s.coin = Hop(number) /\ s.creates = <<CreateCoin(LauncherPh, 1, NoMemos)>>
    BY <1>5, SessionSpends
  <2>2. s.creates[i].memos = NoMemos
    BY <2>1 DEF CreateCoin
  <2>3. l.launcherCoin.parent = CoinId(Hop(number))
    BY <2>1, CoinFields DEF Created
  <2>4. l.memosWritten = FALSE
    BY <1>1, <2>3, SessionCoins, SuccessorIsApart DEF IsLaunch
  <2> QED BY <2>2, <2>4
<1>6. ASSUME NEW m \in launches, s = StoreSpend(m) PROVE FALSE
  <2>1. Created(s, i) \in Outputs(s)
    BY DEF Outputs
  <2>2. l.launcherCoin = m.datastore
    BY <1>6, <2>1, LaunchCoins DEF SessionInv, LaunchesInv
  <2> QED BY <1>1, <1>6, <2>2, LaunchCoins DEF SessionInv, LaunchesInv
<1> QED BY <1>3, <1>4, <1>5, <1>6, DrainedBundle DEF SessionInv

(* mint.rs:221-233, 546-562.  As long as an intermediate launch is not     *)
(* built on conditions that already launch something else, each store's    *)
(* launcher carries its own owner's and kind's memos when its call said    *)
(* so, and none when it did not, whatever else the session launched.       *)
THEOREM MemosAreTheLaunchsOwn ==
    ASSUME ThreadedForms \subseteq {"direct"}
    PROVE  Spec => []MemosBelongToTheLaunch
<1>1. TypeOK /\ IInv => MemosBelongToTheLaunch
  <2>1. CASE phase = "compose"
    BY <2>1 DEF MemosBelongToTheLaunch
  <2>2. CASE phase # "compose"
    BY <2>2, MemosFollow DEF IInv
  <2> QED BY <2>1, <2>2
<1> QED BY <1>1, TypeCorrect, IInvHolds, PTL

-----------------------------------------------------------------------------
(* What a drained bundle creates.                                          *)
LEMMA CreatedByParent ==
    ASSUME TypeOK
    PROVE  /\ \A i \in DOMAIN ParentSpend.creates :
                 Created(ParentSpend, i) = Minted(ParentSpend.creates[i])
           /\ Outputs(ParentSpend) =
                {Minted(emitted[i]) : i \in DOMAIN emitted}
                  \cup (IF IsSingleton(parent) THEN {Minted(Successor)} ELSE {})
<1> DEFINE n == Len(emitted)
           creates == ParentSpend.creates
<1>1. /\ n \in Nat /\ DOMAIN emitted = 1..n
      /\ DOMAIN creates = IF IsSingleton(parent) THEN 1..(n + 1) ELSE 1..n
      /\ \A i \in 1..n : creates[i] = emitted[i]
      /\ IsSingleton(parent) => creates[n + 1] = Successor
      /\ ParentSpend.coin = parent
  BY ParentCreates
<1>2. \A i \in DOMAIN creates : Created(ParentSpend, i) = Minted(creates[i])
  BY <1>1 DEF Created, Minted, Pid
<1>3. /\ n + 1 \in 1..(n + 1) /\ \A i \in 1..n : i \in 1..(n + 1)
      /\ \A i \in 1..(n + 1) : i \in 1..n \/ i = n + 1
  BY <1>1
<1>4. Outputs(ParentSpend) = {Minted(creates[i]) : i \in DOMAIN creates}
  BY <1>2 DEF Outputs
<1> HIDE DEF n, creates
<1>5. ASSUME IsSingleton(parent)
      PROVE  Outputs(ParentSpend) = {Minted(emitted[i]) : i \in 1..n} \cup {Minted(Successor)}
  <2>1. {Minted(creates[i]) : i \in 1..(n + 1)}
          = {Minted(creates[i]) : i \in 1..n} \cup {Minted(creates[n + 1])}
    BY <1>3
  <2>2. {Minted(creates[i]) : i \in 1..n} = {Minted(emitted[i]) : i \in 1..n}
    BY <1>1
  <2> QED BY <1>1, <1>4, <1>5, <2>1, <2>2
<1>6. ASSUME ~ IsSingleton(parent)
      PROVE  Outputs(ParentSpend) = {Minted(emitted[i]) : i \in 1..n}
  BY <1>1, <1>4, <1>6
<1> QED BY <1>1, <1>2, <1>5, <1>6 DEF creates

(* What the drained bundle creates.                                        *)
LEMMA EverythingMade ==
    ASSUME TypeOK, SessionInv, phase # "compose"
    PROVE  AllOutputs(bundle) =
             Made \cup (IF IsSingleton(parent) THEN {Minted(Successor)} ELSE {})
<1> DEFINE own == IF IsSingleton(parent) THEN {Minted(Successor)} ELSE {}
           direct == {Minted(emitted[i]) : i \in DOMAIN emitted}
<1>0. /\ SpendsInv /\ LaunchesInv /\ EmittedInv
      /\ Outputs(ParentSpend) = direct \cup own /\ Outputs(FunderSpend) = {}
      /\ Staged \subseteq bundle /\ ParentSpend \in bundle
      /\ \A number : HopSpend(number) \in Staged =>
            \E l \in launches : l.launcherCoin = HopLauncher(number)
  <2>1. Outputs(FunderSpend) = {}
    BY DEF FunderSpend, CoinSpend, SpendRevealing, Outputs
  <2> QED BY <2>1, CreatedByParent, DrainedBundle DEF SessionInv, DrainedInv, Paying
<1> HIDE DEF own
<1>1. direct \subseteq Made
  <2> SUFFICES ASSUME NEW i \in DOMAIN emitted PROVE Minted(emitted[i]) \in Made
    OBVIOUS
  <2>1. PICK l \in launches : EmittedFor(emitted[i], l)
    BY <1>0 DEF EmittedInv
  <2>2. CASE Minted(emitted[i]) = l.launcherCoin
    BY <1>0, <2>2, SessionSpends DEF SpendsInv, Made
  <2>3. ASSUME NEW k, l.launcherCoin = HopLauncher(k), Minted(emitted[i]) = Hop(k)
        PROVE  Minted(emitted[i]) \in Made
    BY <1>0, <2>3, SessionSpends DEF SpendsInv, Made
  <2> QED BY <2>1, <2>2, <2>3 DEF EmittedFor
<1>2. ASSUME NEW s \in bundle, NEW c \in Outputs(s) PROVE c \in Made \cup own
  <2>1. ASSUME NEW k, s = HopSpend(k), s \in Staged PROVE c \in Made
    <3>1. c = HopLauncher(k)
      BY <2>1, SessionSpends
    <3>2. PICK l \in launches : l.launcherCoin = HopLauncher(k)
      BY <1>0, <2>1
    <3> QED BY <1>0, <3>1, <3>2, SessionSpends DEF SpendsInv, Made
  <2>2. ASSUME NEW l \in launches, s = StoreSpend(l) PROVE c \in Made
    BY <1>0, <2>2, LaunchCoins DEF LaunchesInv, Made
  <2> QED BY <1>0, <1>1, <2>1, <2>2, DrainedBundle DEF SessionInv
<1>3. ASSUME NEW l \in launches
      PROVE  /\ l.datastore \in AllOutputs(bundle)
             /\ l.launcherCoin \in AllOutputs(bundle)
             /\ \A k : l.launcherCoin = HopLauncher(k) => Hop(k) \in AllOutputs(bundle)
  <2>1. IsLaunch(l) /\ StoreSpend(l) \in Staged
    BY <1>0 DEF LaunchesInv, SpendsInv
  <2>2. l.datastore \in AllOutputs(bundle)
    BY <1>0, <2>1, LaunchCoins DEF AllOutputs
  <2>3. PICK i \in DOMAIN emitted : EmittedFor(emitted[i], l)
    BY <1>0 DEF EmittedInv
  <2>4. Minted(emitted[i]) \in AllOutputs(bundle)
    BY <1>0 DEF AllOutputs
  <2>5. ASSUME NEW k, l.launcherCoin = HopLauncher(k)
        PROVE  Hop(k) \in AllOutputs(bundle) /\ l.launcherCoin \in AllOutputs(bundle)
    <3>1. l.memosWritten = FALSE
      BY <2>1, <2>5, SessionCoins, SuccessorIsApart DEF IsLaunch
    <3>2. PICK j : l.launcherCoin = HopLauncher(j) /\ Minted(emitted[i]) = Hop(j)
      BY <2>3, <3>1 DEF EmittedFor
    <3>3. j = k
      <4>1. HopLauncher(j) = HopLauncher(k)
        BY <2>5, <3>2
      <4>2. CoinId(Hop(j)) = CoinId(Hop(k))
        BY <4>1, SessionCoins
      <4> QED BY <4>2, SessionCoins, CoinIdsDiffer
    <3>4. HopSpend(k) \in bundle /\ HopLauncher(k) \in Outputs(HopSpend(k))
      BY <1>0, <2>5, SessionSpends DEF SpendsInv
    <3> QED BY <2>4, <2>5, <3>2, <3>3, <3>4 DEF AllOutputs
  <2>6. CASE l.memosWritten = TRUE
    BY <2>2, <2>3, <2>4, <2>5, <2>6 DEF EmittedFor
  <2> QED BY <2>1, <2>2, <2>5, <2>6 DEF IsLaunch
<1>4. ASSUME NEW s \in Staged PROVE s.coin \in AllOutputs(bundle)
  <2>1. ASSUME NEW k, s = HopSpend(k) PROVE s.coin \in AllOutputs(bundle)
    BY <1>0, <1>3, <2>1, SessionSpends
  <2>2. ASSUME NEW l \in launches, s = StoreSpend(l) PROVE s.coin \in AllOutputs(bundle)
    BY <1>3, <2>2, SessionSpends
  <2> QED BY <1>0, <2>1, <2>2 DEF SpendsInv
<1>5. own \subseteq AllOutputs(bundle)
  BY <1>0 DEF AllOutputs
<1> QED BY <1>2, <1>3, <1>4, <1>5 DEF AllOutputs, Made, own

-----------------------------------------------------------------------------
(* A singleton parent asked to create an odd launcher itself.              *)
DirectFromSingleton ==
    /\ IsSingleton(parent)
    /\ \E l \in launches :
          l.launcherCoin.parent = CoinId(parent) /\ IsOdd(l.launcherCoin.amount)

(* The parent is to create an odd coin exactly when some launch took its   *)
(* launcher directly from it.                                              *)
LEMMA OddEmitted ==
    ASSUME TypeOK, SessionInv
    PROVE  (\E i \in DOMAIN emitted : IsOdd(emitted[i].amount))
             <=> \E l \in launches : l.launcherCoin.parent = Pid /\ IsOdd(l.launcherCoin.amount)
<1>1. ASSUME NEW i \in DOMAIN emitted, IsOdd(emitted[i].amount)
      PROVE  \E l \in launches : l.launcherCoin.parent = Pid /\ IsOdd(l.launcherCoin.amount)
  <2>1. PICK l \in launches : EmittedFor(emitted[i], l)
    BY DEF SessionInv, EmittedInv
  <2>2. Minted(emitted[i]).parent = Pid /\ Minted(emitted[i]).amount = emitted[i].amount
    BY CoinFields DEF Minted
  <2>3. ASSUME NEW k, Minted(emitted[i]) = Hop(k) PROVE FALSE
    <3>1. emitted[i].amount = 0
      BY <2>2, <2>3, SessionCoins
    <3> QED BY <1>1, <3>1 DEF IsOdd
  <2> QED BY <1>1, <2>1, <2>2, <2>3 DEF EmittedFor
<1>2. ASSUME NEW l \in launches, l.launcherCoin.parent = Pid, IsOdd(l.launcherCoin.amount)
      PROVE  \E i \in DOMAIN emitted : IsOdd(emitted[i].amount)
  <2>1. PICK i \in DOMAIN emitted : EmittedFor(emitted[i], l)
    BY DEF SessionInv, EmittedInv
  <2>2. \A k : l.launcherCoin # HopLauncher(k)
    BY <1>2, SessionCoins, SuccessorIsApart
  <2>3. Minted(emitted[i]) = l.launcherCoin
    BY <2>1, <2>2 DEF EmittedFor
  <2>4. emitted[i].amount = l.launcherCoin.amount
    BY <2>3, CoinFields DEF Minted
  <2> QED BY <1>2, <2>4
<1> QED BY <1>1, <1>2

(* The chain's rule for singletons is kept exactly when no direct launch   *)
(* is taken from one.                                                      *)
LEMMA ParentKeepsTheRule ==
    ASSUME TypeOK, SessionInv
    PROVE  SingletonRule(ParentSpend) <=> ~ DirectFromSingleton
<1> DEFINE n == Len(emitted)
           creates == ParentSpend.creates
           odd == {i \in DOMAIN creates : IsOdd(creates[i].amount)}
<1>1. /\ n \in Nat /\ DOMAIN emitted = 1..n
      /\ DOMAIN creates = IF IsSingleton(parent) THEN 1..(n + 1) ELSE 1..n
      /\ \A i \in 1..n : creates[i] = emitted[i]
      /\ IsSingleton(parent) => creates[n + 1] = Successor
      /\ ParentSpend.coin = parent
  BY ParentCreates
<1>2. Successor.amount = parent.amount /\ IsOdd(parent.amount)
  BY SuccessorIsApart DEF Successor, CreateCoin
<1>3. CASE ~ IsSingleton(parent)
  BY <1>1, <1>3 DEF SingletonRule, IsSingleton, DirectFromSingleton
<1>4. CASE IsSingleton(parent)
  <2>1. SingletonRule(ParentSpend) <=> Cardinality(odd) = 1
    BY <1>1, <1>2, <1>4 DEF SingletonRule, IsSingleton
  <2>2. IsFiniteSet(odd)
    <3>1. IsFiniteSet(1..(n + 1))
      BY <1>1, FS_Interval
    <3>2. odd \subseteq 1..(n + 1)
      BY <1>1, <1>4
    <3> QED BY <3>1, <3>2, FS_Subset
  <2>3. n + 1 \in odd
    BY <1>1, <1>2, <1>4
  <2>4. \A i \in 1..n : (i \in odd) <=> IsOdd(emitted[i].amount)
    BY <1>1, <1>4
  <2>5. \A i \in odd : i \in 1..n \/ i = n + 1
    BY <1>1, <1>4
  <2>6. \A i \in 1..n : i # n + 1
    BY <1>1
  <2> HIDE DEF odd
  <2>7. Cardinality(odd) = 1 <=> \E x : odd = {x}
    BY <2>2, FS_Singleton
  <2>8. (\E x : odd = {x}) <=> ~ \E i \in 1..n : IsOdd(emitted[i].amount)
    <3>1. ASSUME NEW x, odd = {x}, NEW i \in 1..n, IsOdd(emitted[i].amount) PROVE FALSE
      BY <2>3, <2>4, <2>6, <3>1
    <3>2. ASSUME \A i \in 1..n : ~ IsOdd(emitted[i].amount) PROVE odd = {n + 1}
      BY <2>3, <2>4, <2>5, <3>2
    <3> QED BY <3>1, <3>2
  <2>9. (\E i \in 1..n : IsOdd(emitted[i].amount)) <=> DirectFromSingleton
    <3>1. DirectFromSingleton <=>
            \E l \in launches : l.launcherCoin.parent = Pid /\ IsOdd(l.launcherCoin.amount)
      BY <1>4 DEF DirectFromSingleton, Pid
    <3> QED BY <1>1, <3>1, OddEmitted
  <2> QED BY <2>1, <2>7, <2>8, <2>9
<1> QED BY <1>3, <1>4

(* No coin is created twice.                                               *)
LEMMA NothingTwice ==
    ASSUME TypeOK, SessionInv, phase # "compose"
    PROVE  DistinctOutputs(bundle)
<1> SUFFICES ASSUME NEW s \in bundle, NEW i \in DOMAIN s.creates, NEW j \in DOMAIN s.creates,
                    Created(s, i) = Created(s, j)
             PROVE  i = j
  BY DEF DistinctOutputs
<1>1. CASE s = FunderSpend
  BY <1>1 DEF FunderSpend, CoinSpend, SpendRevealing
<1>2. ASSUME NEW k, s = HopSpend(k) PROVE i = j
  BY <1>2, SessionSpends
<1>3. ASSUME NEW l \in launches, s = StoreSpend(l) PROVE i = j
  BY <1>3, SessionSpends
<1>4. CASE s = ParentSpend
  <2> DEFINE n == Len(emitted)
             creates == ParentSpend.creates
  <2>1. /\ n \in Nat /\ DOMAIN emitted = 1..n
        /\ DOMAIN creates = IF IsSingleton(parent) THEN 1..(n + 1) ELSE 1..n
        /\ \A a \in 1..n : creates[a] = emitted[a]
        /\ IsSingleton(parent) => creates[n + 1] = Successor
    BY ParentCreates
  <2>2. Minted(creates[i]) = Minted(creates[j])
    BY <1>4, CreatedByParent
  <2>3. ASSUME IsSingleton(parent), NEW a \in 1..n PROVE Minted(emitted[a]) # Minted(Successor)
    <3>1. PICK l \in launches : EmittedFor(emitted[a], l)
      BY <2>1 DEF SessionInv, EmittedInv
    <3>2. Minted(Successor).ph = parent.ph
      BY CoinFields DEF Minted, Successor, CreateCoin
    <3>3. parent.ph # LauncherPh /\ \A k : parent.ph # Hop(k).ph
      BY <2>3, SuccessorIsApart
    <3>4. l.launcherCoin.ph = LauncherPh
      BY LaunchCoins DEF SessionInv, LaunchesInv
    <3> QED BY <3>1, <3>2, <3>3, <3>4 DEF EmittedFor
  <2>4. \A a \in 1..(n + 1) : a \in 1..n \/ a = n + 1
    BY <2>1
  <2>5. i \in DOMAIN creates /\ j \in DOMAIN creates
    BY <1>4
  <2> HIDE DEF n, creates
  <2>6. \A a, b \in 1..n : Minted(emitted[a]) = Minted(emitted[b]) => a = b
    BY <2>1 DEF SessionInv, EmittedInv
  <2>7. CASE i \in 1..n /\ j \in 1..n
    BY <2>1, <2>2, <2>6, <2>7
  <2>8. CASE i \notin 1..n \/ j \notin 1..n
    <3>1. IsSingleton(parent)
      BY <2>1, <2>5, <2>8
    <3>2. /\ i \in 1..n \/ i = n + 1
          /\ j \in 1..n \/ j = n + 1
      BY <2>1, <2>4, <2>5, <3>1
    <3> QED BY <2>1, <2>2, <2>3, <2>8, <3>1, <3>2
  <2> QED BY <2>7, <2>8
<1> QED BY <1>1, <1>2, <1>3, <1>4, DrainedBundle DEF SessionInv

(* The chain loses nothing and makes nothing: the funder pays for every    *)
(* store.                                                                  *)
LEMMA FunderPays ==
    ASSUME TypeOK, SessionInv, phase # "compose"
    PROVE  Balanced(bundle)
<1>1. /\ AllOutputs(bundle) = Made \cup (IF IsSingleton(parent) THEN {Minted(Successor)} ELSE {})
      /\ bundle = (Staged \cup {ParentSpend}) \cup {FunderSpend}
  BY EverythingMade, DrainedBundle DEF SessionInv, Paying
<1>2. /\ ParentSpend.coin = parent /\ parent.amount \in Nat /\ IsOdd(parent.amount)
      /\ FunderSpend.coin = Funder /\ Funder.amount = FunderAmount /\ FunderAmount \in Nat
      /\ Minted(Successor).amount = parent.amount
  BY ParentCreates, SuccessorIsApart, CoinFields, FunderPaysForAll
     DEF FunderSpend, CoinSpend, SpendRevealing, Funder, Minted, Successor, CreateCoin
<1>3. ParentSpend # FunderSpend
  <2>1. Funder # parent
    BY FunderPaysForAll DEF TypeOK
  <2> QED BY <1>2, <2>1
<1>4. ParentSpend \notin Staged /\ FunderSpend \notin Staged
  BY StagedIsNew DEF SessionInv
<1>5. Minted(Successor) \notin Made \/ ~ IsSingleton(parent)
  <2> SUFFICES ASSUME IsSingleton(parent) PROVE Minted(Successor) \notin Made
    OBVIOUS
  <2>1. /\ Minted(Successor).parent = Pid /\ Minted(Successor).ph = parent.ph
        /\ parent.ph # LauncherPh /\ \A k : parent.ph # Hop(k).ph
    BY CoinFields, SuccessorIsApart DEF Minted, Successor, CreateCoin
  <2>2. ASSUME NEW s \in Staged, s.coin = Minted(Successor) PROVE FALSE
    <3>1. ASSUME NEW k, s = HopSpend(k) PROVE FALSE
      BY <2>1, <2>2, <3>1, SessionSpends
    <3>2. ASSUME NEW l \in launches, s = StoreSpend(l) PROVE FALSE
      BY <2>1, <2>2, <3>2, SessionSpends, LaunchCoins DEF SessionInv, LaunchesInv
    <3> QED BY <3>1, <3>2 DEF SessionInv, SpendsInv
  <2>3. ASSUME NEW l \in launches, l.datastore = Minted(Successor) PROVE FALSE
    <3>1. l.datastore.parent = CoinId(l.launcherCoin) /\ IsLaunch(l)
      BY LaunchCoins DEF SessionInv, LaunchesInv
    <3>2. l.launcherCoin = parent
      BY <2>1, <2>3, <3>1, CoinIdsDiffer DEF Pid
    <3>3. l.launcherCoin.parent # Genesis
      BY <3>1, SessionCoins, CoinIdsDiffer DEF IsLaunch, Pid
    <3> QED BY <3>2, <3>3, SuccessorIsApart
  <2> QED BY <2>2, <2>3 DEF Made
<1>6. /\ IsFiniteSet(Staged) /\ IsFiniteSet(Made)
      /\ \A c \in Made : c.amount \in Nat
      /\ \A s \in Staged : s.coin.amount \in Nat
      /\ CoinTotal(Made) <= TotalIn(Staged) + calls * Most
  BY DEF SessionInv, MoneyInv, Made
<1>7. /\ TotalIn(Staged) \in Int
      /\ TotalIn(bundle) = FunderAmount + (parent.amount + TotalIn(Staged))
  <2>1. PICK T : T = Staged
    OBVIOUS
  <2>2. PICK p : p = ParentSpend
    OBVIOUS
  <2>3. PICK f : f = FunderSpend
    OBVIOUS
  <2>4. PICK U : U = T \cup {p}
    OBVIOUS
  <2>5. /\ IsFiniteSet(T) /\ p \notin T /\ p.coin.amount \in Int
        /\ \A s \in T : s.coin.amount \in Int
    BY <1>2, <1>4, <1>6, <2>1, <2>2
  <2>6. /\ IsFiniteSet(U) /\ f \notin U /\ f.coin.amount \in Int
        /\ \A s \in U : s.coin.amount \in Int
    BY <1>2, <1>3, <1>4, <2>1, <2>2, <2>3, <2>4, <2>5, FS_AddElement
  <2>7. TotalIn(T) \in Int /\ TotalIn(T \cup {p}) = p.coin.amount + TotalIn(T)
    BY ONLY <2>5, TotalInAdds
  <2>8. TotalIn(U \cup {f}) = f.coin.amount + TotalIn(U)
    BY ONLY <2>6, TotalInAdds
  <2> QED BY <1>1, <1>2, <2>1, <2>2, <2>3, <2>4, <2>7, <2>8
<1>8. /\ CoinTotal(Made) \in Int
      /\ CoinTotal(AllOutputs(bundle)) =
           IF IsSingleton(parent) THEN parent.amount + CoinTotal(Made) ELSE CoinTotal(Made)
  <2>1. PICK M : M = Made
    OBVIOUS
  <2>2. PICK c : c = Minted(Successor)
    OBVIOUS
  <2>3. CoinTotal(M) \in Int
    <3>1. Integral(Amounts(M), M)
      BY <1>6, <2>1 DEF Integral, Amounts
    <3> QED BY <1>6, <2>1, <3>1, CoinTotalIsSum, SumIsInteger
  <2>4. ASSUME IsSingleton(parent) PROVE CoinTotal(M \cup {c}) = parent.amount + CoinTotal(M)
    <3>1. /\ IsFiniteSet(M) /\ c \notin M /\ c.amount \in Int /\ \A d \in M : d.amount \in Int
      BY <1>2, <1>5, <1>6, <2>1, <2>2, <2>4
    <3>2. CoinTotal(M \cup {c}) = c.amount + CoinTotal(M)
      BY ONLY <3>1, CoinTotalAdds
    <3> QED BY <1>2, <2>2, <3>2
  <2>5. AllOutputs(bundle) = M \cup (IF IsSingleton(parent) THEN {c} ELSE {})
    BY <1>1, <2>1, <2>2
  <2>6. CASE IsSingleton(parent)
    BY <2>1, <2>3, <2>4, <2>5, <2>6
  <2>7. CASE ~ IsSingleton(parent)
    <3>1. AllOutputs(bundle) = M
      BY <2>5, <2>7
    <3> QED BY <2>1, <2>3, <2>7, <3>1
  <2> QED BY <2>6, <2>7
<1>9. calls * Most <= FunderAmount /\ calls * Most \in Int
  <2>1. /\ calls \in Nat /\ MaxCalls \in Nat /\ calls <= MaxCalls /\ Most \in Nat
        /\ MaxCalls * Most <= FunderAmount /\ FunderAmount \in Nat
    BY <1>2, MostCovers, MaxCallsIsNat, FunderPaysForAll DEF TypeOK, Covers
  <2>2. calls * Most <= MaxCalls * Most /\ calls * Most \in Int /\ MaxCalls * Most \in Int
    <3>1. PICK d \in Nat : MaxCalls = calls + d
      <4>1. MaxCalls - calls \in Nat /\ MaxCalls = calls + (MaxCalls - calls)
        BY <2>1
      <4> QED BY <4>1
    <3>2. (calls + d) * Most = calls * Most + d * Most /\ d * Most \in Nat /\ calls * Most \in Nat
      BY <2>1
    <3> QED BY <2>1, <3>1, <3>2
  <2> QED BY <2>1, <2>2
<1>10. CoinTotal(AllOutputs(bundle)) <= TotalIn(bundle)
  <2> HIDE DEF Made, Staged
  <2> QED BY <1>2, <1>6, <1>7, <1>8, <1>9
<1> QED BY <1>10 DEF Balanced, TotalOut, CoinTotal

(* The chain accepts what a session drained, with one exception.           *)
LEMMA DrainedIsValid ==
    ASSUME TypeOK, SessionInv, phase # "compose"
    PROVE  Valid(bundle, {parent, Funder}) <=> ~ DirectFromSingleton
<1>0. /\ SpendsInv /\ LaunchesInv /\ Staged \subseteq bundle
      /\ ParentSpend \in bundle /\ FunderSpend \in bundle
      /\ bundle = Staged \cup {ParentSpend, FunderSpend}
  BY DrainedBundle DEF SessionInv, Paying
<1>1. /\ ParentSpend.coin = parent /\ ParentSpend.asserts = asserted
      /\ ParentSpend.reveal = parent.ph
      /\ FunderSpend.coin = Funder /\ FunderSpend.asserts = {} /\ FunderSpend.reveal = Funder.ph
      /\ FunderSpend.creates = <<>>
  BY ParentCreates DEF FunderSpend, CoinSpend, SpendRevealing
<1>2. \A k : /\ HopSpend(k).asserts = {} /\ HopSpend(k).reveal = HopSpend(k).coin.ph
             /\ HopSpend(k).coin.ph[2].mod = "nft_intermediate"
  <2>1. \A k : HopSpend(k).asserts = {} /\ HopSpend(k).reveal = HopSpend(k).coin.ph
    BY DEF HopSpend, IntermediateSpend, CoinSpend, SpendRevealing
  <2> QED BY <2>1, SessionSpends, SessionCoins
<1>3. \A l \in launches : /\ StoreSpend(l).asserts = {}
                          /\ StoreSpend(l).reveal = StoreSpend(l).coin.ph
                          /\ StoreSpend(l).coin.ph = LauncherPh
  <2>1. \A l : StoreSpend(l).asserts = {} /\ StoreSpend(l).reveal = StoreSpend(l).coin.ph
    BY DEF StoreSpend, CoinSpend, SpendRevealing
  <2> QED BY <1>0, <2>1, LaunchCoins, SessionSpends DEF LaunchesInv
<1>4. \A s \in Staged : s.coin \in AllOutputs(bundle)
  BY EverythingMade DEF Made
<1>5. \A s \in bundle : s.coin \in {parent, Funder} \cup AllOutputs(bundle)
  BY <1>0, <1>1, <1>4
<1>6. \A s \in bundle : s.reveal = s.coin.ph
  BY <1>0, <1>1, <1>2, <1>3 DEF SpendsInv
<1>7. \A s, t \in bundle : s.coin = t.coin => s = t
  <2>1. \A s, t \in Staged : s.coin = t.coin => s = t
    <3> SUFFICES ASSUME NEW s \in Staged, NEW t \in Staged, s.coin = t.coin PROVE s = t
      OBVIOUS
    <3>1. LauncherPh[2].mod # "nft_intermediate"
      BY SessionCoins
    <3>2. ASSUME NEW j, NEW k, s = HopSpend(j), t = HopSpend(k) PROVE s = t
      BY <3>2, SessionSpends, SessionCoins
    <3>3. ASSUME NEW l \in launches, NEW m \in launches, s = StoreSpend(l), t = StoreSpend(m)
          PROVE  s = t
      BY <1>0, <3>3, SessionSpends DEF LaunchesInv
    <3> QED BY <1>0, <1>2, <1>3, <3>1, <3>2, <3>3 DEF SpendsInv
  <2>2. parent # Funder
    BY FunderPaysForAll DEF TypeOK
  <2> QED BY <1>0, <1>1, <2>1, <2>2, StagedIsNew
<1>8. \A s \in bundle : s.asserts \subseteq {CoinId(t.coin) : t \in bundle}
  <2>1. asserted \subseteq {CoinId(t.coin) : t \in bundle}
    BY <1>0 DEF SpendsInv
  <2>2. \A s \in Staged : s.asserts = {}
    BY <1>0, <1>2, <1>3 DEF SpendsInv
  <2> QED BY <1>0, <1>1, <2>1, <2>2
<1>9. (\A s \in bundle : SingletonRule(s)) <=> ~ DirectFromSingleton
  <2>1. \A s \in Staged : SingletonRule(s)
    BY <1>0, <1>2, <1>3, SessionCoins DEF SpendsInv, SingletonRule
  <2>2. SingletonRule(FunderSpend)
    <3>1. Funder.ph[2].mod = "standard"
      BY DEF Funder, Coin, OrdinaryPuzzle, TreeHash, Curried
    <3> QED BY <1>1, <3>1 DEF SingletonRule
  <2> QED BY <1>0, <2>1, <2>2, ParentKeepsTheRule
<1> QED BY <1>5, <1>6, <1>7, <1>8, <1>9, NothingTwice, FunderPays DEF Valid

(* What the chain said of what was submitted.                              *)
VerdictInv ==
    /\ phase = "confirmed" => Valid(bundle, {parent, Funder})
    /\ phase = "rejected" => ~ Valid(bundle, {parent, Funder})

(* Once submitted, a session is confirmed or rejected as Valid says.       *)
LEMMA VerdictHolds == Spec => []VerdictInv
<1>1. Init => VerdictInv
  BY DEF Init, VerdictInv
<1>2. VerdictInv /\ [Next]_vars => VerdictInv'
  <2> SUFFICES ASSUME VerdictInv, [Next]_vars PROVE VerdictInv'
    OBVIOUS
  <2>1. ASSUME NEW number, StageIntermediate(number) PROVE VerdictInv'
    BY <2>1 DEF StageIntermediate, VerdictInv
  <2>2. ASSUME NEW shape, NEW threaded, NEW owner, NEW kind, Launch(shape, threaded, owner, kind)
        PROVE  VerdictInv'
    <3>1. phase' = phase /\ phase = "compose"
      BY <2>2 DEF Launch
    <3> QED BY <3>1 DEF VerdictInv
  <2>3. ASSUME SpendParentAndDrain \/ StartOver PROVE VerdictInv'
    BY <2>3 DEF SpendParentAndDrain, StartOver, VerdictInv
  <2>4. ASSUME Submit PROVE VerdictInv'
    BY <2>4 DEF Submit, VerdictInv
  <2>5. ASSUME UNCHANGED vars PROVE VerdictInv'
    BY <2>5 DEF vars, VerdictInv
  <2> QED BY <2>1, <2>2, <2>3, <2>4, <2>5 DEF Next
<1> QED BY <1>1, <1>2, PTL DEF Spec

(* mint.rs:249-262, 309-314.  As long as an intermediate launch is not     *)
(* built on other launches' conditions, the chain accepts what a session   *)
(* of accepted launches drained and every store is on it - whatever was    *)
(* refused along the way - unless a singleton parent was asked to create   *)
(* an odd launcher itself; and then it does not.                           *)
THEOREM AcceptedIsLaunched ==
    ASSUME ThreadedForms \subseteq {"direct"}
    PROVE  Spec => []SuccessIsLaunched
<1>1. TypeOK /\ IInv /\ VerdictInv => SuccessIsLaunched
  <2> SUFFICES ASSUME TypeOK, IInv, VerdictInv PROVE SuccessIsLaunched
    OBVIOUS
  <2>1. ASSUME phase # "compose"
        PROVE  /\ Valid(bundle, {parent, Funder}) <=> ~ DirectFromSingleton
               /\ \A l \in launches : l.datastore \in AllOutputs(bundle)
    <3>1. SessionInv
      BY <2>1 DEF IInv
    <3>2. Valid(bundle, {parent, Funder}) <=> ~ DirectFromSingleton
      BY <2>1, <3>1, DrainedIsValid
    <3>3. \A l \in launches : l.datastore \in Made
      BY DEF Made
    <3> QED BY <2>1, <3>1, <3>2, <3>3, EverythingMade
  <2>2. SuccessIsLaunched <=>
          /\ phase = "rejected" => DirectFromSingleton
          /\ phase = "confirmed" =>
               /\ ~ DirectFromSingleton
               /\ \A l \in launches : l.datastore \in AllOutputs(bundle)
    BY DEF SuccessIsLaunched, DirectFromSingleton
  <2> QED BY <2>1, <2>2 DEF VerdictInv
<1> QED BY <1>1, TypeCorrect, IInvHolds, VerdictHolds, PTL
=============================================================================
