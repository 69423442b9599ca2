------------------------- MODULE LaunchBuilderProofs ------------------------
(***************************************************************************)
(* What mint_datastore_launch_with_kind returns when it accepts, whatever  *)
(* context and launcher it is handed, and what spends of one and of two    *)
(* conditions create, and what the chain's balance rule adds up.            *)
(***************************************************************************)
EXTENDS LaunchBuilder, SumProofs, SequenceTheorems

(* A coin id is collision free, and that of no coin is Genesis.            *)
LEMMA CoinIdsDiffer ==
    /\ \A c, d : CoinId(c) = CoinId(d) => c = d
    /\ \A c : CoinId(c) # Genesis
BY DEF CoinId, Genesis

(* A coin is its three fields.                                             *)
LEMMA CoinFields ==
    ASSUME NEW parent, NEW ph, NEW amount
    PROVE  LET c == Coin(parent, ph, amount)
           IN c.parent = parent /\ c.ph = ph /\ c.amount = amount
BY DEF Coin

(* A spend creates children of its own coin only.                          *)
LEMMA OutputParents ==
    ASSUME NEW s, NEW c \in Outputs(s)
    PROVE  c.parent = CoinId(s.coin)
BY DEF Outputs, Created, Coin

-----------------------------------------------------------------------------
(* What the builder returns when it accepts, whatever it is given.         *)
LEMMA AcceptedLaunch ==
    ASSUME NEW ctx, NEW kind, NEW launcher, NEW ph,
           LaunchWithKind(ctx, kind, launcher, ph).is = "ok"
    PROVE  LET launch == LaunchWithKind(ctx, kind, launcher, ph)
               hinted == OverrideLauncherHint(launcher.creates, launcher.coin, ph, kind)
           IN /\ launch.ctx = ctx \cup {LauncherSpend(launcher, ph)}
              /\ launch.creates = hinted.creates
              /\ launch.asserts = launcher.asserts \cup {CoinId(launcher.coin)}
              /\ launch.memosWritten = hinted.written
              /\ launch.datastore = StoreCoin(launcher, ph)
              /\ LauncherIsLegal(launcher)
              /\ ReachesTheLauncher(launch.ctx, hinted.creates, launcher.coin)
<1> DEFINE launch == LaunchWithKind(ctx, kind, launcher, ph)
           staged == ctx \cup {LauncherSpend(launcher, ph)}
           hinted == OverrideLauncherHint(launcher.creates, launcher.coin, ph, kind)
<1>1. LauncherIsLegal(launcher)
  BY DEF LaunchWithKind
<1>2. MintedAmountIsOdd(StoreCoin(launcher, ph).amount)
  BY <1>1 DEF LaunchWithKind
<1>3. ReachesTheLauncher(staged, hinted.creates, launcher.coin)
  BY <1>1, <1>2 DEF LaunchWithKind
<1>4. launch = [is |-> "ok", ctx |-> staged, creates |-> hinted.creates,
                asserts |-> ParentAsserts(launcher),
                datastore |-> StoreCoin(launcher, ph), memosWritten |-> hinted.written]
  BY <1>1, <1>2, <1>3 DEF LaunchWithKind
<1> HIDE DEF launch, staged, hinted
<1>5. /\ launch.ctx = staged /\ launch.creates = hinted.creates
      /\ launch.asserts = ParentAsserts(launcher) /\ launch.memosWritten = hinted.written
      /\ launch.datastore = StoreCoin(launcher, ph)
  BY <1>4
<1> QED BY <1>1, <1>3, <1>5 DEF launch, staged, hinted, ParentAsserts

(* The rewrite of the one condition a fresh launcher brings.               *)
LEMMA RewriteOfOne ==
    ASSUME NEW create, NEW coin, NEW ph, NEW kind,
           NEW out, out = IF IsThisLauncher(create, coin)
                            THEN [create EXCEPT !.memos = OwnerDiscoveryMemos(ph, kind)]
                            ELSE create
    PROVE  LET hinted == OverrideLauncherHint(<<create>>, coin, ph, kind)
           IN /\ hinted.creates = <<out>>
              /\ hinted.written \in BOOLEAN
              /\ hinted.written <=> IsThisLauncher(create, coin)
<1>1. OverrideLauncherHint(<<create>>, coin, ph, kind).creates = [i \in DOMAIN <<create>> |-> out]
  BY DEF OverrideLauncherHint
<1>2. /\ OverrideLauncherHint(<<create>>, coin, ph, kind).written \in BOOLEAN
      /\ OverrideLauncherHint(<<create>>, coin, ph, kind).written <=> IsThisLauncher(create, coin)
  BY DEF OverrideLauncherHint
<1> QED BY <1>1, <1>2

-----------------------------------------------------------------------------
(* What a block adds, spend by spend.                                      *)
LEMMA ConcatOfOnes == ASSUME NEW h, NEW c PROVE <<h>> \o <<c>> = <<h, c>>
<1> DEFINE l == <<h>> r == <<c>> S == {h, c}
<1>1. l \in Seq(S) /\ r \in Seq(S) /\ <<h, c>> \in Seq(S)
  OBVIOUS
<1>2. Len(l) = 1 /\ Len(r) = 1 /\ Len(<<h, c>>) = 2 /\ l[1] = h /\ r[1] = c
  OBVIOUS
<1> HIDE DEF l, r, S
<1>3. /\ l \o r \in Seq(S) /\ Len(l \o r) = 2
      /\ \A i \in 1..2 : (l \o r)[i] = IF i <= 1 THEN l[i] ELSE r[i - 1]
  BY <1>1, <1>2, ConcatProperties
<1>4. (l \o r)[1] = h /\ (l \o r)[2] = c
  BY <1>2, <1>3
<1>5. \A i \in 1..2 : (l \o r)[i] = <<h, c>>[i]
  <2>1. \A i \in 1..2 : i = 1 \/ i = 2
    OBVIOUS
  <2>2. <<h, c>>[1] = h /\ <<h, c>>[2] = c
    OBVIOUS
  <2> QED BY <1>4, <2>1, <2>2
<1>6. l \o r = <<h, c>>
  BY <1>1, <1>2, <1>3, <1>5, SeqEqual
<1> QED BY <1>6 DEF l, r

Child(coin, create) == Coin(CoinId(coin), create.ph, create.amount)

(* A spend with one condition creates one coin.                            *)
LEMMA OneOutput ==
    ASSUME NEW coin, NEW a, NEW asserts
    PROVE  Outputs(CoinSpend(coin, <<a>>, asserts)) = {Child(coin, a)}
<1> DEFINE s == CoinSpend(coin, <<a>>, asserts)
<1>1. s.coin = coin /\ s.creates = <<a>>
  BY DEF CoinSpend, SpendRevealing
<1> HIDE DEF s
<1>2. DOMAIN s.creates = {1} /\ Created(s, 1) = Child(coin, a)
  BY <1>1 DEF Created, Child
<1>3. Outputs(s) = {Child(coin, a)}
  BY <1>2 DEF Outputs
<1> QED BY <1>3 DEF s

(* A spend with two creates those two.                                     *)
LEMMA TwoOutputs ==
    ASSUME NEW coin, NEW a, NEW b, NEW asserts
    PROVE  Outputs(CoinSpend(coin, <<a, b>>, asserts)) = {Child(coin, a), Child(coin, b)}
<1> DEFINE s == CoinSpend(coin, <<a, b>>, asserts)
<1>1. s.coin = coin /\ s.creates = <<a, b>>
  BY DEF CoinSpend, SpendRevealing
<1> HIDE DEF s
<1>2. DOMAIN s.creates = {1, 2} /\ s.creates[1] = a /\ s.creates[2] = b
  <2>1. DOMAIN <<a, b>> = {1, 2}
    OBVIOUS
  <2> QED BY <1>1, <2>1
<1>3. Created(s, 1) = Child(coin, a) /\ Created(s, 2) = Child(coin, b)
  BY <1>1, <1>2 DEF Created, Child
<1>4. Outputs(s) = {Child(coin, a), Child(coin, b)}
  BY <1>2, <1>3 DEF Outputs
<1> QED BY <1>4 DEF s

-----------------------------------------------------------------------------
(* The sums of the balance rule: of coins' amounts, and of what the spends *)
(* of a bundle bring in.                                                   *)
CoinTotal(S) == MapThenSumSet(LAMBDA c : c.amount, S)

Amounts(S)  == [c \in S |-> c.amount]
Incoming(S) == [s \in S |-> s.coin.amount]

(* The worth of a set of coins is a sum.                                   *)
LEMMA CoinTotalIsSum ==
    ASSUME NEW S, IsFiniteSet(S) PROVE CoinTotal(S) = Sum(Amounts(S), S)
<1> DEFINE D(h) == [s \in SUBSET S |-> IF s = {} THEN 0
                      ELSE (CHOOSE x \in s : TRUE).amount + h[s \ {CHOOSE x \in s : TRUE}]]
<1>1. \A s \in SUBSET S : s # {} => Pick(s) \in S
  BY DEF Pick
<1>2. \A h : D(h) = [s \in SUBSET S |-> IF s = {} THEN 0
                       ELSE Amounts(S)[Pick(s)] + h[s \ {Pick(s)}]]
  BY <1>1 DEF Amounts, Pick
<1>3. \A h : h = D(h) <=> Sums(h, Amounts(S), S)
  BY <1>2 DEF Sums
<1>4. CoinTotal(S) = (CHOOSE h : h = D(h))[S]
  BY DEF CoinTotal, MapThenSumSet, MapThenFoldSet
<1> HIDE DEF D
<1>5. PICK g : Sums(g, Amounts(S), S)
  BY SumsExist
<1>6. \A h : h = D(h) <=> h = g
  BY <1>3, <1>5, SumsAreUnique
<1>7. (CHOOSE h : h = D(h)) = g
  BY <1>6
<1> QED BY <1>4, <1>5, <1>7, SumIs

(* What a bundle spends is a sum.                                          *)
LEMMA TotalInIsSum ==
    ASSUME NEW S, IsFiniteSet(S) PROVE TotalIn(S) = Sum(Incoming(S), S)
<1> DEFINE D(h) == [s \in SUBSET S |-> IF s = {} THEN 0
                      ELSE (CHOOSE x \in s : TRUE).coin.amount
                             + h[s \ {CHOOSE x \in s : TRUE}]]
<1>1. \A s \in SUBSET S : s # {} => Pick(s) \in S
  BY DEF Pick
<1>2. \A h : D(h) = [s \in SUBSET S |-> IF s = {} THEN 0
                       ELSE Incoming(S)[Pick(s)] + h[s \ {Pick(s)}]]
  BY <1>1 DEF Incoming, Pick
<1>3. \A h : h = D(h) <=> Sums(h, Incoming(S), S)
  BY <1>2 DEF Sums
<1>4. TotalIn(S) = (CHOOSE h : h = D(h))[S]
  BY DEF TotalIn, MapThenSumSet, MapThenFoldSet
<1> HIDE DEF D
<1>5. PICK g : Sums(g, Incoming(S), S)
  BY SumsExist
<1>6. \A h : h = D(h) <=> h = g
  BY <1>3, <1>5, SumsAreUnique
<1>7. (CHOOSE h : h = D(h)) = g
  BY <1>6
<1> QED BY <1>4, <1>5, <1>7, SumIs

(* One coin more, or one spend more.                                       *)
LEMMA CoinTotalAdds ==
    ASSUME NEW S, NEW x, IsFiniteSet(S), x \notin S, x.amount \in Int,
           \A c \in S : c.amount \in Int
    PROVE  /\ CoinTotal(S) \in Int
           /\ CoinTotal(S \cup {x}) = x.amount + CoinTotal(S)
<1>1. IsFiniteSet(S \cup {x})
  BY FS_AddElement
<1>2. Integral(Amounts(S \cup {x}), S \cup {x})
  BY DEF Amounts, Integral
<1>3. \A y \in S : Amounts(S)[y] = Amounts(S \cup {x})[y]
  BY DEF Amounts
<1>4. Amounts(S \cup {x})[x] = x.amount
  BY DEF Amounts
<1>5. /\ Sum(Amounts(S), S) \in Int
      /\ Sum(Amounts(S \cup {x}), S \cup {x})
           = Amounts(S \cup {x})[x] + Sum(Amounts(S), S)
  BY <1>2, <1>3, SumAdds
<1>6. /\ CoinTotal(S) = Sum(Amounts(S), S)
      /\ CoinTotal(S \cup {x}) = Sum(Amounts(S \cup {x}), S \cup {x})
  BY <1>1, CoinTotalIsSum
<1> QED BY <1>4, <1>5, <1>6

(* One spend more adds what its coin is worth.                             *)
LEMMA TotalInAdds ==
    ASSUME NEW S, NEW x, IsFiniteSet(S), x \notin S, x.coin.amount \in Int,
           \A s \in S : s.coin.amount \in Int
    PROVE  /\ TotalIn(S) \in Int
           /\ TotalIn(S \cup {x}) = x.coin.amount + TotalIn(S)
<1>1. IsFiniteSet(S \cup {x})
  BY FS_AddElement
<1>2. Integral(Incoming(S \cup {x}), S \cup {x})
  BY DEF Incoming, Integral
<1>3. \A y \in S : Incoming(S)[y] = Incoming(S \cup {x})[y]
  BY DEF Incoming
<1>4. Incoming(S \cup {x})[x] = x.coin.amount
  BY DEF Incoming
<1>5. /\ Sum(Incoming(S), S) \in Int
      /\ Sum(Incoming(S \cup {x}), S \cup {x})
           = Incoming(S \cup {x})[x] + Sum(Incoming(S), S)
  BY <1>2, <1>3, SumAdds
<1>6. /\ TotalIn(S) = Sum(Incoming(S), S)
      /\ TotalIn(S \cup {x}) = Sum(Incoming(S \cup {x}), S \cup {x})
  BY <1>1, TotalInIsSum
<1> QED BY <1>4, <1>5, <1>6
=============================================================================
