-------------------------- MODULE DiscoveryProofs --------------------------
(***************************************************************************)
(* Proofs about Discovery, for every set of DIDs, owners and memos of other *)
(* producers, and any number of blocks: what the memo scan returns, whom   *)
(* the walk names, and that a launch is on the chain whole or not at all.  *)
(***************************************************************************)
EXTENDS Discovery, LaunchBuilderProofs, FiniteSetTheorems

-----------------------------------------------------------------------------
(* Puzzles, told apart by their mod.                                       *)
Mod(c) == c.ph[2].mod
Mods == {"standard", "did", "singleton_launcher", "nft_intermediate", "datastore"}

IsHashed(c) == c.ph = TreeHash(c.ph[2]) /\ Mod(c) \in Mods

(* The coins that exist only within a launch.                              *)
Transient(c) == Mod(c) \in {"singleton_launcher", "nft_intermediate"}

HopPh == TreeHash(IntermediatePuzzle(LauncherPh, 0))
StorePh(l, owner) == TreeHash(Curried("datastore", <<CoinId(l), owner>>))

(* Each kind of coin is known by the puzzle its hash commits to, and by    *)
(* one only.                                                               *)
LEMMA Hashes ==
    ASSUME NEW c
    PROVE  /\ \A o : c.ph = P2(o) => IsHashed(c) /\ Mod(c) = "standard"
           /\ \A d : c.ph = TreeHash(DidPuzzle(d)) => IsHashed(c) /\ Mod(c) = "did"
           /\ c.ph = LauncherPh => IsHashed(c) /\ Mod(c) = "singleton_launcher"
           /\ c.ph = HopPh => IsHashed(c) /\ Mod(c) = "nft_intermediate"
           /\ \A l, o : c.ph = StorePh(l, o) => IsHashed(c) /\ Mod(c) = "datastore"
BY DEF IsHashed, Mod, Mods, P2, DidPuzzle, LauncherPh, LauncherPuzzle, HopPh,
       IntermediatePuzzle, StorePh, TreeHash, Curried

-----------------------------------------------------------------------------
(* The chain.  A coin's parent is spent before the coin exists; no coin of *)
(* a launch is ever left unspent.                                          *)
Spent == {s.coin : s \in confirmed}

ChainInv ==
    /\ \A c \in unspent \cup Spent : IsHashed(c)
    /\ \A c \in unspent \cup Spent : c.parent = Genesis \/ \E p \in Spent : c.parent = CoinId(p)
    /\ \A c \in unspent \cup Spent : c.parent = Genesis \/ c \in AllOutputs(confirmed)
    /\ AllOutputs(confirmed) \subseteq unspent \cup Spent
    /\ unspent \cap Spent = {}
    /\ \A c \in unspent : ~ Transient(c)
    /\ \A s, t \in confirmed : s.coin = t.coin => s = t

(* A coin whose parent is not spent does not exist.                        *)
LEMMA Unborn ==
    ASSUME ChainInv, NEW c, NEW p, c.parent = CoinId(p), p \notin Spent
    PROVE  c \notin unspent \cup Spent
BY CoinIdsDiffer DEF ChainInv

(* What a bundle must be for the chain to stay as it is: it spends nothing *)
(* twice, and spends the transient coins it makes.                         *)
IsClean(bundle) ==
    /\ \A s \in bundle : s.coin \notin Spent
    /\ \A c \in AllOutputs(bundle) : IsHashed(c)
    /\ \A c \in AllOutputs(bundle) : Transient(c) => c \in {s.coin : s \in bundle}

(* A clean bundle the chain accepts leaves the chain sound, and is on it   *)
(* whole.                                                                  *)
LEMMA AcceptKeepsChain ==
    ASSUME ChainInv, NEW bundle, IsClean(bundle), Accept(bundle)
    PROVE  /\ ChainInv'
           /\ Spent \subseteq Spent'
           /\ \A s \in bundle : s \in confirmed'
<1> DEFINE funder == CoinSpend(Funder(blocks + 1), <<>>, {})
           block  == bundle \cup {funder}
           inputs == {s.coin : s \in block}
           outs   == AllOutputs(block)
<1>1. /\ Valid(block, unspent)
      /\ unspent' = (unspent \cup outs) \ inputs
      /\ confirmed' = confirmed \cup block
  BY DEF Accept
<1>2. /\ Outputs(funder) = {} /\ funder.coin.parent = Genesis
  BY DEF Outputs, CoinSpend, SpendRevealing, Funder, Coin
<1> HIDE DEF funder
<1>3. outs = AllOutputs(bundle)
  BY <1>2 DEF AllOutputs
<1>4. inputs \subseteq unspent \cup outs
  BY <1>1 DEF Valid
<1>5. \A c \in outs : \E p \in inputs : c.parent = CoinId(p)
  BY OutputParents DEF AllOutputs
<1>6. funder.coin \in unspent
  <2>1. funder.coin \notin outs
    BY <1>2, <1>5, CoinIdsDiffer
  <2> QED BY <1>4, <2>1
<1>7. inputs \cap Spent = {}
  BY <1>6 DEF IsClean, ChainInv
<1>8. outs \cap (unspent \cup Spent) = {}
  BY <1>5, <1>7, Unborn
<1>9. Spent' = Spent \cup inputs
  BY <1>1 DEF Spent
<1>10. AllOutputs(confirmed') = AllOutputs(confirmed) \cup outs
  BY <1>1 DEF AllOutputs
<1>11. \A s, t \in confirmed' : s.coin = t.coin => s = t
  <2>1. \A s, t \in block : s.coin = t.coin => s = t
    BY <1>1 DEF Valid
  <2>2. \A s \in confirmed : \A t \in block : s.coin # t.coin
    BY <1>7 DEF Spent
  <2> HIDE DEF block
  <2> QED BY <1>1, <2>1, <2>2 DEF ChainInv
<1>12. \A c \in outs : IsHashed(c) /\ (Transient(c) => c \in inputs)
  BY <1>3 DEF IsClean
<1>13. \A s \in bundle : s \in confirmed'
  BY <1>1
<1> HIDE DEF inputs, outs
<1>14. \A c \in unspent' \cup Spent' : IsHashed(c)
  BY <1>1, <1>4, <1>9, <1>12 DEF ChainInv
<1>15. \A c \in unspent' \cup Spent' : c.parent = Genesis \/ \E p \in Spent' : c.parent = CoinId(p)
  BY <1>1, <1>4, <1>5, <1>9 DEF ChainInv
<1>16. \A c \in unspent' \cup Spent' : c.parent = Genesis \/ c \in AllOutputs(confirmed')
  BY <1>1, <1>4, <1>9, <1>10 DEF ChainInv
<1>17. AllOutputs(confirmed') \subseteq unspent' \cup Spent'
  BY <1>1, <1>9, <1>10 DEF ChainInv
<1>18. unspent' \cap Spent' = {}
  BY <1>1, <1>8, <1>9 DEF ChainInv
<1>19. \A c \in unspent' : ~ Transient(c)
  BY <1>1, <1>12 DEF ChainInv
<1> QED BY <1>9, <1>11, <1>13, <1>14, <1>15, <1>16, <1>17, <1>18, <1>19
        DEF ChainInv, IsHashed, Transient, Mod

-----------------------------------------------------------------------------
(* The launchers of a coin: its own, or one hop away.                      *)
DirectLauncher(coin, amount) == Coin(CoinId(coin), LauncherPh, amount)
Hop(coin) == Coin(CoinId(coin), HopPh, 0)
HopLauncher(coin) == Coin(CoinId(Hop(coin)), LauncherPh, 1)

StoreSpend(l, ph) == CoinSpend(l, <<CreateCoin(StorePh(l, ph), 1, NoMemos)>>, {})
HopSpend(coin) == CoinSpend(Hop(coin), <<CreateCoin(LauncherPh, 1, NoMemos)>>, {})

HintedCreate(amount, ph, kind) == CreateCoin(LauncherPh, amount, OwnerDiscoveryMemos(ph, kind))
HopCreate == CreateCoin(HopPh, 0, NoMemos)

LaunchOf(coin, route, kind, ph) ==
    LaunchWithKind(StagedFor(coin, route), kind, LauncherFor(coin, route), ph)

IsDirect(coin, route, kind, ph, amount) ==
    LET launch == LaunchOf(coin, route, kind, ph)
    IN /\ LauncherFor(coin, route).coin = DirectLauncher(coin, amount)
       /\ launch.ctx = {StoreSpend(DirectLauncher(coin, amount), ph)}
       /\ launch.creates = <<HintedCreate(amount, ph, kind)>>
       /\ launch.asserts = {CoinId(DirectLauncher(coin, amount))}
       /\ launch.memosWritten = TRUE

RouteCreates(route, amount) ==
    \/ route = "direct" /\ amount = 1
    \/ route = "zero" /\ amount = 0

(* What the builder returns for a launcher the parent creates itself, of 1 *)
(* mojo or of 0, spend by spend.                                           *)
LEMMA DirectLaunch ==
    ASSUME NEW coin, NEW kind, NEW ph, NEW route, NEW amount,
           RouteCreates(route, amount), LaunchOf(coin, route, kind, ph).is = "ok"
    PROVE  IsDirect(coin, route, kind, ph, amount)
<1> DEFINE launcher == LauncherFor(coin, route)
           l == DirectLauncher(coin, amount)
           plain == CreateCoin(LauncherPh, amount, NoMemos)
<1>1. /\ launcher.coin = l /\ launcher.creates = <<plain>> /\ launcher.asserts = {}
      /\ launcher.singletonAmount = 1 /\ StagedFor(coin, route) = {}
  <2>1. CASE route = "direct" /\ amount = 1
    BY <2>1 DEF LauncherFor, StagedFor, NewLauncher, FromCoin, DirectLauncher, Coin
  <2>2. CASE route = "zero" /\ amount = 0
    BY <2>2 DEF LauncherFor, StagedFor, NewLauncher, FromCoin, WithSingletonAmount, DirectLauncher, Coin
  <2> QED BY <2>1, <2>2 DEF RouteCreates
<1> HIDE DEF launcher
<1>2. LauncherSpend(launcher, ph) = StoreSpend(l, ph)
  BY <1>1 DEF LauncherSpend, StoreCoin, StoreSpend, StorePh, Coin
<1>3. /\ IsThisLauncher(plain, l)
      /\ [plain EXCEPT !.memos = OwnerDiscoveryMemos(ph, kind)] = HintedCreate(amount, ph, kind)
  <2>1. plain.ph = LauncherPh /\ plain.amount = amount /\ l.parent = CoinId(coin)
    BY DEF CreateCoin, DirectLauncher, Coin
  <2>2. IsThisLauncher(plain, l)
    BY <2>1 DEF IsThisLauncher, DirectLauncher
  <2> QED BY <2>2 DEF HintedCreate, CreateCoin
<1> HIDE DEF plain, l
<1>4. LET hinted == OverrideLauncherHint(<<plain>>, l, ph, kind)
      IN hinted.creates = <<HintedCreate(amount, ph, kind)>> /\ hinted.written = TRUE
  BY <1>3, RewriteOfOne
<1>5. LaunchOf(coin, route, kind, ph) = LaunchWithKind({}, kind, launcher, ph)
  BY <1>1 DEF LaunchOf, launcher
<1> QED BY <1>1, <1>2, <1>4, <1>5, AcceptedLaunch DEF IsDirect, launcher, l

(* What the builder returns for a launcher behind an intermediate, spend   *)
(* by spend.                                                               *)
LEMMA HopLaunch ==
    ASSUME NEW coin, NEW kind, NEW ph,
           LaunchOf(coin, "intermediate", kind, ph).is = "ok"
    PROVE  LET launch == LaunchOf(coin, "intermediate", kind, ph)
           IN /\ LauncherFor(coin, "intermediate").coin = HopLauncher(coin)
              /\ launch.ctx = {HopSpend(coin), StoreSpend(HopLauncher(coin), ph)}
              /\ launch.creates = <<HopCreate>>
              /\ launch.asserts = {CoinId(Hop(coin)), CoinId(HopLauncher(coin))}
              /\ launch.memosWritten = FALSE
<1> DEFINE launcher == LauncherFor(coin, "intermediate")
           l == HopLauncher(coin)
<1>0. IntermediateCoin(CoinId(coin), 0) = Hop(coin) /\ Hop(coin).ph = HopPh
  BY DEF IntermediateCoin, Hop, HopPh, Coin
<1>1. /\ launcher.coin = l /\ launcher.creates = <<HopCreate>>
      /\ launcher.asserts = {CoinId(Hop(coin))}
      /\ launcher.singletonAmount = 1 /\ StagedFor(coin, "intermediate") = {HopSpend(coin)}
  BY <1>0 DEF LauncherFor, StagedFor, IntermediateLauncher, IntermediateSpend, FromCoin,
              HopLauncher, HopCreate, HopSpend, Coin
<1> HIDE DEF launcher
<1>2. LauncherSpend(launcher, ph) = StoreSpend(l, ph)
  BY <1>1 DEF LauncherSpend, StoreCoin, StoreSpend, StorePh, Coin
<1>3. ~ IsThisLauncher(HopCreate, l)
  <2>1. HopCreate.ph = HopPh /\ l.ph = LauncherPh
    BY DEF HopCreate, CreateCoin, HopLauncher, Coin
  <2>2. HopPh # LauncherPh
    BY DEF HopPh, LauncherPh, LauncherPuzzle, IntermediatePuzzle, TreeHash, Curried
  <2>3. Coin(l.parent, HopCreate.ph, HopCreate.amount).ph = HopPh
    BY <2>1, CoinFields
  <2> HIDE DEF l
  <2> QED BY <2>1, <2>2, <2>3, CoinIdsDiffer DEF IsThisLauncher
<1> HIDE DEF l
<1>4. LET hinted == OverrideLauncherHint(<<HopCreate>>, l, ph, kind)
      IN hinted.creates = <<HopCreate>> /\ hinted.written = FALSE
  <2>1. PICK out : out = IF IsThisLauncher(HopCreate, l)
                           THEN [HopCreate EXCEPT !.memos = OwnerDiscoveryMemos(ph, kind)]
                           ELSE HopCreate
    OBVIOUS
  <2>2. LET hinted == OverrideLauncherHint(<<HopCreate>>, l, ph, kind)
        IN /\ hinted.creates = <<out>> /\ hinted.written \in BOOLEAN
           /\ hinted.written <=> IsThisLauncher(HopCreate, l)
    BY ONLY <2>1, RewriteOfOne
  <2>3. out = HopCreate
    BY <1>3, <2>1
  <2> QED BY <1>3, <2>2, <2>3
<1>5. LaunchOf(coin, "intermediate", kind, ph)
        = LaunchWithKind({HopSpend(coin)}, kind, launcher, ph)
  BY <1>1 DEF LaunchOf, launcher
<1> QED BY <1>1, <1>2, <1>4, <1>5, AcceptedLaunch DEF launcher, l

(* A coin that launches: a wallet's, or a DID, which recreates itself.     *)
Self(coin) == CreateCoin(coin.ph, coin.amount, <<coin.ph>>)

ParentOf(coin, create, asserts) ==
    CoinSpend(coin, IF IsDid(coin) THEN <<Self(coin), create>> ELSE <<create>>, asserts)

MemoedCreate(amount, ph, memo) ==
    CreateCoin(LauncherPh, amount, <<DigstoreOwnerHint(ph), memo>>)

DirectBundle(coin, amount, ph, memo) ==
    {StoreSpend(DirectLauncher(coin, amount), ph),
     ParentOf(coin, MemoedCreate(amount, ph, memo), {CoinId(DirectLauncher(coin, amount))})}

HopBundle(coin, ph) ==
    {HopSpend(coin), StoreSpend(HopLauncher(coin), ph),
     ParentOf(coin, HopCreate, {CoinId(Hop(coin)), CoinId(HopLauncher(coin))})}

(* The parent emits the one condition the launch returned, and a DID       *)
(* recreates itself beside it.                                             *)
LEMMA ParentSpends ==
    ASSUME NEW coin, NEW launch, NEW create, launch.creates = <<create>>
    PROVE  ParentSpend(coin, launch) = ParentOf(coin, create, launch.asserts)
BY ConcatOfOnes DEF ParentSpend, ParentOf, DidUpdate, Self

(* What such a parent creates.                                             *)
LEMMA ParentOutputs ==
    ASSUME NEW coin, NEW create, NEW asserts
    PROVE  Outputs(ParentOf(coin, create, asserts)) =
             {Child(coin, create)} \cup (IF IsDid(coin) THEN {Child(coin, Self(coin))} ELSE {})
<1>1. CASE IsDid(coin)
  <2>1. Outputs(CoinSpend(coin, <<Self(coin), create>>, asserts))
          = {Child(coin, Self(coin)), Child(coin, create)}
    BY TwoOutputs
  <2>2. ParentOf(coin, create, asserts) = CoinSpend(coin, <<Self(coin), create>>, asserts)
    BY <1>1 DEF ParentOf
  <2> QED BY <1>1, <2>1, <2>2
<1>2. CASE ~ IsDid(coin)
  <2>1. ParentOf(coin, create, asserts) = CoinSpend(coin, <<create>>, asserts)
    BY <1>2 DEF ParentOf
  <2> QED BY <1>2, <2>1, OneOutput
<1> QED BY <1>1, <1>2

(* The bundles of whole launches leave the chain clean.                    *)
LEMMA DirectIsClean ==
    ASSUME ChainInv, NEW coin \in unspent, NEW amount, NEW ph, NEW memo
    PROVE  IsClean(DirectBundle(coin, amount, ph, memo))
<1> DEFINE l == DirectLauncher(coin, amount)
           create == MemoedCreate(amount, ph, memo)
           store == StoreSpend(l, ph)
           parent == ParentOf(coin, create, {CoinId(l)})
           minted == CreateCoin(StorePh(l, ph), 1, NoMemos)
<1>1. coin \notin Spent /\ IsHashed(coin) /\ ~ Transient(coin)
  BY DEF ChainInv
<1>2. l \notin Spent
  <2>1. l.parent = CoinId(coin)
    BY DEF DirectLauncher, Coin
  <2> HIDE DEF l
  <2> QED BY <1>1, <2>1, Unborn
<1>3. store.coin = l /\ parent.coin = coin
  BY DEF StoreSpend, ParentOf, CoinSpend, SpendRevealing
<1>4. Child(coin, create) = l
  BY DEF Child, MemoedCreate, CreateCoin, DirectLauncher
<1>5. /\ Outputs(store) = {Child(l, minted)}
      /\ Outputs(parent) = {l} \cup (IF IsDid(coin) THEN {Child(coin, Self(coin))} ELSE {})
  BY <1>4, OneOutput, ParentOutputs DEF StoreSpend
<1>6. Child(l, minted).ph = StorePh(l, ph) /\ Child(coin, Self(coin)).ph = coin.ph
  BY DEF Child, Self, CreateCoin, Coin
<1>7. IsHashed(l) /\ IsHashed(Child(l, minted)) /\ ~ Transient(Child(l, minted))
  <2>1. l.ph = LauncherPh
    BY DEF DirectLauncher, Coin
  <2> HIDE DEF l, minted
  <2> QED BY <1>6, <2>1, Hashes DEF Transient
<1>8. IsHashed(Child(coin, Self(coin))) /\ ~ Transient(Child(coin, Self(coin)))
  BY <1>1, <1>6 DEF IsHashed, Transient, Mod
<1>9. DirectBundle(coin, amount, ph, memo) = {store, parent}
  BY DEF DirectBundle
<1> HIDE DEF l, store, parent, minted, create
<1>10. AllOutputs({store, parent}) = Outputs(store) \cup Outputs(parent)
  BY DEF AllOutputs
<1>11. {s.coin : s \in {store, parent}} = {l, coin}
  BY <1>3
<1>12. \A c \in AllOutputs({store, parent}) :
         c = l \/ c = Child(l, minted) \/ c = Child(coin, Self(coin))
  BY <1>5, <1>10
<1>13. IsClean({store, parent})
  BY <1>1, <1>2, <1>3, <1>7, <1>8, <1>11, <1>12 DEF IsClean
<1> QED BY <1>9, <1>13

(* A launch through an intermediate is clean: nothing in it is foreign to  *)
(* the chain, and its transient coins are spent in it.                     *)
LEMMA HopIsClean ==
    ASSUME ChainInv, NEW coin \in unspent, NEW ph
    PROVE  IsClean(HopBundle(coin, ph))
<1> DEFINE h == Hop(coin)
           l == HopLauncher(coin)
           hop == HopSpend(coin)
           store == StoreSpend(l, ph)
           parent == ParentOf(coin, HopCreate, {CoinId(h), CoinId(l)})
           minted == CreateCoin(StorePh(l, ph), 1, NoMemos)
<1>1. coin \notin Spent /\ IsHashed(coin) /\ ~ Transient(coin)
  BY DEF ChainInv
<1>2. /\ h.parent = CoinId(coin) /\ h.ph = HopPh
      /\ l.parent = CoinId(h) /\ l.ph = LauncherPh
  BY DEF Hop, HopLauncher, Coin
<1>3. hop.coin = h /\ store.coin = l /\ parent.coin = coin
  BY DEF HopSpend, StoreSpend, ParentOf, CoinSpend, SpendRevealing
<1>4. Child(coin, HopCreate) = h /\ Child(h, CreateCoin(LauncherPh, 1, NoMemos)) = l
  BY DEF Child, HopCreate, CreateCoin, Hop, HopLauncher, Coin
<1>5. /\ Outputs(store) = {Child(l, minted)} /\ Outputs(hop) = {l}
      /\ Outputs(parent) = {h} \cup (IF IsDid(coin) THEN {Child(coin, Self(coin))} ELSE {})
  BY <1>4, OneOutput, ParentOutputs DEF StoreSpend, HopSpend
<1>6. Child(l, minted).ph = StorePh(l, ph) /\ Child(coin, Self(coin)).ph = coin.ph
  BY DEF Child, Self, CreateCoin, Coin
<1>9. HopBundle(coin, ph) = {hop, store, parent}
  BY DEF HopBundle
<1> HIDE DEF h, l, hop, store, parent, minted
<1>7. /\ IsHashed(l) /\ IsHashed(h)
      /\ IsHashed(Child(l, minted)) /\ ~ Transient(Child(l, minted))
  BY <1>2, <1>6, Hashes DEF Transient
<1>8. IsHashed(Child(coin, Self(coin))) /\ ~ Transient(Child(coin, Self(coin)))
  BY <1>1, <1>6 DEF IsHashed, Transient, Mod
<1>10. h \notin Spent /\ l \notin Spent
  BY <1>1, <1>2, Unborn
<1>11. AllOutputs({hop, store, parent}) = Outputs(hop) \cup Outputs(store) \cup Outputs(parent)
  BY DEF AllOutputs
<1>12. {s.coin : s \in {hop, store, parent}} = {h, l, coin}
  BY <1>3
<1>13. \A c \in AllOutputs({hop, store, parent}) :
         c = l \/ c = h \/ c = Child(l, minted) \/ c = Child(coin, Self(coin))
  BY <1>5, <1>11
<1>14. IsClean({hop, store, parent})
  BY <1>1, <1>3, <1>7, <1>8, <1>10, <1>12, <1>13 DEF IsClean
<1> QED BY <1>9, <1>14

-----------------------------------------------------------------------------
(* Half a launch is refused: the staged spends want a coin the parent has  *)
(* not created, and the parent asserts spends that are not there.          *)
LEMMA NotHalf ==
    ASSUME ChainInv, NEW coin \in unspent, NEW ctx, NEW parent, NEW first \in ctx,
           parent.coin = coin, first.coin.parent = CoinId(coin),
           \A s \in ctx : Transient(s.coin), CoinId(first.coin) \in parent.asserts
    PROVE  ~ Accept(ctx) /\ ~ Accept({parent})
<1> DEFINE funder == CoinSpend(Funder(blocks + 1), <<>>, {})
<1>1. ~ Transient(coin)
  BY DEF ChainInv
<1>2. ~ Transient(funder.coin) /\ Outputs(funder) = {}
  BY DEF Transient, Mod, Outputs, CoinSpend, SpendRevealing, Funder, Coin, P2, TreeHash, Curried
<1> HIDE DEF funder
<1>3. first.coin \notin unspent
  BY DEF ChainInv
<1>4. ASSUME Accept(ctx) PROVE FALSE
  <2>1. first.coin \in unspent \cup AllOutputs(ctx \cup {funder})
    BY <1>4 DEF Accept, Valid, funder
  <2>2. PICK s \in ctx \cup {funder} : first.coin \in Outputs(s)
    BY <1>3, <2>1 DEF AllOutputs
  <2>3. s \in ctx
    BY <1>2, <2>2
  <2>4. s.coin = coin
    BY <2>2, OutputParents, CoinIdsDiffer
  <2> QED BY <1>1, <2>3, <2>4
<1>5. ASSUME Accept({parent}) PROVE FALSE
  <2>1. parent.asserts \subseteq {CoinId(t.coin) : t \in {parent, funder}}
    <3>1. {parent} \cup {funder} = {parent, funder}
      OBVIOUS
    <3> QED BY <1>5, <3>1 DEF Accept, Valid, funder
  <2>2. first.coin = coin \/ first.coin = funder.coin
    BY <2>1, CoinIdsDiffer
  <2> QED BY <1>1, <1>2, <2>2
<1> QED BY <1>4, <1>5

(* What is recorded of a launch.                                           *)
Record(coin, l, owner, classified, written) ==
    [parent |-> coin, launcherCoin |-> l, owner |-> owner,
     classified |-> classified, memosWritten |-> written]

(* A launch is whole, and one of two shapes.                               *)
LaunchesDirectly(coin, amount, owner, memo, classified) ==
    /\ Accept(DirectBundle(coin, amount, P2(owner), memo))
    /\ launches' = launches \cup
         {Record(coin, DirectLauncher(coin, amount), owner, classified, TRUE)}

LaunchesByHop(coin, owner, classified) ==
    /\ Accept(HopBundle(coin, P2(owner)))
    /\ launches' = launches \cup {Record(coin, HopLauncher(coin), owner, classified, FALSE)}

(* The launchers and the intermediate of a coin, field by field.           *)
LEMMA LauncherFields ==
    ASSUME NEW coin
    PROVE  /\ \A amount : LET l == DirectLauncher(coin, amount)
                          IN l.parent = CoinId(coin) /\ l.ph = LauncherPh /\ l.amount = amount
                               /\ Transient(l)
           /\ LET h == Hop(coin) IN h.parent = CoinId(coin) /\ h.ph = HopPh /\ h.amount = 0 /\ Transient(h)
           /\ LET l == HopLauncher(coin)
              IN l.parent = CoinId(Hop(coin)) /\ l.ph = LauncherPh /\ l.amount = 1 /\ Transient(l)
BY DEF DirectLauncher, Hop, HopLauncher, Coin, Transient, Mod, LauncherPh, LauncherPuzzle, HopPh,
       IntermediatePuzzle, TreeHash, Curried

(* The spends of a launch name their coin and their assertions.            *)
LEMMA SpendFields ==
    ASSUME NEW coin, NEW ph
    PROVE  /\ \A l : StoreSpend(l, ph).coin = l
           /\ HopSpend(coin).coin = Hop(coin)
           /\ \A create, asserts : LET p == ParentOf(coin, create, asserts)
                                   IN p.coin = coin /\ p.asserts = asserts
BY DEF StoreSpend, HopSpend, ParentOf, CoinSpend, SpendRevealing

(* mint.rs:316-383.  Whichever part of a composition is submitted, what    *)
(* confirms is a whole launch, directly or through the intermediate.       *)
LEMMA LaunchStep ==
    ASSUME ChainInv, NEW coin \in unspent, NEW route \in {"direct", "zero", "intermediate"},
           NEW kind, NEW owner, NEW part \in {"whole", "staged", "parent"},
           Launch(coin, route, kind, owner, part)
    PROVE  \/ \E amount \in {0, 1} :
                LaunchesDirectly(coin, amount, owner, LauncherHintFor(kind), SomeKind(kind))
           \/ LaunchesByHop(coin, owner, SomeKind(kind))
<1> DEFINE ph == P2(owner)
           launch == LaunchOf(coin, route, kind, ph)
           parent == ParentSpend(coin, launch)
           l == LauncherFor(coin, route).coin
<1>1. /\ launch.is = "ok"
      /\ \/ part = "whole" /\ Accept(launch.ctx \cup {parent})
         \/ part = "staged" /\ Accept(launch.ctx)
         \/ part = "parent" /\ Accept({parent})
      /\ launches' = launches \cup {Record(coin, l, owner, SomeKind(kind), launch.memosWritten)}
  <2>1. /\ launch.is = "ok"
        /\ Accept(CASE part = "whole"  -> launch.ctx \cup {parent}
                    [] part = "staged" -> launch.ctx
                    [] part = "parent" -> {parent})
        /\ launches' = launches \cup {Record(coin, l, owner, SomeKind(kind), launch.memosWritten)}
    BY DEF Launch, LaunchOf, Record
  <2> HIDE DEF launch, parent, l
  <2> QED BY <2>1
<1>2. CASE route = "direct" \/ route = "zero"
  <2>1. PICK amount \in {0, 1} : \/ route = "direct" /\ amount = 1
                                 \/ route = "zero" /\ amount = 0
    BY <1>2
  <2> DEFINE d == DirectLauncher(coin, amount)
             create == MemoedCreate(amount, ph, LauncherHintFor(kind))
             spend == ParentOf(coin, create, {CoinId(d)})
  <2>2. /\ l = d
        /\ launch.ctx = {StoreSpend(d, ph)}
        /\ launch.creates = <<HintedCreate(amount, ph, kind)>>
        /\ launch.asserts = {CoinId(d)} /\ launch.memosWritten = TRUE
    <3> HIDE DEF ph
    <3>1. LaunchOf(coin, route, kind, ph).is = "ok"
      BY <1>1
    <3>2. RouteCreates(route, amount)
      BY <2>1 DEF RouteCreates
    <3>3. IsDirect(coin, route, kind, ph, amount)
      BY ONLY <3>1, <3>2, DirectLaunch
    <3> QED BY <3>3 DEF IsDirect
  <2>3. HintedCreate(amount, ph, kind) = create
    BY DEF HintedCreate, MemoedCreate, OwnerDiscoveryMemos
  <2>4. parent = spend
    <3>1. launch.creates = <<create>>
      BY <2>2, <2>3
    <3> HIDE DEF launch, create
    <3>2. ParentSpend(coin, launch) = ParentOf(coin, create, launch.asserts)
      BY ONLY <3>1, ParentSpends
    <3> QED BY <2>2, <3>2
  <2>5. /\ StoreSpend(d, ph).coin = d /\ spend.coin = coin /\ spend.asserts = {CoinId(d)}
        /\ d.parent = CoinId(coin) /\ Transient(d)
    BY SpendFields, LauncherFields
  <2>6. launch.ctx \cup {parent} = DirectBundle(coin, amount, ph, LauncherHintFor(kind))
    BY <2>2, <2>4 DEF DirectBundle
  <2>7. ~ Accept(launch.ctx) /\ ~ Accept({parent})
    <3>1. PICK first : first = StoreSpend(d, ph)
      OBVIOUS
    <3>2. PICK ctx : ctx = {first}
      OBVIOUS
    <3> HIDE DEF d, spend
    <3>3. /\ first \in ctx /\ spend.coin = coin /\ first.coin.parent = CoinId(coin)
          /\ \A s \in ctx : Transient(s.coin)
          /\ CoinId(first.coin) \in spend.asserts
      BY <2>5, <3>1, <3>2
    <3>4. ~ Accept(ctx) /\ ~ Accept({spend})
      BY <3>3, NotHalf
    <3> QED BY <2>2, <2>4, <3>1, <3>2, <3>4
  <2>8. Accept(DirectBundle(coin, amount, ph, LauncherHintFor(kind)))
    <3> HIDE DEF launch, parent
    <3> QED BY <1>1, <2>6, <2>7
  <2>9. LaunchesDirectly(coin, amount, owner, LauncherHintFor(kind), SomeKind(kind))
    BY <1>1, <2>2, <2>8 DEF LaunchesDirectly
  <2> QED BY <2>9
<1>3. CASE route = "intermediate"
  <2> DEFINE h == Hop(coin)
             d == HopLauncher(coin)
             spend == ParentOf(coin, HopCreate, {CoinId(h), CoinId(d)})
  <2>2. /\ l = d
        /\ launch.ctx = {HopSpend(coin), StoreSpend(d, ph)}
        /\ launch.creates = <<HopCreate>>
        /\ launch.asserts = {CoinId(h), CoinId(d)} /\ launch.memosWritten = FALSE
    <3> HIDE DEF ph
    <3>1. LaunchOf(coin, "intermediate", kind, ph).is = "ok"
      BY <1>1, <1>3
    <3> QED BY <1>3, <3>1, HopLaunch
  <2>4. parent = spend
    <3> HIDE DEF launch
    <3>1. launch.creates = <<HopCreate>>
      BY <2>2
    <3>2. ParentSpend(coin, launch) = ParentOf(coin, HopCreate, launch.asserts)
      BY ONLY <3>1, ParentSpends
    <3> QED BY <2>2, <3>2
  <2>5. /\ StoreSpend(d, ph).coin = d /\ HopSpend(coin).coin = h
        /\ spend.coin = coin /\ spend.asserts = {CoinId(h), CoinId(d)}
        /\ h.parent = CoinId(coin) /\ Transient(d) /\ Transient(h)
    BY SpendFields, LauncherFields
  <2>6. launch.ctx \cup {parent} = HopBundle(coin, ph)
    BY <2>2, <2>4 DEF HopBundle
  <2>7. ~ Accept(launch.ctx) /\ ~ Accept({parent})
    <3>1. PICK first : first = HopSpend(coin)
      OBVIOUS
    <3>2. PICK ctx : ctx = {first, StoreSpend(d, ph)}
      OBVIOUS
    <3> HIDE DEF d, h, spend
    <3>3. /\ first \in ctx /\ spend.coin = coin /\ first.coin.parent = CoinId(coin)
          /\ \A s \in ctx : Transient(s.coin)
          /\ CoinId(first.coin) \in spend.asserts
      BY <2>5, <3>1, <3>2
    <3>4. ~ Accept(ctx) /\ ~ Accept({spend})
      BY <3>3, NotHalf
    <3> QED BY <2>2, <2>4, <3>1, <3>2, <3>4
  <2>8. Accept(HopBundle(coin, ph))
    <3> HIDE DEF launch, parent
    <3> QED BY <1>1, <2>6, <2>7
  <2>9. LaunchesByHop(coin, owner, SomeKind(kind))
    BY <1>1, <2>2, <2>8 DEF LaunchesByHop
  <2> QED BY <2>9
<1> QED BY <1>2, <1>3

(* Another producer's launch is a direct one whose memos it chose.         *)
LEMMA ForeignStep ==
    ASSUME NEW coin, ~ IsDid(coin), NEW owner, NEW memo, ForeignLaunch(coin, owner, memo)
    PROVE  LaunchesDirectly(coin, 1, owner, memo,
             IF memo = DATASTORE_LAUNCHER_HINT THEN SomeKind("file") ELSE NoKind)
<1> DEFINE ph == P2(owner)
           launcher == NewLauncher(CoinId(coin), 1)
           d == DirectLauncher(coin, 1)
           create == CreateCoin(LauncherPh, 1, <<DigstoreOwnerHint(ph), memo>>)
           classified == IF memo = DATASTORE_LAUNCHER_HINT THEN SomeKind("file") ELSE NoKind
<1>1. launcher.coin = d /\ launcher.singletonAmount = 1
  BY DEF NewLauncher, FromCoin, DirectLauncher, Coin
<1> HIDE DEF launcher
<1>2. LauncherSpend(launcher, ph) = StoreSpend(d, ph)
  BY <1>1 DEF LauncherSpend, StoreCoin, StoreSpend, StorePh, Coin
<1>3. CoinSpend(coin, <<create>>, {CoinId(d)}) = ParentOf(coin, MemoedCreate(1, ph, memo), {CoinId(d)})
  BY DEF ParentOf, MemoedCreate
<1>4. /\ Accept({LauncherSpend(launcher, ph), CoinSpend(coin, <<create>>, {CoinId(launcher.coin)})})
      /\ launches' = launches \cup {Record(coin, launcher.coin, owner, classified, TRUE)}
  BY DEF ForeignLaunch, Record, launcher
<1>5. Accept(DirectBundle(coin, 1, ph, memo))
  BY <1>1, <1>2, <1>3, <1>4 DEF DirectBundle
<1> QED BY <1>1, <1>4, <1>5 DEF LaunchesDirectly

-----------------------------------------------------------------------------
(* The launches.  Each was made by a spent wallet coin or DID, and its     *)
(* launcher is where its route puts it; only a launcher that its parent    *)
(* creates carries memos.                                                  *)
IsDirectOf(l) ==
    /\ l.memosWritten = TRUE
    /\ \E amount \in {0, 1} : /\ l.launcherCoin = DirectLauncher(l.parent, amount)
                              /\ IsDid(l.parent) => amount = 0

IsHopOf(l) ==
    /\ l.memosWritten = FALSE
    /\ Hop(l.parent) \in Spent
    /\ l.launcherCoin = HopLauncher(l.parent)

LaunchInv ==
    \A l \in launches :
        /\ l.parent \in Spent /\ Mod(l.parent) \in {"did", "standard"}
        /\ l.launcherCoin \in Spent
        /\ l.classified \in {SomeKind(k) : k \in StoreKinds} \cup {NoKind}
        /\ IsDirectOf(l) \/ IsHopOf(l)

(* The hints on the chain, and the launches they tell of.                  *)
Carries(create, owner) ==
    create.memos # <<>> /\ Head(create.memos) = DigstoreOwnerHint(P2(owner))

Classified(create) ==
    IF Len(create.memos) < 2 THEN NoKind ELSE FromLauncherHint(create.memos[2])

(* The i-th condition of s tells of the launch l.                          *)
Tells(s, i, l) ==
    /\ Carries(s.creates[i], l.owner)
    /\ l.launcherCoin = Created(s, i)
    /\ l.classified = Classified(s.creates[i])

ScanInv ==
    /\ \A s \in confirmed : \A i \in DOMAIN s.creates : \A owner :
         Carries(s.creates[i], owner) =>
           \E l \in launches : l.owner = owner /\ l.memosWritten /\ Tells(s, i, l)
    /\ \A l \in launches : l.memosWritten =>
         \E s \in confirmed : \E i \in (DOMAIN s.creates) \cap (1..4) : Tells(s, i, l)

(* A spend that hints at no store.                                         *)
IsQuiet(s) == \A i \in DOMAIN s.creates : \A owner : ~ Carries(s.creates[i], owner)

(* A CREATE_COIN without memos, or with the hash of a puzzle for its only  *)
(* memo, carries no owner hint.                                            *)
LEMMA QuietCreates ==
    ASSUME NEW ph, NEW amount
    PROVE  /\ \A owner : ~ Carries(CreateCoin(ph, amount, NoMemos), owner)
           /\ \A p, owner : ~ Carries(CreateCoin(ph, amount, <<TreeHash(p)>>), owner)
BY DEF Carries, CreateCoin, NoMemos, TreeHash, DigstoreOwnerHint

(* So a spend of quiet conditions is invisible to every scan.              *)
LEMMA QuietSpends ==
    ASSUME NEW coin, NEW a, NEW b, NEW asserts, \A owner : ~ Carries(a, owner), \A owner : ~ Carries(b, owner)
    PROVE  /\ IsQuiet(CoinSpend(coin, <<>>, asserts))
           /\ IsQuiet(CoinSpend(coin, <<a>>, asserts))
           /\ IsQuiet(CoinSpend(coin, <<a, b>>, asserts))
<1>1. \A c : CoinSpend(coin, c, asserts).creates = c
  BY DEF CoinSpend, SpendRevealing
<1>2. \A i \in DOMAIN <<a, b>> : <<a, b>>[i] = a \/ <<a, b>>[i] = b
  OBVIOUS
<1>3. \A i \in DOMAIN <<a>> : <<a>>[i] = a
  OBVIOUS
<1>4. DOMAIN <<>> = {}
  OBVIOUS
<1> QED BY <1>1, <1>2, <1>3, <1>4 DEF IsQuiet

(* The DID's own successor, and a hop, hint at no store.                   *)
LEMMA QuietParent ==
    ASSUME NEW coin, IsHashed(coin), NEW create, NEW asserts, \A owner : ~ Carries(create, owner)
    PROVE  IsQuiet(ParentOf(coin, create, asserts)) /\ \A owner : ~ Carries(Self(coin), owner)
<1>1. \A owner : ~ Carries(Self(coin), owner)
  <2>1. coin.ph = TreeHash(coin.ph[2])
    BY DEF IsHashed
  <2>2. PICK p : p = coin.ph[2]
    OBVIOUS
  <2>3. Self(coin) = CreateCoin(coin.ph, coin.amount, <<TreeHash(p)>>)
    BY <2>1, <2>2 DEF Self
  <2> QED BY <2>3, QuietCreates
<1>2. IsDid(coin) \in BOOLEAN
  BY DEF IsDid
<1> QED BY <1>1, <1>2, QuietSpends DEF ParentOf

(* What is confirmed stays told.                                           *)
LEMMA KeepsScan ==
    ASSUME ScanInv, confirmed \subseteq confirmed', launches \subseteq launches',
           \A s \in confirmed' \ confirmed : \A i \in DOMAIN s.creates : \A owner :
             Carries(s.creates[i], owner) =>
               \E l \in launches' : l.owner = owner /\ l.memosWritten /\ Tells(s, i, l),
           \A l \in launches' \ launches : l.memosWritten =>
             \E s \in confirmed' : \E i \in (DOMAIN s.creates) \cap (1..4) : Tells(s, i, l)
    PROVE  ScanInv'
<1>1. \A s \in confirmed' : \A i \in DOMAIN s.creates : \A owner :
         Carries(s.creates[i], owner) =>
           \E l \in launches' : l.owner = owner /\ l.memosWritten /\ Tells(s, i, l)
  BY DEF ScanInv
<1>2. \A l \in launches' : l.memosWritten =>
         \E s \in confirmed' : \E i \in (DOMAIN s.creates) \cap (1..4) : Tells(s, i, l)
  BY DEF ScanInv
<1>3. ScanInv' =
        (/\ \A s \in confirmed' : \A i \in DOMAIN s.creates : \A owner :
              Carries(s.creates[i], owner) =>
                \E l \in launches' : l.owner = owner /\ l.memosWritten /\ Tells(s, i, l)
         /\ \A l \in launches' : l.memosWritten =>
              \E s \in confirmed' : \E i \in (DOMAIN s.creates) \cap (1..4) : Tells(s, i, l))
  BY DEF ScanInv, Tells, Carries, Classified
<1> QED BY <1>1, <1>2, <1>3

(* A recorded launch stays what it was; it is enough that a new one is     *)
(* sound.                                                                  *)
LEMMA KeepsLaunches ==
    ASSUME LaunchInv, Spent \subseteq Spent', NEW new,
           launches' \subseteq launches \cup {new},
           new \in launches' =>
             /\ new.parent \in Spent' /\ Mod(new.parent) \in {"did", "standard"}
             /\ new.launcherCoin \in Spent'
             /\ new.classified \in {SomeKind(k) : k \in StoreKinds} \cup {NoKind}
             /\ \/ IsDirectOf(new)
                \/ /\ new.memosWritten = FALSE
                   /\ Hop(new.parent) \in Spent'
                   /\ new.launcherCoin = HopLauncher(new.parent)
    PROVE  LaunchInv'
BY DEF LaunchInv, IsDirectOf, IsHopOf, Mod, IsDid

-----------------------------------------------------------------------------
(* The inductive invariant.                                                *)
IInv == blocks \in 0..MaxBlocks /\ ChainInv /\ LaunchInv /\ ScanInv

(* A bundle that confirms adds its own loud spends to what scans find, and *)
(* no other.                                                               *)
LEMMA Adds ==
    ASSUME NEW bundle, Accept(bundle), blocks \in 0..MaxBlocks
    PROVE  /\ blocks' \in 0..MaxBlocks
           /\ confirmed \subseteq confirmed'
           /\ \A s \in confirmed' \ confirmed : s \in bundle \/ IsQuiet(s)
<1> DEFINE funder == CoinSpend(Funder(blocks + 1), <<>>, {})
<1>1. IsQuiet(funder)
  <2>1. \A owner : ~ Carries(HopCreate, owner)
    BY QuietCreates DEF HopCreate
  <2> QED BY <2>1, QuietSpends
<1>2. blocks' = blocks + 1 /\ blocks < MaxBlocks /\ confirmed' = confirmed \cup (bundle \cup {funder})
  BY DEF Accept
<1> HIDE DEF funder
<1>3. blocks' \in 0..MaxBlocks
  BY <1>2, MaxBlocksIsNat
<1> QED BY <1>1, <1>2, <1>3

(* A block that launches nothing.                                          *)
LEMMA QuietBlock ==
    ASSUME IInv, NEW bundle, IsClean(bundle), Accept(bundle), \A s \in bundle : IsQuiet(s),
           launches' = launches
    PROVE  IInv'
<1>1. ChainInv' /\ Spent \subseteq Spent'
  BY AcceptKeepsChain DEF IInv
<1>2. /\ blocks' \in 0..MaxBlocks /\ confirmed \subseteq confirmed'
      /\ \A s \in confirmed' \ confirmed : IsQuiet(s)
  BY Adds DEF IInv
<1>3. LaunchInv'
  <2>1. LaunchInv
    BY DEF IInv
  <2> QED BY <1>1, <2>1 DEF LaunchInv, IsDirectOf, IsHopOf, Mod, IsDid
<1>4. ScanInv'
  <2>1. ScanInv
    BY DEF IInv
  <2>2. \A s \in confirmed' \ confirmed : \A i \in DOMAIN s.creates : \A owner :
          ~ Carries(s.creates[i], owner)
    BY <1>2 DEF IsQuiet
  <2> QED BY <1>2, <2>1, <2>2, KeepsScan
<1> QED BY <1>1, <1>2, <1>3, <1>4 DEF IInv

(* One odd output: the launcher a DID creates itself has to be even.       *)
LEMMA DidLaunchesEven ==
    ASSUME NEW coin, IsDid(coin), NEW ph, NEW memo, Accept(DirectBundle(coin, 1, ph, memo))
    PROVE  FALSE
<1> DEFINE create == MemoedCreate(1, ph, memo)
           s == ParentOf(coin, create, {CoinId(DirectLauncher(coin, 1))})
<1>1. SingletonRule(s)
  BY DEF Accept, Valid, DirectBundle
<1>2. s.coin = coin /\ s.creates = <<Self(coin), create>>
  BY DEF ParentOf, CoinSpend, SpendRevealing
<1>3. Self(coin).amount = coin.amount /\ create.amount = 1
  BY DEF Self, MemoedCreate, CreateCoin
<1> HIDE DEF s, create
<1>4. /\ IsOdd(coin.amount)
      /\ Cardinality({i \in DOMAIN s.creates : IsOdd(s.creates[i].amount)}) = 1
  BY <1>1, <1>2 DEF SingletonRule, IsDid
<1>5. DOMAIN s.creates = {1, 2} /\ s.creates[1].amount = coin.amount /\ s.creates[2].amount = 1
  BY <1>2, <1>3
<1>6. IsOdd(1)
  BY DEF IsOdd
<1>7. {i \in DOMAIN s.creates : IsOdd(s.creates[i].amount)} = {1, 2}
  BY <1>4, <1>5, <1>6
<1>8. Cardinality({1, 2}) # 1
  <2>1. PICK two : two = {1, 2}
    OBVIOUS
  <2>2. IsFiniteSet(two)
    <3>1. IsFiniteSet({1}) /\ {1} \cup {2} = two
      BY <2>1, FS_Singleton
    <3> QED BY <3>1, FS_AddElement
  <2>3. ~ \E x : two = {x}
    BY <2>1
  <2> QED BY <2>1, <2>2, <2>3, FS_Singleton
<1>9. PICK odd : odd = {i \in DOMAIN s.creates : IsOdd(s.creates[i].amount)}
  OBVIOUS
<1>10. Cardinality(odd) = 1
  BY <1>4, <1>9
<1> QED BY <1>7, <1>8, <1>9, <1>10

-----------------------------------------------------------------------------
(* Launches keep the invariant.                                            *)
Funds(coin) == Mod(coin) \in {"did", "standard"}

Kinds == {SomeKind(k) : k \in StoreKinds} \cup {NoKind}

(* A direct launch, this crate's or another producer's, keeps the          *)
(* invariant.                                                              *)
LEMMA DirectKeeps ==
    ASSUME IInv, NEW coin \in unspent, Funds(coin), NEW amount \in {0, 1}, NEW owner, NEW memo,
           NEW classified \in Kinds, classified = FromLauncherHint(memo),
           LaunchesDirectly(coin, amount, owner, memo, classified)
    PROVE  IInv'
<1> DEFINE l == DirectLauncher(coin, amount)
           create == MemoedCreate(amount, P2(owner), memo)
           store == StoreSpend(l, P2(owner))
           parent == ParentOf(coin, create, {CoinId(l)})
           new == Record(coin, l, owner, classified, TRUE)
<1>1. /\ Accept({store, parent}) /\ IsClean({store, parent})
      /\ launches' = launches \cup {new}
  <2>1. DirectBundle(coin, amount, P2(owner), memo) = {store, parent}
    BY DEF DirectBundle
  <2>2. IsClean(DirectBundle(coin, amount, P2(owner), memo))
    BY DirectIsClean DEF IInv
  <2> QED BY <2>1, <2>2 DEF LaunchesDirectly
<1>2. IsDid(coin) => amount = 0
  <2>1. amount = 0 \/ amount = 1
    OBVIOUS
  <2>2. amount = 1 => Accept(DirectBundle(coin, 1, P2(owner), memo))
    BY DEF LaunchesDirectly
  <2> QED BY <2>1, <2>2, DidLaunchesEven
<1>3. /\ store.coin = l /\ parent.coin = coin
      /\ parent.creates = IF IsDid(coin) THEN <<Self(coin), create>> ELSE <<create>>
  BY SpendFields DEF ParentOf, CoinSpend, SpendRevealing
<1>4. IsQuiet(store) /\ \A o : ~ Carries(Self(coin), o)
  <2>1. \A o : ~ Carries(CreateCoin(StorePh(l, P2(owner)), 1, NoMemos), o)
    BY QuietCreates
  <2>2. IsQuiet(store)
    BY <2>1, QuietSpends DEF StoreSpend
  <2>3. IsHashed(coin) /\ \A o : ~ Carries(HopCreate, o)
    BY QuietCreates DEF HopCreate, IInv, ChainInv
  <2>4. \A o : ~ Carries(Self(coin), o)
    BY <2>3, QuietParent
  <2> QED BY <2>2, <2>4
<1>5. /\ create.ph = LauncherPh /\ create.amount = amount
      /\ create.memos = <<DigstoreOwnerHint(P2(owner)), memo>>
  BY DEF MemoedCreate, CreateCoin
<1>6. /\ new.parent = coin /\ new.launcherCoin = l /\ new.owner = owner
      /\ new.classified = classified /\ new.memosWritten = TRUE
  BY DEF Record
<1>7. l = DirectLauncher(coin, amount) /\ l = Coin(CoinId(coin), LauncherPh, amount)
  BY DEF DirectLauncher
<1> HIDE DEF l, create, store, parent, new
<1>8. Carries(create, owner) /\ Classified(create) = classified
  <2>1. Len(create.memos) = 2 /\ create.memos[2] = memo /\ create.memos # <<>>
        /\ Head(create.memos) = DigstoreOwnerHint(P2(owner))
    BY <1>5
  <2> QED BY <2>1 DEF Carries, Classified
<1>9. \A o : Carries(create, o) => o = owner
  <2>1. \A o : DigstoreOwnerHint(P2(o)) = DigstoreOwnerHint(P2(owner)) => o = owner
    BY DEF DigstoreOwnerHint, P2, TreeHash, Curried
  <2>2. Head(create.memos) = DigstoreOwnerHint(P2(owner))
    BY <1>5
  <2> QED BY <2>1, <2>2 DEF Carries
<1>10. \A i \in DOMAIN parent.creates : parent.creates[i] = Self(coin) \/ parent.creates[i] = create
  BY <1>3
<1>11. \E i \in (DOMAIN parent.creates) \cap (1..4) : parent.creates[i] = create
  <2>1. CASE IsDid(coin)
    <3>1. 2 \in (DOMAIN parent.creates) \cap (1..4) /\ parent.creates[2] = create
      BY <1>3, <2>1
    <3> QED BY <3>1
  <2>2. CASE ~ IsDid(coin)
    <3>1. 1 \in (DOMAIN parent.creates) \cap (1..4) /\ parent.creates[1] = create
      BY <1>3, <2>2
    <3> QED BY <3>1
  <2> QED BY <2>1, <2>2
<1>12. \A i \in DOMAIN parent.creates : parent.creates[i] = create => Tells(parent, i, new)
  BY <1>3, <1>5, <1>6, <1>7, <1>8 DEF Tells, Created
<1>13. /\ ChainInv' /\ Spent \subseteq Spent' /\ store \in confirmed' /\ parent \in confirmed'
  <2>1. ChainInv
    BY DEF IInv
  <2> QED BY <1>1, <2>1, AcceptKeepsChain
<1>14. /\ blocks' \in 0..MaxBlocks /\ confirmed \subseteq confirmed'
       /\ \A s \in confirmed' \ confirmed : s \in {store, parent} \/ IsQuiet(s)
  BY <1>1, Adds DEF IInv
<1>15. coin \in Spent' /\ l \in Spent'
  BY <1>3, <1>13 DEF Spent
<1>16. LaunchInv'
  <2>1. IsDirectOf(new)
    BY <1>2, <1>6, <1>7 DEF IsDirectOf
  <2> QED BY <1>1, <1>6, <1>13, <1>15, <2>1, KeepsLaunches DEF IInv, Funds, Kinds
<1>17. ScanInv'
  <2>1. \A s \in confirmed' \ confirmed : \A i \in DOMAIN s.creates : \A o :
          Carries(s.creates[i], o) =>
            \E x \in launches' : x.owner = o /\ x.memosWritten /\ Tells(s, i, x)
    <3> SUFFICES ASSUME NEW s \in confirmed' \ confirmed, NEW i \in DOMAIN s.creates, NEW o,
                        Carries(s.creates[i], o)
                 PROVE  new.owner = o /\ new.memosWritten /\ Tells(s, i, new)
      BY <1>1
    <3>1. s = parent
      BY <1>4, <1>14 DEF IsQuiet
    <3>2. parent.creates[i] = create
      BY <1>4, <1>10, <3>1
    <3> QED BY <1>6, <1>9, <1>12, <3>1, <3>2
  <2>2. \A x \in launches' \ launches : x.memosWritten =>
          \E s \in confirmed' : \E i \in (DOMAIN s.creates) \cap (1..4) : Tells(s, i, x)
    BY <1>1, <1>11, <1>12, <1>13
  <2>3. launches \subseteq launches'
    BY <1>1
  <2> QED BY <1>14, <2>1, <2>2, <2>3, KeepsScan DEF IInv
<1> QED BY <1>13, <1>14, <1>16, <1>17 DEF IInv

(* So does a launch through an intermediate.                               *)
LEMMA HopKeeps ==
    ASSUME IInv, NEW coin \in unspent, Funds(coin), NEW owner, NEW classified \in Kinds,
           LaunchesByHop(coin, owner, classified)
    PROVE  IInv'
<1> DEFINE h == Hop(coin)
           l == HopLauncher(coin)
           hop == HopSpend(coin)
           store == StoreSpend(l, P2(owner))
           parent == ParentOf(coin, HopCreate, {CoinId(h), CoinId(l)})
           new == Record(coin, l, owner, classified, FALSE)
<1>1. /\ Accept({hop, store, parent}) /\ IsClean({hop, store, parent})
      /\ launches' = launches \cup {new}
  <2>1. HopBundle(coin, P2(owner)) = {hop, store, parent}
    BY DEF HopBundle
  <2>2. IsClean(HopBundle(coin, P2(owner)))
    BY HopIsClean DEF IInv
  <2> QED BY <2>1, <2>2 DEF LaunchesByHop
<1>2. hop.coin = h /\ store.coin = l /\ parent.coin = coin
  BY SpendFields
<1>3. \A s \in {hop, store, parent} : IsQuiet(s)
  <2>1. /\ \A o : ~ Carries(CreateCoin(StorePh(l, P2(owner)), 1, NoMemos), o)
        /\ \A o : ~ Carries(CreateCoin(LauncherPh, 1, NoMemos), o)
        /\ \A o : ~ Carries(HopCreate, o)
    BY QuietCreates DEF HopCreate
  <2>2. IsQuiet(store) /\ IsQuiet(hop)
    BY <2>1, QuietSpends DEF StoreSpend, HopSpend
  <2>3. IsHashed(coin)
    BY DEF IInv, ChainInv
  <2>4. IsQuiet(parent)
    BY <2>1, <2>3, QuietParent
  <2> QED BY <2>2, <2>4
<1>6. /\ new.parent = coin /\ new.launcherCoin = l
      /\ new.classified = classified /\ new.memosWritten = FALSE
  BY DEF Record
<1>7. l = HopLauncher(coin) /\ h = Hop(coin)
  OBVIOUS
<1> HIDE DEF h, l, hop, store, parent, new
<1>13. /\ ChainInv' /\ Spent \subseteq Spent'
       /\ hop \in confirmed' /\ store \in confirmed' /\ parent \in confirmed'
  <2>1. ChainInv
    BY DEF IInv
  <2>2. hop \in {hop, store, parent} /\ store \in {hop, store, parent} /\ parent \in {hop, store, parent}
    OBVIOUS
  <2> QED BY <1>1, <2>1, <2>2, AcceptKeepsChain
<1>14. /\ blocks' \in 0..MaxBlocks /\ confirmed \subseteq confirmed'
       /\ \A s \in confirmed' \ confirmed : IsQuiet(s)
  BY <1>1, <1>3, Adds DEF IInv
<1>15. coin \in Spent' /\ l \in Spent' /\ h \in Spent'
  BY <1>2, <1>13 DEF Spent
<1>16. LaunchInv'
  BY <1>1, <1>6, <1>7, <1>13, <1>15, KeepsLaunches DEF IInv, Funds, Kinds
<1>17. ScanInv'
  <2>1. \A s \in confirmed' \ confirmed : \A i \in DOMAIN s.creates : \A o :
          ~ Carries(s.creates[i], o)
    BY <1>14 DEF IsQuiet
  <2>2. \A x \in launches' \ launches : ~ x.memosWritten
    BY <1>1, <1>6
  <2>3. launches \subseteq launches'
    BY <1>1
  <2> QED BY <1>14, <2>1, <2>2, <2>3, KeepsScan DEF IInv
<1> QED BY <1>13, <1>14, <1>16, <1>17 DEF IInv

(* So does a payment, a wallet's or a DID's.                               *)
LEMMA PaymentKeeps ==
    ASSUME IInv, NEW coin \in unspent, NEW owner, NEW amount, launches' = launches,
           Accept({ParentOf(coin, CreateCoin(P2(owner), amount, <<P2(owner)>>), {})})
    PROVE  IInv'
<1> DEFINE create == CreateCoin(P2(owner), amount, <<P2(owner)>>)
           s == ParentOf(coin, create, {})
<1>1. IsHashed(coin) /\ ~ Transient(coin) /\ coin \notin Spent
  BY DEF IInv, ChainInv
<1>2. s.coin = coin
  BY SpendFields
<1>3. \A o : ~ Carries(create, o)
  BY QuietCreates DEF P2
<1>4. IsQuiet(s)
  BY <1>1, <1>3, QuietParent
<1>5. \A c \in Outputs(s) : c = Child(coin, create) \/ c = Child(coin, Self(coin))
  BY ParentOutputs
<1>6. Child(coin, create).ph = P2(owner) /\ Child(coin, Self(coin)).ph = coin.ph
  BY DEF Child, Self, CreateCoin, Coin
<1> HIDE DEF create, s
<1>7. \A c \in Outputs(s) : IsHashed(c) /\ ~ Transient(c)
  <2>1. IsHashed(Child(coin, create)) /\ ~ Transient(Child(coin, create))
    BY <1>6, Hashes DEF Transient
  <2>2. IsHashed(Child(coin, Self(coin))) /\ ~ Transient(Child(coin, Self(coin)))
    BY <1>1, <1>6 DEF IsHashed, Transient, Mod
  <2> QED BY <1>5, <2>1, <2>2
<1>8. AllOutputs({s}) = Outputs(s)
  BY DEF AllOutputs
<1>9. IsClean({s})
  BY <1>1, <1>2, <1>7, <1>8 DEF IsClean
<1> QED BY <1>4, <1>9, QuietBlock DEF s, create

(* The invariant holds of the first chain.                                 *)
LEMMA InitInv == Init => IInv
<1> SUFFICES ASSUME Init PROVE IInv
  OBVIOUS
<1>1. confirmed = {} /\ launches = {} /\ blocks = 0
  BY DEF Init
<1>2. \A c \in unspent : IsHashed(c) /\ ~ Transient(c) /\ c.parent = Genesis
  <2>1. \A d : LET c == DidCoin(d) IN c.ph = TreeHash(DidPuzzle(d)) /\ c.parent = Genesis
    BY DEF DidCoin, Coin
  <2>2. \A o : LET c == WalletCoin(o) IN c.ph = P2(o) /\ c.parent = Genesis
    BY DEF WalletCoin, Coin
  <2>3. \A n : LET c == Funder(n) IN c.ph = P2(<<"funder", n>>) /\ c.parent = Genesis
    BY DEF Funder, Coin
  <2>4. \A c : (\E o : c.ph = P2(o)) \/ (\E d : c.ph = TreeHash(DidPuzzle(d)))
               => IsHashed(c) /\ ~ Transient(c)
    BY Hashes DEF Transient
  <2>5. \A c \in unspent : \/ \E d \in Dids : c = DidCoin(d)
                           \/ \E o \in Owners : c = WalletCoin(o)
                           \/ \E n \in 1..MaxBlocks : c = Funder(n)
    BY DEF Init
  <2> QED BY <2>1, <2>2, <2>3, <2>4, <2>5
<1>3. Spent = {} /\ AllOutputs(confirmed) = {}
  BY <1>1 DEF Spent, AllOutputs
<1>4. ChainInv
  BY <1>1, <1>2, <1>3 DEF ChainInv
<1>5. LaunchInv /\ ScanInv
  BY <1>1 DEF LaunchInv, ScanInv
<1>6. blocks \in 0..MaxBlocks
  BY <1>1, MaxBlocksIsNat
<1> QED BY <1>4, <1>5, <1>6 DEF IInv

(* Every block keeps it.                                                   *)
LEMMA NextInv == IInv /\ [Next]_vars => IInv'
<1> SUFFICES ASSUME IInv, [Next]_vars PROVE IInv'
  OBVIOUS
<1>1. \A coin \in Ordinary : coin \in unspent /\ Mod(coin) = "standard" /\ Funds(coin) /\ ~ IsDid(coin)
  BY Hashes DEF Ordinary, Funds, IsDid, Mod
<1>2. \A coin \in LiveDids : coin \in unspent /\ IsDid(coin) /\ Funds(coin)
  BY DEF LiveDids, IsDid, Funds, Mod
<1>3. ASSUME NEW did \in LiveDids, NEW owner \in Owners, NEW amount \in EvenAmounts,
             DidMakesOrdinaryCoin(did, owner, amount)
      PROVE  IInv'
  <2>1. \A create : DidUpdate(did, <<create>>, {}) = ParentOf(did, create, {})
    BY <1>2, ConcatOfOnes DEF DidUpdate, ParentOf, Self
  <2> QED BY <1>2, <1>3, <2>1, PaymentKeeps DEF DidMakesOrdinaryCoin
<1>4. ASSUME NEW coin \in Ordinary, NEW owner \in Owners, Pay(coin, owner)
      PROVE  IInv'
  <2>1. \A create : CoinSpend(coin, <<create>>, {}) = ParentOf(coin, create, {})
    BY <1>1 DEF ParentOf
  <2> QED BY <1>1, <1>4, <2>1, PaymentKeeps DEF Pay
<1>5. ASSUME NEW coin \in Ordinary \cup LiveDids, NEW route \in Routes, NEW kind \in StoreKinds,
             NEW owner \in Owners, NEW part \in Parts, Launch(coin, route, kind, owner, part)
      PROVE  IInv'
  <2>1. /\ coin \in unspent /\ Funds(coin) /\ ChainInv
        /\ route \in {"direct", "zero", "intermediate"} /\ part \in {"whole", "staged", "parent"}
    BY <1>1, <1>2, RoutesAssumption, PartsAssumption DEF IInv
  <2>2. \/ \E amount \in {0, 1} :
             LaunchesDirectly(coin, amount, owner, LauncherHintFor(kind), SomeKind(kind))
        \/ LaunchesByHop(coin, owner, SomeKind(kind))
    BY <1>5, <2>1, LaunchStep
  <2>3. SomeKind(kind) \in Kinds /\ SomeKind(kind) = FromLauncherHint(LauncherHintFor(kind))
    BY DEF Kinds, SomeKind, FromLauncherHint, LauncherHintFor, StoreKinds,
           DATASTORE_LAUNCHER_HINT, DID_PROFILE_LAUNCHER_HINT
  <2> QED BY <2>1, <2>2, <2>3, DirectKeeps, HopKeeps
<1>6. ASSUME NEW coin \in Ordinary, NEW owner \in Owners, NEW memo \in ForeignMemos,
             ForeignLaunch(coin, owner, memo)
      PROVE  IInv'
  <2> DEFINE classified == IF memo = DATASTORE_LAUNCHER_HINT THEN SomeKind("file") ELSE NoKind
  <2>1. LaunchesDirectly(coin, 1, owner, memo, classified)
    BY <1>1, <1>6, ForeignStep
  <2>2. classified \in Kinds /\ classified = FromLauncherHint(memo)
    BY ForeignAssumption DEF Kinds, FromLauncherHint, StoreKinds
  <2> HIDE DEF classified
  <2> QED BY <1>1, <2>1, <2>2, DirectKeeps
<1>7. ASSUME UNCHANGED vars PROVE IInv'
  BY <1>7 DEF vars, IInv, ChainInv, Spent, LaunchInv, IsDirectOf, IsHopOf, ScanInv, Tells, Carries,
              Classified, IsHashed, Transient, Mod
<1> QED BY <1>3, <1>4, <1>5, <1>6, <1>7 DEF Next

(* It holds of every chain that can come about.                            *)
LEMMA InvHolds == Spec => []IInv
BY InitInv, NextInv, PTL DEF Spec

(* Who creates a launcher.                                                 *)
LEMMA LauncherCreator ==
    ASSUME IInv, NEW l \in launches
    PROVE  \/ /\ IsDirectOf(l)
              /\ l.launcherCoin.parent = CoinId(l.parent)
              /\ IsDid(l.parent) => l.launcherCoin.amount = 0
           \/ /\ IsHopOf(l)
              /\ l.launcherCoin.parent = CoinId(Hop(l.parent))
<1>1. CASE IsDirectOf(l)
  <2>1. PICK amount \in {0, 1} : /\ l.launcherCoin = DirectLauncher(l.parent, amount)
                                 /\ IsDid(l.parent) => amount = 0
    BY <1>1 DEF IsDirectOf
  <2>2. l.launcherCoin.parent = CoinId(l.parent) /\ l.launcherCoin.amount = amount
    BY <2>1, LauncherFields
  <2> QED BY <1>1, <2>1, <2>2
<1>2. CASE IsHopOf(l)
  <2>1. l.launcherCoin = HopLauncher(l.parent)
    BY <1>2 DEF IsHopOf
  <2>2. l.launcherCoin.parent = CoinId(Hop(l.parent))
    BY <2>1, LauncherFields
  <2> QED BY <1>2, <2>2
<1> QED BY <1>1, <1>2 DEF IInv, LaunchInv

-----------------------------------------------------------------------------
(* mint.rs:254-257, 204-205.  For any wallets, DIDs and cuts of their      *)
(* compositions: a launcher coin that exists was spent into its store in   *)
(* the same block, so the chain never holds half a launch.                 *)
THEOREM LaunchesAreWhole == Spec => []LaunchIsAllOrNothing
<1>1. IInv => LaunchIsAllOrNothing
  BY Hashes DEF IInv, ChainInv, LaunchIsAllOrNothing, Transient, Spent
<1> QED BY <1>1, InvHolds, PTL

(* The chain's coins all come from somewhere, none is spent twice, and     *)
(* every launch recorded is of a launcher some spend created.              *)
THEOREM DiscoveryTypeCorrect == Spec => []TypeOK
<1>1. IInv => TypeOK
  <2> SUFFICES ASSUME IInv PROVE TypeOK
    OBVIOUS
  <2>1. \A l \in launches : l.launcherCoin \in AllOutputs(confirmed)
    <3> SUFFICES ASSUME NEW l \in launches PROVE l.launcherCoin \in AllOutputs(confirmed)
      OBVIOUS
    <3>1. l.launcherCoin \in Spent
      BY DEF IInv, LaunchInv
    <3>2. \E p : l.launcherCoin.parent = CoinId(p)
      BY LauncherCreator
    <3>3. l.launcherCoin.parent # Genesis
      BY <3>2, CoinIdsDiffer
    <3> QED BY <3>1, <3>3 DEF IInv, ChainInv
  <2> QED BY <2>1 DEF IInv, ChainInv, LaunchInv, TypeOK, Spent
<1> QED BY <1>1, InvHolds, PTL

-----------------------------------------------------------------------------
(* hint.rs:3-16, 29-34; mint.rs:281-291.  For any owners, DIDs and foreign *)
(* producers: an owner's hint finds exactly the launchers of the stores    *)
(* launched for that owner with their memos written, each of the kind it   *)
(* was launched as.                                                        *)
THEOREM ScansFindLaunches == Spec => []ScanMatchesLaunches
<1>1. IInv => ScanMatchesLaunches
  <2> SUFFICES ASSUME IInv, NEW owner \in Owners
               PROVE {<<r.coin, ClassifiedBy(r)>> : r \in ScanByOwner(owner)} =
                     {<<l.launcherCoin, l.classified>> :
                        l \in {x \in launches : x.owner = owner /\ x.memosWritten}}
    BY DEF ScanMatchesLaunches
  <2> DEFINE row(s, i) == [coin |-> Created(s, i), memos |-> s.creates[i].memos]
             told == {x \in launches : x.owner = owner /\ x.memosWritten}
  <2>1. \A s, i : row(s, i).coin = Created(s, i) /\ ClassifiedBy(row(s, i)) = Classified(s.creates[i])
    BY DEF ClassifiedBy, Classified
  <2>2. \A r \in ScanByOwner(owner) : \E s \in confirmed : \E i \in DOMAIN s.creates :
          r = row(s, i) /\ Carries(s.creates[i], owner)
    BY DEF ScanByOwner, HintedBy, Carries
  <2>3. \A s \in confirmed : \A i \in (DOMAIN s.creates) \cap (1..4) :
          Carries(s.creates[i], owner) => row(s, i) \in ScanByOwner(owner)
    <3> SUFFICES ASSUME NEW s \in confirmed, NEW i \in (DOMAIN s.creates) \cap (1..4),
                        Carries(s.creates[i], owner)
                 PROVE  row(s, i) \in ScanByOwner(owner)
      OBVIOUS
    <3>1. PICK e : e = <<s, i>>
      OBVIOUS
    <3>2. e \in confirmed \X (1..4) /\ e[1] = s /\ e[2] = i
      BY <3>1
    <3>3. e \in HintedBy(DigstoreOwnerHint(P2(owner)))
      BY <3>2 DEF HintedBy, Carries
    <3> QED BY <3>2, <3>3 DEF ScanByOwner
  <2>4. \A r \in ScanByOwner(owner) : \E l \in told :
          r.coin = l.launcherCoin /\ ClassifiedBy(r) = l.classified
    <3> SUFFICES ASSUME NEW r \in ScanByOwner(owner)
                 PROVE  \E l \in told : r.coin = l.launcherCoin /\ ClassifiedBy(r) = l.classified
      OBVIOUS
    <3>1. PICK s \in confirmed : \E i \in DOMAIN s.creates :
            r = row(s, i) /\ Carries(s.creates[i], owner)
      BY <2>2
    <3>2. PICK i \in DOMAIN s.creates : r = row(s, i) /\ Carries(s.creates[i], owner)
      BY <3>1
    <3>3. PICK l \in told : Tells(s, i, l)
      BY <3>2 DEF IInv, ScanInv
    <3> QED BY <2>1, <3>2, <3>3 DEF Tells
  <2>5. \A l \in told : \E r \in ScanByOwner(owner) :
          r.coin = l.launcherCoin /\ ClassifiedBy(r) = l.classified
    <3> SUFFICES ASSUME NEW l \in told
                 PROVE  \E r \in ScanByOwner(owner) : r.coin = l.launcherCoin /\ ClassifiedBy(r) = l.classified
      OBVIOUS
    <3>1. PICK s \in confirmed : \E i \in (DOMAIN s.creates) \cap (1..4) : Tells(s, i, l)
      BY DEF IInv, ScanInv
    <3>2. PICK i \in (DOMAIN s.creates) \cap (1..4) : Tells(s, i, l)
      BY <3>1
    <3>3. row(s, i) \in ScanByOwner(owner)
      BY <2>3, <3>2 DEF Tells
    <3> QED BY <2>1, <3>2, <3>3 DEF Tells
  <2> HIDE DEF row, told
  <2>6. {<<r.coin, ClassifiedBy(r)>> : r \in ScanByOwner(owner)}
          = {<<l.launcherCoin, l.classified>> : l \in told}
    BY <2>4, <2>5
  <2> QED BY <2>6 DEF told
<1> QED BY <1>1, InvHolds, PTL

-----------------------------------------------------------------------------
(* The walk.                                                               *)
SpendOf(c) == [coin |-> c, reveal |-> c.ph[2], solution |-> "valid"]

(* A faithful source answers with the spend of the coin asked for, and the *)
(* walk takes it for bound.                                                *)
LEMMA ReadsSpend ==
    ASSUME IInv, NEW c \in Spent
    PROVE  CoinSpendOf(CoinId(c)) = Found(SpendOf(c)) /\ IsBound(Found(SpendOf(c)), CoinId(c))
<1>1. PICK s \in confirmed : s.coin = c
  BY DEF Spent
<1>2. PICK t : t = CHOOSE s1 \in confirmed : CoinId(s1.coin) = CoinId(c)
  OBVIOUS
<1>3. t \in confirmed /\ CoinId(t.coin) = CoinId(c)
  BY <1>1, <1>2
<1>4. t.coin = c
  BY <1>3, CoinIdsDiffer
<1>5. CoinSpendOf(CoinId(c)) = Found([coin |-> t.coin, reveal |-> t.coin.ph[2], solution |-> "valid"])
  BY <1>1, <1>2 DEF CoinSpendOf
<1> QED BY <1>4, <1>5 DEF SpendOf, IsBound, Found

(* What the walk makes of each coin it may meet.                           *)
LEMMA ReadsAs ==
    ASSUME NEW c, IsHashed(c)
    PROVE  DidRefFromSpend(SpendOf(c)) =
             IF Mod(c) = "did" THEN OkSome(c.ph[2].args[1]) ELSE OkNone
<1>1. SpendOf(c).coin = c /\ SpendOf(c).reveal = c.ph[2] /\ SpendOf(c).solution = "valid"
  BY DEF SpendOf
<1>2. c.ph[2] # GarbagePuzzle /\ c.ph[2].mod # "bad_singleton" /\ TreeHash(c.ph[2]) = c.ph
  BY DEF IsHashed, Mod, Mods, GarbagePuzzle, Curried
<1> QED BY <1>1, <1>2 DEF DidRefFromSpend, Mod

(* read.rs:73-105.  Of the spends  on the chain those of DIDs are          *)
(* recognised, each as its own DID, and no other.                          *)
LEMMA Recognises ==
    ASSUME IInv, NEW c \in Spent
    PROVE  Recognised(CoinSpendOf(CoinId(c)), CoinId(c)) =
             IF Mod(c) = "did" THEN OkSome(c.ph[2].args[1]) ELSE OkNone
<1>1. IsHashed(c)
  BY DEF IInv, ChainInv
<1>2. Found(SpendOf(c))[2] = SpendOf(c)
  BY DEF Found
<1> QED BY <1>1, <1>2, ReadsSpend, ReadsAs DEF Recognised

(* To name a DID is not to name none.                                      *)
LEMMA Outcomes == \A did : OkSome(did) # OkNone
BY DEF OkSome, OkNone

(* read.rs:248-283.  The walk climbs past the intermediate of the launcher *)
(* at hand, and past no coin that is none.                                 *)
LEMMA Hops ==
    ASSUME NEW c, NEW l
    PROVE  /\ l = HopLauncher(c) => IsLauncherIntermediate(SpendOf(Hop(c)), l)
           /\ Mod(c) # "nft_intermediate" => ~ IsLauncherIntermediate(SpendOf(c), l)
<1>1. \A x : SpendOf(x).coin = x /\ SpendOf(x).reveal = x.ph[2]
  BY DEF SpendOf
<1>2. Mod(c) # "nft_intermediate" => ~ IsLauncherIntermediate(SpendOf(c), l)
  BY <1>1 DEF IsLauncherIntermediate, Mod
<1>3. PICK h : h = Hop(c)
  OBVIOUS
<1>4. h.amount = 0 /\ h.ph = HopPh
  BY <1>3, LauncherFields
<1>5. /\ h.ph[2].mod = "nft_intermediate" /\ h.ph[2].args[1] = LauncherPh
      /\ TreeHash(h.ph[2]) = h.ph /\ h.ph[2] # GarbagePuzzle
  BY <1>4 DEF HopPh, IntermediatePuzzle, TreeHash, Curried, GarbagePuzzle
<1>6. HopLauncher(c) = Coin(CoinId(h), LauncherPh, 1)
  BY <1>3 DEF HopLauncher
<1>7. l = HopLauncher(c) => IsLauncherIntermediate(SpendOf(h), l)
  BY <1>1, <1>4, <1>5, <1>6 DEF IsLauncherIntermediate
<1> QED BY <1>2, <1>3, <1>7

(* read.rs:163-203.  What the walk answers for a store that was launched.  *)
LEMMA WalkOfLaunch ==
    ASSUME IInv, NEW l \in launches
    PROVE  ResolveOwnerDid(StoreIdOf(l)) =
             IF IsDid(l.parent) THEN OkSome(l.parent.ph[2].args[1]) ELSE OkNone
<1> DEFINE c == l.launcherCoin
           p == l.parent
           launcher == CoinSpendOf(CoinId(c))
           creatorId == launcher[2].coin.parent
           creator == CoinSpendOf(creatorId)
           singletonId == creator[2].coin.parent
<1>1. c \in Spent /\ p \in Spent /\ Mod(p) \in {"did", "standard"}
  BY DEF IInv, LaunchInv
<1>2. IsBound(launcher, CoinId(c)) /\ creatorId = c.parent
  <2>1. launcher = Found(SpendOf(c)) /\ IsBound(launcher, CoinId(c))
    BY <1>1, ReadsSpend
  <2>2. launcher[2].coin = c
    BY <2>1 DEF Found, SpendOf
  <2> QED BY <2>1, <2>2
<1>3. launcher[2].coin = c
  <2>1. launcher = Found(SpendOf(c))
    BY <1>1, ReadsSpend
  <2> QED BY <2>1 DEF Found, SpendOf
<1>4. ResolveOwnerDid(StoreIdOf(l)) =
        IF ~ IsBound(launcher, CoinId(c)) THEN UnboundOutcome(launcher)
        ELSE IF Recognised(creator, creatorId) # OkNone \/ ~ IsBound(creator, creatorId)
          THEN Recognised(creator, creatorId)
        ELSE IF IsLauncherIntermediate(creator[2], launcher[2].coin)
          THEN Recognised(CoinSpendOf(singletonId), singletonId)
        ELSE OkNone
  BY DEF ResolveOwnerDid, StoreIdOf
<1>5. ASSUME NEW x \in Spent
      PROVE  LET a == CoinSpendOf(CoinId(x))
             IN /\ IsBound(a, CoinId(x)) /\ a[2] = SpendOf(x) /\ a[2].coin = x
                /\ Recognised(a, CoinId(x)) = IF Mod(x) = "did" THEN OkSome(x.ph[2].args[1]) ELSE OkNone
  <2>1. CoinSpendOf(CoinId(x)) = Found(SpendOf(x)) /\ IsBound(Found(SpendOf(x)), CoinId(x))
    BY ReadsSpend
  <2>2. Recognised(CoinSpendOf(CoinId(x)), CoinId(x))
          = IF Mod(x) = "did" THEN OkSome(x.ph[2].args[1]) ELSE OkNone
    BY Recognises
  <2>3. Found(SpendOf(x))[2] = SpendOf(x) /\ SpendOf(x).coin = x
    BY DEF Found, SpendOf
  <2> QED BY <2>1, <2>2, <2>3
<1>6. IsDid(p) <=> Mod(p) = "did"
  BY DEF IsDid, Mod
<1> HIDE DEF c, p, launcher
<1>7. CASE IsDirectOf(l)
  <2>1. creatorId = CoinId(p)
    <3>1. l.memosWritten = TRUE
      BY <1>7 DEF IsDirectOf
    <3>2. ~ IsHopOf(l)
      BY <3>1 DEF IsHopOf
    <3> QED BY <1>2, <3>2, LauncherCreator DEF c, p
  <2> HIDE DEF creatorId
  <2>2. /\ IsBound(creator, creatorId) /\ creator[2] = SpendOf(p)
        /\ Recognised(creator, creatorId) = IF Mod(p) = "did" THEN OkSome(p.ph[2].args[1]) ELSE OkNone
    BY <1>1, <1>5, <2>1
  <2>3. Mod(p) # "did" => ~ IsLauncherIntermediate(creator[2], launcher[2].coin)
    BY <1>1, <2>2, Hops
  <2> QED BY <1>2, <1>4, <1>6, <2>2, <2>3, Outcomes DEF p
<1>8. CASE IsHopOf(l)
  <2>1. creatorId = CoinId(Hop(p)) /\ Hop(p) \in Spent /\ c = HopLauncher(p)
    BY <1>2, <1>8, LauncherFields DEF IsHopOf, c, p
  <2>2. PICK h : h = Hop(p)
    OBVIOUS
  <2>3. Mod(h) = "nft_intermediate" /\ h.parent = CoinId(p)
    BY <2>2, LauncherFields, Hashes DEF Hop
  <2> HIDE DEF creatorId
  <2>4. /\ IsBound(creator, creatorId) /\ creator[2] = SpendOf(h) /\ creator[2].coin = h
        /\ Recognised(creator, creatorId) = OkNone
    BY <1>5, <2>1, <2>2, <2>3
  <2>5. IsLauncherIntermediate(creator[2], launcher[2].coin)
    BY <1>3, <2>1, <2>2, <2>4, Hops
  <2>6. singletonId = CoinId(p)
    BY <2>3, <2>4
  <2> HIDE DEF singletonId
  <2>7. Recognised(CoinSpendOf(singletonId), singletonId)
          = IF Mod(p) = "did" THEN OkSome(p.ph[2].args[1]) ELSE OkNone
    BY <1>1, <1>5, <2>6
  <2> QED BY <1>2, <1>4, <1>6, <2>4, <2>5, <2>7 DEF p
<1> QED BY <1>7, <1>8 DEF IInv, LaunchInv

(* read.rs:107-134, 238-245.  For any chain built of these launches and    *)
(* payments: the walk names the DID whose own spend launched the store,    *)
(* directly or through the intermediate, and no other.                     *)
THEOREM WalksNameLaunchers == Spec => []WalkNamesTheLauncher
<1>1. IInv => WalkNamesTheLauncher
  BY WalkOfLaunch DEF WalkNamesTheLauncher
<1> QED BY <1>1, InvHolds, PTL

(* mint.rs:299-307.  The only launch that a scan of its memos finds and    *)
(* the walk attributes is that of a 0-mojo launcher a DID emits itself.    *)
THEOREM OnlyZeroLaunchersAreBoth == Spec => []BothOnlyByZeroLauncher
<1>1. IInv => BothOnlyByZeroLauncher
  <2> SUFFICES ASSUME IInv, NEW l \in launches, NEW r \in ScanByOwner(l.owner),
                      r.coin = l.launcherCoin, ResolveOwnerDid(StoreIdOf(l)) # OkNone
               PROVE  IsDid(l.parent) /\ l.launcherCoin.amount = 0
    BY DEF BothOnlyByZeroLauncher
  <2>1. IsDid(l.parent)
    BY WalkOfLaunch
  <2>2. PICK s \in confirmed : \E i \in DOMAIN s.creates :
          r.coin = Created(s, i) /\ Carries(s.creates[i], l.owner)
    <3>1. PICK e \in HintedBy(DigstoreOwnerHint(P2(l.owner))) : r.coin = Created(e[1], e[2])
      BY DEF ScanByOwner
    <3>2. e[1] \in confirmed /\ e[2] \in DOMAIN e[1].creates /\ Carries(e[1].creates[e[2]], l.owner)
      BY DEF HintedBy, Carries
    <3> QED BY <3>1, <3>2
  <2>3. PICK i \in DOMAIN s.creates : r.coin = Created(s, i) /\ Carries(s.creates[i], l.owner)
    BY <2>2
  <2>4. PICK m \in launches : m.memosWritten /\ Tells(s, i, m)
    BY <2>3 DEF IInv, ScanInv
  <2>5. IsDirectOf(m) /\ m.launcherCoin.parent = CoinId(m.parent) /\ m.launcherCoin = l.launcherCoin
    <3>1. ~ IsHopOf(m)
      BY <2>4 DEF IsHopOf
    <3> QED BY <2>3, <2>4, <3>1, LauncherCreator DEF Tells
  <2>6. ASSUME IsHopOf(l), l.launcherCoin.parent = CoinId(Hop(l.parent)) PROVE FALSE
    <3>1. m.parent = Hop(l.parent)
      BY <2>5, <2>6, CoinIdsDiffer
    <3>2. Mod(m.parent) = "nft_intermediate"
      BY <3>1, LauncherFields, Hashes
    <3>3. Mod(m.parent) \in {"did", "standard"}
      BY DEF IInv, LaunchInv
    <3> QED BY <3>2, <3>3
  <2>7. l.launcherCoin.amount = 0
    BY <2>1, <2>6, LauncherCreator
  <2> QED BY <2>1, <2>7
<1> QED BY <1>1, InvHolds, PTL
=============================================================================
