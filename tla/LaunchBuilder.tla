--------------------------- MODULE LaunchBuilder ---------------------------
(***************************************************************************)
(* mint.rs: what mint_datastore_launch_with_kind computes from the caller's*)
(* spend context and Launcher.  A context is the set of spends staged in   *)
(* it; a Launcher is the coin it will spend, the base conditions its       *)
(* parent must emit, and the amount of the singleton it mints.             *)
(***************************************************************************)
EXTENDS SpendBundle, StoreHints

-----------------------------------------------------------------------------
(* chia-wallet-sdk, as mint.rs uses it.                                    *)

(* Launcher::from_coin: the launcher coin and caller-supplied conditions.  *)
FromCoin(coin, creates, asserts) ==
    [coin |-> coin, creates |-> creates, asserts |-> asserts,
     singletonAmount |-> coin.amount]

(* Launcher::new: the parent creates the launcher coin itself.             *)
NewLauncher(parentId, amount) ==
    FromCoin(Coin(parentId, LauncherPh, amount),
             <<CreateCoin(LauncherPh, amount, NoMemos)>>, {})

WithSingletonAmount(launcher, amount) ==
    [launcher EXCEPT !.singletonAmount = amount]

(* IntermediateLauncher::new(parent, number, total): its coin, at 0 mojos. *)
IntermediateCoin(parentId, number) ==
    Coin(parentId, TreeHash(IntermediatePuzzle(LauncherPh, number)), 0)

(* .create(ctx): stage the intermediate's spend; the parent is left to     *)
(* create the intermediate, not the launcher.                              *)
IntermediateSpend(parentId, number) ==
    CoinSpend(IntermediateCoin(parentId, number),
              <<CreateCoin(LauncherPh, 1, NoMemos)>>, {})

IntermediateLauncher(parentId, number) ==
    LET coin == IntermediateCoin(parentId, number)
    IN FromCoin(Coin(CoinId(coin), LauncherPh, 1),
                <<CreateCoin(coin.ph, 0, NoMemos)>>, {CoinId(coin)})

(* The store singleton a launcher mints.                                   *)
StoreCoin(launcher, owner) ==
    Coin(CoinId(launcher.coin),
         TreeHash(Curried("datastore", <<CoinId(launcher.coin), owner>>)),
         launcher.singletonAmount)

(* Launcher::mint_datastore stages the launcher's spend and asserts its    *)
(* announcement in the conditions it returns.                              *)
LauncherSpend(launcher, owner) ==
    LET store == StoreCoin(launcher, owner)
    IN CoinSpend(launcher.coin, <<CreateCoin(store.ph, store.amount, NoMemos)>>, {})
-----------------------------------------------------------------------------
(* Mutant: both checks are left out.                                       *)
MintedAmountIsAny(amount) == amount > 0

(* assert_minted_singleton_amount_is_odd                                   *)
MintedAmountIsOdd(amount) == IsOdd(amount)

(* Mutant: the odd-amount check is left to the one after the mint.         *)
LauncherIsLegalByPuzzle(launcher) == launcher.coin.ph = LauncherPh

(* assert_launcher_is_legal                                                *)
LauncherIsLegal(launcher) ==
    /\ launcher.coin.ph = LauncherPh
    /\ MintedAmountIsOdd(launcher.singletonAmount)

(* creates_coin: by puzzle hash and amount only.                           *)
CreatesCoin(creates, ph, amount) ==
    \E i \in DOMAIN creates : creates[i].ph = ph /\ creates[i].amount = amount

(* Mutant: any condition to the launcher puzzle hash is taken for ours.    *)
IsAnyLauncher(create, launcherCoin) == create.ph = launcherCoin.ph

(* override_launcher_hint, is_this_launcher: the coin this condition WOULD *)
(* create if the launcher's parent emitted it.                             *)
IsThisLauncher(create, launcherCoin) ==
    CoinId(Coin(launcherCoin.parent, create.ph, create.amount)) = CoinId(launcherCoin)

(* override_launcher_hint: the conditions, and launcher_memos_written.     *)
OverrideLauncherHint(creates, launcherCoin, owner, kind) ==
    [creates |-> [i \in DOMAIN creates |->
                    IF IsThisLauncher(creates[i], launcherCoin)
                      THEN [creates[i] EXCEPT !.memos = OwnerDiscoveryMemos(owner, kind)]
                      ELSE creates[i]],
     written |-> \E i \in DOMAIN creates : IsThisLauncher(creates[i], launcherCoin)]

(* staged_spend_of                                                         *)
StagedSpendOf(ctx, id) == {s \in ctx : CoinId(s.coin) = id}

(* spend_creates: by full coin id.                                         *)
SpendCreates(spend, expected) ==
    \E c \in Outputs(spend) : CoinId(c) = CoinId(expected)

(* Mutant: a staged intermediate is enough, whatever the parent emits.     *)
ReachesTheLauncherIfStaged(ctx, creates, launcherCoin) ==
    \/ CreatesCoin(creates, launcherCoin.ph, launcherCoin.amount)
    \/ \E intermediate \in StagedSpendOf(ctx, launcherCoin.parent) :
          SpendCreates(intermediate, launcherCoin)

(* assert_launch_reaches_the_launcher: directly, or through a staged       *)
(* intermediate that the conditions create.                                *)
ReachesTheLauncher(ctx, creates, launcherCoin) ==
    \/ CreatesCoin(creates, launcherCoin.ph, launcherCoin.amount)
    \/ \E intermediate \in StagedSpendOf(ctx, launcherCoin.parent) :
          /\ CreatesCoin(creates, intermediate.coin.ph, intermediate.coin.amount)
          /\ SpendCreates(intermediate, launcherCoin)

(* Mutant: only CREATE_COIN conditions survive the rewrite.                *)
ParentAssertsNone(launcher) == {}

(* The announcements the parent conditions assert: those of the base       *)
(* conditions, which the rewrite copies, and the launcher's own.           *)
ParentAsserts(launcher) == launcher.asserts \cup {CoinId(launcher.coin)}

(* mint_datastore_launch_with_kind, in the order the code takes: what it   *)
(* returns and the context it leaves behind.                               *)
LaunchWithKind(ctx, kind, launcher, owner) ==
    LET refused(why, left) == [is |-> why, ctx |-> left]
        staged == ctx \cup {LauncherSpend(launcher, owner)}
        hinted == OverrideLauncherHint(launcher.creates, launcher.coin, owner, kind)
    IN IF ~ LauncherIsLegal(launcher) THEN refused("illegal", ctx)
       ELSE IF ~ MintedAmountIsOdd(StoreCoin(launcher, owner).amount)
         THEN refused("illegal", staged)
       ELSE IF ~ ReachesTheLauncher(staged, hinted.creates, launcher.coin)
         THEN refused("unreachable", staged)
       ELSE [is |-> "ok", ctx |-> staged,
             creates |-> hinted.creates,
             asserts |-> ParentAsserts(launcher),
             datastore |-> StoreCoin(launcher, owner),
             memosWritten |-> hinted.written]
=============================================================================
