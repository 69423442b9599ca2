--------------------------- MODULE LaunchSession ---------------------------
(***************************************************************************)
(* A caller composing launches (mint.rs, DatastoreLaunch): it makes any    *)
(* number of calls of mint_datastore_launch_with_kind into one spend       *)
(* context, carrying on after a refusal, has its parent coin emit what the *)
(* calls returned, drains the context once and submits the bundle.         *)
(*                                                                         *)
(* The caller keeps to the documented contract: one context, one drain,    *)
(* the returned parent conditions emitted as they are.  It does not launch *)
(* one launcher coin twice, and brings a funder coin that pays for all.    *)
(***************************************************************************)
EXTENDS LaunchBuilder

CONSTANTS
    ParentPuzzles,  \* what the parent may be: an ordinary coin or a singleton
    ParentAmount,   \* an odd number of mojos
    Owners, Kinds,
    Shapes,         \* the launchers the caller builds, as records
                    \* [form, amount, singleton, number]
    ThreadedForms,  \* the forms it may also build with Launcher::from_coin on
                    \* the conditions gathered so far
    FunderAmount,   \* the mojos the caller brings to pay for its stores
    MaxCalls        \* bound: the launches of one session

ASSUME MaxCallsIsNat == MaxCalls \in Nat
ASSUME ParentIsAPuzzle ==
    \A p \in ParentPuzzles : p.mod \in {"standard", "did", "datastore"}

Forms == {"direct", "bare", "foreign", "intermediate", "orphan"}

ASSUME ParentIsOdd == ParentAmount \in Nat /\ IsOdd(ParentAmount)
ASSUME ShapesAreTyped ==
    \A s \in Shapes : /\ DOMAIN s = {"form", "amount", "singleton", "number"}
                      /\ s.form \in Forms /\ s.amount \in Nat /\ s.singleton \in Nat

VARIABLES
    parent,     \* the coin that will emit the parent conditions
    ctx,        \* the spends staged in the caller's SpendContext
    emitted,    \* the CREATE_COINs the parent is to emit
    asserted,   \* the spends whose announcements it is to assert
    launches,   \* the launches that returned Ok, as the caller remembers them
    calls,      \* launches called so far
    result,     \* what the last one returned
    phase,      \* "compose", "drained", "confirmed" or "rejected"
    bundle      \* what was drained

vars == <<parent, ctx, emitted, asserted, launches, calls, result, phase, bundle>>

Parents == {Coin(Genesis, TreeHash(p), ParentAmount) : p \in ParentPuzzles}

Funder == Coin(Genesis, TreeHash(OrdinaryPuzzle), FunderAmount)

(* The caller brings enough, in a coin that is not the parent: the funder  *)
(* pays for every store of a session.                                      *)
ASSUME FunderPaysForAll ==
    /\ FunderAmount \in Nat /\ Funder \notin Parents
    /\ \E most \in 0..FunderAmount :
          /\ MaxCalls * most <= FunderAmount
          /\ \A s \in Shapes : s.singleton <= most

IsSingleton(coin) == coin.ph[2].mod \in {"did", "datastore"}

Init ==
    /\ parent \in Parents
    /\ ctx = {} /\ emitted = <<>> /\ asserted = {} /\ launches = {}
    /\ calls = 0 /\ result = "none" /\ phase = "compose" /\ bundle = {}
-----------------------------------------------------------------------------
(* The launcher a caller hands over.  "direct": Launcher::new.  "bare":    *)
(* from_coin whose conditions do not create the coin.  "foreign": not at   *)
(* the launcher puzzle hash.  "intermediate": IntermediateLauncher::create,*)
(* already staged.  "orphan": its launcher coin, without the condition     *)
(* that creates the intermediate.                                          *)
LauncherOf(shape) ==
    LET id == CoinId(parent)
        intermediate == IntermediateLauncher(id, shape.number)
        built ==
          CASE shape.form = "direct"       -> NewLauncher(id, shape.amount)
            [] shape.form = "bare"         -> FromCoin(Coin(id, LauncherPh, shape.amount), <<>>, {})
            [] shape.form = "foreign"      ->
                 FromCoin(Coin(id, TreeHash(OrdinaryPuzzle), shape.amount), <<>>, {})
            [] shape.form = "intermediate" -> intermediate
            [] shape.form = "orphan"       -> FromCoin(intermediate.coin, <<>>, {})
    IN WithSingletonAmount(built, shape.singleton)

(* Launcher::from_coin on the conditions gathered so far.                  *)
Threaded(launcher) ==
    WithSingletonAmount(
        FromCoin(launcher.coin, emitted \o launcher.creates, asserted \cup launcher.asserts),
        launcher.singletonAmount)

NeedsIntermediate(shape) == shape.form \in {"intermediate", "orphan"}

(* The caller stages an intermediate: IntermediateLauncher::create(ctx).   *)
StageIntermediate(number) ==
    LET spend == IntermediateSpend(CoinId(parent), number)
    IN /\ phase = "compose" /\ calls < MaxCalls
       /\ spend \notin ctx
       /\ ctx' = ctx \cup {spend}
       /\ UNCHANGED <<parent, emitted, asserted, launches, calls, result, phase, bundle>>

(* One call of mint_datastore_launch_with_kind.                            *)
Launch(shape, threaded, owner, kind) ==
    LET launcher == IF threaded THEN Threaded(LauncherOf(shape)) ELSE LauncherOf(shape)
        returned == LaunchWithKind(ctx, kind, launcher, owner)
    IN /\ phase = "compose" /\ calls < MaxCalls /\ result # "unreachable"
       /\ threaded => shape.form \in ThreadedForms
       /\ NeedsIntermediate(shape) =>
            IntermediateSpend(CoinId(parent), shape.number) \in ctx
       /\ \A l \in launches : l.launcherCoin # launcher.coin
       /\ ctx' = returned.ctx
       /\ calls' = calls + 1
       /\ result' = returned.is
       /\ IF returned.is = "ok"
            THEN /\ emitted' = IF threaded THEN returned.creates
                               ELSE emitted \o returned.creates
                 /\ asserted' = asserted \cup returned.asserts
                 /\ launches' = launches \cup
                      {[launcherCoin |-> launcher.coin, owner |-> owner, kind |-> kind,
                        datastore |-> returned.datastore,
                        memosWritten |-> returned.memosWritten]}
            ELSE UNCHANGED <<emitted, asserted, launches>>
       /\ UNCHANGED <<parent, phase, bundle>>

(* The spend of the parent: what the launches returned and, for a          *)
(* singleton, its own successor.                                           *)
ParentSpend ==
    CoinSpend(parent,
              IF IsSingleton(parent)
                THEN Append(emitted, CreateCoin(parent.ph, parent.amount, NoMemos))
                ELSE emitted,
              asserted)

(* Every intermediate the caller staged led to a launch it was given.      *)
NothingStranded ==
    \A s \in ctx : s.coin.ph # LauncherPh =>
        \E l \in launches : l.launcherCoin.parent = CoinId(s.coin)

(* Mutant: the drain copies the spends and leaves them staged.             *)
SpendParentAndCopy ==
    /\ phase = "compose" /\ launches # {}
    /\ result # "unreachable" /\ NothingStranded
    /\ bundle' = ctx \cup {ParentSpend, CoinSpend(Funder, <<>>, {})}
    /\ phase' = "drained"
    /\ UNCHANGED <<parent, ctx, emitted, asserted, launches, calls, result>>

(* A caller whose launch was found unreachable cannot use this context any *)
(* more (README, "late refusals") and starts over in a new one.            *)
SpendParentAndDrain ==
    /\ phase = "compose" /\ launches # {}
    /\ result # "unreachable" /\ NothingStranded
    /\ bundle' = ctx \cup {ParentSpend, CoinSpend(Funder, <<>>, {})}
    /\ ctx' = {} /\ phase' = "drained"
    /\ UNCHANGED <<parent, emitted, asserted, launches, calls, result>>

StartOver ==
    /\ phase = "compose" /\ result = "unreachable"
    /\ ctx' = {} /\ emitted' = <<>> /\ asserted' = {} /\ launches' = {}
    /\ result' = "none"
    /\ UNCHANGED <<parent, calls, phase, bundle>>

Submit ==
    /\ phase = "drained"
    /\ phase' = IF Valid(bundle, {parent, Funder}) THEN "confirmed" ELSE "rejected"
    /\ UNCHANGED <<parent, ctx, emitted, asserted, launches, calls, result, bundle>>

Next ==
    \/ \E shape \in Shapes : NeedsIntermediate(shape) /\ StageIntermediate(shape.number)
    \/ \E shape \in Shapes, threaded \in BOOLEAN, owner \in Owners, kind \in Kinds :
         Launch(shape, threaded, owner, kind)
    \/ SpendParentAndDrain
    \/ StartOver
    \/ Submit

Spec == Init /\ [][Next]_vars
-----------------------------------------------------------------------------
(* The CREATE_COINs the parent may come to emit for its launches.          *)
EmittedHashes ==
    {LauncherPh} \cup {IntermediateCoin(CoinId(parent), s.number).ph : s \in Shapes}

MemoLists ==
    {NoMemos} \cup {OwnerDiscoveryMemos(k[1], k[2]) : k \in Owners \X Kinds}

CreateCoins == [ph : EmittedHashes, amount : Nat, memos : MemoLists]

(* The session's variables have their types; the context is empty once it  *)
(* has been drained, and not before a launch has been returned.            *)
TypeOK ==
    /\ parent \in Parents
    /\ emitted \in Seq(CreateCoins)
    /\ calls \in 0..MaxCalls
    /\ result \in {"none", "ok", "illegal", "unreachable"}
    /\ phase \in {"compose", "drained", "confirmed", "rejected"}
    /\ phase # "compose" => ctx = {} /\ bundle # {} /\ launches # {}

(* mint.rs:265-274, 410-445.  No session leaves a store on chain that its  *)
(* owner can never spend again, although the chain would accept one.       *)
NoFrozenStore ==
    phase = "confirmed" =>
        \A coin \in AllOutputs(bundle) : coin.ph[2].mod = "datastore" => IsOdd(coin.amount)

(* mint.rs:249-262, 309-314.  A bundle of accepted launches is confirmed,  *)
(* and with it every store a call returned, unless a singleton parent was  *)
(* asked to create an odd launcher itself; then it is rejected.  Refusals  *)
(* along the way change nothing about that.                                *)
SuccessIsLaunched ==
    LET directFromSingleton ==
          /\ IsSingleton(parent)
          /\ \E l \in launches :
                l.launcherCoin.parent = CoinId(parent) /\ IsOdd(l.launcherCoin.amount)
    IN /\ phase = "rejected" => directFromSingleton
       /\ phase = "confirmed" =>
            /\ ~ directFromSingleton
            /\ \A l \in launches : l.datastore \in AllOutputs(bundle)

(* Every CREATE_COIN in the bundle that makes this launcher coin.          *)
LauncherConditions(launcherCoin) ==
    UNION {{s.creates[i] : i \in {j \in DOMAIN s.creates : Created(s, j) = launcherCoin}}
           : s \in bundle}

(* mint.rs:221-233, 546-562.  Of several launches in one bundle, each      *)
(* store's launcher carries its own owner's and kind's memos exactly when  *)
(* the call that launched it said so, and no others.                       *)
MemosBelongToTheLaunch ==
    phase # "compose" =>
        \A l \in launches : \A cc \in LauncherConditions(l.launcherCoin) :
            cc.memos = IF l.memosWritten THEN OwnerDiscoveryMemos(l.owner, l.kind)
                       ELSE NoMemos

(* mint.rs:1527-1544, for launchers refused as illegal.  A refused call    *)
(* leaves the caller's context as it was.                                  *)
RefusalIsAtomic ==
    [][calls' # calls /\ result' = "illegal" => UNCHANGED ctx]_vars

(* mint.rs:1528, a test's comment: "a REFUSED launch stages nothing into   *)
(* the caller's SpendContext" - for every refusal, the reachability        *)
(* guard's included.                                                       *)
RefusedLaunchStagesNothing ==
    [][calls' # calls /\ result' # "ok" => UNCHANGED ctx]_vars

(* mint.rs:309-314: "neither an unlaunchable bundle nor one that launches  *)
(* a permanently frozen store can be returned as a success": with an       *)
(* ordinary parent, every accepted launch is launched.                     *)
NoUnlaunchableSuccess ==
    ~ IsSingleton(parent) => phase # "rejected"
=============================================================================
