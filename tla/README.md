# A TLA+ verification of dig-merkle

dig-merkle builds, unsigned, the coin spends of a CHIP-0035 DataLayer store on
the Chia chain: it launches a store, updates its anchored root, melts it, reads
a store back from the spend that made it, and finds the DID that authorized a
store's launch. It holds no key, does no I/O and keeps no state between calls.

So its correctness is not in any one call. It is in what happens when calls are
composed into one bundle, repeated, made from values that are stale, fed by a
chain source that is wrong or hostile, and finally judged by a chain whose rules
the crate does not evaluate. Most mistakes there look like a success: an `Ok`
whose bundle the chain rejects much later, or a store that can never be spent.
That is what the modules model: the crate's calls as the code makes them, the
callers that compose them, and the chain that accepts or refuses the result.

Line numbers are those of `src/<file>` in the crate.

## Inventory

| Part | State it keeps | Operations | Meets |
|---|---|---|---|
| `mint.rs` launch builder | none; stages spends in the caller's `SpendContext` | `mint_datastore_launch_with_kind` and its guards `assert_launcher_is_legal`, `assert_minted_singleton_amount_is_odd`, `assert_launch_reaches_the_launcher`, and `override_launcher_hint` | the caller's context, other launches in it, the SDK's `Launcher` |
| `mint.rs` mint wrapper | a context of its own, dropped on return | `mint_datastore`, `mint_datastore_with_kind` | the launch builder, `context.rs` |
| `update.rs` | none | `update_root` | the caller's `Datastore`, fresh or stale |
| `melt.rs` | none | `melt`, `gate_owner_controls_store` | as above |
| `hydrate.rs` | none | `hydrate`, `require_reveal_matches_coin` | spends a chain source returns |
| `lineage.rs` | none | `child_lineage_proof` | the caller's next spend |
| `read.rs` | the walk: store id, launcher coin, creator coin | `resolve_owner_did`, `did_ref_from_spend` | a `ChainSource`, one round trip per read |
| `metadata.rs`, `size.rs` | the alist on chain | `to_clvm`, `from_clvm`, `SizeBucket` | SDK software and unknown software on the same store |
| `hint.rs` | none | `launcher_hint_for`, `digstore_owner_hint`, `from_launcher_hint` | the launch builder; scans of the chain by hint |
| `context.rs`, `types.rs` | none | `inner_spend`, `drain_coin_spends`, `Owner`, `MerkleCoinSpend` | every builder |
| `sign.rs` | none | `required_signatures` | the bundles of every builder, the holder of the key, the network |
| `error.rs`, `lib.rs` | none | names; `delegation`, `oracle`, `fee` are empty | |
| `.github`, `scripts` | none | build and release checks | |

The parts interact by values. The caller's `SpendContext` and its launch
conditions are shared by all launches of a bundle. A `Datastore` goes from
`mint`, `update_root` or `hydrate` into the next `update_root`, `melt` or
`child_lineage_proof`. The chain is shared by everyone.

What is hard, and what makes each part correct:

- **Launches composed in one context.** A call in the middle is refused and the
  caller goes on; two launches differ only in a number; a singleton parent may
  create one odd coin only; an intermediate coin is missing; a store of even
  amount is accepted and frozen forever. Correct: what is returned `Ok` is what
  the chain launches, spendable and with its own memos, and a refusal leaves
  nothing behind.
- **Mints.** `fee + 1` at the width of `u64`, coins worth less than asked,
  retries of a mint that may still confirm. Correct: a mint that is returned
  confirms with the one signature reported for it, nothing confirms that was not
  signed as it is, for this network, and exactly the fees are lost.
- **Finding a store again.** A launch has one of several shapes; some carry the
  memos a scan by owner looks for, some the lineage a walk follows, and the
  caller chooses without being told. Correct: the scan and the walk each find
  exactly the stores their shape promises, and no launch is half on the chain.
- **One store, several clients.** Stale stores, spends chained onto coins that
  are not confirmed, ownership changing hands in between, oracle spends that
  change nothing but the coin, recreations by other software with or without
  memos. Correct: what a client holds is what the coin
  commits to, its next spend is accepted, an update changes metadata only and
  replaces exactly the state its author saw, and only the owner is handed a
  melt, which cannot be undone.
- **The owner walk.** Three reads with blocks confirming in between, by a source
  that fails, withholds, substitutes or forges. Correct: a faithful source gives
  the answer one atomic look would give; one that fails or lags gives that, an
  error or no DID, and keeps no call waiting; no source can choose the answer.
- **Metadata on the wire.** Duplicate and unknown keys, a size of zero, sizes
  that could be written two ways, software that knows only some of the keys.

PROJECT.json lists the hazards line by line, with the properties that cover
them, or the reason none does.

## Modules

| Module | Stands for |
|---|---|
| `ChiaCoins` | coins, coin ids and tree hashes, as free constructors: two are equal exactly when their contents are, so a hash commits to its preimage |
| `DidRecognition` | pure: the checks of `read.rs` - bound spends, the intermediate launcher, the DID read out of a spend |
| `LineageLedger` | the growing chain, as far as a lineage walk sees it (external) |
| `OwnerQuery` | abstract: one atomic look at the lineage of a store |
| `OwnerWalk` | `read.rs`; one action per read of `resolve_owner_did` |
| `OwnerWalkProofs` | theorems about `OwnerWalk`, and that it refines `OwnerQuery` |
| `SpendBundle` | when the chain accepts a bundle (external) |
| `StoreHints` | pure: `hint.rs`, what is written and how it is classified |
| `LaunchBuilder` | pure: `mint_datastore_launch_with_kind` and its helpers |
| `LaunchSession` | a caller that composes launches, then drains and submits |
| `SumProofs` | what a sum over a set of coins or spends computes |
| `LaunchBuilderProofs` | lemmas about `LaunchBuilder` and the balance of a bundle |
| `LaunchProofs` | theorems about `LaunchSession` |
| `Discovery` | launches from wallets and DIDs in every shape, and how each store is found: by `hint.rs` or by `read.rs` |
| `DiscoveryProofs` | theorems about `Discovery` |
| `MintWallet` | `mint_datastore_with_kind` and `sign.rs`, by a wallet that retries, reuses change and signs |
| `MintProofs` | theorems about `MintWallet` |
| `StoreCoins` | pure: `hydrate.rs`, `lineage.rs`, the SDK's `Datastore` |
| `StoreLifecycle` | `update.rs` and `melt.rs` with several clients on one store |
| `StoreRegister` | abstract: the compare-and-swap register a store is to the clients that share it |
| `StoreProofs` | theorems about `StoreLifecycle`, and that it refines `StoreRegister` |
| `StoreMetadata` | `metadata.rs` and `size.rs` on one store written by three kinds of software |
| `MetadataProofs` | theorems about `StoreMetadata` |
| `MC...` | the small instances for TLC |

`OwnerWalk` composes `LineageLedger` and `DidRecognition` and refines
`OwnerQuery`. `LaunchSession` and `MintWallet` compose `LaunchBuilder`, which
uses `StoreHints`, and `SpendBundle`. `Discovery` composes all of these:
`LaunchBuilder` puts stores on a chain of bundles, `StoreHints` and
`DidRecognition` find them. `StoreLifecycle` composes `StoreCoins` with the
chain's rules for a store coin and refines `StoreRegister`.

A definition whose comment says *Mutant* is a plausible bug in the code. No
specification uses it; it is there to show that a property can fail.

### Owner walk (`read.rs`)

`pc` is the read about to be made; `launcherCoin` and `creatorCoin` are the
locals of `resolve_owner_did`; `outcome` is its result. `ReadLauncher`,
`ReadCreator` and `ReadSingleton` are the three `read_bound_spend` calls with
everything that follows each. `Grow` may happen between any two of them. What a
source answers is chosen from `Answers`, which `Faults` widens from the one
honest answer to any coin beside any reveal and any solution. `lies` is a
history variable: no action's guard reads it. It tells apart another coin
("coin"), a reveal the coin does not commit to ("reveal"), a spend that is there
and was denied ("withheld"), and any other answer that is not the chain's
("faulty"), a failed read included. `OwnerQuery` knows it as `faltered`.

`IsLauncherIntermediate` looks at amount, puzzle and arguments, and runs nothing,
as the code does. A solution is "valid", "malformed" (it parses as CLVM and the
DID parser raises) or "garbage" (no CLVM).

### Launches (`mint.rs`)

`ctx` is the caller's `SpendContext` as the set of spends staged in it; `emitted`
and `asserted` are the conditions its parent is to emit; `launches` is what the
caller remembers of the calls that returned `Ok`. `Launch` is one call, whole:
`LaunchWithKind` takes the guards in the code's order and returns the context
each exit leaves behind. `LauncherOf` covers the ways to obtain a `Launcher`:
directly, through an intermediate, `from_coin` on conditions that do or do not
create the coin, at another puzzle hash, and threaded on the conditions gathered
so far. `Submit` asks `Valid` of the whole bundle.

The caller keeps the documented contract: one context, one drain, conditions
emitted as returned. It does not launch one coin twice, does not submit a bundle
with an intermediate of its own that leads nowhere, and brings a coin that pays.

**Late refusals.** `assert_launch_reaches_the_launcher` runs after the SDK has
staged the launcher's spend. After that refusal the context holds a spend
whose coin nothing creates, and any bundle drained from it is rejected. The
model's caller therefore starts over after an unreachable refusal (`StartOver`),
and goes on in the same context only after an illegal one. This is an assumption
about callers, and the crate's documentation does not state it; see
`launch_late_refusal`.

A launcher of amount 0 made by a DID directly, minting a 1-mojo singleton, is
both scannable by its memos and resolvable by the walk, although `mint.rs:299-300`
and `SPEC.md:218-219` say a launch must choose. `Discovery` states it the exact
way: `BothOnlyByZeroLauncher`, that shape and no other.

### Discovery (`mint.rs`, `hint.rs`, `read.rs`)

`chain` grows by whole bundles. `Launch` builds one with `LaunchWithKind`, from a
wallet's coin, an even coin a DID made, or the DID itself, through each launcher
shape, and submits all of it or the pieces a context drained too early would
give: the parent's spend without the launch, or the launch without it.
`DidMakesOrdinaryCoin` lets a DID fund an ordinary coin, `Pay` sends an ordinary coin with the owner's hint, and
`ForeignLaunch` is another producer's launch, with hints of its own. `HintedBy`
is what a scan by hint returns, `ClassifiedBy` what `from_launcher_hint` makes of
it, `ResolveOwnerDid` the walk as one faithful look (`OwnerWalk` shows that the
three reads amount to that).

### Mints and signatures (`mint.rs`, `context.rs`, `sign.rs`)

`Mint` is one call of `mint_datastore_with_kind` on a coin of the wallet, spent
already or not, for either owner argument. `Confirm` lets the chain take any
built bundle at any time. Amounts have the width `U64Max`, 7 in the runs: what
is compared and added is the fee, 1 and the coin's amount, so the width matters
only at `fee + 1` and `amount - reserved`, and both ends are among the values.

A bundle is built unsigned. `Sign` is the key's holder signing what
`RequiredSignatures` reports for a built bundle and a network, at any time and
perhaps for the wrong network. Signatures stay around: `Confirm` may use any that
were ever made, and asks, spend by spend, for what the puzzles demand
(`Authorized`). The demands (`AggSigs`, `Message`) are one definition on both sides:
what can differ between what is reported and what the chain asks is which keys and
how many, the coin and the network. A signature is its key and its message, and a message of
`AGG_SIG_ME` is what the spend's conditions are, the coin and the network.

### One store (`update.rs`, `melt.rs`, `hydrate.rs`, `lineage.rs`)

`tip` is the unspent store coin; `chain` the confirmed spends; `built` the spends
clients have built; `held` the `Datastore` each client has. `ClientUpdates` is
`update_root`, after which the client stays with what it has, goes on with the
child that was returned, or goes on with a child whose proof
`child_lineage_proof` derived. `ClientHydrates` takes any spend its source may
return. `Confirm` lets any built spend through that the chain accepts.
`OthersWrite`, `OthersRead`, `OthersGrant` and `OthersTransfer` are other
software: a writer or the owner anchors metadata, anyone spends the store as it
is through an oracle, the owner changes the delegation set or hands the store
on, with full, truncated or no memos. A store is launched with `FirstAmount`
mojos, and its recreations have one.

`Register` maps this onto `StoreRegister`: the token is the tip's coin id, the
content what the tip commits to, an offer a built spend with what its author
held (`seen`) and the key it was built for. `author` says who spent last; it is a
history variable. That an offer takes effect only on the content its author saw
is not by construction: the coin id is checked by the chain, but that the held
`Datastore` tells the truth about that coin is the work of `hydrate`,
`update_root` and `child_lineage_proof`.

`FromSpend` is the SDK's `Datastore::from_spend`, which is not in this
repository. It is taken from what the crate says of it: without memos the owner
is re-derived from the parent's puzzle (`update.rs:173-181`), a delegation set
comes from the caller's argument, a missing successor and a missing memo are
errors of their own (`hydrate.rs:75-79`), an oracle named without its fee is a
missing memo and an empty fee memo a zero fee (`hydrate.rs:296-451`).
`CommittedInfo` reads the truth back
out of a coin's puzzle hash; only properties and the chain use it.

Metadata here is one value, replaced whole (`update.rs:6-9`); what is in it is
the business of `StoreMetadata`.

### Metadata (`metadata.rs`, `size.rs`)

`anchored` is the alist on chain. DIG clients make metadata up or read, change the
root and write back; SDK clients write items of their own with or without `"b"`;
other software writes anything. `ToClvm` and `FromClvm` treat every item as the
code does: order, omission when absent, last duplicate wins, unknown keys
skipped, one bad value fails all. Whether a value is text, a 32-byte hash or a
short atom is what the constructors tell apart; only a size is given byte by byte.

## Runs

Passing runs:

| Run | Asks | Bounds |
|---|---|---|
| `owner_lagging` | Does a walk over a growing chain implement one look at it, which a read that fails or lags may spoil but not change (`AnswersAsOneLook`), never err unless a read failed (`HonestSourceIsNeverAnError`), and always return (`EveryCallReturns`)? | one DID, 4 confirmed spends, any read may fail or be denied a spend that is there |
| `owner_hostile` | Can a source choose the DID (`SourceCannotChooseTheDid`), name one that authorized nothing (`OnlyTheAuthorizingDid`), or have a forgery taken for "no DID" (`SubstitutionIsNotNone`), and is it accused when it only lagged (`HonestSourceIsNeverAnError`)? | two DIDs, 2 spends, four invented coins, every reveal and solution |
| `launch_session` | Is what is accepted launched (`SuccessIsLaunched`), spendable (`NoFrozenStore`) and labelled as its own (`MemosBelongToTheLaunch`), with illegal calls leaving no trace (`RefusalIsAtomic`)? | 3 calls, ten shapes, both parents, two owners, two kinds |
| `discovery` | Do the memo scan (`ScanMatchesLaunches`) and the walk (`WalkNamesTheLauncher`) find exactly the stores they promise, which shape is found by both (`BothOnlyByZeroLauncher`), and is a launch ever half on the chain (`LaunchIsAllOrNothing`)? | two DIDs, two owners, 3 blocks, every route and shape |
| `mint_wallet` | Is every mint launchable with the one signature reported for it (`BuiltMintIsLaunchable`), does nothing confirm that was not signed (`OnlySignedMintsConfirm`), and are only fees lost (`OnlyFeesAreLost`)? | 2 mints, four coins, four fees, two networks |
| `store_clients` | Do updates keep identity under races and stale stores (`UpdatePreservesIdentity`), does a spend take effect only on the state its author saw (`ClientsCompareAndSwap`), and is a melt the owner's alone (`MeltIsForTheOwner`)? | two clients, 2 built, 2 confirmed after the launch, transfers and oracle spends |
| `store_hydration` | Is what is held what the coin commits to (`HeldStoreMatchesItsCoin`), and is a spend from an unspent store accepted (`FreshStoreIsSpendable`)? | one client, 2 built, 2 confirmed, a store of three mojos, plain or with a writer and an oracle, foreign and mixed-up spends |
| `store_metadata` | Does DIG read what it wrote (`DigReadsWhatItWrote`), do others (`DigStoreIsAnSdkStore`), is the size right (`SizeIsTight`) and canonical (`SizeIsCanonical`)? | up to two foreign items of 13; lengths at both sides of the ladder's ends and first steps |

Why the bounds are enough. A walk looks at three coins, so a lineage of DID,
intermediate and launcher takes three confirmed spends, and the fourth is one
spend that interferes. The hostile run needs fewer confirmed spends because its
source invents the rest of a lineage. A launch looks at the context and the
conditions earlier calls left: the third call sees an accepted one and a refused
one before it. A store's spend depends on the coin before it and the proof on
the one before that: two confirmed spends after the launch give a grandparent
that is no launcher; two built ones give a chained pair or a race. A launched store can
be looked for after one block; the second is a second launch or a payment beside
it, the third lets a DID that moved on launch again. Two mints are a retry, a
mint funded by the other's change, or two that differ in a fee, each signed for
either network. Metadata has
no memory beyond the alist, and two items are a duplicate or a neighbour.

Runs that show where the code and its documentation part ways (each line is
quoted in PROJECT.json):

| Run | Shows |
|---|---|
| `launch_threaded_memos` | `override_launcher_hint` recognises a launcher by the coin its condition would create *if the launcher's parent emitted it*. With an intermediate, somebody else emits the conditions, and a sibling store's launcher is restamped. |
| `launch_orphan` | The reachability guard accepts any condition with the launcher's hash and amount, so a sibling's launcher makes an unlaunchable launch a success. |
| `launch_late_refusal` | A refusal by the reachability guard is not atomic. |
| `store_unhinted_transfer` | After a transfer without memos `hydrate` answers with the previous owner, and the new owner's `update_root` recreates the store for the previous one. |

The passing store runs have only memos that are complete or cut off
(`OtherMemos`): `HeldStoreMatchesItsCoin`, `UpdatePreservesIdentity` and
`MeltIsForTheOwner` say nothing there of memos that are missing. What that leaves
out is the store finding and the first of the disagreements below. A melt built
from a stale store is not judged by `MeltIsForTheOwner` but by
`ClientsCompareAndSwap`: it never takes effect.

Five more disagreements were met while modelling and have no run of their own:

- A delegate's recreation of a delegation layer *without* memos hydrates `Ok` with
  the delegation set gone, where `hydrate.rs:61-62` promises `MissingHint`.
- A launch can be scannable and resolvable at once (see Launches, above), where
  the docs say it must choose.
- `resolve_owner_did` never compares the *launcher's* reveal with its coin,
  though `read.rs:157-158` promises an error for any reveal that does not
  match. Nothing is read from that reveal, so `owner_hostile`, whose source
  forges it too, shows the answers stay sound.
- A parent coin worth less than `fee + 1` mints `Ok`, confirms, and pays what is
  left in place of the fee that was asked (`mint.rs:186-195`). `Burns` in
  `MintWallet` says how much.
- For a store without delegates `update_root` takes any key; the child it
  returns for a stranger names an owner its coin does not commit to, although
  `update.rs:5-6` says the owner carries forward. Such a spend cannot confirm.
  The model's clients go on with a child only when they are the owner.

`CHECK_DEADLOCK FALSE` stands where the system stops: a session that was
submitted, a wallet out of calls, a store out of bounded spends.

**Fairness.** Only `owner_lagging` assumes any: `WF_vars(Read)`, and only for
`EveryCallReturns` and the fairness of `OwnerQuery`. `resolve_owner_did` is a
synchronous function without loops: once called, it goes on as long as its
source answers, be it with an error or with nothing. Nothing makes the chain grow
or a caller call. That calls end is not checked against a source that forges.

## Proofs

`tlapm` checks these for all values of the constants: any number of DIDs,
clients, keys, coins, calls and blocks, where the runs have two or three. Every
safety property a passing run checks is among them.

Each module of proofs has one inductive invariant (`IInv`, but for the walk and
the size, where two are kept apart), proved of `Init` and of every action, and
each theorem then says that the invariant implies the property. Where the
property is not inductive the invariant says what the code relies on without
checking it.

**Owner walk** (`OwnerWalkProofs`).

- `WalkTypeCorrect`: `[]TypeOK`.
- `SourceCannotChoose`: `[]SourceCannotChooseTheDid`, for any chain, inventions
  and faults. That a read is about the right coin was settled one or two reads
  earlier: `WalkInv` says that from the second read on the launcher coin is the
  one the store id hashes, and from the third the creator is a 0-mojo
  intermediate that could only have created that launcher.
- `NamesOnlyTheAuthorizingDid`: `[]OnlyTheAuthorizingDid`. `ChainInv` (every coin
  but the first has a confirmed creator, every confirmed spend reveals what its
  coin commits to) turns a commitment of a coin that exists into confirmed spends.
- `LiesAreErrors`: `[]SubstitutionIsNotNone`. A walk that
  goes on has been told no lie that the property counts: each ends it at once. A
  forged reveal of the launcher's own spend is not counted (see above).
- `HonestSourceIsNeverAccused`: `[]HonestSourceIsNeverAnError`, for any source: what a
  confirmed spend revealed runs and hashes to its coin (`SpentInv`, `ChainInv`), so
  no right answer ends in an error.
- `WalkIsOneLook`, `ASSUME "forge" \notin Faults`: `Spec => Query!QuerySafety`, the
  safety part of `AnswersAsOneLook`. The look is taken at the first read, so no later
  block may change the answer: `FollowInv` says that the coins the walk has climbed
  to exist and that no read has gone wrong before the call ends, `AnswerInv` that the
  one look would answer what the store id commits to, which no block changes.

**Launches** (`LaunchBuilderProofs`, `LaunchProofs`). The first has lemmas about
`mint_datastore_launch_with_kind` and the chain's balance rule that sessions,
mints and discovery share.

- `TypeCorrect`: `[]TypeOK`. `IllegalRefusalIsAtomic`: `RefusalIsAtomic`; the second
  odd-amount check, made after the mint has staged a spend, never fires.
  `NothingFreezes`: `[]NoFrozenStore`; no spend staged or drained creates a store
  of even amount.
- `MemosAreTheLaunchsOwn`: `[]MemosBelongToTheLaunch`, and `AcceptedIsLaunched`:
  `[]SuccessIsLaunched`. The invariant (`SessionInv`) accounts for the session:
  what is staged are the spends of the launches that returned `Ok` and of
  intermediates (`SpendsInv`), each launch has a launcher of its own
  (`LaunchesInv`) and exactly one emitted condition, with its memos, that leads
  there (`EmittedInv`), what is made is paid for but for the stores (`MoneyInv`),
  and the drain took everything (`DrainedInv`). `DrainedIsValid` derives from it
  that `Valid` holds of the drained bundle exactly when no launch was taken
  directly from a singleton parent: distinct outputs, no missing announcement, the singleton
  rule, and a sum over the bundle that balances.
  The invariant is suspended after an unreachable refusal, when the caller starts
  over.
  Both theorems `ASSUME ThreadedForms \subseteq {"direct"}`, the form
  `mint.rs:1464-1486` tests. The hypothesis is where the code stops keeping the promise:
  `launch_threaded_memos` and `launch_orphan` break these properties with one
  form more.

**Mints** (`SumProofs`, `MintProofs`).

- `SumAdds`: what the community modules' `MapThenSumSet` computes over a finite set grows by
  the weight of an added element, whatever element its recursion picks first.
  The library's induction takes operators and cannot be used; the induction is
  done with a least set for which the claim fails.
- `MintTypeCorrect`: `[]WalletTypeOK`. `MintsConfirmAsSigned`: `[]OnlySignedMintsConfirm`;
  the message of a signature names the launcher, the fee and the change, so it is
  a signature of one bundle. `MintsLoseOnlyFees`: `[]OnlyFeesAreLost`, for any set
  of coins; every coin of the invariant has a spent parent or none (`CoinInv`), so
  what a mint creates was not there before and adds to the total.
  `BuiltMintsLaunch`: `[]BuiltMintIsLaunchable`.

**Discovery** (`DiscoveryProofs`). `DiscoveryTypeCorrect`, `LaunchesAreWhole`,
`ScansFindLaunches`, `WalksNameLaunchers`, `OnlyZeroLaunchersAreBoth`, for the five
properties of the run. Every bundle is a launch, direct or through one
intermediate, or carries no owner hint (`LaunchStep`). `ChainInv`: every coin
descends from a confirmed spend, and transient coins are spent in the bundle that
made them, so half a launch is none. `LaunchInv`: of each launch its parent's
spend and its launcher's are confirmed. `ScanInv`: the conditions that carry an
owner hint are those of launches with memos, one each.

**Stores** (`StoreProofs`).

- `StoreTypeCorrect`, `HoldsWhatItsCoinCommitsTo`, `FreshStoresAreSpendable`,
  `OnlyTheOwnerMelts`, `UpdatesPreserveIdentity` for `TypeOK`,
  `HeldStoreMatchesItsCoin`, `FreshStoreIsSpendable`, `MeltIsForTheOwner` and
  `UpdatePreservesIdentity`. At their centre is `SoundStore`: a held `Datastore`
  tells what its coin's puzzle hash commits to and proves the coin's parent. That
  a puzzle hash commits to one content only (`StorePhIsInjective`) makes the
  chain's check of the reveal enough.
- `StoreIsARegister`: `Spec => ClientsCompareAndSwap`, the whole refinement of
  `StoreRegister`, step by step under the mapping.

  All `ASSUME OthersHint`, that other software hints its recreations, whole or cut
  off; `store_unhinted_transfer` shows what happens without. Two also `ASSUME
  StandardKeys`: a client that passes `Owner::Custom` is refused.

**Metadata** (`MetadataProofs`). `DigRoundTrips`: `[]DigReadsWhatItWrote`.
`DigStoresAreSdkStores`: `[]DigStoreIsAnSdkStore`. `SizesHaveOneEncoding`:
`[]SizeIsCanonical`. `SizesAreTight`: `[]SizeIsTight`, for every length. `IInv` says
that what is anchored is an alist of CLVM values, and what DIG last wrote is
metadata, written by `ToClvm`; `SizeInv` that its size is tight for the file that
was measured, which survives a re-anchoring because of the round trip.

**What they rest on.** The assumptions the modules state of their constants, which
TLC evaluates on every run: types and bounds; amounts of parents and of the first store
that are odd; coins a model starts with that are older than everything in it
(`FundingIsOld`); a caller that brings what its stores cost (`FunderPaysForAll`); first
infos and foreign spends that are what their names say (`FirstInfosAreOfThisStore`,
`ForeignSpendsAreForeign`: what a source mixes in are ordinary spends, melts, and
recreations whose memos tell the truth when they are whole); other producers that
launch no store of this crate's second kind (`ForeignAssumption`); alists of CLVM
values (`ForeignItemsAreAlists`). And the free constructors of `ChiaCoins`: no two
different contents have one hash.

**Only model-checked.** Liveness is out of this prover's reach: `EveryCallReturns`, and the
fairness of `OwnerQuery` within `AnswersAsOneLook`. The four runs that expect a
violation have nothing to prove.

## Not modelled

- `error.rs`, `lib.rs`: names; the variants that wrap an SDK failure on CLVM it
  cannot read or run (`Parse`, `Driver`, `Signer`) and those no code returns.
  `delegation`, `oracle` and `fee` are empty modules.
- CLVM: puzzles are constructors with arguments and are never run. Reveals that
  cannot be parsed are one value (`GarbagePuzzle`) in the walk and left out of
  hydration.
- A forged *solution* beside a genuine reveal in `hydrate`: a coin commits to no
  solution, and the crate asks for a trusted source.
- Signatures outside the mint wallet: in `StoreLifecycle` a spend is valid with the
  key whose puzzle it reveals. The cryptography of signatures nowhere.
- Admin delegates: what they may do to a delegation set is done by the owner.
- Build and release tooling.

## Plan

Written, in the order of what matters most: the owner walk and its refinement;
composed launches; mints; the store's lifecycle and the register it refines;
metadata; launches and both ways of finding a store composed; signatures; and
the proofs of every safety property the passing runs check. Next:

1. Proofs: weaker hypotheses where the code allows them - what remains true of
   a session that threads an intermediate or an orphan, and of a store whose
   transfers are not hinted.
2. Larger models: a second intermediate, a chain that reorganises between reads.
