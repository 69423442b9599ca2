----------------------------- MODULE OwnerWalk -----------------------------
(***************************************************************************)
(* read.rs: the owner-DID lineage walk, run by a caller against a          *)
(* ChainSource it does not trust while the chain grows underneath it.      *)
(*                                                                         *)
(* resolve_owner_did makes up to three reads, each a network round trip    *)
(* inside the source, so every read is a step of its own.  Faults says     *)
(* what the source may do wrong: fail a read ("error"), answer that it has *)
(* no such spend when it does ("withhold"), or answer with any coin spend  *)
(* at all ("forge").                                                       *)
(***************************************************************************)
EXTENDS LineageLedger, DidRecognition

CONSTANTS
    Faults,         \* subset of {"error", "withhold", "forge"}
    Fabricated      \* coins a forging source invents; on no chain

ASSUME FaultsAssumption == Faults \subseteq {"error", "withhold", "forge"}

VARIABLES
    pc,             \* the read the walk is about to make
    storeId,        \* the store_id argument
    launcherCoin,   \* launcher_spend.coin, once read
    creatorCoin,    \* creator_spend.coin, once climbed past
    outcome,        \* what the last call returned
    lies            \* history: what the source got wrong during this call,
                    \* subset of {"coin", "reveal", "withheld", "faulty"}

walkVars == <<pc, storeId, launcherCoin, creatorCoin, outcome, lies>>
vars == <<created, spends, pc, storeId, launcherCoin, creatorCoin, outcome, lies>>

-----------------------------------------------------------------------------
NoCoin == Coin(Genesis, TreeHash(GarbagePuzzle), 0)

Solutions == {"valid", "malformed", "garbage"}

(* What the chain really holds for id: one spend, or nothing yet.           *)
Recorded(id) ==
    LET honest == {s \in spends : CoinId(s.coin) = id}
    IN IF honest = {} THEN {NotFound} ELSE {Found(s) : s \in honest}

(* A source that forgot a spend, or fails the read.                        *)
Withheld(id) == IF "withhold" \in Faults THEN {NotFound} ELSE {}
FailedReads  == IF "error" \in Faults THEN {ReadError} ELSE {}

(* Coins a source can put into an answer: it may copy or invent them.      *)
Servable == created \cup Fabricated

(* The spend of another coin, under the id that was asked for.             *)
Substituted(id) ==
    {Found(CoinSpend(c, p, sol)) :
        c \in {x \in Servable : CoinId(x) # id}, p \in Puzzles, sol \in Solutions}

(* The right coin, with any reveal and any solution.                       *)
ForgedReveals(id) ==
    {Found(CoinSpend(c, p, sol)) :
        c \in {x \in Servable : CoinId(x) = id}, p \in Puzzles, sol \in Solutions}

(* Everything ChainSource::coin_spend(id) may answer now.                  *)
Answers(id) ==
    Recorded(id) \cup Withheld(id) \cup FailedReads
        \cup (IF "forge" \in Faults THEN Substituted(id) \cup ForgedReveals(id) ELSE {})

CoinLies(answer, id) ==
    IF answer[1] = "found" /\ CoinId(answer[2].coin) # id THEN {"coin"} ELSE {}

RevealLies(answer) ==
    IF answer[1] = "found" /\ TreeHash(answer[2].reveal) # answer[2].coin.ph
      THEN {"reveal"} ELSE {}

Lies(answer, id) == CoinLies(answer, id) \cup RevealLies(answer)

(* An answer that is not the chain's: it has the spend and says it has not *)
(* (a source that lags), or it is a failed read or a forgery.              *)
Wrongs(answer, id) ==
    IF answer \in Recorded(id) THEN {}
    ELSE IF answer = NotFound THEN {"withheld"} ELSE {"faulty"}
-----------------------------------------------------------------------------
Init ==
    /\ LedgerInit
    /\ pc = "idle"
    /\ storeId = CoinId(NoCoin)
    /\ launcherCoin = NoCoin
    /\ creatorCoin = NoCoin
    /\ outcome = OkNone
    /\ lies = {}

(* A caller asks who owns a store: any coin's id, genuine or not.          *)
Call(coin) ==
    /\ pc = "idle"
    /\ pc' = "launcher"
    /\ storeId' = CoinId(coin)
    /\ lies' = {}
    /\ UNCHANGED <<chainVars, launcherCoin, creatorCoin, outcome>>

Finish(result) ==
    /\ pc' = "done"
    /\ outcome' = result
    /\ UNCHANGED <<chainVars, storeId, launcherCoin, creatorCoin>>

(* Step 1: the launcher's own spend.  Only its coin is looked at, so what  *)
(* the source says of its puzzle makes no difference.                      *)
ReadLauncher(answer) ==
    /\ pc = "launcher"
    /\ IF IsBound(answer, storeId)
         THEN /\ pc' = "creator"
              /\ launcherCoin' = answer[2].coin
              /\ UNCHANGED <<chainVars, storeId, creatorCoin, outcome>>
         ELSE Finish(UnboundOutcome(answer))
    /\ lies' = lies \cup CoinLies(answer, storeId) \cup Wrongs(answer, storeId)

(* Mutant: a read of the creator that fails makes the walk start over.     *)
ReadCreatorAgain(answer) ==
    /\ pc = "creator"
    /\ IF ~ IsBound(answer, launcherCoin.parent)
         THEN /\ pc' = "launcher"
              /\ launcherCoin' = NoCoin
              /\ UNCHANGED <<chainVars, storeId, creatorCoin, outcome>>
         ELSE IF DidRefFromSpend(answer[2]) = OkNone
                    /\ IsLauncherIntermediate(answer[2], launcherCoin)
                THEN /\ pc' = "singleton"
                     /\ creatorCoin' = answer[2].coin
                     /\ UNCHANGED <<chainVars, storeId, launcherCoin, outcome>>
                ELSE Finish(DidRefFromSpend(answer[2]))
    /\ lies' = {}

(* Steps 2-3: the spend that created the launcher.  A DID here is the      *)
(* answer; an intermediate launcher earns one more hop; anything else ends *)
(* the walk.                                                               *)
ReadCreator(answer) ==
    /\ pc = "creator"
    /\ IF ~ IsBound(answer, launcherCoin.parent)
         THEN Finish(UnboundOutcome(answer))
         ELSE IF DidRefFromSpend(answer[2]) = OkNone
                    /\ IsLauncherIntermediate(answer[2], launcherCoin)
                THEN /\ pc' = "singleton"
                     /\ creatorCoin' = answer[2].coin
                     /\ UNCHANGED <<chainVars, storeId, launcherCoin, outcome>>
                ELSE Finish(DidRefFromSpend(answer[2]))
    /\ lies' = lies \cup Lies(answer, launcherCoin.parent)
                    \cup Wrongs(answer, launcherCoin.parent)

(* Step 4: the one hop past an intermediate launcher, and the last.        *)
ReadSingleton(answer) ==
    /\ pc = "singleton"
    /\ Finish(IF IsBound(answer, creatorCoin.parent)
                THEN DidRefFromSpend(answer[2])
                ELSE UnboundOutcome(answer))
    /\ lies' = lies \cup Lies(answer, creatorCoin.parent)
                    \cup Wrongs(answer, creatorCoin.parent)

(* The caller takes the result and its frame is gone.                      *)
Return ==
    /\ pc = "done"
    /\ pc' = "idle"
    /\ launcherCoin' = NoCoin
    /\ creatorCoin' = NoCoin
    /\ lies' = {}
    /\ UNCHANGED <<chainVars, storeId, outcome>>

(* One read: the source answers what the walk is waiting for.              *)
Read ==
    \/ pc = "launcher" /\ \E answer \in Answers(storeId) : ReadLauncher(answer)
    \/ pc = "creator" /\ \E answer \in Answers(launcherCoin.parent) : ReadCreator(answer)
    \/ pc = "singleton" /\ \E answer \in Answers(creatorCoin.parent) : ReadSingleton(answer)

Grow == LedgerNext /\ UNCHANGED walkVars

Next ==
    \/ Grow
    \/ \E coin \in created \cup Fabricated : Call(coin)
    \/ Read
    \/ Return

Spec == Init /\ [][Next]_vars

(* resolve_owner_did is a synchronous call: once made, it goes on as long  *)
(* as the source answers its reads, with whatever answer.                  *)
FairSpec == Spec /\ WF_vars(Read)
-----------------------------------------------------------------------------
(***************************************************************************)
(* Who owns a store, said of the chain rather than of the walk.            *)
(***************************************************************************)

(* Some confirmed spend of a coin of this DID created the coin id.         *)
CreatedBy(id, did) ==
    \E s \in spends, c \in created :
        /\ s.reveal = DidPuzzle(did)
        /\ CoinId(c) = id
        /\ c.parent = CoinId(s.coin)

(* A confirmed 0-mojo intermediate launcher created the coin id, and a     *)
(* spend of the DID created that intermediate.                             *)
CreatedThroughIntermediate(id, did) ==
    \E s \in spends :
        /\ s.coin.amount = 0
        /\ \E n \in MintNumbers : s.reveal = IntermediatePuzzle(LauncherPh, n)
        /\ CoinId(Coin(CoinId(s.coin), LauncherPh, 1)) = id
        /\ CreatedBy(CoinId(s.coin), did)

Authorized(id, did) == CreatedBy(id, did) \/ CreatedThroughIntermediate(id, did)

Launched(id) == \E s \in spends : CoinId(s.coin) = id

(* The answer an observer of the whole chain would give in one look.       *)
OwnerOf(id) ==
    IF Launched(id) /\ \E d \in Dids : Authorized(id, d)
      THEN OkSome(CHOOSE d \in Dids : Authorized(id, d))
      ELSE OkNone

(* What a coin id alone pins down: the coin it hashes, that coin's parent, *)
(* and the puzzle the parent commits to.                                   *)
ParentIs(coin, ph) == coin.parent[1] = "coin_id" /\ coin.parent[2].ph = ph

CommitsTo(id, did) ==
    LET coin == id[2]
        creator == coin.parent[2]
    IN \/ ParentIs(coin, TreeHash(DidPuzzle(did)))
       \/ /\ \E n \in MintNumbers : ParentIs(coin, TreeHash(IntermediatePuzzle(LauncherPh, n)))
          /\ coin = Coin(CoinId(creator), LauncherPh, 1)
          /\ creator.amount = 0
          /\ ParentIs(creator, TreeHash(DidPuzzle(did)))
-----------------------------------------------------------------------------
Outcomes ==
    {OkSome(d) : d \in Dids} \cup {OkNone} \cup {Err(k) : k \in {"Chain", "Parse", "Driver"}}

(* Every variable holds a value of the kind the code gives it, and every   *)
(* coin on the chain has a parent that exists.                             *)
TypeOK ==
    /\ created \subseteq [parent : {Genesis} \cup {CoinId(c) : c \in created},
                          ph : {TreeHash(p) : p \in Puzzles},
                          amount : Nat]
    /\ spends \subseteq [coin : created, reveal : Puzzles, solution : Solutions]
    /\ pc \in {"idle", "launcher", "creator", "singleton", "done"}
    /\ storeId \in {CoinId(c) : c \in created \cup Fabricated \cup {NoCoin}}
    /\ launcherCoin \in created \cup Fabricated \cup {NoCoin}
    /\ creatorCoin \in created \cup Fabricated \cup {NoCoin}
    /\ outcome \in Outcomes
    /\ lies \subseteq {"coin", "reveal", "withheld", "faulty"}

(* No source can choose the DID: whatever it answers, to however many      *)
(* reads, a DID is named only when the store id itself commits to it, so   *)
(* two sources can never make one store id resolve to two DIDs             *)
(* (read.rs:160-171, 205-226).                                             *)
SourceCannotChooseTheDid ==
    \A d \in Dids : pc = "done" /\ outcome = OkSome(d) => CommitsTo(storeId, d)

(* A DID named for a store that is on the chain did authorize it: a        *)
(* confirmed spend of that DID created the launcher, directly or through   *)
(* one intermediate launcher, however the source lies (read.rs:107-151).   *)
OnlyTheAuthorizingDid ==
    \A d \in Dids :
        pc = "done" /\ outcome = OkSome(d) /\ storeId \in {CoinId(c) : c \in created}
            => Authorized(storeId, d)

(* A substituted coin, or a forged reveal of a coin the walk parses, is    *)
(* never flattened into "not DID-owned" (read.rs:142-151).                 *)
SubstitutionIsNotNone ==
    pc = "done" /\ lies \cap {"coin", "reveal"} # {} => outcome[1] = "err"

(* A source is never accused of what it did not do: an error comes only of *)
(* a read that failed or an answer that is not the chain's.  Not of a      *)
(* chain that grows between the reads, nor of a source that lags behind it *)
(* at any of them (read.rs:142-145).                                       *)
HonestSourceIsNeverAnError ==
    pc = "done" /\ outcome[1] = "err" => "faulty" \in lies

(* A call always ends, provided its reads are answered: a source that      *)
(* fails or lags at any of them, now or for good, ends the walk and never  *)
(* keeps it asking (read.rs:163-203).                                      *)
EveryCallReturns == pc = "launcher" ~> pc = "done"

(* Abstractly a call is one look at the chain (OwnerQuery), taken at the   *)
(* first read: what the later reads find was fixed when the launcher's     *)
(* spend was confirmed.  A source that fails or lags during the call can   *)
(* turn the answer into an error or into "no DID", never into another DID  *)
(* (read.rs:107-151).                                                      *)
phase == CASE pc = "idle" -> "idle" [] pc = "launcher" -> "asked" [] OTHER -> "answered"
answerSoFar ==
    CASE pc = "done" -> outcome
      [] pc \in {"creator", "singleton"} -> OwnerOf(storeId)
      [] OTHER -> OkNone
Query == INSTANCE OwnerQuery WITH
    asked <- storeId, answer <- answerSoFar, faltered <- lies # {}
AnswersAsOneLook == Query!QuerySpec
=============================================================================
