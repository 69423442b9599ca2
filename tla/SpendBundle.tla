---------------------------- MODULE SpendBundle ----------------------------
(***************************************************************************)
(* Spend bundles as the chain judges them (external: the Simulator that    *)
(* the tests of src/mint.rs submit to).  A coin spend is reduced to its    *)
(* coin, the hash of the puzzle it reveals, the coins its conditions       *)
(* create, and the spends it asserts to be in the same bundle through      *)
(* their announcements.                                                    *)
(***************************************************************************)
EXTENDS ChiaCoins, Sequences, FiniteSets, FiniteSetsExt

(* A CREATE_COIN condition.                                                *)
CreateCoin(ph, amount, memos) == [ph |-> ph, amount |-> amount, memos |-> memos]

NoMemos == <<>>

SpendRevealing(ph, coin, creates, asserts) ==
    [coin |-> coin, reveal |-> ph, creates |-> creates, asserts |-> asserts]

(* A spend built from the puzzle its coin commits to.                      *)
CoinSpend(coin, creates, asserts) == SpendRevealing(coin.ph, coin, creates, asserts)

(* The coins a spend creates, one for each of its conditions.              *)
Created(spend, i) ==
    Coin(CoinId(spend.coin), spend.creates[i].ph, spend.creates[i].amount)

Outputs(spend) == {Created(spend, i) : i \in DOMAIN spend.creates}

AllOutputs(bundle) == UNION {Outputs(s) : s \in bundle}

IsOdd(n) == n % 2 = 1

(* The singleton top layer: one odd output, the successor, and odd itself. *)
SingletonRule(spend) ==
    spend.coin.ph[2].mod \in {"did", "datastore"} =>
        /\ IsOdd(spend.coin.amount)
        /\ Cardinality({i \in DOMAIN spend.creates : IsOdd(spend.creates[i].amount)}) = 1

(* No coin is created twice.                                               *)
DistinctOutputs(bundle) ==
    \A s \in bundle : \A i, j \in DOMAIN s.creates :
        Created(s, i) = Created(s, j) => i = j

TotalIn(bundle)  == MapThenSumSet(LAMBDA s : s.coin.amount, bundle)
TotalOut(bundle) == MapThenSumSet(LAMBDA c : c.amount, AllOutputs(bundle))

(* Coins in are at least coins out, over the bundle as a whole.            *)
Balanced(bundle) == TotalIn(bundle) >= TotalOut(bundle)

(* The bundle is accepted on top of the unspent coins.                     *)
Valid(bundle, unspent) ==
    /\ \A s \in bundle : s.coin \in unspent \cup AllOutputs(bundle)
    /\ \A s \in bundle : s.reveal = s.coin.ph
    /\ \A s, t \in bundle : s.coin = t.coin => s = t
    /\ \A s \in bundle : s.asserts \subseteq {CoinId(t.coin) : t \in bundle}
    /\ \A s \in bundle : SingletonRule(s)
    /\ DistinctOutputs(bundle)
    /\ Balanced(bundle)
=============================================================================
