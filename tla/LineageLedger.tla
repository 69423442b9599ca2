--------------------------- MODULE LineageLedger ---------------------------
(***************************************************************************)
(* The part of the Chia chain that the owner walk of read.rs depends on:   *)
(* which coins exist, and which confirmed spends created them.  The chain  *)
(* is not in this repository; its rules are the ones the simulator tests   *)
(* of src/mint.rs and src/read.rs rely on:                                 *)
(*                                                                         *)
(*  - a spend reveals the puzzle its coin commits to, once;                *)
(*  - a singleton (a DID) recreates itself as its one odd output, and may  *)
(*    add even ones (mint.rs:1774-1785);                                   *)
(*  - a coin that merely carries a DID's puzzle hash, without descending   *)
(*    from that DID, cannot be spent;                                      *)
(*  - the NFT intermediate launcher has one output, fixed by its arguments.*)
(***************************************************************************)
EXTENDS ChiaCoins, FiniteSets

CONSTANTS
    Dids,           \* launcher ids of the DIDs on the chain
    MintNumbers,    \* mint numbers curried into intermediate launchers
    OutputSpecs,    \* the [ph, amount] pairs a spend may create
    MaxSpends       \* bound: confirmed spends

VARIABLES
    created,        \* coins that exist, spent or not
    spends          \* confirmed coin spends

chainVars == <<created, spends>>

Puzzles ==
    {LauncherPuzzle, OrdinaryPuzzle, BadSingletonPuzzle, GarbagePuzzle}
        \cup {DidPuzzle(d) : d \in Dids}
        \cup {IntermediatePuzzle(TreeHash(p), n) :
                p \in {LauncherPuzzle, OrdinaryPuzzle}, n \in MintNumbers}

ASSUME MaxSpendsAssumption == MaxSpends \in Nat
ASSUME OutputSpecsAssumption ==
    OutputSpecs \subseteq [ph : {TreeHash(p) : p \in Puzzles}, amount : Nat]

CoinSpend(coin, reveal, solution) ==
    [coin |-> coin, reveal |-> reveal, solution |-> solution]

(* One coin per DID, and one ordinary coin.                                *)
GenesisCoins ==
    {Coin(Genesis, TreeHash(DidPuzzle(d)), 1) : d \in Dids}
        \cup {Coin(Genesis, TreeHash(OrdinaryPuzzle), 2)}

SpentCoins == {s.coin : s \in spends}

(* The coin is the DID itself: it came with the chain, or the DID made it. *)
IsSuccessor(coin, did) ==
    \/ coin.parent = Genesis
    \/ \E s \in spends : /\ CoinId(s.coin) = coin.parent
                         /\ s.reveal = DidPuzzle(did)

(* What the puzzle p may create when it spends coin.                       *)
Outputs(coin, p) ==
    LET one == {{o} : o \in OutputSpecs} \cup {{}}
        even == {{o} : o \in {x \in OutputSpecs : x.amount % 2 = 0}} \cup {{}}
        same == [ph |-> coin.ph, amount |-> coin.amount]
    IN CASE p.mod = "standard" -> one
         [] p.mod = "did" -> {{same} \cup e : e \in even}
         [] p.mod = "nft_intermediate" -> {{[ph |-> p.args[1], amount |-> 1]}}
         [] OTHER -> {{}}

LedgerInit ==
    /\ created = GenesisCoins
    /\ spends = {}

(* A spend of coin is confirmed.                                           *)
Confirm(coin, p) ==
    /\ Cardinality(spends) < MaxSpends
    /\ coin \in created \ SpentCoins
    /\ TreeHash(p) = coin.ph
    /\ p \notin {BadSingletonPuzzle, GarbagePuzzle}
    /\ p.mod = "did" => IsSuccessor(coin, p.args[1])
    /\ \E outs \in Outputs(coin, p) :
         created' = created \cup {Coin(CoinId(coin), o.ph, o.amount) : o \in outs}
    /\ spends' = spends \cup {CoinSpend(coin, p, "valid")}

LedgerNext == \E coin \in created, p \in Puzzles : Confirm(coin, p)
=============================================================================
