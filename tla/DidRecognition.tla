--------------------------- MODULE DidRecognition --------------------------
(***************************************************************************)
(* read.rs: what the owner walk makes of one answer of its chain source.   *)
(* A coin spend is a record of the coin, the puzzle revealed for it and    *)
(* whether its solution can be used.                                       *)
(***************************************************************************)
EXTENDS ChiaCoins

(* MerkleResult<Option<DidRef>>.                                           *)
OkSome(did) == <<"some", did>>
OkNone      == <<"none">>
Err(kind)   == <<"err", kind>>

(* Option<CoinSpend> as a source answers it, and a failed read.            *)
Found(spend) == <<"found", spend>>
NotFound     == <<"not_found">>
ReadError    == <<"error">>

(* Mutant: any spend the source returns is taken for the one asked for.    *)
IsBoundToNothing(answer, id) == answer[1] = "found"

(* read_bound_spend: the answer is for the coin that was asked for.        *)
IsBound(answer, id) == answer[1] = "found" /\ CoinId(answer[2].coin) = id

(* Mutants: a substituted answer is flattened into "not DID-owned"; a spend *)
(* that is not there yet is an error.                                      *)
UnboundOutcomeFlattened(answer) == IF answer = ReadError THEN Err("Chain") ELSE OkNone
UnboundOutcomeStrict(answer) == Err("Chain")

(* What a read that yields no bound spend makes the walk return.           *)
UnboundOutcome(answer) == IF answer = NotFound THEN OkNone ELSE Err("Chain")

(* Mutant: the reveal is parsed without comparing it to the coin.          *)
DidRefFromAnyReveal(s) ==
    IF s.reveal = GarbagePuzzle \/ s.solution = "garbage" THEN Err("Parse")
    ELSE IF s.reveal.mod = "did" THEN OkSome(s.reveal.args[1])
    ELSE OkNone

(* Mutant: the DID is named by its current coin, not by its launcher id.   *)
DidRefOfCoin(s) ==
    IF s.reveal = GarbagePuzzle \/ s.solution = "garbage" THEN Err("Parse")
    ELSE IF TreeHash(s.reveal) # s.coin.ph THEN Err("Chain")
    ELSE IF s.reveal.mod = "did" /\ s.solution = "valid" THEN OkSome(CoinId(s.coin))
    ELSE IF s.reveal.mod \in {"did", "bad_singleton"} THEN Err("Driver")
    ELSE OkNone

(* did_ref_from_spend.  The reveal is checked against the coin before the  *)
(* SDK parses it; the DID named comes from the puzzle alone.               *)
DidRefFromSpend(s) ==
    IF s.reveal = GarbagePuzzle \/ s.solution = "garbage" THEN Err("Parse")
    ELSE IF TreeHash(s.reveal) # s.coin.ph THEN Err("Chain")
    ELSE IF s.reveal.mod = "did" /\ s.solution = "valid" THEN OkSome(s.reveal.args[1])
    ELSE IF s.reveal.mod \in {"did", "bad_singleton"} THEN Err("Driver")
    ELSE OkNone

(* Mutants: recognised by shape, so any 0-mojo creator earns the hop; and  *)
(* every creator earns it.                                                 *)
IsZeroAmountCreator(s, coin) == s.coin.amount = 0 /\ TreeHash(s.reveal) = s.coin.ph
IsAnyCreator(s, coin) == TreeHash(s.reveal) = s.coin.ph

(* is_launcher_intermediate: by puzzle, never by running it.               *)
IsLauncherIntermediate(s, coin) ==
    /\ s.coin.amount = 0
    /\ s.reveal # GarbagePuzzle
    /\ TreeHash(s.reveal) = s.coin.ph
    /\ s.reveal.mod = "nft_intermediate"
    /\ s.reveal.args[1] = LauncherPh
    /\ Coin(CoinId(s.coin), s.reveal.args[1], 1) = coin
=============================================================================
