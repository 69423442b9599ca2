----------------------------- MODULE OwnerQuery ----------------------------
(***************************************************************************)
(* What resolve_owner_did promises a caller whose source may fail or lag   *)
(* but makes nothing up: each call is ONE look at the chain.  Between the  *)
(* call and its result there is an instant at which the whole lineage, as  *)
(* it then stood, gave the answer; it is never pieced together from        *)
(* different moments.  Only if the source faltered during that very call   *)
(* may the look come to nothing: to an error, or to no DID.                *)
(***************************************************************************)
EXTENDS LineageLedger

VARIABLES
    phase,      \* idle, asked, answered
    asked,      \* the store id of the current call
    answer,     \* its result, <<"none">> until it has one
    faltered    \* whether the source failed or lagged during this call

queryVars == <<phase, asked, answer, faltered>>

(* DIDs whose coin was spent to make the coin with this id.                *)
Creators(id) ==
    {d \in Dids : \E s \in spends, c \in created :
                     /\ s.reveal = DidPuzzle(d)
                     /\ CoinId(c) = id
                     /\ c.parent = CoinId(s.coin)}

(* 0-mojo intermediate launchers spent to make the launcher with this id.  *)
Intermediates(id) ==
    {s \in spends : /\ s.coin.amount = 0
                    /\ \E n \in MintNumbers : s.reveal = IntermediatePuzzle(LauncherPh, n)
                    /\ CoinId(Coin(CoinId(s.coin), LauncherPh, 1)) = id}

OwnersOf(id) ==
    IF \E s \in spends : CoinId(s.coin) = id
      THEN Creators(id) \cup UNION {Creators(CoinId(s.coin)) : s \in Intermediates(id)}
      ELSE {}

QueryInit ==
    /\ LedgerInit
    /\ phase = "idle"
    /\ answer = <<"none">>
    /\ faltered = FALSE

Ask ==
    /\ phase = "idle"
    /\ phase' = "asked"
    /\ answer' = <<"none">>
    /\ UNCHANGED <<chainVars, faltered>>

Look ==
    /\ phase = "asked"
    /\ phase' = "answered"
    /\ answer' \in IF OwnersOf(asked) = {} THEN {<<"none">>}
                                           ELSE {<<"some", d>> : d \in OwnersOf(asked)}
    /\ UNCHANGED <<chainVars, asked, faltered>>

(* The source fails or has lost sight of a spend, and the call gives up.   *)
Falter ==
    /\ phase \in {"asked", "answered"}
    /\ ~ faltered
    /\ phase' = "answered"
    /\ faltered' = TRUE
    /\ answer' \in {<<"none">>, <<"err", "Chain">>}
    /\ UNCHANGED <<chainVars, asked>>

Take ==
    /\ phase = "answered"
    /\ phase' = "idle"
    /\ answer' = <<"none">>
    /\ faltered' = FALSE
    /\ UNCHANGED <<chainVars, asked>>

QueryNext == Ask \/ Look \/ Falter \/ Take \/ (LedgerNext /\ UNCHANGED queryVars)

QuerySafety == QueryInit /\ [][QueryNext]_<<chainVars, queryVars>>

(* A call that was made comes to an answer, whatever it is worth.          *)
GetsAnAnswer == phase = "asked" /\ (Look \/ Falter)

QuerySpec == QuerySafety /\ WF_<<chainVars, queryVars>>(GetsAnAnswer)
=============================================================================
