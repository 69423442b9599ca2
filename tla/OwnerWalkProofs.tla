-------------------------- MODULE OwnerWalkProofs --------------------------
(***************************************************************************)
(* That the owner walk of read.rs cannot be made to name a DID: for any    *)
(* DIDs, any chain, any forging source and any number of calls.  That an   *)
(* error comes only of what the source did.  And that, as long as nothing  *)
(* is made up, every step of the walk is a step of OwnerQuery: one look at *)
(* the chain, or a source that faltered.                                   *)
(***************************************************************************)
EXTENDS OwnerWalk, TLAPS

(* What the walk knows at each read: the launcher's coin is the one the    *)
(* store id hashes, and the creator climbed past is the intermediate that  *)
(* could only have created it.                                             *)
WalkInv ==
    /\ pc \in {"creator", "singleton"} => CoinId(launcherCoin) = storeId
    /\ pc = "singleton" =>
         /\ launcherCoin = Coin(CoinId(creatorCoin), LauncherPh, 1)
         /\ \E n \in MintNumbers : creatorCoin.ph = TreeHash(IntermediatePuzzle(LauncherPh, n))
         /\ creatorCoin.amount = 0
    /\ SourceCannotChooseTheDid

(* What the chain guarantees: confirmed spends reveal what their coins     *)
(* commit to, and every coin but the first ones has a confirmed creator.   *)
ChainInv ==
    /\ \A s \in spends : /\ s.coin \in created
                         /\ s.reveal \in Puzzles
                         /\ s.coin.ph = TreeHash(s.reveal)
    /\ \A c \in created :
         /\ c = Coin(c.parent, c.ph, c.amount)
         /\ \/ c.parent = Genesis
            \/ \E s \in spends : CoinId(s.coin) = c.parent

(* Whatever a source answers, its reveal is one of the puzzles.            *)
LEMMA AnswersReveal ==
    ASSUME ChainInv, NEW id, NEW answer \in Answers(id), answer[1] = "found"
    PROVE  answer[2].reveal \in Puzzles
<1>1. CASE answer \in {NotFound, ReadError}
  BY <1>1 DEF NotFound, ReadError
<1>2. CASE \E s \in spends : answer = Found(s)
  BY <1>2 DEF ChainInv, Found
<1>3. CASE \E c \in created \cup Fabricated, p \in Puzzles, sol \in Solutions :
             answer = Found(CoinSpend(c, p, sol))
  BY <1>3 DEF Found, CoinSpend
<1>4. QED
  BY <1>1, <1>2, <1>3 DEF Answers, Recorded, Withheld, FailedReads,
     Substituted, ForgedReveals, Servable

(* A DID puzzle is recognised by its mod, and is determined by the DID.    *)
LEMMA DidReveal ==
    ASSUME NEW p \in Puzzles, p.mod = "did"
    PROVE  /\ p = DidPuzzle(p.args[1])
           /\ p.args[1] \in Dids
BY DEF Puzzles, DidPuzzle, Curried, LauncherPuzzle, OrdinaryPuzzle,
       BadSingletonPuzzle, GarbagePuzzle, IntermediatePuzzle

(* The intermediate launcher is recognised by its mod and what it creates, *)
(* whatever its mint number.                                               *)
LEMMA IntermediateReveal ==
    ASSUME NEW p \in Puzzles, p.mod = "nft_intermediate", p.args[1] = LauncherPh
    PROVE  \E n \in MintNumbers : p = IntermediatePuzzle(LauncherPh, n)
BY DEF Puzzles, DidPuzzle, Curried, LauncherPuzzle, OrdinaryPuzzle,
       BadSingletonPuzzle, GarbagePuzzle, IntermediatePuzzle, LauncherPh, TreeHash

(* did_ref_from_spend names a DID only when the coin commits to it.        *)
LEMMA DidRefNamesCommitted ==
    ASSUME NEW s, s.reveal \in Puzzles, NEW d, DidRefFromSpend(s) = OkSome(d)
    PROVE  s.coin.ph = TreeHash(DidPuzzle(d))
<1>1. /\ TreeHash(s.reveal) = s.coin.ph
      /\ s.reveal.mod = "did"
      /\ OkSome(s.reveal.args[1]) = OkSome(d)
  BY DEF DidRefFromSpend, OkSome, OkNone, Err
<1>2. s.reveal.args[1] = d
  BY <1>1 DEF OkSome
<1>3. QED
  BY <1>1, <1>2, DidReveal

(* The three kinds of result are different values.                         *)
LEMMA ResultsDiffer ==
    ASSUME NEW answer, NEW d
    PROVE  UnboundOutcome(answer) # OkSome(d)
BY DEF UnboundOutcome, OkSome, OkNone, Err

-----------------------------------------------------------------------------
(* The chain's guarantee survives every confirmed spend.                   *)
LEMMA ChainStep ==
    ASSUME ChainInv, [Next]_vars
    PROVE  ChainInv'
<1>1. CASE UNCHANGED chainVars
  BY <1>1 DEF ChainInv, chainVars
<1>2. ASSUME NEW coin \in created, NEW p \in Puzzles, Confirm(coin, p)
      PROVE  ChainInv'
  <2>1. PICK outs \in Outputs(coin, p) :
          created' = created \cup {Coin(CoinId(coin), o.ph, o.amount) : o \in outs}
    BY <1>2 DEF Confirm
  <2>2. /\ spends' = spends \cup {CoinSpend(coin, p, "valid")}
        /\ TreeHash(p) = coin.ph
    BY <1>2 DEF Confirm
  <2>3. ASSUME NEW s \in spends'
        PROVE  /\ s.coin \in created'
               /\ s.reveal \in Puzzles
               /\ s.coin.ph = TreeHash(s.reveal)
    BY <2>1, <2>2, <2>3 DEF ChainInv, CoinSpend
  <2>4. ASSUME NEW c \in created'
        PROVE  /\ c = Coin(c.parent, c.ph, c.amount)
               /\ c.parent = Genesis \/ \E s \in spends' : CoinId(s.coin) = c.parent
    <3>1. CASE c \in created
      BY <3>1, <2>2 DEF ChainInv
    <3>2. CASE \E o \in outs : c = Coin(CoinId(coin), o.ph, o.amount)
      <4>1. c.parent = CoinId(coin) /\ c = Coin(c.parent, c.ph, c.amount)
        BY <3>2 DEF Coin
      <4>2. CoinSpend(coin, p, "valid") \in spends' /\ CoinSpend(coin, p, "valid").coin = coin
        BY <2>2 DEF CoinSpend
      <4>3. QED
        BY <4>1, <4>2
    <3>3. QED
      BY <2>1, <3>1, <3>2
  <2>5. QED
    BY <2>3, <2>4 DEF ChainInv
<1>3. QED
  BY <1>1, <1>2 DEF Next, vars, Grow, LedgerNext, Call, Read, ReadLauncher,
                    ReadCreator, ReadSingleton, Finish, Return, chainVars

(* A call that ends with a DID ends with one the store id commits to.      *)
LEMMA WalkStep ==
    ASSUME ChainInv, WalkInv, [Next]_vars
    PROVE  WalkInv'
<1> USE DEF WalkInv, SourceCannotChooseTheDid
<1>1. CASE UNCHANGED walkVars
  BY <1>1 DEF walkVars
<1>2. ASSUME NEW coin, Call(coin)
      PROVE  WalkInv'
  BY <1>2 DEF Call
<1>3. ASSUME NEW answer \in Answers(storeId), ReadLauncher(answer)
      PROVE  WalkInv'
  <2>1. CASE IsBound(answer, storeId)
    BY <1>3, <2>1 DEF ReadLauncher, IsBound
  <2>2. CASE ~ IsBound(answer, storeId)
    BY <1>3, <2>2, ResultsDiffer DEF ReadLauncher, Finish
  <2>3. QED
    BY <2>1, <2>2
<1>4. ASSUME NEW answer \in Answers(launcherCoin.parent), ReadCreator(answer)
      PROVE  WalkInv'
  <2> DEFINE s == answer[2]
  <2>1. CASE ~ IsBound(answer, launcherCoin.parent)
    BY <1>4, <2>1, ResultsDiffer DEF ReadCreator, Finish
  <2>2. CASE IsBound(answer, launcherCoin.parent)
    <3>1. /\ answer[1] = "found"
          /\ CoinId(s.coin) = launcherCoin.parent
          /\ CoinId(launcherCoin) = storeId
          /\ pc = "creator"
      BY <1>4, <2>2 DEF IsBound, ReadCreator
    <3>2. s.reveal \in Puzzles
      BY <3>1, AnswersReveal
    <3>3. CASE DidRefFromSpend(s) = OkNone /\ IsLauncherIntermediate(s, launcherCoin)
      <4>1. \E n \in MintNumbers : s.reveal = IntermediatePuzzle(LauncherPh, n)
        BY <3>2, <3>3, IntermediateReveal DEF IsLauncherIntermediate
      <4>2. /\ launcherCoin = Coin(CoinId(s.coin), LauncherPh, 1)
            /\ \E n \in MintNumbers : s.coin.ph = TreeHash(IntermediatePuzzle(LauncherPh, n))
            /\ s.coin.amount = 0
        BY <3>3, <4>1 DEF IsLauncherIntermediate
      <4>3. /\ pc' = "singleton"
            /\ creatorCoin' = s.coin
            /\ UNCHANGED <<storeId, launcherCoin>>
        BY <1>4, <2>2, <3>3 DEF ReadCreator
      <4>4. QED
        BY <3>1, <4>2, <4>3
    <3>4. CASE ~ (DidRefFromSpend(s) = OkNone /\ IsLauncherIntermediate(s, launcherCoin))
      <4>1. /\ pc' = "done"
            /\ outcome' = DidRefFromSpend(s)
            /\ storeId' = storeId
        BY <1>4, <2>2, <3>4 DEF ReadCreator, Finish
      <4>2. ASSUME NEW d \in Dids, DidRefFromSpend(s) = OkSome(d)
            PROVE  CommitsTo(storeId, d)
        <5>1. s.coin.ph = TreeHash(DidPuzzle(d))
          BY <3>2, <4>2, DidRefNamesCommitted
        <5>2. QED
          BY <3>1, <5>1 DEF CommitsTo, ParentIs, CoinId
      <4>3. QED
        BY <4>1, <4>2
    <3>5. QED
      BY <3>3, <3>4
  <2>3. QED
    BY <2>1, <2>2
<1>5. ASSUME NEW answer \in Answers(creatorCoin.parent), ReadSingleton(answer)
      PROVE  WalkInv'
  <2> DEFINE s == answer[2]
  <2>1. CASE ~ IsBound(answer, creatorCoin.parent)
    BY <1>5, <2>1, ResultsDiffer DEF ReadSingleton, Finish
  <2>2. CASE IsBound(answer, creatorCoin.parent)
    <3>1. /\ answer[1] = "found"
          /\ CoinId(s.coin) = creatorCoin.parent
          /\ pc = "singleton"
          /\ pc' = "done"
          /\ outcome' = DidRefFromSpend(s)
          /\ storeId' = storeId
      BY <1>5, <2>2 DEF IsBound, ReadSingleton, Finish
    <3>2. s.reveal \in Puzzles
      BY <3>1, AnswersReveal
    <3>3. ASSUME NEW d \in Dids, DidRefFromSpend(s) = OkSome(d)
          PROVE  CommitsTo(storeId, d)
      <4>1. ParentIs(creatorCoin, TreeHash(DidPuzzle(d)))
        BY <3>1, <3>2, <3>3, DidRefNamesCommitted DEF ParentIs, CoinId
      <4>2. /\ storeId[2] = launcherCoin
            /\ launcherCoin.parent[1] = "coin_id"
            /\ launcherCoin.parent[2] = creatorCoin
            /\ \E n \in MintNumbers : creatorCoin.ph = TreeHash(IntermediatePuzzle(LauncherPh, n))
            /\ creatorCoin.amount = 0
            /\ launcherCoin = Coin(CoinId(creatorCoin), LauncherPh, 1)
        BY <3>1 DEF CoinId, Coin
      <4>3. QED
        BY <4>1, <4>2 DEF CommitsTo, ParentIs
    <3>4. QED
      BY <3>1, <3>3
  <2>3. QED
    BY <2>1, <2>2
<1>6. CASE Return
  BY <1>6 DEF Return
<1>7. QED
  BY <1>1, <1>2, <1>3, <1>4, <1>5, <1>6 DEF Next, vars, walkVars, Grow, Read

(* What the walk knows and what the chain keeps hold together.             *)
LEMMA WalkAndChain == Spec => [](ChainInv /\ WalkInv)
<1>1. Init => ChainInv /\ WalkInv
  BY DEF Init, LedgerInit, GenesisCoins, ChainInv, WalkInv, Coin,
         SourceCannotChooseTheDid
<1>2. ChainInv /\ WalkInv /\ [Next]_vars => (ChainInv /\ WalkInv)'
  BY ChainStep, WalkStep
<1>3. QED
  BY <1>1, <1>2, PTL DEF Spec

(* Whatever the source answers, the DID named is one the store id commits  *)
(* to: resolve_owner_did's result is the caller's, never the source's.     *)
THEOREM SourceCannotChoose == Spec => []SourceCannotChooseTheDid
<1>1. WalkInv => SourceCannotChooseTheDid
  BY DEF WalkInv
<1>2. QED
  BY <1>1, WalkAndChain, PTL

(* A coin on the chain whose parent has the puzzle hash of p was created   *)
(* by a confirmed spend of that parent, revealing p.                       *)
LEMMA CommittedParentIsSpent ==
    ASSUME ChainInv, NEW c \in created, NEW p, ParentIs(c, TreeHash(p))
    PROVE  \E s \in spends : /\ CoinId(s.coin) = c.parent
                             /\ s.coin = c.parent[2]
                             /\ s.coin \in created
                             /\ s.reveal = p
<1>1. c.parent # Genesis
  BY DEF ParentIs, Genesis
<1>2. PICK s \in spends : CoinId(s.coin) = c.parent
  BY <1>1 DEF ChainInv
<1>3. s.coin = c.parent[2]
  BY <1>2 DEF CoinId
<1>4. TreeHash(s.reveal) = TreeHash(p)
  BY <1>3 DEF ParentIs, ChainInv
<1>5. s.reveal = p
  BY <1>4 DEF TreeHash
<1>6. QED
  BY <1>2, <1>3, <1>5 DEF ChainInv

(* For a coin on the chain, what its id commits to is what happened.       *)
LEMMA CommittedIsAuthorized ==
    ASSUME ChainInv, NEW c \in created, NEW d \in Dids, CommitsTo(CoinId(c), d)
    PROVE  Authorized(CoinId(c), d)
<1>1. CoinId(c)[2] = c
  BY DEF CoinId
<1>2. CASE ParentIs(c, TreeHash(DidPuzzle(d)))
  <2>1. PICK s \in spends : CoinId(s.coin) = c.parent /\ s.reveal = DidPuzzle(d)
    BY <1>2, CommittedParentIsSpent
  <2>2. QED
    BY <2>1 DEF Authorized, CreatedBy
<1>3. CASE /\ \E n \in MintNumbers : ParentIs(c, TreeHash(IntermediatePuzzle(LauncherPh, n)))
           /\ c = Coin(CoinId(c.parent[2]), LauncherPh, 1)
           /\ c.parent[2].amount = 0
           /\ ParentIs(c.parent[2], TreeHash(DidPuzzle(d)))
  <2>1. PICK n \in MintNumbers, s \in spends :
          /\ CoinId(s.coin) = c.parent
          /\ s.coin = c.parent[2]
          /\ s.coin \in created
          /\ s.reveal = IntermediatePuzzle(LauncherPh, n)
    BY <1>3, CommittedParentIsSpent
  <2>2. PICK t \in spends : CoinId(t.coin) = s.coin.parent /\ t.reveal = DidPuzzle(d)
    BY <1>3, <2>1, CommittedParentIsSpent
  <2>3. CreatedBy(CoinId(s.coin), d)
    BY <2>1, <2>2 DEF CreatedBy
  <2>4. QED
    BY <1>3, <2>1, <2>3 DEF Authorized, CreatedThroughIntermediate
<1>4. QED
  BY <1>1, <1>2, <1>3 DEF CommitsTo

(* For a store that is on the chain, what the id commits to is what        *)
(* happened: the DID named really spent a coin to create the launcher, or  *)
(* the intermediate launcher in between.                                   *)
THEOREM NamesOnlyTheAuthorizingDid == Spec => []OnlyTheAuthorizingDid
<1>1. ChainInv /\ WalkInv => OnlyTheAuthorizingDid
  <2> SUFFICES ASSUME ChainInv, WalkInv, NEW d \in Dids,
                      pc = "done", outcome = OkSome(d),
                      NEW c \in created, storeId = CoinId(c)
               PROVE  Authorized(storeId, d)
    BY DEF OnlyTheAuthorizingDid
  <2>1. CommitsTo(storeId, d)
    BY DEF WalkInv, SourceCannotChooseTheDid
  <2>2. QED
    BY <2>1, CommittedIsAuthorized
<1>2. QED
  BY <1>1, WalkAndChain, PTL
-----------------------------------------------------------------------------
(* What the puzzles of the chain create commits to puzzles of the chain.   *)
Hashes == {TreeHash(p) : p \in Puzzles}

(* A coin that a spend creates is a coin.                                  *)
LEMMA OutputsOfType ==
    ASSUME NEW coin, coin.ph \in Hashes, coin.amount \in Nat,
           NEW p \in Puzzles, NEW outs \in Outputs(coin, p), NEW o \in outs
    PROVE  o.ph \in Hashes /\ o.amount \in Nat
<1>1. CASE o \in OutputSpecs
  BY <1>1, OutputSpecsAssumption DEF Hashes
<1>2. CASE o = [ph |-> coin.ph, amount |-> coin.amount]
  BY <1>2
<1>3. CASE p.mod = "nft_intermediate" /\ o = [ph |-> p.args[1], amount |-> 1]
  <2>1. \E q \in {LauncherPuzzle, OrdinaryPuzzle} : p.args[1] = TreeHash(q)
    BY <1>3 DEF Puzzles, DidPuzzle, Curried, LauncherPuzzle, OrdinaryPuzzle,
       BadSingletonPuzzle, GarbagePuzzle, IntermediatePuzzle
  <2>2. LauncherPuzzle \in Puzzles /\ OrdinaryPuzzle \in Puzzles
    BY DEF Puzzles
  <2>3. QED
    BY <1>3, <2>1, <2>2 DEF Hashes
<1>4. QED
  BY <1>1, <1>2, <1>3 DEF Outputs

(* Whatever a source answers, the coin in it exists or was made up.        *)
LEMMA AnswersServe ==
    ASSUME TypeOK, NEW id, NEW answer \in Answers(id), answer[1] = "found"
    PROVE  answer[2].coin \in created \cup Fabricated
<1>1. CASE answer \in {NotFound, ReadError}
  BY <1>1 DEF NotFound, ReadError
<1>2. CASE \E s \in spends : answer = Found(s)
  BY <1>2 DEF TypeOK, Found
<1>3. CASE \E c \in created \cup Fabricated, p \in Puzzles, sol \in Solutions :
             answer = Found(CoinSpend(c, p, sol))
  BY <1>3 DEF Found, CoinSpend
<1>4. QED
  BY <1>1, <1>2, <1>3 DEF Answers, Recorded, Withheld, FailedReads,
     Substituted, ForgedReveals, Servable

(* An answer the walk refuses is an error it can return.                   *)
LEMMA UnboundIsOutcome ==
    ASSUME NEW answer
    PROVE  UnboundOutcome(answer) \in Outcomes
BY DEF UnboundOutcome, Outcomes

(* So is whatever comes of reading a DID out of a spend.                   *)
LEMMA DidRefIsOutcome ==
    ASSUME NEW s, s.reveal \in Puzzles
    PROVE  DidRefFromSpend(s) \in Outcomes
BY DidReveal DEF DidRefFromSpend, Outcomes

(* Every value stays of its kind, over any chain and against any source.   *)
THEOREM WalkTypeCorrect == Spec => []TypeOK
<1>1. Init => TypeOK
  <2> SUFFICES ASSUME Init PROVE TypeOK
    OBVIOUS
  <2>1. created \subseteq [parent : {Genesis} \cup {CoinId(c) : c \in created},
                           ph : {TreeHash(p) : p \in Puzzles}, amount : Nat]
    <3>1. OrdinaryPuzzle \in Puzzles /\ \A d \in Dids : DidPuzzle(d) \in Puzzles
      BY DEF Puzzles
    <3>2. QED
      BY <3>1 DEF Init, LedgerInit, GenesisCoins, Coin
  <2>2. QED
    BY <2>1 DEF Init, LedgerInit, TypeOK, Outcomes
<1>2. TypeOK /\ ChainInv /\ [Next]_vars => TypeOK'
  <2> SUFFICES ASSUME TypeOK, ChainInv, [Next]_vars PROVE TypeOK'
    OBVIOUS
  <2>1. ASSUME NEW coin \in created, NEW p \in Puzzles, Confirm(coin, p),
               UNCHANGED walkVars
        PROVE  TypeOK'
    <3>1. PICK outs \in Outputs(coin, p) :
            created' = created \cup {Coin(CoinId(coin), o.ph, o.amount) : o \in outs}
      BY <2>1 DEF Confirm
    <3>2. coin.ph \in Hashes /\ coin.amount \in Nat
      BY DEF TypeOK, Hashes
    <3>3. \A o \in outs : o.ph \in Hashes /\ o.amount \in Nat
      BY <3>2, OutputsOfType
    <3>4. created' \subseteq [parent : {Genesis} \cup {CoinId(c) : c \in created'},
                              ph : Hashes, amount : Nat]
      <4>1. ASSUME NEW c \in created
            PROVE  c \in [parent : {Genesis} \cup {CoinId(x) : x \in created'},
                          ph : Hashes, amount : Nat]
        BY <3>1 DEF TypeOK, Hashes
      <4>2. ASSUME NEW o \in outs
            PROVE  Coin(CoinId(coin), o.ph, o.amount) \in
                     [parent : {Genesis} \cup {CoinId(x) : x \in created'},
                      ph : Hashes, amount : Nat]
        BY <3>1, <3>3 DEF Coin
      <4>3. QED
        BY <3>1, <4>1, <4>2
    <3>5. spends' \subseteq [coin : created', reveal : Puzzles, solution : Solutions]
      <4>1. spends' = spends \cup {CoinSpend(coin, p, "valid")}
        BY <2>1 DEF Confirm
      <4>2. CoinSpend(coin, p, "valid") \in
              [coin : created', reveal : Puzzles, solution : Solutions]
        BY <3>1 DEF CoinSpend, Solutions
      <4>3. QED
        BY <3>1, <4>1, <4>2 DEF TypeOK
    <3>6. QED
      BY <2>1, <3>1, <3>4, <3>5 DEF TypeOK, Hashes, walkVars, Outcomes
  <2>2. ASSUME NEW coin \in created \cup Fabricated, Call(coin)
        PROVE  TypeOK'
    BY <2>2 DEF TypeOK, Call, chainVars, Outcomes
  <2>3. ASSUME NEW answer \in Answers(storeId), ReadLauncher(answer)
        PROVE  TypeOK'
    <3>1. IsBound(answer, storeId) => answer[2].coin \in created \cup Fabricated
      BY AnswersServe DEF IsBound
    <3>2. lies' \subseteq {"coin", "reveal", "withheld", "faulty"}
      BY <2>3 DEF TypeOK, ReadLauncher, CoinLies, Wrongs
    <3>3. \/ /\ IsBound(answer, storeId)
             /\ pc' = "creator" /\ launcherCoin' = answer[2].coin
             /\ UNCHANGED <<chainVars, storeId, creatorCoin, outcome>>
          \/ Finish(UnboundOutcome(answer))
      BY <2>3 DEF ReadLauncher
    <3>4. QED
      BY <3>1, <3>2, <3>3, UnboundIsOutcome DEF TypeOK, Finish, chainVars, Outcomes
  <2>4. ASSUME NEW answer \in Answers(launcherCoin.parent), ReadCreator(answer)
        PROVE  TypeOK'
    <3>1. IsBound(answer, launcherCoin.parent) =>
            /\ answer[2].coin \in created \cup Fabricated
            /\ DidRefFromSpend(answer[2]) \in Outcomes
      BY AnswersServe, AnswersReveal, DidRefIsOutcome DEF IsBound
    <3>2. lies' \subseteq {"coin", "reveal", "withheld", "faulty"}
      BY <2>4 DEF TypeOK, ReadCreator, Lies, CoinLies, RevealLies, Wrongs
    <3>3. \/ /\ IsBound(answer, launcherCoin.parent)
             /\ pc' = "singleton" /\ creatorCoin' = answer[2].coin
             /\ UNCHANGED <<chainVars, storeId, launcherCoin, outcome>>
          \/ /\ Finish(DidRefFromSpend(answer[2]))
             /\ IsBound(answer, launcherCoin.parent)
          \/ Finish(UnboundOutcome(answer))
      BY <2>4 DEF ReadCreator
    <3>4. QED
      BY <3>1, <3>2, <3>3, UnboundIsOutcome DEF TypeOK, Finish, chainVars, Outcomes
  <2>5. ASSUME NEW answer \in Answers(creatorCoin.parent), ReadSingleton(answer)
        PROVE  TypeOK'
    <3>1. IsBound(answer, creatorCoin.parent) => DidRefFromSpend(answer[2]) \in Outcomes
      BY AnswersReveal, DidRefIsOutcome DEF IsBound
    <3>2. lies' \subseteq {"coin", "reveal", "withheld", "faulty"}
      BY <2>5 DEF TypeOK, ReadSingleton, Lies, CoinLies, RevealLies, Wrongs
    <3>3. \/ /\ Finish(DidRefFromSpend(answer[2]))
             /\ IsBound(answer, creatorCoin.parent)
          \/ Finish(UnboundOutcome(answer))
      BY <2>5 DEF ReadSingleton
    <3>4. QED
      BY <3>1, <3>2, <3>3, UnboundIsOutcome DEF TypeOK, Finish, chainVars, Outcomes
  <2>6. CASE Return
    BY <2>6 DEF TypeOK, Return, chainVars, Outcomes
  <2>7. CASE UNCHANGED vars
    BY <2>7 DEF TypeOK, vars, Outcomes
  <2>8. QED
    BY <2>1, <2>2, <2>3, <2>4, <2>5, <2>6, <2>7 DEF Next, Grow, LedgerNext, Read
<1>3. QED
  BY <1>1, <1>2, WalkAndChain, PTL DEF Spec

-----------------------------------------------------------------------------
(* Until it ends, the walk has caught every lie it could see.              *)
Told == lies \cap {"coin", "reveal"}

CaughtSoFar ==
    /\ pc \in {"launcher", "creator", "singleton"} => Told = {}
    /\ SubstitutionIsNotNone

(* What else a source gets wrong is no such lie.                           *)
LEMMA WrongsAreNoLies ==
    ASSUME NEW answer, NEW id
    PROVE  Wrongs(answer, id) \cap {"coin", "reveal"} = {}
BY DEF Wrongs

(* No forged reveal gets past the comparison with its coin.                *)
LEMMA ForgedRevealIsAnError ==
    ASSUME NEW s, TreeHash(s.reveal) # s.coin.ph
    PROVE  DidRefFromSpend(s)[1] = "err"
BY DEF DidRefFromSpend, Err

(* An answer that is for another coin is an error; no answer is no lie.    *)
LEMMA UnboundIsCaught ==
    ASSUME NEW answer, NEW id, ~ IsBound(answer, id), Lies(answer, id) # {}
    PROVE  UnboundOutcome(answer)[1] = "err"
BY DEF Lies, CoinLies, RevealLies, UnboundOutcome, NotFound, Err

(* read.rs:212-226.  A bound answer is a lie in nothing but a reveal that  *)
(* does not hash to its coin.                                              *)
LEMMA BoundIsNoCoinLie ==
    ASSUME NEW answer, NEW id, IsBound(answer, id)
    PROVE  Lies(answer, id) = {} \/ TreeHash(answer[2].reveal) # answer[2].coin.ph
BY DEF Lies, CoinLies, RevealLies, IsBound

(* read.rs:142-151.  Whatever is substituted, and whatever reveal is       *)
(* forged of a coin the walk parses, however many reads and calls it       *)
(* takes, the caller hears an error and never "no DID".  The reveal of the *)
(* launcher itself is not parsed and not covered.                          *)
THEOREM LiesAreErrors == Spec => []SubstitutionIsNotNone
<1> USE DEF CaughtSoFar, SubstitutionIsNotNone, Told
<1>1. Init => CaughtSoFar
  BY DEF Init
<1>2. CaughtSoFar /\ [Next]_vars => CaughtSoFar'
  <2> SUFFICES ASSUME CaughtSoFar, [Next]_vars PROVE CaughtSoFar'
    OBVIOUS
  <2>1. ASSUME NEW answer, ReadLauncher(answer) PROVE CaughtSoFar'
    <3>1. pc = "launcher" /\ Told' = CoinLies(answer, storeId)
      BY <2>1, WrongsAreNoLies DEF ReadLauncher, CoinLies
    <3>2. CASE IsBound(answer, storeId)
      <4>1. pc' = "creator" /\ CoinLies(answer, storeId) = {}
        BY <2>1, <3>2 DEF ReadLauncher, IsBound, CoinLies
      <4>2. QED
        BY <3>1, <4>1
    <3>3. CASE ~ IsBound(answer, storeId)
      <4>1. pc' = "done" /\ outcome' = UnboundOutcome(answer)
        BY <2>1, <3>3 DEF ReadLauncher, Finish
      <4>2. Told' # {} => outcome'[1] = "err"
        BY <3>1, <3>3, <4>1, UnboundIsCaught DEF Lies
      <4>3. QED
        BY <4>1, <4>2
    <3>4. QED
      BY <3>2, <3>3
  <2>2. ASSUME NEW answer, ReadCreator(answer) PROVE CaughtSoFar'
    <3>1. Told' = Lies(answer, launcherCoin.parent)
      BY <2>2, WrongsAreNoLies DEF ReadCreator, Lies, CoinLies, RevealLies
    <3>2. CASE ~ IsBound(answer, launcherCoin.parent)
      <4>1. pc' = "done" /\ outcome' = UnboundOutcome(answer)
        BY <2>2, <3>2 DEF ReadCreator, Finish
      <4>2. QED
        BY <3>1, <3>2, <4>1, UnboundIsCaught
    <3>3. CASE IsBound(answer, launcherCoin.parent) /\ pc' = "singleton"
      <4>1. TreeHash(answer[2].reveal) = answer[2].coin.ph
        BY <2>2, <3>3 DEF ReadCreator, Finish, IsLauncherIntermediate
      <4>2. QED
        BY <3>1, <3>3, <4>1, BoundIsNoCoinLie
    <3>4. CASE IsBound(answer, launcherCoin.parent) /\ pc' # "singleton"
      <4>1. pc' = "done" /\ outcome' = DidRefFromSpend(answer[2])
        BY <2>2, <3>4 DEF ReadCreator, Finish
      <4>2. QED
        BY <3>1, <3>4, <4>1, BoundIsNoCoinLie, ForgedRevealIsAnError
    <3>5. QED
      BY <3>2, <3>3, <3>4
  <2>3. ASSUME NEW answer, ReadSingleton(answer) PROVE CaughtSoFar'
    <3>1. Told' = Lies(answer, creatorCoin.parent)
      BY <2>3, WrongsAreNoLies DEF ReadSingleton, Lies, CoinLies, RevealLies
    <3>2. QED
      BY <2>3, <3>1, UnboundIsCaught, BoundIsNoCoinLie, ForgedRevealIsAnError
         DEF ReadSingleton, Finish
  <2>4. ASSUME NEW coin, Call(coin) PROVE CaughtSoFar'
    BY <2>4 DEF Call
  <2>5. CASE Grow \/ Return \/ UNCHANGED vars
    BY <2>5 DEF Grow, Return, vars, walkVars
  <2>6. QED
    BY <2>1, <2>2, <2>3, <2>4, <2>5 DEF Next, Read
<1>3. CaughtSoFar => SubstitutionIsNotNone
  OBVIOUS
<1>4. QED
  BY <1>1, <1>2, <1>3, PTL DEF Spec

-----------------------------------------------------------------------------
(* A faithful source.                                                      *)
(* What a confirmed spend cannot be: it revealed a puzzle that runs, and   *)
(* its solution was accepted.                                              *)
SpentInv ==
    \A s \in spends : /\ s.solution = "valid"
                      /\ s.reveal \notin {BadSingletonPuzzle, GarbagePuzzle}

(* A spend that confirms keeps what is known of the spent coins.           *)
LEMMA SpentStep ==
    ASSUME SpentInv, [Next]_vars
    PROVE  SpentInv'
<1>1. CASE UNCHANGED chainVars
  BY <1>1 DEF SpentInv, chainVars
<1>2. ASSUME NEW coin \in created, NEW p \in Puzzles, Confirm(coin, p)
      PROVE  SpentInv'
  BY <1>2 DEF Confirm, SpentInv, CoinSpend
<1>3. QED
  BY <1>1, <1>2 DEF Next, vars, Grow, LedgerNext, Call, Read, ReadLauncher,
                    ReadCreator, ReadSingleton, Finish, Return, chainVars

(* An answer that is not wrong is the one spend of the coin asked for, or  *)
(* that there is none when there is none.                                  *)
LEMMA RightAnswers ==
    ASSUME NEW id, NEW answer, Wrongs(answer, id) = {}
    PROVE  \/ answer = NotFound /\ ~ Launched(id) /\ ~ IsBound(answer, id)
           \/ \E s \in spends : /\ answer = Found(s) /\ CoinId(s.coin) = id
                                /\ answer[2] = s /\ IsBound(answer, id)
BY DEF Wrongs, Recorded, Launched, Found, NotFound, IsBound

(* A source that makes nothing up is wrong only by failing or by lagging,  *)
(* and then there is nothing the walk could go on with.                    *)
LEMMA UnforgedAnswers ==
    ASSUME "forge" \notin Faults, NEW id, NEW answer \in Answers(id),
           Wrongs(answer, id) # {}
    PROVE  answer \in {NotFound, ReadError} /\ ~ IsBound(answer, id)
BY DEF Answers, Wrongs, Withheld, FailedReads, NotFound, ReadError, IsBound

(* What did_ref_from_spend makes of a confirmed spend.                     *)
LEMMA HonestRecognition ==
    ASSUME ChainInv, SpentInv, NEW s \in spends
    PROVE  \/ \E d \in Dids : s.reveal = DidPuzzle(d) /\ DidRefFromSpend(s) = OkSome(d)
           \/ /\ \A d \in Dids : s.reveal # DidPuzzle(d)
              /\ DidRefFromSpend(s) = OkNone
<1>1. /\ s.reveal \in Puzzles \ {BadSingletonPuzzle, GarbagePuzzle}
      /\ TreeHash(s.reveal) = s.coin.ph
      /\ s.solution = "valid"
  BY DEF ChainInv, SpentInv
<1>2. CASE s.reveal.mod = "did"
  <2>1. DidRefFromSpend(s) = OkSome(s.reveal.args[1])
    BY <1>1, <1>2 DEF DidRefFromSpend
  <2>2. QED
    BY <1>1, <1>2, <2>1, DidReveal
<1>3. CASE s.reveal.mod # "did"
  <2>1. s.reveal.mod # "bad_singleton"
    BY <1>1 DEF Puzzles, DidPuzzle, Curried, LauncherPuzzle, OrdinaryPuzzle,
       BadSingletonPuzzle, GarbagePuzzle, IntermediatePuzzle
  <2>2. DidRefFromSpend(s) = OkNone
    BY <1>1, <1>3, <2>1 DEF DidRefFromSpend
  <2>3. QED
    BY <1>3, <2>2 DEF DidPuzzle, Curried
<1>4. QED
  BY <1>2, <1>3

(* The chain is sound as long as it grows.                                 *)
LEMMA ChainOfSpec == Spec => [](ChainInv /\ WalkInv /\ SpentInv)
<1>1. Init => SpentInv
  BY DEF Init, LedgerInit, SpentInv
<1>2. SpentInv /\ [Next]_vars => SpentInv'
  BY SpentStep
<1>3. QED
  BY <1>1, <1>2, WalkAndChain, PTL DEF Spec

-----------------------------------------------------------------------------
(* read.rs:142-145.  Whatever the source, and whenever the chain grows     *)
(* under the walk, an error comes only of a read that failed or of an      *)
(* answer that was not the chain's, never of a source that lags.           *)
THEOREM HonestSourceIsNeverAccused == Spec => []HonestSourceIsNeverAnError
<1> USE DEF HonestSourceIsNeverAnError
<1>1. Init => HonestSourceIsNeverAnError
  BY DEF Init
<1>2. ChainInv /\ SpentInv /\ HonestSourceIsNeverAnError /\ [Next]_vars
        => HonestSourceIsNeverAnError'
  <2> SUFFICES ASSUME ChainInv, SpentInv, HonestSourceIsNeverAnError, [Next]_vars
               PROVE  HonestSourceIsNeverAnError'
    OBVIOUS
  <2>1. ASSUME NEW answer, NEW id, "faulty" \notin Wrongs(answer, id)
        PROVE  /\ ~ IsBound(answer, id) => UnboundOutcome(answer)[1] # "err"
               /\ IsBound(answer, id) => DidRefFromSpend(answer[2])[1] # "err"
    <3>1. CASE answer = NotFound
      BY <3>1 DEF UnboundOutcome, OkNone, IsBound, NotFound
    <3>2. CASE answer # NotFound
      <4>1. PICK s \in spends : answer[2] = s /\ IsBound(answer, id)
        BY <2>1, <3>2, RightAnswers DEF Wrongs
      <4>2. DidRefFromSpend(s)[1] # "err"
        BY HonestRecognition DEF OkNone, OkSome
      <4>3. QED
        BY <4>1, <4>2
    <3>3. QED
      BY <3>1, <3>2
  <2>2. ASSUME NEW answer, ReadLauncher(answer) PROVE HonestSourceIsNeverAnError'
    BY <2>1, <2>2 DEF ReadLauncher, Finish
  <2>3. ASSUME NEW answer, ReadCreator(answer) PROVE HonestSourceIsNeverAnError'
    BY <2>1, <2>3 DEF ReadCreator, Finish
  <2>4. ASSUME NEW answer, ReadSingleton(answer) PROVE HonestSourceIsNeverAnError'
    BY <2>1, <2>4 DEF ReadSingleton, Finish
  <2>5. ASSUME NEW coin, Call(coin) PROVE HonestSourceIsNeverAnError'
    BY <2>5 DEF Call
  <2>6. CASE Grow \/ Return \/ UNCHANGED vars
    BY <2>6 DEF Grow, Return, vars, walkVars
  <2>7. QED
    BY <2>2, <2>3, <2>4, <2>5, <2>6 DEF Next, Read
<1>3. QED
  BY <1>1, <1>2, ChainOfSpec, PTL DEF Spec
-----------------------------------------------------------------------------
(* A coin id commits to one DID at most: the hash of its parent's puzzle   *)
(* is either a DID's or the intermediate launcher's.                       *)
LEMMA OneCommitment ==
    ASSUME NEW id, NEW d, NEW e, CommitsTo(id, d), CommitsTo(id, e)
    PROVE  d = e
<1>1. \A n \in MintNumbers : \A x :
        TreeHash(IntermediatePuzzle(LauncherPh, n)) # TreeHash(DidPuzzle(x))
  BY DEF TreeHash, IntermediatePuzzle, DidPuzzle, Curried
<1>2. TreeHash(DidPuzzle(d)) = TreeHash(DidPuzzle(e)) => d = e
  BY DEF TreeHash, DidPuzzle, Curried
<1>3. QED
  BY <1>1, <1>2 DEF CommitsTo, ParentIs

(* What happened is what the id commits to: the converse of                *)
(* CommittedIsAuthorized.                                                  *)
LEMMA AuthorizedIsCommitted ==
    ASSUME ChainInv, NEW id, NEW d \in Dids, Authorized(id, d)
    PROVE  CommitsTo(id, d)
<1>1. ASSUME NEW x, CreatedBy(x, d)
      PROVE  ParentIs(x[2], TreeHash(DidPuzzle(d)))
  <2>1. PICK s \in spends, c \in created :
          s.reveal = DidPuzzle(d) /\ CoinId(c) = x /\ c.parent = CoinId(s.coin)
    BY <1>1 DEF CreatedBy
  <2>2. s.coin.ph = TreeHash(DidPuzzle(d))
    BY <2>1 DEF ChainInv
  <2>3. QED
    BY <2>1, <2>2 DEF ParentIs, CoinId
<1>2. CASE CreatedBy(id, d)
  BY <1>1, <1>2 DEF CommitsTo
<1>3. CASE CreatedThroughIntermediate(id, d)
  <2>1. PICK s \in spends, n \in MintNumbers :
          /\ s.coin.amount = 0
          /\ s.reveal = IntermediatePuzzle(LauncherPh, n)
          /\ CoinId(Coin(CoinId(s.coin), LauncherPh, 1)) = id
          /\ CreatedBy(CoinId(s.coin), d)
    BY <1>3 DEF CreatedThroughIntermediate
  <2>2. /\ id[2] = Coin(CoinId(s.coin), LauncherPh, 1)
        /\ id[2].parent[1] = "coin_id"
        /\ id[2].parent[2] = s.coin
        /\ CoinId(s.coin)[2] = s.coin
    BY <2>1 DEF CoinId, Coin
  <2>3. s.coin.ph = TreeHash(IntermediatePuzzle(LauncherPh, n))
    BY <2>1 DEF ChainInv
  <2>4. ParentIs(s.coin, TreeHash(DidPuzzle(d)))
    BY <1>1, <2>1, <2>2
  <2>5. QED
    BY <2>1, <2>2, <2>3, <2>4 DEF CommitsTo, ParentIs
<1>4. QED
  BY <1>2, <1>3 DEF Authorized

(* The owner a store id commits to, whatever the chain.                    *)
Verdict(id) ==
    IF \E d \in Dids : CommitsTo(id, d)
      THEN OkSome(CHOOSE d \in Dids : CommitsTo(id, d))
      ELSE OkNone

(* A DID the store id commits to is the verdict on that id.                *)
LEMMA VerdictIs ==
    ASSUME NEW id, NEW d \in Dids, CommitsTo(id, d)
    PROVE  Verdict(id) = OkSome(d)
BY OneCommitment DEF Verdict

(* The answer of one look at the chain never changes once there is one.    *)
LEMMA LookIsVerdict ==
    ASSUME ChainInv, NEW c \in created, Launched(CoinId(c))
    PROVE  OwnerOf(CoinId(c)) = Verdict(CoinId(c))
<1> DEFINE id == CoinId(c)
<1>1. \A d \in Dids : Authorized(id, d) <=> CommitsTo(id, d)
  BY AuthorizedIsCommitted, CommittedIsAuthorized
<1> HIDE DEF id
<1>2. CASE \E d \in Dids : Authorized(id, d)
  <2> DEFINE e == CHOOSE d \in Dids : Authorized(id, d)
  <2>1. e \in Dids /\ CommitsTo(id, e)
    BY <1>1, <1>2
  <2>2. OwnerOf(id) = OkSome(e)
    BY <1>2 DEF OwnerOf, id
  <2>3. QED
    BY <2>1, <2>2, VerdictIs DEF id
<1>3. CASE ~ \E d \in Dids : Authorized(id, d)
  BY <1>1, <1>3 DEF OwnerOf, Verdict, id
<1>4. QED
  BY <1>2, <1>3

(* What the walk holds on to while nothing is made up: coins of the chain, *)
(* and a launcher whose lineage is complete.  A fault ends the call, so    *)
(* until it ends there was none.                                           *)
FollowInv ==
    /\ pc \in {"creator", "singleton"} => launcherCoin \in created /\ Launched(storeId)
    /\ pc = "singleton" => creatorCoin \in created
    /\ pc # "done" => lies = {}

(* One look has the answer the walk is on its way to.                      *)
AnswerInv == pc \in {"creator", "singleton"} => OwnerOf(storeId) = Verdict(storeId)

(* A right answer is no lie of any kind: what a confirmed spend revealed   *)
(* hashes to its coin.                                                     *)
LEMMA RightIsNoLie ==
    ASSUME ChainInv, NEW id, NEW answer, Wrongs(answer, id) = {}
    PROVE  CoinLies(answer, id) = {} /\ Lies(answer, id) = {}
<1>1. CASE answer = NotFound
  BY <1>1 DEF Lies, CoinLies, RevealLies, NotFound
<1>2. CASE \E s \in spends : /\ answer[2] = s /\ IsBound(answer, id)
  BY <1>2 DEF ChainInv, Lies, CoinLies, RevealLies, IsBound
<1>3. QED
  BY <1>1, <1>2, RightAnswers

(* A read that moves the walk on was answered with what the chain holds.   *)
LEMMA BoundIsRight ==
    ASSUME "forge" \notin Faults, ChainInv, NEW id, NEW answer \in Answers(id),
           IsBound(answer, id)
    PROVE  /\ answer[2] \in spends /\ answer[2].coin \in created /\ Launched(id)
           /\ CoinLies(answer, id) = {} /\ Lies(answer, id) = {}
           /\ Wrongs(answer, id) = {}
<1>1. Wrongs(answer, id) = {}
  BY UnforgedAnswers
<1>2. PICK s \in spends : answer[2] = s /\ CoinId(s.coin) = id
  BY <1>1, RightAnswers
<1>3. QED
  BY <1>1, <1>2, RightIsNoLie DEF ChainInv, Launched

(* Each read that was answered leaves the walk on the lineage it follows.  *)
LEMMA FollowStep ==
    ASSUME "forge" \notin Faults, ChainInv, FollowInv, [Next]_vars
    PROVE  FollowInv'
<1>1. CASE Grow \/ UNCHANGED vars
  BY <1>1 DEF Grow, LedgerNext, Confirm, FollowInv, Launched, vars, walkVars
<1>2. ASSUME NEW coin, Call(coin) PROVE FollowInv'
  BY <1>2 DEF Call, FollowInv
<1>3. ASSUME NEW answer \in Answers(storeId), ReadLauncher(answer) PROVE FollowInv'
  <2>1. CASE IsBound(answer, storeId)
    BY <1>3, <2>1, BoundIsRight DEF ReadLauncher, FollowInv, Launched, chainVars
  <2>2. CASE ~ IsBound(answer, storeId)
    BY <1>3, <2>2 DEF ReadLauncher, Finish, FollowInv
  <2>3. QED
    BY <2>1, <2>2
<1>4. ASSUME NEW answer \in Answers(launcherCoin.parent), ReadCreator(answer) PROVE FollowInv'
  <2>1. CASE pc' = "singleton"
    <3>1. IsBound(answer, launcherCoin.parent)
      BY <1>4, <2>1 DEF ReadCreator, Finish
    <3>2. QED
      BY <1>4, <2>1, <3>1, BoundIsRight DEF ReadCreator, Finish, FollowInv, Launched, chainVars
  <2>2. CASE pc' # "singleton"
    BY <1>4, <2>2 DEF ReadCreator, Finish, FollowInv
  <2>3. QED
    BY <2>1, <2>2
<1>5. CASE Return \/ \E answer \in Answers(creatorCoin.parent) : ReadSingleton(answer)
  BY <1>5 DEF Return, ReadSingleton, Finish, FollowInv
<1>6. QED
  BY <1>1, <1>2, <1>3, <1>4, <1>5 DEF Next, Read

(* It stays on it, and what it will answer is what one look at the chain   *)
(* says now.                                                               *)
LEMMA FollowOfSpec ==
    ASSUME "forge" \notin Faults
    PROVE  Spec => [](FollowInv /\ AnswerInv)
<1>1. Init => FollowInv
  BY DEF Init, FollowInv
<1>2. ChainInv /\ FollowInv /\ [Next]_vars => FollowInv'
  BY FollowStep
<1>3. ChainInv /\ WalkInv /\ FollowInv => AnswerInv
  BY LookIsVerdict DEF FollowInv, AnswerInv, WalkInv
<1>4. QED
  BY <1>1, <1>2, <1>3, ChainOfSpec, PTL DEF Spec

-----------------------------------------------------------------------------
(* The creator's spend gives the verdict, unless it is the intermediate.   *)
LEMMA CreatorDecides ==
    ASSUME ChainInv, SpentInv, NEW c, NEW s \in spends, CoinId(s.coin) = c.parent,
           ~ (DidRefFromSpend(s) = OkNone /\ IsLauncherIntermediate(s, c))
    PROVE  DidRefFromSpend(s) = Verdict(CoinId(c))
<1>1. /\ CoinId(c)[2] = c
      /\ c.parent[1] = "coin_id" /\ c.parent[2] = s.coin
      /\ s.coin.ph = TreeHash(s.reveal)
  BY DEF CoinId, ChainInv
<1>2. ASSUME NEW d \in Dids, s.reveal = DidPuzzle(d), DidRefFromSpend(s) = OkSome(d)
      PROVE  DidRefFromSpend(s) = Verdict(CoinId(c))
  <2>1. CommitsTo(CoinId(c), d)
    BY <1>1, <1>2 DEF CommitsTo, ParentIs
  <2>2. QED
    BY <1>2, <2>1, VerdictIs
<1>3. ASSUME \A d \in Dids : s.reveal # DidPuzzle(d), DidRefFromSpend(s) = OkNone
      PROVE  DidRefFromSpend(s) = Verdict(CoinId(c))
  <2>1. \A p : s.coin.ph = TreeHash(p) => s.reveal = p
    BY <1>1 DEF TreeHash
  <2>2. ASSUME NEW d \in Dids, CommitsTo(CoinId(c), d)
        PROVE  FALSE
    <3>1. PICK n \in MintNumbers :
            /\ ParentIs(c, TreeHash(IntermediatePuzzle(LauncherPh, n)))
            /\ c = Coin(CoinId(c.parent[2]), LauncherPh, 1)
            /\ c.parent[2].amount = 0
      BY <1>1, <1>3, <2>1, <2>2 DEF CommitsTo, ParentIs
    <3>2. s.reveal = IntermediatePuzzle(LauncherPh, n)
      BY <1>1, <2>1, <3>1 DEF ParentIs
    <3>3. /\ s.reveal # GarbagePuzzle
          /\ s.reveal.mod = "nft_intermediate" /\ s.reveal.args[1] = LauncherPh
      BY <3>2 DEF IntermediatePuzzle, GarbagePuzzle, Curried
    <3>4. IsLauncherIntermediate(s, c)
      BY <1>1, <3>1, <3>3 DEF IsLauncherIntermediate
    <3>5. QED
      BY <1>3, <3>4
  <2>3. QED
    BY <1>3, <2>2 DEF Verdict
<1>4. QED
  BY <1>2, <1>3, HonestRecognition

(* Past the intermediate, the singleton's spend does, or its absence.      *)
LEMMA SingletonDecides ==
    ASSUME ChainInv, SpentInv, NEW c, NEW creator \in created, NEW n \in MintNumbers,
           c = Coin(CoinId(creator), LauncherPh, 1),
           creator.ph = TreeHash(IntermediatePuzzle(LauncherPh, n)), creator.amount = 0
    PROVE  /\ \A s \in spends : CoinId(s.coin) = creator.parent =>
                DidRefFromSpend(s) = Verdict(CoinId(c))
           /\ ~ Launched(creator.parent) => Verdict(CoinId(c)) = OkNone
<1>1. /\ CoinId(c)[2] = c
      /\ c.parent[1] = "coin_id" /\ c.parent[2] = creator
      /\ c = Coin(CoinId(c.parent[2]), LauncherPh, 1)
  BY DEF CoinId, Coin
<1>2. \A d \in Dids : CommitsTo(CoinId(c), d) <=> ParentIs(creator, TreeHash(DidPuzzle(d)))
  <2>1. \A d \in Dids : creator.ph # TreeHash(DidPuzzle(d))
    BY DEF TreeHash, IntermediatePuzzle, DidPuzzle, Curried
  <2>2. QED
    BY <1>1, <2>1 DEF CommitsTo, ParentIs
<1>3. ASSUME NEW s \in spends, CoinId(s.coin) = creator.parent
      PROVE  DidRefFromSpend(s) = Verdict(CoinId(c))
  <2>1. creator.parent[1] = "coin_id" /\ creator.parent[2] = s.coin
    BY <1>3 DEF CoinId
  <2>2. s.coin.ph = TreeHash(s.reveal)
    BY DEF ChainInv
  <2>3. ASSUME NEW d \in Dids, s.reveal = DidPuzzle(d), DidRefFromSpend(s) = OkSome(d)
        PROVE  DidRefFromSpend(s) = Verdict(CoinId(c))
    BY <1>2, <2>1, <2>2, <2>3, VerdictIs DEF ParentIs
  <2>4. ASSUME \A d \in Dids : s.reveal # DidPuzzle(d), DidRefFromSpend(s) = OkNone
        PROVE  DidRefFromSpend(s) = Verdict(CoinId(c))
    <3>1. \A d \in Dids : s.coin.ph # TreeHash(DidPuzzle(d))
      BY <2>2, <2>4 DEF TreeHash
    <3>2. QED
      BY <1>2, <2>1, <2>4, <3>1 DEF ParentIs, Verdict
  <2>5. QED
    BY <2>3, <2>4, HonestRecognition
<1>4. ASSUME ~ Launched(creator.parent)
      PROVE  Verdict(CoinId(c)) = OkNone
  <2>1. creator.parent = Genesis
    BY <1>4 DEF ChainInv, Launched
  <2>2. \A d \in Dids : ~ ParentIs(creator, TreeHash(DidPuzzle(d)))
    BY <2>1 DEF ParentIs, Genesis
  <2>3. QED
    BY <1>2, <2>2 DEF Verdict
<1>5. QED
  BY <1>3, <1>4

(* OwnerQuery speaks of coins and puzzles as the walk does.                *)
LEMMA SameVocabulary ==
    /\ \A c : Query!CoinId(c) = CoinId(c)
    /\ \A id, ph, n : Query!Coin(id, ph, n) = Coin(id, ph, n)
    /\ \A d : Query!DidPuzzle(d) = DidPuzzle(d)
    /\ \A ph, n : Query!IntermediatePuzzle(ph, n) = IntermediatePuzzle(ph, n)
    /\ Query!LauncherPh = LauncherPh
BY DEF CoinId, Coin, DidPuzzle, IntermediatePuzzle, LauncherPh, LauncherPuzzle,
       TreeHash, Curried, Query!CoinId, Query!Coin, Query!DidPuzzle,
       Query!IntermediatePuzzle, Query!LauncherPh, Query!LauncherPuzzle,
       Query!TreeHash, Query!Curried

(* OwnerQuery's owners are the DIDs that authorized the store.             *)
LEMMA OwnersAreAuthorized ==
    ASSUME NEW id
    PROVE  Query!OwnersOf(id) = {d \in Dids : Launched(id) /\ Authorized(id, d)}
<1>1. \A x : Query!Creators(x) = {d \in Dids : CreatedBy(x, d)}
  BY SameVocabulary DEF Query!Creators, CreatedBy
<1>2. UNION {Query!Creators(CoinId(s.coin)) : s \in Query!Intermediates(id)}
        = {d \in Dids : CreatedThroughIntermediate(id, d)}
  BY <1>1, SameVocabulary DEF Query!Intermediates, CreatedThroughIntermediate
<1>3. QED
  BY <1>1, <1>2, SameVocabulary DEF Query!OwnersOf, Launched, Authorized

(* Both specifications have the same chain.                                *)
LEMMA SameLedger ==
    /\ LedgerInit => Query!LedgerInit
    /\ LedgerNext => Query!LedgerNext
<1>1. /\ \A p : Query!TreeHash(p) = TreeHash(p)
      /\ Query!Genesis = Genesis
      /\ \A c, p, s : Query!CoinSpend(c, p, s) = CoinSpend(c, p, s)
      /\ Query!LauncherPuzzle = LauncherPuzzle
      /\ Query!OrdinaryPuzzle = OrdinaryPuzzle
      /\ Query!BadSingletonPuzzle = BadSingletonPuzzle
      /\ Query!GarbagePuzzle = GarbagePuzzle
  BY DEF TreeHash, Genesis, CoinSpend, LauncherPuzzle, OrdinaryPuzzle,
         BadSingletonPuzzle, GarbagePuzzle, Curried,
         Query!TreeHash, Query!Genesis, Query!CoinSpend, Query!LauncherPuzzle,
         Query!OrdinaryPuzzle, Query!BadSingletonPuzzle, Query!GarbagePuzzle,
         Query!Curried
<1>2. Query!GenesisCoins = GenesisCoins
  BY <1>1, SameVocabulary DEF Query!GenesisCoins, GenesisCoins
<1>3. Query!Puzzles = Puzzles
  BY <1>1, SameVocabulary DEF Query!Puzzles, Puzzles
<1>4. Query!SpentCoins = SpentCoins
  BY DEF Query!SpentCoins, SpentCoins
<1>5. \A c, d : Query!IsSuccessor(c, d) <=> IsSuccessor(c, d)
  BY <1>1, SameVocabulary DEF Query!IsSuccessor, IsSuccessor
<1>6. \A c, p : Query!Outputs(c, p) = Outputs(c, p)
  BY DEF Query!Outputs, Outputs
<1>7. ASSUME NEW coin \in created, NEW p \in Puzzles, Confirm(coin, p)
      PROVE  Query!Confirm(coin, p)
  <2>1. Query!Cardinality(spends) = Cardinality(spends)
    BY DEF Query!Cardinality, Cardinality
  <2>2. PICK outs \in Query!Outputs(coin, p) :
          created' = created \cup {Coin(CoinId(coin), o.ph, o.amount) : o \in outs}
    BY <1>6, <1>7 DEF Confirm
  <2>3. created' = created \cup
          {Query!Coin(Query!CoinId(coin), o.ph, o.amount) : o \in outs}
    BY <2>2, SameVocabulary
  <2>4. QED
    BY <1>1, <1>4, <1>5, <1>7, <2>1, <2>3 DEF Query!Confirm, Confirm
<1>8. LedgerNext => Query!LedgerNext
  BY <1>3, <1>7 DEF Query!LedgerNext, LedgerNext
<1>9. LedgerInit => Query!LedgerInit
  BY <1>2 DEF Query!LedgerInit, LedgerInit
<1>10. QED
  BY <1>8, <1>9

-----------------------------------------------------------------------------
(* A call that ends because the source faltered is a query that does.      *)
LEMMA FalterStep ==
    ASSUME pc \in {"launcher", "creator", "singleton"}, lies = {},
           pc' = "done", lies' # {}, outcome' \in {OkNone, Err("Chain")},
           UNCHANGED <<created, spends, storeId>>
    PROVE  Query!Falter
<1>1. phase \in {"asked", "answered"} /\ phase' = "answered"
  BY DEF phase
<1>2. answerSoFar' \in {<<"none">>, <<"err", "Chain">>}
  BY DEF answerSoFar, OkNone, Err
<1>3. QED
  BY <1>1, <1>2 DEF Query!Falter, Query!chainVars

(* An answer that is wrong while nothing is made up ends the call, with    *)
(* none or an error of the source.                                         *)
LEMMA WrongEnds ==
    ASSUME "forge" \notin Faults, NEW id, NEW answer \in Answers(id),
           Wrongs(answer, id) # {}
    PROVE  /\ ~ IsBound(answer, id)
           /\ UnboundOutcome(answer) \in {OkNone, Err("Chain")}
BY UnforgedAnswers DEF UnboundOutcome

(* Every step of the walk is a step of the query or leaves it as it is.    *)
LEMMA QueryStep ==
    ASSUME "forge" \notin Faults, ChainInv, WalkInv, SpentInv, FollowInv, AnswerInv,
           FollowInv', AnswerInv', [Next]_vars
    PROVE  [Query!QueryNext]_<<Query!chainVars, Query!queryVars>>
<1> DEFINE queried == <<Query!chainVars, Query!queryVars>>
<1> USE DEF Query!queryVars, Query!chainVars
<1>0. storeId' = storeId => Verdict(storeId)' = Verdict(storeId)
  BY DEF Verdict, OkSome, OkNone, CommitsTo, ParentIs, TreeHash, DidPuzzle,
         IntermediatePuzzle, LauncherPh, LauncherPuzzle, Curried, Coin, CoinId
<1>1. CASE Grow
  <2>1. LedgerNext /\ UNCHANGED walkVars
    BY <1>1 DEF Grow
  <2>2. phase' = phase /\ storeId' = storeId /\ (lies # {})' = (lies # {})
    BY <2>1 DEF walkVars, phase
  <2>3. answerSoFar' = answerSoFar
    BY <1>0, <2>1 DEF walkVars, answerSoFar, AnswerInv
  <2>4. QED
    BY <2>1, <2>2, <2>3, SameLedger DEF Query!QueryNext
<1>2. ASSUME NEW coin, Call(coin) PROVE [Query!QueryNext]_queried
  <2>1. Query!Ask
    BY <1>2 DEF Call, Query!Ask, phase, answerSoFar, chainVars, OkNone, FollowInv
  <2>2. QED
    BY <2>1 DEF Query!QueryNext
<1>3. ASSUME NEW answer \in Answers(storeId), ReadLauncher(answer)
      PROVE  [Query!QueryNext]_queried
  <2>1. /\ pc = "launcher" /\ phase = "asked" /\ phase' = "answered" /\ lies = {}
        /\ UNCHANGED <<created, spends, storeId>>
        /\ lies' = lies \cup CoinLies(answer, storeId) \cup Wrongs(answer, storeId)
    BY <1>3 DEF ReadLauncher, Finish, phase, chainVars, FollowInv
  <2>2. CASE Wrongs(answer, storeId) # {}
    <3>1. pc' = "done" /\ outcome' = UnboundOutcome(answer)
      BY <1>3, <2>2, WrongEnds DEF ReadLauncher, Finish
    <3>2. Query!Falter
      BY <2>1, <2>2, <3>1, WrongEnds, FalterStep
    <3>3. QED
      BY <3>2 DEF Query!QueryNext
  <2>3. CASE Wrongs(answer, storeId) = {}
    <3>1. lies' = {}
      BY <2>1, <2>3, RightIsNoLie
    <3>2. CASE answer = NotFound /\ ~ Launched(storeId) /\ ~ IsBound(answer, storeId)
      <4>1. answerSoFar' = OkNone
        BY <1>3, <3>2 DEF ReadLauncher, Finish, answerSoFar, UnboundOutcome
      <4>2. Query!OwnersOf(storeId) = {}
        BY <3>2, OwnersAreAuthorized
      <4>3. QED
        BY <2>1, <3>1, <4>1, <4>2 DEF Query!QueryNext, Query!Look, OkNone
    <3>3. CASE Launched(storeId) /\ IsBound(answer, storeId)
      <4>1. answerSoFar' = OwnerOf(storeId)
        BY <1>3, <2>1, <3>3 DEF ReadLauncher, answerSoFar, OwnerOf, Launched,
           Authorized, CreatedBy, CreatedThroughIntermediate
      <4>2. answerSoFar' \in IF Query!OwnersOf(storeId) = {} THEN {OkNone}
                             ELSE {OkSome(d) : d \in Query!OwnersOf(storeId)}
        BY <3>3, <4>1, OwnersAreAuthorized DEF OwnerOf
      <4>3. QED
        BY <2>1, <3>1, <4>2 DEF Query!QueryNext, Query!Look, OkNone, OkSome
    <3>4. QED
      BY <2>3, <3>2, <3>3, RightAnswers DEF Launched
  <2>4. QED
    BY <2>2, <2>3
<1>4. ASSUME NEW answer \in Answers(launcherCoin.parent), ReadCreator(answer)
      PROVE  [Query!QueryNext]_queried
  <2>1. /\ pc = "creator" /\ launcherCoin \in created /\ CoinId(launcherCoin) = storeId
        /\ OwnerOf(storeId) = Verdict(storeId)
        /\ UNCHANGED <<created, spends, storeId>>
        /\ phase = "answered" /\ phase' = "answered" /\ lies = {}
        /\ answerSoFar = Verdict(storeId)
        /\ lies' = lies \cup Lies(answer, launcherCoin.parent)
                        \cup Wrongs(answer, launcherCoin.parent)
    BY <1>4 DEF ReadCreator, Finish, FollowInv, WalkInv, AnswerInv, phase, answerSoFar, chainVars
  <2>2. CASE Wrongs(answer, launcherCoin.parent) # {}
    <3>1. pc' = "done" /\ outcome' = UnboundOutcome(answer)
      BY <1>4, <2>2, WrongEnds DEF ReadCreator, Finish
    <3>2. Query!Falter
      BY <2>1, <2>2, <3>1, WrongEnds, FalterStep
    <3>3. QED
      BY <3>2 DEF Query!QueryNext
  <2>3. CASE Wrongs(answer, launcherCoin.parent) = {}
    <3>1. lies' = {}
      BY <2>1, <2>3, RightIsNoLie
    <3>2. answerSoFar' = Verdict(storeId)
      <4>1. CASE answer = NotFound /\ ~ Launched(launcherCoin.parent)
                  /\ ~ IsBound(answer, launcherCoin.parent)
        <5>1. pc' = "done" /\ outcome' = OkNone
          BY <1>4, <4>1 DEF ReadCreator, Finish, UnboundOutcome
        <5>2. launcherCoin.parent = Genesis
          BY <2>1, <4>1 DEF ChainInv, Launched
        <5>3. \A d \in Dids : ~ CommitsTo(storeId, d)
          BY <2>1, <5>2 DEF CommitsTo, ParentIs, CoinId, Genesis
        <5>4. Verdict(storeId) = OkNone
          BY <5>3 DEF Verdict
        <5>5. QED
          BY <5>1, <5>4 DEF answerSoFar
      <4>2. ASSUME NEW s \in spends, CoinId(s.coin) = launcherCoin.parent,
                   answer[2] = s, IsBound(answer, launcherCoin.parent)
            PROVE  answerSoFar' = Verdict(storeId)
        <5>1. CASE DidRefFromSpend(s) = OkNone /\ IsLauncherIntermediate(s, launcherCoin)
          <6>1. pc' = "singleton"
            BY <1>4, <4>2, <5>1 DEF ReadCreator
          <6>2. QED
            BY <1>0, <2>1, <6>1 DEF answerSoFar, AnswerInv
        <5>2. CASE ~ (DidRefFromSpend(s) = OkNone /\ IsLauncherIntermediate(s, launcherCoin))
          <6>1. pc' = "done" /\ outcome' = DidRefFromSpend(s)
            BY <1>4, <4>2, <5>2 DEF ReadCreator, Finish
          <6>2. DidRefFromSpend(s) = Verdict(storeId)
            BY <2>1, <4>2, <5>2, CreatorDecides
          <6>3. QED
            BY <6>1, <6>2 DEF answerSoFar
        <5>3. QED
          BY <5>1, <5>2
      <4>3. QED
        BY <2>3, <4>1, <4>2, RightAnswers
    <3>3. QED
      BY <2>1, <3>1, <3>2
  <2>4. QED
    BY <2>2, <2>3
<1>5. ASSUME NEW answer \in Answers(creatorCoin.parent), ReadSingleton(answer)
      PROVE  [Query!QueryNext]_queried
  <2>1. /\ pc = "singleton" /\ creatorCoin \in created
        /\ CoinId(launcherCoin) = storeId
        /\ launcherCoin = Coin(CoinId(creatorCoin), LauncherPh, 1)
        /\ \E n \in MintNumbers : creatorCoin.ph = TreeHash(IntermediatePuzzle(LauncherPh, n))
        /\ creatorCoin.amount = 0
        /\ UNCHANGED <<created, spends, storeId>>
        /\ phase = "answered" /\ phase' = "answered" /\ lies = {} /\ pc' = "done"
        /\ answerSoFar = Verdict(storeId)
        /\ lies' = lies \cup Lies(answer, creatorCoin.parent)
                        \cup Wrongs(answer, creatorCoin.parent)
    BY <1>5 DEF ReadSingleton, Finish, FollowInv, WalkInv, AnswerInv, phase, answerSoFar, chainVars
  <2>2. CASE Wrongs(answer, creatorCoin.parent) # {}
    <3>1. outcome' = UnboundOutcome(answer)
      BY <1>5, <2>2, WrongEnds DEF ReadSingleton, Finish
    <3>2. Query!Falter
      BY <2>1, <2>2, <3>1, WrongEnds, FalterStep
    <3>3. QED
      BY <3>2 DEF Query!QueryNext
  <2>3. CASE Wrongs(answer, creatorCoin.parent) = {}
    <3>1. lies' = {}
      BY <2>1, <2>3, RightIsNoLie
    <3>2. /\ \A s \in spends : CoinId(s.coin) = creatorCoin.parent =>
               DidRefFromSpend(s) = Verdict(storeId)
          /\ ~ Launched(creatorCoin.parent) => Verdict(storeId) = OkNone
      BY <2>1, SingletonDecides
    <3>3. outcome' = Verdict(storeId)
      <4>1. CASE answer = NotFound /\ ~ Launched(creatorCoin.parent)
                  /\ ~ IsBound(answer, creatorCoin.parent)
        BY <1>5, <3>2, <4>1 DEF ReadSingleton, Finish, UnboundOutcome
      <4>2. ASSUME NEW s \in spends, CoinId(s.coin) = creatorCoin.parent,
                   answer[2] = s, IsBound(answer, creatorCoin.parent)
            PROVE  outcome' = Verdict(storeId)
        BY <1>5, <3>2, <4>2 DEF ReadSingleton, Finish
      <4>3. QED
        BY <2>3, <4>1, <4>2, RightAnswers
    <3>4. QED
      BY <2>1, <3>1, <3>3 DEF answerSoFar
  <2>4. QED
    BY <2>2, <2>3
<1>6. CASE Return
  <2>1. Query!Take
    BY <1>6 DEF Return, Query!Take, phase, answerSoFar, chainVars, OkNone
  <2>2. QED
    BY <2>1 DEF Query!QueryNext
<1>7. CASE UNCHANGED vars
  <2>1. UNCHANGED <<created, spends, storeId, phase>> /\ (lies # {})' = (lies # {})
    BY <1>7 DEF vars, phase
  <2>2. answerSoFar' = answerSoFar
    BY <1>0, <1>7 DEF vars, answerSoFar, AnswerInv
  <2>3. QED
    BY <2>1, <2>2
<1>8. QED
  BY <1>1, <1>2, <1>3, <1>4, <1>5, <1>6, <1>7 DEF Next, Read

(* read.rs:107-151.  As long as nothing is made up, three reads over a     *)
(* growing chain amount to one look at it: the safety of AnswersAsOneLook. *)
(* A read that fails or lags can spoil the look, never change what it saw. *)
THEOREM WalkIsOneLook ==
    ASSUME "forge" \notin Faults
    PROVE  Spec => Query!QuerySafety
<1>1. Init => Query!QueryInit
  BY SameLedger DEF Init, Query!QueryInit, phase, answerSoFar, OkNone
<1>2. /\ ChainInv /\ WalkInv /\ SpentInv /\ FollowInv /\ AnswerInv
      /\ FollowInv' /\ AnswerInv' /\ [Next]_vars
      => [Query!QueryNext]_<<Query!chainVars, Query!queryVars>>
  BY QueryStep
<1>3. QED
  BY <1>1, <1>2, ChainOfSpec, FollowOfSpec, PTL DEF Spec, Query!QuerySafety
=============================================================================
