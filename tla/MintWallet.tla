---------------------------- MODULE MintWallet ----------------------------
(***************************************************************************)
(* mint.rs: mint_datastore_with_kind, called by a wallet that funds mints  *)
(* from its own coins, submits the bundles in any order, retries a mint    *)
(* from a coin it already used, and funds later mints from the change.  A  *)
(* bundle is built unsigned; what it needs is reported (sign.rs) and the   *)
(* holder of the key signs it, for a network and when he likes.            *)
(* Amounts are u64; U64Max is the width, small in a run.                   *)
(***************************************************************************)
EXTENDS LaunchBuilder

CONSTANTS
    U64Max,
    Keys,         \* synthetic public keys
    Kinds,
    Fees,         \* the fees asked for, u64
    Funding,      \* the coins the wallet starts with
    Networks,     \* networks, each with its AGG_SIG_ME additional data
    ThisNetwork,  \* the one this chain is
    MaxMints      \* bound: the calls of one behaviour

P2Hash(key) == TreeHash(Curried("standard", <<key>>))

ASSUME BoundsAreNat  == U64Max \in Nat /\ MaxMints \in Nat
ASSUME FeesAreU64    == Fees \subseteq 0..U64Max
(* The wallet starts with coins older than everything modelled.            *)
ASSUME FundingIsOld  == IsFiniteSet(Funding) /\ \A c \in Funding :
                            /\ c = Coin(Genesis, c.ph, c.amount)
                            /\ c.amount \in 0..U64Max

VARIABLES
    unspent,    \* the coins of the chain
    spent,      \* the coins it has seen spent
    built,      \* the mints that returned Ok
    approved,   \* the bundles a key's holder has signed: [bundle, network]
    confirmed,  \* those the chain accepted
    calls, result

vars == <<unspent, spent, built, approved, confirmed, calls, result>>

Init ==
    /\ unspent = Funding /\ spent = {} /\ built = {} /\ approved = {} /\ confirmed = {}
    /\ calls = 0 /\ result = "none"
-----------------------------------------------------------------------------
(* types.rs, Owner: a key, or an inner spend built in advance - here one   *)
(* that sends the whole coin back to its key.                              *)
Standard(key) == [form |-> "standard", key |-> key]
Custom(key)   == [form |-> "custom", key |-> key]
OwnerArguments == {Standard(k) : k \in Keys} \cup {Custom(k) : k \in Keys}

(* context.rs, inner_spend: the supplied conditions, or what Custom says.  *)
InnerSpend(owner, coin, creates, asserts) ==
    IF owner.form = "standard"
      THEN SpendRevealing(P2Hash(owner.key), coin, creates, asserts)
      ELSE SpendRevealing(P2Hash(owner.key), coin,
                          <<CreateCoin(P2Hash(owner.key), coin.amount, NoMemos)>>, {})

(* Mutant: the guard on Owner::Custom is gone.                             *)
AcceptsAnyOwner(owner) == TRUE

AcceptsOwner(owner) == owner.form # "custom"

(* Mutant: the launcher's mojo and the store's are both reserved.          *)
ReservedTwice(fee) == fee + 2

(* fee.checked_add(1), U64Max + 1 standing for None.                       *)
Reserved(fee) == fee + 1

(* Mutant: the subtraction is not guarded and underflows.                  *)
ChangeUnguarded(amount, reserved, ph) == <<CreateCoin(ph, amount - reserved, <<ph>>)>>

(* The surplus above the reserve returns to the owner, hinted.             *)
Change(amount, reserved, ph) ==
    IF amount > reserved THEN <<CreateCoin(ph, amount - reserved, <<ph>>)>> ELSE <<>>

(* types.rs, MerkleCoinSpend: unsigned spends and the store they make.     *)
MerkleCoinSpend(coinSpends, child) ==
    [is |-> "ok", bundle |-> coinSpends, datastore |-> child]

(* mint_datastore_with_kind, with a context of its own.                    *)
MintWithKind(kind, coin, owner, ph, fee) ==
    LET launch == LaunchWithKind({}, kind, NewLauncher(CoinId(coin), 1), ph)
    IN IF ~ AcceptsOwner(owner) THEN [is |-> "unsupported_owner"]
       ELSE IF launch.is # "ok" THEN [is |-> launch.is]
       ELSE IF Reserved(fee) > U64Max THEN [is |-> "fee_overflow"]
       ELSE MerkleCoinSpend(
              launch.ctx \cup
                {InnerSpend(owner, coin,
                            launch.creates \o Change(coin.amount, Reserved(fee), ph),
                            launch.asserts)},
              launch.datastore)
-----------------------------------------------------------------------------
(* Mutant: the owner's signature is asked as an AGG_SIG_UNSAFE.            *)
AggSigsUnsafe(spend) ==
    {[kind |-> "unsafe", key |-> k, over |-> <<spend.creates, spend.asserts>>] :
        k \in {k \in Keys : spend.reveal = P2Hash(k)}}

(* What a spend demands: the standard puzzle an AGG_SIG_ME of its key over *)
(* its conditions, a launcher nothing.                                     *)
AggSigs(spend) ==
    {[kind |-> "me", key |-> k, over |-> <<spend.creates, spend.asserts>>] :
        k \in {k \in Keys : spend.reveal = P2Hash(k)}}

(* The message behind a demand: AGG_SIG_ME ties it to coin and network.    *)
Message(demand, spend, network) ==
    IF demand.kind = "me" THEN <<demand.over, CoinId(spend.coin), network>>
    ELSE <<demand.over>>

(* The chain's rule: every demand is met by one of the signatures.         *)
Authorized(bundle, signatures) ==
    \A s \in bundle : \A demand \in AggSigs(s) :
        [key |-> demand.key, message |-> Message(demand, s, ThisNetwork)] \in signatures

(* required_signatures.                                                    *)
RequiredSignatures(bundle, network) ==
    UNION {{[key |-> d.key, message |-> Message(d, s, network)] : d \in AggSigs(s)} :
              s \in bundle}

(* Whoever sees a signature can use it again.                              *)
Signatures == UNION {RequiredSignatures(a.bundle, a.network) : a \in approved}
-----------------------------------------------------------------------------
(* A call, on a coin the wallet knows - spent already or not.              *)
Mint(kind, coin, owner, ph, fee) ==
    LET returned == MintWithKind(kind, coin, owner, ph, fee)
    IN /\ calls < MaxMints
       /\ calls' = calls + 1
       /\ result' = returned.is
       /\ built' = IF returned.is # "ok" THEN built
                   ELSE built \cup {[coin |-> coin, owner |-> owner, ph |-> ph, fee |-> fee,
                                     kind |-> kind, bundle |-> returned.bundle,
                                     datastore |-> returned.datastore]}
       /\ UNCHANGED <<unspent, spent, approved, confirmed>>

(* The key's holder signs what required_signatures reports.                *)
Sign(mint, network) ==
    /\ approved' = approved \cup {[bundle |-> mint.bundle, network |-> network]}
    /\ UNCHANGED <<unspent, spent, built, confirmed, calls, result>>

(* The chain takes a bundle, with whatever signatures there are by now.    *)
Confirm(mint) ==
    LET inputs == {s.coin : s \in mint.bundle}
    IN /\ Valid(mint.bundle, unspent)
       /\ Authorized(mint.bundle, Signatures)
       /\ unspent' = (unspent \cup AllOutputs(mint.bundle)) \ inputs
       /\ spent' = spent \cup inputs
       /\ confirmed' = confirmed \cup {mint}
       /\ UNCHANGED <<built, approved, calls, result>>

(* A coin of the wallet: one of its keys can spend it.                     *)
WalletCoins == {c \in unspent \cup spent : \E k \in Keys : c.ph = P2Hash(k)}

Next ==
    \/ \E kind \in Kinds, coin \in WalletCoins, owner \in OwnerArguments,
          key \in Keys, fee \in Fees : Mint(kind, coin, owner, P2Hash(key), fee)
    \/ \E mint \in built, network \in Networks : Sign(mint, network)
    \/ \E mint \in built : Confirm(mint)

Spec == Init /\ [][Next]_vars
-----------------------------------------------------------------------------
(* Every amount, in a bundle or on chain, fits the width; no coin is both  *)
(* spent and unspent; only mints that were built are confirmed.            *)
WalletTypeOK ==
    /\ \A c \in unspent \cup spent : c.amount \in 0..U64Max
    /\ \A m \in built : \A s \in m.bundle : \A i \in DOMAIN s.creates :
         s.creates[i].amount \in 0..U64Max
    /\ unspent \cap spent = {}
    /\ confirmed \subseteq built
    /\ {a.bundle : a \in approved} \subseteq {m.bundle : m \in built}
    /\ calls \in 0..MaxMints
    /\ result \in {"none", "ok", "unsupported_owner", "fee_overflow"}

OwnsTheCoin(m) == m.coin.ph = P2Hash(m.owner.key)

(* mint.rs:138-148, 173-179; sign.rs:30-36.  A mint that returned Ok for a *)
(* coin its key controls and that holds the launcher's mojo would confirm  *)
(* if that coin were unspent, with just what required_signatures reports:  *)
(* one signature, of the owner's key.  It makes the launcher it promises.  *)
BuiltMintIsLaunchable ==
    \A m \in built :
        OwnsTheCoin(m) /\ m.coin.amount >= 1 =>
            LET required == RequiredSignatures(m.bundle, ThisNetwork)
            IN /\ Valid(m.bundle, {m.coin})
               /\ Authorized(m.bundle, required)
               /\ Cardinality(required) = 1 /\ \A r \in required : r.key = m.owner.key
               /\ m.datastore \in AllOutputs(m.bundle)

(* sign.rs:18-24; context.rs:33-36.  Nothing is spent that its key did not *)
(* sign as it is and for this network: signatures of a mint abandoned or   *)
(* repriced, of one from another coin, or of one meant for another network *)
(* never confirm a bundle.                                                 *)
OnlySignedMintsConfirm ==
    \A m \in confirmed : [bundle |-> m.bundle, network |-> ThisNetwork] \in approved

Total(coins) == MapThenSumSet(LAMBDA c : c.amount, coins)

(* What a mint may burn: its fee, or what an underfunded coin has left.    *)
Burns(m) == IF m.fee < m.coin.amount THEN m.fee ELSE m.coin.amount - 1

(* mint.rs:42-46, 181-195.  Over any sequence of mints, retries and mints  *)
(* funded by change, the chain has lost exactly the fees of the mints that *)
(* confirmed: nothing is burned and nothing is created.                    *)
OnlyFeesAreLost ==
    Total(unspent) + MapThenSumSet(Burns, confirmed) = Total(Funding)
=============================================================================
