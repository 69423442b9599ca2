--------------------------- MODULE StoreRegister ---------------------------
(***************************************************************************)
(* What a store promises the clients that share it: a compare-and-swap     *)
(* register.  Its content is what the store coin commits to and its token  *)
(* the coin itself.  A client's offer names the token it was built on and  *)
(* the content the client saw there; it takes effect only while the        *)
(* register is still at that token, and then it overwrites exactly the     *)
(* content the client saw: no update is lost, none is applied to a state   *)
(* its author never looked at, and a token never comes back.               *)
(***************************************************************************)
CONSTANT Melted

VARIABLES
    token,      \* the current coin's id, Melted at the end
    content,    \* the Info it commits to
    author,     \* who wrote it: "client" or "other"
    offers,     \* [on, seen, op, metadata, by]
    used        \* tokens the register has had

registerVars == <<token, content, author, offers, used>>

RegisterInit == offers = {} /\ used = {token} /\ author = "other"

(* A client builds an offer, on the current token or on one it foresees.   *)
Offer ==
    /\ \E o \in offers' : offers' = offers \cup {o}
    /\ UNCHANGED <<token, content, author, used>>

Advance ==
    /\ token' \notin used
    /\ used' = used \cup {token'}

(* An update: the owner's, and only the metadata changes.                  *)
UpdateTakesEffect(o) ==
    /\ o.op = "update" /\ o.on = token /\ o.seen = content
    /\ o.by = content.owner
    /\ content' = [content EXCEPT !.metadata = o.metadata]
    /\ author' = "client"
    /\ Advance
    /\ UNCHANGED offers

(* A melt: the owner's, and the end.                                       *)
MeltTakesEffect(o) ==
    /\ o.op = "melt" /\ o.on = token /\ o.seen = content
    /\ o.by = content.owner
    /\ token' = Melted
    /\ author' = "client"
    /\ UNCHANGED <<content, offers, used>>

(* Other software, with the authority the store itself grants: delegates   *)
(* write metadata, the owner may also hand the store or its delegation on. *)
OthersWrite ==
    /\ token # Melted
    /\ author' = "other"
    /\ content'.launcherId = content.launcherId
    /\ Advance
    /\ UNCHANGED offers

RegisterNext ==
    \/ Offer
    \/ \E o \in offers : UpdateTakesEffect(o) \/ MeltTakesEffect(o)
    \/ OthersWrite

RegisterSpec == RegisterInit /\ [][RegisterNext]_registerVars
=============================================================================
