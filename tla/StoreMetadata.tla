--------------------------- MODULE StoreMetadata ---------------------------
(***************************************************************************)
(* metadata.rs and size.rs: the metadata of one store on chain, an alist   *)
(* (root . items), as DIG clients, clients of the plain SDK and software   *)
(* unknown to both write it, read it and write it back.                    *)
(*                                                                         *)
(* A CLVM value is what a reader can make of it: Text (an atom that is     *)
(* UTF-8), Hash (an atom of 32 bytes), Bytes (a short atom, byte by byte,  *)
(* since the encoding of a size is checked) or a Pair.                     *)
(***************************************************************************)
EXTENDS Integers, Sequences

CONSTANTS
    Roots,          \* root hashes
    Texts,          \* the texts a label, description or size proof may be
    Programs,       \* program hashes
    Lengths,        \* byte lengths of a .dig file
    ForeignItems    \* items other software may write: a set of sequences

ASSUME LengthsAssumption == Lengths \subseteq Nat

VARIABLES
    anchored,   \* the alist on chain: [root, items]
    written,    \* the metadata DIG last wrote, or None
    length      \* the byte length its size stands for, or Unknown

vars == <<anchored, written, length>>

Text(t)  == [text |-> t]
Hash(h)  == [hash |-> h]
Bytes(b) == [bytes |-> b]
Pair     == [pair |-> "pair"]
None     == [none |-> "none"]
Bucket(k) == [k |-> k]
Unknown  == -1

Item(key, value) == [key |-> key, value |-> value]

(* What other software writes is an alist of CLVM values too.              *)
ASSUME ForeignItemsAreAlists ==
    \A items \in ForeignItems :
        /\ items \in Seq({items[i] : i \in DOMAIN items})
        /\ \A i \in DOMAIN items : "bytes" \in DOMAIN items[i].value =>
              \E b \in {items[i].value.bytes} : b \in Seq(0..255) /\ items[i].value = Bytes(b)
-----------------------------------------------------------------------------
(* size.rs                                                                 *)
MAX_EXPONENT == 10

Megabytes(bucket) == 2^bucket.k
ByteLen(bucket) == 2^(bucket.k + 20)

FromExponent(k) == IF k > MAX_EXPONENT THEN None ELSE Bucket(k)

(* Mutant: a length that fills its bucket exactly goes to the next.        *)
ForByteLenExclusive(bytes) ==
    LET fitting == {k \in 0..MAX_EXPONENT : bytes < 2^(k + 20)}
    IN IF fitting = {} THEN None
       ELSE Bucket(CHOOSE k \in fitting : \A j \in fitting : k <= j)

(* The loop over the ladder returns the first bucket that fits.            *)
ForByteLen(bytes) ==
    LET fitting == {k \in 0..MAX_EXPONENT : bytes <= 2^(k + 20)}
    IN IF fitting = {} THEN None
       ELSE Bucket(CHOOSE k \in fitting : \A j \in fitting : k <= j)
-----------------------------------------------------------------------------
(* metadata.rs                                                             *)
Metadata(root, label, description, sizeProof, program, size) ==
    [root |-> root, l |-> label, d |-> description, sp |-> sizeProof,
     p |-> program, sz |-> size]

(* A u8 as a minimal CLVM integer: zero is the empty atom, and a byte      *)
(* whose top bit is set needs a leading zero.                              *)
MinimalInteger(k) ==
    Bytes(IF k = 0 THEN <<>> ELSE IF k < 128 THEN <<k>> ELSE <<0, k>>)

Optional(key, value) == IF value = None THEN <<>> ELSE <<Item(key, value)>>

(* Mutant: bucket 0 encodes as the empty atom, taken for an absent one.    *)
ToClvmSkippingZero(m) ==
    [root  |-> m.root,
     items |-> Optional("l", m.l) \o Optional("d", m.d) \o Optional("sp", m.sp)
                 \o Optional("p", m.p)
                 \o (IF m.sz \in {None, Bucket(0)} THEN <<>>
                     ELSE <<Item("sz", MinimalInteger(m.sz.k))>>)]

(* Mutant: another order of the items.                                     *)
ToClvmSizeProofFirst(m) ==
    [root  |-> m.root,
     items |-> Optional("sp", m.sp) \o Optional("l", m.l) \o Optional("d", m.d)
                 \o Optional("p", m.p)
                 \o (IF m.sz = None THEN <<>> ELSE <<Item("sz", MinimalInteger(m.sz.k))>>)]

ToClvm(m) ==
    [root  |-> m.root,
     items |-> Optional("l", m.l) \o Optional("d", m.d) \o Optional("sp", m.sp)
                 \o Optional("p", m.p)
                 \o (IF m.sz = None THEN <<>> ELSE <<Item("sz", MinimalInteger(m.sz.k))>>)]

(* Mutant: any atom that is a number within the ladder.                    *)
DecodeAnyInteger(value) ==
    IF "bytes" \notin DOMAIN value THEN None
    ELSE LET b == value.bytes
         IN CASE b = <<>>    -> Bucket(0)
              [] Len(b) = 1 -> FromExponent(b[1])
              [] Len(b) = 2 -> FromExponent(256 * b[1] + b[2])
              [] OTHER      -> None

(* decode_size_bucket: only the minimal encoding of 0..10 is a size.       *)
DecodeSizeBucket(value) ==
    IF "bytes" \notin DOMAIN value THEN None
    ELSE CASE value.bytes = <<>> -> FromExponent(0)
           [] Len(value.bytes) = 1 /\ value.bytes[1] \in 1..10 -> FromExponent(value.bytes[1])
           [] OTHER -> None

(* What from_clvm makes of a value under a key it knows; None: an error.   *)
DecodeValue(item) ==
    CASE item.key \in {"l", "d", "sp"} -> IF "text" \in DOMAIN item.value THEN item.value ELSE None
      [] item.key = "p"                -> IF "hash" \in DOMAIN item.value THEN item.value ELSE None
      [] item.key = "sz"               -> DecodeSizeBucket(item.value)

KnownKeys == {"l", "d", "sp", "p", "sz"}

(* Of several items with one key the last wins.                            *)
LastValue(items, key) ==
    LET at == {i \in 1..Len(items) : items[i].key = key}
    IN IF at = {} THEN None
       ELSE DecodeValue(items[CHOOSE i \in at : \A j \in at : j <= i])

Malformed == [is |-> "error"]

(* from_clvm: one bad value fails the whole; an unknown key is skipped.    *)
FromClvm(alist) ==
    IF \E i \in 1..Len(alist.items) :
         alist.items[i].key \in KnownKeys /\ DecodeValue(alist.items[i]) = None
      THEN Malformed
    ELSE [is |-> "ok",
          metadata |-> Metadata(alist.root, LastValue(alist.items, "l"), LastValue(alist.items, "d"),
                                LastValue(alist.items, "sp"), LastValue(alist.items, "p"),
                                LastValue(alist.items, "sz"))]
-----------------------------------------------------------------------------
(* The SDK's DatastoreMetadata (external): the exact byte count "b" in     *)
(* place of "sz", and no "p".                                              *)
SdkToClvm(root, label, description, sizeProof, count) ==
    [root  |-> root,
     items |-> Optional("l", label) \o Optional("d", description)
                 \o Optional("b", count) \o Optional("sp", sizeProof)]

(* What it makes of an alist whose values it can read: its own fields, the *)
(* last of a key, and whether it finds a byte count; the rest is skipped.  *)
SdkRead(alist) ==
    [root    |-> alist.root,
     l       |-> LastValue(alist.items, "l"),
     d       |-> LastValue(alist.items, "d"),
     sp      |-> LastValue(alist.items, "sp"),
     counted |-> \E i \in 1..Len(alist.items) : alist.items[i].key = "b"]
-----------------------------------------------------------------------------
OptionalTexts == {None} \cup {Text(t) : t \in Texts}
OptionalPrograms == {None} \cup {Hash(h) : h \in Programs}

Init ==
    /\ \E root \in Roots : anchored = ToClvm(Metadata(root, None, None, None, None, None))
    /\ written = None
    /\ length = Unknown

(* A DIG client mints or updates with metadata it makes up; the size of a  *)
(* file beyond the ladder is refused.                                      *)
DigAnchors(root, label, description, sizeProof, program, bytes) ==
    LET size == IF bytes = Unknown THEN None ELSE ForByteLen(bytes)
        m    == Metadata(root, label, description, sizeProof, program, size)
    IN /\ bytes = Unknown \/ size # None
       /\ anchored' = ToClvm(m)
       /\ written' = m
       /\ length' = bytes

(* A DIG client reads the store and anchors another root, copying the      *)
(* rest, as update.rs asks of it.                                          *)
DigReanchors(root) ==
    LET read == FromClvm(anchored)
    IN /\ read.is = "ok"
       /\ written' = [read.metadata EXCEPT !.root = root]
       /\ anchored' = ToClvm([read.metadata EXCEPT !.root = root])
       /\ UNCHANGED length

(* Software built on the plain SDK anchors, with or without a byte count.  *)
SdkAnchors(root, label, sizeProof, count) ==
    /\ anchored' = SdkToClvm(root, label, None, sizeProof, count)
    /\ written' = None
    /\ length' = Unknown

(* Software of neither kind anchors items of its own.                      *)
OtherAnchors(root, items) ==
    /\ anchored' = [root |-> root, items |-> items]
    /\ written' = None
    /\ length' = Unknown

Next ==
    \/ \E root \in Roots, label, description, sizeProof \in OptionalTexts,
          program \in OptionalPrograms, bytes \in Lengths \cup {Unknown} :
         DigAnchors(root, label, description, sizeProof, program, bytes)
    \/ \E root \in Roots : DigReanchors(root)
    \/ \E root \in Roots, label, sizeProof \in OptionalTexts, count \in {None, Bytes(<<9>>)} :
         SdkAnchors(root, label, sizeProof, count)
    \/ \E root \in Roots, items \in ForeignItems : OtherAnchors(root, items)

Spec == Init /\ [][Next]_vars
-----------------------------------------------------------------------------
(* metadata.rs:71-130.  Whatever DIG anchors - made up, or copied from     *)
(* what it read of a store some other software wrote - it reads back       *)
(* unchanged, every field of it.                                           *)
DigReadsWhatItWrote ==
    written # None => FromClvm(anchored) = [is |-> "ok", metadata |-> written]

(* metadata.rs:7-14, 64-70.  To the plain SDK a store DIG wrote is a store *)
(* with the same fields and without a byte count.  It is the SDK's own     *)
(* list, in its order, with DIG's additions behind; without any it is that *)
(* store byte for byte.                                                    *)
DigStoreIsAnSdkStore ==
    written # None =>
        LET sdk == SdkToClvm(written.root, written.l, written.d, written.sp, None)
        IN /\ SdkRead(anchored) = [root |-> written.root, l |-> written.l, d |-> written.d,
                                   sp |-> written.sp, counted |-> FALSE]
           /\ SubSeq(anchored.items, 1, Len(sdk.items)) = sdk.items
           /\ written.p = None /\ written.sz = None => anchored = sdk

(* size.rs:68-88.  The size a reader finds on chain is the least bucket    *)
(* that holds the file that was measured, also after the store is          *)
(* re-anchored; a file has no bucket only beyond 1 GiB.                    *)
SizeIsTight ==
    /\ length # Unknown =>
         LET size == FromClvm(anchored).metadata.sz
         IN /\ length <= ByteLen(size)
            /\ size.k > 0 => length > ByteLen(Bucket(size.k - 1))
            /\ ByteLen(size) = Megabytes(size) * 1048576
    /\ \A bytes \in Lengths : ForByteLen(bytes) = None <=> bytes > 1073741824

(* metadata.rs:131-152.  No size that can be read is written two ways:     *)
(* the items of a store that decodes carry the minimal encoding only.      *)
SizeIsCanonical ==
    FromClvm(anchored).is = "ok" =>
        \A i \in 1..Len(anchored.items) :
            anchored.items[i].key = "sz" =>
                \E k \in 0..MAX_EXPONENT : anchored.items[i].value = MinimalInteger(k)
=============================================================================
