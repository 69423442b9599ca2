--------------------------- MODULE MetadataProofs ---------------------------
(***************************************************************************)
(* Proofs about StoreMetadata, for any roots, texts, programs and lengths  *)
(* and whatever items other software writes: what a DIG client wrote it    *)
(* reads back, the size it reads is the least bucket for the file that was *)
(* measured, and no size that can be read is written two ways.             *)
(***************************************************************************)
EXTENDS StoreMetadata, SequenceTheorems, SumProofs

(* The items under a key: none, or the one that carries v.                 *)
Holds(items, key, v) ==
    IF v = None THEN \A i \in 1..Len(items) : items[i].key # key
    ELSE \E i \in 1..Len(items) :
            /\ items[i] = Item(key, v)
            /\ \A j \in 1..Len(items) : items[j].key = key => j = i

(* One optional item more, under a key the list did not have yet.          *)
LEMMA OneMore ==
    ASSUME NEW T, NEW items \in Seq(T), NEW key, NEW v, Item(key, v) \in T,
           Holds(items, key, None)
    PROVE  LET longer == items \o Optional(key, v)
           IN /\ longer \in Seq(T)
              /\ Holds(longer, key, v)
              /\ \A other, w : other # key /\ Holds(items, other, w) => Holds(longer, other, w)
<1> DEFINE longer == items \o Optional(key, v)
           n == Len(items)
<1>0. n \in Nat
  OBVIOUS
<1>1. CASE v = None
  <2>1. longer = items
    BY <1>1 DEF Optional
  <2> QED BY <1>1, <2>1
<1>2. CASE v # None
  <2>1. Optional(key, v) = <<Item(key, v)>>
    BY <1>2 DEF Optional
  <2>2. PICK last : last = <<Item(key, v)>>
    OBVIOUS
  <2>3. last \in Seq(T) /\ Len(last) = 1 /\ last[1] = Item(key, v)
    BY <2>2
  <2>4. /\ longer \in Seq(T) /\ Len(longer) = n + 1
        /\ \A i \in 1..(n + 1) : longer[i] = IF i <= n THEN items[i] ELSE last[i - n]
    BY <2>1, <2>2, <2>3, ConcatProperties
  <2>5. /\ \A i \in 1..n : longer[i] = items[i] /\ i \in 1..(n + 1)
        /\ n + 1 \in 1..(n + 1) /\ \A i \in 1..(n + 1) : i \in 1..n \/ i = n + 1
    BY <1>0, <2>4
  <2>6. longer[n + 1] = Item(key, v)
    <3>1. n + 1 \in 1..(n + 1) /\ ~ (n + 1 <= n) /\ (n + 1) - n = 1
      BY <1>0
    <3> HIDE DEF longer, n
    <3> QED BY <2>3, <2>4, <3>1
  <2>7. Item(key, v).key = key
    BY DEF Item
  <2> HIDE DEF longer, n
  <2>8. \A i \in 1..n : longer[i].key # key
    BY <2>5 DEF Holds, n
  <2>9. Holds(longer, key, v)
    BY <1>2, <2>4, <2>5, <2>6, <2>7, <2>8 DEF Holds
  <2>10. ASSUME NEW other, NEW w, other # key, Holds(items, other, w)
         PROVE  Holds(longer, other, w)
    <3>1. CASE w = None
      BY <2>4, <2>5, <2>6, <2>7, <2>10, <3>1 DEF Holds, n
    <3>2. CASE w # None
      <4>1. PICK i \in 1..n : /\ items[i] = Item(other, w)
                              /\ \A j \in 1..n : items[j].key = other => j = i
        BY <2>10, <3>2 DEF Holds, n
      <4>2. longer[i] = Item(other, w)
        BY <2>5, <4>1
      <4>3. \A j \in 1..(n + 1) : longer[j].key = other => j = i
        BY <2>5, <2>6, <2>7, <2>10, <4>1
      <4> QED BY <2>4, <2>5, <3>2, <4>1, <4>2, <4>3 DEF Holds
    <3> QED BY <3>1, <3>2
  <2> QED BY <2>4, <2>9, <2>10 DEF longer
<1> QED BY <1>1, <1>2

-----------------------------------------------------------------------------
SizeValue(m) == IF m.sz = None THEN None ELSE MinimalInteger(m.sz.k)

ItemsOf(m) ==
    {Item("l", m.l), Item("d", m.d), Item("sp", m.sp), Item("p", m.p), Item("sz", SizeValue(m))}

(* What DIG writes holds each field under its key, and nothing else.       *)
LEMMA Writes ==
    ASSUME NEW m
    PROVE  LET items == ToClvm(m).items
           IN /\ items \in Seq(ItemsOf(m))
              /\ Holds(items, "l", m.l) /\ Holds(items, "d", m.d) /\ Holds(items, "sp", m.sp)
              /\ Holds(items, "p", m.p) /\ Holds(items, "sz", SizeValue(m))
<1> DEFINE T == ItemsOf(m)
           s1 == Optional("l", m.l)
           s2 == s1 \o Optional("d", m.d)
           s3 == s2 \o Optional("sp", m.sp)
           s4 == s3 \o Optional("p", m.p)
           s5 == s4 \o Optional("sz", SizeValue(m))
<1>1. /\ Item("l", m.l) \in T /\ Item("d", m.d) \in T /\ Item("sp", m.sp) \in T
      /\ Item("p", m.p) \in T /\ Item("sz", SizeValue(m)) \in T
  BY DEF ItemsOf
<1>2. MinimalInteger(m.sz.k) # None
  BY DEF MinimalInteger, Bytes, None
<1>3. ToClvm(m).items = s5
  BY <1>2 DEF ToClvm, SizeValue, Optional
<1>4. \A key : Holds(<<>>, key, None)
  BY DEF Holds
<1>5. <<>> \in Seq(T) /\ s1 = <<>> \o Optional("l", m.l)
  <2>1. Optional("l", m.l) \in Seq(T)
    BY <1>1 DEF Optional
  <2> QED BY <2>1
<1> HIDE DEF T
<1>6. s1 \in Seq(T) /\ Holds(s1, "l", m.l)
      /\ Holds(s1, "d", None) /\ Holds(s1, "sp", None) /\ Holds(s1, "p", None)
      /\ Holds(s1, "sz", None)
  <2>1. PICK v : v = m.l
    OBVIOUS
  <2>2. PICK s : s = <<>>
    OBVIOUS
  <2>3. s \in Seq(T) /\ Item("l", v) \in T /\ Holds(s, "l", None)
    BY <1>1, <1>4, <1>5, <2>1, <2>2
  <2>4. LET longer == s \o Optional("l", v)
        IN /\ longer \in Seq(T) /\ Holds(longer, "l", v)
           /\ \A other, w : other # "l" /\ Holds(s, other, w) => Holds(longer, other, w)
    BY ONLY <2>3, OneMore
  <2> QED BY <1>4, <1>5, <2>1, <2>2, <2>4
<1> HIDE DEF s1
<1>7. s2 \in Seq(T) /\ Holds(s2, "l", m.l) /\ Holds(s2, "d", m.d)
      /\ Holds(s2, "sp", None) /\ Holds(s2, "p", None) /\ Holds(s2, "sz", None)
  <2>1. PICK v : v = m.d
    OBVIOUS
  <2>2. s1 \in Seq(T) /\ Item("d", v) \in T /\ Holds(s1, "d", None)
    BY <1>1, <1>6, <2>1
  <2>3. LET longer == s1 \o Optional("d", v)
        IN /\ longer \in Seq(T) /\ Holds(longer, "d", v)
           /\ \A other, w : other # "d" /\ Holds(s1, other, w) => Holds(longer, other, w)
    BY ONLY <2>2, OneMore
  <2> QED BY <1>6, <2>1, <2>3
<1> HIDE DEF s2
<1>8. s3 \in Seq(T) /\ Holds(s3, "l", m.l) /\ Holds(s3, "d", m.d) /\ Holds(s3, "sp", m.sp)
      /\ Holds(s3, "p", None) /\ Holds(s3, "sz", None)
  <2>1. PICK v : v = m.sp
    OBVIOUS
  <2>2. s2 \in Seq(T) /\ Item("sp", v) \in T /\ Holds(s2, "sp", None)
    BY <1>1, <1>7, <2>1
  <2>3. LET longer == s2 \o Optional("sp", v)
        IN /\ longer \in Seq(T) /\ Holds(longer, "sp", v)
           /\ \A other, w : other # "sp" /\ Holds(s2, other, w) => Holds(longer, other, w)
    BY ONLY <2>2, OneMore
  <2> QED BY <1>7, <2>1, <2>3
<1> HIDE DEF s3
<1>9. s4 \in Seq(T) /\ Holds(s4, "l", m.l) /\ Holds(s4, "d", m.d) /\ Holds(s4, "sp", m.sp)
      /\ Holds(s4, "p", m.p) /\ Holds(s4, "sz", None)
  <2>1. PICK v : v = m.p
    OBVIOUS
  <2>2. s3 \in Seq(T) /\ Item("p", v) \in T /\ Holds(s3, "p", None)
    BY <1>1, <1>8, <2>1
  <2>3. LET longer == s3 \o Optional("p", v)
        IN /\ longer \in Seq(T) /\ Holds(longer, "p", v)
           /\ \A other, w : other # "p" /\ Holds(s3, other, w) => Holds(longer, other, w)
    BY ONLY <2>2, OneMore
  <2> QED BY <1>8, <2>1, <2>3
<1> HIDE DEF s4
<1>10. s5 \in Seq(T) /\ Holds(s5, "l", m.l) /\ Holds(s5, "d", m.d) /\ Holds(s5, "sp", m.sp)
       /\ Holds(s5, "p", m.p) /\ Holds(s5, "sz", SizeValue(m))
  <2>1. PICK v : v = SizeValue(m)
    OBVIOUS
  <2>2. s4 \in Seq(T) /\ Item("sz", v) \in T /\ Holds(s4, "sz", None)
    BY <1>1, <1>9, <2>1
  <2>3. LET longer == s4 \o Optional("sz", v)
        IN /\ longer \in Seq(T) /\ Holds(longer, "sz", v)
           /\ \A other, w : other # "sz" /\ Holds(s4, other, w) => Holds(longer, other, w)
    BY ONLY <2>2, OneMore
  <2> QED BY <1>9, <2>1, <2>3
<1> QED BY <1>3, <1>10 DEF T

(* What a reader makes of a key it finds no, or one, value under.          *)
LEMMA Reads ==
    ASSUME NEW items, NEW key, NEW v, Holds(items, key, v)
    PROVE  LastValue(items, key) = IF v = None THEN None ELSE DecodeValue(Item(key, v))
<1> DEFINE at == {i \in 1..Len(items) : items[i].key = key}
<1>0. LastValue(items, key) =
        IF at = {} THEN None ELSE DecodeValue(items[CHOOSE i \in at : \A j \in at : j <= i])
  BY DEF LastValue
<1>1. CASE v = None
  <2>1. at = {}
    BY <1>1 DEF Holds
  <2> QED BY <1>0, <1>1, <2>1
<1>2. CASE v # None
  <2>1. PICK i \in 1..Len(items) : /\ items[i] = Item(key, v)
                                   /\ \A j \in 1..Len(items) : items[j].key = key => j = i
    BY <1>2 DEF Holds
  <2>2. at = {i}
    BY <2>1 DEF Item
  <2> HIDE DEF at
  <2>3. (CHOOSE k \in at : \A j \in at : j <= k) = i
    <3>1. \E k \in at : \A j \in at : j <= k
      <4>1. i \in Int /\ i <= i
        BY <2>1
      <4> QED BY <2>2, <4>1
    <3> QED BY <2>2, <3>1
  <2> QED BY <1>0, <1>2, <2>1, <2>2, <2>3
<1> QED BY <1>1, <1>2

-----------------------------------------------------------------------------
(* Metadata a DIG client may hold: every field is absent or of its type.   *)
IsMetadata(m) ==
    /\ m = Metadata(m.root, m.l, m.d, m.sp, m.p, m.sz)
    /\ \A v \in {m.l, m.d, m.sp} : v = None \/ "text" \in DOMAIN v
    /\ m.p = None \/ "hash" \in DOMAIN m.p
    /\ m.sz = None \/ \E k \in 0..MAX_EXPONENT : m.sz = Bucket(k)

(* metadata.rs:94-98, 131-152.  A size is read back as it was written,     *)
(* that of exponent 0, the empty atom, too.                                *)
LEMMA SizeRoundTrip ==
    ASSUME NEW k \in 0..MAX_EXPONENT
    PROVE  DecodeSizeBucket(MinimalInteger(k)) = Bucket(k)
<1>0. k \in 0..10
  BY DEF MAX_EXPONENT
<1>1. CASE k = 0
  <2>1. MinimalInteger(k) = Bytes(<<>>)
    BY <1>1 DEF MinimalInteger
  <2>2. "bytes" \in DOMAIN Bytes(<<>>) /\ Bytes(<<>>).bytes = <<>>
    BY DEF Bytes
  <2> QED BY <1>1, <2>1, <2>2 DEF DecodeSizeBucket, FromExponent, MAX_EXPONENT
<1>2. CASE k \in 1..10
  <2>1. MinimalInteger(k) = Bytes(<<k>>)
    BY <1>2 DEF MinimalInteger
  <2>2. "bytes" \in DOMAIN Bytes(<<k>>) /\ Bytes(<<k>>).bytes = <<k>>
    BY DEF Bytes
  <2>3. <<k>> # <<>> /\ Len(<<k>>) = 1 /\ <<k>>[1] = k
    OBVIOUS
  <2>4. DecodeSizeBucket(Bytes(<<k>>)) = FromExponent(k)
    BY <1>2, <2>2, <2>3 DEF DecodeSizeBucket
  <2> QED BY <1>2, <2>1, <2>4 DEF FromExponent, MAX_EXPONENT
<1> QED BY <1>0, <1>1, <1>2

(* What one client writes another reads.                                   *)
LEMMA RoundTrip ==
    ASSUME NEW m, IsMetadata(m)
    PROVE  FromClvm(ToClvm(m)) = [is |-> "ok", metadata |-> m]
<1> DEFINE alist == ToClvm(m)
           items == alist.items
<1>1. /\ items \in Seq(ItemsOf(m))
      /\ Holds(items, "l", m.l) /\ Holds(items, "d", m.d) /\ Holds(items, "sp", m.sp)
      /\ Holds(items, "p", m.p) /\ Holds(items, "sz", SizeValue(m))
  BY Writes
<1>2. alist.root = m.root
  BY DEF ToClvm
<1> HIDE DEF alist
<1>3. \A key, v : Item(key, v).key = key /\ Item(key, v).value = v
  BY DEF Item
<1>4. /\ \A key \in {"l", "d", "sp"} : \A v :
            DecodeValue(Item(key, v)) = IF "text" \in DOMAIN v THEN v ELSE None
      /\ \A v : DecodeValue(Item("p", v)) = IF "hash" \in DOMAIN v THEN v ELSE None
      /\ \A v : DecodeValue(Item("sz", v)) = DecodeSizeBucket(v)
  BY <1>3 DEF DecodeValue
<1>5. /\ "text" \notin DOMAIN None /\ "hash" \notin DOMAIN None
      /\ \A k : Bucket(k) # None /\ MinimalInteger(k) # None
  BY DEF None, Bucket, MinimalInteger, Bytes
<1>6. /\ m.l # None => DecodeValue(Item("l", m.l)) = m.l
      /\ m.d # None => DecodeValue(Item("d", m.d)) = m.d
      /\ m.sp # None => DecodeValue(Item("sp", m.sp)) = m.sp
      /\ m.p # None => DecodeValue(Item("p", m.p)) = m.p
  BY <1>4 DEF IsMetadata
<1>7. /\ SizeValue(m) = None <=> m.sz = None
      /\ m.sz # None => DecodeValue(Item("sz", SizeValue(m))) = m.sz
  <2>1. CASE m.sz = None
    BY <2>1 DEF SizeValue
  <2>2. CASE m.sz # None
    <3>1. PICK k \in 0..MAX_EXPONENT : m.sz = Bucket(k)
      BY <2>2 DEF IsMetadata
    <3>2. Bucket(k).k = k
      BY DEF Bucket
    <3>3. SizeValue(m) = MinimalInteger(k)
      BY <2>2, <3>1, <3>2 DEF SizeValue
    <3> QED BY <1>4, <1>5, <2>2, <3>1, <3>3, SizeRoundTrip
  <2> QED BY <2>1, <2>2
<1>8. /\ LastValue(items, "l") = m.l /\ LastValue(items, "d") = m.d
      /\ LastValue(items, "sp") = m.sp /\ LastValue(items, "p") = m.p
      /\ LastValue(items, "sz") = m.sz
  BY <1>1, <1>6, <1>7, Reads
<1>9. ASSUME NEW i \in 1..Len(items), items[i].key \in KnownKeys
      PROVE  DecodeValue(items[i]) # None
  <2>1. items[i] \in ItemsOf(m)
    BY <1>1, <1>9
  <2>2. \A key : \A v : Holds(items, key, v) /\ items[i] = Item(key, v) => v # None
    BY <1>3 DEF Holds
  <2>3. CASE items[i] = Item("l", m.l)
    BY <1>1, <1>6, <2>2, <2>3
  <2>4. CASE items[i] = Item("d", m.d)
    BY <1>1, <1>6, <2>2, <2>4
  <2>5. CASE items[i] = Item("sp", m.sp)
    BY <1>1, <1>6, <2>2, <2>5
  <2>6. CASE items[i] = Item("p", m.p)
    BY <1>1, <1>6, <2>2, <2>6
  <2>7. CASE items[i] = Item("sz", SizeValue(m))
    BY <1>1, <1>7, <2>2, <2>7
  <2> QED BY <2>1, <2>3, <2>4, <2>5, <2>6, <2>7 DEF ItemsOf
<1>10. FromClvm(alist) =
         [is |-> "ok", metadata |-> Metadata(m.root, m.l, m.d, m.sp, m.p, m.sz)]
  BY <1>2, <1>8, <1>9 DEF FromClvm
<1> QED BY <1>10 DEF IsMetadata, alist

(* Of the places a key is found at, one is the last.                       *)
LEMMA LastOne ==
    ASSUME NEW n \in Nat, NEW at \in SUBSET (1..n), at # {}
    PROVE  \E i \in at : \A j \in at : j <= i
<1> DEFINE Bounds == {b \in SUBSET (1..n) : \E k \in Nat : b = 1..k /\ at \subseteq b}
<1>1. Bounds \subseteq SUBSET (1..n) /\ 1..n \in Bounds
  OBVIOUS
<1>2. IsFiniteSet(1..n)
  BY FS_Interval
<1>3. PICK b \in Bounds : \A u \in SUBSET b : u # b => u \notin Bounds
  <2>1. PICK S : S = 1..n
    OBVIOUS
  <2>2. PICK Bad : Bad = Bounds
    OBVIOUS
  <2>3. IsFiniteSet(S) /\ Bad \subseteq SUBSET S /\ Bad # {}
    BY <1>1, <1>2, <2>1, <2>2
  <2>4. \E T \in Bad : \A u \in SUBSET T : u # T => u \notin Bad
    BY ONLY <2>3, LeastFailure
  <2> QED BY <2>2, <2>4
<1>4. PICK k \in Nat : b = 1..k /\ at \subseteq 1..k
  OBVIOUS
<1>5. k \in at
  <2> SUFFICES ASSUME k \notin at PROVE FALSE
    OBVIOUS
  <2>1. k # 0
    <3>1. k = 0 => 1..k = {}
      OBVIOUS
    <3> QED BY <1>4, <3>1
  <2>2. k - 1 \in Nat /\ 1..(k - 1) \subseteq 1..k /\ k \in 1..k /\ k \notin 1..(k - 1)
        /\ \A i \in 1..k : i # k => i \in 1..(k - 1)
    BY <2>1
  <2>3. at \subseteq 1..(k - 1)
    BY <1>4, <2>2
  <2>4. 1..(k - 1) \in Bounds
    BY <1>4, <2>2, <2>3
  <2> QED BY <1>3, <1>4, <2>2, <2>4
<1>6. \A j \in at : j <= k
  BY <1>4
<1> QED BY <1>5, <1>6

(* What a reader gets is metadata a client may hold, also of an alist some *)
(* other software wrote.                                                   *)
LEMMA ReadIsMetadata ==
    ASSUME NEW alist, Len(alist.items) \in Nat, FromClvm(alist).is = "ok", NEW root
    PROVE  IsMetadata([FromClvm(alist).metadata EXCEPT !.root = root])
<1> DEFINE items == alist.items
           m == Metadata(alist.root, LastValue(items, "l"), LastValue(items, "d"),
                         LastValue(items, "sp"), LastValue(items, "p"), LastValue(items, "sz"))
           r == [m EXCEPT !.root = root]
<1>1. /\ FromClvm(alist).metadata = m
      /\ \A i \in 1..Len(items) : items[i].key \in KnownKeys => DecodeValue(items[i]) # None
  BY DEF FromClvm, Malformed
<1>2. ASSUME NEW key
      PROVE  \/ LastValue(items, key) = None
             \/ \E i \in 1..Len(items) : /\ items[i].key = key
                                         /\ LastValue(items, key) = DecodeValue(items[i])
  <2> DEFINE at == {i \in 1..Len(items) : items[i].key = key}
             last == CHOOSE i \in at : \A j \in at : j <= i
  <2>1. LastValue(items, key) = IF at = {} THEN None ELSE DecodeValue(items[last])
    BY DEF LastValue
  <2>2. ASSUME at # {} PROVE last \in at
    <3>1. at \in SUBSET (1..Len(items))
      OBVIOUS
    <3> HIDE DEF at
    <3>2. \E i \in at : \A j \in at : j <= i
      BY <2>2, <3>1, LastOne
    <3> QED BY <3>2
  <2> QED BY <2>1, <2>2
<1>3. /\ \A key \in {"l", "d", "sp"} : \A i : items[i].key = key =>
            DecodeValue(items[i]) = None \/ "text" \in DOMAIN DecodeValue(items[i])
      /\ \A i : items[i].key = "p" =>
            DecodeValue(items[i]) = None \/ "hash" \in DOMAIN DecodeValue(items[i])
      /\ \A i : items[i].key = "sz" => DecodeValue(items[i]) = DecodeSizeBucket(items[i].value)
  BY DEF DecodeValue
<1>4. ASSUME NEW v PROVE DecodeSizeBucket(v) = None \/ \E k \in 0..MAX_EXPONENT : DecodeSizeBucket(v) = Bucket(k)
  BY DEF DecodeSizeBucket, FromExponent, MAX_EXPONENT
<1>5. /\ r.root = root /\ r.l = LastValue(items, "l") /\ r.d = LastValue(items, "d")
      /\ r.sp = LastValue(items, "sp") /\ r.p = LastValue(items, "p") /\ r.sz = LastValue(items, "sz")
      /\ r = Metadata(root, r.l, r.d, r.sp, r.p, r.sz)
  BY DEF Metadata
<1> HIDE DEF r, m
<1>6. \A v \in {r.l, r.d, r.sp} : v = None \/ "text" \in DOMAIN v
  <2>1. ASSUME NEW key \in {"l", "d", "sp"}
        PROVE  LastValue(items, key) = None \/ "text" \in DOMAIN LastValue(items, key)
    BY <1>2, <1>3
  <2> QED BY <1>5, <2>1
<1>7. r.p = None \/ "hash" \in DOMAIN r.p
  BY <1>2, <1>3, <1>5
<1>8. r.sz = None \/ \E k \in 0..MAX_EXPONENT : r.sz = Bucket(k)
  BY <1>2, <1>3, <1>4, <1>5
<1>9. IsMetadata(r)
  BY <1>5, <1>6, <1>7, <1>8 DEF IsMetadata
<1> QED BY <1>1, <1>9 DEF r, m

-----------------------------------------------------------------------------
(* The invariant: what DIG last wrote is what is anchored, and what is     *)
(* anchored is an alist of CLVM values, whoever wrote it.                  *)
WrittenInv == written # None => IsMetadata(written) /\ anchored = ToClvm(written)

IsValue(v) == "bytes" \in DOMAIN v => \E b \in Seq(0..255) : v = Bytes(b)

IsAlist(items) ==
    /\ Len(items) \in Nat
    /\ \A i \in 1..Len(items) : items[i].key = "sz" => IsValue(items[i].value)

IInv == WrittenInv /\ IsAlist(anchored.items)

(* What DIG writes is a list of keys and values.                           *)
LEMMA DigWritesAlists ==
    ASSUME NEW m, m.sz = None \/ \E k \in 0..MAX_EXPONENT : m.sz = Bucket(k)
    PROVE  IsAlist(ToClvm(m).items)
<1> DEFINE items == ToClvm(m).items
<1>1. items \in Seq(ItemsOf(m))
  BY Writes
<1> HIDE DEF items
<1>2. IsValue(SizeValue(m))
  <2>1. CASE m.sz = None
    BY <2>1 DEF SizeValue, IsValue, None
  <2>2. CASE m.sz # None
    <3>1. PICK k \in 0..10 : m.sz = Bucket(k)
      BY <2>2 DEF MAX_EXPONENT
    <3>2. SizeValue(m) = Bytes(IF k = 0 THEN <<>> ELSE <<k>>)
      BY <2>2, <3>1 DEF SizeValue, MinimalInteger, Bucket
    <3>3. <<>> \in Seq(0..255) /\ <<k>> \in Seq(0..255)
      OBVIOUS
    <3> QED BY <3>2, <3>3 DEF IsValue
  <2> QED BY <2>1, <2>2
<1>3. \A i \in 1..Len(items) : items[i] \in ItemsOf(m)
  BY <1>1
<1>4. \A item \in ItemsOf(m) : item.key = "sz" => item.value = SizeValue(m)
  BY DEF ItemsOf, Item
<1>5. Len(items) \in Nat
  BY <1>1
<1> QED BY <1>2, <1>3, <1>4, <1>5 DEF IsAlist, items

(* So is what the SDK writes,                                              *)
LEMMA SdkWritesAlists ==
    ASSUME NEW root, NEW l, NEW d, NEW sp, NEW count
    PROVE  IsAlist(SdkToClvm(root, l, d, sp, count).items)
<1> DEFINE T == {Item("l", l), Item("d", d), Item("b", count), Item("sp", sp)}
           items == SdkToClvm(root, l, d, sp, count).items
<1>0. /\ Item("l", l) \in T /\ Item("d", d) \in T
      /\ Item("b", count) \in T /\ Item("sp", sp) \in T
  OBVIOUS
<1>2. \A item \in T : item.key # "sz"
  BY DEF Item
<1> HIDE DEF T
<1>1. /\ Optional("l", l) \in Seq(T) /\ Optional("d", d) \in Seq(T)
      /\ Optional("b", count) \in Seq(T) /\ Optional("sp", sp) \in Seq(T)
  <2>1. ASSUME NEW key, NEW v, Item(key, v) \in T PROVE Optional(key, v) \in Seq(T)
    BY <2>1 DEF Optional
  <2> QED BY <1>0, <2>1
<1>3. items \in Seq(T)
  BY <1>1 DEF SdkToClvm
<1> HIDE DEF items
<1>4. Len(items) \in Nat /\ \A i \in 1..Len(items) : items[i] \in T
  BY <1>3
<1> QED BY <1>2, <1>4 DEF IsAlist, items

(* and what other software writes.                                         *)
LEMMA OthersWriteAlists ==
    ASSUME NEW items \in ForeignItems
    PROVE  IsAlist(items)
<1>1. PICK T : items \in Seq(T)
  BY ForeignItemsAreAlists
<1>2. Len(items) \in Nat /\ DOMAIN items = 1..Len(items)
  BY <1>1
<1>3. \A i \in DOMAIN items : IsValue(items[i].value)
  BY ForeignItemsAreAlists DEF IsValue
<1> QED BY <1>2, <1>3 DEF IsAlist

(* Of the rungs a file fits on, one is the lowest.                         *)
LEMMA LeastOne ==
    ASSUME NEW fitting, fitting \subseteq 0..10, fitting # {}
    PROVE  \E k \in fitting : \A j \in fitting : k <= j
<1> DEFINE up == {11 - k : k \in fitting}
<1>1. up \in SUBSET (1..11) /\ up # {} /\ \A k \in fitting : 11 - k \in up
  <2>1. \A k \in 0..10 : 11 - k \in 1..11
    OBVIOUS
  <2>2. \A k \in fitting : 11 - k \in up
    OBVIOUS
  <2>3. up \subseteq 1..11
    BY <2>1
  <2> HIDE DEF up
  <2> QED BY <2>2, <2>3
<1> HIDE DEF up
<1>2. PICK u \in up : \A m \in up : m <= u
  BY <1>1, LastOne
<1>3. PICK k \in fitting : u = 11 - k
  BY DEF up
<1>4. ASSUME NEW j \in fitting PROVE k <= j
  <2>1. 11 - j <= 11 - k
    BY <1>1, <1>2, <1>3
  <2> QED BY <2>1
<1> QED BY <1>4

(* A length has a bucket of the ladder, or none.                           *)
LEMMA BucketOf ==
    ASSUME NEW bytes
    PROVE  ForByteLen(bytes) = None \/ \E k \in 0..MAX_EXPONENT : ForByteLen(bytes) = Bucket(k)
<1> DEFINE fitting == {k \in 0..MAX_EXPONENT : bytes <= 2^(k + 20)}
           least == CHOOSE k \in fitting : \A j \in fitting : k <= j
<1>1. ForByteLen(bytes) = IF fitting = {} THEN None ELSE Bucket(least)
  BY DEF ForByteLen
<1>2. fitting \subseteq 0..10
  BY DEF MAX_EXPONENT
<1>3. ASSUME fitting # {} PROVE least \in 0..10
  <2> HIDE DEF fitting
  <2>1. \E k \in fitting : \A j \in fitting : k <= j
    BY <1>2, <1>3, LeastOne
  <2> QED BY <1>2, <2>1
<1> QED BY <1>1, <1>3 DEF MAX_EXPONENT

(* Whoever wrote last, the store is an alist, and if that was DIG it is    *)
(* what DIG meant to write.                                                *)
LEMMA IInvHolds == Spec => []IInv
<1>1. Init => IInv
  <2> SUFFICES ASSUME Init PROVE IInv
    OBVIOUS
  <2>1. PICK root \in Roots : anchored = ToClvm(Metadata(root, None, None, None, None, None))
    BY DEF Init
  <2>2. Metadata(root, None, None, None, None, None).sz = None
    BY DEF Metadata
  <2>3. IsAlist(anchored.items)
    BY <2>1, <2>2, DigWritesAlists
  <2> QED BY <2>3 DEF Init, IInv, WrittenInv
<1>2. IInv /\ [Next]_vars => IInv'
  <2> SUFFICES ASSUME IInv, [Next]_vars PROVE IInv'
    OBVIOUS
  <2>1. ASSUME NEW root \in Roots, NEW label \in OptionalTexts, NEW description \in OptionalTexts,
               NEW sizeProof \in OptionalTexts, NEW program \in OptionalPrograms,
               NEW bytes \in Lengths \cup {Unknown},
               DigAnchors(root, label, description, sizeProof, program, bytes)
        PROVE  IInv'
    <3> DEFINE size == IF bytes = Unknown THEN None ELSE ForByteLen(bytes)
               m == Metadata(root, label, description, sizeProof, program, size)
    <3>1. anchored' = ToClvm(m) /\ written' = m
      BY <2>1 DEF DigAnchors
    <3>2. size = None \/ \E k \in 0..MAX_EXPONENT : size = Bucket(k)
      BY BucketOf
    <3> HIDE DEF size
    <3>3. /\ m.root = root /\ m.l = label /\ m.d = description /\ m.sp = sizeProof
          /\ m.p = program /\ m.sz = size /\ m = Metadata(m.root, m.l, m.d, m.sp, m.p, m.sz)
      BY DEF Metadata
    <3> HIDE DEF m
    <3>4. /\ \A v \in OptionalTexts : v = None \/ "text" \in DOMAIN v
          /\ \A v \in OptionalPrograms : v = None \/ "hash" \in DOMAIN v
      BY DEF OptionalTexts, OptionalPrograms, Text, Hash
    <3>5. IsMetadata(m)
      BY <3>2, <3>3, <3>4 DEF IsMetadata
    <3>6. IsAlist(ToClvm(m).items)
      BY <3>2, <3>3, DigWritesAlists
    <3> QED BY <3>1, <3>5, <3>6 DEF IInv, WrittenInv
  <2>2. ASSUME NEW root \in Roots, DigReanchors(root) PROVE IInv'
    <3> DEFINE m == [FromClvm(anchored).metadata EXCEPT !.root = root]
    <3>1. FromClvm(anchored).is = "ok" /\ anchored' = ToClvm(m) /\ written' = m
      BY <2>2 DEF DigReanchors
    <3>2. Len(anchored.items) \in Nat
      BY DEF IInv, IsAlist
    <3>3. IsMetadata(m)
      BY <3>1, <3>2, ReadIsMetadata
    <3> HIDE DEF m
    <3>4. IsAlist(ToClvm(m).items)
      BY <3>3, DigWritesAlists DEF IsMetadata
    <3> QED BY <3>1, <3>3, <3>4 DEF IInv, WrittenInv
  <2>3. ASSUME NEW root, NEW label, NEW sizeProof, NEW count,
               SdkAnchors(root, label, sizeProof, count)
        PROVE  IInv'
    <3>1. anchored' = SdkToClvm(root, label, None, sizeProof, count) /\ written' = None
      BY <2>3 DEF SdkAnchors
    <3> QED BY <3>1, SdkWritesAlists DEF IInv, WrittenInv
  <2>4. ASSUME NEW root, NEW items \in ForeignItems, OtherAnchors(root, items) PROVE IInv'
    <3>1. anchored'.items = items /\ written' = None
      BY <2>4 DEF OtherAnchors
    <3> QED BY <3>1, OthersWriteAlists DEF IInv, WrittenInv
  <2>5. ASSUME UNCHANGED vars PROVE IInv'
    BY <2>5 DEF vars, IInv, WrittenInv
  <2> QED BY <2>1, <2>2, <2>3, <2>4, <2>5 DEF Next
<1> QED BY <1>1, <1>2, PTL DEF Spec

(* metadata.rs:71-130.  Whatever a DIG client anchors - made up, or copied *)
(* from what it read of a store any other software wrote - it reads back   *)
(* unchanged, every field of it.                                           *)
THEOREM DigRoundTrips == Spec => []DigReadsWhatItWrote
<1>1. IInv => DigReadsWhatItWrote
  BY RoundTrip DEF IInv, WrittenInv, DigReadsWhatItWrote
<1> QED BY <1>1, IInvHolds, PTL

(* metadata.rs:131-152.  Whoever wrote the store, if it decodes then its   *)
(* size is in the one encoding decode_size_bucket takes.                   *)
THEOREM SizesHaveOneEncoding == Spec => []SizeIsCanonical
<1>1. IInv => SizeIsCanonical
  <2> SUFFICES ASSUME IInv, FromClvm(anchored).is = "ok", NEW i \in 1..Len(anchored.items),
                      anchored.items[i].key = "sz"
               PROVE  \E k \in 0..MAX_EXPONENT : anchored.items[i].value = MinimalInteger(k)
    BY DEF SizeIsCanonical
  <2> DEFINE v == anchored.items[i].value
  <2>1. DecodeSizeBucket(v) # None
    <3>1. DecodeValue(anchored.items[i]) # None
      BY DEF FromClvm, Malformed, KnownKeys
    <3> QED BY <3>1 DEF DecodeValue
  <2>2. IsValue(v)
    BY DEF IInv, IsAlist
  <2> HIDE DEF v
  <2>3. "bytes" \in DOMAIN v
    BY <2>1 DEF DecodeSizeBucket
  <2>4. PICK b \in Seq(0..255) : v = Bytes(b)
    BY <2>2, <2>3 DEF IsValue
  <2>5. b = <<>> \/ (Len(b) = 1 /\ b[1] \in 1..10)
    <3>1. v.bytes = b
      BY <2>4 DEF Bytes
    <3> QED BY <2>1, <2>3, <3>1 DEF DecodeSizeBucket
  <2>6. CASE b = <<>>
    BY <2>4, <2>6 DEF MinimalInteger, MAX_EXPONENT, v
  <2>7. CASE Len(b) = 1 /\ b[1] \in 1..10
    <3>1. b = <<b[1]>>
      BY <2>7
    <3>2. MinimalInteger(b[1]) = Bytes(<<b[1]>>)
      BY <2>7 DEF MinimalInteger
    <3> QED BY <2>4, <2>7, <3>1, <3>2 DEF MAX_EXPONENT, v
  <2> QED BY <2>5, <2>6, <2>7
<1> QED BY <1>1, IInvHolds, PTL

-----------------------------------------------------------------------------
(* The ladder, rung by rung.                                               *)
Cap(k) == 2^(k + 20)
Mega(k) == 2^k
MiB == 1048576
GiB == 1073741824

LEMMA Ladder ==
    ASSUME NEW k \in 0..10
    PROVE  /\ Cap(k) \in Nat /\ Cap(k) <= GiB
           /\ Cap(k) = Mega(k) * MiB
<1> USE DEF Cap, Mega, MiB, GiB
<1>0. /\ 2^0 = 1 /\ 2^1 = 2 /\ 2^2 = 4 /\ 2^3 = 8 /\ 2^4 = 16 /\ 2^5 = 32 /\ 2^6 = 64
      /\ 2^7 = 128 /\ 2^8 = 256 /\ 2^9 = 512 /\ 2^10 = 1024
  OBVIOUS
<1>1. /\ 2^20 = 1048576 /\ 2^21 = 2097152 /\ 2^22 = 4194304 /\ 2^23 = 8388608
      /\ 2^24 = 16777216 /\ 2^25 = 33554432 /\ 2^26 = 67108864 /\ 2^27 = 134217728
      /\ 2^28 = 268435456 /\ 2^29 = 536870912 /\ 2^30 = 1073741824
  OBVIOUS
<1>2. CASE k = 0  BY <1>0, <1>1, <1>2
<1>3. CASE k = 1  BY <1>0, <1>1, <1>3
<1>4. CASE k = 2  BY <1>0, <1>1, <1>4
<1>5. CASE k = 3  BY <1>0, <1>1, <1>5
<1>6. CASE k = 4  BY <1>0, <1>1, <1>6
<1>7. CASE k = 5  BY <1>0, <1>1, <1>7
<1>8. CASE k = 6  BY <1>0, <1>1, <1>8
<1>9. CASE k = 7  BY <1>0, <1>1, <1>9
<1>10. CASE k = 8  BY <1>0, <1>1, <1>10
<1>11. CASE k = 9  BY <1>0, <1>1, <1>11
<1>12. CASE k = 10 BY <1>0, <1>1, <1>12
<1> QED BY <1>2, <1>3, <1>4, <1>5, <1>6, <1>7, <1>8, <1>9, <1>10, <1>11, <1>12

(* The loop over the ladder stops at the first bucket that holds the file, *)
(* and finds none only beyond the last.                                    *)
Tight(bytes, size) ==
    \E k \in 0..10 :
        /\ size = Bucket(k) /\ bytes <= Cap(k)
        /\ k > 0 => bytes > Cap(k - 1)

(* size.rs:68-89.  The bucket for_byte_len finds is tight, whatever the     *)
(* length.                                                                 *)
LEMMA TightBucket ==
    ASSUME NEW bytes \in Nat
    PROVE  /\ ForByteLen(bytes) = None <=> bytes > GiB
           /\ ForByteLen(bytes) # None => Tight(bytes, ForByteLen(bytes))
<1> DEFINE fitting == {k \in 0..10 : bytes <= Cap(k)}
           least == CHOOSE k \in fitting : \A j \in fitting : k <= j
<1>1. ForByteLen(bytes) = IF fitting = {} THEN None ELSE Bucket(least)
  BY DEF ForByteLen, MAX_EXPONENT, Cap
<1>2. Bucket(least) # None
  BY DEF Bucket, None
<1>3. /\ \A k \in 0..10 : Cap(k) \in Nat /\ Cap(k) <= GiB
      /\ Cap(10) = GiB /\ GiB \in Nat
  <2>1. \A k \in 0..10 : Cap(k) \in Nat /\ Cap(k) <= GiB
    BY Ladder
  <2>2. Cap(10) = GiB /\ GiB \in Nat
    BY DEF Cap, GiB
  <2> QED BY <2>1, <2>2
<1>4. Tight(bytes, Bucket(least)) <=>
      \E k \in 0..10 : /\ Bucket(least) = Bucket(k) /\ bytes <= Cap(k)
                       /\ k > 0 => bytes > Cap(k - 1)
  BY DEF Tight
<1>5. \A k \in 0..10 : (k \in fitting) <=> bytes <= Cap(k)
  OBVIOUS
<1>6. fitting \subseteq 0..10
  OBVIOUS
<1> HIDE DEF fitting
<1>7. ASSUME fitting # {}
      PROVE  least \in fitting /\ \A j \in fitting : least <= j
  <2>1. \E k \in fitting : \A j \in fitting : k <= j
    BY <1>6, <1>7, LeastOne
  <2> QED BY <2>1
<1> HIDE DEF least
<1>8. fitting = {} <=> bytes > GiB
  <2>1. ASSUME fitting = {} PROVE bytes > GiB
    <3>1. ~ (bytes <= Cap(10))
      BY <1>5, <2>1
    <3> QED BY <1>3, <3>1
  <2>2. ASSUME bytes > GiB, NEW k \in fitting PROVE FALSE
    <3>1. k \in 0..10 /\ bytes <= Cap(k)
      BY <1>5, <1>6
    <3> QED BY <1>3, <2>2, <3>1
  <2> QED BY <2>1, <2>2
<1>9. ASSUME fitting # {} PROVE Tight(bytes, Bucket(least))
  <2>1. least \in 0..10 /\ bytes <= Cap(least)
    BY <1>5, <1>6, <1>7, <1>9
  <2>2. ASSUME least > 0 PROVE bytes > Cap(least - 1)
    <3>1. PICK below : below = least - 1
      OBVIOUS
    <3>2. below \in 0..10 /\ below \notin fitting
      BY <1>7, <1>9, <2>1, <2>2, <3>1
    <3>3. ~ (bytes <= Cap(below)) /\ Cap(below) \in Nat
      BY <1>3, <1>5, <3>2
    <3> QED BY <3>1, <3>3
  <2> QED BY <1>4, <2>1, <2>2
<1>10. /\ ForByteLen(bytes) = None <=> fitting = {}
       /\ fitting # {} => ForByteLen(bytes) = Bucket(least)
  BY <1>1, <1>2
<1> QED BY <1>8, <1>9, <1>10

(* The size in what DIG last wrote is that of the file it measured.        *)
SizeInv ==
    length # Unknown =>
        length \in Lengths /\ written # None /\ Tight(length, written.sz)

(* It stays so however the store is re-anchored.                           *)
LEMMA SizeInvHolds == Spec => []SizeInv
<1>1. Init => SizeInv
  BY DEF Init, SizeInv
<1>2. IInv /\ SizeInv /\ [Next]_vars => SizeInv'
  <2> SUFFICES ASSUME IInv, SizeInv, [Next]_vars PROVE SizeInv'
    OBVIOUS
  <2>1. ASSUME NEW root, NEW label, NEW description, NEW sizeProof, NEW program,
               NEW bytes \in Lengths \cup {Unknown},
               DigAnchors(root, label, description, sizeProof, program, bytes)
        PROVE  SizeInv'
    <3> DEFINE size == IF bytes = Unknown THEN None ELSE ForByteLen(bytes)
    <3>1. /\ bytes = Unknown \/ size # None
          /\ length' = bytes /\ written' = Metadata(root, label, description, sizeProof, program, size)
      BY <2>1 DEF DigAnchors
    <3>2. written'.sz = size /\ written' # None
      BY <3>1 DEF Metadata, None
    <3>3. ASSUME bytes # Unknown PROVE bytes \in Lengths /\ Tight(bytes, size)
      <4>1. bytes \in Lengths /\ bytes \in Nat /\ size = ForByteLen(bytes) /\ size # None
        BY <3>1, <3>3, LengthsAssumption
      <4> QED BY <4>1, TightBucket
    <3> QED BY <3>1, <3>2, <3>3 DEF SizeInv
  <2>2. ASSUME NEW root, DigReanchors(root) PROVE SizeInv'
    <3>1. length' = length /\ written' = [FromClvm(anchored).metadata EXCEPT !.root = root]
      BY <2>2 DEF DigReanchors
    <3>2. ASSUME length # Unknown PROVE written' # None /\ written'.sz = written.sz
      <4>1. IsMetadata(written) /\ anchored = ToClvm(written)
        BY <3>2 DEF SizeInv, IInv, WrittenInv
      <4>2. FromClvm(anchored).metadata = written
        BY <4>1, RoundTrip
      <4>3. written = Metadata(written.root, written.l, written.d, written.sp, written.p, written.sz)
        BY <4>1 DEF IsMetadata
      <4> QED BY <3>1, <4>2, <4>3 DEF Metadata, None
    <3> QED BY <3>1, <3>2 DEF SizeInv
  <2>3. ASSUME NEW root, NEW label, NEW sizeProof, NEW count, NEW items,
               SdkAnchors(root, label, sizeProof, count) \/ OtherAnchors(root, items)
        PROVE  SizeInv'
    BY <2>3 DEF SdkAnchors, OtherAnchors, SizeInv
  <2>4. ASSUME UNCHANGED vars PROVE SizeInv'
    BY <2>4 DEF vars, SizeInv
  <2> QED BY <2>1, <2>2, <2>3, <2>4 DEF Next
<1> QED BY <1>1, <1>2, IInvHolds, PTL DEF Spec

(* size.rs:68-88.  The size a reader finds on chain is the least bucket    *)
(* that holds the file that was measured, whatever its length and however  *)
(* often the store was re-anchored since; a file has none only beyond      *)
(* 1 GiB.                                                                  *)
THEOREM SizesAreTight == Spec => []SizeIsTight
<1>1. IInv /\ SizeInv => SizeIsTight
  <2> SUFFICES ASSUME IInv, SizeInv PROVE SizeIsTight
    OBVIOUS
  <2>1. \A bytes \in Lengths : ForByteLen(bytes) = None <=> bytes > GiB
    BY TightBucket, LengthsAssumption
  <2>2. ASSUME length # Unknown
        PROVE  LET size == FromClvm(anchored).metadata.sz
               IN /\ length <= ByteLen(size)
                  /\ size.k > 0 => length > ByteLen(Bucket(size.k - 1))
                  /\ ByteLen(size) = Megabytes(size) * MiB
    <3>1. FromClvm(anchored).metadata = written
      BY <2>2, RoundTrip DEF SizeInv, IInv, WrittenInv
    <3>2. PICK k \in 0..10 : /\ written.sz = Bucket(k) /\ length <= Cap(k)
                             /\ k > 0 => length > Cap(k - 1)
      BY <2>2 DEF SizeInv, Tight
    <3>3. \A j : Bucket(j).k = j
      BY DEF Bucket
    <3>4. /\ ByteLen(Bucket(k)) = Cap(k) /\ Megabytes(Bucket(k)) = Mega(k)
          /\ ByteLen(Bucket(k - 1)) = Cap(k - 1)
      BY <3>3 DEF ByteLen, Megabytes, Cap, Mega
    <3>5. Cap(k) = Mega(k) * MiB
      BY Ladder
    <3> QED BY <3>1, <3>2, <3>3, <3>4, <3>5
  <2> QED BY <2>1, <2>2 DEF SizeIsTight, MiB, GiB
<1> QED BY <1>1, IInvHolds, SizeInvHolds, PTL

-----------------------------------------------------------------------------
(* An optional item is a list, of one or of none.                          *)
LEMMA OptionalIsList ==
    ASSUME NEW T, NEW key, NEW v, Item(key, v) \in T
    PROVE  Optional(key, v) \in Seq(T)
BY DEF Optional

(* A list is the beginning of whatever it is continued to.                 *)
LEMMA Beginning ==
    ASSUME NEW T, NEW s \in Seq(T), NEW t \in Seq(T)
    PROVE  s \o t \in Seq(T) /\ SubSeq(s \o t, 1, Len(s)) = s
<1>1. PICK n : n = Len(s)
  OBVIOUS
<1>2. PICK both : both = s \o t
  OBVIOUS
<1>3. /\ n \in Nat /\ both \in Seq(T) /\ Len(both) = n + Len(t) /\ Len(t) \in Nat
      /\ \A i \in 1..n : both[i] = s[i]
  BY <1>1, <1>2, ConcatProperties
<1>4. \A i \in 1..n : both[i] \in T
  BY <1>1, <1>3
<1>5. PICK cut : cut = SubSeq(both, 1, n)
  OBVIOUS
<1>6. /\ cut \in Seq(T) /\ Len(cut) = (IF 1 <= n THEN n - 1 + 1 ELSE 0)
      /\ \A i \in 1..(n - 1 + 1) : cut[i] = both[1 + i - 1]
  BY <1>3, <1>4, <1>5, SubSeqProperties
<1>7. Len(cut) = n /\ \A i \in 1..n : cut[i] = s[i]
  BY <1>3, <1>6
<1>8. cut = s
  BY <1>1, <1>6, <1>7
<1> QED BY <1>1, <1>2, <1>3, <1>5, <1>8

(* metadata.rs:7-11.  What DIG writes is the SDK's list with DIG's two     *)
(* keys behind, and none of them when it has neither.                      *)
LEMMA DigAppends ==
    ASSUME NEW m
    PROVE  LET items == ToClvm(m).items
               sdk == SdkToClvm(m.root, m.l, m.d, m.sp, None)
           IN /\ SubSeq(items, 1, Len(sdk.items)) = sdk.items
              /\ m.p = None /\ m.sz = None => ToClvm(m) = sdk
<1> DEFINE T == ItemsOf(m)
           l == Optional("l", m.l)
           d == Optional("d", m.d)
           sp == Optional("sp", m.sp)
           p == Optional("p", m.p)
           sz == Optional("sz", SizeValue(m))
           own == (l \o d) \o sp
           sdk == SdkToClvm(m.root, m.l, m.d, m.sp, None)
<1>1. MinimalInteger(m.sz.k) # None
  BY DEF MinimalInteger, Bytes, None
<1>2. ToClvm(m) = [root |-> m.root, items |-> (own \o p) \o sz]
  BY <1>1 DEF ToClvm, SizeValue, Optional
<1>3. l \in Seq(T) /\ d \in Seq(T) /\ sp \in Seq(T) /\ p \in Seq(T) /\ sz \in Seq(T)
  <2>1. /\ Item("l", m.l) \in T /\ Item("d", m.d) \in T /\ Item("sp", m.sp) \in T
        /\ Item("p", m.p) \in T /\ Item("sz", SizeValue(m)) \in T
    BY DEF ItemsOf
  <2> HIDE DEF T
  <2>2. \A key, v : Item(key, v) \in T => Optional(key, v) \in Seq(T)
    BY OptionalIsList
  <2> QED BY <2>1, <2>2
<1>4. sdk = [root |-> m.root, items |-> ((l \o d) \o <<>>) \o sp]
  BY DEF SdkToClvm, Optional
<1>5. /\ m.p = None => p = <<>>
      /\ m.sz = None => sz = <<>>
  BY DEF Optional, SizeValue
<1> HIDE DEF T, l, d, sp, p, sz, sdk
<1>6. /\ l \o d \in Seq(T) /\ own \in Seq(T) /\ p \o sz \in Seq(T)
      /\ (l \o d) \o <<>> = l \o d /\ own \o <<>> = own
      /\ (own \o p) \o sz = own \o (p \o sz)
  <2>1. l \o d \in Seq(T)
    BY <1>3
  <2>2. own \in Seq(T)
    BY <1>3, <2>1
  <2> HIDE DEF own
  <2>3. \A s \in Seq(T) : s \o <<>> = s
    OBVIOUS
  <2>4. (own \o p) \o sz = own \o (p \o sz)
    BY <1>3, <2>2, ConcatAssociative
  <2>5. own = (l \o d) \o sp
    BY DEF own
  <2> QED BY <1>3, <2>1, <2>2, <2>3, <2>4
<1>7. sdk.items = own /\ sdk = [root |-> m.root, items |-> own]
  BY <1>4, <1>6
<1> HIDE DEF own
<1>8. SubSeq(own \o (p \o sz), 1, Len(own)) = own
  BY <1>6, Beginning
<1>9. ASSUME m.p = None, m.sz = None PROVE ToClvm(m) = sdk
  <2>1. own \o <<>> = own
    BY <1>6
  <2>2. (own \o <<>>) \o <<>> = own
    BY <2>1
  <2> QED BY <1>2, <1>5, <1>7, <1>9, <2>2
<1>10. ToClvm(m).items = own \o (p \o sz)
  BY <1>2, <1>6
<1> QED BY <1>7, <1>8, <1>9, <1>10 DEF sdk

(* metadata.rs:7-14.  To software that knows the plain SDK only, whatever  *)
(* a DIG client wrote is a store of its own: the same fields, its own      *)
(* order, no byte count, and byte for byte its own without the additions.  *)
THEOREM DigStoresAreSdkStores == Spec => []DigStoreIsAnSdkStore
<1>1. IInv => DigStoreIsAnSdkStore
  <2> SUFFICES ASSUME IInv, written # None
               PROVE  LET sdk == SdkToClvm(written.root, written.l, written.d, written.sp, None)
                      IN /\ SdkRead(anchored) = [root |-> written.root, l |-> written.l, d |-> written.d,
                                                 sp |-> written.sp, counted |-> FALSE]
                         /\ SubSeq(anchored.items, 1, Len(sdk.items)) = sdk.items
                         /\ written.p = None /\ written.sz = None => anchored = sdk
    BY DEF DigStoreIsAnSdkStore
  <2>1. IsMetadata(written) /\ anchored = ToClvm(written)
    BY DEF IInv, WrittenInv
  <2>2. /\ FromClvm(anchored).is = "ok" /\ FromClvm(anchored).metadata = written
    BY <2>1, RoundTrip
  <2>3. written = Metadata(anchored.root, LastValue(anchored.items, "l"),
                           LastValue(anchored.items, "d"), LastValue(anchored.items, "sp"),
                           LastValue(anchored.items, "p"), LastValue(anchored.items, "sz"))
    BY <2>2 DEF FromClvm, Malformed
  <2>4. /\ written.root = anchored.root /\ written.l = LastValue(anchored.items, "l")
        /\ written.d = LastValue(anchored.items, "d")
        /\ written.sp = LastValue(anchored.items, "sp")
    BY <2>3 DEF Metadata
  <2>5. ~ \E i \in 1..Len(anchored.items) : anchored.items[i].key = "b"
    <3>1. anchored.items \in Seq(ItemsOf(written))
      BY <2>1, Writes
    <3>2. \A item \in ItemsOf(written) : item.key # "b"
      BY DEF ItemsOf, Item
    <3> QED BY <3>1, <3>2
  <2>6. SdkRead(anchored) = [root |-> written.root, l |-> written.l, d |-> written.d,
                             sp |-> written.sp, counted |-> FALSE]
    BY <2>4, <2>5 DEF SdkRead
  <2> QED BY <2>1, <2>6, DigAppends
<1> QED BY <1>1, IInvHolds, PTL
=============================================================================
