------------------------- MODULE HashTable_proofs --------------------------
(***************************************************************************)
(* Proofs about the hash table: its lists, its counters and its types, and  *)
(* that it is the map of KeyMap.                                           *)
(***************************************************************************)
EXTENDS HashTable, FiniteSetTheorems, SequenceTheorems, WellFoundedInduction, TLAPS

(* The bucket count and the block size are positive, whatever the hint.    *)
LEMMA SizeType == size \in Nat \ {0} /\ hint \in Nat \ {0}
<1> DEFINE N == Len(Primes)
           fits == {j \in 1..N : j = 1 \/ Primes[j] <= Hint}
           T == {n \in Nat : n < N /\ N - n \in fits}
<1>1. N \in Nat \ {0} /\ Primes \in [1..N -> Nat \ {0}]
  BY PrimesAssumption, LenProperties
<1>2. fits \subseteq 1..N /\ 1 \in fits
  BY <1>1
<1> HIDE DEF N, fits
<1>3. T \subseteq Nat /\ N - 1 \in T
  BY <1>1, <1>2
<1>4. PICK n \in T : \A m \in T : ~(m < n)
  <2>1. \E n \in T : \A m \in T : ~(<<m, n>> \in OpToRel(<, Nat))
    <3> HIDE DEF T
    <3> QED BY <1>3, WFMin, NatLessThanWellFounded
  <2>2. \A m, n \in T : m < n => <<m, n>> \in OpToRel(<, Nat)
    BY <1>3 DEF OpToRel
  <2> QED BY <2>1, <2>2
<1>5. \A l \in fits : N - l \in T
  BY <1>1, <1>2
<1>6. N - n \in fits /\ n \in Nat /\ n < N
  OBVIOUS
<1>7. \A l \in fits : l <= N - n
  <2> HIDE DEF T
  <2>1. TAKE l \in fits
  <2>2. l \in Nat /\ N - l \in T /\ ~(N - l < n)
    BY <1>2, <1>4, <1>5
  <2> QED BY <2>2, <1>1, <1>6
<1>8. size = Primes[CHOOSE j \in fits : \A l \in fits : l <= j]
  BY DEF size, fits, N
<1>9. size \in Nat \ {0}
  BY <1>1, <1>2, <1>6, <1>7, <1>8
<1> QED BY <1>9, BoundAssumption DEF hint

(* Taking one element out of a sequence. *)
LEMMA RemoveAtProperties ==
  ASSUME NEW S, NEW s \in Seq(S), NEW j \in 1..Len(s)
  PROVE  /\ RemoveAt(s, j) \in Seq(S)
         /\ Len(RemoveAt(s, j)) = Len(s) - 1
         /\ \A l \in 1..(Len(s) - 1) :
              RemoveAt(s, j)[l] = IF l < j THEN s[l] ELSE s[l + 1]
<1>1. Len(s) \in Nat /\ \A l \in 1..Len(s) : s[l] \in S
  BY LenProperties, ElementOfSeq
<1> DEFINE front == SubSeq(s, 1, j - 1)
           back == SubSeq(s, j + 1, Len(s))
<1>2. /\ front \in Seq(S)
      /\ Len(front) = j - 1
      /\ \A l \in 1..(j - 1) : front[l] = s[l]
  <2>1. \A l \in 1..(j - 1) : s[l] \in S
    BY <1>1
  <2> QED BY <2>1, <1>1, SubSeqProperties, SMTT(30)
<1>3. /\ back \in Seq(S)
      /\ Len(back) = Len(s) - j
      /\ \A l \in 1..(Len(s) - j) : back[l] = s[j + l]
  <2>1. \A l \in (j + 1)..Len(s) : s[l] \in S
    BY <1>1
  <2> QED BY <2>1, <1>1, SubSeqProperties, SMTT(30)
<1> HIDE DEF front, back
<1>4. /\ front \o back \in Seq(S)
      /\ Len(front \o back) = Len(s) - 1
      /\ \A l \in 1..(Len(s) - 1) :
           (front \o back)[l] = IF l < j THEN s[l] ELSE s[l + 1]
  <2>1. /\ front \o back \in Seq(S)
        /\ Len(front \o back) = Len(front) + Len(back)
        /\ \A l \in 1..(Len(front) + Len(back)) :
             (front \o back)[l] = IF l <= Len(front) THEN front[l]
                                                    ELSE back[l - Len(front)]
    BY <1>2, <1>3, ConcatProperties
  <2>2. Len(front) + Len(back) = Len(s) - 1
    BY <1>1, <1>2, <1>3
  <2>3. ASSUME NEW l \in 1..(Len(s) - 1)
        PROVE  (front \o back)[l] = IF l < j THEN s[l] ELSE s[l + 1]
    <3>1. CASE l < j
      BY <3>1, <2>1, <2>2, <1>1, <1>2
    <3>2. CASE ~(l < j)
      <4>1. (front \o back)[l] = back[l - (j - 1)]
        BY <3>2, <2>1, <2>2, <1>1, <1>2
      <4>2. l - (j - 1) \in 1..(Len(s) - j) /\ j + (l - (j - 1)) = l + 1
        BY <3>2, <1>1
      <4> QED BY <4>1, <4>2, <3>2, <1>3
    <3> QED BY <3>1, <3>2
  <2> QED BY <2>1, <2>2, <2>3
<1> QED BY <1>4 DEF RemoveAt, front, back

(* What unlinking does to a list without repetitions. *)
LEMMA RemoveAtDistinct ==
  ASSUME NEW S, NEW s \in Seq(S), IsInjective(s), NEW j \in 1..Len(s)
  PROVE  /\ RemoveAt(s, j) \in Seq(S)
         /\ IsInjective(RemoveAt(s, j))
         /\ ToSet(RemoveAt(s, j)) = ToSet(s) \ {s[j]}
         /\ s[j] \in ToSet(s)
<1> DEFINE r == RemoveAt(s, j)
<1>1. /\ r \in Seq(S)
      /\ Len(r) = Len(s) - 1
      /\ \A l \in 1..(Len(s) - 1) : r[l] = IF l < j THEN s[l] ELSE s[l + 1]
  BY RemoveAtProperties
<1>2. Len(s) \in Nat /\ DOMAIN s = 1..Len(s) /\ DOMAIN r = 1..(Len(s) - 1)
  BY <1>1, LenProperties
<1> HIDE DEF r
<1>3. \A a, b \in 1..Len(s) : s[a] = s[b] => a = b
  BY <1>2 DEF IsInjective
<1>4. IsInjective(r)
  BY <1>1, <1>2, <1>3 DEF IsInjective
<1>5. ToSet(r) \subseteq ToSet(s) \ {s[j]}
  <2>1. ASSUME NEW l \in 1..(Len(s) - 1) PROVE r[l] \in ToSet(s) /\ r[l] # s[j]
    <3>1. CASE l < j
      <4>1. r[l] = s[l] /\ l \in 1..Len(s) /\ l # j
        BY <3>1, <1>1, <1>2
      <4> QED BY <4>1, <1>2, <1>3 DEF ToSet
    <3>2. CASE ~(l < j)
      <4>1. r[l] = s[l + 1] /\ l + 1 \in 1..Len(s) /\ l + 1 # j
        BY <3>2, <1>1, <1>2
      <4> QED BY <4>1, <1>2, <1>3 DEF ToSet
    <3> QED BY <3>1, <3>2
  <2> QED BY <2>1, <1>2 DEF ToSet
<1>6. ASSUME NEW a \in 1..Len(s), a # j PROVE s[a] \in ToSet(r)
  <2>1. CASE a < j
    BY <2>1, <1>1, <1>2 DEF ToSet
  <2>2. CASE a > j
    <3>1. a - 1 \in 1..(Len(s) - 1) /\ r[a - 1] = s[a]
      BY <2>2, <1>1, <1>2
    <3> QED BY <3>1, <1>2 DEF ToSet
  <2> QED BY <2>1, <2>2, <1>2, <1>6
<1>7. ToSet(s) \ {s[j]} \subseteq ToSet(r)
  BY <1>6, <1>2 DEF ToSet
<1> QED BY <1>1, <1>2, <1>4, <1>5, <1>7 DEF r, ToSet

(* What pushing does to a list. *)
LEMMA PushDistinct ==
  ASSUME NEW S, NEW s \in Seq(S), IsInjective(s), NEW e \in S, e \notin ToSet(s)
  PROVE  /\ <<e>> \o s \in Seq(S)
         /\ IsInjective(<<e>> \o s)
         /\ ToSet(<<e>> \o s) = ToSet(s) \cup {e}
<1> DEFINE r == <<e>> \o s
<1>1. Len(s) \in Nat /\ DOMAIN s = 1..Len(s)
  BY LenProperties
<1>2. /\ r \in Seq(S)
      /\ Len(r) = Len(s) + 1
      /\ \A l \in 1..(Len(s) + 1) : r[l] = IF l = 1 THEN e ELSE s[l - 1]
  <2>1. <<e>> \in Seq(S) /\ Len(<<e>>) = 1 /\ <<e>>[1] = e
    OBVIOUS
  <2> QED BY <2>1, <1>1, ConcatProperties, SMTT(30)
<1>3. DOMAIN r = 1..(Len(s) + 1)
  BY <1>2, LenProperties
<1> HIDE DEF r
<1>4. \A l \in 1..Len(s) : s[l] # e
  BY <1>1 DEF ToSet
<1>5. IsInjective(r)
  <2>1. \A a, b \in 1..Len(s) : s[a] = s[b] => a = b
    BY <1>1 DEF IsInjective
  <2>2. SUFFICES ASSUME NEW a \in 1..(Len(s) + 1), NEW b \in 1..(Len(s) + 1), r[a] = r[b]
                 PROVE  a = b
    BY <1>3 DEF IsInjective
  <2>3. CASE a = 1 \/ b = 1
    BY <2>2, <2>3, <1>1, <1>2, <1>4
  <2>4. CASE a # 1 /\ b # 1
    BY <2>1, <2>2, <2>4, <1>1, <1>2
  <2> QED BY <2>3, <2>4
<1>6. ToSet(r) \subseteq ToSet(s) \cup {e}
  BY <1>1, <1>2, <1>3 DEF ToSet
<1>7. e \in ToSet(r)
  BY <1>1, <1>2, <1>3 DEF ToSet
<1>8. ASSUME NEW l \in 1..Len(s) PROVE s[l] \in ToSet(r)
  <2>1. l + 1 \in 1..(Len(s) + 1) /\ r[l + 1] = s[l]
    BY <1>1, <1>2
  <2> QED BY <2>1, <1>3 DEF ToSet
<1>9. ToSet(s) \subseteq ToSet(r)
  BY <1>8, <1>1 DEF ToSet
<1> QED BY <1>2, <1>5, <1>6, <1>7, <1>9 DEF r

(* What popping does to a list without repetitions. *)
LEMMA PopDistinct ==
  ASSUME NEW S, NEW s \in Seq(S), IsInjective(s), s # <<>>
  PROVE  /\ Head(s) \in S
         /\ Tail(s) \in Seq(S)
         /\ IsInjective(Tail(s))
         /\ Head(s) \notin ToSet(Tail(s))
         /\ ToSet(s) = ToSet(Tail(s)) \cup {Head(s)}
<1> DEFINE t == Tail(s)
<1>1. /\ Len(s) \in Nat \ {0} /\ DOMAIN s = 1..Len(s)
      /\ Head(s) = s[1]
  BY LenProperties, EmptySeq
<1>2. /\ Head(s) \in S
      /\ t \in Seq(S)
      /\ Len(t) = Len(s) - 1
      /\ \A l \in 1..(Len(s) - 1) : t[l] = s[l + 1]
  BY HeadTailProperties
<1>3. DOMAIN t = 1..(Len(s) - 1)
  BY <1>2, LenProperties
<1> HIDE DEF t
<1>4. \A a, b \in 1..Len(s) : s[a] = s[b] => a = b
  BY <1>1 DEF IsInjective
<1>5. IsInjective(t)
  BY <1>1, <1>2, <1>3, <1>4 DEF IsInjective
<1>6. Head(s) \notin ToSet(t)
  BY <1>1, <1>2, <1>3, <1>4 DEF ToSet
<1>7. ToSet(t) \cup {Head(s)} \subseteq ToSet(s)
  <2>1. \A a \in 1..(Len(s) - 1) : t[a] = s[a + 1] /\ a + 1 \in 1..Len(s)
    BY <1>1, <1>2
  <2>2. Head(s) = s[1] /\ 1 \in 1..Len(s)
    BY <1>1
  <2>3. ToSet(t) \subseteq ToSet(s)
    BY <1>1, <1>3, <2>1 DEF ToSet
  <2> QED BY <1>1, <2>2, <2>3 DEF ToSet
<1>8. ASSUME NEW a \in 1..Len(s) PROVE s[a] \in ToSet(t) \cup {Head(s)}
  <2>1. CASE a = 1
    BY <2>1, <1>1
  <2>2. CASE a # 1
    <3>1. a - 1 \in 1..(Len(s) - 1) /\ t[a - 1] = s[a]
      BY <2>2, <1>1, <1>2
    <3> QED BY <3>1, <1>3 DEF ToSet
  <2> QED BY <2>1, <2>2
<1>9. ToSet(s) \subseteq ToSet(t) \cup {Head(s)}
  BY <1>8, <1>1 DEF ToSet
<1> QED BY <1>2, <1>5, <1>6, <1>7, <1>9 DEF t

(* A new block gives each of its bindings once. *)
LEMMA BlockListDistinct ==
  ASSUME NEW b \in 1..MaxBlocks
  PROVE  /\ BlockList(b) \in Seq(Binding)
         /\ BlockList(b) # <<>>
         /\ IsInjective(BlockList(b))
         /\ ToSet(BlockList(b)) = {b} \X (1..hint)
<1>1. hint \in Nat \ {0}
  BY SizeType
<1>2. /\ DOMAIN BlockList(b) = 1..hint
      /\ \A j \in 1..hint : BlockList(b)[j] = <<b, hint + 1 - j>>
  BY DEF BlockList
<1>3. BlockList(b) \in Seq(Binding)
  <2>1. \A j \in 1..hint : <<b, hint + 1 - j>> \in Binding
    BY <1>1 DEF Binding
  <2> QED BY <2>1, <1>1, IsASeq DEF BlockList
<1>4. BlockList(b) # <<>>
  BY <1>1, <1>2
<1>5. IsInjective(BlockList(b))
  BY <1>1, <1>2 DEF IsInjective
<1>6. ToSet(BlockList(b)) \subseteq {b} \X (1..hint)
  <2>1. ASSUME NEW j \in 1..hint PROVE BlockList(b)[j] \in {b} \X (1..hint)
    <3>1. hint + 1 - j \in 1..hint
      BY <1>1
    <3>2. <<b, hint + 1 - j>> \in {b} \X (1..hint)
      BY <3>1
    <3> QED BY <3>2, <1>2
  <2> QED BY <2>1, <1>2 DEF ToSet
<1>7. ASSUME NEW l \in 1..hint PROVE <<b, l>> \in ToSet(BlockList(b))
  <2>1. hint + 1 - l \in 1..hint /\ hint + 1 - (hint + 1 - l) = l
    BY <1>1
  <2>2. BlockList(b)[hint + 1 - l] = <<b, l>>
    BY <2>1, <1>2
  <2> QED BY <2>1, <2>2, <1>2 DEF ToSet
<1>8. {b} \X (1..hint) \subseteq ToSet(BlockList(b))
  BY <1>7
<1> QED BY <1>3, <1>4, <1>5, <1>6, <1>8

(* unlink moves one binding from its chain to the free list. *)
LEMMA UnlinkLists ==
  ASSUME TypeOK, OnOneList, NEW b \in Bucket, NEW j \in DOMAIN buckets[b],
         unlink(b, j), UNCHANGED num_alist
  PROVE  LET n == buckets[b][j] IN
         /\ n \in Binding /\ n \in Linked
         /\ freelist' \in Seq(Binding)
         /\ buckets' \in [Bucket -> Seq(Binding)]
         /\ \A c \in Bucket : ChainOf(c)' = ChainOf(c) \ {n}
         /\ Linked' = Linked \ {n}
         /\ OnOneList'
<1> DEFINE n == buckets[b][j]
<1> USE DEF TypeOK
<1>1. /\ buckets[b] \in Seq(Binding) /\ IsInjective(buckets[b])
      /\ j \in 1..Len(buckets[b])
  BY LenProperties DEF OnOneList
<1>2. /\ RemoveAt(buckets[b], j) \in Seq(Binding)
      /\ IsInjective(RemoveAt(buckets[b], j))
      /\ ToSet(RemoveAt(buckets[b], j)) = ToSet(buckets[b]) \ {n}
      /\ n \in ToSet(buckets[b])
  BY <1>1, RemoveAtDistinct
<1>3. n \in Binding /\ n \in Linked
  BY <1>1, <1>2, ElementOfSeq DEF Linked, ChainOf
<1>4. /\ <<n>> \o freelist \in Seq(Binding)
      /\ IsInjective(<<n>> \o freelist)
      /\ ToSet(<<n>> \o freelist) = Free \cup {n}
  BY <1>3, PushDistinct DEF OnOneList, Free
<1>5. /\ freelist' = <<n>> \o freelist
      /\ buckets' = [buckets EXCEPT ![b] = RemoveAt(buckets[b], j)]
  BY DEF unlink, free_binding
<1> HIDE DEF n
<1>6. buckets' \in [Bucket -> Seq(Binding)] /\ freelist' \in Seq(Binding)
  BY <1>2, <1>4, <1>5
<1>7. ASSUME NEW c \in Bucket PROVE ChainOf(c)' = ChainOf(c) \ {n}
  <2>1. CASE c = b
    BY <2>1, <1>2, <1>5 DEF ChainOf
  <2>2. CASE c # b
    <3>1. ChainOf(c)' = ChainOf(c)
      BY <2>2, <1>5 DEF ChainOf
    <3>2. n \notin ChainOf(c)
      BY <2>2, <1>2 DEF OnOneList, ChainOf
    <3> QED BY <3>1, <3>2
  <2> QED BY <2>1, <2>2
<1>8. Linked' = Linked \ {n}
  BY <1>7 DEF Linked
<1>9. Free' = Free \cup {n}
  BY <1>4, <1>5 DEF Free
<1>10. OnOneList'
  <2>1. IsInjective(freelist')
    BY <1>4, <1>5
  <2>2. \A c \in Bucket : IsInjective(buckets'[c])
    BY <1>2, <1>5 DEF OnOneList
  <2>3. \A c, d \in Bucket : c # d => ChainOf(c)' \cap ChainOf(d)' = {}
    BY <1>7 DEF OnOneList
  <2>4. Linked' \cap Free' = {} /\ Linked' \cup Free' = Allocated'
    BY <1>3, <1>8, <1>9 DEF OnOneList, Allocated
  <2> QED BY <2>1, <2>2, <2>3, <2>4 DEF OnOneList
<1> QED BY <1>3, <1>6, <1>7, <1>8, <1>10 DEF n

(* link moves the head of the list fl + n to the chain of its key. *)
LEMMA LinkLists ==
  ASSUME TypeOK, OnOneList, NEW k \in Key, NEW v, NEW n \in Binding, NEW fl \in Seq(Binding),
         link(n, fl, k, v),
         IsInjective(fl), n \notin ToSet(fl),
         n \notin Linked, Linked \cap ToSet(fl) = {},
         Allocated' = Linked \cup {n} \cup ToSet(fl)
  PROVE  /\ freelist' \in Seq(Binding)
         /\ buckets' \in [Bucket -> Seq(Binding)]
         /\ BucketOf(k) \in Bucket
         /\ \A c \in Bucket :
              ChainOf(c)' = IF c = BucketOf(k) THEN ChainOf(c) \cup {n} ELSE ChainOf(c)
         /\ Linked' = Linked \cup {n}
         /\ OnOneList'
<1> DEFINE b == BucketOf(k)
<1> USE DEF TypeOK
<1>1. b \in Bucket
  BY SizeType, HashAssumption DEF Bucket, BucketOf
<1>2. /\ freelist' = fl
      /\ buckets' = [buckets EXCEPT ![b] = <<n>> \o buckets[b]]
  BY DEF link
<1>3. n \notin ToSet(buckets[b])
  BY <1>1 DEF Linked, ChainOf
<1>4. /\ <<n>> \o buckets[b] \in Seq(Binding)
      /\ IsInjective(<<n>> \o buckets[b])
      /\ ToSet(<<n>> \o buckets[b]) = ToSet(buckets[b]) \cup {n}
  <2>1. buckets[b] \in Seq(Binding) /\ IsInjective(buckets[b])
    BY <1>1 DEF OnOneList
  <2> QED BY <2>1, <1>3, PushDistinct
<1> HIDE DEF b
<1>5. buckets' \in [Bucket -> Seq(Binding)] /\ freelist' \in Seq(Binding)
  BY <1>2, <1>4
<1>6. ASSUME NEW c \in Bucket
      PROVE  ChainOf(c)' = IF c = b THEN ChainOf(c) \cup {n} ELSE ChainOf(c)
  BY <1>2, <1>4 DEF ChainOf
<1>7. Linked' = Linked \cup {n}
  <2>1. \A c \in Bucket : ChainOf(c)' \subseteq ChainOf(c) \cup {n}
    BY <1>6
  <2>2. \A c \in Bucket : ChainOf(c) \subseteq ChainOf(c)'
    BY <1>6
  <2>3. n \in ChainOf(b)'
    BY <1>1, <1>6
  <2>4. Linked' \subseteq Linked \cup {n}
    BY <2>1 DEF Linked
  <2>5. Linked \subseteq Linked' /\ n \in Linked'
    BY <1>1, <2>2, <2>3 DEF Linked
  <2> QED BY <2>4, <2>5
<1>8. OnOneList'
  <2>1. IsInjective(freelist')
    BY <1>2
  <2>2. \A c \in Bucket : IsInjective(buckets'[c])
    BY <1>2, <1>4 DEF OnOneList
  <2>3. \A c \in Bucket : n \notin ChainOf(c)
    BY DEF Linked
  <2>4. \A c, d \in Bucket : c # d => ChainOf(c)' \cap ChainOf(d)' = {}
    BY <1>6, <2>3 DEF OnOneList
  <2>5. Linked' \cap Free' = {} /\ Linked' \cup Free' = Allocated'
    BY <1>2, <1>7 DEF Free
  <2> QED BY <2>1, <2>2, <2>4, <2>5 DEF OnOneList
<1> QED BY <1>1, <1>5, <1>6, <1>7, <1>8 DEF b

LEMMA BindingFinite == IsFiniteSet(Binding)
<1>1. MaxBlocks \in Int /\ hint \in Int
  BY SizeType, BoundAssumption
<1>2. IsFiniteSet(1..MaxBlocks) /\ IsFiniteSet(1..hint)
  BY <1>1, FS_Interval
<1> QED BY <1>2, FS_Product DEF Binding

(* Finite are the sets the counters count. *)
LEMMA LinkedFinite ==
  ASSUME TypeOK
  PROVE  /\ Linked \subseteq Binding /\ Marked \subseteq Linked
         /\ IsFiniteSet(Linked) /\ IsFiniteSet(Marked)
<1>1. ASSUME NEW b \in Bucket PROVE ChainOf(b) \subseteq Binding
  BY LenProperties, ElementOfSeq DEF TypeOK, ChainOf, ToSet
<1>2. Linked \subseteq Binding /\ Marked \subseteq Linked
  BY <1>1 DEF Linked, Marked
<1> QED BY <1>2, BindingFinite, FS_Subset

(* The part of the invariant that the lists and the fields determine. *)
Structure == OnOneList /\ KeysOnce /\ CountsExact

(* The loops leave nothing behind: no marked binding before the position of *)
(* the sweep, no binding in the buckets I2HashClean has left.               *)
NothingBehind ==
    /\ op = "sweep" =>
         \A b \in Bucket : \A j \in DOMAIN buckets[b] :
           bdelete[buckets[b][j]] => i < b \/ (i = b /\ p <= j)
    /\ op \in {"clean", "cleanChain"} =>
         \A b \in Bucket : b < i => buckets[b] = <<>>
    /\ op = "cleanChain" => i < size

(* The inductive invariant. TypeOK needs CountsExact (length must not drop  *)
(* below 0 when a binding is unlinked), CountsExact needs OnOneList (else   *)
(* unlinking one place would not take exactly one binding off the set),     *)
(* linking a recycled binding needs MarksOnlyWhileIterating, and that needs *)
(* NothingBehind at the end of a sweep. A new table starts from the empty   *)
(* lists that NoMemoryLost gives a closed one.                              *)
IInv == TypeOK /\ Structure /\ MarksOnlyWhileIterating /\ NothingBehind /\ NoMemoryLost

(* Steps that only move the loops or report a result. *)
LEMMA QuietStep ==
  ASSUME IInv, UNCHANGED <<num_alist, lists, fields, length, delete_nodes>>
  PROVE  Structure' /\ Marked' = Marked
<1>1. Linked' = Linked /\ Free' = Free /\ Allocated' = Allocated
  BY DEF lists, Linked, ChainOf, Free, Allocated
<1>2. Marked' = Marked
  BY <1>1 DEF fields, Marked
<1>3. OnOneList'
  BY <1>1 DEF IInv, Structure, OnOneList, lists, ChainOf
<1>4. KeysOnce'
  BY <1>1 DEF IInv, Structure, KeysOnce, lists, fields, ChainOf
<1>5. CountsExact'
  BY <1>1, <1>2 DEF IInv, Structure, CountsExact
<1> QED BY <1>2, <1>3, <1>4, <1>5 DEF Structure

(* Unlinking keeps keys, counts and types right. *)
LEMMA UnlinkStep ==
  ASSUME IInv, NEW b \in Bucket, NEW j \in DOMAIN buckets[b],
         unlink(b, j), UNCHANGED <<num_alist, fields>>,
         delete_nodes' = IF bdelete[buckets[b][j]] THEN delete_nodes - 1 ELSE delete_nodes
  PROVE  /\ Structure'
         /\ Marked' = Marked \ {buckets[b][j]}
         /\ freelist' \in Seq(Binding) /\ buckets' \in [Bucket -> Seq(Binding)]
         /\ length' \in Nat /\ delete_nodes' \in Nat
<1> DEFINE n == buckets[b][j]
<1>1. TypeOK /\ OnOneList /\ KeysOnce /\ CountsExact
  BY DEF IInv, Structure
<1>2. /\ n \in Binding /\ n \in Linked
      /\ freelist' \in Seq(Binding)
      /\ buckets' \in [Bucket -> Seq(Binding)]
      /\ \A c \in Bucket : ChainOf(c)' = ChainOf(c) \ {n}
      /\ Linked' = Linked \ {n}
      /\ OnOneList'
  BY <1>1, UnlinkLists
<1>3. length' = length - 1
  BY DEF unlink
<1>4. bdelete' = bdelete /\ bkey' = bkey
  BY DEF fields
<1> HIDE DEF n
<1>5. Marked' = Marked \ {n}
  BY <1>2, <1>4 DEF Marked
<1>6. IsFiniteSet(Linked) /\ IsFiniteSet(Marked) /\ Marked \subseteq Linked
  BY <1>1, LinkedFinite
<1>7. /\ Cardinality(Linked \ {n}) = Cardinality(Linked) - 1
      /\ IsFiniteSet(Linked \ {n})
  BY <1>2, <1>6, FS_RemoveElement
<1>8. /\ Cardinality(Marked \ {n}) = IF n \in Marked THEN Cardinality(Marked) - 1
                                                     ELSE Cardinality(Marked)
      /\ IsFiniteSet(Marked \ {n})
  BY <1>6, FS_RemoveElement
<1>9. n \in Marked <=> bdelete[n]
  BY <1>2 DEF Marked
<1>10. delete_nodes' = IF bdelete[n] THEN delete_nodes - 1 ELSE delete_nodes
  BY DEF n
<1>11. CountsExact'
  BY <1>1, <1>2, <1>3, <1>5, <1>7, <1>8, <1>9, <1>10 DEF CountsExact
<1>12. length' \in Nat /\ delete_nodes' \in Nat
  BY <1>2, <1>5, <1>7, <1>8, <1>11, FS_CardinalityType DEF CountsExact
<1>13. KeysOnce'
  BY <1>1, <1>2, <1>4 DEF KeysOnce
<1> QED BY <1>2, <1>5, <1>11, <1>12, <1>13 DEF Structure, n

(* Linking a binding that was on no chain, for a key that was not held. *)
LEMMA LinkStep ==
  ASSUME IInv, NEW k \in Key, NEW v \in Value, NEW n \in Binding, NEW fl \in Seq(Binding),
         StoreIsNew(k), link(n, fl, k, v),
         IsInjective(fl), n \notin ToSet(fl),
         n \notin Linked, Linked \cap ToSet(fl) = {},
         Allocated' = Linked \cup {n} \cup ToSet(fl)
  PROVE  /\ Structure'
         /\ Marked' = Marked
         /\ freelist' \in Seq(Binding) /\ buckets' \in [Bucket -> Seq(Binding)]
         /\ length' \in Nat
         /\ bkey' \in [Binding -> Key \cup {NULL}]
         /\ bvalue' \in [Binding -> Value \cup {NULL}]
         /\ bdelete' \in [Binding -> BOOLEAN]
<1>1. TypeOK /\ OnOneList /\ KeysOnce /\ CountsExact
  BY DEF IInv, Structure
<1>2. /\ freelist' \in Seq(Binding)
      /\ buckets' \in [Bucket -> Seq(Binding)]
      /\ BucketOf(k) \in Bucket
      /\ \A c \in Bucket :
           ChainOf(c)' = IF c = BucketOf(k) THEN ChainOf(c) \cup {n} ELSE ChainOf(c)
      /\ Linked' = Linked \cup {n}
      /\ OnOneList'
  BY <1>1, LinkLists
<1>3. /\ bkey' = [bkey EXCEPT ![n] = k]
      /\ bvalue' = [bvalue EXCEPT ![n] = v]
      /\ bdelete' = [bdelete EXCEPT ![n] = FALSE]
      /\ length' = length + 1 /\ delete_nodes' = delete_nodes
  BY DEF link
<1>4. /\ bkey' \in [Binding -> Key \cup {NULL}]
      /\ bvalue' \in [Binding -> Value \cup {NULL}]
      /\ bdelete' \in [Binding -> BOOLEAN]
      /\ length' \in Nat
  BY <1>1, <1>3 DEF TypeOK
<1>5. Linked \subseteq Binding /\ IsFiniteSet(Linked)
  BY <1>1, LinkedFinite
<1>6. /\ bkey'[n] = k /\ bdelete'[n] = FALSE
      /\ \A m \in Binding : m # n => bkey'[m] = bkey[m] /\ bdelete'[m] = bdelete[m]
  BY <1>1, <1>3 DEF TypeOK
<1>7. Marked' = Marked
  BY <1>2, <1>5, <1>6 DEF Marked
<1>8. CountsExact'
  <2>1. Cardinality(Linked \cup {n}) = Cardinality(Linked) + 1
    BY <1>5, FS_AddElement
  <2> QED BY <1>1, <1>2, <1>3, <1>7, <2>1 DEF CountsExact
<1>9. \A m \in ChainOf(BucketOf(k)) : bkey[m] # k
  <2>1. HeldAt(k) = {}
    BY DEF StoreIsNew
  <2> QED BY <2>1 DEF HeldAt, ChainOf, ToSet
<1>10. KeysOnce'
  <2>1. ASSUME NEW c \in Bucket, NEW m \in ChainOf(c)'
        PROVE  bkey'[m] \in Key /\ BucketOf(bkey'[m]) = c
    <3>1. CASE m = n
      <4>1. c = BucketOf(k)
        BY <3>1, <1>2 DEF Linked
      <4> QED BY <3>1, <4>1, <1>6
    <3>2. CASE m # n
      <4>1. m \in ChainOf(c)
        BY <3>2, <1>2
      <4>2. m \in Binding
        BY <4>1, <1>5 DEF Linked
      <4> QED BY <3>2, <4>1, <4>2, <1>1, <1>6 DEF KeysOnce
    <3> QED BY <3>1, <3>2
  <2>2. \A m \in Linked : bkey[m] # k
    <3>1. TAKE m \in Linked
    <3>2. PICK c \in Bucket : m \in ChainOf(c)
      BY DEF Linked
    <3> QED BY <3>2, <1>1, <1>9 DEF KeysOnce
  <2>3. \A m1, m2 \in Linked' : bkey'[m1] = bkey'[m2] => m1 = m2
    BY <1>1, <1>2, <1>5, <1>6, <2>2 DEF KeysOnce
  <2>4. \A c \in Bucket : \A m \in ChainOf(c)' :
           bkey'[m] \in Key /\ BucketOf(bkey'[m]) = c
    BY <2>1
  <2> QED BY <2>3, <2>4 DEF KeysOnce, BucketOf
<1> QED BY <1>2, <1>4, <1>7, <1>8, <1>10 DEF Structure

(* The fields of bindings nobody has used. *)
LEMMA FieldTypes ==
  /\ AllBindings(NULL) \in [Binding -> Key \cup {NULL}]
  /\ AllBindings(NULL) \in [Binding -> Value \cup {NULL}]
  /\ AllBindings(FALSE) \in [Binding -> BOOLEAN]
  BY DEF AllBindings

(* A table without a block is empty. *)
LEMMA EmptyLists ==
  /\ NoChains \in [Bucket -> Seq(Binding)]
  /\ ToSet(<<>>) = {} /\ IsInjective(<<>>)
  /\ (1..0) \X (1..hint) = {}
<1>1. DOMAIN <<>> = {} /\ 1..0 = {}
  OBVIOUS
<1> QED BY <1>1, EmptySeq DEF NoChains, ToSet, IsInjective

(***************************************************************************)
(* The invariant holds: one step of the proof per action.                  *)
(***************************************************************************)
LEMMA InitInvariant == Init => IInv
<1> SUFFICES ASSUME Init PROVE IInv
  OBVIOUS
<1>a. /\ heap = {} /\ num_alist = 0 /\ size_alist = 0
      /\ freelist = <<>> /\ buckets = NoChains
      /\ bkey = AllBindings(NULL)
      /\ bvalue = AllBindings(NULL)
      /\ bdelete = AllBindings(FALSE)
      /\ length = 0 /\ delete_nodes = 0 /\ in_iterate = FALSE
      /\ op = "closed" /\ i = 0 /\ p = 1
  BY DEF Init
<1>1. size \in Nat \ {0} /\ hint \in Nat \ {0}
  BY SizeType
<1>0. DOMAIN <<>> = {} /\ ToSet(<<>>) = {}
  BY DEF ToSet
<1>2. \A b \in Bucket : buckets[b] = <<>> /\ ChainOf(b) = {}
  BY <1>a, <1>0 DEF NoChains, ChainOf
<1>3. Linked = {} /\ Free = {} /\ Marked = {} /\ Allocated = {}
  <2>1. Linked = {} /\ Marked = {}
    BY <1>2 DEF Linked, Marked
  <2>2. Free = {}
    BY <1>a, <1>0 DEF Free
  <2>3. Allocated = (1..0) \X (1..hint) /\ 1..0 = {}
    BY <1>a DEF Allocated
  <2>4. Allocated = {}
    BY <2>3
  <2> QED BY <2>1, <2>2, <2>4
<1>4. TypeOK
  <2>1. freelist \in Seq(Binding) /\ buckets \in [Bucket -> Seq(Binding)]
    BY <1>a, EmptySeq DEF NoChains
  <2>2. /\ bkey \in [Binding -> Key \cup {NULL}]
        /\ bvalue \in [Binding -> Value \cup {NULL}]
        /\ bdelete \in [Binding -> BOOLEAN]
    BY <1>a, FieldTypes
  <2>3. heap \subseteq Memory /\ num_alist \in 0..MaxBlocks /\ i \in 0..size
    BY <1>a, <1>1, BoundAssumption
  <2>4. /\ size_alist \in Nat /\ length \in Nat /\ delete_nodes \in Nat
        /\ p \in Nat \ {0}
    BY <1>a
  <2>5. in_iterate \in BOOLEAN /\ op \in Op
    <3>1. in_iterate = FALSE /\ op = "closed"
      BY <1>a
    <3> QED BY <3>1 DEF Op
  <2> QED BY <2>1, <2>2, <2>3, <2>4, <2>5 DEF TypeOK
<1>5. OnOneList
  BY <1>a, <1>0, <1>2, <1>3 DEF OnOneList, IsInjective
<1>6. KeysOnce
  BY <1>2, <1>3 DEF KeysOnce
<1>7. CountsExact
  BY <1>a, <1>3, FS_EmptySet DEF CountsExact
<1>8. MarksOnlyWhileIterating
  BY <1>a, <1>3 DEF MarksOnlyWhileIterating
<1>9. NothingBehind
  BY <1>a DEF NothingBehind
<1>10. NoMemoryLost
  BY <1>a DEF NoMemoryLost
<1> QED BY <1>4, <1>5, <1>6, <1>7, <1>8, <1>9, <1>10 DEF IInv, Structure

(* The loop positions, and the calls that only report: nothing moves. *)
LEMMA QuietActions ==
  ASSUME IInv,
         \/ I2HashInitFails
         \/ \E k \in Key : I2HashDeleteMisses(k) \/ I2HashFetch(k) \/ I2HashStoreFails(k)
         \/ I2HashNumEntries \/ I2HashIterate \/ CallbackReturns
         \/ VisitNextBucket \/ VisitSkips \/ VisitCalls \/ VisitEnds
         \/ SweepNextBucket \/ SweepKeeps \/ SweepEnds
         \/ I2HashClean \/ CleanEntersBucket \/ CleanLeavesBucket \/ CleanEnds
  PROVE  IInv'
<1> DEFINE Loops == /\ UNCHANGED <<store, lists, fields, length>>
                    /\ in_iterate' \in BOOLEAN /\ op' \in Op
                    /\ i' \in 0..size /\ p' \in Nat \ {0}
                    /\ in_iterate' <=> op' \in {"visit", "callback", "sweep"}
                    /\ op # "closed" /\ op' # "closed"
<1>1. /\ TypeOK /\ OnOneList /\ KeysOnce /\ CountsExact
      /\ MarksOnlyWhileIterating /\ NothingBehind /\ NoMemoryLost
      /\ size \in Nat \ {0} /\ hint \in Nat \ {0}
  BY SizeType DEF IInv, Structure
<1>2. ~in_iterate => delete_nodes = 0
  BY <1>1, FS_EmptySet DEF CountsExact, MarksOnlyWhileIterating
<1>3. ASSUME UNCHANGED <<num_alist, lists, fields, counts, control>>,
             heap' \subseteq Memory, size_alist' \in Nat, NoMemoryLost'
      PROVE  IInv'
  <2>1. Structure' /\ Marked' = Marked
    BY <1>3, QuietStep DEF counts
  <2>2. TypeOK'
    BY <1>1, <1>3 DEF TypeOK, lists, fields, counts, control
  <2>3. MarksOnlyWhileIterating'
    BY <1>1, <1>3, <2>1 DEF MarksOnlyWhileIterating, counts, control
  <2>4. NothingBehind'
    BY <1>1, <1>3 DEF NothingBehind, lists, fields, control
  <2> QED BY <2>1, <2>2, <2>3, <2>4, <1>3 DEF IInv
<1>4. ASSUME Loops, delete_nodes' = delete_nodes, NothingBehind',
             ~in_iterate' => ~in_iterate \/ Marked = {}
      PROVE  IInv'
  <2>1. Structure' /\ Marked' = Marked
    BY <1>4, QuietStep DEF store
  <2>2. TypeOK'
    BY <1>1, <1>4 DEF TypeOK, store, lists, fields
  <2>3. MarksOnlyWhileIterating'
    BY <1>1, <1>4, <2>1 DEF MarksOnlyWhileIterating
  <2>4. NoMemoryLost'
    BY <1>1, <1>4 DEF NoMemoryLost, store
  <2> QED BY <2>1, <2>2, <2>3, <2>4, <1>4 DEF IInv
<1>5. CASE I2HashInitFails
  <2>1. heap' \subseteq Memory
    BY <1>5 DEF I2HashInitFails, Memory
  <2>2. heap' = {}
    <3>1. PICK got \in {{}, {Table}, {Table, Buckets}, {Table, Buckets, Alist}} :
            heap' = got \ InitErrorFrees(got, IF Alist \in got THEN hint ELSE 0)
      BY <1>5 DEF I2HashInitFails
    <3>2. Table # Alist /\ Buckets # Alist
      BY DEF Table, Buckets, Alist
    <3> QED BY <3>1, <3>2, <1>1 DEF InitErrorFrees, AlistMemory
  <2>3. NoMemoryLost'
    BY <2>2, <1>1, <1>5 DEF NoMemoryLost, I2HashInitFails, control
  <2> QED BY <1>1, <1>3, <1>5, <2>1, <2>3 DEF I2HashInitFails, TypeOK
<1>6. CASE \E k \in Key : I2HashDeleteMisses(k) \/ I2HashFetch(k)
  <2>1. UNCHANGED <<store, lists, fields, counts, control>>
    BY <1>6 DEF I2HashDeleteMisses, I2HashFetch
  <2>2. NoMemoryLost'
    BY <2>1, <1>1 DEF NoMemoryLost, store, control
  <2> QED BY <1>1, <1>3, <2>1, <2>2 DEF TypeOK, store
<1>7. CASE \E k \in Key : I2HashStoreFails(k)
  <2>1. size_alist' \in Nat /\ size_alist <= size_alist'
    BY <1>1, <1>7 DEF I2HashStoreFails, TypeOK
  <2>2. NoMemoryLost'
    BY <2>1, <1>1, <1>7 DEF I2HashStoreFails, NoMemoryLost, control, TypeOK
  <2> QED BY <1>1, <1>3, <1>7, <2>1, <2>2 DEF I2HashStoreFails, TypeOK
<1>8. CASE I2HashNumEntries
  <2>1. NoMemoryLost'
    BY <1>1, <1>8 DEF I2HashNumEntries, NoMemoryLost, store, control
  <2> QED BY <1>1, <1>3, <1>8, <2>1 DEF I2HashNumEntries, TypeOK, store
<1> USE DEF GoTo, Op, TypeOK, MarksOnlyWhileIterating, counts
<1>9. CASE I2HashIterate
  <2>1. NothingBehind'
    BY <1>9 DEF I2HashIterate, NothingBehind
  <2> QED BY <2>1, <1>1, <1>2, <1>4, <1>9 DEF I2HashIterate
<1>10. CASE CallbackReturns \/ VisitNextBucket \/ VisitSkips
  <2>1. NothingBehind'
    BY <1>1, <1>10, LenProperties
    DEF CallbackReturns, VisitNextBucket, VisitSkips, NothingBehind, Bucket, lists, fields
  <2> QED BY <2>1, <1>1, <1>4, <1>10 DEF CallbackReturns, VisitNextBucket, VisitSkips
<1>11. CASE VisitCalls \/ VisitEnds
  <2>1. NothingBehind'
    BY <1>1, <1>11, LenProperties
    DEF VisitCalls, VisitEnds, NothingBehind, Bucket, lists, fields
  <2> QED BY <2>1, <1>1, <1>4, <1>11 DEF VisitCalls, VisitEnds
<1>12. CASE SweepNextBucket \/ SweepKeeps
  <2>1. \A b \in Bucket : buckets[b] \in Seq(Binding) /\ DOMAIN buckets[b] = 1..Len(buckets[b])
    BY <1>1, LenProperties
  <2>2. /\ op = "sweep" /\ i \in Bucket
        /\ UNCHANGED <<buckets, bdelete>>
    BY <1>1, <1>12 DEF SweepNextBucket, SweepKeeps, SweepGoesOn, Bucket, lists, fields
  <2>3. NothingBehind'
    <3>1. CASE SweepNextBucket
      BY <2>1, <2>2, <3>1, <1>1 DEF SweepNextBucket, InChain, NothingBehind, Bucket
    <3>2. CASE SweepKeeps
      BY <2>1, <2>2, <3>2, <1>1 DEF SweepKeeps, Here, NothingBehind, Bucket
    <3> QED BY <3>1, <3>2, <1>12
  <2> QED BY <2>3, <1>1, <1>4, <1>12 DEF SweepNextBucket, SweepKeeps, SweepGoesOn
<1>13. CASE SweepEnds
  <2>1. NothingBehind'
    BY <1>13 DEF SweepEnds, NothingBehind
  <2>2. Marked = {}
    <3>1. CASE delete_nodes = 0
      BY <3>1, <1>1, LinkedFinite, FS_EmptySet DEF CountsExact
    <3>2. CASE i = size
      BY <3>2, <1>1, <1>13
      DEF SweepEnds, NothingBehind, Marked, Linked, ChainOf, ToSet, Bucket
    <3> QED BY <3>1, <3>2, <1>1, <1>13 DEF SweepEnds, SweepGoesOn
  <2>3. in_iterate' = FALSE /\ op' = "idle" /\ i' = 0 /\ p' = 1
    BY <1>13 DEF SweepEnds
  <2>4. UNCHANGED <<store, lists, fields, length, delete_nodes>> /\ op = "sweep"
    BY <1>13 DEF SweepEnds
  <2>5. Loops
    <3>1. in_iterate' \in BOOLEAN /\ ~in_iterate'
      BY <2>3, Zenon
    <3>2. op' \in Op /\ op' \notin {"visit", "callback", "sweep"}
      BY <2>3
    <3>3. i' \in 0..size /\ p' \in Nat \ {0}
      BY <2>3, <1>1
    <3>4. op # "closed" /\ op' # "closed"
      BY <2>3, <2>4
    <3> QED BY <2>4, <3>1, <3>2, <3>3, <3>4, Zenon
  <2> QED BY <2>1, <2>2, <2>4, <2>5, <1>4
<1>14. CASE I2HashClean \/ CleanEntersBucket \/ CleanLeavesBucket \/ CleanEnds
  <2>1. NothingBehind'
    <3>1. CASE I2HashClean \/ CleanEnds
      BY <1>1, <3>1 DEF I2HashClean, CleanEnds, NothingBehind, Bucket
    <3>2. CASE CleanEntersBucket
      BY <1>1, <3>2 DEF CleanEntersBucket, CleanGoesOn, NothingBehind, lists
    <3>3. CASE CleanLeavesBucket
      BY <1>1, <3>3 DEF CleanLeavesBucket, NothingBehind, Bucket, lists
    <3> QED BY <1>14, <3>1, <3>2, <3>3
  <2>2. i' \in 0..size
    BY <1>1, <1>14
    DEF I2HashClean, CleanEntersBucket, CleanLeavesBucket, CleanEnds, NothingBehind
  <2> QED BY <2>1, <2>2, <1>1, <1>4, <1>14
          DEF I2HashClean, CleanEntersBucket, CleanLeavesBucket, CleanEnds, CleanGoesOn
<1> QED BY <1>5, <1>6, <1>7, <1>8, <1>9, <1>10, <1>11, <1>12, <1>13, <1>14

(* unlink inside the sweep, I2HashClean and a delete between iterations. *)
LEMMA UnlinkActions ==
  ASSUME IInv,
         (\E k \in Key : I2HashDeleteUnlinks(k)) \/ SweepUnlinks \/ CleanFrees
  PROVE  IInv'
<1>1. /\ TypeOK /\ OnOneList /\ KeysOnce /\ CountsExact
      /\ MarksOnlyWhileIterating /\ NothingBehind /\ NoMemoryLost
      /\ size \in Nat \ {0} /\ hint \in Nat \ {0}
  BY SizeType DEF IInv, Structure
<1>2. \A b \in Bucket : buckets[b] \in Seq(Binding) /\ DOMAIN buckets[b] = 1..Len(buckets[b])
  BY <1>1, LenProperties DEF TypeOK
<1>3. ASSUME NEW b \in Bucket, NEW j \in DOMAIN buckets[b], unlink(b, j),
             UNCHANGED <<store, fields, in_iterate, control>>,
             delete_nodes' = IF bdelete[buckets[b][j]] THEN delete_nodes - 1
                                                       ELSE delete_nodes,
             NothingBehind'
      PROVE  IInv'
  <2>1. /\ Structure'
        /\ Marked' = Marked \ {buckets[b][j]}
        /\ freelist' \in Seq(Binding) /\ buckets' \in [Bucket -> Seq(Binding)]
        /\ length' \in Nat /\ delete_nodes' \in Nat
    BY <1>3, UnlinkStep DEF store
  <2>2. TypeOK'
    BY <1>1, <1>3, <2>1 DEF TypeOK, store, fields, control
  <2>3. MarksOnlyWhileIterating'
    BY <1>1, <1>3, <2>1 DEF MarksOnlyWhileIterating, control
  <2>4. NoMemoryLost'
    BY <1>1, <1>3 DEF NoMemoryLost, store, control
  <2> QED BY <2>1, <2>2, <2>3, <2>4, <1>3 DEF IInv
<1>4. CASE \E k \in Key : I2HashDeleteUnlinks(k)
  <2>1. PICK k \in Key : I2HashDeleteUnlinks(k)
    BY <1>4
  <2>2. BucketOf(k) \in Bucket
    BY <1>1, HashAssumption DEF Bucket, BucketOf
  <2>3. PICK j \in ShownAt(k) : unlink(BucketOf(k), j)
    BY <2>1 DEF I2HashDeleteUnlinks
  <2>4. j \in DOMAIN buckets[BucketOf(k)] /\ ~bdelete[buckets[BucketOf(k)][j]]
    BY DEF ShownAt, HeldAt
  <2>5. op \in {"idle", "callback"}
    BY <2>1 DEF I2HashDeleteUnlinks, Calling
  <2>6. UNCHANGED <<store, fields, delete_nodes, in_iterate, control>>
    BY <2>1 DEF I2HashDeleteUnlinks
  <2>7. NothingBehind'
    BY <2>5, <2>6 DEF NothingBehind, control
  <2> QED BY <1>3, <2>2, <2>3, <2>4, <2>6, <2>7
<1>5. CASE SweepUnlinks
  <2>1. i \in Bucket /\ p \in DOMAIN buckets[i] /\ bdelete[buckets[i][p]]
    BY <1>1, <1>2, <1>5
    DEF SweepUnlinks, SweepGoesOn, InChain, Here, Bucket, TypeOK
  <2>2. unlink(i, p) /\ delete_nodes' = delete_nodes - 1 /\ op = "sweep"
    BY <1>5 DEF SweepUnlinks, SweepGoesOn
  <2>3. UNCHANGED <<store, fields, in_iterate, control>>
    BY <1>5 DEF SweepUnlinks
  <2>4. /\ Len(RemoveAt(buckets[i], p)) = Len(buckets[i]) - 1
        /\ RemoveAt(buckets[i], p) \in Seq(Binding)
        /\ \A l \in 1..(Len(buckets[i]) - 1) :
             RemoveAt(buckets[i], p)[l] = IF l < p THEN buckets[i][l] ELSE buckets[i][l + 1]
    <3>1. buckets[i] \in Seq(Binding) /\ p \in 1..Len(buckets[i])
      BY <1>2, <2>1
    <3> QED BY <3>1, RemoveAtProperties
  <2>5. DOMAIN RemoveAt(buckets[i], p) = 1..(Len(buckets[i]) - 1)
    BY <2>4, LenProperties
  <2>6. buckets' = [buckets EXCEPT ![i] = RemoveAt(buckets[i], p)]
    BY <2>2 DEF unlink
  <2>7. ASSUME NEW b \in Bucket, NEW j \in DOMAIN buckets'[b], bdelete[buckets'[b][j]]
        PROVE  i < b \/ (i = b /\ p <= j)
    <3>1. CASE b = i
      <4>1. j \in 1..(Len(buckets[i]) - 1) /\ Len(buckets[i]) \in Nat
        BY <3>1, <2>1, <2>5, <2>6, <1>1, <1>2, LenProperties DEF TypeOK
      <4>2. ASSUME j < p PROVE FALSE
        <5>1. buckets'[b][j] = buckets[i][j] /\ j \in DOMAIN buckets[i]
          <6>1. buckets'[b] = RemoveAt(buckets[i], p)
            <7>1. buckets \in [Bucket -> Seq(Binding)]
              BY <1>1 DEF TypeOK
            <7> QED BY <7>1, <3>1, <2>1, <2>6
          <6>2. RemoveAt(buckets[i], p)[j] = buckets[i][j]
            BY <4>1, <4>2, <2>4
          <6>3. j \in 1..Len(buckets[i])
            BY <4>1
          <6> QED BY <6>1, <6>2, <6>3, <2>1, <1>2
        <5>2. bdelete[buckets[i][j]]
          <6>1. buckets'[b][j] = buckets[i][j]
            BY <5>1
          <6>2. bdelete[buckets'[b][j]]
            BY <2>7, Zenon
          <6> QED BY <6>1, <6>2, Zenon
        <5>3. i < i \/ p <= j
          BY <5>1, <5>2, <2>1, <2>2, <1>1 DEF NothingBehind
        <5>4. i \in Nat /\ p \in Nat /\ j \in Nat
          BY <4>1, <1>1 DEF TypeOK
        <5> QED BY <5>3, <5>4, <4>2
      <4> QED BY <4>1, <4>2, <3>1, <1>1 DEF TypeOK
    <3>2. CASE b # i
      <4>1. buckets'[b] = buckets[b]
        BY <3>2, <2>6, <1>1 DEF TypeOK
      <4> QED BY <4>1, <3>2, <2>2, <2>7, <1>1 DEF NothingBehind
    <3> QED BY <3>1, <3>2
  <2>8. NothingBehind'
    BY <2>2, <2>3, <2>7 DEF NothingBehind, control, fields
  <2> QED BY <1>3, <2>1, <2>2, <2>3, <2>8
<1>6. CASE CleanFrees
  <2>1. i \in Bucket /\ 1 \in DOMAIN buckets[i]
    <3>1. i \in Bucket /\ buckets[i] # <<>>
      BY <1>1, <1>6 DEF CleanFrees, NothingBehind, Bucket, TypeOK
    <3> QED BY <3>1, <1>2, EmptySeq
  <2>2. unlink(i, 1) /\ op = "cleanChain"
    BY <1>6 DEF CleanFrees
  <2>3. UNCHANGED <<store, fields, delete_nodes, in_iterate, control>>
    BY <1>6 DEF CleanFrees
  <2>4. ~bdelete[buckets[i][1]]
    BY <1>1, <2>1, <2>2
    DEF MarksOnlyWhileIterating, Marked, Linked, ChainOf, ToSet
  <2>5. \A b \in Bucket : b # i => buckets'[b] = buckets[b]
    BY <1>1, <2>2 DEF unlink, TypeOK
  <2>6. NothingBehind'
    <3>1. op' = "cleanChain" /\ i' = i
      BY <2>2, <2>3 DEF control
    <3>2. i < size /\ \A b \in Bucket : b < i => buckets[b] = <<>>
      BY <1>1, <2>2 DEF NothingBehind
    <3>3. \A b \in Bucket : b < i => b # i
      BY <2>1 DEF Bucket
    <3> QED BY <3>1, <3>2, <3>3, <2>5 DEF NothingBehind
  <2> QED BY <1>3, <2>1, <2>2, <2>3, <2>4, <2>6
<1> QED BY <1>4, <1>5, <1>6

(* A store of a new key takes a binding off a list of unused ones. *)
TakesBinding(n, fl, k, v) ==
    /\ link(n, fl, k, v)
    /\ IsInjective(fl) /\ n \notin ToSet(fl)
    /\ n \notin Linked /\ Linked \cap ToSet(fl) = {}
    /\ Allocated' = Linked \cup {n} \cup ToSet(fl)

LEMMA AddsLinks ==
  ASSUME IInv, NEW k \in Key, NEW v \in Value, I2HashStoreAdds(k, v)
  PROVE  \E n \in Binding, fl \in Seq(Binding) : TakesBinding(n, fl, k, v)
<1>1. /\ freelist # <<>>
      /\ link(Head(freelist), Tail(freelist), k, v)
      /\ UNCHANGED store
  BY DEF I2HashStoreAdds
<1>2. freelist \in Seq(Binding) /\ IsInjective(freelist)
  BY DEF IInv, Structure, TypeOK, OnOneList
<1>3. /\ Head(freelist) \in Binding /\ Tail(freelist) \in Seq(Binding)
      /\ IsInjective(Tail(freelist)) /\ Head(freelist) \notin ToSet(Tail(freelist))
      /\ Free = ToSet(Tail(freelist)) \cup {Head(freelist)}
  BY <1>1, <1>2, PopDistinct DEF Free
<1>4. /\ Head(freelist) \notin Linked /\ Linked \cap ToSet(Tail(freelist)) = {}
      /\ Allocated' = Linked \cup {Head(freelist)} \cup ToSet(Tail(freelist))
  BY <1>1, <1>3 DEF IInv, Structure, OnOneList, Allocated, store
<1> QED BY <1>1, <1>3, <1>4 DEF TakesBinding

LEMMA GrowsLinks ==
  ASSUME IInv, NEW k \in Key, NEW v \in Value, I2HashStoreGrows(k, v)
  PROVE  \E n \in Binding, fl \in Seq(Binding) : TakesBinding(n, fl, k, v)
<1> DEFINE b == num_alist + 1
           fl == BlockList(b)
<1>1. TypeOK /\ OnOneList
  BY DEF IInv, Structure
<1>2. /\ freelist = <<>> /\ num_alist < MaxBlocks /\ num_alist' = num_alist + 1
      /\ link(Head(fl), Tail(fl), k, v)
  BY DEF I2HashStoreGrows
<1>3. b \in 1..MaxBlocks /\ b \notin 1..num_alist /\ 1..b = (1..num_alist) \cup {b}
  BY <1>1, <1>2, BoundAssumption DEF TypeOK
<1>4. /\ fl \in Seq(Binding) /\ fl # <<>> /\ IsInjective(fl)
      /\ ToSet(fl) = {b} \X (1..hint)
  BY <1>3, BlockListDistinct
<1> HIDE DEF fl
<1>5. /\ Head(fl) \in Binding /\ Tail(fl) \in Seq(Binding)
      /\ IsInjective(Tail(fl)) /\ Head(fl) \notin ToSet(Tail(fl))
      /\ ToSet(fl) = ToSet(Tail(fl)) \cup {Head(fl)}
  BY <1>4, PopDistinct
<1>6. Free = {}
  BY <1>2 DEF Free, ToSet
<1>7. Linked = Allocated
  BY <1>1, <1>6 DEF OnOneList
<1>8. Linked \cap ({b} \X (1..hint)) = {}
  BY <1>3, <1>7 DEF Allocated
<1>9. Allocated' = Allocated \cup ({b} \X (1..hint))
  <2>1. Allocated' = (1..b) \X (1..hint)
    BY <1>2 DEF Allocated
  <2> QED BY <2>1, <1>3 DEF Allocated
<1>10. /\ Head(fl) \notin Linked /\ Linked \cap ToSet(Tail(fl)) = {}
       /\ Allocated' = Linked \cup {Head(fl)} \cup ToSet(Tail(fl))
  BY <1>4, <1>5, <1>7, <1>8, <1>9
<1> QED BY <1>2, <1>5, <1>10 DEF TakesBinding

(* The other calls that write: create, close, mark, replace, add, grow.    *)
LEMMA WritingActions ==
  ASSUME IInv,
         \/ I2HashInit \/ I2HashClose
         \/ \E k \in Key : I2HashDeleteMarks(k)
         \/ \E k \in Key, v \in Value :
              I2HashStoreReplaces(k, v) \/ I2HashStoreAdds(k, v) \/ I2HashStoreGrows(k, v)
  PROVE  IInv'
<1>1. /\ TypeOK /\ OnOneList /\ KeysOnce /\ CountsExact
      /\ MarksOnlyWhileIterating /\ NothingBehind /\ NoMemoryLost
      /\ size \in Nat \ {0} /\ hint \in Nat \ {0}
  BY SizeType DEF IInv, Structure
<1>2. \A k \in Key : BucketOf(k) \in Bucket
  BY <1>1, HashAssumption DEF Bucket, BucketOf
<1>3. \A k \in Key : \A j \in HeldAt(k) :
         /\ buckets[BucketOf(k)][j] \in Linked
         /\ buckets[BucketOf(k)][j] \in Binding
  BY <1>1, <1>2, LinkedFinite DEF HeldAt, Linked, ChainOf, ToSet
<1>4. ASSUME NEW k \in Key, I2HashDeleteMarks(k)
      PROVE  IInv'
  <2>1. PICK j \in ShownAt(k) : bdelete' = [bdelete EXCEPT ![buckets[BucketOf(k)][j]] = TRUE]
    BY <1>4 DEF I2HashDeleteMarks
  <2> DEFINE n == buckets[BucketOf(k)][j]
  <2>2. n \in Linked /\ n \in Binding /\ n \notin Marked
    BY <1>3 DEF ShownAt, Marked
  <2>3. /\ bdelete' = [bdelete EXCEPT ![n] = TRUE]
        /\ delete_nodes' = delete_nodes + 1
        /\ in_iterate /\ op \in {"idle", "callback"}
        /\ UNCHANGED <<store, lists, bkey, bvalue, length, in_iterate, control>>
    BY <2>1, <1>4 DEF I2HashDeleteMarks, Calling
  <2> HIDE DEF n
  <2>4. TypeOK'
    BY <1>1, <2>2, <2>3 DEF TypeOK, store, lists, control
  <2>5. Linked' = Linked /\ Free' = Free /\ Allocated' = Allocated
    BY <2>3 DEF lists, Linked, ChainOf, Free, Allocated, store
  <2>6. OnOneList'
    BY <1>1, <2>3, <2>5 DEF OnOneList, lists, ChainOf
  <2>7. KeysOnce'
    BY <1>1, <2>3, <2>5 DEF KeysOnce, lists, ChainOf
  <2>8. Marked' = Marked \cup {n}
    BY <1>1, <2>2, <2>3, <2>5, LinkedFinite DEF Marked, TypeOK
  <2>9. CountsExact'
    BY <1>1, <2>2, <2>3, <2>5, <2>8, LinkedFinite, FS_AddElement DEF CountsExact
  <2>10. MarksOnlyWhileIterating'
    BY <1>1, <2>3 DEF MarksOnlyWhileIterating, control
  <2>11. NothingBehind'
    BY <2>3 DEF NothingBehind, control
  <2>12. NoMemoryLost'
    BY <1>1, <2>3 DEF NoMemoryLost, store, control
  <2> QED BY <2>4, <2>6, <2>7, <2>9, <2>10, <2>11, <2>12 DEF IInv, Structure
<1>5. ASSUME NEW k \in Key, NEW v \in Value, I2HashStoreReplaces(k, v)
      PROVE  IInv'
  <2>1. /\ bvalue' \in [Binding -> Value \cup {NULL}]
        /\ UNCHANGED <<store, lists, bkey, bdelete, counts, control>>
    BY <1>1, <1>5 DEF I2HashStoreReplaces, TypeOK
  <2>2. TypeOK'
    BY <1>1, <2>1 DEF TypeOK, store, lists, counts, control
  <2>3. Linked' = Linked /\ Free' = Free /\ Allocated' = Allocated /\ Marked' = Marked
    BY <2>1 DEF lists, Linked, ChainOf, Free, Allocated, Marked, store
  <2>4. OnOneList'
    BY <1>1, <2>1, <2>3 DEF OnOneList, lists, ChainOf
  <2>5. KeysOnce'
    BY <1>1, <2>1, <2>3 DEF KeysOnce, lists, ChainOf
  <2>6. CountsExact' /\ MarksOnlyWhileIterating'
    BY <1>1, <2>1, <2>3 DEF CountsExact, MarksOnlyWhileIterating, counts, control
  <2>7. NothingBehind'
    BY <1>1, <2>1 DEF NothingBehind, lists, control
  <2>8. NoMemoryLost'
    BY <1>1, <2>1 DEF NoMemoryLost, store, control
  <2> QED BY <2>2, <2>4, <2>5, <2>6, <2>7, <2>8 DEF IInv, Structure
<1>6. ASSUME NEW k \in Key, NEW v \in Value, NEW n \in Binding, NEW fl \in Seq(Binding),
             StoreIsNew(k), link(n, fl, k, v),
             IsInjective(fl), n \notin ToSet(fl),
             n \notin Linked, Linked \cap ToSet(fl) = {},
             Allocated' = Linked \cup {n} \cup ToSet(fl),
             heap' \subseteq Memory, num_alist' \in 0..MaxBlocks, size_alist' \in Nat,
             NoMemoryLost'
      PROVE  IInv'
  <2>1. /\ Structure' /\ Marked' = Marked
        /\ freelist' \in Seq(Binding) /\ buckets' \in [Bucket -> Seq(Binding)]
        /\ length' \in Nat
        /\ bkey' \in [Binding -> Key \cup {NULL}]
        /\ bvalue' \in [Binding -> Value \cup {NULL}]
        /\ bdelete' \in [Binding -> BOOLEAN]
    BY <1>6, LinkStep
  <2>2. UNCHANGED <<delete_nodes, in_iterate, control>> /\ op = "idle"
    BY <1>6 DEF link, StoreIsNew
  <2>3. TypeOK'
    BY <1>1, <1>6, <2>1, <2>2 DEF TypeOK, control
  <2>4. MarksOnlyWhileIterating'
    BY <1>1, <2>1, <2>2 DEF MarksOnlyWhileIterating, control
  <2>5. NothingBehind'
    BY <2>2 DEF NothingBehind, control
  <2> QED BY <2>1, <2>3, <2>4, <2>5, <1>6 DEF IInv
<1>7. ASSUME NEW k \in Key, NEW v \in Value, I2HashStoreAdds(k, v)
      PROVE  IInv'
  <2>1. PICK n \in Binding, fl \in Seq(Binding) : TakesBinding(n, fl, k, v)
    BY <1>7, AddsLinks
  <2>2. StoreIsNew(k) /\ UNCHANGED store
    BY <1>7 DEF I2HashStoreAdds
  <2>3. NoMemoryLost'
    BY <1>1, <2>1, <2>2 DEF NoMemoryLost, TakesBinding, link, StoreIsNew, store, control
  <2>4. heap' \subseteq Memory /\ num_alist' \in 0..MaxBlocks /\ size_alist' \in Nat
    BY <1>1, <2>2 DEF TypeOK, store
  <2> QED BY <1>6, <2>1, <2>2, <2>3, <2>4 DEF TakesBinding
<1>8. ASSUME NEW k \in Key, NEW v \in Value, I2HashStoreGrows(k, v)
      PROVE  IInv'
  <2> DEFINE b == num_alist + 1
  <2>1. PICK n \in Binding, fl \in Seq(Binding) : TakesBinding(n, fl, k, v)
    BY <1>8, GrowsLinks
  <2>2. /\ StoreIsNew(k) /\ num_alist < MaxBlocks
        /\ num_alist' = num_alist + 1
        /\ size_alist' = IF num_alist <= size_alist THEN size_alist + hint ELSE size_alist
        /\ heap' = heap \cup {Alist, Block(num_alist + 1)}
    BY <1>8 DEF I2HashStoreGrows
  <2>3. b \in 1..MaxBlocks /\ b \notin 1..num_alist /\ 1..b = (1..num_alist) \cup {b}
    BY <1>1, <2>2, BoundAssumption DEF TypeOK
  <2>4. op = "idle" /\ op' = "idle"
    BY <2>1, <2>2 DEF StoreIsNew, TakesBinding, link, control
  <2>5. /\ num_alist' \in 0..MaxBlocks /\ size_alist' \in Nat
        /\ num_alist' > 0 /\ num_alist' <= size_alist'
    BY <1>1, <2>2, <2>4, BoundAssumption DEF TypeOK, NoMemoryLost
  <2>6. heap' \subseteq Memory
    BY <1>1, <2>2, <2>3 DEF TypeOK, Memory
  <2>7. NoMemoryLost'
    <3>1. heap' = {Table, Buckets, Alist} \cup {Block(a) : a \in 1..b}
      BY <1>1, <2>2, <2>3, <2>4 DEF NoMemoryLost
    <3> QED BY <3>1, <2>2, <2>4, <2>5 DEF NoMemoryLost
  <2> QED BY <1>6, <2>1, <2>2, <2>5, <2>6, <2>7 DEF TakesBinding
<1>9. CASE I2HashClose
  <2>1. /\ heap' = {} /\ num_alist' = 0 /\ size_alist' = 0
        /\ freelist' = <<>> /\ buckets' = NoChains
        /\ bkey' = AllBindings(NULL) /\ bvalue' = AllBindings(NULL)
        /\ bdelete' = AllBindings(FALSE)
        /\ length' = 0 /\ delete_nodes' = delete_nodes
        /\ op' = "closed" /\ i' = i /\ p' = p
        /\ in_iterate' = FALSE
    <3>1. heap' = heap \ ({Table, Buckets} \cup AlistMemory(size_alist, num_alist))
      BY <1>9 DEF I2HashClose
    <3>2. op = "idle" /\ ~in_iterate /\ in_iterate' = in_iterate
      BY <1>9 DEF I2HashClose
    <3>3. /\ heap = {Table, Buckets, Alist} \cup {Block(b) : b \in 1..num_alist}
          /\ size_alist > 0
      BY <1>1, <3>2 DEF NoMemoryLost, TypeOK
    <3>4. heap' = {}
      BY <3>1, <3>3 DEF AlistMemory
    <3>5. in_iterate' = FALSE
      BY <3>2, <1>1, Zenon DEF TypeOK
    <3> QED BY <3>4, <3>5, <1>9 DEF I2HashClose
  <2>2. /\ \A b \in Bucket : buckets'[b] = <<>> /\ IsInjective(buckets'[b]) /\ ChainOf(b)' = {}
        /\ IsInjective(freelist') /\ Free' = {} /\ Allocated' = {}
    BY <2>1, EmptyLists DEF NoChains, ChainOf, Free, Allocated
  <2>3. Linked' = {} /\ Marked' = {}
    BY <2>2 DEF Linked, Marked
  <2>4. delete_nodes = 0
    <3>1. Marked = {}
      BY <1>1, <1>9 DEF I2HashClose, MarksOnlyWhileIterating
    <3> QED BY <1>1, <3>1, FS_EmptySet DEF CountsExact
  <2>5. TypeOK'
    <3>1. in_iterate' \in BOOLEAN
      BY <2>1, Zenon
    <3>2. op' \in Op /\ i' \in 0..size /\ p' \in Nat \ {0}
      BY <1>1, <2>1 DEF TypeOK, Op
    <3>3. heap' \subseteq Memory /\ num_alist' \in 0..MaxBlocks /\ size_alist' \in Nat
      BY <2>1, BoundAssumption
    <3>4. freelist' \in Seq(Binding) /\ buckets' \in [Bucket -> Seq(Binding)]
      BY <2>1, EmptyLists, EmptySeq
    <3>5. /\ bkey' \in [Binding -> Key \cup {NULL}]
          /\ bvalue' \in [Binding -> Value \cup {NULL}]
          /\ bdelete' \in [Binding -> BOOLEAN]
      BY <2>1, FieldTypes
    <3>6. length' \in Nat /\ delete_nodes' \in Nat
      BY <2>1, <2>4
    <3> QED BY <3>1, <3>2, <3>3, <3>4, <3>5, <3>6 DEF TypeOK
  <2>6. OnOneList' /\ KeysOnce'
    BY <2>2, <2>3 DEF OnOneList, KeysOnce
  <2>7. CountsExact'
    BY <2>1, <2>3, <2>4, FS_EmptySet DEF CountsExact
  <2>8. MarksOnlyWhileIterating' /\ NothingBehind' /\ NoMemoryLost'
    <3>1. ~in_iterate'
      BY <2>1, Zenon
    <3> QED BY <2>1, <2>3, <3>1 DEF MarksOnlyWhileIterating, NothingBehind, NoMemoryLost
  <2> QED BY <2>5, <2>6, <2>7, <2>8 DEF IInv, Structure
<1>10. CASE I2HashInit
  <2>1. /\ heap' = {Table, Buckets, Alist, Block(1)}
        /\ num_alist' = 1 /\ size_alist' = hint
        /\ freelist' = BlockList(1)
        /\ op = "closed" /\ op' = "idle"
        /\ UNCHANGED <<buckets, fields, counts, i, p>>
    BY <1>10 DEF I2HashInit
  <2>2. num_alist = 0
    BY <1>1, <2>1 DEF NoMemoryLost
  <2>3. Linked = {} /\ Allocated = {}
    BY <1>1, <2>2, EmptyLists DEF OnOneList, Allocated
  <2>4. /\ BlockList(1) \in Seq(Binding) /\ IsInjective(BlockList(1))
        /\ ToSet(BlockList(1)) = {1} \X (1..hint)
    <3>1. 1 \in 1..MaxBlocks
      BY BoundAssumption
    <3> QED BY <3>1, BlockListDistinct
  <2>5. /\ \A b \in Bucket : ChainOf(b)' = ChainOf(b)
        /\ Linked' = Linked /\ Marked' = Marked /\ Free' = {1} \X (1..hint)
    BY <2>1, <2>4 DEF ChainOf, Linked, Marked, Free, fields
  <2>6. Allocated' = {1} \X (1..hint)
    <3>1. 1..1 = {1}
      OBVIOUS
    <3> QED BY <2>1, <3>1 DEF Allocated
  <2>7. TypeOK'
    <3>1. heap' \subseteq Memory
      BY <2>1, BoundAssumption DEF Memory
    <3>2. num_alist' \in 0..MaxBlocks /\ size_alist' \in Nat
      BY <2>1, <1>1, BoundAssumption
    <3> QED BY <1>1, <2>1, <2>4, <3>1, <3>2 DEF TypeOK, fields, counts, Op
  <2>8. OnOneList'
    BY <1>1, <2>1, <2>3, <2>4, <2>5, <2>6 DEF OnOneList
  <2>9. KeysOnce' /\ CountsExact'
    BY <1>1, <2>1, <2>5 DEF KeysOnce, CountsExact, fields, counts
  <2>10. MarksOnlyWhileIterating'
    BY <1>1, <2>1, <2>5 DEF MarksOnlyWhileIterating, counts
  <2>11. NothingBehind'
    BY <2>1 DEF NothingBehind
  <2>12. NoMemoryLost'
    <3>1. 1..1 = {1}
      OBVIOUS
    <3>2. heap' = {Table, Buckets, Alist} \cup {Block(b) : b \in 1..1}
      BY <2>1, <3>1
    <3> QED BY <2>1, <3>2, <1>1 DEF NoMemoryLost
  <2> QED BY <2>7, <2>8, <2>9, <2>10, <2>11, <2>12 DEF IInv, Structure
<1> QED BY <1>4, <1>5, <1>7, <1>8, <1>9, <1>10

LEMMA StepInvariant == IInv /\ [Next]_vars => IInv'
<1> SUFFICES ASSUME IInv, [Next]_vars PROVE IInv'
  OBVIOUS
<1>1. CASE UNCHANGED vars
  <2>1. UNCHANGED <<store, lists, fields, counts, control>>
    BY <1>1 DEF vars
  <2>2. Structure' /\ Marked' = Marked
    BY <2>1, QuietStep DEF store, counts
  <2>3. TypeOK'
    BY <2>1 DEF IInv, TypeOK, store, lists, fields, counts, control
  <2>4. MarksOnlyWhileIterating'
    BY <2>1, <2>2 DEF IInv, MarksOnlyWhileIterating, counts, control
  <2>5. NothingBehind'
    BY <2>1 DEF IInv, NothingBehind, lists, fields, control
  <2>6. NoMemoryLost'
    BY <2>1 DEF IInv, NoMemoryLost, store, control
  <2> QED BY <2>2, <2>3, <2>4, <2>5, <2>6 DEF IInv
<1>2. CASE Next
  BY <1>2, QuietActions, UnlinkActions, WritingActions
  DEF Next, I2HashDelete, I2HashStore, IterateStep, CleanStep
<1> QED BY <1>1, <1>2

THEOREM Invariance == Spec => []IInv
  BY InitInvariant, StepInvariant, PTL DEF Spec

(***************************************************************************)
(* What follows from it, for any keys, hash function and sizes.            *)
(***************************************************************************)

(* All variables keep their types; the counters never drop below zero.     *)
THEOREM TypeCorrect == Spec => []TypeOK
<1>1. IInv => TypeOK
  BY DEF IInv
<1> QED BY <1>1, Invariance, PTL

(* No binding is lost, shared between two lists or linked twice.           *)
THEOREM BindingsOnOneList == Spec => []OnOneList
<1>1. IInv => OnOneList
  BY DEF IInv, Structure
<1> QED BY <1>1, Invariance, PTL

(* A key is found in its own bucket and nowhere else.                      *)
THEOREM KeysLinkedOnce == Spec => []KeysOnce
<1>1. IInv => KeysOnce
  BY DEF IInv, Structure
<1> QED BY <1>1, Invariance, PTL

(* I2HashNumEntries is right at any time, inside a callback too: length is *)
(* the number of linked bindings, delete_nodes that of the marked ones.    *)
THEOREM CountersExact == Spec => []CountsExact
<1>1. IInv => CountsExact
  BY DEF IInv, Structure
<1> QED BY <1>1, Invariance, PTL

(* Deletion marks end with the iteration that made them.                   *)
THEOREM MarksEnd == Spec => []MarksOnlyWhileIterating
<1>1. IInv => MarksOnlyWhileIterating
  BY DEF IInv
<1> QED BY <1>1, Invariance, PTL

(* What a table allocates, I2HashClose and the error path of I2HashInit    *)
(* free.                                                                   *)
THEOREM MemoryReturned == Spec => []NoMemoryLost
<1>1. IInv => NoMemoryLost
  BY DEF IInv
<1> QED BY <1>1, Invariance, PTL

LEMMA WorkIsDone == IInv => LoopsEndWithWorkDone
<1> SUFFICES ASSUME IInv PROVE LoopsEndWithWorkDone
  OBVIOUS
<1>1. /\ TypeOK /\ CountsExact /\ NothingBehind
      /\ size \in Nat \ {0}
  BY SizeType DEF IInv, Structure
<1>2. /\ Linked = {} <=> length = 0
      /\ Marked = {} <=> delete_nodes = 0
  BY <1>1, LinkedFinite, FS_EmptySet DEF CountsExact
<1>3. ASSUME op = "sweep", ~SweepGoesOn PROVE Marked = {}
  <2>1. CASE i = size
    BY <2>1, <1>1, <1>3 DEF NothingBehind, Marked, Linked, ChainOf, ToSet, Bucket
  <2>2. CASE i # size
    BY <2>2, <1>1, <1>2, <1>3 DEF SweepGoesOn, TypeOK
  <2> QED BY <2>1, <2>2
<1>4. ASSUME op = "clean", ~CleanGoesOn PROVE length = 0 /\ Linked = {}
  <2>1. CASE i = size
    <3>1. \A b \in Bucket : ChainOf(b) = {}
      BY <2>1, <1>1, <1>4, EmptyLists DEF NothingBehind, ChainOf, Bucket
    <3> QED BY <3>1, <1>2 DEF Linked
  <2>2. CASE i # size
    BY <2>2, <1>1, <1>2, <1>4 DEF CleanGoesOn, TypeOK
  <2> QED BY <2>1, <2>2
<1> QED BY <1>3, <1>4 DEF LoopsEndWithWorkDone

(* The sweep and I2HashClean leave nothing undone when they stop; the      *)
(* assert that closes I2HashClean never fails.                             *)
THEOREM LoopsFinish == Spec => []LoopsEndWithWorkDone
  BY WorkIsDone, Invariance, PTL

(* While a callback runs, the lists the loop walks do not change.          *)
THEOREM CallbacksLeaveLists == Spec => ListsStillInCallback
<1>1. ASSUME IInv, Next, op = "callback" PROVE UNCHANGED lists
  <2>1. in_iterate
    BY <1>1 DEF IInv, MarksOnlyWhileIterating
  <2>2. CASE \E k \in Key : I2HashDelete(k) \/ I2HashFetch(k)
    BY <2>1, <2>2 DEF I2HashDelete, I2HashDeleteMisses, I2HashDeleteMarks,
                      I2HashDeleteUnlinks, I2HashFetch
  <2>3. CASE I2HashNumEntries \/ CallbackReturns
    BY <2>3 DEF I2HashNumEntries, CallbackReturns
  <2>4. CASE IterateStep \/ CleanStep
    BY <1>1, <2>4
    DEF IterateStep, VisitNextBucket, VisitSkips, VisitCalls, VisitEnds, SweepGoesOn,
        SweepNextBucket, SweepKeeps, SweepUnlinks, SweepEnds,
        CleanStep, CleanGoesOn, CleanEntersBucket, CleanFrees, CleanLeavesBucket, CleanEnds
  <2>5. CASE \E k \in Key, v \in Value : I2HashStore(k, v)
    BY <1>1, <2>5 DEF I2HashStore, I2HashStoreReplaces, I2HashStoreAdds, I2HashStoreGrows,
                      I2HashStoreFails, StoreIsNew
  <2>6. CASE \/ I2HashInitFails \/ I2HashInit \/ I2HashClose \/ I2HashIterate
             \/ I2HashClean
    BY <1>1, <2>6 DEF I2HashInitFails, I2HashInit, I2HashClose, I2HashIterate, I2HashClean
  <2> QED BY <1>1, <2>2, <2>3, <2>4, <2>5, <2>6 DEF Next
<1>2. IInv /\ [Next]_vars => [op = "callback" => UNCHANGED lists]_vars
  BY <1>1
<1> QED BY <1>2, Invariance, PTL DEF Spec, ListsStillInCallback
-----------------------------------------------------------------------------
(*          The map a table is: what the refinement mapping shows          *)

Visible == {n \in Linked : ~bdelete[n]}
Cleaning == op \in {"clean", "cleanChain"}

(* No binding is linked without a value, so a fetch that finds a key does   *)
(* not return NULL.                                                         *)
ValuesStored == \A n \in Linked : bvalue[n] \in Value

LEMMA BucketOfKey == \A k \in Key : BucketOf(k) \in Bucket
  BY SizeType, HashAssumption DEF Bucket, BucketOf

LEMMA HeldOnce == IInv => \A k \in Key : \A j, l \in HeldAt(k) : j = l
<1> SUFFICES ASSUME IInv, NEW k \in Key, NEW j \in HeldAt(k), NEW l \in HeldAt(k)
             PROVE  j = l
  OBVIOUS
<1> DEFINE chain == buckets[BucketOf(k)]
<1>1. j \in DOMAIN chain /\ l \in DOMAIN chain /\ bkey[chain[j]] = bkey[chain[l]]
  BY DEF HeldAt
<1>2. chain[j] \in Linked /\ chain[l] \in Linked
  BY <1>1, BucketOfKey DEF Linked, ChainOf, ToSet
<1>3. chain[j] = chain[l]
  BY <1>1, <1>2 DEF IInv, Structure, KeysOnce
<1>4. IsInjective(chain)
  BY BucketOfKey DEF IInv, Structure, OnOneList
<1> QED BY <1>1, <1>3, <1>4 DEF IsInjective

(* The positions a search finds are those of the visible bindings. *)
ShownIsVisible ==
    \A k \in Key :
        /\ \A j \in ShownAt(k) : /\ buckets[BucketOf(k)][j] \in Visible
                                 /\ bkey[buckets[BucketOf(k)][j]] = k
        /\ \A n \in Visible : bkey[n] = k =>
             \E j \in ShownAt(k) : buckets[BucketOf(k)][j] = n

LEMMA SearchFinds == IInv => ShownIsVisible
<1> SUFFICES ASSUME IInv, NEW k \in Key
             PROVE  /\ \A j \in ShownAt(k) : /\ buckets[BucketOf(k)][j] \in Visible
                                            /\ bkey[buckets[BucketOf(k)][j]] = k
                    /\ \A n \in Visible : bkey[n] = k =>
                         \E j \in ShownAt(k) : buckets[BucketOf(k)][j] = n
  BY DEF ShownIsVisible
<1>1. ASSUME NEW j \in ShownAt(k)
      PROVE  /\ buckets[BucketOf(k)][j] \in Visible
             /\ bkey[buckets[BucketOf(k)][j]] = k
  BY BucketOfKey DEF ShownAt, HeldAt, Visible, Linked, ChainOf, ToSet
<1>2. ASSUME NEW n \in Visible, bkey[n] = k
      PROVE  \E j \in ShownAt(k) : buckets[BucketOf(k)][j] = n
  <2>1. PICK b \in Bucket : n \in ChainOf(b)
    BY DEF Visible, Linked
  <2>2. b = BucketOf(k)
    BY <1>2, <2>1 DEF IInv, Structure, KeysOnce
  <2>3. PICK j \in DOMAIN buckets[b] : buckets[b][j] = n
    BY <2>1 DEF ChainOf, ToSet
  <2> QED BY <1>2, <2>2, <2>3 DEF ShownAt, HeldAt, Visible
<1> QED BY <1>1, <1>2

(* The map by its bindings. *)
MapShown ==
    /\ map = [k \in Key |-> map[k]]
    /\ Cleaning => \A k \in Key : map[k] = NULL
    /\ ~Cleaning =>
         /\ \A n \in Visible : bkey[n] \in Key /\ map[bkey[n]] = bvalue[n]
         /\ \A k \in Key : map[k] = NULL \/ \E n \in Visible : bkey[n] = k

LEMMA MapView == IInv => MapShown
<1> SUFFICES ASSUME IInv PROVE MapShown
  OBVIOUS
<1> DEFINE value(k) == IF op \in {"clean", "cleanChain"} \/ ShownAt(k) = {} THEN NULL
                       ELSE bvalue[buckets[BucketOf(k)][CHOOSE j \in ShownAt(k) : TRUE]]
<1>1. map = [k \in Key |-> value(k)]
  BY DEF map
<1>2. map = [k \in Key |-> map[k]] /\ \A k \in Key : map[k] = value(k)
  <2> HIDE DEF value
  <2> QED BY <1>1
<1>3. Cleaning => \A k \in Key : map[k] = NULL
  BY <1>2 DEF Cleaning
<1>4. ASSUME ~Cleaning, NEW n \in Visible PROVE bkey[n] \in Key /\ map[bkey[n]] = bvalue[n]
  <2>1. bkey[n] \in Key
    BY DEF IInv, Structure, KeysOnce, Visible, Linked
  <2> DEFINE k == bkey[n]
             j == CHOOSE l \in ShownAt(k) : TRUE
  <2>2. PICK l \in ShownAt(k) : buckets[BucketOf(k)][l] = n
    BY <2>1, SearchFinds DEF ShownIsVisible
  <2>3. j \in ShownAt(k)
    BY <2>2
  <2>4. j = l
    BY <2>1, <2>2, <2>3, HeldOnce DEF ShownAt
  <2>5. map[k] = bvalue[buckets[BucketOf(k)][j]]
    BY <1>2, <1>4, <2>1, <2>2 DEF Cleaning
  <2> QED BY <2>1, <2>2, <2>4, <2>5
<1>5. ASSUME ~Cleaning, NEW k \in Key PROVE map[k] = NULL \/ \E n \in Visible : bkey[n] = k
  <2>1. CASE ShownAt(k) = {}
    BY <1>2, <2>1
  <2>2. CASE ShownAt(k) # {}
    BY <2>2, SearchFinds DEF ShownIsVisible
  <2> QED BY <2>1, <2>2
<1> HIDE DEF value
<1> QED BY <1>2, <1>3, <1>4, <1>5 DEF MapShown

LEMMA MapViewNext == IInv' => MapShown'
  BY MapView, PTL

(* The map is any other function that shows the same. *)
LEMMA MapIs ==
  ASSUME IInv', NEW m, m = [k \in Key |-> m[k]], ~Cleaning',
         \A n \in Visible' : m[bkey'[n]] = bvalue'[n],
         \A k \in Key : m[k] = NULL \/ \E n \in Visible' : bkey'[n] = k
  PROVE  map' = m
<1>1. /\ map' = [k \in Key |-> map'[k]]
      /\ \A n \in Visible' : bkey'[n] \in Key /\ map'[bkey'[n]] = bvalue'[n]
      /\ \A k \in Key : map'[k] = NULL \/ \E n \in Visible' : bkey'[n] = k
  BY MapViewNext DEF MapShown
<1>2. \A k \in Key : map'[k] = m[k]
  BY <1>1
<1> QED BY <1>1, <1>2

LEMMA MapKept ==
  ASSUME IInv, IInv', Visible' = Visible, Cleaning <=> Cleaning',
         \A n \in Visible : bkey'[n] = bkey[n] /\ bvalue'[n] = bvalue[n]
  PROVE  map' = map
<1>1. CASE Cleaning
  BY <1>1, MapView, MapViewNext DEF MapShown
<1>2. CASE ~Cleaning
  BY <1>2, MapView, MapIs DEF MapShown
<1> QED BY <1>1, <1>2

LEMMA PresentView ==
  ASSUME IInv, ValuesStored
  PROVE  \A k \in Key : k \in Abstract!Present <=> ~Cleaning /\ ShownAt(k) # {}
<1>1. MapShown
  BY MapView
<1>2. \A n \in Visible : bvalue[n] # NULL
  BY KeyAssumption DEF ValuesStored, Visible
<1>3. \A k \in Key : (\E n \in Visible : bkey[n] = k) <=> ShownAt(k) # {}
  BY SearchFinds DEF ShownIsVisible
<1>4. \A k \in Key : map[k] # NULL <=> ~Cleaning /\ ShownAt(k) # {}
  BY <1>1, <1>2, <1>3 DEF MapShown
<1> QED BY <1>4 DEF Abstract!Present
-----------------------------------------------------------------------------
(*                  What a step does to the bindings                       *)

(* A binding that was unused is linked. *)
LEMMA Linking ==
  ASSUME IInv, NEW k \in Key, NEW v \in Value,
         I2HashStoreAdds(k, v) \/ I2HashStoreGrows(k, v)
  PROVE  \E n \in Binding \ Linked :
           /\ Linked' = Linked \cup {n}
           /\ bkey'[n] = k /\ bvalue'[n] = v /\ ~bdelete'[n]
           /\ \A m \in Linked : /\ bkey'[m] = bkey[m] /\ bvalue'[m] = bvalue[m]
                               /\ bdelete'[m] = bdelete[m]
<1>1. PICK n \in Binding, fl \in Seq(Binding) : TakesBinding(n, fl, k, v)
  BY AddsLinks, GrowsLinks
<1>2. TypeOK /\ OnOneList /\ Linked \subseteq Binding
  BY LinkedFinite DEF IInv, Structure
<1>3. Linked' = Linked \cup {n} /\ n \notin Linked
  BY <1>1, <1>2, LinkLists DEF TakesBinding
<1>4. /\ bkey' = [bkey EXCEPT ![n] = k]
      /\ bvalue' = [bvalue EXCEPT ![n] = v]
      /\ bdelete' = [bdelete EXCEPT ![n] = FALSE]
  BY <1>1 DEF TakesBinding, link
<1>5. bkey'[n] = k /\ bvalue'[n] = v /\ bdelete'[n] = FALSE
  BY <1>2, <1>4 DEF TypeOK
<1>6. \A m \in Linked : m # n /\ m \in Binding
  BY <1>2, <1>3
<1>7. \A m \in Linked : /\ bkey'[m] = bkey[m] /\ bvalue'[m] = bvalue[m]
                        /\ bdelete'[m] = bdelete[m]
  BY <1>2, <1>4, <1>6 DEF TypeOK
<1> QED BY <1>3, <1>5, <1>7

(* A binding is unlinked, and keeps its fields. *)
LEMMA Unlinking ==
  ASSUME IInv, NEW b \in Bucket, NEW j \in DOMAIN buckets[b], unlink(b, j), UNCHANGED store
  PROVE  buckets[b][j] \in Linked /\ Linked' = Linked \ {buckets[b][j]}
<1>1. TypeOK /\ OnOneList /\ UNCHANGED num_alist
  BY DEF IInv, Structure, store
<1> QED BY <1>1, UnlinkLists

LEMMA KeyUnlinked ==
  ASSUME IInv, NEW k \in Key, I2HashDeleteUnlinks(k)
  PROVE  \E n \in Visible : bkey[n] = k /\ Linked' = Linked \ {n}
<1>1. PICK j \in ShownAt(k) : unlink(BucketOf(k), j)
  BY DEF I2HashDeleteUnlinks
<1>2. j \in DOMAIN buckets[BucketOf(k)] /\ BucketOf(k) \in Bucket /\ UNCHANGED store
  BY BucketOfKey DEF ShownAt, HeldAt, I2HashDeleteUnlinks
<1>3. Linked' = Linked \ {buckets[BucketOf(k)][j]}
  BY <1>1, <1>2, Unlinking
<1>4. buckets[BucketOf(k)][j] \in Visible /\ bkey[buckets[BucketOf(k)][j]] = k
  BY SearchFinds DEF ShownIsVisible
<1> QED BY <1>3, <1>4

LEMMA SweepUnlinking ==
  ASSUME IInv, SweepUnlinks
  PROVE  \E n \in Linked : bdelete[n] /\ Linked' = Linked \ {n}
<1>1. i \in Bucket /\ p \in DOMAIN buckets[i]
  <2>1. i \in Bucket /\ p \in 1..Len(buckets[i]) /\ buckets[i] \in Seq(Binding)
    BY SizeType DEF IInv, TypeOK, SweepUnlinks, SweepGoesOn, InChain, Bucket
  <2> QED BY <2>1
<1>2. bdelete[buckets[i][p]] /\ unlink(i, p) /\ UNCHANGED store
  BY DEF SweepUnlinks, Here
<1> QED BY <1>1, <1>2, Unlinking

LEMMA CleanUnlinking == IInv /\ CleanFrees => Linked' \subseteq Linked
<1> SUFFICES ASSUME IInv, CleanFrees PROVE Linked' \subseteq Linked
  OBVIOUS
<1>1. i \in Bucket /\ 1 \in DOMAIN buckets[i]
  <2>1. i \in Bucket /\ buckets[i] # <<>> /\ buckets[i] \in Seq(Binding)
    BY SizeType DEF IInv, TypeOK, CleanFrees, NothingBehind, Bucket
  <2> QED BY <2>1, EmptySeq
<1>2. unlink(i, 1) /\ UNCHANGED store
  BY DEF CleanFrees
<1> QED BY <1>1, <1>2, Unlinking

(* The steps that change neither a list nor a field. *)
LEMMA ListsKept ==
  ASSUME UNCHANGED <<lists, fields>>
  PROVE  /\ Linked' = Linked /\ Visible' = Visible
         /\ \A k : HeldAt(k)' = HeldAt(k) /\ ShownAt(k)' = ShownAt(k)
  BY DEF lists, fields, Linked, ChainOf, Visible, HeldAt, ShownAt

QuietMoves ==
    \/ I2HashInitFails
    \/ \E k \in Key : I2HashDeleteMisses(k) \/ I2HashFetch(k) \/ I2HashStoreFails(k)
    \/ I2HashNumEntries \/ I2HashIterate \/ CallbackReturns
    \/ VisitNextBucket \/ VisitSkips \/ VisitCalls \/ VisitEnds
    \/ SweepNextBucket \/ SweepKeeps \/ SweepEnds
    \/ I2HashClean \/ CleanEntersBucket \/ CleanLeavesBucket \/ CleanEnds

LEMMA QuietFields == QuietMoves => UNCHANGED <<lists, fields>>
  BY DEF QuietMoves, I2HashInitFails, I2HashDeleteMisses, I2HashFetch, I2HashStoreFails,
         I2HashNumEntries, I2HashIterate, CallbackReturns,
         VisitNextBucket, VisitSkips, VisitCalls, VisitEnds,
         SweepNextBucket, SweepKeeps, SweepEnds,
         I2HashClean, CleanEntersBucket, CleanLeavesBucket, CleanEnds

LEMMA ValuesStep == IInv /\ ValuesStored /\ [Next]_vars => ValuesStored'
<1> SUFFICES ASSUME IInv, ValuesStored, [Next]_vars PROVE ValuesStored'
  OBVIOUS
<1>1. CASE UNCHANGED vars
  BY <1>1, ListsKept DEF vars, fields, ValuesStored
<1>2. CASE QuietMoves
  BY <1>2, QuietFields, ListsKept DEF fields, ValuesStored
<1>3. ASSUME Linked' \subseteq Linked, UNCHANGED fields PROVE ValuesStored'
  BY <1>3 DEF ValuesStored, fields
<1>4. CASE \/ \E k \in Key : I2HashDeleteUnlinks(k)
           \/ SweepUnlinks \/ CleanFrees
  <2>1. UNCHANGED fields
    BY <1>4 DEF I2HashDeleteUnlinks, SweepUnlinks, CleanFrees
  <2>2. Linked' \subseteq Linked
    BY <1>4, KeyUnlinked, SweepUnlinking, CleanUnlinking
  <2> QED BY <1>3, <2>1, <2>2
<1>5. CASE \E k \in Key : I2HashDeleteMarks(k)
  <2>1. UNCHANGED <<lists, bvalue>>
    BY <1>5 DEF I2HashDeleteMarks
  <2> QED BY <2>1 DEF lists, ValuesStored, Linked, ChainOf
<1>6. ASSUME NEW k \in Key, NEW v \in Value,
             I2HashStoreAdds(k, v) \/ I2HashStoreGrows(k, v)
      PROVE  ValuesStored'
  BY <1>6, Linking DEF ValuesStored
<1>7. ASSUME NEW k \in Key, NEW v \in Value, I2HashStoreReplaces(k, v)
      PROVE  ValuesStored'
  <2>1. PICK n : bvalue' = [bvalue EXCEPT ![n] = v]
    BY <1>7 DEF I2HashStoreReplaces
  <2>2. Linked' = Linked /\ Linked \subseteq Binding /\ bvalue \in [Binding -> Value \cup {NULL}]
    BY <1>7, LinkedFinite DEF I2HashStoreReplaces, lists, Linked, ChainOf, IInv, TypeOK
  <2> QED BY <2>1, <2>2 DEF ValuesStored
<1>8. CASE I2HashClose
  <2>1. buckets' = NoChains
    BY <1>8 DEF I2HashClose
  <2>2. Linked' = {}
    BY <2>1, EmptyLists DEF NoChains, Linked, ChainOf
  <2> QED BY <2>2 DEF ValuesStored
<1>9. CASE I2HashInit
  BY <1>9 DEF I2HashInit, ValuesStored, Linked, ChainOf, fields
<1> QED BY <1>1, <1>2, <1>4, <1>5, <1>6, <1>7, <1>8, <1>9
        DEF Next, QuietMoves, I2HashDelete, I2HashStore, IterateStep, CleanStep

LEMMA ValuesAlways == Spec => []ValuesStored
<1>1. Init => ValuesStored
  <2>1. Init => Linked = {}
    BY EmptyLists DEF Init, NoChains, Linked, ChainOf
  <2> QED BY <2>1 DEF ValuesStored
<1> QED BY <1>1, ValuesStep, Invariance, PTL DEF Spec

-----------------------------------------------------------------------------
(*                    What a step does to the map                          *)

(* The visible bindings lose one. *)
LEMMA MapLoses ==
  ASSUME IInv, IInv', ~Cleaning, ~Cleaning', NEW k \in Key, NEW n \in Visible, bkey[n] = k,
         Visible' = Visible \ {n}, bkey' = bkey, bvalue' = bvalue
  PROVE  map' = [map EXCEPT ![k] = NULL]
<1>1. /\ map = [l \in Key |-> map[l]]
      /\ \A m \in Visible : bkey[m] \in Key /\ map[bkey[m]] = bvalue[m]
      /\ \A l \in Key : map[l] = NULL \/ \E m \in Visible : bkey[m] = l
  BY MapView DEF MapShown
<1>2. \A m \in Visible : bkey[m] = k => m = n
  BY DEF IInv, Structure, KeysOnce, Visible
<1> DEFINE new == [map EXCEPT ![k] = NULL]
<1>3. new = [l \in Key |-> new[l]] /\ new[k] = NULL /\ \A l \in Key \ {k} : new[l] = map[l]
  BY <1>1
<1> HIDE DEF new
<1>4. \A m \in Visible' : new[bkey'[m]] = bvalue'[m]
  BY <1>1, <1>2, <1>3
<1>5. \A l \in Key : new[l] = NULL \/ \E m \in Visible' : bkey'[m] = l
  BY <1>1, <1>3
<1>6. map' = new
  BY <1>3, <1>4, <1>5, MapIs
<1> QED BY <1>6 DEF new

(* One binding shows a value for its key; the others show what they did. *)
LEMMA MapGains ==
  ASSUME IInv, IInv', ~Cleaning, ~Cleaning', NEW k \in Key, NEW v, NEW n,
         Visible' = Visible \cup {n}, bkey'[n] = k, bvalue'[n] = v,
         \A m \in Visible \ {n} : bkey'[m] = bkey[m] /\ bvalue'[m] = bvalue[m],
         \A m \in Visible : bkey[m] = k => m = n,
         n \in Visible => bkey[n] = k
  PROVE  map' = [map EXCEPT ![k] = v]
<1>1. /\ map = [l \in Key |-> map[l]]
      /\ \A m \in Visible : bkey[m] \in Key /\ map[bkey[m]] = bvalue[m]
      /\ \A l \in Key : map[l] = NULL \/ \E m \in Visible : bkey[m] = l
  BY MapView DEF MapShown
<1> DEFINE new == [map EXCEPT ![k] = v]
<1>2. new = [l \in Key |-> new[l]] /\ new[k] = v /\ \A l \in Key \ {k} : new[l] = map[l]
  BY <1>1
<1> HIDE DEF new
<1>3. \A m \in Visible' : new[bkey'[m]] = bvalue'[m]
  BY <1>1, <1>2
<1>4. ASSUME NEW l \in Key PROVE new[l] = NULL \/ \E m \in Visible' : bkey'[m] = l
  <2>1. CASE l = k
    BY <2>1
  <2>2. CASE l # k
    BY <2>2, <1>1, <1>2
  <2> QED BY <2>1, <2>2
<1>5. map' = new
  BY <1>2, <1>3, <1>4, MapIs
<1> QED BY <1>5 DEF new

(* An empty table, and one that is being cleaned, is the empty map. *)
LEMMA MapEmpties ==
  ASSUME IInv', Cleaning' \/ Visible' = {}
  PROVE  map' = Abstract!Empty
<1>1. map' = [k \in Key |-> map'[k]] /\ \A k \in Key : map'[k] = NULL
  BY MapViewNext DEF MapShown
<1> QED BY <1>1 DEF Abstract!Empty

(* A binding for every key that is present. *)
LEMMA PresentCounted ==
  ASSUME IInv, ValuesStored, ~Cleaning
  PROVE  Cardinality(Abstract!Present) = length - delete_nodes /\ delete_nodes <= length
<1>1. /\ IsFiniteSet(Linked) /\ IsFiniteSet(Marked) /\ Marked \subseteq Linked
      /\ length = Cardinality(Linked) /\ delete_nodes = Cardinality(Marked)
  BY LinkedFinite DEF IInv, Structure, CountsExact
<1>2. Visible = Linked \ Marked /\ Linked \cap Marked = Marked
  BY <1>1 DEF Visible, Marked
<1>3. /\ Cardinality(Linked) \in Nat /\ Cardinality(Marked) \in Nat
      /\ Cardinality(Marked) <= Cardinality(Linked)
  BY <1>1, FS_CardinalityType, FS_Subset
<1>4. IsFiniteSet(Visible) /\ Cardinality(Visible) = length - delete_nodes
  <2>1. IsFiniteSet(Linked)
    BY <1>1
  <2>2. /\ IsFiniteSet(Linked \ Marked)
        /\ Cardinality(Linked \ Marked) = Cardinality(Linked) - Cardinality(Linked \cap Marked)
    BY <2>1, FS_Difference
  <2>3. IsFiniteSet(Visible) /\ Cardinality(Visible) = Cardinality(Linked) - Cardinality(Marked)
    BY <1>2, <2>2
  <2> QED BY <1>1, <2>3
<1> DEFINE Held == Abstract!Present
           f == [n \in Visible |-> bkey[n]]
<1>5. /\ \A n \in Visible : bkey[n] \in Held
      /\ \A k \in Held : \E n \in Visible : bkey[n] = k
      /\ \A n, m \in Visible : bkey[n] = bkey[m] => n = m
  <2>1. \A n \in Visible : bvalue[n] # NULL
    BY KeyAssumption DEF ValuesStored, Visible
  <2>2. \A n, m \in Visible : bkey[n] = bkey[m] => n = m
    BY DEF IInv, Structure, KeysOnce, Visible
  <2> QED BY <2>1, <2>2, MapView DEF MapShown, Abstract!Present
<1> HIDE DEF Held
<1>6. f \in [Visible -> Held] /\ IsInjective(f) /\ \A k \in Held : \E n \in Visible : f[n] = k
  BY <1>5 DEF IsInjective
<1>7. ExistsBijection(Visible, Held)
  <2>1. f \in Bijection(Visible, Held)
    BY <1>6 DEF Bijection, Injection, Surjection
  <2> QED BY <2>1 DEF ExistsBijection
<1>8. Cardinality(Held) = Cardinality(Visible)
  BY <1>4, <1>7, FS_Bijection
<1> QED BY <1>1, <1>3, <1>4, <1>8 DEF Held

-----------------------------------------------------------------------------
(*              Every step is a step of the map, or none                   *)

(* What the steps below assume of both their states. *)
Sound == IInv /\ ValuesStored

LEMMA NoIterationNoneUnvisited == op \notin {"visit", "callback"} => unvisited = {}
  BY DEF unvisited

LEMMA StillView ==
  ASSUME IInv, IInv', UNCHANGED <<lists, fields, control>>
  PROVE  map' = map /\ phase' = phase /\ unvisited' = unvisited
<1>1. /\ \A k : ShownAt(k)' = ShownAt(k)
      /\ Visible' = Visible
      /\ UNCHANGED <<op, i, p, bkey, bvalue>>
  BY ListsKept DEF fields, control
<1>2. map' = map
  BY <1>1, MapKept DEF Cleaning
<1>3. phase' = phase /\ unvisited' = unvisited
  BY <1>1 DEF phase, unvisited, Ahead
<1> QED BY <1>2, <1>3

LEMMA QuietMap ==
  ASSUME IInv, IInv', UNCHANGED <<lists, fields>>, Cleaning' <=> Cleaning
  PROVE  map' = map
<1>1. Visible' = Visible /\ UNCHANGED <<bkey, bvalue>>
  BY ListsKept DEF fields
<1> QED BY <1>1, MapKept

(* The calls that only look. *)
LEMMA MissIsDelete ==
  ASSUME Sound, Sound', NEW k \in Key, I2HashDeleteMisses(k)
  PROVE  Abstract!Delete(k)
<1>1. map' = map /\ phase' = phase /\ unvisited' = unvisited
  BY StillView DEF I2HashDeleteMisses, Sound
<1>2. ~Cleaning /\ phase \in {"idle", "callback"}
  BY DEF I2HashDeleteMisses, Calling, Cleaning, phase
<1>3. k \notin Abstract!Present /\ ShownAt(k) = {}
  BY PresentView DEF I2HashDeleteMisses, Sound
<1>4. map[k] = NULL
  BY <1>3 DEF Abstract!Present
<1>5. map = [map EXCEPT ![k] = NULL]
  BY <1>4, MapView DEF MapShown, Sound
<1>6. unvisited = unvisited \ {k}
  BY <1>3 DEF unvisited
<1>7. ret' = Abstract!Result("I2HashDelete", -1)
  BY DEF I2HashDeleteMisses, Result, Abstract!Result
<1> QED BY <1>1, <1>2, <1>3, <1>5, <1>6, <1>7 DEF Abstract!Delete, Abstract!Calling

LEMMA FetchIsFetch ==
  ASSUME Sound, Sound', NEW k \in Key, I2HashFetch(k)
  PROVE  Abstract!Fetch(k)
<1>1. map' = map /\ phase' = phase /\ unvisited' = unvisited
  BY StillView DEF I2HashFetch, Sound
<1>2. ~Cleaning /\ phase \in {"idle", "callback"}
  BY DEF I2HashFetch, Calling, Cleaning, phase
<1>3. ret' = Result("I2HashFetch", map[k])
  <2>1. CASE ShownAt(k) = {} /\ ret' = Result("I2HashFetch", NULL)
    <3>1. k \notin Abstract!Present
      BY <2>1, PresentView DEF Sound
    <3> QED BY <2>1, <3>1 DEF Abstract!Present
  <2>2. ASSUME NEW j \in ShownAt(k),
               ret' = Result("I2HashFetch", bvalue[buckets[BucketOf(k)][j]])
        PROVE  ret' = Result("I2HashFetch", map[k])
    <3>1. /\ buckets[BucketOf(k)][j] \in Visible
          /\ bkey[buckets[BucketOf(k)][j]] = k
      BY SearchFinds DEF ShownIsVisible, Sound
    <3>2. map[k] = bvalue[buckets[BucketOf(k)][j]]
      BY <1>2, <3>1, MapView DEF MapShown, Sound
    <3> QED BY <2>2, <3>2
  <2> QED BY <2>1, <2>2 DEF I2HashFetch
<1> QED BY <1>1, <1>2, <1>3 DEF Abstract!Fetch, Abstract!Calling, Result, Abstract!Result

LEMMA FailIsStore ==
  ASSUME Sound, Sound', NEW k \in Key, NEW v \in Value, I2HashStoreFails(k)
  PROVE  Abstract!Store(k, v)
<1>1. map' = map /\ phase' = phase /\ unvisited' = unvisited
  BY StillView DEF I2HashStoreFails, Sound
<1>2. phase = "idle" /\ HeldAt(k) = {}
  BY DEF I2HashStoreFails, StoreIsNew, phase
<1>3. k \notin Abstract!Present
  BY <1>2, PresentView DEF ShownAt, Sound
<1>4. ret' = Abstract!Result("I2HashStore", -1)
  BY DEF I2HashStoreFails, Result, Abstract!Result
<1> QED BY <1>1, <1>2, <1>3, <1>4 DEF Abstract!Store

LEMMA CountIsCount ==
  ASSUME Sound, Sound', I2HashNumEntries
  PROVE  Abstract!NumEntries
<1>1. map' = map /\ phase' = phase /\ unvisited' = unvisited
  BY StillView DEF I2HashNumEntries, Sound
<1>2. ~Cleaning /\ phase \in {"idle", "callback"}
  BY DEF I2HashNumEntries, Calling, Cleaning, phase
<1>3. length \in Nat /\ delete_nodes \in Nat
  BY DEF Sound, IInv, TypeOK
<1>4. Cardinality(Abstract!Present) = length - delete_nodes /\ delete_nodes <= length
  BY <1>2, PresentCounted DEF Sound
<1>5. ret' = Result("I2HashNumEntries", Cardinality(Abstract!Present))
  BY <1>3, <1>4 DEF I2HashNumEntries
<1>6. Cardinality(Abstract!Present) = Abstract!Cardinality(Abstract!Present)
  BY DEF Cardinality, Abstract!Cardinality
<1> QED BY <1>1, <1>2, <1>5, <1>6
        DEF Abstract!NumEntries, Abstract!Calling, Result, Abstract!Result

(* The calls that make and release a table. *)
LEMMA InitIsOpen ==
  ASSUME Sound, Sound', I2HashInit \/ I2HashInitFails
  PROVE  Abstract!Open
<1>1. CASE I2HashInitFails
  <2>1. map' = map /\ phase' = phase /\ unvisited' = unvisited
    BY <1>1, StillView DEF I2HashInitFails, Sound
  <2>2. phase = "closed" /\ ret' = Abstract!Result("I2HashInit", NULL)
    BY <1>1 DEF I2HashInitFails, phase, Result, Abstract!Result
  <2> QED BY <2>1, <2>2 DEF Abstract!Open
<1>2. CASE I2HashInit
  <2>1. UNCHANGED <<buckets, bkey, bvalue, bdelete>> /\ op = "closed" /\ op' = "idle"
    BY <1>2 DEF I2HashInit, fields
  <2>2. Visible' = Visible
    BY <2>1 DEF Visible, Linked, ChainOf
  <2>3. map' = map
    BY <2>1, <2>2, MapKept DEF Cleaning, Sound
  <2>4. phase = "closed" /\ phase' = "idle" /\ unvisited = {} /\ unvisited' = {}
    BY <2>1 DEF phase, unvisited
  <2>5. ret' = Abstract!Result("I2HashInit", 0)
    BY <1>2 DEF I2HashInit, Result, Abstract!Result
  <2> QED BY <2>3, <2>4, <2>5 DEF Abstract!Open
<1> QED BY <1>1, <1>2

LEMMA CloseIsClose ==
  ASSUME Sound, Sound', I2HashClose
  PROVE  Abstract!Close
<1>1. buckets' = NoChains /\ op = "idle" /\ op' = "closed"
  BY DEF I2HashClose
<1>2. Visible' = {}
  BY <1>1, EmptyLists DEF NoChains, Visible, Linked, ChainOf
<1>3. map' = Abstract!Empty
  BY <1>2, MapEmpties DEF Sound
<1>4. phase = "idle" /\ phase' = "closed" /\ unvisited = {} /\ unvisited' = {}
  BY <1>1 DEF phase, unvisited
<1>5. ret' = Abstract!Result("I2HashClose", NULL)
  BY DEF I2HashClose, Result, Abstract!Result
<1> QED BY <1>3, <1>4, <1>5 DEF Abstract!Close

(* The calls that delete. *)
LEMMA UnlinkIsDelete ==
  ASSUME Sound, Sound', NEW k \in Key, I2HashDeleteUnlinks(k)
  PROVE  Abstract!Delete(k)
<1>1. op = "idle" /\ op' = op /\ UNCHANGED <<bkey, bvalue, bdelete>>
  BY DEF I2HashDeleteUnlinks, Calling, control, fields, Sound, IInv, MarksOnlyWhileIterating
<1>2. PICK n \in Visible : bkey[n] = k /\ Linked' = Linked \ {n}
  BY KeyUnlinked DEF Sound
<1>3. Visible' = Visible \ {n}
  BY <1>1, <1>2 DEF Visible
<1>4. map' = [map EXCEPT ![k] = NULL]
  BY <1>1, <1>2, <1>3, MapLoses DEF Cleaning, Sound
<1>5. k \in Abstract!Present
  BY <1>1, <1>2, SearchFinds, PresentView DEF ShownIsVisible, Cleaning, Sound
<1>6. phase = "idle" /\ phase' = "idle" /\ unvisited = {} /\ unvisited' = {}
  BY <1>1 DEF phase, unvisited
<1>7. ret' = Abstract!Result("I2HashDelete", 0)
  BY DEF I2HashDeleteUnlinks, Result, Abstract!Result
<1> QED BY <1>4, <1>5, <1>6, <1>7 DEF Abstract!Delete, Abstract!Calling

LEMMA MarkIsDelete ==
  ASSUME Sound, Sound', NEW k \in Key, I2HashDeleteMarks(k)
  PROVE  Abstract!Delete(k)
<1>1. /\ op = "callback" /\ UNCHANGED <<op, i, p, bkey, bvalue, buckets>>
  BY DEF I2HashDeleteMarks, Calling, control, lists, Sound, IInv, MarksOnlyWhileIterating
<1>2. PICK j \in ShownAt(k) : bdelete' = [bdelete EXCEPT ![buckets[BucketOf(k)][j]] = TRUE]
  BY DEF I2HashDeleteMarks
<1> DEFINE n == buckets[BucketOf(k)][j]
<1>3. n \in Visible /\ bkey[n] = k
  BY SearchFinds DEF ShownIsVisible, Sound
<1>4. Linked' = Linked /\ Linked \subseteq Binding /\ bdelete \in [Binding -> BOOLEAN]
  BY <1>1, LinkedFinite DEF Linked, ChainOf, Sound, IInv, TypeOK
<1>5. bdelete'[n] = TRUE /\ \A m \in Linked \ {n} : bdelete'[m] = bdelete[m]
  BY <1>2, <1>3, <1>4 DEF Visible
<1>6. Visible' = Visible \ {n}
  BY <1>4, <1>5 DEF Visible
<1>7. map' = [map EXCEPT ![k] = NULL]
  <2> HIDE DEF n
  <2> QED BY <1>1, <1>3, <1>6, MapLoses DEF Cleaning, Sound
<1>8. k \in Abstract!Present
  BY <1>1, <1>2, PresentView DEF Cleaning, Sound
<1>9. ShownAt(k)' = {}
  <2>1. HeldAt(k)' = HeldAt(k) /\ \A l \in HeldAt(k) : l = j
    BY <1>1, HeldOnce DEF HeldAt, BucketOf, ShownAt, Sound
  <2> QED BY <1>1, <1>5, <2>1 DEF ShownAt
<1>10. ASSUME NEW l \in Key, l # k PROVE ShownAt(l)' = ShownAt(l)
  <2>1. HeldAt(l)' = HeldAt(l)
    BY <1>1 DEF HeldAt
  <2>2. \A a \in HeldAt(l) : /\ buckets[BucketOf(l)][a] \in Linked
                             /\ bkey[buckets[BucketOf(l)][a]] = l
    BY BucketOfKey DEF HeldAt, Linked, ChainOf, ToSet
  <2>3. \A a \in HeldAt(l) : bdelete'[buckets[BucketOf(l)][a]] = bdelete[buckets[BucketOf(l)][a]]
    BY <1>3, <1>5, <1>10, <2>2
  <2> QED BY <1>1, <2>1, <2>3 DEF ShownAt
<1>11. unvisited' = unvisited \ {k}
  <2>1. /\ unvisited = {l \in Key : \E a \in ShownAt(l) : Ahead(BucketOf(l), a)}
        /\ unvisited' = {l \in Key : \E a \in ShownAt(l)' : Ahead(BucketOf(l), a)}
    BY <1>1 DEF unvisited, Ahead
  <2> QED BY <1>9, <1>10, <2>1
<1>12. phase = "callback" /\ phase' = "callback"
  BY <1>1 DEF phase
<1>13. ret' = Abstract!Result("I2HashDelete", 0)
  BY DEF I2HashDeleteMarks, Result, Abstract!Result
<1> QED BY <1>7, <1>8, <1>11, <1>12, <1>13 DEF Abstract!Delete, Abstract!Calling

(* The calls that store. *)
LEMMA ReplaceIsStore ==
  ASSUME Sound, Sound', NEW k \in Key, NEW v \in Value, I2HashStoreReplaces(k, v)
  PROVE  Abstract!Store(k, v)
<1>1. op = "idle" /\ op' = op /\ ~in_iterate /\ UNCHANGED <<bkey, bdelete, buckets>>
  BY DEF I2HashStoreReplaces, control, lists
<1>2. PICK j \in HeldAt(k) : bvalue' = [bvalue EXCEPT ![buckets[BucketOf(k)][j]] = v]
  BY DEF I2HashStoreReplaces
<1> DEFINE n == buckets[BucketOf(k)][j]
<1>3. n \in Linked /\ bkey[n] = k
  BY BucketOfKey DEF HeldAt, Linked, ChainOf, ToSet
<1>4. /\ Linked' = Linked /\ Visible' = Visible /\ Visible \subseteq Linked
      /\ Linked \subseteq Binding /\ bvalue \in [Binding -> Value \cup {NULL}]
  BY <1>1, LinkedFinite DEF Linked, Visible, ChainOf, Sound, IInv, TypeOK
<1>5. n \in Visible
  BY <1>1, <1>3 DEF Visible, Marked, Sound, IInv, MarksOnlyWhileIterating
<1>6. bvalue'[n] = v /\ \A m \in Visible \ {n} : bvalue'[m] = bvalue[m]
  BY <1>2, <1>3, <1>4
<1>7. \A m \in Visible : bkey[m] = k => m = n
  BY <1>3, <1>4 DEF Sound, IInv, Structure, KeysOnce
<1>8. map' = [map EXCEPT ![k] = v]
  <2> HIDE DEF n
  <2>1. Visible' = Visible \cup {n} /\ bkey'[n] = k /\ ~Cleaning /\ ~Cleaning'
    BY <1>1, <1>3, <1>4, <1>5 DEF Cleaning
  <2> QED BY <1>1, <1>3, <1>6, <1>7, <2>1, MapGains DEF Sound
<1>9. phase = "idle" /\ phase' = "idle" /\ unvisited = {} /\ unvisited' = {}
  BY <1>1 DEF phase, unvisited
<1>10. ret' = Abstract!Result("I2HashStore", 0)
  BY DEF I2HashStoreReplaces, Result, Abstract!Result
<1> QED BY <1>8, <1>9, <1>10 DEF Abstract!Store

LEMMA LinkIsStore ==
  ASSUME Sound, Sound', NEW k \in Key, NEW v \in Value,
         I2HashStoreAdds(k, v) \/ I2HashStoreGrows(k, v)
  PROVE  Abstract!Store(k, v)
<1>1. /\ op = "idle" /\ op' = op /\ HeldAt(k) = {}
      /\ ret' = Result("I2HashStore", 0)
  BY DEF I2HashStoreAdds, I2HashStoreGrows, StoreIsNew, link, control
<1>2. PICK n \in Binding \ Linked :
        /\ Linked' = Linked \cup {n}
        /\ bkey'[n] = k /\ bvalue'[n] = v /\ ~bdelete'[n]
        /\ \A m \in Linked : /\ bkey'[m] = bkey[m] /\ bvalue'[m] = bvalue[m]
                            /\ bdelete'[m] = bdelete[m]
  BY Linking DEF Sound
<1>3. Visible' = Visible \cup {n}
  BY <1>2 DEF Visible
<1>4. \A m \in Visible : bkey[m] # k
  BY <1>1, SearchFinds DEF ShownIsVisible, ShownAt, Sound
<1>5. n \notin Visible /\ Visible \subseteq Linked
  BY <1>2 DEF Visible
<1>6. map' = [map EXCEPT ![k] = v]
  <2>1. ~Cleaning /\ ~Cleaning'
    BY <1>1 DEF Cleaning
  <2>2. \A m \in Visible \ {n} : bkey'[m] = bkey[m] /\ bvalue'[m] = bvalue[m]
    BY <1>2, <1>5
  <2> QED BY <1>2, <1>3, <1>4, <1>5, <2>1, <2>2, MapGains DEF Sound
<1>7. phase = "idle" /\ phase' = "idle" /\ unvisited = {} /\ unvisited' = {}
  BY <1>1 DEF phase, unvisited
<1>8. ret' = Abstract!Result("I2HashStore", 0)
  BY <1>1 DEF Result, Abstract!Result
<1> QED BY <1>6, <1>7, <1>8 DEF Abstract!Store

-----------------------------------------------------------------------------
(* The positions of a bucket are those of its chain. *)
LEMMA Positions ==
  ASSUME IInv, NEW k \in Key, NEW j \in ShownAt(k)
  PROVE  /\ BucketOf(k) \in Nat /\ BucketOf(k) < size
         /\ j \in 1..Len(buckets[BucketOf(k)])
         /\ ~bdelete[buckets[BucketOf(k)][j]]
         /\ bkey[buckets[BucketOf(k)][j]] = k
         /\ i \in Nat /\ p \in Nat \ {0}
<1>1. BucketOf(k) \in 0..(size - 1) /\ size \in Nat \ {0}
  BY BucketOfKey, SizeType DEF Bucket
<1>2. buckets[BucketOf(k)] \in Seq(Binding)
  BY BucketOfKey DEF IInv, TypeOK
<1>3. j \in DOMAIN buckets[BucketOf(k)]
  BY DEF ShownAt, HeldAt
<1>4. j \in 1..Len(buckets[BucketOf(k)])
  BY <1>2, <1>3, LenProperties
<1>5. i \in Nat /\ p \in Nat \ {0}
  BY <1>1 DEF IInv, TypeOK
<1> QED BY <1>1, <1>4, <1>5 DEF ShownAt, HeldAt

LEMMA IterateIsIterate ==
  ASSUME Sound, Sound', I2HashIterate
  PROVE  Abstract!Iterate
<1>1. /\ op = "idle" /\ op' = "visit" /\ i' = 0 /\ p' = 1
      /\ UNCHANGED <<lists, fields>> /\ ret' = Result("I2HashIterate", NULL)
  BY DEF I2HashIterate, GoTo
<1>2. map' = map
  BY <1>1, QuietMap DEF Cleaning, Sound
<1>3. phase = "idle" /\ phase' = "visiting"
  BY <1>1 DEF phase
<1>4. unvisited' = {k \in Key : ShownAt(k) # {}}
  <2>1. unvisited' = {k \in Key : \E j \in ShownAt(k)' : Ahead(BucketOf(k), j)'}
    BY <1>1 DEF unvisited
  <2>2. \A k : ShownAt(k)' = ShownAt(k)
    BY <1>1, ListsKept
  <2>3. ASSUME NEW k \in Key, NEW j \in ShownAt(k) PROVE Ahead(BucketOf(k), j)'
    <3>1. BucketOf(k) \in Nat /\ j \in Nat \ {0}
      BY Positions DEF Sound
    <3> QED BY <1>1, <3>1 DEF Ahead
  <2> QED BY <2>1, <2>2, <2>3
<1>5. unvisited' = Abstract!Present
  <2>1. \A k \in Key : k \in Abstract!Present <=> ShownAt(k) # {}
    BY <1>1, PresentView DEF Cleaning, Sound
  <2>2. Abstract!Present \subseteq Key
    BY DEF Abstract!Present
  <2> QED BY <1>4, <2>1, <2>2
<1> QED BY <1>1, <1>2, <1>3, <1>5 DEF Abstract!Iterate, Result, Abstract!Result

(* A move of the loop inside an iteration that passes over no binding that  *)
(* is shown.                                                                *)
LEMMA SameAhead ==
  ASSUME Sound, Sound', op \in {"visit", "callback"}, op' \in {"visit", "callback"},
         UNCHANGED <<lists, fields>>,
         \A k \in Key : \A j \in ShownAt(k) :
           Ahead(BucketOf(k), j)' <=> Ahead(BucketOf(k), j)
  PROVE  unvisited' = unvisited
<1>1. \A k : ShownAt(k)' = ShownAt(k)
  BY ListsKept
<1>2. /\ unvisited' = {k \in Key : \E j \in ShownAt(k)' : Ahead(BucketOf(k), j)'}
      /\ unvisited = {k \in Key : \E j \in ShownAt(k) : Ahead(BucketOf(k), j)}
  BY DEF unvisited
<1> QED BY <1>1, <1>2

LEMMA PassIsStutter ==
  ASSUME Sound, Sound', VisitNextBucket \/ VisitSkips
  PROVE  UNCHANGED Abstract!vars
<1>1. /\ op = "visit" /\ op' = "visit" /\ UNCHANGED <<lists, fields>> /\ ret' = ret
  BY DEF VisitNextBucket, VisitSkips, GoTo
<1>2. map' = map /\ phase' = phase
  BY <1>1, QuietMap DEF Cleaning, Sound, phase
<1>3. ASSUME NEW k \in Key, NEW j \in ShownAt(k)
      PROVE  Ahead(BucketOf(k), j)' <=> Ahead(BucketOf(k), j)
  <2>1. /\ BucketOf(k) \in Nat /\ j \in Nat \ {0} /\ BucketOf(k) < size
        /\ j <= Len(buckets[BucketOf(k)]) /\ ~bdelete[buckets[BucketOf(k)][j]]
        /\ i \in Nat /\ p \in Nat \ {0}
    BY Positions DEF Sound
  <2>2. i \in 0..size /\ size \in Nat /\ (i < size => Len(buckets[i]) \in Nat)
    <3>1. i < size => buckets[i] \in Seq(Binding)
      BY SizeType DEF Sound, IInv, TypeOK, Bucket
    <3> QED BY <3>1, SizeType, LenProperties DEF Sound, IInv, TypeOK
  <2>3. CASE VisitNextBucket
    <3>1. i < size /\ ~(p <= Len(buckets[i])) /\ i' = i + 1 /\ p' = 1
      BY <2>3 DEF VisitNextBucket, GoTo, InChain
    <3>2. BucketOf(k) = i => j < p
      BY <2>1, <2>2, <3>1
    <3> QED BY <1>1, <2>1, <3>1, <3>2 DEF Ahead
  <2>4. CASE VisitSkips
    <3>1. bdelete[buckets[i][p]] /\ i' = i /\ p' = p + 1
      BY <2>4 DEF VisitSkips, GoTo, Here
    <3>2. BucketOf(k) = i => j # p
      BY <2>1, <3>1
    <3> QED BY <1>1, <2>1, <3>1, <3>2 DEF Ahead
  <2> QED BY <2>3, <2>4
<1>4. unvisited' = unvisited
  BY <1>1, <1>3, SameAhead
<1> QED BY <1>1, <1>2, <1>4 DEF Abstract!vars

LEMMA VisitIsVisit ==
  ASSUME Sound, Sound', VisitCalls
  PROVE  Abstract!Visit
<1> DEFINE here == bkey[buckets[i][p]]
<1>1. /\ op = "visit" /\ op' = "callback" /\ i' = i /\ p' = p
      /\ UNCHANGED <<lists, fields>> /\ ret' = Result("ifunc", here)
      /\ i < size /\ p <= Len(buckets[i]) /\ ~bdelete[buckets[i][p]]
  BY DEF VisitCalls, GoTo, InChain, Here
<1>2. map' = map
  BY <1>1, QuietMap DEF Cleaning, Sound
<1>3. phase = "visiting" /\ phase' = "callback"
  BY <1>1 DEF phase
<1>4. i \in Bucket /\ p \in DOMAIN buckets[i]
  <2>1. i \in Bucket /\ buckets[i] \in Seq(Binding) /\ p \in Nat \ {0}
    BY <1>1, SizeType DEF Sound, IInv, TypeOK, Bucket
  <2>2. p \in 1..Len(buckets[i])
    BY <1>1, <2>1, LenProperties
  <2> QED BY <2>1, <2>2, LenProperties
<1>5. here \in Key /\ BucketOf(here) = i
  BY <1>4 DEF ChainOf, ToSet, Sound, IInv, Structure, KeysOnce
<1>6. p \in ShownAt(here)
  BY <1>1, <1>4, <1>5 DEF ShownAt, HeldAt
<1> HIDE DEF here
<1>7. \A j \in ShownAt(here) : j = p
  BY <1>5, <1>6, HeldOnce DEF ShownAt, Sound
<1>8. /\ unvisited = {k \in Key : \E j \in ShownAt(k) : Ahead(BucketOf(k), j)}
      /\ unvisited' = {k \in Key : \E j \in ShownAt(k)' : Ahead(BucketOf(k), j)'}
  BY <1>1 DEF unvisited
<1>9. \A k : ShownAt(k)' = ShownAt(k)
  BY <1>1, ListsKept
<1>10. i \in Nat /\ p \in Nat
  BY <1>5, <1>6, Positions DEF Sound
<1>11. here \in unvisited
  BY <1>1, <1>5, <1>6, <1>8 DEF Ahead
<1>12. here \notin unvisited'
  BY <1>1, <1>5, <1>7, <1>8, <1>9, <1>10 DEF Ahead
<1>13. ASSUME NEW k \in Key, k # here, NEW j \in ShownAt(k)
       PROVE  Ahead(BucketOf(k), j)' <=> Ahead(BucketOf(k), j)
  <2>1. BucketOf(k) = i => j # p
    BY <1>13, Positions DEF here, Sound
  <2> QED BY <1>1, <2>1 DEF Ahead
<1>14. unvisited' = unvisited \ {here}
  BY <1>8, <1>9, <1>12, <1>13
<1> QED BY <1>1, <1>2, <1>3, <1>11, <1>14 DEF Abstract!Visit, Result, Abstract!Result

LEMMA EndIsAllVisited ==
  ASSUME Sound, Sound', VisitEnds
  PROVE  Abstract!AllVisited
<1>1. /\ op = "visit" /\ op' = "sweep" /\ i = size
      /\ UNCHANGED <<lists, fields>> /\ ret' = ret
  BY DEF VisitEnds, GoTo
<1>2. map' = map
  BY <1>1, QuietMap DEF Cleaning, Sound
<1>3. phase = "visiting" /\ phase' = "leaving" /\ unvisited' = {}
  BY <1>1 DEF phase, unvisited
<1>4. unvisited = {}
  <2>1. ASSUME NEW k \in Key, NEW j \in ShownAt(k) PROVE ~Ahead(BucketOf(k), j)
    <3>1. BucketOf(k) \in Nat /\ BucketOf(k) < size
      BY Positions DEF Sound
    <3> QED BY <1>1, <3>1, SizeType DEF Ahead
  <2> QED BY <2>1 DEF unvisited
<1> QED BY <1>1, <1>2, <1>3, <1>4 DEF Abstract!AllVisited

LEMMA ReturnIsReturn ==
  ASSUME Sound, Sound', CallbackReturns
  PROVE  Abstract!CallbackReturns
<1>1. op = "callback" /\ UNCHANGED <<lists, fields>> /\ ret' = ret
  BY DEF CallbackReturns
<1>2. CASE GoTo("visit", i, p + 1)
  <2>1. op' = "visit" /\ i' = i /\ p' = p + 1
    BY <1>2 DEF GoTo
  <2>2. map' = map
    BY <1>1, <2>1, QuietMap DEF Cleaning, Sound
  <2>3. phase = "callback" /\ phase' = "visiting"
    BY <1>1, <2>1 DEF phase
  <2>4. ASSUME NEW k \in Key, NEW j \in ShownAt(k)
        PROVE  Ahead(BucketOf(k), j)' <=> Ahead(BucketOf(k), j)
    <3>1. j \in Nat /\ p \in Nat
      BY Positions DEF Sound
    <3> QED BY <1>1, <2>1, <3>1 DEF Ahead
  <2>5. unvisited' = unvisited
    BY <1>1, <2>1, <2>4, SameAhead
  <2> QED BY <1>1, <2>2, <2>3, <2>5 DEF Abstract!CallbackReturns
<1>3. CASE GoTo("sweep", 0, 1)
  <2>1. op' = "sweep"
    BY <1>3 DEF GoTo
  <2>2. map' = map
    BY <1>1, <2>1, QuietMap DEF Cleaning, Sound
  <2>3. phase = "callback" /\ phase' = "leaving" /\ unvisited' = {}
    BY <1>1, <2>1 DEF phase, unvisited
  <2> QED BY <1>1, <2>2, <2>3 DEF Abstract!CallbackReturns
<1> QED BY <1>2, <1>3 DEF CallbackReturns

(* The sweep takes away bindings that are marked already. *)
LEMMA SweepIsStutter ==
  ASSUME Sound, Sound', SweepNextBucket \/ SweepKeeps \/ SweepUnlinks
  PROVE  UNCHANGED Abstract!vars
<1>1. op = "sweep" /\ op' = "sweep" /\ UNCHANGED fields /\ ret' = ret
  BY DEF SweepNextBucket, SweepKeeps, SweepUnlinks, SweepGoesOn, GoTo, control
<1>2. Visible' = Visible
  <2>1. CASE SweepNextBucket \/ SweepKeeps
    BY <2>1, ListsKept DEF SweepNextBucket, SweepKeeps
  <2>2. CASE SweepUnlinks
    <3>1. PICK n \in Linked : bdelete[n] /\ Linked' = Linked \ {n}
      BY <2>2, SweepUnlinking DEF Sound
    <3> QED BY <1>1, <3>1 DEF Visible, fields
  <2> QED BY <2>1, <2>2
<1>3. map' = map
  BY <1>1, <1>2, MapKept DEF Cleaning, fields, Sound
<1>4. phase' = phase /\ unvisited' = unvisited
  BY <1>1 DEF phase, unvisited
<1> QED BY <1>1, <1>3, <1>4 DEF Abstract!vars

LEMMA SweepEndIsLeave ==
  ASSUME Sound, Sound', SweepEnds
  PROVE  Abstract!Leave
<1>1. /\ op = "sweep" /\ op' = "idle" /\ UNCHANGED <<lists, fields>> /\ ret' = ret
  BY DEF SweepEnds, GoTo
<1>2. map' = map
  BY <1>1, QuietMap DEF Cleaning, Sound
<1>3. phase = "leaving" /\ phase' = "idle" /\ unvisited' = {} /\ unvisited = {}
  BY <1>1 DEF phase, unvisited
<1> QED BY <1>1, <1>2, <1>3 DEF Abstract!Leave

(* I2HashClean empties the map at once, and its loops the table after it. *)
LEMMA CleanIsClean ==
  ASSUME Sound, Sound', I2HashClean
  PROVE  Abstract!Clean
<1>1. op = "idle" /\ op' = "clean"
  BY DEF I2HashClean, GoTo
<1>2. map' = Abstract!Empty
  BY <1>1, MapEmpties DEF Cleaning, Sound
<1>3. phase = "idle" /\ phase' = "leaving" /\ unvisited' = {} /\ unvisited = {}
  BY <1>1 DEF phase, unvisited
<1>4. ret' = Abstract!Result("I2HashClean", NULL)
  BY DEF I2HashClean, Result, Abstract!Result
<1> QED BY <1>2, <1>3, <1>4 DEF Abstract!Clean

LEMMA MapWhileCleaning == IInv /\ Cleaning => map = Abstract!Empty
<1>1. IInv /\ Cleaning => map = [k \in Key |-> map[k]] /\ \A k \in Key : map[k] = NULL
  BY MapView DEF MapShown
<1> QED BY <1>1 DEF Abstract!Empty

LEMMA CleaningIsStutter ==
  ASSUME Sound, Sound', CleanEntersBucket \/ CleanFrees \/ CleanLeavesBucket
  PROVE  UNCHANGED Abstract!vars
<1>1. /\ op \in {"clean", "cleanChain"} /\ op' \in {"clean", "cleanChain"} /\ ret' = ret
  BY DEF CleanEntersBucket, CleanFrees, CleanLeavesBucket, CleanGoesOn, GoTo, control
<1>2. map = Abstract!Empty
  BY <1>1, MapWhileCleaning DEF Cleaning, Sound
<1>3. map' = Abstract!Empty
  BY <1>1, MapEmpties DEF Cleaning, Sound
<1>4. phase' = phase /\ unvisited' = unvisited
  BY <1>1 DEF phase, unvisited
<1> QED BY <1>1, <1>2, <1>3, <1>4 DEF Abstract!vars

LEMMA CleanEndIsLeave ==
  ASSUME Sound, Sound', CleanEnds
  PROVE  Abstract!Leave
<1>1. /\ op = "clean" /\ ~CleanGoesOn /\ op' = "idle" /\ UNCHANGED <<lists, fields>> /\ ret' = ret
  BY DEF CleanEnds, GoTo
<1>2. map = Abstract!Empty
  BY <1>1, MapWhileCleaning DEF Cleaning, Sound
<1>3. Linked = {}
  BY <1>1, WorkIsDone DEF LoopsEndWithWorkDone, Sound
<1>4. Visible' = {}
  BY <1>1, <1>3, ListsKept DEF Visible
<1>5. map' = Abstract!Empty
  BY <1>4, MapEmpties DEF Sound
<1>6. phase = "leaving" /\ phase' = "idle" /\ unvisited' = {} /\ unvisited = {}
  BY <1>1 DEF phase, unvisited
<1> QED BY <1>1, <1>2, <1>5, <1>6 DEF Abstract!Leave

LEMMA InitIsInit == Init => Abstract!Init
<1> SUFFICES ASSUME Init PROVE Abstract!Init
  OBVIOUS
<1>1. op = "closed" /\ buckets = NoChains /\ ret = Result("none", NULL)
  BY DEF Init
<1>2. Linked = {}
  BY <1>1, EmptyLists DEF NoChains, Linked, ChainOf
<1>3. IInv
  BY InitInvariant
<1>4. map = [k \in Key |-> map[k]] /\ \A k \in Key : map[k] = NULL
  BY <1>2, <1>3, MapView DEF MapShown, Visible
<1>5. phase = "closed" /\ unvisited = {}
  BY <1>1 DEF phase, unvisited
<1> QED BY <1>1, <1>4, <1>5 DEF Abstract!Init, Abstract!Empty, Result, Abstract!Result

LEMMA StillIsStutter ==
  ASSUME Sound, Sound', UNCHANGED vars
  PROVE  UNCHANGED Abstract!vars
<1>1. UNCHANGED <<lists, fields, control>> /\ ret' = ret
  BY DEF vars
<1>2. map' = map /\ phase' = phase /\ unvisited' = unvisited
  BY <1>1, StillView DEF Sound
<1> QED BY <1>1, <1>2 DEF Abstract!vars

LEMMA StepIsStep ==
  Sound /\ Sound' /\ [Next]_vars => [Abstract!Next]_(Abstract!vars)
<1> SUFFICES ASSUME Sound, Sound', [Next]_vars
             PROVE  Abstract!Next \/ UNCHANGED Abstract!vars
  OBVIOUS
<1>1. CASE UNCHANGED vars
  BY <1>1, StillIsStutter
<1>2. CASE I2HashInit \/ I2HashInitFails
  BY <1>2, InitIsOpen DEF Abstract!Next
<1>3. CASE I2HashClose
  BY <1>3, CloseIsClose DEF Abstract!Next
<1>4. ASSUME NEW k \in Key, I2HashDelete(k) PROVE Abstract!Next
  <2>1. Abstract!Delete(k)
    BY <1>4, MissIsDelete, MarkIsDelete, UnlinkIsDelete DEF I2HashDelete
  <2> QED BY <2>1 DEF Abstract!Next
<1>5. ASSUME NEW k \in Key, NEW v \in Value, I2HashStore(k, v) PROVE Abstract!Next
  <2>1. Abstract!Store(k, v)
    BY <1>5, ReplaceIsStore, LinkIsStore, FailIsStore DEF I2HashStore
  <2> QED BY <2>1 DEF Abstract!Next
<1>6. ASSUME NEW k \in Key, I2HashFetch(k) PROVE Abstract!Next
  <2>1. Abstract!Fetch(k)
    BY <1>6, FetchIsFetch
  <2> QED BY <2>1 DEF Abstract!Next
<1>7. CASE I2HashNumEntries
  BY <1>7, CountIsCount DEF Abstract!Next
<1>8. CASE I2HashIterate
  BY <1>8, IterateIsIterate DEF Abstract!Next
<1>9. CASE CallbackReturns
  BY <1>9, ReturnIsReturn DEF Abstract!Next
<1>10. CASE IterateStep
  BY <1>10, PassIsStutter, VisitIsVisit, EndIsAllVisited, SweepIsStutter, SweepEndIsLeave
     DEF IterateStep, Abstract!Next
<1>11. CASE I2HashClean
  BY <1>11, CleanIsClean DEF Abstract!Next
<1>12. CASE CleanStep
  BY <1>12, CleaningIsStutter, CleanEndIsLeave DEF CleanStep, Abstract!Next
<1> QED BY <1>1, <1>2, <1>3, <1>4, <1>5, <1>6, <1>7, <1>8, <1>9, <1>10, <1>11, <1>12
        DEF Next

(* The table is the map its callers are promised: I2HashFetch, I2HashDelete *)
(* and I2HashNumEntries answer for that map, a failed I2HashStore leaves it *)
(* as it was, and I2HashIterate hands out each of its keys once, whatever   *)
(* its callback deletes.                                                    *)
THEOREM TableIsAMap == Spec => ImplementsKeyMap
<1>1. Spec => []Sound
  BY Invariance, ValuesAlways, PTL DEF Sound
<1> QED BY <1>1, InitIsInit, StepIsStep, PTL DEF Spec, ImplementsKeyMap, Abstract!Spec
=============================================================================
