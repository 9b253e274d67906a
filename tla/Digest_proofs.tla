---------------------------- MODULE Digest_proofs ----------------------------
(***************************************************************************)
(* Proofs about Digest.tla, for all sizes of blocks, words, messages, keys *)
(* and salts: I2pbkdf2 (I2util/pbkdf2.c) returns the key that RFC 2898     *)
(* defines, and SHA-1 and HMAC (I2util/sha1.c, hmac-sha1.c) the digest of  *)
(* FIPS 180-1 and RFC 2104, however a message is cut into appends.         *)
(*                                                                         *)
(* The invariant of I2pbkdf2 follows its two loops: the blocks before i    *)
(* are standard, and of block i, U_1 to U_(j-1) were xored together, the   *)
(* last of which is at the start of the buffer.  A byte of the model is    *)
(* the set of the bytes xored into it, and xor unites such sets only as    *)
(* long as no byte comes twice: that the U's of one block are all          *)
(* different is a lemma about the chain of them (ChainDistinct).           *)
(*                                                                         *)
(* The invariant of a context is that it represents the message: its state *)
(* is the list of the whole blocks, its buffer starts with the bytes that  *)
(* remain, and its count is that of the bits, in two words, carries        *)
(* included (CountedIs).  Appending keeps that (AppendFollows), zeros too  *)
(* (ZerosFollow), and what the padding leaves is the standard's padded     *)
(* message (FinishedIs).  What an array holds is stated about its          *)
(* elements, by Joined and IsPart.                                         *)
(***************************************************************************)
EXTENDS Digest, SequenceTheorems, WellFoundedInduction, TLAPS
-----------------------------------------------------------------------------
(*                         The equation of the U's                         *)

IsChain(f, seed, count) ==
    f = [j \in 1..count |-> Prf(IF j = 1 THEN seed ELSE f[j - 1])]

(* The U's are defined by one equation, which has a solution: no shortest *)
(* chain is without one.                                                 *)
LEMMA ChainExists == ASSUME NEW seed, NEW count \in Nat PROVE \E f : IsChain(f, seed, count)
<1> DEFINE bad == {c \in Nat : ~\E f : IsChain(f, seed, c)}
<1>1. ASSUME bad # {} PROVE FALSE
  <2> HIDE DEF bad
  <2>1. bad \subseteq Nat
    BY DEF bad
  <2>2. PICK c \in bad : \A l \in bad : ~(<<l, c>> \in OpToRel(<, Nat))
    BY <1>1, <2>1, WFMin, NatLessThanWellFounded
  <2>3. c \in Nat /\ \A l \in Nat : l < c => \E f : IsChain(f, seed, l)
    BY <2>1, <2>2 DEF OpToRel, bad
  <2>4. CASE c = 0
    <3>1. IsChain([j \in 1..0 |-> 0], seed, 0)
      BY DEF IsChain
    <3> QED BY <2>2, <2>4, <3>1 DEF bad
  <2>5. CASE c # 0
    <3>1. c - 1 \in Nat /\ c - 1 < c
      BY <2>3, <2>5
    <3>2. PICK f : IsChain(f, seed, c - 1)
      BY <2>3, <3>1
    <3> DEFINE g == [j \in 1..c |-> IF j = c THEN Prf(IF c = 1 THEN seed ELSE f[c - 1]) ELSE f[j]]
               h == [j \in 1..c |-> Prf(IF j = 1 THEN seed ELSE g[j - 1])]
    <3>3. \A j \in 1..(c - 1) : f[j] = Prf(IF j = 1 THEN seed ELSE f[j - 1])
      BY <3>2 DEF IsChain
    <3>4. ASSUME NEW j \in 1..c PROVE g[j] = h[j]
      <4>1. CASE j = c
        <5>1. c # 1 => c - 1 \in 1..c /\ c - 1 # c
          BY <2>3, <3>1
        <5> QED BY <2>3, <4>1, <5>1
      <4>2. CASE j # c
        <5>1. j \in 1..(c - 1) /\ (j # 1 => j - 1 \in 1..c /\ j - 1 # c)
          BY <2>3, <4>2
        <5> QED BY <3>3, <4>2, <5>1
      <4> QED BY <4>1, <4>2
    <3>5. g = h
      BY <3>4
    <3>6. IsChain(g, seed, c)
      BY <3>5 DEF IsChain
    <3> QED BY <2>2, <3>6 DEF bad
  <2> QED BY <2>4, <2>5
<1> QED BY <1>1

(* So the chain that CHOOSE takes is one. *)
LEMMA ChainIsOne ==
    ASSUME NEW seed, NEW count \in Nat PROVE IsChain(Chain(seed, count), seed, count)
<1>1. PICK f : IsChain(f, seed, count)
  BY ChainExists
<1>2. f = [j \in 1..count |-> Prf(IF j = 1 THEN seed ELSE f[j - 1])]
  BY <1>1 DEF IsChain
<1>3. \E g : g = [j \in 1..count |-> Prf(IF j = 1 THEN seed ELSE g[j - 1])]
  BY <1>2, Zenon
<1> QED BY <1>3 DEF Chain, IsChain
-----------------------------------------------------------------------------
(*                          Arrays of known length                         *)

Array(s, n) == s = [k \in 1..n |-> s[k]]

LEMMA ArrayIsSeq ==
    ASSUME NEW n \in Nat, NEW s, Array(s, n)
    PROVE  /\ s \in Seq({s[k] : k \in 1..n}) /\ Len(s) = n
           /\ DOMAIN s = 1..n
<1> DEFINE T == {s[k] : k \in 1..n}
<1>1. DOMAIN s = 1..n
  BY DEF Array
<1>2. s \in [1..n -> T]
  BY DEF Array
<1> HIDE DEF T
<1>3. s \in Seq(T)
  BY <1>2, SeqDef
<1>4. Len(s) = n
  BY <1>1, <1>3, LenProperties
<1> QED BY <1>1, <1>3, <1>4 DEF T

LEMMA SameArray ==
    ASSUME NEW n \in Nat, NEW s, NEW t, Array(s, n), Array(t, n),
           \A k \in 1..n : s[k] = t[k]
    PROVE  s = t
  BY DEF Array

(* Data copied into an array: its length stays. *)
LEMMA Overwritten ==
    ASSUME NEW n \in Nat, NEW a, Array(a, n), NEW m \in Nat, NEW d, Array(d, m), NEW j \in Nat
    PROVE  Array(Overwrite(a, j, d), n)
<1>1. Len(a) = n
  BY ArrayIsSeq
<1> QED BY <1>1 DEF Overwrite, Array

LEMMA OverwrittenAt ==
    ASSUME NEW n \in Nat, NEW a, Array(a, n), NEW m \in Nat, NEW d, Array(d, m), NEW j \in Nat,
           NEW k \in 1..n
    PROVE  Overwrite(a, j, d)[k] = IF k \in j + 1..j + m THEN d[k - j] ELSE a[k]
<1>1. Len(a) = n /\ Len(d) = m
  BY ArrayIsSeq
<1> QED BY <1>1 DEF Overwrite

(* Data copied to the start of a longer array. *)
LEMMA FromTheStart ==
    ASSUME NEW n \in Nat, NEW a, Array(a, n), NEW m \in Nat, NEW d, Array(d, m), m < n,
           NEW k \in 1..m
    PROVE  Overwrite(a, 0, d)[k] = d[k]
<1>1. k \in 1..n /\ k \in 0 + 1..0 + m /\ k - 0 = k /\ 0 \in Nat
  OBVIOUS
<1>2. Overwrite(a, 0, d)[k] = IF k \in 0 + 1..0 + m THEN d[k - 0] ELSE a[k]
  BY <1>1, OverwrittenAt
<1> QED BY <1>1, <1>2

LEMMA Slice ==
    ASSUME NEW n \in Nat, NEW a, Array(a, n), NEW j \in Nat, NEW l \in Nat, j <= l, l <= n
    PROVE  /\ Array(SubSeq(a, j + 1, l), l - j)
           /\ \A k \in 1..l - j : SubSeq(a, j + 1, l)[k] = a[j + k]
<1> DEFINE s == SubSeq(a, j + 1, l)
           T == {a[k] : k \in 1..n}
<1>1. a \in Seq(T) /\ Len(a) = n /\ DOMAIN a = 1..n
  BY ArrayIsSeq
<1>2. \A k \in (j + 1)..l : a[k] \in T
  BY <1>1
<1> HIDE DEF T
<1>3. /\ s \in Seq(T)
      /\ Len(s) = IF j + 1 <= l THEN l - (j + 1) + 1 ELSE 0
      /\ \A k \in 1..l - (j + 1) + 1 : s[k] = a[(j + 1) + k - 1]
  BY <1>2, SubSeqProperties
<1>4. Len(s) = l - j
  BY <1>3
<1>5. \A k \in 1..l - j : k \in 1..l - (j + 1) + 1 /\ (j + 1) + k - 1 = j + k
  OBVIOUS
<1>6. \A k \in 1..l - j : s[k] = a[j + k]
  BY <1>3, <1>5
<1>7. s = [k \in 1..l - j |-> s[k]]
  BY <1>3, <1>4, LenProperties
<1> QED BY <1>6, <1>7 DEF Array

LEMMA Prefix ==
    ASSUME NEW n \in Nat, NEW a, Array(a, n), NEW l \in Nat, l <= n
    PROVE  /\ Array(SubSeq(a, 1, l), l)
           /\ \A k \in 1..l : SubSeq(a, 1, l)[k] = a[k]
<1>1. /\ Array(SubSeq(a, 0 + 1, l), l - 0)
      /\ \A k \in 1..l - 0 : SubSeq(a, 0 + 1, l)[k] = a[0 + k]
  BY Slice
<1>2. 0 + 1 = 1 /\ l - 0 = l /\ \A k \in 1..l : 0 + k = k
  OBVIOUS
<1> QED BY <1>1, <1>2

LEMMA MaxOfTwo ==
    ASSUME NEW x \in Nat, NEW y \in Nat
    PROVE  Max({x, y}) \in {x, y} /\ Max({x, y}) >= x /\ Max({x, y}) >= y
<1>1. \E m \in {x, y} : \A z \in {x, y} : m >= z
  BY DEF Max
<1> QED BY <1>1 DEF Max
-----------------------------------------------------------------------------
(*                       Blocks of the derived key                         *)

LEMMA Multiples ==
    ASSUME NEW P \in Nat, NEW u \in Nat, NEW v \in Nat
    PROVE  u * P \in Nat /\ (u < v => u * P + P <= v * P)
<1>1. u * P \in Nat /\ v * P \in Nat
  OBVIOUS
<1>2. ASSUME u < v PROVE u * P + P <= v * P
  <2>1. PICK d \in Nat : v = u + 1 + d
    <3>1. v - u - 1 \in Nat /\ v = u + 1 + (v - u - 1)
      BY <1>2
    <3> QED BY <3>1
  <2>2. (u + 1 + d) * P = u * P + P + d * P
    OBVIOUS
  <2>3. d * P \in Nat
    OBVIOUS
  <2> QED BY <1>1, <2>1, <2>2, <2>3
<1> QED BY <1>1, <1>2

(* Dividing with remainder: there is one way to write a number. *)
LEMMA Division ==
    ASSUME NEW P \in Nat \ {0}, NEW i \in Nat, NEW r \in 0..P - 1
    PROVE  (i * P + r) \div P = i /\ (i * P + r) % P = r
<1> DEFINE x == i * P + r
           q == x \div P
           m == x % P
<1>1. x \in Nat
  OBVIOUS
<1>2. q \in Nat /\ m \in 0..P - 1 /\ x = P * q + m
  BY <1>1
<1>3. P * q = q * P
  BY <1>2
<1>4. ~(q < i)
  <2>1. q < i => q * P + P <= i * P
    BY <1>2, Multiples
  <2> QED BY <1>2, <1>3, <2>1, Multiples
<1>5. ~(i < q)
  <2>1. i < q => i * P + P <= q * P
    BY <1>2, Multiples
  <2> QED BY <1>2, <1>3, <2>1, Multiples
<1>6. q = i
  BY <1>2, <1>4, <1>5
<1> QED BY <1>2, <1>3, <1>6

LEMMA PrfSizes == PrfSize \in Nat \ {0} /\ MaxCount \in Nat
  BY DigestAssumption

LEMMA Place ==
    ASSUME NEW i \in Nat, NEW k \in Nat, k > i * PrfSize, k <= i * PrfSize + PrfSize
    PROVE  BlockOf(k) = i + 1 /\ ByteOf(k) = k - i * PrfSize /\ ByteOf(k) \in 1..PrfSize
<1> DEFINE r == k - i * PrfSize - 1
<1>1. PrfSize \in Nat \ {0} /\ i * PrfSize \in Nat
  BY PrfSizes, Multiples
<1>2. r \in 0..PrfSize - 1 /\ k - 1 = i * PrfSize + r /\ r + 1 = k - i * PrfSize
  BY <1>1
<1> HIDE DEF r
<1>3. (k - 1) \div PrfSize = i /\ (k - 1) % PrfSize = r
  BY <1>1, <1>2, Division
<1> QED BY <1>1, <1>2, <1>3 DEF BlockOf, ByteOf
-----------------------------------------------------------------------------
(*                              The chain of U's                           *)

LEMMA PrfIs ==
    ASSUME NEW t
    PROVE  /\ Array(Prf(t), PrfSize)
           /\ \A k \in 1..PrfSize : Prf(t)[k] = <<"prf", <<t, k>>>>
  BY DEF Prf, Array

(* The function is left free: equal bytes come of equal texts. *)
LEMMA PrfInjective ==
    ASSUME NEW s, NEW t, NEW k \in 1..PrfSize, Prf(s)[k] = Prf(t)[k]
    PROVE  s = t
<1>1. <<"prf", <<s, k>>>> = <<"prf", <<t, k>>>>
  BY PrfIs
<1> QED BY <1>1

LEMMA SeedIs ==
    ASSUME NEW n \in Nat, NEW block
    PROVE  /\ Array(Seed(n, block), n + 1)
           /\ Seed(n, block)[n + 1] = <<"int", block>>
           /\ \A k \in 1..n : Seed(n, block)[k] = <<"salt", k>>
<1> DEFINE salt == Named("salt", n)
           T == {salt[k] : k \in 1..n} \cup {<<"int", block>>}
           s == Append(salt, <<"int", block>>)
<1>1. Array(salt, n) /\ \A k \in 1..n : salt[k] = <<"salt", k>>
  BY DEF Named, Array
<1>2. salt \in Seq({salt[k] : k \in 1..n}) /\ Len(salt) = n
  BY <1>1, ArrayIsSeq
<1> HIDE DEF salt
<1>3. salt \in Seq(T)
  BY <1>2
<1>4. <<"int", block>> \in T
  OBVIOUS
<1> HIDE DEF T
<1>5. /\ s \in Seq(T) /\ Len(s) = n + 1
      /\ \A k \in 1..n : s[k] = salt[k]
      /\ s[n + 1] = <<"int", block>>
  BY <1>2, <1>3, <1>4, AppendProperties
<1>6. s = [k \in 1..n + 1 |-> s[k]]
  BY <1>5, LenProperties
<1> QED BY <1>1, <1>5, <1>6 DEF Array, Seed, salt

(* A result of the function is never the first text, whose index no result has. *)
LEMMA SeedIsNoPrf == ASSUME NEW n \in Nat, NEW block, NEW t PROVE Seed(n, block) # Prf(t)
<1> SUFFICES ASSUME Seed(n, block) = Prf(t) PROVE FALSE
  OBVIOUS
<1>0. n + 1 \in Nat /\ Array(Seed(n, block), n + 1)
  BY SeedIs
<1>1. DOMAIN Seed(n, block) = 1..n + 1
  BY <1>0, ArrayIsSeq
<1>2. DOMAIN Prf(t) = 1..PrfSize
  BY DEF Prf
<1>3. n + 1 \in 1..PrfSize
  <2>1. n + 1 \in 1..n + 1
    OBVIOUS
  <2> QED BY <1>1, <1>2, <2>1, Zenon
<1>4. <<"int", block>> = <<"prf", <<t, n + 1>>>>
  BY <1>3, SeedIs, PrfIs
<1> QED BY <1>4

(* What U_j is computed of. *)
PrfText(f, seed, j) == IF j = 1 THEN seed ELSE f[j - 1]

LEMMA ChainIs ==
    ASSUME NEW f, NEW seed, NEW count \in Nat, IsChain(f, seed, count), NEW j \in 1..count
    PROVE  f[j] = Prf(PrfText(f, seed, j))
<1>1. f = [l \in 1..count |-> Prf(IF l = 1 THEN seed ELSE f[l - 1])]
  BY DEF IsChain
<1>2. f[j] = Prf(IF j = 1 THEN seed ELSE f[j - 1])
  BY <1>1
<1> QED BY <1>2 DEF PrfText

(* No byte comes twice, so xor never takes one away: of two equal texts in   *)
(* the chain the ones before were equal too, down to the seed.             *)
LEMMA ChainDistinct ==
    ASSUME NEW f, NEW n \in Nat, NEW block, NEW count \in Nat,
           IsChain(f, Seed(n, block), count),
           NEW l \in 1..count, NEW j \in 1..count, l < j, NEW k \in 1..PrfSize
    PROVE  f[l][k] # f[j][k]
<1> DEFINE seed == Seed(n, block)
           text(x) == PrfText(f, seed, x)
           bad == {x \in 1..count : \E y \in 1..count : x < y /\ text(x) = text(y)}
<1>1. ASSUME bad # {} PROVE FALSE
  <2>1. bad \subseteq Nat
    OBVIOUS
  <2> HIDE DEF bad
  <2>2. PICK x \in bad : \A z \in bad : ~(<<z, x>> \in OpToRel(<, Nat))
    BY <1>1, <2>1, WFMin, NatLessThanWellFounded
  <2>3. \A z \in bad : ~(z < x)
    BY <2>1, <2>2 DEF OpToRel
  <2>4. PICK y \in 1..count : x \in 1..count /\ x < y /\ text(x) = text(y)
    BY DEF bad
  <2>5. y # 1 /\ y - 1 \in 1..count /\ text(y) = f[y - 1]
    BY <2>4 DEF PrfText
  <2>6. text(y) = Prf(text(y - 1))
    BY <2>5, ChainIs
  <2>7. CASE x = 1
    BY <2>4, <2>6, <2>7, SeedIsNoPrf DEF PrfText
  <2>8. CASE x # 1
    <3>1. x - 1 \in 1..count /\ text(x) = f[x - 1]
      BY <2>4, <2>8 DEF PrfText
    <3>2. text(x) = Prf(text(x - 1))
      BY <3>1, ChainIs
    <3>3. Prf(text(x - 1))[1] = Prf(text(y - 1))[1] /\ 1 \in 1..PrfSize
      BY <2>4, <2>6, <3>2, PrfSizes
    <3> HIDE DEF text
    <3>4. text(x - 1) = text(y - 1)
      BY <3>3, PrfInjective
    <3>5. x - 1 < y - 1
      BY <2>4
    <3>6. x - 1 \in bad
      BY <2>5, <3>1, <3>4, <3>5 DEF bad
    <3>7. x - 1 < x
      BY <2>4
    <3> QED BY <2>3, <3>6, <3>7
  <2> QED BY <2>7, <2>8
<1>2. SUFFICES ASSUME f[l][k] = f[j][k] PROVE FALSE
  OBVIOUS
<1>3. f[l] = Prf(text(l)) /\ f[j] = Prf(text(j))
  BY ChainIs
<1>4. text(l) = text(j)
  BY <1>2, <1>3, PrfInjective
<1> QED BY <1>1, <1>4
-----------------------------------------------------------------------------
(*                                 I2pbkdf2                                *)

Working == kdf.at \in {"first", "next"}
Size == Max({kdf.saltlen, PrfSize}) + 1

KdfIsRecord ==
    kdf = [at |-> kdf.at, saltlen |-> kdf.saltlen, count |-> kdf.count,
           dklen |-> kdf.dklen, i |-> kdf.i, j |-> kdf.j, buffer |-> kdf.buffer,
           outbuff |-> kdf.outbuff, dk |-> kdf.dk, rc |-> kdf.rc]

KdfTypes ==
    /\ KdfIsRecord
    /\ kdf.at \in {"idle", "first", "next", "returned"} /\ kdf.rc \in {0, -1}
    /\ kdf.saltlen \in Nat /\ kdf.dklen \in Nat /\ kdf.count \in 0..MaxCount
    /\ kdf.i \in Nat /\ kdf.j \in Nat
    /\ kdf.at # "idle" /\ kdf.rc = 0 =>
         /\ Array(kdf.buffer, Size) /\ Array(kdf.outbuff, PrfSize)
         /\ Array(kdf.dk, kdf.dklen) /\ kdf.count # 0

(* A block that is being computed is needed. *)
InRange ==
    /\ Working => kdf.rc = 0 /\ (kdf.i < L \/ (kdf.i = L /\ R > 0))
    /\ kdf.at = "next" => kdf.j \in 2..kdf.count + 1

(* The blocks that are complete. *)
KeySoFar ==
    kdf.at # "idle" /\ kdf.rc = 0 =>
      \A k \in 1..kdf.dklen :
        kdf.at = "returned" \/ k <= kdf.i * PrfSize => kdf.dk[k] = StandardByte(k)

(* The one that is being computed: U_1 xor .. xor U_(j-1), and U_(j-1).     *)
Us == Chain(Seed(kdf.saltlen, kdf.i + 1), kdf.count)
Got(k) == IF InPlace THEN kdf.dk[kdf.i * PrfSize + k] ELSE kdf.outbuff[k]
BlockSoFar ==
    kdf.at = "next" =>
      \A k \in 1..PrfSize : /\ Got(k) = {Us[l][k] : l \in 1..kdf.j - 1}
                            /\ kdf.buffer[k] = Us[kdf.j - 1][k]

KdfInv == KdfTypes /\ InRange /\ KeySoFar /\ BlockSoFar

(* Every offset of the two loops is inside of its array. *)
LEMMA Lengths ==
    ASSUME KdfTypes, InRange
    PROVE  /\ L \in Nat /\ R \in 0..PrfSize - 1 /\ kdf.dklen = L * PrfSize + R
           /\ L * PrfSize \in Nat /\ kdf.i * PrfSize \in Nat
           /\ Size \in Nat /\ PrfSize < Size /\ kdf.saltlen + 1 <= Size
           /\ InPlace => kdf.i * PrfSize + PrfSize <= L * PrfSize
           /\ Working /\ ~InPlace => kdf.i = L /\ R > 0
<1>1. PrfSize \in Nat \ {0} /\ kdf.dklen \in Nat /\ kdf.saltlen \in Nat /\ kdf.i \in Nat
  BY PrfSizes DEF KdfTypes
<1>2. L \in Nat /\ R \in 0..PrfSize - 1 /\ kdf.dklen = PrfSize * L + R
  BY <1>1 DEF L, R
<1>3. PrfSize * L = L * PrfSize
  BY <1>1, <1>2
<1>4. L * PrfSize \in Nat /\ kdf.i * PrfSize \in Nat
  BY <1>1, <1>2, Multiples
<1>5. Size \in Nat /\ PrfSize < Size /\ kdf.saltlen + 1 <= Size
  <2>1. /\ Max({kdf.saltlen, PrfSize}) \in {kdf.saltlen, PrfSize}
        /\ Max({kdf.saltlen, PrfSize}) >= kdf.saltlen /\ Max({kdf.saltlen, PrfSize}) >= PrfSize
    BY <1>1, MaxOfTwo
  <2> DEFINE m == Max({kdf.saltlen, PrfSize})
  <2>2. m \in Nat /\ m >= kdf.saltlen /\ m >= PrfSize
    BY <1>1, <2>1
  <2> HIDE DEF m
  <2>3. m + 1 \in Nat /\ PrfSize < m + 1 /\ kdf.saltlen + 1 <= m + 1
    BY <1>1, <2>2
  <2> QED BY <2>3 DEF Size, m
<1>6. InPlace => kdf.i * PrfSize + PrfSize <= L * PrfSize
  BY <1>1, <1>2, Multiples DEF InPlace
<1>7. Working /\ ~InPlace => kdf.i = L /\ R > 0
  BY DEF InRange, InPlace
<1> QED BY <1>2, <1>3, <1>4, <1>5, <1>6, <1>7

LEMMA KdfInit == DigestInit => KdfInv
<1> SUFFICES ASSUME DigestInit PROVE KdfInv
  OBVIOUS
<1>1. kdf = KdfIdle
  BY DEF DigestInit
<1>2. KdfTypes
  BY <1>1, PrfSizes DEF KdfTypes, KdfIsRecord, KdfIdle
<1>3. InRange /\ KeySoFar /\ BlockSoFar
  BY <1>1 DEF InRange, Working, KeySoFar, BlockSoFar, KdfIdle
<1> QED BY <1>2, <1>3 DEF KdfInv

(* A call starts with no block, or with an empty key, or fails. *)
LEMMA KdfCalls == ASSUME KdfInv, I2pbkdf2 PROVE KdfInv'
<1>1. PICK saltlen \in SaltSizes, count \in 1..MaxCount, dklen \in DKSizes, rc \in {0, -1} :
         kdf' = IF rc = -1
                THEN [KdfIdle EXCEPT !.at = "returned", !.rc = -1]
                ELSE [KdfIdle EXCEPT !.at = IF dklen = 0 THEN "returned" ELSE "first",
                                     !.saltlen = saltlen, !.count = count, !.dklen = dklen,
                                     !.buffer = Fill(Max({saltlen, PrfSize}) + 1),
                                     !.outbuff = [k \in 1..PrfSize |-> {}],
                                     !.dk = [k \in 1..dklen |-> {}]]
  BY DEF I2pbkdf2
<1>2. /\ saltlen \in Nat /\ dklen \in Nat /\ count \in Nat /\ PrfSize \in Nat \ {0}
      /\ MaxCount \in Nat
  BY DigestAssumption
<1>3. CASE rc = -1
  <2>1. kdf' = [at |-> "returned", saltlen |-> 0, count |-> 0, dklen |-> 0, i |-> 0, j |-> 0,
                buffer |-> <<>>, outbuff |-> <<>>, dk |-> <<>>, rc |-> -1]
    BY <1>1, <1>3 DEF KdfIdle
  <2>2. KdfTypes'
    BY <1>2, <2>1 DEF KdfTypes, KdfIsRecord
  <2>3. InRange' /\ KeySoFar' /\ BlockSoFar'
    BY <2>1 DEF InRange, Working, KeySoFar, BlockSoFar
  <2> QED BY <2>2, <2>3 DEF KdfInv
<1>4. CASE rc = 0
  <2> DEFINE n == Max({saltlen, PrfSize}) + 1
             buffer == Fill(n)
             outbuff == [k \in 1..PrfSize |-> {}]
             dk == [k \in 1..dklen |-> {}]
             at == IF dklen = 0 THEN "returned" ELSE "first"
  <2>1. kdf' = [at |-> at, saltlen |-> saltlen, count |-> count, dklen |-> dklen, i |-> 0,
                j |-> 0, buffer |-> buffer, outbuff |-> outbuff, dk |-> dk, rc |-> 0]
    <3>1. kdf' = [KdfIdle EXCEPT !.at = at, !.saltlen = saltlen, !.count = count,
                                 !.dklen = dklen, !.buffer = buffer, !.outbuff = outbuff,
                                 !.dk = dk]
      BY <1>1, <1>4
    <3> HIDE DEF at, buffer, outbuff, dk
    <3> QED BY <3>1 DEF KdfIdle
  <2>2. Array(buffer, n) /\ Array(outbuff, PrfSize) /\ Array(dk, dklen)
    BY DEF Array, Fill
  <2> HIDE DEF buffer, outbuff, dk
  <2>3. at \in {"first", "returned"} /\ (at = "first" <=> dklen # 0)
    OBVIOUS
  <2> HIDE DEF at
  <2>4. /\ kdf'.at = at /\ kdf'.rc = 0 /\ kdf'.saltlen = saltlen /\ kdf'.count = count
        /\ kdf'.dklen = dklen /\ kdf'.i = 0 /\ kdf'.buffer = buffer
        /\ kdf'.outbuff = outbuff /\ kdf'.dk = dk /\ kdf'.j = 0 /\ KdfIsRecord'
    BY <2>1 DEF KdfIsRecord
  <2>5. Size' = n
    BY <2>4 DEF Size
  <2> HIDE DEF n
  <2>6. KdfTypes'
    BY <1>2, <2>2, <2>3, <2>4, <2>5 DEF KdfTypes
  <2>7. InRange'
    <3>1. L' \in Nat /\ R' \in 0..PrfSize - 1 /\ dklen = PrfSize * L' + R'
      BY <1>2, <2>4 DEF L, R
    <3>2. dklen # 0 => L' > 0 \/ R' > 0
      <4>1. CASE L' = 0
        <5>1. PrfSize * 0 = 0
          BY <1>2
        <5> QED BY <3>1, <4>1, <5>1
      <4>2. CASE L' # 0
        BY <3>1, <4>2
      <4> QED BY <4>1, <4>2
    <3>3. dklen # 0 => kdf'.i < L' \/ (kdf'.i = L' /\ R' > 0)
      BY <2>4, <3>1, <3>2
    <3> QED BY <2>3, <2>4, <3>3 DEF InRange, Working
  <2>8. KeySoFar'
    <3>1. 0 * PrfSize = 0
      BY <1>2
    <3>2. dklen = 0 \/ (at = "first" /\ \A k \in 1..dklen : ~(k <= 0))
      BY <1>2, <2>3
    <3> QED BY <1>2, <2>3, <2>4, <3>1, <3>2 DEF KeySoFar
  <2>9. BlockSoFar'
    BY <2>3, <2>4 DEF BlockSoFar
  <2> QED BY <2>6, <2>7, <2>8, <2>9 DEF KdfInv
<1> QED BY <1>3, <1>4
-----------------------------------------------------------------------------
(*                           The steps of the function                     *)

(* The next of a block's U's was xored into it. *)
TakesU(buffer, u, j) ==
    kdf' = [at |-> "next", saltlen |-> kdf.saltlen, count |-> kdf.count,
            dklen |-> kdf.dklen, i |-> kdf.i, j |-> j, buffer |-> buffer,
            outbuff |-> IF InPlace THEN kdf.outbuff ELSE u,
            dk |-> IF InPlace THEN Overwrite(kdf.dk, kdf.i * PrfSize, u) ELSE kdf.dk,
            rc |-> kdf.rc]

LEMMA UTaken ==
    ASSUME KdfInv, Working, NEW buffer, Array(buffer, Size), NEW u, Array(u, PrfSize),
           NEW j \in 2..kdf.count + 1, TakesU(buffer, u, j)
    PROVE  /\ KdfTypes' /\ InRange' /\ KeySoFar'
           /\ kdf'.at = "next" /\ kdf'.j = j /\ kdf'.buffer = buffer /\ Us' = Us
           /\ \A k \in 1..PrfSize : Got(k)' = u[k]
<1>1. /\ kdf'.at = "next" /\ kdf'.saltlen = kdf.saltlen /\ kdf'.count = kdf.count
      /\ kdf'.dklen = kdf.dklen /\ kdf'.i = kdf.i /\ kdf'.j = j
      /\ kdf'.buffer = buffer /\ kdf'.rc = kdf.rc
      /\ kdf'.outbuff = IF InPlace THEN kdf.outbuff ELSE u
      /\ kdf'.dk = IF InPlace THEN Overwrite(kdf.dk, kdf.i * PrfSize, u) ELSE kdf.dk
      /\ KdfIsRecord'
  BY DEF TakesU, KdfIsRecord
<1>2. KdfTypes /\ InRange /\ KeySoFar
  BY DEF KdfInv
<1>3. /\ kdf.rc = 0 /\ kdf.at # "idle" /\ Array(kdf.dk, kdf.dklen) /\ Array(kdf.outbuff, PrfSize)
      /\ kdf.dklen \in Nat /\ kdf.count \in 0..MaxCount /\ kdf.count # 0 /\ kdf.saltlen \in Nat
      /\ kdf.i \in Nat
  BY <1>2 DEF KdfTypes, InRange, Working
<1>4. PrfSize \in Nat \ {0} /\ MaxCount \in Nat
  BY PrfSizes
<1>5. /\ L \in Nat /\ R \in 0..PrfSize - 1 /\ kdf.dklen = L * PrfSize + R
      /\ L * PrfSize \in Nat /\ kdf.i * PrfSize \in Nat
      /\ InPlace => kdf.i * PrfSize + PrfSize <= L * PrfSize
  BY <1>2, Lengths
<1>6. /\ Array(Overwrite(kdf.dk, kdf.i * PrfSize, u), kdf.dklen)
      /\ \A k \in 1..kdf.dklen :
           Overwrite(kdf.dk, kdf.i * PrfSize, u)[k] =
             IF k \in kdf.i * PrfSize + 1..kdf.i * PrfSize + PrfSize
             THEN u[k - kdf.i * PrfSize] ELSE kdf.dk[k]
  <2> DEFINE start == kdf.i * PrfSize
             n == kdf.dklen
             a == kdf.dk
  <2>1. start \in Nat /\ n \in Nat /\ Array(a, n) /\ PrfSize \in Nat
    BY <1>3, <1>4, <1>5
  <2> HIDE DEF start, n, a
  <2>2. Array(Overwrite(a, start, u), n)
    BY <2>1, Overwritten
  <2>3. ASSUME NEW k \in 1..n
        PROVE  Overwrite(a, start, u)[k] =
                 IF k \in start + 1..start + PrfSize THEN u[k - start] ELSE a[k]
    BY <2>1, OverwrittenAt
  <2> QED BY <2>2, <2>3 DEF start, n, a
<1>7. Size' = Size /\ L' = L /\ R' = R /\ (InPlace' <=> InPlace) /\ Us' = Us
  BY <1>1 DEF Size, L, R, InPlace, Us
<1>8. Array(kdf'.dk, kdf.dklen) /\ Array(kdf'.outbuff, PrfSize)
  BY <1>1, <1>3, <1>6
<1>9. j \in Nat
  BY <1>3, <1>4
<1>10. KdfTypes'
  BY <1>1, <1>3, <1>7, <1>8, <1>9 DEF KdfTypes
<1>11. InRange'
  BY <1>1, <1>2, <1>7 DEF InRange, Working
<1>12. KeySoFar'
  <2>1. \A k : StandardByte(k)' = StandardByte(k)
    BY <1>1 DEF StandardByte
  <2>2. \A k \in 1..kdf.dklen : k <= kdf.i * PrfSize => kdf.dk[k] = StandardByte(k)
    BY <1>2, <1>3 DEF KeySoFar
  <2>3. \A k \in 1..kdf.dklen : k <= kdf.i * PrfSize => kdf'.dk[k] = kdf.dk[k]
    <3>1. \A k \in 1..kdf.dklen : k <= kdf.i * PrfSize =>
            ~(k \in kdf.i * PrfSize + 1..kdf.i * PrfSize + PrfSize)
      BY <1>5
    <3> QED BY <1>1, <1>6, <3>1
  <2> QED BY <1>1, <2>1, <2>2, <2>3 DEF KeySoFar
<1>13. ASSUME NEW k \in 1..PrfSize PROVE Got(k)' = u[k]
  <2>1. CASE InPlace
    <3> DEFINE l == kdf.i * PrfSize + k
    <3>1. /\ l \in 1..kdf.dklen /\ l \in kdf.i * PrfSize + 1..kdf.i * PrfSize + PrfSize
          /\ l - kdf.i * PrfSize = k
      BY <1>3, <1>4, <1>5, <2>1
    <3> HIDE DEF l
    <3>2. kdf'.dk[l] = u[k]
      BY <1>1, <1>6, <2>1, <3>1
    <3> QED BY <1>1, <1>7, <2>1, <3>2 DEF Got, l
  <2>2. CASE ~InPlace
    BY <1>1, <1>7, <2>2 DEF Got
  <2> QED BY <2>1, <2>2
<1> QED BY <1>1, <1>7, <1>10, <1>11, <1>12, <1>13

LEMMA UsIs ==
    ASSUME KdfTypes
    PROVE  /\ \A l \in 1..kdf.count :
                Us[l] = Prf(PrfText(Us, Seed(kdf.saltlen, kdf.i + 1), l))
           /\ \A l \in 1..kdf.count : Array(Us[l], PrfSize)
           /\ \A l, m \in 1..kdf.count : l < m =>
                \A k \in 1..PrfSize : Us[l][k] # Us[m][k]
<1> DEFINE seed == Seed(kdf.saltlen, kdf.i + 1)
<1>1. kdf.saltlen \in Nat /\ kdf.count \in Nat
  BY PrfSizes DEF KdfTypes
<1>2. IsChain(Us, seed, kdf.count)
  BY <1>1, ChainIsOne DEF Us
<1>3. \A l \in 1..kdf.count : Us[l] = Prf(PrfText(Us, seed, l))
  BY <1>1, <1>2, ChainIs
<1>4. \A l \in 1..kdf.count : Array(Us[l], PrfSize)
  BY <1>3, PrfIs
<1>5. \A l, m \in 1..kdf.count : l < m => \A k \in 1..PrfSize : Us[l][k] # Us[m][k]
  BY <1>1, <1>2, ChainDistinct
<1> QED BY <1>3, <1>4, <1>5

(* U_1 is put where the block goes. *)
LEMMA FirstStep == ASSUME KdfInv, F_First PROVE KdfInv'
<1> DEFINE seed == Seed(kdf.saltlen, kdf.i + 1)
           out == Prf(seed)
           buffer == Overwrite(Overwrite(kdf.buffer, 0, seed), 0, out)
           u == [k \in 1..PrfSize |-> {out[k]}]
<1>1. kdf.at = "first" /\ kdf' = [WithU(buffer, u) EXCEPT !.at = "next", !.j = 2]
  BY DEF F_First, BlockIndex, Seed
<1>2. KdfTypes /\ InRange
  BY DEF KdfInv
<1>3. /\ KdfIsRecord /\ kdf.rc = 0 /\ kdf.saltlen \in Nat /\ kdf.count \in Nat /\ kdf.count # 0
      /\ Array(kdf.buffer, Size)
  BY <1>1, <1>2, PrfSizes DEF KdfTypes, InRange, Working
<1>4. PrfSize \in Nat /\ Size \in Nat /\ PrfSize < Size
  BY <1>2, Lengths, PrfSizes
<1>5. Array(out, PrfSize) /\ Array(u, PrfSize) /\ Array(seed, kdf.saltlen + 1)
  BY <1>3, PrfIs, SeedIs DEF Array
<1> HIDE DEF out, seed
<1>6. /\ Array(buffer, Size) /\ \A k \in 1..PrfSize : buffer[k] = out[k]
  <2> DEFINE b == Overwrite(kdf.buffer, 0, seed)
  <2>1. 0 \in Nat /\ kdf.saltlen + 1 \in Nat
    BY <1>3
  <2>2. Array(b, Size)
    BY <1>3, <1>4, <1>5, <2>1, Overwritten
  <2> HIDE DEF b
  <2>3. Array(Overwrite(b, 0, out), Size)
    BY <1>4, <1>5, <2>1, <2>2, Overwritten
  <2>4. ASSUME NEW k \in 1..PrfSize PROVE Overwrite(b, 0, out)[k] = out[k]
    BY <1>4, <1>5, <2>2, FromTheStart
  <2> QED BY <2>3, <2>4 DEF b
<1> HIDE DEF buffer, u
<1>7. TakesU(buffer, u, 2)
  BY <1>1, <1>3 DEF KdfIsRecord, WithU, TakesU
<1>8. 2 \in 2..kdf.count + 1 /\ Working
  BY <1>1, <1>3 DEF Working
<1>9. /\ KdfTypes' /\ InRange' /\ KeySoFar' /\ kdf'.j = 2 /\ kdf'.buffer = buffer /\ Us' = Us
      /\ \A k \in 1..PrfSize : Got(k)' = u[k]
  BY <1>5, <1>6, <1>7, <1>8, UTaken
<1>10. Us[1] = out
  <2>1. 1 \in 1..kdf.count
    BY <1>3
  <2> QED BY <1>2, <2>1, UsIs DEF PrfText, out, seed
<1>11. BlockSoFar'
  <2>1. ASSUME NEW k \in 1..PrfSize
        PROVE  u[k] = {Us[l][k] : l \in 1..2 - 1} /\ buffer[k] = Us[2 - 1][k]
    <3>1. 1..2 - 1 = {1} /\ 2 - 1 = 1
      OBVIOUS
    <3>2. u[k] = {out[k]}
      BY DEF u
    <3> QED BY <1>6, <1>10, <3>1, <3>2
  <2> QED BY <1>9, <2>1 DEF BlockSoFar
<1> QED BY <1>9, <1>11 DEF KdfInv

(* U_j is computed of U_(j-1), still in the buffer, and xored in. *)
LEMMA NextStep == ASSUME KdfInv, F_Next PROVE KdfInv'
<1> DEFINE text == SubSeq(kdf.buffer, 1, PrfSize)
           out == Prf(text)
           buffer == Overwrite(kdf.buffer, 0, out)
           u == [k \in 1..PrfSize |-> Xor(U[k], {out[k]})]
           j == kdf.j
<1>1. kdf.at = "next" /\ j <= kdf.count /\ kdf' = [WithU(buffer, u) EXCEPT !.j = @ + 1]
  BY DEF F_Next
<1>2. KdfTypes /\ InRange /\ BlockSoFar
  BY DEF KdfInv
<1>3. /\ KdfIsRecord /\ kdf.rc = 0 /\ kdf.count \in Nat /\ kdf.dklen \in Nat /\ j \in Nat
      /\ Array(kdf.buffer, Size) /\ Array(kdf.dk, kdf.dklen) /\ j \in 2..kdf.count + 1
  BY <1>1, <1>2, PrfSizes DEF KdfTypes, InRange, Working
<1>4. /\ PrfSize \in Nat /\ Size \in Nat /\ PrfSize < Size
      /\ kdf.i * PrfSize \in Nat /\ kdf.dklen = L * PrfSize + R /\ R \in Nat /\ L * PrfSize \in Nat
      /\ InPlace => kdf.i * PrfSize + PrfSize <= L * PrfSize
  BY <1>2, Lengths, PrfSizes
<1>5. j - 1 \in 1..kdf.count /\ j \in 1..kdf.count /\ j # 1
  BY <1>1, <1>3
<1>6. text = Us[j - 1]
  <2>1. Array(text, PrfSize) /\ \A k \in 1..PrfSize : text[k] = kdf.buffer[k]
    <3> DEFINE a == kdf.buffer
    <3>1. Array(a, Size) /\ PrfSize <= Size
      BY <1>3, <1>4
    <3> HIDE DEF a
    <3>2. Array(SubSeq(a, 1, PrfSize), PrfSize)
      BY <1>4, <3>1, Prefix
    <3>3. ASSUME NEW k \in 1..PrfSize PROVE SubSeq(a, 1, PrfSize)[k] = a[k]
      BY <1>4, <3>1, Prefix
    <3> QED BY <3>2, <3>3 DEF a
  <2>2. Array(Us[j - 1], PrfSize)
    BY <1>2, <1>5, UsIs
  <2>3. \A k \in 1..PrfSize : text[k] = Us[j - 1][k]
    BY <1>1, <1>2, <2>1 DEF BlockSoFar
  <2> QED BY <1>4, <2>1, <2>2, <2>3, SameArray
<1>7. out = Us[j]
  BY <1>2, <1>5, <1>6, UsIs DEF PrfText
<1>8. Array(out, PrfSize) /\ Array(u, PrfSize)
  BY PrfIs DEF Array
<1>9. /\ Array(buffer, Size) /\ \A k \in 1..PrfSize : buffer[k] = out[k]
  <2> HIDE DEF out
  <2> DEFINE a == kdf.buffer
  <2>1. Array(a, Size) /\ 0 \in Nat
    BY <1>3
  <2> HIDE DEF a
  <2>2. Array(Overwrite(a, 0, out), Size)
    BY <1>4, <1>8, <2>1, Overwritten
  <2>3. ASSUME NEW k \in 1..PrfSize PROVE Overwrite(a, 0, out)[k] = out[k]
    BY <1>4, <1>8, <2>1, FromTheStart
  <2> QED BY <2>2, <2>3 DEF a
<1>10. \A k \in 1..PrfSize : u[k] = {Us[l][k] : l \in 1..j}
  <2> SUFFICES ASSUME NEW k \in 1..PrfSize PROVE u[k] = {Us[l][k] : l \in 1..j}
    OBVIOUS
  <2>1. U[k] = Got(k)
    <3>1. CASE InPlace
      <4>1. (kdf.i + 1) * PrfSize = kdf.i * PrfSize + PrfSize
        BY <1>2, <1>4 DEF KdfTypes
      <4>2. kdf.i * PrfSize + PrfSize \in Nat /\ kdf.i * PrfSize + PrfSize <= kdf.dklen
        BY <1>4, <3>1
      <4>3. k \in 1..(kdf.i * PrfSize + PrfSize) - kdf.i * PrfSize
        BY <1>4
      <4>4. SubSeq(kdf.dk, kdf.i * PrfSize + 1, kdf.i * PrfSize + PrfSize)[k]
              = kdf.dk[kdf.i * PrfSize + k]
        BY <1>3, <1>4, <4>2, <4>3, Slice
      <4> QED BY <3>1, <4>1, <4>4 DEF U, Got
    <3>2. CASE ~InPlace
      BY <3>2 DEF U, Got
    <3> QED BY <3>1, <3>2
  <2>2. Got(k) = {Us[l][k] : l \in 1..j - 1}
    BY <1>1, <1>2 DEF BlockSoFar
  <2>3. out[k] \notin {Us[l][k] : l \in 1..j - 1}
    <3>1. \A l \in 1..j - 1 : l \in 1..kdf.count /\ l < j
      BY <1>3, <1>5
    <3>2. \A l \in 1..j - 1 : Us[l][k] # Us[j][k]
      BY <1>2, <1>5, <3>1, UsIs
    <3> QED BY <1>7, <3>2
  <2>4. u[k] = {Us[l][k] : l \in 1..j - 1} \cup {Us[j][k]}
    <3>1. u[k] = Xor(U[k], {out[k]})
      OBVIOUS
    <3> HIDE DEF u, out
    <3> QED BY <1>7, <2>1, <2>2, <2>3, <3>1 DEF Xor
  <2>5. 1..j = (1..j - 1) \cup {j}
    BY <1>3
  <2> HIDE DEF u, out, j
  <2> QED BY <2>4, <2>5
<1> HIDE DEF buffer, u, out, text
<1>11. TakesU(buffer, u, j + 1)
  BY <1>1, <1>3 DEF KdfIsRecord, WithU, TakesU
<1>12. j + 1 \in 2..kdf.count + 1 /\ Working /\ (j + 1) - 1 = j
  BY <1>1, <1>3 DEF Working
<1>13. /\ KdfTypes' /\ InRange' /\ KeySoFar' /\ kdf'.j = j + 1 /\ kdf'.buffer = buffer /\ Us' = Us
       /\ \A k \in 1..PrfSize : Got(k)' = u[k]
  BY <1>8, <1>9, <1>11, <1>12, UTaken
<1>14. BlockSoFar'
  BY <1>7, <1>9, <1>10, <1>12, <1>13 DEF BlockSoFar
<1> QED BY <1>13, <1>14 DEF KdfInv

(* All of a block's U's were xored together: its bytes are standard ones. *)
LEMMA BlockIsDone ==
    ASSUME KdfInv, kdf.at = "next", kdf.j = kdf.count + 1,
           NEW k \in Nat, k > kdf.i * PrfSize, k <= kdf.i * PrfSize + PrfSize
    PROVE  /\ k - kdf.i * PrfSize \in 1..PrfSize
           /\ Got(k - kdf.i * PrfSize) = StandardByte(k)
<1>1. KdfTypes /\ BlockSoFar
  BY DEF KdfInv
<1>2. kdf.i \in Nat /\ kdf.count \in Nat
  BY <1>1, PrfSizes DEF KdfTypes
<1>3. /\ BlockOf(k) = kdf.i + 1 /\ ByteOf(k) = k - kdf.i * PrfSize
      /\ ByteOf(k) \in 1..PrfSize
  BY <1>2, Place
<1> DEFINE b == ByteOf(k)
<1>4. StandardByte(k) = {Us[l][b] : l \in 1..kdf.count}
  BY <1>3 DEF StandardByte, Us
<1>5. kdf.j - 1 = kdf.count
  BY <1>2
<1> HIDE DEF b
<1>6. Got(b) = {Us[l][b] : l \in 1..kdf.j - 1}
  <2>1. b \in 1..PrfSize
    BY <1>3 DEF b
  <2> QED BY <1>1, <2>1 DEF BlockSoFar
<1> QED BY <1>3, <1>4, <1>5, <1>6 DEF b

(* The block is complete; the bytes needed of an incomplete one are copied. *)
LEMMA ReturnStep == ASSUME KdfInv, F_Returns PROVE KdfInv'
<1>1. KdfTypes /\ InRange /\ KeySoFar
  BY DEF KdfInv
<1> DEFINE start == kdf.i * PrfSize
           dk == IF InPlace THEN kdf.dk
                 ELSE Overwrite(kdf.dk, L * PrfSize, SubSeq(kdf.outbuff, 1, R))
<1>2. kdf.at = "next" /\ kdf.j > kdf.count
  BY DEF F_Returns
<1>3. /\ KdfIsRecord /\ kdf.rc = 0 /\ kdf.at # "idle"
      /\ kdf.saltlen \in Nat /\ kdf.count \in 0..MaxCount /\ kdf.count \in Nat /\ kdf.count # 0
      /\ kdf.dklen \in Nat /\ kdf.i \in Nat /\ kdf.j \in Nat
      /\ Array(kdf.buffer, Size) /\ Array(kdf.outbuff, PrfSize) /\ Array(kdf.dk, kdf.dklen)
  BY <1>1, <1>2, PrfSizes DEF KdfTypes, InRange, Working
<1>4. kdf.j = kdf.count + 1
  BY <1>1, <1>2, <1>3 DEF InRange
<1>5. /\ kdf'.at = NextBlock(kdf.i + 1) /\ kdf'.saltlen = kdf.saltlen /\ kdf'.count = kdf.count
      /\ kdf'.dklen = kdf.dklen /\ kdf'.i = kdf.i + 1 /\ kdf'.j = 0
      /\ kdf'.buffer = kdf.buffer /\ kdf'.outbuff = kdf.outbuff /\ kdf'.dk = dk
      /\ kdf'.rc = kdf.rc /\ KdfIsRecord'
  <2>1. kdf' = [kdf EXCEPT !.at = NextBlock(kdf.i + 1), !.i = kdf.i + 1, !.j = 0, !.dk = dk]
    BY DEF F_Returns
  <2> HIDE DEF dk
  <2>2. kdf' = [at |-> NextBlock(kdf.i + 1), saltlen |-> kdf.saltlen, count |-> kdf.count,
                dklen |-> kdf.dklen, i |-> kdf.i + 1, j |-> 0, buffer |-> kdf.buffer,
                outbuff |-> kdf.outbuff, dk |-> dk, rc |-> kdf.rc]
    BY <1>3, <2>1 DEF KdfIsRecord
  <2> QED BY <2>2 DEF KdfIsRecord
<1>6. /\ L \in Nat /\ R \in 0..PrfSize - 1 /\ kdf.dklen = L * PrfSize + R
      /\ L * PrfSize \in Nat /\ start \in Nat /\ PrfSize \in Nat
      /\ InPlace => start + PrfSize <= L * PrfSize
      /\ ~InPlace => kdf.i = L /\ R > 0
  BY <1>1, <1>2, Lengths, PrfSizes DEF Working
<1>7. L' = L /\ R' = R /\ Size' = Size
  BY <1>5 DEF L, R, Size
<1>8. (kdf.i + 1) * PrfSize = start + PrfSize
  BY <1>3, <1>6
<1> DEFINE part == SubSeq(kdf.outbuff, 1, R)
<1>9. /\ Array(part, R) /\ \A k \in 1..R : part[k] = kdf.outbuff[k]
  <2> DEFINE a == kdf.outbuff
  <2>1. Array(a, PrfSize) /\ R \in Nat /\ R <= PrfSize
    BY <1>3, <1>6
  <2> HIDE DEF a
  <2>2. Array(SubSeq(a, 1, R), R)
    BY <1>6, <2>1, Prefix
  <2>3. ASSUME NEW k \in 1..R PROVE SubSeq(a, 1, R)[k] = a[k]
    BY <1>6, <2>1, Prefix
  <2> QED BY <2>2, <2>3 DEF a
<1> HIDE DEF part
<1>10. ASSUME ~InPlace
       PROVE  /\ Array(dk, kdf.dklen)
              /\ \A k \in 1..kdf.dklen :
                   dk[k] = IF k > start THEN kdf.outbuff[k - start] ELSE kdf.dk[k]
  <2> DEFINE a == kdf.dk
             n == kdf.dklen
  <2>1. /\ Array(a, n) /\ n \in Nat /\ R \in Nat /\ start \in Nat /\ n = start + R
        /\ dk = Overwrite(a, start, part)
    BY <1>3, <1>6, <1>10 DEF part
  <2> HIDE DEF a, n, dk, start
  <2>2. Array(Overwrite(a, start, part), n)
    BY <1>9, <2>1, Overwritten
  <2>3. ASSUME NEW k \in 1..n
        PROVE  Overwrite(a, start, part)[k] =
                 IF k > start THEN kdf.outbuff[k - start] ELSE kdf.dk[k]
    <3>1. Overwrite(a, start, part)[k] =
            IF k \in start + 1..start + R THEN part[k - start] ELSE a[k]
      BY <1>9, <2>1, OverwrittenAt
    <3>2. k > start => k \in start + 1..start + R /\ k - start \in 1..R
      BY <2>1
    <3>3. ~(k > start) => ~(k \in start + 1..start + R)
      BY <2>1
    <3>4. CASE k > start
      BY <1>9, <3>1, <3>2, <3>4
    <3>5. CASE ~(k > start)
      BY <3>1, <3>3, <3>5 DEF a
    <3> QED BY <3>4, <3>5
  <2> QED BY <2>1, <2>2, <2>3 DEF n
<1>11. /\ Array(dk, kdf.dklen)
       /\ \A k \in 1..kdf.dklen : ~(k > start) => dk[k] = kdf.dk[k]
       /\ \A k \in 1..kdf.dklen :
            k > start /\ k <= start + PrfSize => dk[k] = Got(k - start)
  <2>1. CASE InPlace
    <3>1. dk = kdf.dk
      BY <2>1
    <3>2. \A k \in 1..kdf.dklen : k > start => start + (k - start) = k
      BY <1>3, <1>6
    <3> HIDE DEF dk
    <3> QED BY <1>3, <2>1, <3>1, <3>2 DEF Got
  <2>2. CASE ~InPlace
    <3> HIDE DEF dk
    <3> QED BY <1>10, <2>2 DEF Got
  <2> QED BY <2>1, <2>2
<1> HIDE DEF dk
<1>12. kdf'.at \in {"first", "returned"}
  BY <1>5 DEF NextBlock
<1>13. KdfTypes'
  <2>1. kdf.i + 1 \in Nat /\ 0 \in Nat
    BY <1>3
  <2> QED BY <1>3, <1>5, <1>7, <1>11, <1>12, <2>1 DEF KdfTypes
<1>14. InRange'
  BY <1>3, <1>5, <1>7, <1>12 DEF InRange, Working, NextBlock
<1>15. kdf'.at = "returned" => kdf.dklen <= start + PrfSize
  <2> SUFFICES ASSUME kdf'.at = "returned" PROVE kdf.dklen <= start + PrfSize
    OBVIOUS
  <2>1. ~(kdf.i + 1 < L \/ (kdf.i + 1 = L /\ R > 0))
    BY <1>5 DEF NextBlock
  <2>2. CASE InPlace
    <3>1. kdf.i + 1 = L /\ R = 0
      BY <1>3, <1>6, <2>1, <2>2 DEF InPlace
    <3>2. kdf.dklen = start + PrfSize
      BY <1>6, <1>8, <3>1
    <3> QED BY <1>6, <3>2
  <2>3. CASE ~InPlace
    <3>1. kdf.dklen = start + R
      BY <1>6, <2>3
    <3> QED BY <1>6, <3>1
  <2> QED BY <2>2, <2>3
<1>16. KeySoFar'
  <2>1. \A k : StandardByte(k)' = StandardByte(k)
    BY <1>5 DEF StandardByte
  <2>2. ASSUME NEW k \in 1..kdf.dklen, kdf'.at = "returned" \/ k <= start + PrfSize
        PROVE  dk[k] = StandardByte(k)
    <3>1. k \in Nat /\ k <= start + PrfSize
      BY <1>3, <1>6, <1>15, <2>2
    <3>2. CASE k > start
      BY <1>2, <1>4, <1>11, <3>1, <3>2, BlockIsDone
    <3>3. CASE ~(k > start)
      <4>1. k <= start
        BY <1>6, <3>1, <3>3
      <4> QED BY <1>1, <1>3, <1>11, <3>3, <4>1 DEF KeySoFar
    <3> QED BY <3>2, <3>3
  <2> QED BY <1>5, <1>8, <2>1, <2>2 DEF KeySoFar
<1>17. BlockSoFar'
  BY <1>12 DEF BlockSoFar
<1> QED BY <1>13, <1>14, <1>16, <1>17 DEF KdfInv

LEMMA KdfStep == KdfInv /\ [DigestNext]_digestVars => KdfInv'
<1> SUFFICES ASSUME KdfInv, [DigestNext]_digestVars PROVE KdfInv'
  OBVIOUS
<1>1. ASSUME UNCHANGED kdf PROVE KdfInv'
  <2>1. KdfTypes' /\ InRange'
    BY <1>1 DEF KdfInv, KdfTypes, KdfIsRecord, Size, InRange, Working, L, R
  <2>2. KeySoFar' /\ BlockSoFar'
    <3>1. (\A k : StandardByte(k)' = StandardByte(k)) /\ (\A k : Got(k)' = Got(k)) /\ Us' = Us
      BY <1>1 DEF StandardByte, Got, InPlace, L, Us
    <3> QED BY <1>1, <3>1 DEF KdfInv, KeySoFar, BlockSoFar
  <2> QED BY <2>1, <2>2 DEF KdfInv
<1>2. CASE I2Sha1Init \/ I2HMACSha1Init \/ AppendData \/ I2Sha1Finish \/ I2HMACSha1Finish
  BY <1>1, <1>2 DEF I2Sha1Init, I2HMACSha1Init, AppendData, I2Sha1Finish, I2HMACSha1Finish
<1>3. CASE I2pbkdf2
  BY <1>3, KdfCalls
<1>4. CASE F_First
  BY <1>4, FirstStep
<1>5. CASE F_Next
  BY <1>5, NextStep
<1>6. CASE F_Returns
  BY <1>6, ReturnStep
<1>7. CASE UNCHANGED digestVars
  BY <1>1, <1>7 DEF digestVars
<1> QED BY <1>2, <1>3, <1>4, <1>5, <1>6, <1>7 DEF DigestNext
-----------------------------------------------------------------------------
(* A key that I2pbkdf2 returned (pbkdf2.c:208-301) is the one of RFC 2898:  *)
(* every byte of it is the xor of that byte of all U's of its block.        *)
THEOREM KeysAreStandard == DigestSpec => []DerivedKeyIsStandard
<1>1. DigestInit => KdfInv
  BY KdfInit
<1>2. KdfInv /\ [DigestNext]_digestVars => KdfInv'
  BY KdfStep
<1>3. KdfInv => DerivedKeyIsStandard
  BY DEF KdfInv, KeySoFar, DerivedKeyIsStandard
<1> QED BY <1>1, <1>2, <1>3, PTL DEF DigestSpec
-----------------------------------------------------------------------------
(*                           Counting bytes and bits                       *)

Word == 2^WordBits
Bytes == 2^(WordBits - 3)

LEMMA Sizes ==
    /\ BlockSize \in Nat /\ BlockSize > 2 /\ DigestSize \in 1..BlockSize
    /\ Bytes \in Nat /\ Word \in Nat /\ Word = 8 * Bytes /\ BlockSize < Bytes
    /\ Bytes % BlockSize = 0 /\ MaxMessage \in Nat
    /\ (\A len \in AppendSizes : len \in Nat) /\ \A len \in KeySizes : len \in Nat /\ len < Bytes
    /\ 8 * (BlockSize + MaxMessage) < Word * Word
<1>1. /\ BlockSize \in Nat /\ BlockSize > 2 /\ DigestSize \in 1..BlockSize
      /\ 2^(WordBits - 3) \in Nat /\ 2^WordBits = 8 * 2^(WordBits - 3)
      /\ 2^(WordBits - 3) % BlockSize = 0 /\ MaxMessage \in Nat
      /\ \A len \in KeySizes \cup {BlockSize} : len < 2^(WordBits - 3)
      /\ KeySizes \cup AppendSizes \cup SaltSizes \cup DKSizes \subseteq Nat
      /\ 8 * (BlockSize + MaxMessage) < 2^WordBits * 2^WordBits
  BY DigestAssumption
<1>2. Bytes \in Nat /\ Word = 8 * Bytes /\ Bytes % BlockSize = 0
      /\ (\A len \in KeySizes \cup {BlockSize} : len < Bytes)
      /\ 8 * (BlockSize + MaxMessage) < Word * Word
  BY <1>1 DEF Bytes, Word
<1>3. (\A len \in AppendSizes : len \in Nat) /\ \A len \in KeySizes : len \in Nat /\ len < Bytes
  BY <1>1, <1>2, Zenon
<1>4. Word \in Nat /\ BlockSize < Bytes
  BY <1>2
<1> QED BY <1>1, <1>2, <1>3, <1>4, Zenon

LEMMA Products ==
    ASSUME NEW a \in Nat, NEW b \in Nat, NEW c \in Nat
    PROVE  a * b \in Nat /\ a * b = b * a /\ (a * b) * c = a * (b * c)
           /\ (a + b) * c = a * c + b * c
  OBVIOUS

LEMMA DivMod ==
    ASSUME NEW x \in Nat, NEW P \in Nat \ {0}
    PROVE  /\ x \div P \in Nat /\ x % P \in 0..P - 1
           /\ (x \div P) * P \in Nat /\ x = (x \div P) * P + (x % P)
<1>1. x \div P \in Nat /\ x % P \in 0..P - 1 /\ x = P * (x \div P) + (x % P)
  OBVIOUS
<1>2. P * (x \div P) = (x \div P) * P /\ (x \div P) * P \in Nat
  BY <1>1, Products
<1> QED BY <1>1, <1>2

LEMMA ModMod ==
    ASSUME NEW n \in Nat, NEW P \in Nat \ {0}, NEW c \in Nat \ {0}
    PROVE  (n % (c * P)) % P = n % P
<1> DEFINE C == c * P
           s == n \div C
           t == n % C
           u == t \div P
           v == t % P
<1>1. C \in Nat \ {0}
  <2>1. c * P \in Nat /\ c * P # 0
    OBVIOUS
  <2> QED BY <2>1
<1> HIDE DEF C
<1>2. s \in Nat /\ t \in Nat /\ n = s * C + t
  BY <1>1, DivMod
<1> HIDE DEF s, t
<1>3. u \in Nat /\ v \in 0..P - 1 /\ t = u * P + v
  BY <1>2, DivMod
<1> HIDE DEF u, v
<1>4. s * C = (s * c) * P /\ s * c \in Nat
  BY <1>2, Products DEF C
<1>5. (s * c + u) * P = (s * c) * P + u * P /\ u * P \in Nat
  BY <1>3, <1>4, Products
<1> DEFINE sc == s * c
           q == sc + u
<1>6. q \in Nat /\ n = q * P + v
  BY <1>2, <1>3, <1>4, <1>5
<1> HIDE DEF q
<1>7. n % P = v
  BY <1>3, <1>6, Division
<1> QED BY <1>7 DEF v, t, C

LEMMA ModPlus ==
    ASSUME NEW x \in Nat, NEW y \in Nat, NEW P \in Nat \ {0}
    PROVE  ((x % P) + y) % P = (x + y) % P
<1> DEFINE s == x \div P
           t == x % P
           z == t + y
           u == z \div P
           v == z % P
<1>1. s \in Nat /\ t \in 0..P - 1 /\ x = s * P + t
  BY DivMod
<1> HIDE DEF s, t
<1>2. z \in Nat
  BY <1>1
<1>3. u \in Nat /\ v \in 0..P - 1 /\ z = u * P + v
  BY <1>2, DivMod
<1> HIDE DEF u, v
<1>4. (s + u) * P = s * P + u * P /\ s * P \in Nat /\ u * P \in Nat
  BY <1>1, <1>3, Products
<1> DEFINE q == s + u
<1>5. q \in Nat /\ x + y = q * P + v
  BY <1>1, <1>3, <1>4
<1> HIDE DEF q
<1>6. (x + y) % P = v
  BY <1>3, <1>5, Division
<1> QED BY <1>6 DEF v, t

(* The two words of the count, when n bytes were appended. *)
CountOf(n) == <<(8 * n) % Word, ((8 * n) \div Word) % Word>>

LEMMA Octets ==
    ASSUME NEW n \in Nat
    PROVE  (8 * n) % Word = 8 * (n % Bytes) /\ (8 * n) \div Word = n \div Bytes
           /\ n \div Bytes \in Nat /\ n % Bytes \in 0..Bytes - 1
<1>1. Bytes \in Nat \ {0} /\ Word \in Nat \ {0} /\ Word = 8 * Bytes
  BY Sizes
<1> DEFINE s == n \div Bytes
           t == n % Bytes
<1>2. s \in Nat /\ t \in 0..Bytes - 1 /\ n = s * Bytes + t
  BY <1>1, DivMod
<1> HIDE DEF s, t
<1>3. 8 * n = s * Word + 8 * t
  <2>1. s * Word = 8 * (s * Bytes) /\ s * Bytes \in Nat
    BY <1>1, <1>2
  <2> QED BY <1>2, <2>1
<1> DEFINE e == 8 * t
<1>4. e \in 0..Word - 1
  BY <1>1, <1>2
<1> HIDE DEF e
<1>5. (s * Word + e) % Word = e /\ (s * Word + e) \div Word = s
  BY <1>1, <1>2, <1>4, Division
<1> QED BY <1>2, <1>3, <1>5 DEF e, s, t

(* Where the next byte goes. *)
LEMMA Offset ==
    ASSUME NEW n \in Nat
    PROVE  (CountOf(n)[1] \div 8) % BlockSize = n % BlockSize
           /\ CountOf(n)[1] \div 8 = n % Bytes
<1>1. CountOf(n)[1] = 8 * (n % Bytes) /\ n % Bytes \in Nat
  BY Octets DEF CountOf
<1>2. CountOf(n)[1] \div 8 = n % Bytes
  BY <1>1
<1>3. Bytes \in Nat /\ BlockSize \in Nat \ {0} /\ BlockSize < Bytes /\ Bytes % BlockSize = 0
  BY Sizes
<1> DEFINE c == Bytes \div BlockSize
<1>4. c \in Nat /\ Bytes = c * BlockSize
  BY <1>3, DivMod
<1>5. c # 0
  <2>1. c = 0 => c * BlockSize = 0
    BY <1>3
  <2> QED BY <1>3, <1>4, <2>1
<1> HIDE DEF c
<1>6. (n % (c * BlockSize)) % BlockSize = n % BlockSize
  <2>1. c \in Nat \ {0} /\ BlockSize \in Nat \ {0}
    BY <1>3, <1>4, <1>5
  <2> QED BY <2>1, ModMod
<1> QED BY <1>2, <1>4, <1>6

(* Of an append, its rest by what a word counts matters for the carry. *)
LEMMA LenParts ==
    ASSUME NEW c \in Nat, NEW len \in Nat
    PROVE  /\ c % Bytes \in 0..Bytes - 1 /\ len % Bytes \in 0..Bytes - 1
           /\ len \div Bytes \in Nat /\ (len \div Bytes) * Bytes \in Nat
           /\ len = (len \div Bytes) * Bytes + (len % Bytes)
           /\ len < Bytes => len % Bytes = len
           /\ Reckoned(c, len) = IF (c % Bytes) + (len % Bytes) < Bytes
                                 THEN c + (len % Bytes) ELSE c + len
<1>1. Bytes \in Nat \ {0}
  BY Sizes
<1>2. /\ c % Bytes \in 0..Bytes - 1 /\ len % Bytes \in 0..Bytes - 1
      /\ len \div Bytes \in Nat /\ (len \div Bytes) * Bytes \in Nat
      /\ len = (len \div Bytes) * Bytes + (len % Bytes)
  BY <1>1, DivMod
<1>3. len < Bytes => len % Bytes = len
  BY <1>1
<1>4. Reckoned(c, len) = IF (c % Bytes) + (len % Bytes) < Bytes
                         THEN c + (len % Bytes) ELSE c + len
  BY Zenon DEF Reckoned, Bytes
<1> QED BY <1>2, <1>3, <1>4

(* The carry is the one of the addition of what the append is reckoned as. *)
LEMMA CountedIs ==
    ASSUME NEW c \in Nat, NEW len \in Nat
    PROVE  Counted(CountOf(c), len) = CountOf(Reckoned(c, len))
<1>1. Bytes \in Nat \ {0} /\ Word \in Nat \ {0} /\ Word = 8 * Bytes
  BY Sizes
<1> DEFINE s == (8 * c) \div Word
           t == (8 * c) % Word
           p == len \div Bytes
           l == len % Bytes
           e == 8 * l
           low == (t + 8 * len) % Word
<1>2. s \in Nat /\ t \in 0..Word - 1 /\ 8 * c = s * Word + t /\ s * Word \in Nat
  <2> DEFINE x == 8 * c
  <2>1. x \in Nat
    OBVIOUS
  <2> HIDE DEF x
  <2>2. /\ x \div Word \in Nat /\ x % Word \in 0..Word - 1 /\ (x \div Word) * Word \in Nat
        /\ x = (x \div Word) * Word + (x % Word)
    BY <1>1, <2>1, DivMod
  <2> QED BY <2>2 DEF x
<1>3. t = 8 * (c % Bytes) /\ c % Bytes \in 0..Bytes - 1
  BY Octets
<1>4. /\ p \in Nat /\ l \in 0..Bytes - 1 /\ p * Bytes \in Nat /\ len = p * Bytes + l
      /\ Reckoned(c, len) = IF (c % Bytes) + l < Bytes THEN c + l ELSE c + len
  BY LenParts
<1>5. Counted(CountOf(c), len) =
        <<low, IF low < t THEN ((s % Word) + p + 1) % Word ELSE s % Word>>
  BY DEF Counted, CountOf, Word, Bytes, low, t, s, p
<1> HIDE DEF s, t, p, l
<1>6. /\ p * Word = 8 * (p * Bytes) /\ p * Word \in Nat /\ 8 * len = p * Word + e
      /\ e \in 0..Word - 1
      /\ (c % Bytes) + l < Bytes <=> t + e < Word
  <2>1. p * Word = 8 * (p * Bytes)
    BY <1>1, <1>4, Products
  <2> DEFINE pB == p * Bytes
  <2>2. pB \in Nat /\ len = pB + l
    BY <1>4
  <2> HIDE DEF pB
  <2>3. 8 * pB \in Nat /\ 8 * len = 8 * pB + e /\ e \in 0..Word - 1
    BY <1>1, <1>4, <2>2
  <2>4. (c % Bytes) + l < Bytes <=> t + e < Word
    BY <1>1, <1>3, <1>4
  <2> QED BY <2>1, <2>3, <2>4 DEF pB
<1> HIDE DEF e
<1> DEFINE pW == p * Word
           sW == s * Word
<1>7. CASE t + e < Word
  <2> DEFINE r == t + e
             n == c + l
  <2>1. n \in Nat /\ Reckoned(c, len) = n /\ r \in 0..Word - 1 /\ ~(r < t)
    BY <1>1, <1>2, <1>4, <1>6, <1>7
  <2>2. t + 8 * len = pW + r /\ 8 * n = sW + r
    <3>1. pW \in Nat /\ sW \in Nat
      BY <1>2, <1>6
    <3> HIDE DEF pW, sW
    <3> QED BY <1>2, <1>4, <1>6, <3>1 DEF pW, sW, e
  <2> HIDE DEF r, n
  <2>3. low = r
    <3>1. Word \in Nat \ {0} /\ p \in Nat /\ r \in 0..Word - 1
      BY <1>1, <1>4, <2>1
    <3>2. (p * Word + r) % Word = r
      BY <3>1, Division
    <3> QED BY <2>2, <3>2
  <2>4. (8 * n) \div Word = s /\ (8 * n) % Word = r
    <3>1. Word \in Nat \ {0} /\ s \in Nat /\ r \in 0..Word - 1
      BY <1>1, <1>2, <2>1
    <3>2. (s * Word + r) \div Word = s /\ (s * Word + r) % Word = r
      BY <3>1, Division
    <3> QED BY <2>2, <3>2
  <2>5. Counted(CountOf(c), len) = <<r, s % Word>>
    BY <1>5, <2>1, <2>3
  <2> QED BY <2>1, <2>4, <2>5 DEF CountOf
<1>8. CASE ~(t + e < Word)
  <2> DEFINE r == t + e - Word
             n == c + len
             p1 == p + 1
             q == s + p1
  <2>1. n \in Nat /\ Reckoned(c, len) = n /\ r \in 0..Word - 1 /\ r < t
    BY <1>1, <1>2, <1>4, <1>6, <1>8
  <2>2. p1 \in Nat /\ q \in Nat /\ p1 * Word = pW + Word /\ q * Word = sW + p1 * Word
    <3>1. p1 \in Nat /\ q \in Nat /\ 1 \in Nat /\ 1 * Word = Word
      BY <1>1, <1>2, <1>4
    <3>2. p1 * Word = p * Word + 1 * Word
      BY <1>1, <1>4, <3>1, Products
    <3> HIDE DEF p1
    <3>3. q * Word = s * Word + p1 * Word
      BY <1>1, <1>2, <3>1, Products
    <3> QED BY <3>1, <3>2, <3>3
  <2>3. t + 8 * len = p1 * Word + r /\ 8 * n = q * Word + r
    <3>1. pW \in Nat /\ sW \in Nat /\ p1 * Word = pW + Word /\ q * Word = sW + (pW + Word)
      BY <1>2, <1>6, <2>2
    <3>2. 8 * len = pW + e /\ 8 * c = sW + t
      BY <1>2, <1>6
    <3> HIDE DEF pW, sW, p1, q
    <3> QED BY <1>1, <1>2, <1>6, <3>1, <3>2
  <2> HIDE DEF r, n
  <2>4. low = r
    <3> HIDE DEF p1, q
    <3>1. Word \in Nat \ {0} /\ p1 \in Nat /\ r \in 0..Word - 1
      BY <1>1, <2>1, <2>2
    <3>2. (p1 * Word + r) % Word = r
      BY <3>1, Division
    <3> QED BY <2>3, <3>2
  <2>5. (8 * n) \div Word = q /\ (8 * n) % Word = r
    <3> HIDE DEF p1, q
    <3>1. Word \in Nat \ {0} /\ q \in Nat /\ r \in 0..Word - 1
      BY <1>1, <2>1, <2>2
    <3>2. (q * Word + r) \div Word = q /\ (q * Word + r) % Word = r
      BY <3>1, Division
    <3> QED BY <2>3, <3>2
  <2>6. Counted(CountOf(c), len) = <<r, ((s % Word) + p + 1) % Word>>
    BY <1>5, <2>1, <2>4
  <2>7. ((s % Word) + p + 1) % Word = q % Word
    <3>1. ((s % Word) + p1) % Word = (s + p1) % Word
      <4> HIDE DEF p1
      <4>1. Word \in Nat \ {0} /\ s \in Nat /\ p1 \in Nat
        BY <1>1, <1>2, <2>2
      <4> QED BY <4>1, ModPlus
    <3>2. (s % Word) + p + 1 = (s % Word) + p1
      <4>1. s % Word \in Nat
        BY <1>1, <1>2
      <4> QED BY <1>4, <4>1
    <3> QED BY <3>1, <3>2
  <2> QED BY <2>1, <2>5, <2>6, <2>7 DEF CountOf
<1> QED BY <1>7, <1>8

(* A short append is reckoned as what it is; a long one moves the place in  *)
(* the buffer as if it were.                                                *)
LEMMA ReckonedIs ==
    ASSUME NEW c \in Nat, NEW n \in Nat, c % BlockSize = n % BlockSize, NEW len \in Nat
    PROVE  /\ Reckoned(c, len) \in Nat /\ Reckoned(c, len) <= c + len
           /\ Reckoned(c, len) % BlockSize = (n + len) % BlockSize
           /\ len < Bytes => Reckoned(c, len) = c + len
<1>1. Bytes \in Nat /\ BlockSize \in Nat \ {0} /\ Bytes % BlockSize = 0
  BY Sizes
<1> DEFINE p == len \div Bytes
           l == len % Bytes
           pB == p * Bytes
<1>2. /\ p \in Nat /\ l \in Nat /\ pB \in Nat /\ len = pB + l
      /\ len < Bytes => l = len
      /\ Reckoned(c, len) = c + l \/ Reckoned(c, len) = c + len
  <2>1. /\ l \in 0..Bytes - 1 /\ p \in Nat /\ pB \in Nat /\ len = pB + l
        /\ len < Bytes => l = len
        /\ Reckoned(c, len) = IF (c % Bytes) + l < Bytes THEN c + l ELSE c + len
    BY LenParts
  <2> HIDE DEF l, p, pB
  <2> QED BY <1>1, <2>1
<1>3. pB % BlockSize = 0
  <2> DEFINE b == Bytes \div BlockSize
             k == p * b
  <2>1. b \in Nat /\ Bytes = b * BlockSize
    BY <1>1, DivMod
  <2> HIDE DEF b, p
  <2>2. k \in Nat /\ k * BlockSize = p * (b * BlockSize)
    <3>1. p \in Nat /\ b \in Nat /\ BlockSize \in Nat
      BY <1>1, <1>2, <2>1
    <3> QED BY <3>1, Products
  <2>3. pB = k * BlockSize + 0 /\ 0 \in 0..BlockSize - 1
    BY <1>1, <1>2, <2>1, <2>2
  <2> HIDE DEF k, pB
  <2> QED BY <1>1, <2>2, <2>3, Division
<1> HIDE DEF p, l, pB
<1>4. \A x \in Nat : (c + x) % BlockSize = (n + x) % BlockSize
  <2> TAKE x \in Nat
  <2>1. ((c % BlockSize) + x) % BlockSize = (c + x) % BlockSize
    BY <1>1, ModPlus
  <2>2. ((n % BlockSize) + x) % BlockSize = (n + x) % BlockSize
    BY <1>1, ModPlus
  <2> QED BY <2>1, <2>2
<1>5. (n + l) % BlockSize = (n + len) % BlockSize
  <2> DEFINE nl == n + l
  <2>1. nl \in Nat /\ pB + nl = n + len
    BY <1>2
  <2> HIDE DEF nl
  <2>2. ((pB % BlockSize) + nl) % BlockSize = (pB + nl) % BlockSize
    <3>1. BlockSize \in Nat \ {0} /\ pB \in Nat /\ nl \in Nat
      BY <1>1, <1>2, <2>1
    <3> QED BY <3>1, ModPlus
  <2>3. (pB % BlockSize) + nl = nl
    BY <1>3, <2>1
  <2> QED BY <2>1, <2>2, <2>3 DEF nl
<1>6. Reckoned(c, len) % BlockSize = (n + len) % BlockSize
  BY <1>2, <1>4, <1>5
<1> QED BY <1>2, <1>6
-----------------------------------------------------------------------------
(*                       What a context stands for                         *)

(* u is s, of n elements, and behind it t, of m. *)
Joined(u, s, n, t, m) ==
    /\ Array(u, n + m)
    /\ \A k \in 1..n : u[k] = s[k]
    /\ \A k \in 1..m : u[n + k] = t[k]

LEMMA Joins ==
    ASSUME NEW n \in Nat, NEW s, Array(s, n), NEW m \in Nat, NEW t, Array(t, m)
    PROVE  Joined(s \o t, s, n, t, m)
<1> DEFINE T == {s[k] : k \in 1..n} \cup {t[k] : k \in 1..m}
           u == s \o t
<1>1. s \in Seq({s[k] : k \in 1..n}) /\ Len(s) = n /\ t \in Seq({t[k] : k \in 1..m}) /\ Len(t) = m
  BY ArrayIsSeq
<1>2. s \in Seq(T) /\ t \in Seq(T)
  BY <1>1
<1> HIDE DEF T
<1>3. u \in Seq(T) /\ Len(u) = n + m
      /\ \A l \in 1..n + m : u[l] = IF l <= n THEN s[l] ELSE t[l - n]
  BY <1>1, <1>2, ConcatProperties
<1> HIDE DEF u
<1>4. u = [k \in 1..n + m |-> u[k]]
  BY <1>3, LenProperties
<1>5. ASSUME NEW k \in 1..n PROVE u[k] = s[k]
  <2>1. k \in 1..n + m /\ k <= n
    OBVIOUS
  <2> QED BY <1>3, <2>1
<1>6. ASSUME NEW k \in 1..m PROVE u[n + k] = t[k]
  <2> DEFINE l == n + k
  <2>1. l \in 1..n + m /\ ~(l <= n) /\ l - n = k
    OBVIOUS
  <2> HIDE DEF l
  <2>2. u[l] = t[k]
    BY <1>3, <2>1
  <2> QED BY <2>2 DEF l
<1>7. Joined(u, s, n, t, m)
  BY <1>4, <1>5, <1>6 DEF Joined, Array
<1> QED BY <1>7 DEF u

LEMMA JoinedOnce ==
    ASSUME NEW n \in Nat, NEW m \in Nat, NEW s, NEW t, NEW u, NEW v,
           Joined(u, s, n, t, m), Joined(v, s, n, t, m)
    PROVE  u = v
<1>1. Array(u, n + m) /\ Array(v, n + m) /\ n + m \in Nat
  BY DEF Joined
<1>2. ASSUME NEW k \in 1..n + m PROVE u[k] = v[k]
  <2>1. CASE k <= n
    <3>1. k \in 1..n
      BY <2>1
    <3> QED BY <3>1 DEF Joined
  <2>2. CASE ~(k <= n)
    <3>1. k - n \in 1..m /\ n + (k - n) = k
      BY <2>2
    <3>2. u[n + (k - n)] = v[n + (k - n)]
      BY <3>1 DEF Joined
    <3> QED BY <3>1, <3>2
  <2> QED BY <2>1, <2>2
<1> QED BY <1>1, <1>2, SameArray

(* Data copied into an array: the bytes that are its, and the others. *)
LEMMA OverwrittenIn ==
    ASSUME NEW n \in Nat, NEW a, Array(a, n), NEW m \in Nat, NEW d, Array(d, m), NEW j \in Nat,
           NEW k \in 1..n, j < k, k <= j + m
    PROVE  Overwrite(a, j, d)[k] = d[k - j]
<1>1. Overwrite(a, j, d)[k] = IF k \in j + 1..j + m THEN d[k - j] ELSE a[k]
  BY OverwrittenAt
<1>2. k \in j + 1..j + m
  OBVIOUS
<1> QED BY <1>1, <1>2

LEMMA OverwrittenOut ==
    ASSUME NEW n \in Nat, NEW a, Array(a, n), NEW m \in Nat, NEW d, Array(d, m), NEW j \in Nat,
           NEW k \in 1..n, k <= j
    PROVE  Overwrite(a, j, d)[k] = a[k]
<1>1. Overwrite(a, j, d)[k] = IF k \in j + 1..j + m THEN d[k - j] ELSE a[k]
  BY OverwrittenAt
<1>2. ~(k \in j + 1..j + m)
  OBVIOUS
<1> QED BY <1>1, <1>2

(* s is the l elements of m that follow a of them. *)
IsPart(s, m, a, l) == Array(s, l) /\ \A x \in 1..l : s[x] = m[a + x]

LEMMA PartIs ==
    ASSUME NEW n \in Nat, NEW m, Array(m, n), NEW a \in Nat, NEW e \in Nat, NEW l \in Nat,
           e = a + l, e <= n
    PROVE  IsPart(SubSeq(m, a + 1, e), m, a, l)
<1>1. a <= e /\ e - a = l
  OBVIOUS
<1>2. /\ Array(SubSeq(m, a + 1, e), e - a)
      /\ \A k \in 1..e - a : SubSeq(m, a + 1, e)[k] = m[a + k]
  BY <1>1, Slice
<1> QED BY <1>1, <1>2 DEF IsPart

LEMMA PartInside ==
    ASSUME NEW s, NEW m, NEW md, NEW a \in Nat, NEW c \in Nat, NEW l \in Nat,
           IsPart(s, m, a, l), \A x \in 1..l : m[a + x] = md[c + x]
    PROVE  IsPart(s, md, c, l)
BY DEF IsPart

(* The blocks of a message. *)
IsBlocks(s, m, b) ==
    /\ Array(s, b)
    /\ \A k \in 1..b : IsPart(s[k], m, (k - 1) * BlockSize, BlockSize)

LEMMA BlockPlace ==
    ASSUME NEW b \in Nat, NEW k \in 1..b
    PROVE  /\ (k - 1) * BlockSize \in Nat
           /\ k * BlockSize = (k - 1) * BlockSize + BlockSize
           /\ k * BlockSize <= b * BlockSize
<1> DEFINE l == k - 1
<1>1. l \in Nat /\ l + 1 = k /\ BlockSize \in Nat /\ l < b
  BY Sizes
<1> HIDE DEF l
<1>2. (l + 1) * BlockSize = l * BlockSize + BlockSize /\ l * BlockSize \in Nat
  BY <1>1
<1>3. l * BlockSize + BlockSize <= b * BlockSize
  BY <1>1, Multiples
<1> QED BY <1>1, <1>2, <1>3 DEF l

LEMMA BlocksInside ==
    ASSUME NEW s, NEW m, NEW md, NEW b \in Nat, NEW n \in Nat, b * BlockSize <= n,
           IsBlocks(s, m, b), \A x \in 1..n : m[x] = md[x]
    PROVE  IsBlocks(s, md, b)
<1>1. BlockSize \in Nat /\ b * BlockSize \in Nat
  BY Sizes, Multiples
<1>2. ASSUME NEW k \in 1..b PROVE IsPart(s[k], md, (k - 1) * BlockSize, BlockSize)
  <2> DEFINE a == (k - 1) * BlockSize
  <2>1. a \in Nat /\ a + BlockSize <= n
    BY <1>1, BlockPlace
  <2>2. IsPart(s[k], m, a, BlockSize)
    BY DEF IsBlocks
  <2> HIDE DEF a
  <2>3. \A x \in 1..BlockSize : m[a + x] = md[a + x]
    <3>1. \A x \in 1..BlockSize : a + x \in 1..n
      BY <1>1, <2>1
    <3> QED BY <3>1
  <2>4. IsPart(s[k], md, a, BlockSize)
    BY <1>1, <2>1, <2>2, <2>3, PartInside
  <2> QED BY <2>4 DEF a
<1> QED BY <1>2 DEF IsBlocks

(* A context stands for the message that was appended to it. *)
Represents(ctx, m, n, c) ==
    /\ IsBlocks(ctx.state, m, n \div BlockSize)
    /\ ctx.count = CountOf(c) /\ c \in Nat /\ c % BlockSize = n % BlockSize
    /\ \A x \in 1..n % BlockSize : ctx.buffer[x] = m[(n \div BlockSize) * BlockSize + x]
    /\ Array(ctx.buffer, BlockSize)
-----------------------------------------------------------------------------
(*                             I2Sha1Append                                *)

Follow(data, i, whole) ==
    [k \in 1..whole |-> SubSeq(data, i + (k - 1) * BlockSize + 1, i + k * BlockSize)]

(* What Appended makes of a context, for any values of its variables. *)
AppendedAt(ctx, data, len, j, i, whole) ==
    LET first == IF i = 0 THEN <<>> ELSE <<Overwrite(ctx.buffer, j, SubSeq(data, 1, i))>>
    IN [state |-> ctx.state \o (first \o Follow(data, i, whole)),
        count |-> Counted(ctx.count, len),
        buffer |-> Overwrite(IF first = <<>> THEN ctx.buffer ELSE first[1],
                             IF i = 0 THEN j ELSE 0,
                             SubSeq(data, i + whole * BlockSize + 1, len))]

LEMMA AppendedIs ==
    ASSUME NEW ctx, NEW data, NEW n \in Nat, NEW c \in Nat, c % BlockSize = n % BlockSize,
           ctx.count = CountOf(c),
           NEW len \in Nat \ {0}, Len(data) = len,
           NEW i, i = IF Fills(n % BlockSize, len) THEN BlockSize - (n % BlockSize) ELSE 0,
           NEW whole, whole = IF i = 0 THEN 0 ELSE (len - i) \div BlockSize
    PROVE  Appended(ctx, data) = AppendedAt(ctx, data, len, n % BlockSize, i, whole)
<1> DEFINE j == (ctx.count[1] \div 8) % BlockSize
           fill == IF Fills(j, len) THEN BlockSize - j ELSE 0
           blocks == IF fill = 0 THEN 0 ELSE (len - fill) \div BlockSize
<1>1. Appended(ctx, data) = AppendedAt(ctx, data, len, j, fill, blocks)
  BY DEF Appended, AppendedAt, Follow, Transformed
<1>2. j = n % BlockSize
  BY Offset
<1> HIDE DEF j
<1>3. fill = i
  BY <1>2
<1> HIDE DEF fill
<1>4. blocks = whole
  BY <1>3
<1> HIDE DEF blocks
<1> QED BY <1>1, <1>2, <1>3, <1>4

LEMMA AppendedInside ==
    ASSUME NEW ctx, NEW data, NEW len, NEW j, NEW whole
    PROVE  /\ AppendedAt(ctx, data, len, j, 0, whole).state
                = ctx.state \o (<<>> \o Follow(data, 0, whole))
           /\ AppendedAt(ctx, data, len, j, 0, whole).count = Counted(ctx.count, len)
           /\ AppendedAt(ctx, data, len, j, 0, whole).buffer =
                Overwrite(ctx.buffer, j, SubSeq(data, 0 + whole * BlockSize + 1, len))
<1> DEFINE rest == SubSeq(data, 0 + whole * BlockSize + 1, len)
           follow == Follow(data, 0, whole)
<1>1. AppendedAt(ctx, data, len, j, 0, whole) =
        [state |-> ctx.state \o (<<>> \o follow), count |-> Counted(ctx.count, len),
         buffer |-> Overwrite(ctx.buffer, j, rest)]
  <2> HIDE DEF rest, follow
  <2> QED BY DEF AppendedAt, rest, follow
<1> HIDE DEF rest, follow
<1>2. /\ AppendedAt(ctx, data, len, j, 0, whole).state = ctx.state \o (<<>> \o follow)
      /\ AppendedAt(ctx, data, len, j, 0, whole).count = Counted(ctx.count, len)
      /\ AppendedAt(ctx, data, len, j, 0, whole).buffer = Overwrite(ctx.buffer, j, rest)
  BY <1>1
<1> QED BY <1>2 DEF rest, follow

(* A context after the buffer was filled and what filled it was compressed. *)
IsAcross(app, ctx, data, len, i, whole, full) ==
    /\ app.state = ctx.state \o (<<full>> \o Follow(data, i, whole))
    /\ app.count = Counted(ctx.count, len)
    /\ app.buffer = Overwrite(full, 0, SubSeq(data, i + whole * BlockSize + 1, len))

LEMMA AppendedAcross ==
    ASSUME NEW ctx, NEW data, NEW len, NEW j, NEW i, i # 0, NEW whole,
           NEW full, full = Overwrite(ctx.buffer, j, SubSeq(data, 1, i))
    PROVE  IsAcross(AppendedAt(ctx, data, len, j, i, whole), ctx, data, len, i, whole, full)
<1> DEFINE rest == SubSeq(data, i + whole * BlockSize + 1, len)
           follow == Follow(data, i, whole)
           buffer == Overwrite(full, 0, rest)
           appended == AppendedAt(ctx, data, len, j, i, whole)
<1>1. AppendedAt(ctx, data, len, j, i, whole) =
        [state |-> ctx.state \o (<<full>> \o follow), count |-> Counted(ctx.count, len),
         buffer |-> Overwrite(full, 0, rest)]
  <2>1. <<full>> # <<>> /\ <<full>>[1] = full
    OBVIOUS
  <2> QED BY <2>1 DEF AppendedAt
<1> HIDE DEF appended, buffer
<1>2. appended = [state |-> ctx.state \o (<<full>> \o follow), count |-> Counted(ctx.count, len),
                  buffer |-> buffer]
  BY <1>1 DEF appended, buffer
<1> HIDE DEF rest, follow
<1>3. /\ appended.state = ctx.state \o (<<full>> \o follow)
      /\ appended.count = Counted(ctx.count, len)
      /\ appended.buffer = buffer
  BY <1>2
<1> QED BY <1>3, Zenon DEF rest, follow, appended, buffer, IsAcross

(* Where byte n of a message goes. *)
LEMMA BlockAndPlace ==
    ASSUME NEW n \in Nat
    PROVE  /\ n \div BlockSize \in Nat /\ n % BlockSize \in 0..BlockSize - 1
           /\ (n \div BlockSize) * BlockSize \in Nat
           /\ n = (n \div BlockSize) * BlockSize + (n % BlockSize)
<1>1. BlockSize \in Nat \ {0}
  BY Sizes
<1> QED BY <1>1, DivMod

LEMMA InBlock ==
    ASSUME NEW n \in Nat, NEW q \in Nat, NEW r \in 0..BlockSize - 1, n = q * BlockSize + r
    PROVE  n \div BlockSize = q /\ n % BlockSize = r
<1>1. BlockSize \in Nat \ {0}
  BY Sizes
<1> QED BY <1>1, Division

LEMMA NothingAppended ==
    ASSUME NEW ctx, NEW m, NEW n \in Nat, NEW c, Array(m, n), Represents(ctx, m, n, c),
           NEW data, Array(data, 0), NEW md, Joined(md, m, n, data, 0)
    PROVE  Represents(Appended(ctx, data), md, n + 0, c)
<1>1. Len(data) = 0 /\ n + 0 = n
  <2> DEFINE len == 0
  <2>1. len \in Nat
    OBVIOUS
  <2> HIDE DEF len
  <2>2. ASSUME Array(data, len) PROVE Len(data) = len
    BY <2>1, <2>2, ArrayIsSeq
  <2>3. n + len = n
    BY DEF len
  <2> QED BY <2>2, <2>3 DEF len
<1>2. Appended(ctx, data) = ctx
  BY <1>1 DEF Appended
<1>3. Array(md, n) /\ \A k \in 1..n : md[k] = m[k]
  BY <1>1 DEF Joined
<1>4. md = m
  BY <1>3, SameArray
<1> QED BY <1>1, <1>2, <1>4

(* What fits in the buffer only goes there. *)
LEMMA BufferAppended ==
    ASSUME NEW ctx, NEW m, NEW n \in Nat, NEW c, Array(m, n), Represents(ctx, m, n, c),
           NEW data, NEW len \in Nat \ {0}, Array(data, len),
           NEW md, Joined(md, m, n, data, len), ~Fills(n % BlockSize, len)
    PROVE  Represents(Appended(ctx, data), md, n + len, Reckoned(c, len))
<1> DEFINE q == n \div BlockSize
           r == n % BlockSize
           B == BlockSize
           qB == q * B
           b == ctx.buffer
           nlen == n + len
           C == Reckoned(c, len)
<1>1. B \in Nat \ {0} /\ q \in Nat /\ r \in 0..B - 1 /\ qB \in Nat /\ n = qB + r
  BY Sizes, BlockAndPlace
<1>2. len \in Nat /\ r + len \in 0..B - 1 /\ nlen \in Nat
  BY <1>1 DEF Fills
<1>3. nlen \div B = q /\ nlen % B = r + len
  <2> DEFINE rl == r + len
  <2>1. nlen = q * B + rl /\ rl \in 0..B - 1
    BY <1>1, <1>2
  <2> HIDE DEF rl, q, B, nlen
  <2>2. nlen \div B = q /\ nlen % B = rl
    BY <1>1, <1>2, <2>1, InBlock DEF B
  <2> QED BY <2>2 DEF rl
<1>4. /\ \A k \in 1..n : md[k] = m[k]
      /\ \A k \in 1..len : md[n + k] = data[k]
  BY DEF Joined
<1>5. Len(data) = len
  BY <1>2, ArrayIsSeq
<1>6. /\ IsBlocks(ctx.state, m, q) /\ ctx.count = CountOf(c) /\ Array(b, B)
      /\ c \in Nat /\ c % BlockSize = n % BlockSize
      /\ \A x \in 1..r : b[x] = m[qB + x]
  BY DEF Represents
<1> DEFINE app == Appended(ctx, data)
<1>7. app = AppendedAt(ctx, data, len, r, 0, 0)
  <2> DEFINE i == 0
             whole == 0
  <2>1. /\ i = IF Fills(n % BlockSize, len) THEN BlockSize - (n % BlockSize) ELSE 0
        /\ whole = IF i = 0 THEN 0 ELSE (len - i) \div BlockSize
    OBVIOUS
  <2> HIDE DEF i, whole
  <2>2. Appended(ctx, data) = AppendedAt(ctx, data, len, n % BlockSize, i, whole)
    BY <1>5, <1>6, <2>1, AppendedIs
  <2> QED BY <2>2 DEF i, whole
<1> DEFINE rest == SubSeq(data, 0 + 0 * BlockSize + 1, len)
<1> HIDE DEF app
<1>8. /\ app.state = ctx.state \o (<<>> \o Follow(data, 0, 0))
      /\ app.count = Counted(ctx.count, len)
      /\ app.buffer = Overwrite(b, r, rest)
  BY <1>7, AppendedInside
<1>9. app.count = CountOf(C) /\ C \in Nat /\ C % BlockSize = nlen % BlockSize
  BY <1>2, <1>6, <1>8, CountedIs, ReckonedIs
<1>10. rest = data
  <2>1. 0 + 0 * BlockSize + 1 = 0 + 1 /\ 0 \in Nat /\ len = 0 + len /\ len <= len
    BY <1>1, <1>2
  <2>2. IsPart(SubSeq(data, 0 + 1, len), data, 0, len)
    BY <1>2, <2>1, PartIs
  <2>3. \A k \in 1..len : data[0 + k] = data[k]
    BY <1>2
  <2>4. SubSeq(data, 0 + 1, len) = data
    BY <1>2, <2>2, <2>3, SameArray DEF IsPart
  <2> QED BY <2>1, <2>4
<1>11. app.buffer = Overwrite(b, r, data)
  BY <1>8, <1>10
<1> HIDE DEF rest, b, r, q
<1>12. Array(app.buffer, B)
  <2>1. r \in Nat /\ B \in Nat
    BY <1>1
  <2>2. Array(Overwrite(b, r, data), B)
    BY <1>2, <1>6, <2>1, Overwritten
  <2> QED BY <1>11, <2>2
<1>13. ASSUME NEW k \in 1..r + len PROVE app.buffer[k] = md[qB + k]
  <2>1. r \in Nat /\ k \in 1..B /\ B \in Nat
    BY <1>1, <1>2
  <2>2. CASE k <= r
    <3>1. k \in 1..r /\ qB + k \in 1..n
      BY <1>1, <1>2, <2>2
    <3>2. b[k] = m[qB + k]
      BY <1>6, <3>1
    <3>3. md[qB + k] = m[qB + k]
      BY <1>4, <3>1
    <3>4. Overwrite(b, r, data)[k] = b[k]
      BY <1>2, <1>6, <2>1, <2>2, OverwrittenOut
    <3> QED BY <1>11, <3>2, <3>3, <3>4
  <2>3. CASE ~(k <= r)
    <3>1. r < k /\ k <= r + len /\ k - r \in 1..len /\ n + (k - r) = qB + k
      BY <1>1, <1>2, <2>3
    <3>2. md[n + (k - r)] = data[k - r]
      BY <1>4, <3>1
    <3>3. Overwrite(b, r, data)[k] = data[k - r]
      BY <1>2, <1>6, <2>1, <3>1, OverwrittenIn
    <3> QED BY <1>11, <3>1, <3>2, <3>3
  <2> QED BY <2>2, <2>3
<1>14. app.state = ctx.state
  <2> DEFINE s == ctx.state
             f == Follow(data, 0, 0)
  <2>1. Array(s, q) /\ 0 \in Nat
    BY <1>6 DEF IsBlocks
  <2>2. Array(<<>>, 0) /\ Array(f, 0)
    BY DEF Array, Follow
  <2> HIDE DEF f, s
  <2>3. Joined(<<>> \o f, <<>>, 0, f, 0)
    BY <2>1, <2>2, Joins
  <2>4. Array(<<>> \o f, 0)
    <3>1. 0 + 0 = 0
      OBVIOUS
    <3> QED BY <2>3, <3>1 DEF Joined
  <2> DEFINE t == <<>> \o f
  <2> HIDE DEF t
  <2>5. Joined(s \o t, s, q, t, 0)
    BY <1>1, <2>1, <2>4, Joins DEF t
  <2>6. Array(s \o t, q) /\ \A k \in 1..q : (s \o t)[k] = s[k]
    <3>1. q + 0 = q
      BY <1>1
    <3> QED BY <2>5, <3>1 DEF Joined
  <2>7. s \o t = s
    BY <1>1, <2>1, <2>6, SameArray
  <2> QED BY <1>8, <2>7 DEF t, f, s
<1>15. IsBlocks(app.state, md, q)
  <2>1. q * BlockSize <= n
    BY <1>1
  <2>2. \A x \in 1..n : m[x] = md[x]
    BY <1>4
  <2> QED BY <1>1, <1>6, <1>14, <2>1, <2>2, BlocksInside
<1> HIDE DEF nlen, C
<1>16. IsBlocks(app.state, md, nlen \div BlockSize)
  BY <1>3, <1>15
<1>17. \A x \in 1..nlen % BlockSize : app.buffer[x] = md[(nlen \div BlockSize) * BlockSize + x]
  BY <1>3, <1>13
<1>18. Represents(app, md, nlen, C)
  BY <1>9, <1>12, <1>16, <1>17 DEF Represents
<1> QED BY <1>18 DEF app, nlen, C

(* A block of the data, by its place in the message. *)
LEMMA FollowIs ==
    ASSUME NEW len \in Nat, NEW data, Array(data, len), NEW i \in Nat, NEW w \in Nat,
           i + w * BlockSize <= len, NEW y \in 1..w
    PROVE  IsPart(Follow(data, i, w)[y], data, i + (y - 1) * BlockSize, BlockSize)
<1> DEFINE B == BlockSize
           yB == (y - 1) * BlockSize
           a == i + yB
           e == i + y * BlockSize
<1>1. B \in Nat /\ yB \in Nat /\ y * BlockSize = yB + B /\ y * BlockSize <= w * BlockSize
      /\ w * BlockSize \in Nat
  BY BlockPlace, Sizes, Multiples
<1>2. a \in Nat /\ e \in Nat /\ e = a + B /\ e <= len
  BY <1>1
<1>3. Follow(data, i, w)[y] = SubSeq(data, a + 1, e)
  BY DEF Follow
<1> HIDE DEF a, e, B
<1>4. IsPart(SubSeq(data, a + 1, e), data, a, B)
  BY <1>1, <1>2, PartIs
<1> QED BY <1>3, <1>4 DEF a, B

(* The block that data fills. *)
LEMMA FullIs ==
    ASSUME NEW n \in Nat, NEW q \in Nat, NEW r \in 0..BlockSize - 1, n = q * BlockSize + r,
           NEW b, Array(b, BlockSize), NEW md,
           \A x \in 1..r : b[x] = md[q * BlockSize + x],
           NEW data, NEW len \in Nat, Array(data, len), NEW i \in Nat, i = BlockSize - r, i <= len,
           \A k \in 1..len : md[n + k] = data[k]
    PROVE  IsPart(Overwrite(b, r, SubSeq(data, 1, i)), md, q * BlockSize, BlockSize)
<1> DEFINE B == BlockSize
           qB == q * BlockSize
           d == SubSeq(data, 1, i)
           full == Overwrite(b, r, d)
<1>1. B \in Nat \ {0} /\ qB \in Nat /\ r \in Nat /\ r + i = B
  BY Sizes, Multiples
<1>2. Array(d, i)
  BY Prefix
<1>3. ASSUME NEW k \in 1..i PROVE d[k] = data[k]
  BY Prefix
<1> HIDE DEF d
<1>4. Array(full, B)
  BY <1>1, <1>2, Overwritten
<1>5. ASSUME NEW x \in 1..B PROVE full[x] = md[qB + x]
  <2> HIDE DEF B
  <2>1. CASE x <= r
    <3>1. x \in 1..r
      BY <1>1, <2>1
    <3>2. b[x] = md[qB + x]
      BY <3>1
    <3>3. full[x] = b[x]
      BY <1>1, <1>2, <2>1, OverwrittenOut DEF B
    <3> QED BY <3>2, <3>3
  <2>2. CASE ~(x <= r)
    <3>1. r < x /\ x <= r + i /\ x - r \in 1..i /\ x - r \in 1..len /\ n + (x - r) = qB + x
      BY <1>1, <2>2
    <3>2. full[x] = d[x - r]
      BY <1>1, <1>2, <3>1, OverwrittenIn DEF B
    <3>3. d[x - r] = data[x - r] /\ md[n + (x - r)] = data[x - r]
      BY <1>3, <3>1
    <3> QED BY <3>1, <3>2, <3>3
  <2> QED BY <2>1, <2>2
<1> HIDE DEF full
<1>6. IsPart(full, md, qB, B)
  BY <1>4, <1>5 DEF IsPart
<1> QED BY <1>6 DEF full, d

(* The blocks before, the one that was filled, and those that follow. *)
LEMMA BlocksJoined ==
    ASSUME NEW md, NEW q \in Nat, NEW s, IsBlocks(s, md, q),
           NEW full, IsPart(full, md, q * BlockSize, BlockSize),
           NEW w \in Nat, NEW f, Array(f, w),
           \A y \in 1..w : IsPart(f[y], md, (q + y) * BlockSize, BlockSize)
    PROVE  IsBlocks(s \o (<<full>> \o f), md, q + 1 + w)
<1> DEFINE first == <<full>>
           blocks == first \o f
           u == s \o blocks
           w1 == 1 + w
<1>1. Array(first, 1) /\ first[1] = full
  BY DEF Array
<1> HIDE DEF first
<1>2. Joined(blocks, first, 1, f, w)
  <2>1. 1 \in Nat
    OBVIOUS
  <2> QED BY <1>1, <2>1, Joins
<1>3. Array(blocks, w1) /\ w1 \in Nat
  BY <1>2 DEF Joined
<1> HIDE DEF blocks
<1>4. Joined(u, s, q, blocks, w1)
  <2> HIDE DEF w1
  <2>1. Array(s, q)
    BY DEF IsBlocks
  <2> QED BY <1>3, <2>1, Joins
<1> HIDE DEF u
<1>5. Array(u, q + 1 + w)
  <2>1. q + w1 = q + 1 + w
    OBVIOUS
  <2> QED BY <1>4, <2>1 DEF Joined
<1>6. ASSUME NEW k \in 1..q + 1 + w PROVE IsPart(u[k], md, (k - 1) * BlockSize, BlockSize)
  <2>1. CASE k <= q
    <3>1. k \in 1..q
      BY <2>1
    <3>2. u[k] = s[k]
      BY <1>4, <3>1 DEF Joined
    <3> QED BY <3>1, <3>2 DEF IsBlocks
  <2>2. CASE k = q + 1
    <3>1. 1 \in 1..w1 /\ 1 \in 1..1 /\ k - 1 = q
      BY <1>3, <2>2
    <3>2. u[q + 1] = blocks[1] /\ blocks[1] = first[1]
      BY <1>2, <1>4, <3>1 DEF Joined
    <3> QED BY <1>1, <2>2, <3>1, <3>2
  <2>3. CASE k > q + 1
    <3> DEFINE y == k - q - 1
    <3>1. y \in 1..w /\ 1 + y \in 1..w1 /\ k = q + (1 + y) /\ k - 1 = q + y
      BY <2>3
    <3>2. u[q + (1 + y)] = blocks[1 + y] /\ blocks[1 + y] = f[y]
      BY <1>2, <1>4, <3>1 DEF Joined
    <3>3. u[k] = f[y]
      BY <3>1, <3>2
    <3> QED BY <3>1, <3>3
  <2> QED BY <2>1, <2>2, <2>3
<1>7. IsBlocks(u, md, q + 1 + w)
  BY <1>5, <1>6 DEF IsBlocks
<1> QED BY <1>7 DEF u, blocks, first

(* What fills the buffer is compressed, and what remains starts the next one. *)
LEMMA BlocksAppended ==
    ASSUME NEW ctx, NEW m, NEW n \in Nat, NEW c, Array(m, n), Represents(ctx, m, n, c),
           NEW data, NEW len \in Nat \ {0}, Array(data, len),
           NEW md, Joined(md, m, n, data, len), Fills(n % BlockSize, len)
    PROVE  Represents(Appended(ctx, data), md, n + len, Reckoned(c, len))
<1> DEFINE q == n \div BlockSize
           r == n % BlockSize
           B == BlockSize
           qB == q * B
           b == ctx.buffer
           nlen == n + len
           C == Reckoned(c, len)
           i == B - r
           left == len - i
           w == left \div B
           t == left % B
           Q == q + 1 + w
<1>1. B \in Nat \ {0} /\ q \in Nat /\ r \in 0..B - 1 /\ qB \in Nat /\ n = qB + r
  BY Sizes, BlockAndPlace
<1>2. len \in Nat /\ nlen \in Nat /\ i \in Nat \ {0} /\ i <= len /\ left \in Nat /\ len = i + left
  BY <1>1 DEF Fills
<1> HIDE DEF left
<1>3. w \in Nat /\ t \in 0..B - 1 /\ w * B \in Nat /\ left = w * B + t
  BY <1>1, <1>2, DivMod
<1>4. Q \in Nat /\ Q * B = qB + B + w * B /\ nlen = Q * B + t
  <2> HIDE DEF w, t, q, r
  <2>1. (q + 1) * B = qB + B
    BY <1>1
  <2> DEFINE q1 == q + 1
  <2>2. q1 \in Nat /\ w \in Nat /\ B \in Nat
    BY <1>1, <1>3
  <2> HIDE DEF q1
  <2>3. (q1 + w) * B = q1 * B + w * B
    BY <2>2, Products
  <2>4. Q * B = qB + B + w * B
    BY <2>1, <2>3 DEF q1
  <2>5. Q \in Nat
    BY <1>1, <1>3
  <2> HIDE DEF Q, B, qB
  <2>6. nlen = Q * B + t
    BY <1>1, <1>2, <1>3, <2>4
  <2> QED BY <2>4, <2>5, <2>6
<1> HIDE DEF w, t
<1>5. nlen \div BlockSize = Q /\ nlen % BlockSize = t
  <2> HIDE DEF Q, nlen
  <2> QED BY <1>2, <1>3, <1>4, InBlock
<1>6. /\ \A k \in 1..n : md[k] = m[k]
      /\ \A k \in 1..len : md[n + k] = data[k]
  BY DEF Joined
<1>7. Len(data) = len
  BY <1>2, ArrayIsSeq
<1>8. /\ IsBlocks(ctx.state, m, q) /\ ctx.count = CountOf(c) /\ Array(b, B)
      /\ c \in Nat /\ c % BlockSize = n % BlockSize
      /\ \A x \in 1..r : b[x] = m[qB + x]
  BY DEF Represents
<1> DEFINE app == Appended(ctx, data)
           full == Overwrite(b, r, SubSeq(data, 1, i))
           f == Follow(data, i, w)
           rest == SubSeq(data, i + w * BlockSize + 1, len)
<1>9. app = AppendedAt(ctx, data, len, r, i, w)
  <2>1. i = IF Fills(n % BlockSize, len) THEN BlockSize - (n % BlockSize) ELSE 0
    OBVIOUS
  <2>2. w = IF i = 0 THEN 0 ELSE (len - i) \div BlockSize
    BY <1>2 DEF w, left
  <2> HIDE DEF i
  <2>3. Appended(ctx, data) = AppendedAt(ctx, data, len, n % BlockSize, i, w)
    BY <1>7, <1>8, <2>1, <2>2, AppendedIs
  <2> QED BY <2>3
<1> HIDE DEF app
<1>10. /\ app.state = ctx.state \o (<<full>> \o f)
       /\ app.count = Counted(ctx.count, len)
       /\ app.buffer = Overwrite(full, 0, rest)
  <2>1. i # 0
    BY <1>2
  <2> HIDE DEF i, r
  <2>2. full = Overwrite(ctx.buffer, r, SubSeq(data, 1, i))
    OBVIOUS
  <2> HIDE DEF full
  <2> HIDE DEF w
  <2>3. IsAcross(AppendedAt(ctx, data, len, r, i, w), ctx, data, len, i, w, full)
    BY <2>1, <2>2, AppendedAcross
  <2> QED BY <1>9, <2>3, Zenon DEF IsAcross
<1> HIDE DEF full, f, rest
<1>11. app.count = CountOf(C) /\ C \in Nat /\ C % BlockSize = nlen % BlockSize
  <2>1. Counted(CountOf(c), len) = CountOf(C)
    BY <1>2, <1>8, CountedIs
  <2>2. C \in Nat /\ C % BlockSize = (n + len) % BlockSize
    BY <1>2, <1>8, ReckonedIs
  <2> QED BY <1>8, <1>10, <2>1, <2>2
<1>12. IsPart(full, md, qB, B)
  <2>1. \A x \in 1..r : b[x] = md[qB + x]
    <3>1. \A x \in 1..r : qB + x \in 1..n
      BY <1>1
    <3> QED BY <1>6, <1>8, <3>1
  <2> HIDE DEF q, r
  <2> QED BY <1>1, <1>2, <1>6, <1>8, <2>1, FullIs DEF full
<1>13. ASSUME NEW y \in 1..w PROVE IsPart(f[y], md, (q + y) * BlockSize, BlockSize)
  <2> DEFINE yB == (y - 1) * BlockSize
             a == i + yB
             to == (q + y) * BlockSize
  <2>1. B \in Nat /\ yB \in Nat /\ y * BlockSize = yB + B /\ y * BlockSize <= w * BlockSize
    BY <1>1, <1>3, BlockPlace
  <2>2. i + w * BlockSize <= len
    BY <1>2, <1>3
  <2> HIDE DEF i
  <2>3. IsPart(f[y], data, i + (y - 1) * BlockSize, BlockSize)
    BY <1>2, <1>3, <2>2, FollowIs DEF f
  <2>4. a \in Nat /\ a + B <= len
    <3>1. yB \in Nat /\ w * B \in Nat /\ yB + B <= w * B
      BY <1>3, <2>1
    <3>2. i \in Nat /\ len \in Nat /\ i + w * B <= len
      BY <1>2, <2>2
    <3> HIDE DEF yB
    <3> QED BY <2>1, <3>1, <3>2
  <2>5. to = qB + y * BlockSize /\ to \in Nat
    <3>1. y \in Nat
      OBVIOUS
    <3> HIDE DEF q
    <3> QED BY <1>1, <3>1, Products
  <2>6. to = n + a
    BY <1>1, <1>2, <2>1, <2>5 DEF i
  <2> HIDE DEF yB, a, to, B
  <2>7. ASSUME NEW x \in 1..BlockSize PROVE data[a + x] = md[to + x]
    <3>1. a + x \in 1..len /\ n + (a + x) = to + x
      <4>1. x \in Nat \ {0} /\ x <= B
        BY <1>1 DEF B
      <4> QED BY <1>2, <2>1, <2>4, <2>6, <4>1
    <3> QED BY <1>6, <3>1
  <2>8. BlockSize \in Nat
    BY Sizes
  <2>9. IsPart(f[y], data, a, BlockSize)
    BY <2>3 DEF a, yB
  <2>10. IsPart(f[y], md, to, BlockSize)
    BY <2>4, <2>5, <2>7, <2>8, <2>9, PartInside
  <2> QED BY <2>10 DEF to
<1>14. IsBlocks(app.state, md, Q)
  <2>1. IsBlocks(ctx.state, md, q)
    <3>1. q * BlockSize <= n
      BY <1>1
    <3>2. \A x \in 1..n : m[x] = md[x]
      BY <1>6
    <3> HIDE DEF q
    <3> QED BY <1>1, <1>8, <3>1, <3>2, BlocksInside
  <2>2. Array(f, w)
    BY DEF f, Follow, Array
  <2> HIDE DEF q
  <2> QED BY <1>1, <1>3, <1>10, <1>12, <1>13, <2>1, <2>2, BlocksJoined
<1>15. Array(full, B)
  BY <1>12 DEF IsPart
<1>16. IsPart(rest, data, i + w * BlockSize, t)
  <2> DEFINE a == i + w * BlockSize
  <2>1. a \in Nat /\ t \in Nat /\ len = a + t
    BY <1>2, <1>3
  <2> HIDE DEF a
  <2>2. IsPart(SubSeq(data, a + 1, len), data, a, t)
    <3>1. len <= len
      BY <1>2
    <3> QED BY <1>2, <2>1, <3>1, PartIs
  <2> QED BY <2>2 DEF a, rest
<1>17. Array(app.buffer, B) /\ \A x \in 1..t : app.buffer[x] = md[Q * B + x]
  <2>1. Array(rest, t)
    BY <1>16 DEF IsPart
  <2>2. Array(app.buffer, B)
    <3>1. t \in Nat /\ 0 \in Nat /\ B \in Nat
      BY <1>1, <1>3
    <3> QED BY <1>10, <1>15, <2>1, <3>1, Overwritten
  <2>3. ASSUME NEW x \in 1..t PROVE app.buffer[x] = md[Q * B + x]
    <3>1. t \in Nat /\ t < B /\ B \in Nat
      BY <1>1, <1>3
    <3>2. app.buffer[x] = rest[x]
      BY <1>10, <1>15, <2>1, <3>1, FromTheStart
    <3> DEFINE a == i + w * BlockSize
    <3>3. rest[x] = data[a + x]
      BY <1>16 DEF IsPart
    <3>4. a + x \in 1..len /\ n + (a + x) = Q * B + x
      BY <1>1, <1>2, <1>3, <1>4
    <3> HIDE DEF a
    <3>5. md[n + (a + x)] = data[a + x]
      BY <1>6, <3>4
    <3> QED BY <3>2, <3>3, <3>4, <3>5
  <2> QED BY <2>2, <2>3
<1> HIDE DEF nlen, C
<1>18. IsBlocks(app.state, md, nlen \div BlockSize)
  BY <1>5, <1>14
<1>19. \A x \in 1..nlen % BlockSize : app.buffer[x] = md[(nlen \div BlockSize) * BlockSize + x]
  BY <1>5, <1>17
<1>20. Represents(app, md, nlen, C)
  BY <1>11, <1>17, <1>18, <1>19 DEF Represents
<1> QED BY <1>20 DEF app, nlen, C

(* However much is appended, the context stands for the message with it. *)
LEMMA AppendFollows ==
    ASSUME NEW ctx, NEW m, NEW n \in Nat, NEW c, Array(m, n), Represents(ctx, m, n, c),
           NEW data, NEW len \in Nat, Array(data, len),
           NEW md, Joined(md, m, n, data, len)
    PROVE  Represents(Appended(ctx, data), md, n + len, Reckoned(c, len))
<1>1. CASE len = 0
  <2>1. Represents(Appended(ctx, data), md, n + 0, c)
    BY <1>1, NothingAppended
  <2>2. c \in Nat /\ c % BlockSize = n % BlockSize /\ 0 \in Nat /\ 0 < Bytes
    BY Sizes DEF Represents
  <2>3. Reckoned(c, 0) = c + 0
    BY <2>2, ReckonedIs
  <2> QED BY <1>1, <2>1, <2>2, <2>3
<1>2. CASE len # 0
  BY <1>2, BufferAppended, BlocksAppended
<1> QED BY <1>1, <1>2

(* Of a short append all is counted.                                        *)
LEMMA ShortAppend ==
    ASSUME NEW ctx, NEW m, NEW n \in Nat, NEW c, Array(m, n), Represents(ctx, m, n, c),
           NEW data, NEW len \in Nat, len < Bytes, Array(data, len),
           NEW md, Joined(md, m, n, data, len)
    PROVE  Represents(Appended(ctx, data), md, n + len, c + len)
<1>1. c \in Nat /\ c % BlockSize = n % BlockSize
  BY DEF Represents
<1>2. Reckoned(c, len) = c + len
  BY <1>1, ReckonedIs
<1> QED BY <1>2, AppendFollows
-----------------------------------------------------------------------------
(*                             I2Sha1Finish                                *)

(* A context that was initialised stands for no bytes, whatever it held.    *)
LEMMA NothingYet ==
    ASSUME NEW ctx, Array(ctx.buffer, BlockSize), NEW m
    PROVE  Represents(Initialised(ctx), m, 0, 0)
<1> DEFINE init == Initialised(ctx)
<1>1. init.state = <<>> /\ init.count = <<0, 0>> /\ init.buffer = ctx.buffer
  BY DEF Initialised
<1>2. BlockSize \in Nat \ {0} /\ Word \in Nat \ {0} /\ 0 \in Nat /\ 0 \in 0..BlockSize - 1
  BY Sizes
<1>3. 0 \div BlockSize = 0 /\ 0 % BlockSize = 0
  <2>1. 0 = 0 * BlockSize + 0
    BY <1>2
  <2> QED BY <1>2, <2>1, InBlock
<1>4. CountOf(0) = <<0, 0>>
  <2>1. 8 * 0 = 0 /\ 0 \div Word = 0 /\ 0 % Word = 0
    BY <1>2
  <2> QED BY <2>1 DEF CountOf
<1>5. IsBlocks(<<>>, m, 0)
  BY DEF IsBlocks, Array
<1> HIDE DEF init
<1>6. Represents(init, m, 0, 0)
  BY <1>1, <1>2, <1>3, <1>4, <1>5 DEF Represents
<1> QED BY <1>6 DEF init

IsRun(f, ctx, c) ==
    f = [k \in 0..c |-> IF k = 0 THEN ctx ELSE Appended(f[k - 1], <<Zero>>)]

(* As with the U's: no shortest run of zeros is without a solution. *)
LEMMA RunExists == ASSUME NEW ctx, NEW count \in Nat PROVE \E f : IsRun(f, ctx, count)
<1> DEFINE bad == {c \in Nat : ~\E f : IsRun(f, ctx, c)}
<1>1. ASSUME bad # {} PROVE FALSE
  <2> HIDE DEF bad
  <2>1. bad \subseteq Nat
    BY DEF bad
  <2>2. PICK c \in bad : \A l \in bad : ~(<<l, c>> \in OpToRel(<, Nat))
    BY <1>1, <2>1, WFMin, NatLessThanWellFounded
  <2>3. c \in Nat /\ \A l \in Nat : l < c => \E f : IsRun(f, ctx, l)
    BY <2>1, <2>2 DEF OpToRel, bad
  <2>4. CASE c = 0
    <3> DEFINE g == [k \in 0..0 |-> ctx]
    <3>1. g = [k \in 0..0 |-> IF k = 0 THEN ctx ELSE Appended(g[k - 1], <<Zero>>)]
      OBVIOUS
    <3>2. IsRun(g, ctx, 0)
      BY <3>1 DEF IsRun
    <3> QED BY <2>2, <2>4, <3>2 DEF bad
  <2>5. CASE c # 0
    <3>1. c - 1 \in Nat /\ c - 1 < c
      BY <2>3, <2>5
    <3>2. PICK f : IsRun(f, ctx, c - 1)
      BY <2>3, <3>1
    <3> DEFINE g == [k \in 0..c |-> IF k = c THEN Appended(f[c - 1], <<Zero>>) ELSE f[k]]
               h == [k \in 0..c |-> IF k = 0 THEN ctx ELSE Appended(g[k - 1], <<Zero>>)]
    <3>3. \A k \in 0..(c - 1) : f[k] = IF k = 0 THEN ctx ELSE Appended(f[k - 1], <<Zero>>)
      BY <3>2 DEF IsRun
    <3>4. ASSUME NEW k \in 0..c PROVE g[k] = h[k]
      <4>1. CASE k = c
        <5>1. c # 0 /\ c - 1 \in 0..c /\ c - 1 # c
          BY <2>3, <2>5, <3>1
        <5> QED BY <2>3, <4>1, <5>1
      <4>2. CASE k # c
        <5>1. k \in 0..(c - 1) /\ (k # 0 => k - 1 \in 0..c /\ k - 1 # c)
          BY <2>3, <4>2
        <5> QED BY <3>3, <4>2, <5>1
      <4> QED BY <4>1, <4>2
    <3>5. g = h
      BY <3>4
    <3>6. IsRun(g, ctx, c)
      BY <3>5 DEF IsRun
    <3> QED BY <2>2, <3>6 DEF bad
  <2> QED BY <2>4, <2>5
<1> QED BY <1>1

(* m, of n elements, and l zeros behind it. *)
ZerosBehind(m, n, l) == [x \in 1..n + l |-> IF x <= n THEN m[x] ELSE Zero]

LEMMA OneZeroMore ==
    ASSUME NEW n \in Nat, NEW m, NEW l \in Nat
    PROVE  /\ Array(ZerosBehind(m, n, l), n + l) /\ Array(<<Zero>>, 1)
           /\ Joined(ZerosBehind(m, n, l + 1), ZerosBehind(m, n, l), n + l, <<Zero>>, 1)
<1>1. \A x \in 1..n + l : x \in 1..n + (l + 1)
  OBVIOUS
<1>2. \A k \in 1..1 : k = 1 /\ (n + l) + k \in 1..n + (l + 1) /\ ~((n + l) + k <= n)
  OBVIOUS
<1>3. n + (l + 1) = (n + l) + 1
  OBVIOUS
<1>4. Array(<<Zero>>, 1)
  BY DEF Array
<1>5. Array(ZerosBehind(m, n, l), n + l)
  BY DEF Array, ZerosBehind
<1>6. Array(ZerosBehind(m, n, l + 1), (n + l) + 1)
  BY <1>3 DEF Array, ZerosBehind
<1>7. \A x \in 1..n + l : ZerosBehind(m, n, l + 1)[x] = ZerosBehind(m, n, l)[x]
  BY <1>1 DEF ZerosBehind
<1>8. \A k \in 1..1 : ZerosBehind(m, n, l + 1)[(n + l) + k] = <<Zero>>[k]
  BY <1>2 DEF ZerosBehind
<1> QED BY <1>4, <1>5, <1>6, <1>7, <1>8 DEF Joined

LEMMA ZerosFollow ==
    ASSUME NEW ctx, NEW m, NEW n \in Nat, NEW c, Array(m, n), Represents(ctx, m, n, c),
           NEW z \in Nat
    PROVE  Represents(ZerosAppended(ctx, z), ZerosBehind(m, n, z), n + z, c + z)
<1>1. PICK f : IsRun(f, ctx, z) /\ ZerosAppended(ctx, z) = f[z]
  <2>1. PICK g : IsRun(g, ctx, z)
    BY RunExists
  <2> DEFINE after == CHOOSE h : IsRun(h, ctx, z)
  <2>2. IsRun(after, ctx, z)
    BY <2>1
  <2>3. ZerosAppended(ctx, z) = after[z]
    BY DEF ZerosAppended, IsRun
  <2> HIDE DEF after
  <2> QED BY <2>2, <2>3
<1> DEFINE bad == {k \in 0..z : ~Represents(f[k], ZerosBehind(m, n, k), n + k, c + k)}
<1>2. ASSUME bad # {} PROVE FALSE
  <2> HIDE DEF bad
  <2>1. bad \subseteq Nat
    BY DEF bad
  <2>2. PICK y \in bad : \A l \in bad : ~(<<l, y>> \in OpToRel(<, Nat))
    BY <1>2, <2>1, WFMin, NatLessThanWellFounded
  <2>3. /\ y \in Nat /\ y \in 0..z /\ ~Represents(f[y], ZerosBehind(m, n, y), n + y, c + y)
        /\ \A l \in Nat : l < y => Represents(f[l], ZerosBehind(m, n, l), n + l, c + l)
    <3>1. y \in 0..z /\ ~Represents(f[y], ZerosBehind(m, n, y), n + y, c + y)
      BY DEF bad
    <3>2. \A l \in bad : ~(l < y)
      BY <2>1, <2>2, <3>1 DEF OpToRel
    <3>3. \A l \in 0..z : l < y => Represents(f[l], ZerosBehind(m, n, l), n + l, c + l)
      BY <3>2 DEF bad
    <3>4. \A l \in Nat : l < y => l \in 0..z
      BY <3>1
    <3> QED BY <3>1, <3>3, <3>4
  <2>4. f[y] = IF y = 0 THEN ctx ELSE Appended(f[y - 1], <<Zero>>)
    BY <1>1, <2>3 DEF IsRun
  <2>5. CASE y = 0
    <3> DEFINE md == ZerosBehind(m, n, 0)
    <3>1. Array(md, n) /\ \A x \in 1..n : md[x] = m[x]
      BY DEF ZerosBehind, Array
    <3> HIDE DEF md
    <3>2. md = m
      BY <3>1, SameArray
    <3>3. n + 0 = n /\ c + 0 = c
      BY DEF Represents
    <3> QED BY <2>3, <2>4, <2>5, <3>2, <3>3 DEF md
  <2>6. CASE y # 0
    <3> DEFINE l == y - 1
    <3>1. l \in Nat /\ l < y /\ l + 1 = y
      BY <2>3, <2>6
    <3> HIDE DEF l
    <3> DEFINE ml == ZerosBehind(m, n, l)
               my == ZerosBehind(m, n, l + 1)
               nl == n + l
               cl == c + l
    <3>2. Represents(f[l], ml, nl, cl)
      BY <2>3, <3>1
    <3>3. Array(ml, nl) /\ Array(<<Zero>>, 1) /\ Joined(my, ml, nl, <<Zero>>, 1)
      BY <3>1, OneZeroMore
    <3>4. nl \in Nat /\ 1 \in Nat /\ 1 < Bytes /\ n + y = nl + 1 /\ c + y = cl + 1
      BY <3>1, Sizes DEF Represents
    <3> DEFINE one == <<Zero>>
               len == 1
    <3> HIDE DEF ml, my, nl, cl, one, len
    <3>5. Represents(Appended(f[l], one), my, nl + len, cl + len)
      BY <3>2, <3>3, <3>4, ShortAppend DEF one, len
    <3>6. f[y] = Appended(f[l], one)
      BY <2>4, <2>6 DEF l, one
    <3> QED BY <2>3, <3>1, <3>4, <3>5, <3>6 DEF my, len
  <2> QED BY <2>5, <2>6
<1>3. Represents(f[z], ZerosBehind(m, n, z), n + z, c + z)
  BY <1>2
<1> QED BY <1>1, <1>3

(* The number of zeros is the one that leaves room for the length. *)
LEMMA ZerosAre ==
    ASSUME NEW n \in Nat, NEW z, z = (BlockSize - 2 - (n % Bytes)) % BlockSize
    PROVE  /\ z \in 0..BlockSize - 1 /\ (n + z + 2) % BlockSize = 0
           /\ \A y \in 0..BlockSize - 1 : (n + y + 2) % BlockSize = 0 => y = z
<1> DEFINE B == BlockSize
           W == Bytes
           s == n % W
           c == W \div B
           q == n \div W
<1>1. B \in Nat \ {0} /\ W \in Nat \ {0} /\ W % B = 0
  BY Sizes
<1>2. c \in Nat /\ W = c * B
  <2>1. c \in Nat /\ W = c * B + (W % B)
    BY <1>1, DivMod
  <2>2. c * B \in Nat
    BY <1>1, <2>1
  <2> QED BY <1>1, <2>1, <2>2
<1>3. q \in Nat /\ s \in 0..W - 1 /\ n = q * W + s
  BY <1>1, DivMod
<1> HIDE DEF c, q, s
<1>4. PICK u \in Int : z \in 0..B - 1 /\ B - 2 - s = B * u + z
  <2> DEFINE x == B - 2 - s
  <2>1. x \in Int /\ z = x % B
    BY <1>1, <1>3 DEF s
  <2> HIDE DEF x
  <2>2. x \div B \in Int /\ z \in 0..B - 1 /\ x = B * (x \div B) + z
    BY <1>1, <2>1
  <2> QED BY <2>2 DEF x
<1>5. (q * c) * B = q * W /\ q * c \in Nat
  BY <1>1, <1>2, <1>3
<1> DEFINE v == q * c + 1 - u
<1>6. v \in Int /\ n + z + 2 = v * B
  <2>1. v * B = (q * c) * B + B - u * B
    BY <1>1, <1>4, <1>5
  <2>2. B * u = u * B /\ u * B \in Int
    BY <1>1, <1>4
  <2>3. q * W \in Nat
    BY <1>1, <1>3
  <2> DEFINE qW == q * W
             uB == u * B
  <2>4. n + z + 2 = qW + B - uB
    <3>1. B - 2 - s = uB + z /\ n = qW + s
      BY <1>3, <1>4, <2>2
    <3>2. qW \in Nat /\ uB \in Int /\ s \in Int /\ z \in Int
      BY <1>3, <1>4, <2>2, <2>3
    <3> HIDE DEF qW, uB
    <3> QED BY <1>1, <3>1, <3>2
  <2> QED BY <1>4, <1>5, <2>1, <2>4
<1>7. v \in Nat
  <2>1. ASSUME v < 0 PROVE FALSE
    <3>1. v * B <= 0
      BY <1>1, <1>6, <2>1
    <3> QED BY <1>1, <1>4, <1>6, <3>1
  <2> QED BY <1>6, <2>1
<1> HIDE DEF v
<1>8. (n + z + 2) % B = 0
  <2>1. n + z + 2 \in Nat /\ 0 \in 0..B - 1 /\ n + z + 2 = v * B + 0
    <3>1. v * B \in Nat
      BY <1>1, <1>7
    <3> QED BY <1>1, <1>4, <1>6, <3>1
  <2> DEFINE N == n + z + 2
  <2> HIDE DEF N
  <2> QED BY <1>7, <2>1, InBlock DEF N
<1>9. ASSUME NEW y \in 0..B - 1, (n + y + 2) % B = 0 PROVE y = z
  <2> DEFINE N == n + y + 2
             p == N \div B
  <2>1. p \in Nat /\ N = p * B + (N % B)
    <3>1. N \in Nat
      BY <1>9
    <3> HIDE DEF N
    <3> QED BY <1>1, <3>1, DivMod
  <2>2. N = p * B /\ p * B \in Nat
    <3>1. p * B \in Nat
      BY <1>1, <2>1
    <3> QED BY <1>9, <2>1, <3>1
  <2> HIDE DEF p
  <2>3. y - z = p * B - v * B
    <3>1. v * B \in Nat
      BY <1>1, <1>7
    <3> QED BY <1>1, <1>4, <1>6, <1>9, <2>2, <3>1
  <2>4. ~(p < v)
    <3>1. p < v => p * B + B <= v * B
      BY <1>1, <1>7, <2>1, Multiples
    <3>2. v * B \in Nat
      BY <1>1, <1>7
    <3> QED BY <1>1, <1>4, <1>9, <2>2, <2>3, <3>1, <3>2
  <2>5. ~(v < p)
    <3>1. v < p => v * B + B <= p * B
      BY <1>1, <1>7, <2>1, Multiples
    <3>2. v * B \in Nat
      BY <1>1, <1>7
    <3> QED BY <1>1, <1>4, <1>9, <2>2, <2>3, <3>1, <3>2
  <2>6. p = v
    BY <1>7, <2>1, <2>4, <2>5
  <2> QED BY <1>1, <1>4, <1>7, <1>9, <2>3, <2>6
<1> QED BY <1>4, <1>8, <1>9

(* So it is for a count that is short of whole words. *)
LEMMA ZerosCounted ==
    ASSUME NEW n \in Nat, NEW c \in Nat, c % BlockSize = n % BlockSize,
           NEW z, z = (BlockSize - 2 - (c % Bytes)) % BlockSize
    PROVE  /\ z \in 0..BlockSize - 1 /\ (n + z + 2) % BlockSize = 0
           /\ \A y \in 0..BlockSize - 1 : (n + y + 2) % BlockSize = 0 => y = z
<1>1. BlockSize \in Nat \ {0}
  BY Sizes
<1>2. /\ z \in 0..BlockSize - 1 /\ (c + z + 2) % BlockSize = 0
      /\ \A y \in 0..BlockSize - 1 : (c + y + 2) % BlockSize = 0 => y = z
  BY ZerosAre
<1>3. ASSUME NEW y \in 0..BlockSize - 1
      PROVE  (c + y + 2) % BlockSize = (n + y + 2) % BlockSize
  <2> DEFINE x == y + 2
  <2>1. x \in Nat /\ c + y + 2 = c + x /\ n + y + 2 = n + x
    BY <1>1
  <2> HIDE DEF x
  <2>2. ((c % BlockSize) + x) % BlockSize = (c + x) % BlockSize
    BY <1>1, <2>1, ModPlus
  <2>3. ((n % BlockSize) + x) % BlockSize = (n + x) % BlockSize
    BY <1>1, <2>1, ModPlus
  <2> QED BY <2>1, <2>2, <2>3
<1> QED BY <1>2, <1>3, Zenon

(* There is one way to cut a message into blocks. *)
LEMMA BlocksAre ==
    ASSUME NEW n \in Nat, NEW m, Array(m, n), NEW b \in Nat, b * BlockSize <= n,
           NEW s, IsBlocks(s, m, b)
    PROVE  s = [k \in 1..b |-> SubSeq(m, (k - 1) * BlockSize + 1, k * BlockSize)]
<1> DEFINE cut == [k \in 1..b |-> SubSeq(m, (k - 1) * BlockSize + 1, k * BlockSize)]
<1>1. ASSUME NEW k \in 1..b PROVE s[k] = cut[k]
  <2> DEFINE a == (k - 1) * BlockSize
             e == k * BlockSize
             sub == SubSeq(m, a + 1, e)
  <2>1. a \in Nat /\ e = a + BlockSize /\ e <= b * BlockSize /\ BlockSize \in Nat
    BY BlockPlace, Sizes
  <2>2. e \in Nat /\ e <= n
    <3> HIDE DEF a, e
    <3>1. b * BlockSize \in Nat
      BY <2>1
    <3> QED BY <2>1, <3>1
  <2>3. IsPart(s[k], m, a, BlockSize)
    BY DEF IsBlocks
  <2>4. cut[k] = sub
    OBVIOUS
  <2> HIDE DEF cut, a, e
  <2>5. IsPart(sub, m, a, BlockSize)
    BY <2>1, <2>2, PartIs
  <2> HIDE DEF sub
  <2>6. sub = s[k]
    <3>1. Array(sub, BlockSize) /\ Array(s[k], BlockSize)
      BY <2>3, <2>5 DEF IsPart
    <3>2. \A x \in 1..BlockSize : sub[x] = s[k][x]
      BY <2>3, <2>5 DEF IsPart
    <3> DEFINE sk == s[k]
    <3> HIDE DEF sk
    <3>3. sub = sk
      BY <2>1, <3>1, <3>2, SameArray DEF sk
    <3> QED BY <3>3 DEF sk
  <2> QED BY <2>4, <2>6
<1>2. Array(cut, b)
  BY DEF Array
<1>3. Array(s, b)
  BY DEF IsBlocks
<1> HIDE DEF cut
<1>4. s = cut
  BY <1>1, <1>2, <1>3, SameArray
<1> QED BY <1>4 DEF cut

(* The first b blocks of a message. *)
Cut(m, b) == [k \in 1..b |-> SubSeq(m, (k - 1) * BlockSize + 1, k * BlockSize)]

Mark == <<<<"0x80", 0>>>>
CountBytes(n) == <<<<"count", (8 * n) \div Word>>, <<"count", (8 * n) % Word>>>>
Padding(m, z, c) == ((m \o Mark) \o Fill(z)) \o c

(* What the context becomes is the message, padded. *)
LEMMA PaddingFollows ==
    ASSUME NEW ctx, NEW m, NEW n \in Nat, NEW c, Array(m, n), Represents(ctx, m, n, c),
           NEW z, z = (BlockSize - 2 - ((c + 1) % Bytes)) % BlockSize, NEW counts, Array(counts, 2)
    PROVE  /\ (Appended(ctx, Mark).count[1] \div 8) = (c + 1) % Bytes
           /\ Represents(Appended(ZerosAppended(Appended(ctx, Mark), z), counts),
                         Padding(m, z, counts), n + 1 + z + 2, c + 1 + z + 2)
           /\ Array(Padding(m, z, counts), n + 1 + z + 2)
<1> DEFINE n1 == n + 1
           n2 == n1 + z
           c1 == c + 1
           c2 == c1 + z
           m1 == m \o Mark
           m2 == m1 \o Fill(z)
           m3 == m2 \o counts
           marked == Appended(ctx, Mark)
           zeroed == ZerosAppended(marked, z)
           final == Appended(zeroed, counts)
           one == 1
           two == 2
<1>1. n1 \in Nat /\ c1 \in Nat /\ one \in Nat /\ two \in Nat /\ one < Bytes /\ two < Bytes
  BY Sizes DEF Represents
<1>2. z \in Nat
  BY <1>1, ZerosAre
<1>3. n2 \in Nat
  BY <1>1, <1>2
<1>4. Array(Mark, one) /\ Array(counts, two)
  BY DEF Mark, Array
<1> HIDE DEF n1, n2, c1, c2, one, two
<1>5. Joined(m1, m, n, Mark, one) /\ n1 = n + one /\ c1 = c + one
  BY <1>1, <1>4, Joins DEF n1, c1, one
<1>6. Array(m1, n1)
  BY <1>5 DEF Joined
<1> HIDE DEF m1
<1>7. Represents(marked, m1, n1, c1)
  BY <1>1, <1>4, <1>5, ShortAppend
<1> HIDE DEF marked
<1>8. marked.count[1] \div 8 = c1 % Bytes
  BY <1>1, <1>7, Offset DEF Represents
<1>9. Joined(m2, m1, n1, Fill(z), z)
  <2>1. Array(Fill(z), z)
    BY DEF Fill, Array
  <2> HIDE DEF m2
  <2> QED BY <1>1, <1>2, <1>6, <2>1, Joins DEF m2
<1> HIDE DEF m2
<1>10. m2 = ZerosBehind(m1, n1, z)
  <2> DEFINE zb == ZerosBehind(m1, n1, z)
  <2>1. Joined(zb, m1, n1, Fill(z), z)
    <3>1. \A x \in 1..n1 : x \in 1..n1 + z /\ x <= n1
      BY <1>1, <1>2
    <3>2. \A x \in 1..z : n1 + x \in 1..n1 + z /\ ~(n1 + x <= n1)
      BY <1>1, <1>2
    <3>3. Array(zb, n1 + z)
      BY DEF ZerosBehind, Array
    <3>4. \A x \in 1..n1 : zb[x] = m1[x]
      BY <3>1 DEF ZerosBehind
    <3>5. \A x \in 1..z : zb[n1 + x] = Fill(z)[x]
      BY <3>2 DEF ZerosBehind, Fill
    <3> QED BY <3>3, <3>4, <3>5 DEF Joined
  <2> HIDE DEF zb
  <2>2. m2 = zb
    BY <1>1, <1>2, <1>9, <2>1, JoinedOnce
  <2> QED BY <2>2 DEF zb
<1>11. Represents(zeroed, m2, n2, c2)
  BY <1>1, <1>2, <1>6, <1>7, <1>10, ZerosFollow DEF n2, c2
<1>12. Array(m2, n2)
  BY <1>9 DEF Joined, n2
<1> HIDE DEF zeroed
<1>13. Joined(m3, m2, n2, counts, two)
  BY <1>1, <1>3, <1>4, <1>12, Joins
<1> HIDE DEF m3
<1>14. Represents(final, m3, n2 + two, c2 + two)
  BY <1>1, <1>3, <1>4, <1>11, <1>12, <1>13, ShortAppend
<1>15. Array(m3, n2 + two)
  BY <1>13 DEF Joined
<1> QED BY <1>8, <1>14, <1>15
        DEF final, zeroed, marked, m3, m2, m1, n2, n1, c2, c1, two, Padding

(* I2Sha1Finish (sha1.c:263-318): the digest is the standard's for the     *)
(* message that the context stands for.                                     *)
LEMMA FinishedIs ==
    ASSUME NEW ctx, NEW m, NEW n \in Nat, NEW c, Array(m, n), Represents(ctx, m, n, c),
           8 * c < Word * Word
    PROVE  Finished(ctx) = Sha1Counted(m, c)
<1> DEFINE z == (BlockSize - 2 - ((c + 1) % Bytes)) % BlockSize
           counts == CountBytes(c)
           N == n + 1 + z + 2
           padded == Padding(m, z, counts)
           final == Appended(ZerosAppended(Appended(ctx, Mark), z), counts)
           blocks == N \div BlockSize
<1>1. n + 1 \in Nat /\ c \in Nat /\ c % BlockSize = n % BlockSize /\ BlockSize \in Nat \ {0} /\ Word \in Nat \ {0}
  BY Sizes DEF Represents
<1>2. /\ z \in 0..BlockSize - 1 /\ N % BlockSize = 0
      /\ \A y \in 0..BlockSize - 1 : (n + 1 + y + 2) % BlockSize = 0 => y = z
  <2> DEFINE n1 == n + 1
             c1 == c + 1
  <2>1. n1 \in Nat /\ c1 \in Nat /\ c1 % BlockSize = n1 % BlockSize
    <3>1. ((c % BlockSize) + 1) % BlockSize = (c + 1) % BlockSize
      BY <1>1, ModPlus
    <3>2. ((n % BlockSize) + 1) % BlockSize = (n + 1) % BlockSize
      BY <1>1, ModPlus
    <3> QED BY <1>1, <3>1, <3>2
  <2> HIDE DEF n1, c1
  <2>2. /\ z \in 0..BlockSize - 1 /\ (n1 + z + 2) % BlockSize = 0
        /\ \A y \in 0..BlockSize - 1 : (n1 + y + 2) % BlockSize = 0 => y = z
    BY <2>1, ZerosCounted DEF c1
  <2> QED BY <2>2 DEF n1
<1>3. Array(counts, 2)
  BY DEF CountBytes, Array
<1> HIDE DEF counts
<1>4. /\ Appended(ctx, Mark).count[1] \div 8 = (c + 1) % Bytes
      /\ Represents(final, padded, N, c + 1 + z + 2) /\ Array(padded, N)
  BY <1>3, PaddingFollows
<1>5. N \in Nat
  BY <1>2
<1> HIDE DEF z, padded, final
<1>6. ctx.count = <<(8 * c) % Word, (8 * c) \div Word>>
  <2>1. ctx.count = CountOf(c)
    BY DEF Represents
  <2>2. ((8 * c) \div Word) % Word = (8 * c) \div Word
    <3> DEFINE bits == 8 * c
               high == bits \div Word
    <3>1. bits \in Nat /\ bits < Word * Word
      BY <1>1
    <3> HIDE DEF bits
    <3>2. high \in Nat /\ high * Word \in Nat /\ high * Word <= bits
      <4>1. /\ high \in Nat /\ bits % Word \in 0..Word - 1 /\ high * Word \in Nat
            /\ bits = high * Word + (bits % Word)
        BY <1>1, <3>1, DivMod
      <4> QED BY <3>1, <4>1
    <3> HIDE DEF high
    <3>3. high < Word
      <4>1. high * Word < Word * Word
        <5>1. Word * Word \in Nat
          BY <1>1
        <5> QED BY <3>1, <3>2, <5>1
      <4>2. ~(Word <= high)
        <5>1. Word < high => Word * Word + Word <= high * Word
          BY <1>1, <3>2, Multiples
        <5>2. Word * Word \in Nat
          BY <1>1
        <5> QED BY <1>1, <3>2, <4>1, <5>1, <5>2
      <4> QED BY <1>1, <3>2, <4>2
    <3>4. high % Word = high
      BY <1>1, <3>2, <3>3
    <3> QED BY <3>4 DEF high, bits
  <2> QED BY <2>1, <2>2 DEF CountOf
<1>7. Finished(ctx) = DigestOf(final.state)
  <2>1. Mark = <<<<"0x80", 0>>>>
    BY DEF Mark
  <2>2. counts = <<<<"count", ctx.count[2]>>, <<"count", ctx.count[1]>>>>
    BY <1>6 DEF counts, CountBytes
  <2>3. z = (BlockSize - 2 - (Appended(ctx, Mark).count[1] \div 8)) % BlockSize
    BY <1>4 DEF z
  <2> QED BY <2>1, <2>2, <2>3, Zenon DEF Finished, final
<1>8. IsBlocks(final.state, padded, blocks)
  BY <1>4 DEF Represents
<1>9. blocks \in Nat /\ blocks * BlockSize = N
  <2>1. blocks \in Nat /\ N = blocks * BlockSize + (N % BlockSize) /\ blocks * BlockSize \in Nat
    <3> HIDE DEF N
    <3> QED BY <1>1, <1>5, DivMod
  <2> HIDE DEF blocks, N
  <2> QED BY <1>2, <1>5, <2>1
<1>10. final.state = [k \in 1..blocks |-> SubSeq(padded, (k - 1) * BlockSize + 1, k * BlockSize)]
  <2>1. blocks * BlockSize <= N
    BY <1>5, <1>9
  <2> HIDE DEF blocks, N
  <2> QED BY <1>4, <1>5, <1>8, <1>9, <2>1, BlocksAre
<1>11. Len(m) = n /\ Len(padded) = N
  <2> HIDE DEF N
  <2> QED BY <1>4, <1>5, ArrayIsSeq
<1>12. (CHOOSE y \in 0..BlockSize - 1 : (Len(m) + 1 + y + 2) % BlockSize = 0) = z
  BY <1>2, <1>11
<1>13. Sha1Counted(m, c) = DigestOf(Cut(padded, blocks))
  <2> DEFINE zeros == CHOOSE y \in 0..BlockSize - 1 : (Len(m) + 1 + y + 2) % BlockSize = 0
             all == m \o <<<<"0x80", 0>>>> \o Fill(zeros)
                      \o <<<<"count", (8 * c) \div 2^WordBits>>,
                           <<"count", (8 * c) % 2^WordBits>>>>
  <2>1. Sha1Counted(m, c) = DigestOf(Cut(all, Len(all) \div BlockSize))
    BY Zenon DEF Sha1Counted, Cut
  <2>2. all = padded
    <3> HIDE DEF zeros
    <3>1. zeros = z
      BY <1>12 DEF zeros
    <3>2. padded = m \o <<<<"0x80", 0>>>> \o Fill(z)
                     \o <<<<"count", (8 * c) \div 2^WordBits>>,
                          <<"count", (8 * c) % 2^WordBits>>>>
      BY <1>11 DEF padded, Padding, counts, CountBytes, Mark, Word
    <3> QED BY <3>1, <3>2, Zenon
  <2> HIDE DEF all, N
  <2> QED BY <1>11, <2>1, <2>2
<1> QED BY <1>7, <1>10, <1>13 DEF Cut

(* The first data that a context is given. *)
LEMMA FirstAppend ==
    ASSUME NEW ctx, Array(ctx.buffer, BlockSize), NEW len \in Nat, len < Bytes,
           NEW data, Array(data, len)
    PROVE  Represents(Appended(Initialised(ctx), data), data, len, len)
<1> DEFINE n == 0
           m == <<>>
           init == Initialised(ctx)
<1>1. n \in Nat /\ n + len = len /\ Array(m, n) /\ Represents(init, m, n, n)
  BY NothingYet DEF Array
<1>2. Joined(data, m, n, data, len)
  <2>1. \A k \in 1..len : n + k = k
    OBVIOUS
  <2>2. \A k \in 1..n : data[k] = m[k]
    OBVIOUS
  <2> HIDE DEF n, m
  <2> QED BY <1>1, <2>1, <2>2 DEF Joined
<1> HIDE DEF n, m, init
<1>3. Represents(Appended(init, data), data, n + len, n + len)
  BY <1>1, <1>2, ShortAppend
<1> QED BY <1>1, <1>3 DEF init

LEMMA Bits ==
    /\ \A n \in Nat : n < Bytes => 8 * n < Word * Word
    /\ 8 * (BlockSize + DigestSize) < Word * Word
    /\ Array(Wiped.buffer, BlockSize)
    /\ \A s : Array(DigestOf(s), DigestSize)
    /\ \A m, c : Array(Sha1Counted(m, c), DigestSize)
<1>1. /\ BlockSize \in Nat /\ BlockSize > 2 /\ DigestSize \in Nat /\ DigestSize <= BlockSize
      /\ Bytes \in Nat /\ Word \in Nat /\ Word = 8 * Bytes /\ BlockSize < Bytes
  BY Sizes
<1>2. Word * Word \in Nat /\ 2 * Word <= Word * Word
  <2>1. Word > 2
    BY <1>1
  <2> DEFINE W == Word
  <2>2. 2 * W + W <= W * W
    <3>1. W \in Nat /\ 2 \in Nat /\ 2 < W
      BY <1>1, <2>1
    <3> HIDE DEF W
    <3> QED BY <3>1, Multiples
  <2> HIDE DEF W
  <2>3. W * W \in Nat /\ W \in Nat
    BY <1>1 DEF W
  <2> QED BY <2>2, <2>3 DEF W
<1> DEFINE WW == Word * Word
<1> HIDE DEF WW
<1>3. WW \in Nat /\ 2 * Word <= WW
  BY <1>2 DEF WW
<1>4. /\ \A n \in Nat : n < Bytes => 8 * n < WW
      /\ 8 * (BlockSize + DigestSize) < WW
  BY <1>1, <1>3
<1>5. Array(Wiped.buffer, BlockSize)
  BY DEF Wiped, Fill, Array
<1>6. \A s : Array(DigestOf(s), DigestSize)
  BY DEF DigestOf, Array
<1>7. \A m, c : Array(Sha1Counted(m, c), DigestSize)
  <2> TAKE m, c
  <2>1. \E s : Sha1Counted(m, c) = DigestOf(s)
    BY DEF Sha1Counted
  <2> QED BY <1>6, <2>1
<1> QED BY <1>4, <1>5, <1>6, <1>7 DEF WW

(* I2Sha1 (sha1.c:320-341). *)
LEMMA DigestAtOnce ==
    ASSUME NEW len \in Nat, len < Bytes, NEW data, Array(data, len)
    PROVE  I2Sha1(data) = Sha1Of(data)
<1>1. Represents(Appended(Initialised(Wiped), data), data, len, len)
  BY Bits, FirstAppend
<1>2. 8 * len < Word * Word
  BY Bits
<1>3. Finished(Appended(Initialised(Wiped), data)) = Sha1Counted(data, len)
  BY <1>1, <1>2, FinishedIs
<1>4. Len(data) = len
  BY ArrayIsSeq
<1> QED BY <1>3, <1>4 DEF I2Sha1, Sha1Of
-----------------------------------------------------------------------------
(*                                 HMAC                                    *)

(* A long key is digested first, and a short one filled up with zeros.      *)
HmacKey(k) ==
    LET short == IF Len(k) > BlockSize THEN Sha1Of(k) ELSE k
    IN short \o Fill(BlockSize - Len(short))

LEMMA KeyPadded ==
    ASSUME NEW n \in Nat, n < Bytes, NEW k, Array(k, n)
    PROVE  PaddedKey(k) = HmacKey(k) /\ Array(PaddedKey(k), BlockSize)
<1> DEFINE short == IF Len(k) > BlockSize THEN Sha1Of(k) ELSE k
           s == IF n > BlockSize THEN DigestSize ELSE n
           f == BlockSize - s
           padded == Overwrite(Fill(BlockSize), 0, short)
           filled == Fill(f)
<1>1. Len(k) = n
  BY ArrayIsSeq
<1>2. BlockSize \in Nat /\ s \in Nat /\ s <= BlockSize /\ f \in Nat /\ s + f = BlockSize
  BY Sizes
<1>3. Array(short, s)
  BY <1>1, Bits DEF Sha1Of
<1>4. PaddedKey(k) = padded
  BY <1>1, DigestAtOnce DEF PaddedKey
<1> HIDE DEF short, s
<1>5. Len(short) = s
  BY <1>2, <1>3, ArrayIsSeq
<1>6. Array(filled, f) /\ Array(Fill(BlockSize), BlockSize) /\ \A x \in 1..f : filled[x] = Zero
  BY DEF Fill, Array
<1>7. Array(padded, BlockSize)
  <2>1. 0 \in Nat
    OBVIOUS
  <2> QED BY <1>2, <1>3, <1>6, <2>1, Overwritten
<1>8. Joined(padded, short, s, filled, f)
  <2> DEFINE fb == Fill(BlockSize)
             o == 0
  <2>1. /\ \A x \in 1..s : x \in 1..BlockSize /\ x \in o + 1..o + s /\ x - o = x
        /\ \A x \in 1..f : s + x \in 1..BlockSize /\ ~(s + x \in o + 1..o + s)
        /\ o \in Nat
    BY <1>2
  <2>2. \A x \in 1..BlockSize : fb[x] = Zero
    BY DEF Fill
  <2>3. \A x \in 1..BlockSize :
          Overwrite(fb, o, short)[x] = IF x \in o + 1..o + s THEN short[x - o] ELSE fb[x]
    <3> HIDE DEF fb, o
    <3> QED BY <1>2, <1>3, <1>6, <2>1, OverwrittenAt DEF fb
  <2>4. padded = Overwrite(fb, o, short)
    OBVIOUS
  <2> HIDE DEF padded, fb, o, filled, f
  <2>5. \A x \in 1..s : padded[x] = short[x]
    BY <2>1, <2>3, <2>4
  <2>6. \A x \in 1..f : padded[s + x] = filled[x]
    BY <1>6, <2>1, <2>2, <2>3, <2>4
  <2> QED BY <1>2, <1>7, <2>5, <2>6 DEF Joined
<1>9. Joined(short \o filled, short, s, filled, f)
  <2> HIDE DEF filled, f
  <2> QED BY <1>2, <1>3, <1>6, Joins
<1>10. padded = short \o filled
  <2> DEFINE both == short \o filled
  <2> HIDE DEF both, padded, filled, f
  <2>1. Joined(both, short, s, filled, f)
    BY <1>9 DEF both
  <2>2. padded = both
    BY <1>2, <1>8, <2>1, JoinedOnce
  <2> QED BY <2>2 DEF both
<1>11. HmacKey(k) = short \o filled
  BY <1>5 DEF HmacKey, short
<1> HIDE DEF padded
<1> QED BY <1>4, <1>7, <1>10, <1>11

LEMMA XorArray ==
    ASSUME NEW n \in Nat, NEW s, Array(s, n), NEW pad
    PROVE  Array(Xored(pad, s), n)
<1>1. DOMAIN s = 1..n
  BY ArrayIsSeq
<1> QED BY <1>1 DEF Xored, Array

LEMMA LongerMessage ==
    ASSUME NEW a \in Nat, NEW i, Array(i, a), NEW n \in Nat, NEW m, Array(m, n),
           NEW l \in Nat, NEW d, Array(d, l)
    PROVE  Joined(i \o (m \o d), i \o m, a + n, d, l) /\ Array(i \o m, a + n)
<1> DEFINE im == i \o m
           md == m \o d
           imd == i \o md
           an == a + n
           nl == n + l
<1>1. an \in Nat /\ nl \in Nat /\ a + nl = an + l
  OBVIOUS
<1>2. Joined(im, i, a, m, n) /\ Joined(md, m, n, d, l)
  BY Joins
<1>3. Array(md, nl)
  BY <1>2 DEF Joined
<1> HIDE DEF im, md, an, nl
<1>4. Joined(imd, i, a, md, nl)
  BY <1>1, <1>3, Joins
<1> HIDE DEF imd
<1>5. Array(imd, an + l) /\ Array(im, an)
  BY <1>1, <1>2, <1>4 DEF Joined, an
<1>6. ASSUME NEW x \in 1..an PROVE imd[x] = im[x]
  <2>1. CASE x <= a
    <3>1. x \in 1..a
      BY <1>1, <2>1
    <3> QED BY <1>2, <1>4, <3>1 DEF Joined
  <2>2. CASE ~(x <= a)
    <3> DEFINE y == x - a
    <3>1. y \in 1..n /\ y \in 1..nl /\ a + y = x
      BY <1>1, <2>2 DEF an, nl
    <3> HIDE DEF y
    <3>2. im[a + y] = m[y] /\ imd[a + y] = md[y] /\ md[y] = m[y]
      BY <1>2, <1>4, <3>1 DEF Joined
    <3> QED BY <3>1, <3>2
  <2> QED BY <2>1, <2>2
<1>7. ASSUME NEW x \in 1..l PROVE imd[an + x] = d[x]
  <2> DEFINE y == n + x
  <2>1. y \in 1..nl /\ a + y = an + x
    BY DEF an, nl
  <2>2. md[y] = d[x]
    BY <1>2 DEF Joined
  <2> HIDE DEF y
  <2>3. imd[a + y] = md[y]
    BY <1>4, <2>1 DEF Joined
  <2> QED BY <2>1, <2>2, <2>3
<1>8. Joined(imd, im, an, d, l)
  BY <1>5, <1>6, <1>7 DEF Joined
<1> QED BY <1>5, <1>8 DEF imd, im, md, an

(* All that can be counted fits in the two words. *)
LEMMA CountFits ==
    ASSUME NEW c \in Nat, c <= BlockSize + MaxMessage PROVE 8 * c < Word * Word
<1>1. /\ BlockSize \in Nat /\ MaxMessage \in Nat /\ Word \in Nat
      /\ 8 * (BlockSize + MaxMessage) < Word * Word
  BY Sizes
<1> DEFINE WW == Word * Word
<1>2. WW \in Nat /\ 8 * (BlockSize + MaxMessage) < WW
  BY <1>1
<1> HIDE DEF WW
<1>3. 8 * c < WW
  BY <1>1, <1>2
<1> QED BY <1>3 DEF WW

(* I2HMACSha1Finish (hmac-sha1.c): the inner digest, behind the outer key. *)
LEMMA HmacFinishedIs ==
    ASSUME NEW nk \in Nat, nk < Bytes, NEW k, Array(k, nk),
           NEW n \in Nat, n <= MaxMessage, NEW m, Array(m, n),
           NEW c, c <= BlockSize + n,
           NEW ctx, Represents(ctx, Xored("ipad", PaddedKey(k)) \o m, BlockSize + n, c),
           NEW opad, opad = Xored("opad", PaddedKey(k))
    PROVE  Finished(Appended(Appended(Initialised(Wiped), opad), Finished(ctx)))
             = HmacCounted(k, m, c)
<1> DEFINE ipad == Xored("ipad", PaddedKey(k))
           text == ipad \o m
           inner == Finished(ctx)
           bn == BlockSize + n
           bd == BlockSize + DigestSize
           first == Appended(Initialised(Wiped), opad)
           both == opad \o inner
<1>1. /\ BlockSize \in Nat /\ BlockSize < Bytes /\ DigestSize \in Nat /\ DigestSize < Bytes
      /\ bn \in Nat /\ bd \in Nat
  BY Sizes
<1>2. PaddedKey(k) = HmacKey(k) /\ Array(PaddedKey(k), BlockSize)
  BY KeyPadded
<1>3. Array(ipad, BlockSize) /\ Array(opad, BlockSize)
  BY <1>1, <1>2, XorArray
<1> HIDE DEF bn, bd, ipad
<1>4. Array(text, bn)
  <2>1. Joined(text, ipad, BlockSize, m, n)
    BY <1>1, <1>3, Joins
  <2> QED BY <2>1 DEF Joined, bn
<1>5. c \in Nat /\ 8 * c < Word * Word
  <2>1. c \in Nat /\ c <= BlockSize + MaxMessage /\ MaxMessage \in Nat
    BY <1>1, Sizes DEF Represents
  <2> QED BY <2>1, CountFits
<1>6. Represents(ctx, text, bn, c)
  BY DEF text, ipad, bn
<1> HIDE DEF text
<1>7. inner = Sha1Counted(text, c)
  BY <1>1, <1>4, <1>5, <1>6, FinishedIs
<1>8. Array(inner, DigestSize)
  BY <1>7, Bits
<1> HIDE DEF inner
<1>9. Represents(first, opad, BlockSize, BlockSize)
  BY <1>1, <1>3, Bits, FirstAppend
<1>10. Joined(both, opad, BlockSize, inner, DigestSize)
  BY <1>1, <1>3, <1>8, Joins
<1>11. Array(both, bd)
  BY <1>10 DEF Joined, bd
<1> HIDE DEF first, both
<1>12. Represents(Appended(first, inner), both, bd, bd)
  BY <1>1, <1>3, <1>8, <1>9, <1>10, ShortAppend DEF bd
<1>13. 8 * bd < Word * Word
  BY Bits DEF bd
<1>14. Finished(Appended(first, inner)) = Sha1Of(both)
  <2>1. Finished(Appended(first, inner)) = Sha1Counted(both, bd)
    BY <1>1, <1>11, <1>12, <1>13, FinishedIs
  <2>2. Len(both) = bd
    BY <1>1, <1>11, ArrayIsSeq
  <2> QED BY <2>1, <2>2 DEF Sha1Of
<1>15. HmacCounted(k, m, c) = Sha1Of(both)
  <2>1. HmacCounted(k, m, c) =
          Sha1Of(Xored("opad", HmacKey(k)) \o Sha1Counted(Xored("ipad", HmacKey(k)) \o m, c))
    BY Zenon DEF HmacCounted, HmacKey
  <2>2. both = Xored("opad", HmacKey(k)) \o Sha1Counted(Xored("ipad", HmacKey(k)) \o m, c)
    BY <1>2, <1>7 DEF both, text, ipad
  <2> QED BY <2>1, <2>2
<1> QED BY <1>14, <1>15 DEF first, inner
-----------------------------------------------------------------------------
(*                   The invariant of the two contexts                     *)

HmacIsRecord == hmac = [used |-> hmac.used, opad |-> hmac.opad] /\ hmac.used \in BOOLEAN

Lasting ==
    /\ HmacIsRecord /\ Array(hmac.opad, BlockSize) /\ Array(sha.buffer, BlockSize)
    /\ Len(message) \in 0..MaxMessage /\ Array(message, Len(message))
    /\ \A x \in 1..Len(message) : message[x][1] \in Byte
    /\ reckoned \in Nat /\ reckoned <= BlockSize + Len(message)
    /\ Len(key) \in Nat /\ Len(key) < Bytes /\ Array(key, Len(key))
    /\ digested # <<>> => sha = Wiped /\ Array(digested.digest, DigestSize)

(* Unless it is finished, a context stands for the bytes that were appended *)
(* since it was initialised, behind the inner key when it is one of HMAC,   *)
(* and its count for those they were reckoned as.                           *)
Inner == Xored("ipad", PaddedKey(key))
Stands ==
    digested = <<>> =>
      /\ ~hmac.used => Represents(sha, message, Len(message), reckoned)
      /\ hmac.used => /\ hmac.opad = Xored("opad", PaddedKey(key))
                      /\ Represents(sha, Inner \o message, BlockSize + Len(message), reckoned)

ContextInv == Lasting /\ Stands /\ DigestIsOfTheMessage

LEMMA EmptyArray == Array(<<>>, 0) /\ Len(<<>>) = 0
  BY DEF Array

LEMMA ContextInit == DigestInit => ContextInv
<1> SUFFICES ASSUME DigestInit PROVE ContextInv
  OBVIOUS
<1>1. /\ sha = Wiped /\ hmac = [used |-> FALSE, opad |-> Fill(BlockSize)]
      /\ message = <<>> /\ key = <<>> /\ reckoned = 0 /\ digested = None
  BY DEF DigestInit
<1>2. digested # <<>>
  <2>1. digested.of = "none" /\ DOMAIN digested = {"digest", "of"}
    BY <1>1 DEF None
  <2>2. DOMAIN <<>> = {}
    OBVIOUS
  <2> QED BY <2>1, <2>2
<1>3. Array(Fill(BlockSize), BlockSize) /\ Array(digested.digest, DigestSize)
  BY <1>1 DEF None, Fill, Array
<1>4. HmacIsRecord /\ Array(hmac.opad, BlockSize) /\ Array(sha.buffer, BlockSize)
  <2> DEFINE fill == Fill(BlockSize)
  <2> HIDE DEF fill
  <2>1. hmac = [used |-> FALSE, opad |-> fill]
    BY <1>1 DEF fill
  <2>2. hmac.used = FALSE /\ hmac.opad = fill /\ HmacIsRecord
    BY <2>1 DEF HmacIsRecord
  <2> QED BY <1>1, <1>3, <2>2, Bits DEF fill
<1>5. Len(message) = 0 /\ Len(key) = 0 /\ Array(message, 0) /\ Array(key, 0)
  BY <1>1, EmptyArray
<1>6. Lasting
  <2>1. 0 \in 0..MaxMessage /\ 0 \in Nat /\ 0 < Bytes /\ 0 <= BlockSize + 0
    BY Sizes
  <2>2. \A x \in 1..Len(message) : message[x][1] \in Byte
    BY <1>5
  <2> QED BY <1>1, <1>3, <1>4, <1>5, <2>1, <2>2 DEF Lasting
<1> QED BY <1>1, <1>2, <1>6 DEF ContextInv, Stands, DigestIsOfTheMessage

LEMMA NamedIs ==
    \A n \in Nat : \A kind : Array(Named(kind, n), n) /\ Len(Named(kind, n)) = n
<1> TAKE n \in Nat
<1> TAKE kind
<1>1. Array(Named(kind, n), n)
  BY DEF Named, Array
<1> QED BY <1>1, ArrayIsSeq

LEMMA ShaStarts == ASSUME ContextInv, I2Sha1Init PROVE ContextInv'
<1>1. /\ sha' = Initialised(sha) /\ hmac' = [hmac EXCEPT !.used = FALSE]
      /\ message' = <<>> /\ key' = <<>> /\ reckoned' = 0 /\ digested' = <<>>
  BY DEF I2Sha1Init
<1>2. HmacIsRecord /\ Array(hmac.opad, BlockSize) /\ Array(sha.buffer, BlockSize)
  BY DEF ContextInv, Lasting
<1>3. hmac' = [used |-> FALSE, opad |-> hmac.opad]
  BY <1>1, <1>2 DEF HmacIsRecord
<1>4. hmac'.used = FALSE /\ hmac'.opad = hmac.opad /\ HmacIsRecord'
  BY <1>3 DEF HmacIsRecord
<1>5. Len(message') = 0 /\ Len(key') = 0 /\ Array(message', 0) /\ Array(key', 0)
  BY <1>1, EmptyArray
<1>6. Represents(sha', message', 0, reckoned')
  BY <1>1, <1>2, NothingYet
<1>7. Lasting'
  <2>1. 0 \in 0..MaxMessage /\ 0 \in Nat /\ 0 < Bytes /\ 0 <= BlockSize + 0
    BY Sizes
  <2>2. \A x \in 1..Len(message') : message'[x][1] \in Byte
    BY <1>5
  <2>3. Array(sha'.buffer, BlockSize)
    BY <1>6 DEF Represents
  <2>4. Array(hmac'.opad, BlockSize)
    BY <1>2, <1>4
  <2> QED BY <1>1, <1>4, <1>5, <2>1, <2>2, <2>3, <2>4 DEF Lasting
<1>8. Stands'
  BY <1>4, <1>5, <1>6 DEF Stands
<1> QED BY <1>1, <1>7, <1>8 DEF ContextInv, DigestIsOfTheMessage

LEMMA HmacStarts == ASSUME ContextInv, I2HMACSha1Init PROVE ContextInv'
<1>1. PICK n \in KeySizes : key' = Named("key", n)
  BY DEF I2HMACSha1Init
<1> DEFINE padded == PaddedKey(key')
           inner == Xored("ipad", padded)
           outer == Xored("opad", padded)
<1>2. /\ hmac' = [used |-> TRUE, opad |-> outer] /\ sha' = Appended(Initialised(sha), inner)
      /\ message' = <<>> /\ reckoned' = BlockSize /\ digested' = <<>>
  BY DEF I2HMACSha1Init
<1>3. n \in Nat /\ n < Bytes /\ BlockSize \in Nat /\ BlockSize < Bytes
  BY Sizes
<1>4. Array(key', n) /\ Len(key') = n
  BY <1>1, <1>3, NamedIs
<1>5. Array(padded, BlockSize)
  <2> DEFINE k == key'
  <2> HIDE DEF k
  <2>1. Array(PaddedKey(k), BlockSize)
    BY <1>3, <1>4, KeyPadded DEF k
  <2> QED BY <2>1 DEF k
<1> HIDE DEF padded
<1>6. Array(inner, BlockSize) /\ Array(outer, BlockSize)
  BY <1>3, <1>5, XorArray
<1>7. Array(sha.buffer, BlockSize)
  BY DEF ContextInv, Lasting
<1> HIDE DEF inner, outer
<1>8. Represents(sha', inner, BlockSize, reckoned')
  BY <1>2, <1>3, <1>6, <1>7, FirstAppend
<1>9. hmac'.used = TRUE /\ hmac'.opad = outer /\ HmacIsRecord'
  BY <1>2 DEF HmacIsRecord
<1>10. Len(message') = 0 /\ Array(message', 0)
  BY <1>2, EmptyArray
<1>11. inner \o message' = inner
  <2> DEFINE none == message'
             zero == 0
             both == inner \o none
  <2>1. zero \in Nat /\ BlockSize + zero = BlockSize /\ Array(none, zero)
    BY <1>3, <1>10
  <2> HIDE DEF none, zero
  <2>2. Joined(both, inner, BlockSize, none, zero)
    BY <1>3, <1>6, <2>1, Joins
  <2>3. Joined(inner, inner, BlockSize, none, zero)
    <3>1. \A x \in 1..zero : FALSE
      BY DEF zero
    <3> QED BY <1>6, <2>1, <3>1 DEF Joined
  <2> HIDE DEF both
  <2>4. both = inner
    BY <1>3, <2>1, <2>2, <2>3, JoinedOnce
  <2> QED BY <2>4 DEF both, none
<1>12. Lasting'
  <2>1. 0 \in 0..MaxMessage /\ BlockSize <= BlockSize + 0
    BY Sizes
  <2>2. \A x \in 1..Len(message') : message'[x][1] \in Byte
    BY <1>10
  <2>3. Array(sha'.buffer, BlockSize)
    BY <1>8 DEF Represents
  <2>4. Array(hmac'.opad, BlockSize)
    BY <1>6, <1>9
  <2> QED BY <1>2, <1>3, <1>4, <1>9, <1>10, <2>1, <2>2, <2>3, <2>4 DEF Lasting
<1>13. Stands'
  <2>1. Inner' = inner /\ hmac'.opad = Xored("opad", PaddedKey(key'))
    BY <1>9 DEF Inner, inner, outer, padded
  <2>2. Represents(sha', Inner' \o message', BlockSize + Len(message'), reckoned')
    <3>1. BlockSize + Len(message') = BlockSize
      BY <1>3, <1>10
    <3> QED BY <1>8, <1>11, <2>1, <3>1
  <2> QED BY <1>9, <2>1, <2>2 DEF Stands
<1> QED BY <1>2, <1>12, <1>13 DEF ContextInv, DigestIsOfTheMessage

LEMMA MessageGrows == ASSUME ContextInv, AppendData PROVE ContextInv'
<1>1. PICK len \in AppendSizes :
        /\ Len(message) + len <= MaxMessage
        /\ sha' = Appended(sha, [k \in 1..len |-> <<"data", Len(message) + k>>])
        /\ message' = message \o [k \in 1..len |-> <<"data", Len(message) + k>>]
        /\ reckoned' = Reckoned(reckoned, len)
  BY DEF AppendData
<1> DEFINE n == Len(message)
           data == [k \in 1..len |-> <<"data", n + k>>]
<1>2. sha' = Appended(sha, data) /\ message' = message \o data /\ n + len <= MaxMessage
      /\ reckoned' = Reckoned(reckoned, len)
  BY <1>1
<1>3. digested = <<>> /\ UNCHANGED <<hmac, key, digested>>
  BY DEF AppendData
<1>4. /\ HmacIsRecord /\ Array(hmac.opad, BlockSize) /\ n \in 0..MaxMessage /\ Array(message, n)
      /\ Len(key) \in Nat /\ Len(key) < Bytes /\ Array(key, Len(key))
      /\ \A x \in 1..n : message[x][1] \in Byte
      /\ reckoned \in Nat /\ reckoned <= BlockSize + n
  BY DEF ContextInv, Lasting
<1>5. /\ len \in Nat /\ MaxMessage \in Nat /\ n \in Nat
      /\ BlockSize \in Nat /\ BlockSize < Bytes
  BY <1>4, Sizes
<1>6. Array(data, len) /\ \A k \in 1..len : data[k][1] \in Byte
  BY DEF Array, Byte
<1> HIDE DEF n, data
<1>7. Joined(message', message, n, data, len)
  BY <1>2, <1>4, <1>5, <1>6, Joins
<1>8. Array(message', n + len) /\ Len(message') = n + len
  <2>1. n + len \in Nat /\ Array(message', n + len)
    BY <1>5, <1>7 DEF Joined
  <2> DEFINE nl == n + len
  <2> HIDE DEF nl
  <2>2. Len(message') = nl
    BY <2>1, ArrayIsSeq DEF nl
  <2> QED BY <2>1, <2>2 DEF nl
<1>9. Stands' /\ Array(sha'.buffer, BlockSize)
  <2>1. CASE ~hmac.used
    <3>1. Represents(sha, message, n, reckoned)
      BY <1>3, <2>1 DEF ContextInv, Stands, n
    <3>2. Represents(sha', message', n + len, reckoned')
      BY <1>2, <1>4, <1>5, <1>6, <1>7, <3>1, AppendFollows
    <3> QED BY <1>3, <1>8, <2>1, <3>2 DEF Stands, Represents
  <2>2. CASE hmac.used
    <3> DEFINE i == Inner
               bn == BlockSize + n
    <3>1. Represents(sha, i \o message, bn, reckoned) /\ hmac.opad = Xored("opad", PaddedKey(key))
      BY <1>3, <2>2 DEF ContextInv, Stands, n
    <3>2. Array(i, BlockSize)
      BY <1>4, <1>5, KeyPadded, XorArray DEF Inner
    <3>3. Inner' = i
      BY <1>3 DEF Inner
    <3> HIDE DEF i
    <3> DEFINE im == i \o message
               imd == i \o (message \o data)
    <3>4. Joined(imd, im, bn, data, len) /\ Array(im, bn)
      BY <1>4, <1>5, <1>6, <3>2, LongerMessage
    <3>5. bn \in Nat
      BY <1>5
    <3>6. bn + len = BlockSize + (n + len)
      BY <1>5
    <3> HIDE DEF im, imd, bn
    <3>7. Represents(Appended(sha, data), imd, bn + len, reckoned')
      BY <1>5, <1>6, <1>2, <3>1, <3>4, <3>5, AppendFollows DEF im
    <3>8. Represents(sha', Inner' \o message', BlockSize + Len(message'), reckoned')
      BY <1>2, <1>8, <3>3, <3>6, <3>7 DEF imd
    <3> QED BY <1>3, <2>2, <3>1, <3>8 DEF Stands, Represents
  <2> QED BY <2>1, <2>2
<1>10. Lasting'
  <2>1. n + len \in 0..MaxMessage
    BY <1>2, <1>5
  <2>2. ASSUME NEW x \in 1..n + len PROVE message'[x][1] \in Byte
    <3>1. CASE x <= n
      <4>1. x \in 1..n
        BY <1>5, <3>1
      <4> QED BY <1>4, <1>7, <4>1 DEF Joined
    <3>2. CASE ~(x <= n)
      <4> DEFINE y == x - n
      <4>1. y \in 1..len /\ n + y = x
        BY <1>5, <3>2
      <4> HIDE DEF y
      <4>2. message'[n + y] = data[y]
        BY <1>7, <4>1 DEF Joined
      <4> QED BY <1>6, <4>1, <4>2
    <3> QED BY <3>1, <3>2
  <2>3. reckoned' \in Nat /\ reckoned' <= BlockSize + (n + len)
    <3>1. Reckoned(reckoned, len) \in Nat /\ Reckoned(reckoned, len) <= reckoned + len
      BY <1>4, <1>5, ReckonedIs
    <3> QED BY <1>2, <1>4, <1>5, <3>1
  <2> QED BY <1>3, <1>4, <1>8, <1>9, <2>1, <2>2, <2>3 DEF Lasting, HmacIsRecord
<1>11. DigestIsOfTheMessage'
  BY <1>3 DEF DigestIsOfTheMessage
<1> QED BY <1>9, <1>10, <1>11 DEF ContextInv

LEMMA ShaEnds == ASSUME ContextInv, I2Sha1Finish PROVE ContextInv'
<1>1. /\ digested = <<>> /\ ~hmac.used /\ digested' = [digest |-> Finished(sha), of |-> "sha1"]
      /\ sha' = Wiped /\ UNCHANGED <<hmac, message, key, reckoned>>
  BY DEF I2Sha1Finish
<1>2. Lasting /\ Stands
  BY DEF ContextInv
<1> DEFINE n == Len(message)
           d == Finished(sha)
<1>3. Represents(sha, message, n, reckoned) /\ Array(message, n) /\ n \in 0..MaxMessage
      /\ reckoned \in Nat /\ reckoned <= BlockSize + n
  BY <1>1, <1>2 DEF Stands, Lasting
<1>4. n \in Nat /\ 8 * reckoned < Word * Word
  <2>1. n \in Nat /\ reckoned <= BlockSize + MaxMessage
    BY <1>3, Sizes
  <2> QED BY <1>3, <2>1, CountFits
<1> HIDE DEF n
<1>5. d = Sha1Counted(message, reckoned)
  BY <1>3, <1>4, FinishedIs
<1> HIDE DEF d
<1>6. digested' = [digest |-> d, of |-> "sha1"]
  BY <1>1 DEF d
<1>7. digested'.digest = d /\ digested'.of = "sha1" /\ digested' # <<>> /\ Array(d, DigestSize)
  BY <1>5, <1>6, Bits
<1>8. Lasting'
  BY <1>1, <1>2, <1>7, Bits DEF Lasting, HmacIsRecord
<1> QED BY <1>1, <1>5, <1>7, <1>8 DEF ContextInv, Stands, DigestIsOfTheMessage

LEMMA HmacEnds == ASSUME ContextInv, I2HMACSha1Finish PROVE ContextInv'
<1> DEFINE d == Finished(Appended(Appended(Initialised(Wiped), hmac.opad), Finished(sha)))
           n == Len(message)
           nk == Len(key)
<1>1. /\ digested = <<>> /\ hmac.used /\ digested' = [digest |-> d, of |-> "hmac"]
      /\ sha' = Wiped /\ UNCHANGED <<hmac, message, key, reckoned>>
  BY DEF I2HMACSha1Finish
<1>2. Lasting /\ Stands
  BY DEF ContextInv
<1>3. /\ hmac.opad = Xored("opad", PaddedKey(key))
      /\ Represents(sha, Xored("ipad", PaddedKey(key)) \o message, BlockSize + n, reckoned)
  BY <1>1, <1>2 DEF Stands, Inner
<1>4. /\ n \in 0..MaxMessage /\ Array(message, n) /\ nk \in Nat /\ nk < Bytes /\ Array(key, nk)
      /\ MaxMessage \in Nat /\ reckoned <= BlockSize + n
  BY <1>2, Sizes DEF Lasting
<1> HIDE DEF n, nk
<1>5. n \in Nat /\ n <= MaxMessage
  BY <1>4
<1>6. d = HmacCounted(key, message, reckoned)
  BY <1>3, <1>4, <1>5, HmacFinishedIs
<1> HIDE DEF d
<1>7. digested'.digest = d /\ digested'.of = "hmac" /\ digested' # <<>>
  BY <1>1
<1>8. Array(d, DigestSize)
  <2>1. \E m : HmacCounted(key, message, reckoned) = Sha1Counted(m, Len(m))
    BY DEF HmacCounted, Sha1Of
  <2> QED BY <1>6, <2>1, Bits
<1>9. Lasting'
  BY <1>1, <1>2, <1>7, <1>8, Bits DEF Lasting, HmacIsRecord
<1> QED BY <1>1, <1>6, <1>7, <1>9 DEF ContextInv, Stands, DigestIsOfTheMessage

LEMMA ContextStep == ContextInv /\ [DigestNext]_digestVars => ContextInv'
<1> SUFFICES ASSUME ContextInv, [DigestNext]_digestVars PROVE ContextInv'
  OBVIOUS
<1>1. ASSUME UNCHANGED <<sha, hmac, message, key, reckoned, digested>> PROVE ContextInv'
  BY <1>1 DEF ContextInv, Lasting, HmacIsRecord, Stands, Inner, DigestIsOfTheMessage
<1>2. CASE I2pbkdf2 \/ F_First \/ F_Next \/ F_Returns
  BY <1>1, <1>2 DEF I2pbkdf2, F_First, F_Next, F_Returns
<1>3. CASE UNCHANGED digestVars
  BY <1>1, <1>3 DEF digestVars
<1> QED BY <1>2, <1>3, ShaStarts, HmacStarts, MessageGrows, ShaEnds, HmacEnds DEF DigestNext

(* However a message is cut into appends of any size, whatever the context  *)
(* held before, and when the count of bits wraps, the digest that           *)
(* I2Sha1Finish or I2HMACSha1Finish returns is that of the standards for    *)
(* the whole message, with the length that sha1.c:230-231 reckoned it to    *)
(* have (sha1.c:205-318, hmac-sha1.c).                                      *)
THEOREM DigestsAreStandard == DigestSpec => []DigestIsOfTheMessage
<1>1. DigestInit => ContextInv
  BY ContextInit
<1>2. ContextInv /\ [DigestNext]_digestVars => ContextInv'
  BY ContextStep
<1>3. ContextInv => DigestIsOfTheMessage
  BY DEF ContextInv
<1> QED BY <1>1, <1>2, <1>3, PTL DEF DigestSpec

(* When no append has 2^29 bytes or more, all of the message is counted. *)
ShortAppends == \A len \in AppendSizes : len < Bytes
AllCounted ==
    digested # None =>
        /\ reckoned = Len(message) + (IF hmac.used THEN BlockSize ELSE 0)
        /\ digested # <<>> => digested.of = IF hmac.used THEN "hmac" ELSE "sha1"
IsStandard ==
    digested \notin {<<>>, None} =>
        digested.digest = IF digested.of = "sha1" THEN Sha1Of(message) ELSE HmacOf(key, message)

LEMMA CountedInit == DigestInit => AllCounted
  BY DEF DigestInit, AllCounted

LEMMA CountedStep ==
    ASSUME ShortAppends, ContextInv, AllCounted, [DigestNext]_digestVars PROVE AllCounted'
<1>1. ASSUME UNCHANGED <<sha, hmac, message, key, reckoned, digested>> PROVE AllCounted'
  BY <1>1 DEF AllCounted
<1>2. CASE I2pbkdf2 \/ F_First \/ F_Next \/ F_Returns
  BY <1>1, <1>2 DEF I2pbkdf2, F_First, F_Next, F_Returns
<1>3. CASE UNCHANGED digestVars
  BY <1>1, <1>3 DEF digestVars
<1>4. Len(<<>>) = 0 /\ BlockSize \in Nat /\ <<>> # None
  <2>1. DOMAIN None = {"digest", "of"} /\ DOMAIN <<>> = {}
    BY DEF None
  <2> QED BY <2>1, EmptyArray, Sizes
<1>5. CASE I2Sha1Init
  <2>1. /\ hmac' = [hmac EXCEPT !.used = FALSE] /\ message' = <<>> /\ reckoned' = 0
        /\ digested' = <<>>
    BY <1>5 DEF I2Sha1Init
  <2>2. hmac'.used = FALSE
    BY <2>1 DEF ContextInv, Lasting, HmacIsRecord
  <2> QED BY <1>4, <2>1, <2>2 DEF AllCounted
<1>6. CASE I2HMACSha1Init
  <2>1. hmac'.used = TRUE /\ message' = <<>> /\ reckoned' = BlockSize /\ digested' = <<>>
    BY <1>6 DEF I2HMACSha1Init
  <2> QED BY <1>4, <2>1 DEF AllCounted
<1>7. CASE AppendData
  <2>1. digested = <<>> /\ UNCHANGED <<hmac, key, digested>>
    BY <1>7 DEF AppendData
  <2>2. PICK len \in AppendSizes :
          /\ message' = message \o [k \in 1..len |-> <<"data", Len(message) + k>>]
          /\ reckoned' = Reckoned(reckoned, len)
    BY <1>7 DEF AppendData
  <2> DEFINE n == Len(message)
             data == [k \in 1..len |-> <<"data", n + k>>]
  <2>3. len \in Nat /\ len < Bytes /\ n \in Nat /\ Array(message, n) /\ reckoned \in Nat
    BY Sizes DEF ShortAppends, ContextInv, Lasting
  <2>4. message' = message \o data /\ Array(data, len)
    BY <2>2 DEF Array
  <2> HIDE DEF data, n
  <2>5. Joined(message', message, n, data, len)
    BY <2>3, <2>4, Joins
  <2>6. Len(message') = n + len
    <3> DEFINE nl == n + len
    <3>1. nl \in Nat /\ Array(message', nl)
      BY <2>3, <2>5 DEF Joined
    <3> HIDE DEF nl
    <3>2. Len(message') = nl
      BY <3>1, ArrayIsSeq
    <3> QED BY <3>2 DEF nl
  <2>7. reckoned' = reckoned + len
    BY <2>2, <2>3, ReckonedIs
  <2>8. reckoned = n + (IF hmac.used THEN BlockSize ELSE 0) \/ digested = None
    BY DEF AllCounted, n
  <2>9. digested = None => digested' = None
    BY <2>1
  <2>10. reckoned = n + (IF hmac.used THEN BlockSize ELSE 0)
         => reckoned' = Len(message') + (IF hmac'.used THEN BlockSize ELSE 0)
    BY <1>4, <2>1, <2>3, <2>6, <2>7
  <2> QED BY <2>1, <2>8, <2>9, <2>10 DEF AllCounted
<1>8. CASE I2Sha1Finish
  <2>1. /\ digested = <<>> /\ ~hmac.used /\ digested'.of = "sha1"
        /\ hmac' = hmac /\ message' = message /\ reckoned' = reckoned
    BY <1>8 DEF I2Sha1Finish
  <2> QED BY <1>4, <2>1, Zenon DEF AllCounted
<1>9. CASE I2HMACSha1Finish
  <2>1. /\ digested = <<>> /\ hmac.used /\ digested'.of = "hmac"
        /\ hmac' = hmac /\ message' = message /\ reckoned' = reckoned
    BY <1>9 DEF I2HMACSha1Finish
  <2> QED BY <1>4, <2>1, Zenon DEF AllCounted
<1> QED BY <1>2, <1>3, <1>5, <1>6, <1>7, <1>8, <1>9 DEF DigestNext

(* A message that is cut into appends of fewer than 2^29 bytes each has the *)
(* digest of the standards, its length and all (sha1.c:205-318).            *)
THEOREM ShortAppendsAreStandard ==
    ASSUME ShortAppends PROVE DigestSpec => []IsStandard
<1>1. DigestInit => ContextInv /\ AllCounted
  BY ContextInit, CountedInit
<1>2. ContextInv /\ AllCounted /\ [DigestNext]_digestVars => (ContextInv /\ AllCounted)'
  BY ContextStep, CountedStep
<1>3. ContextInv /\ AllCounted => IsStandard
  <2>1. ASSUME ContextInv, AllCounted, digested \notin {<<>>, None}
        PROVE  digested.digest = IF digested.of = "sha1" THEN Sha1Of(message)
                                 ELSE HmacOf(key, message)
    <3>1. digested.digest = IF digested.of = "sha1" THEN Sha1Counted(message, reckoned)
                            ELSE HmacCounted(key, message, reckoned)
      BY <2>1 DEF ContextInv, DigestIsOfTheMessage
    <3>2. /\ reckoned = Len(message) + (IF hmac.used THEN BlockSize ELSE 0)
          /\ digested.of = IF hmac.used THEN "hmac" ELSE "sha1"
      BY <2>1 DEF AllCounted
    <3>3. Len(message) \in Nat /\ BlockSize \in Nat
      BY <2>1, Sizes DEF ContextInv, Lasting
    <3>4. CASE hmac.used
      <4>1. reckoned = BlockSize + Len(message)
        BY <3>2, <3>3, <3>4
      <4> QED BY <3>1, <3>2, <3>4, <4>1 DEF HmacOf
    <3>5. CASE ~hmac.used
      <4>1. reckoned = Len(message)
        BY <3>2, <3>3, <3>5
      <4> QED BY <3>1, <3>2, <3>5, <4>1 DEF Sha1Of
    <3> QED BY <3>4, <3>5
  <2> QED BY <2>1 DEF IsStandard
<1> QED BY <1>1, <1>2, <1>3, PTL DEF DigestSpec
-----------------------------------------------------------------------------
(*                                 Types                                   *)

HasBytes(s, n) == \A k \in 1..n : s[k][1] \in Byte

(* What the loops of I2pbkdf2 do not depend on: i stays within the key, j   *)
(* counts only inside of F, and the buffer holds bytes.                     *)
KdfBounds ==
    /\ kdf.i <= kdf.dklen /\ (kdf.at # "next" => kdf.j = 0)
    /\ kdf.at = "idle" \/ kdf.rc # 0 => kdf.buffer = <<>>
    /\ kdf.at # "idle" /\ kdf.rc = 0 => HasBytes(kdf.buffer, Size)

LEMMA BytesKept ==
    ASSUME NEW n \in Nat, NEW a, Array(a, n), HasBytes(a, n),
           NEW m \in Nat, NEW d, Array(d, m), HasBytes(d, m)
    PROVE  HasBytes(Overwrite(a, 0, d), n) /\ Array(Overwrite(a, 0, d), n)
<1> DEFINE o == 0
<1>1. o \in Nat /\ \A k \in 1..n : k \in o + 1..o + m => k - o \in 1..m
  OBVIOUS
<1> HIDE DEF o
<1>2. \A k \in 1..n : Overwrite(a, o, d)[k] = IF k \in o + 1..o + m THEN d[k - o] ELSE a[k]
  BY <1>1, OverwrittenAt
<1>3. Array(Overwrite(a, o, d), n)
  BY <1>1, Overwritten
<1>4. HasBytes(Overwrite(a, o, d), n)
  BY <1>1, <1>2 DEF HasBytes
<1> QED BY <1>3, <1>4 DEF o

LEMMA BoundsInit == DigestInit => KdfBounds
<1> SUFFICES ASSUME DigestInit PROVE KdfBounds
  OBVIOUS
<1>1. kdf = KdfIdle
  BY DEF DigestInit
<1> QED BY <1>1 DEF KdfBounds, KdfIdle

(* A step of F puts what it computed at the start of the buffer.            *)
LEMMA BoundsTaken ==
    ASSUME KdfInv, KdfBounds, Working, NEW buffer, HasBytes(buffer, Size), NEW u, NEW j,
           TakesU(buffer, u, j)
    PROVE  KdfBounds'
<1>1. kdf.rc = 0 /\ kdf.i <= kdf.dklen
  BY DEF KdfInv, InRange, KdfBounds
<1>2. /\ kdf'.at = "next" /\ kdf'.i = kdf.i /\ kdf'.dklen = kdf.dklen /\ kdf'.rc = kdf.rc
      /\ kdf'.buffer = buffer /\ kdf'.saltlen = kdf.saltlen
  BY DEF TakesU
<1>3. Size' = Size
  BY <1>2 DEF Size
<1> QED BY <1>1, <1>2, <1>3 DEF KdfBounds

LEMMA BoundsStep == KdfInv /\ KdfBounds /\ [DigestNext]_digestVars => KdfBounds'
<1> SUFFICES ASSUME KdfInv, KdfBounds, [DigestNext]_digestVars PROVE KdfBounds'
  OBVIOUS
<1>0. KdfTypes /\ InRange
  BY DEF KdfInv
<1>1. ASSUME UNCHANGED kdf PROVE KdfBounds'
  BY <1>1 DEF KdfBounds, Size
<1>2. CASE I2Sha1Init \/ I2HMACSha1Init \/ AppendData \/ I2Sha1Finish \/ I2HMACSha1Finish
  BY <1>1, <1>2 DEF I2Sha1Init, I2HMACSha1Init, AppendData, I2Sha1Finish, I2HMACSha1Finish
<1>3. CASE I2pbkdf2
  <2>1. PICK saltlen \in SaltSizes, count \in 1..MaxCount, dklen \in DKSizes, rc \in {0, -1} :
           kdf' = IF rc = -1
                  THEN [KdfIdle EXCEPT !.at = "returned", !.rc = -1]
                  ELSE [KdfIdle EXCEPT !.at = IF dklen = 0 THEN "returned" ELSE "first",
                                       !.saltlen = saltlen, !.count = count, !.dklen = dklen,
                                       !.buffer = Fill(Max({saltlen, PrfSize}) + 1),
                                       !.outbuff = [k \in 1..PrfSize |-> {}],
                                       !.dk = [k \in 1..dklen |-> {}]]
    BY <1>3 DEF I2pbkdf2
  <2>2. CASE rc = -1
    BY <2>1, <2>2 DEF KdfIdle, KdfBounds
  <2>3. CASE rc = 0
    <3> DEFINE n == Max({saltlen, PrfSize}) + 1
               at == IF dklen = 0 THEN "returned" ELSE "first"
               buffer == Fill(n)
               outbuff == [k \in 1..PrfSize |-> {}]
               dk == [k \in 1..dklen |-> {}]
    <3>1. kdf' = [KdfIdle EXCEPT !.at = at, !.saltlen = saltlen, !.count = count,
                                 !.dklen = dklen, !.buffer = buffer, !.outbuff = outbuff,
                                 !.dk = dk]
      BY <2>1, <2>3
    <3>2. HasBytes(buffer, n)
      BY DEF HasBytes, Fill, Zero, Byte
    <3>3. at # "idle" /\ at # "next" /\ dklen \in Nat
      BY DigestAssumption
    <3> HIDE DEF n, at, buffer, outbuff, dk
    <3>4. /\ kdf'.at = at /\ kdf'.saltlen = saltlen /\ kdf'.dklen = dklen /\ kdf'.buffer = buffer
          /\ kdf'.i = 0 /\ kdf'.j = 0 /\ kdf'.rc = 0
      BY <3>1 DEF KdfIdle
    <3>5. Size' = n
      BY <3>4 DEF Size, n
    <3> QED BY <3>2, <3>3, <3>4, <3>5 DEF KdfBounds
  <2> QED BY <2>2, <2>3
<1>4. ASSUME Working
      PROVE  /\ KdfIsRecord /\ Array(kdf.buffer, Size) /\ HasBytes(kdf.buffer, Size)
             /\ kdf.saltlen \in Nat /\ PrfSize \in Nat /\ Size \in Nat
             /\ \A t : Array(Prf(t), PrfSize) /\ HasBytes(Prf(t), PrfSize)
  <2>1. kdf.at # "idle" /\ kdf.rc = 0
    BY <1>0, <1>4 DEF Working, InRange
  <2>2. ASSUME NEW t PROVE Array(Prf(t), PrfSize) /\ HasBytes(Prf(t), PrfSize)
    <3>1. Array(Prf(t), PrfSize) /\ \A k \in 1..PrfSize : Prf(t)[k] = <<"prf", <<t, k>>>>
      BY PrfIs
    <3> QED BY <3>1 DEF HasBytes, Byte
  <2> QED BY <1>0, <2>1, <2>2, Lengths, PrfSizes DEF KdfTypes, KdfBounds
<1>5. CASE F_First
  <2> DEFINE seed == Seed(kdf.saltlen, kdf.i + 1)
             out == Prf(seed)
             seeded == Overwrite(kdf.buffer, 0, seed)
             buffer == Overwrite(seeded, 0, out)
             u == [k \in 1..PrfSize |-> {out[k]}]
  <2>1. kdf.at = "first" /\ kdf' = [WithU(buffer, u) EXCEPT !.at = "next", !.j = 2]
    BY <1>5 DEF F_First, BlockIndex, Seed
  <2>2. Working
    BY <2>1 DEF Working
  <2>3. kdf.saltlen + 1 \in Nat /\ Array(seed, kdf.saltlen + 1) /\ HasBytes(seed, kdf.saltlen + 1)
    <3> DEFINE n == kdf.saltlen
               s == seed
    <3>1. /\ n \in Nat /\ Array(s, n + 1) /\ s[n + 1] = <<"int", kdf.i + 1>>
          /\ \A k \in 1..n : s[k] = <<"salt", k>>
      BY <1>4, <2>2, SeedIs
    <3> HIDE DEF n, s
    <3>2. \A k \in 1..n + 1 : k = n + 1 \/ k \in 1..n
      BY <3>1
    <3>3. HasBytes(s, n + 1)
      BY <3>1, <3>2 DEF HasBytes, Byte
    <3> QED BY <3>1, <3>3 DEF n, s
  <2>4. Array(out, PrfSize) /\ HasBytes(out, PrfSize)
    BY <1>4, <2>2
  <2> HIDE DEF seed, out
  <2>5. Array(seeded, Size) /\ HasBytes(seeded, Size)
    BY <1>4, <2>2, <2>3, BytesKept
  <2> HIDE DEF seeded
  <2>6. HasBytes(buffer, Size)
    BY <1>4, <2>2, <2>4, <2>5, BytesKept
  <2> HIDE DEF buffer, u
  <2>7. TakesU(buffer, u, 2)
    BY <1>4, <2>1, <2>2 DEF KdfIsRecord, WithU, TakesU
  <2> QED BY <2>2, <2>6, <2>7, BoundsTaken
<1>6. CASE F_Next
  <2> DEFINE out == Prf(SubSeq(kdf.buffer, 1, PrfSize))
             buffer == Overwrite(kdf.buffer, 0, out)
             u == [k \in 1..PrfSize |-> Xor(U[k], {out[k]})]
  <2>1. kdf.at = "next" /\ kdf' = [WithU(buffer, u) EXCEPT !.j = @ + 1]
    BY <1>6 DEF F_Next
  <2>2. Working
    BY <2>1 DEF Working
  <2>3. Array(out, PrfSize) /\ HasBytes(out, PrfSize)
    BY <1>4, <2>2
  <2> HIDE DEF out
  <2>4. HasBytes(buffer, Size)
    BY <1>4, <2>2, <2>3, BytesKept
  <2> HIDE DEF buffer, u
  <2>5. TakesU(buffer, u, kdf.j + 1)
    BY <1>4, <2>1, <2>2 DEF KdfIsRecord, WithU, TakesU
  <2> QED BY <2>2, <2>4, <2>5, BoundsTaken
<1>7. CASE F_Returns
  <2> DEFINE dk == IF InPlace THEN kdf.dk
                   ELSE Overwrite(kdf.dk, L * PrfSize, SubSeq(kdf.outbuff, 1, R))
             at == NextBlock(kdf.i + 1)
  <2>1. /\ kdf.at = "next"
        /\ kdf' = [kdf EXCEPT !.at = at, !.i = kdf.i + 1, !.j = 0, !.dk = dk]
    BY <1>7 DEF F_Returns
  <2>2. Working
    BY <2>1 DEF Working
  <2>3. at \in {"first", "returned"}
    BY DEF NextBlock
  <2> HIDE DEF dk, at
  <2>4. /\ kdf'.at = at /\ kdf'.i = kdf.i + 1 /\ kdf'.j = 0 /\ kdf'.dklen = kdf.dklen
        /\ kdf'.rc = kdf.rc /\ kdf'.buffer = kdf.buffer /\ kdf'.saltlen = kdf.saltlen
    BY <1>4, <2>1, <2>2 DEF KdfIsRecord
  <2>5. Size' = Size
    BY <2>4 DEF Size
  <2>6. kdf.i + 1 <= kdf.dklen
    <3>1. /\ L \in Nat /\ R \in 0..PrfSize - 1 /\ kdf.dklen = L * PrfSize + R
          /\ kdf.i < L \/ (kdf.i = L /\ R > 0)
          /\ kdf.i \in Nat /\ kdf.dklen \in Nat
      BY <1>0, <2>2, Lengths DEF InRange, KdfTypes
    <3>2. L <= L * PrfSize /\ L * PrfSize \in Nat
      <4> DEFINE p == PrfSize - 1
      <4>1. p \in Nat /\ PrfSize = p + 1
        BY PrfSizes
      <4> HIDE DEF p
      <4>2. L * (p + 1) = L * p + L /\ L * p \in Nat
        BY <3>1, <4>1
      <4> QED BY <3>1, <4>1, <4>2
    <3> HIDE DEF L, R
    <3> DEFINE LP == L * PrfSize
    <3> HIDE DEF LP
    <3>3. LP \in Nat /\ L <= LP /\ kdf.dklen = LP + R
      BY <3>1, <3>2 DEF LP
    <3>4. R \in Nat
      BY <3>1, PrfSizes
    <3> QED BY <3>1, <3>3, <3>4
  <2>7. kdf.rc = 0 /\ HasBytes(kdf.buffer, Size)
    BY <1>0, <1>4, <2>2 DEF InRange
  <2> QED BY <2>3, <2>4, <2>5, <2>6, <2>7 DEF KdfBounds
<1>8. CASE UNCHANGED digestVars
  BY <1>1, <1>8 DEF digestVars
<1> QED BY <1>2, <1>3, <1>5, <1>6, <1>7, <1>8 DEF DigestNext

LEMMA CountTyped ==
    ASSUME NEW n \in Nat
    PROVE  CountOf(n) \in Seq(0..2^WordBits - 1) /\ Len(CountOf(n)) = 2
<1> DEFINE low == (8 * n) % Word
           high == ((8 * n) \div Word) % Word
<1>1. low \in 0..Word - 1 /\ high \in 0..Word - 1
  <2>1. Word \in Nat \ {0} /\ 8 * n \in Nat
    BY Sizes
  <2> DEFINE bits == 8 * n
  <2> HIDE DEF bits
  <2>2. bits \div Word \in Nat /\ bits % Word \in 0..Word - 1
    BY <2>1, DivMod DEF bits
  <2> DEFINE q == bits \div Word
  <2> HIDE DEF q
  <2>3. q % Word \in 0..Word - 1
    BY <2>1, <2>2 DEF q
  <2> QED BY <2>2, <2>3 DEF bits, q
<1>2. CountOf(n) = <<low, high>>
  BY DEF CountOf
<1> HIDE DEF low, high
<1>3. <<low, high>> \in Seq(0..Word - 1) /\ Len(<<low, high>>) = 2
  BY <1>1
<1> QED BY <1>2, <1>3 DEF Word

LEMMA StateTyped ==
    ASSUME NEW ctx, NEW m, NEW n \in Nat, Array(m, n), NEW c, HasBytes(m, n),
           Represents(ctx, m, n, c)
    PROVE  /\ ctx.count \in Seq(0..2^WordBits - 1) /\ Len(ctx.count) = 2
           /\ \A b \in Range(ctx.state) :
                Len(b) = BlockSize /\ \A k \in DOMAIN b : b[k][1] \in Byte
<1> DEFINE s == ctx.state
           q == n \div BlockSize
<1>1. /\ q \in Nat /\ n % BlockSize \in Nat /\ q * BlockSize \in Nat
      /\ n = q * BlockSize + (n % BlockSize) /\ BlockSize \in Nat
  BY BlockAndPlace, Sizes
<1>2. IsBlocks(s, m, q) /\ ctx.count = CountOf(c) /\ c \in Nat
  BY DEF Represents
<1>3. q * BlockSize <= n
  <2> HIDE DEF q
  <2> QED BY <1>1
<1> HIDE DEF s, q
<1>4. DOMAIN s = 1..q
  BY <1>1, <1>2, ArrayIsSeq DEF IsBlocks
<1>5. ASSUME NEW k \in 1..q
      PROVE  Len(s[k]) = BlockSize /\ \A x \in DOMAIN s[k] : s[k][x][1] \in Byte
  <2> DEFINE b == s[k]
             a == (k - 1) * BlockSize
  <2>1. a \in Nat /\ a + BlockSize <= q * BlockSize
    <3>1. /\ a \in Nat /\ k * BlockSize = a + BlockSize /\ k * BlockSize <= q * BlockSize
      BY <1>1, BlockPlace
    <3> HIDE DEF a
    <3> QED BY <3>1
  <2>2. IsPart(b, m, a, BlockSize)
    BY <1>2 DEF IsBlocks
  <2> HIDE DEF a, b
  <2>3. Len(b) = BlockSize /\ DOMAIN b = 1..BlockSize
    BY <1>1, <2>2, ArrayIsSeq DEF IsPart
  <2>4. \A x \in 1..BlockSize : a + x \in 1..n
    <3> DEFINE qB == q * BlockSize
    <3>1. qB \in Nat /\ qB <= n /\ a + BlockSize <= qB
      BY <1>1, <1>3, <2>1
    <3> HIDE DEF qB
    <3> QED BY <1>1, <2>1, <3>1
  <2>5. \A x \in 1..BlockSize : b[x][1] \in Byte
    BY <2>2, <2>4 DEF IsPart, HasBytes
  <2> QED BY <2>3, <2>5 DEF b
<1>6. \A b \in Range(s) : \E k \in 1..q : b = s[k]
  BY <1>4 DEF Range
<1> QED BY <1>2, <1>5, <1>6, CountTyped DEF s

LEMMA ContextTyped ==
    ASSUME ContextInv
    PROVE  /\ sha.count \in Seq(0..2^WordBits - 1) /\ Len(sha.count) = 2
           /\ \A b \in Range(sha.state) :
                Len(b) = BlockSize /\ \A k \in DOMAIN b : b[k][1] \in Byte
<1> DEFINE n == Len(message)
<1>1. /\ Array(message, n) /\ n \in 0..MaxMessage /\ \A x \in 1..n : message[x][1] \in Byte
      /\ Len(key) \in Nat /\ Len(key) < Bytes /\ Array(key, Len(key)) /\ HmacIsRecord
      /\ digested # <<>> => sha = Wiped
      /\ Stands
  BY DEF ContextInv, Lasting
<1>2. n \in Nat /\ BlockSize \in Nat /\ HasBytes(message, n)
  BY <1>1, Sizes DEF HasBytes
<1> HIDE DEF n
<1>3. CASE digested # <<>>
  <2>1. sha.count = <<0, 0>> /\ sha.state = <<>>
    BY <1>1, <1>3 DEF Wiped
  <2>2. CountOf(0) = <<0, 0>>
    <3>1. Word \in Nat \ {0}
      BY Sizes
    <3>2. 8 * 0 = 0 /\ 0 \div Word = 0 /\ 0 % Word = 0
      BY <3>1
    <3> QED BY <3>2 DEF CountOf
  <2>3. <<0, 0>> \in Seq(0..2^WordBits - 1) /\ Len(<<0, 0>>) = 2
    <3>1. 0 \in Nat
      OBVIOUS
    <3> QED BY <2>2, <3>1, CountTyped
  <2>4. Range(sha.state) = {}
    BY <2>1 DEF Range
  <2> QED BY <2>1, <2>3, <2>4
<1>4. CASE digested = <<>> /\ ~hmac.used
  <2>1. Represents(sha, message, n, reckoned)
    BY <1>1, <1>4 DEF Stands, n
  <2> QED BY <1>1, <1>2, <2>1, StateTyped
<1>5. CASE digested = <<>> /\ hmac.used
  <2> DEFINE i == Inner
             bn == BlockSize + n
             im == i \o message
  <2>1. Represents(sha, im, bn, reckoned)
    BY <1>1, <1>5 DEF Stands, n
  <2>2. Array(PaddedKey(key), BlockSize)
    BY <1>1, KeyPadded
  <2>3. Array(i, BlockSize) /\ HasBytes(i, BlockSize)
    <3>1. DOMAIN PaddedKey(key) = 1..BlockSize
      BY <1>2, <2>2, ArrayIsSeq
    <3>2. HasBytes(i, BlockSize)
      BY <3>1 DEF Inner, Xored, HasBytes, Byte
    <3> QED BY <1>2, <2>2, <3>2, XorArray DEF Inner
  <2> HIDE DEF i
  <2>4. Joined(im, i, BlockSize, message, n)
    BY <1>1, <1>2, <2>3, Joins
  <2>5. bn \in Nat /\ Array(im, bn)
    BY <1>2, <2>4 DEF Joined
  <2>6. HasBytes(im, bn)
    <3>1. ASSUME NEW x \in 1..bn PROVE im[x][1] \in Byte
      <4>1. CASE x <= BlockSize
        <5>1. x \in 1..BlockSize
          BY <1>2, <4>1
        <5> QED BY <2>3, <2>4, <5>1 DEF Joined, HasBytes
      <4>2. CASE ~(x <= BlockSize)
        <5> DEFINE y == x - BlockSize
        <5>1. y \in 1..n /\ BlockSize + y = x
          BY <1>2, <4>2
        <5> HIDE DEF y, im
        <5>2. im[BlockSize + y] = message[y]
          BY <2>4, <5>1 DEF Joined
        <5> QED BY <1>1, <5>1, <5>2
      <4> QED BY <4>1, <4>2
    <3> QED BY <3>1 DEF HasBytes
  <2> HIDE DEF im, bn
  <2> QED BY <2>1, <2>5, <2>6, StateTyped
<1> QED BY <1>3, <1>4, <1>5

LEMMA DigestTypes == ContextInv /\ KdfInv /\ KdfBounds => DigestTypeOK
<1> SUFFICES ASSUME ContextInv, KdfInv, KdfBounds PROVE DigestTypeOK
  OBVIOUS
<1>1. Lasting /\ KdfTypes /\ InRange /\ BlockSize \in Nat /\ DigestSize \in Nat
  BY Sizes DEF ContextInv, KdfInv
<1>2. /\ hmac.used \in BOOLEAN /\ Len(hmac.opad) = BlockSize /\ Len(sha.buffer) = BlockSize
      /\ Len(message) \in 0..MaxMessage
  BY <1>1, ArrayIsSeq DEF Lasting, HmacIsRecord
<1>8. reckoned \in 0..BlockSize + Len(message)
  <2> DEFINE n == Len(message)
  <2>1. n \in 0..MaxMessage /\ reckoned \in Nat /\ reckoned <= BlockSize + n
    BY <1>1 DEF Lasting
  <2> HIDE DEF n
  <2>2. reckoned \in 0..BlockSize + n
    BY <1>1, <2>1
  <2> QED BY <2>2 DEF n
<1>3. digested = <<>> \/ Len(digested.digest) = DigestSize
  BY <1>1, ArrayIsSeq DEF Lasting
<1>4. kdf.at \in {"idle", "first", "next", "returned"} /\ kdf.rc \in {0, -1}
  BY <1>1 DEF KdfTypes
<1>5. kdf.i \in 0..kdf.dklen /\ kdf.j \in 0..MaxCount + 1
  <2>1. /\ kdf.i \in Nat /\ kdf.dklen \in Nat /\ kdf.i <= kdf.dklen /\ kdf.count \in 0..MaxCount
        /\ kdf.j \in Nat /\ MaxCount \in Nat
    BY <1>1, PrfSizes DEF KdfTypes, KdfBounds
  <2>2. kdf.j = 0 \/ kdf.j \in 2..kdf.count + 1
    BY <1>1 DEF KdfBounds, InRange
  <2> QED BY <2>1, <2>2
<1>6. ASSUME kdf.at # "idle", kdf.rc = 0
      PROVE  /\ Len(kdf.buffer) = Size /\ Len(kdf.outbuff) = PrfSize /\ Len(kdf.dk) = kdf.dklen
             /\ DOMAIN kdf.buffer = 1..Size
  <2>1. /\ Array(kdf.buffer, Size) /\ Array(kdf.outbuff, PrfSize) /\ Array(kdf.dk, kdf.dklen)
        /\ kdf.dklen \in Nat /\ PrfSize \in Nat /\ Size \in Nat
    BY <1>1, <1>6, PrfSizes, Lengths DEF KdfTypes
  <2> QED BY <2>1, ArrayIsSeq
<1>7. \A k \in DOMAIN kdf.buffer : kdf.buffer[k][1] \in Byte
  <2>1. CASE kdf.at = "idle" \/ kdf.rc # 0
    <3>1. kdf.buffer = <<>>
      BY <2>1 DEF KdfBounds
    <3> QED BY <3>1
  <2>2. CASE kdf.at # "idle" /\ kdf.rc = 0
    BY <1>6, <2>2 DEF KdfBounds, HasBytes
  <2> QED BY <2>1, <2>2
<1> QED BY <1>2, <1>3, <1>4, <1>5, <1>6, <1>7, <1>8, ContextTyped DEF DigestTypeOK, Size

(* The variables of digests and of key derivation keep their types: every  *)
(* block that is compressed is a whole one of bytes that were given or are  *)
(* padding, and every array keeps its length.                               *)
THEOREM DigestTyped == DigestSpec => []DigestTypeOK
<1> QED BY ContextInit, ContextStep, KdfInit, KdfStep, BoundsInit, BoundsStep, DigestTypes, PTL
        DEF DigestSpec
=============================================================================
