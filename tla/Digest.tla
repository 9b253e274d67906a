------------------------------- MODULE Digest -------------------------------
(***************************************************************************)
(* SHA-1 (I2util/sha1.c), HMAC-SHA1 over it (I2util/hmac-sha1.c) and key   *)
(* derivation (I2util/pbkdf2.c): the buffers, counts, paddings and loops.  *)
(* What the compression, xor and the pseudo-random function compute is     *)
(* left free: two results are equal only if they were computed from the    *)
(* same bytes.  A byte is a pair of its kind and its value.                *)
(*                                                                         *)
(* Sizes are scaled: BlockSize for 64, DigestSize for 20, words of         *)
(* WordBits bits for 32.  The 8 bytes of the message length are one byte   *)
(* for each of the words count[1] and count[0], the 4 of INT(i) are one.   *)
(***************************************************************************)
EXTENDS Integers, SequencesExt

CONSTANTS
    BlockSize, DigestSize, WordBits,
    KeySizes,      \* lengths of HMAC keys
    AppendSizes,   \* lengths given to I2Sha1Append
    MaxMessage,    \* bound: bytes of a message
    SaltSizes, PrfSize, DKSizes, \* lengths for I2pbkdf2
    MaxCount       \* bound: iterations

(* A word counts the bits of a whole number of blocks.  An append is any    *)
(* uint32_t with which j + len does not wrap (sha1.c:237); a key, which is  *)
(* hashed in one, has no more bits than a word counts.  And a message,      *)
(* behind a padded key, has no more than two words count, which is all      *)
(* SHA-1 is defined for.                                                    *)
ASSUME DigestAssumption ==
    /\ BlockSize \in Nat /\ BlockSize > 2 /\ DigestSize \in 1..BlockSize
    /\ WordBits > 3 /\ 2^WordBits = 8 * 2^(WordBits - 3)
    /\ 2^(WordBits - 3) \in Nat /\ 2^(WordBits - 3) % BlockSize = 0
    /\ \A len \in KeySizes \cup {BlockSize} : len < 2^(WordBits - 3)
    /\ \A len \in AppendSizes : len < 2^WordBits - BlockSize
    /\ 8 * (BlockSize + MaxMessage) < 2^WordBits * 2^WordBits
    /\ KeySizes \cup AppendSizes \cup SaltSizes \cup DKSizes \subseteq Nat
    /\ PrfSize \in Nat \ {0} /\ MaxMessage \in Nat /\ MaxCount \in Nat

VARIABLES
    sha,     \* I2Sha1ContextRec: state, count[], buffer
    hmac,    \* I2HMACSha1ContextRec: whether it is used, and opad
    message, key, \* not in the code: the bytes appended since Init, the key
    reckoned,     \* not in the code: the bytes that count[] took them for
    digested,     \* <<>>, or the last digest and what it is of
    kdf      \* I2pbkdf2: its arguments and variables

digestVars == <<sha, hmac, message, key, reckoned, digested, kdf>>

Byte == {"data", "key", "ipad", "opad", "0x80", "0", "count", "digest", "salt", "int", "prf"}
Zero == <<"0", 0>>
Named(kind, n) == [k \in 1..n |-> <<kind, k>>]
Fill(n) == [k \in 1..n |-> Zero]
Overwrite(a, j, data) ==
    [k \in 1..Len(a) |-> IF k \in j + 1..j + Len(data) THEN data[k - j] ELSE a[k]]
-----------------------------------------------------------------------------
(*                                SHA-1                                    *)

(* The state is the list of the blocks that were compressed into it. *)
Transformed(state, blocks) == state \o blocks

Fills(j, len) == j + len > BlockSize - 1

(* Mutant: the carry of the length is forgotten. *)
Counted_Word(count, len) == <<(count[1] + 8 * len) % 2^WordBits, count[2]>>

(* count[0] and count[1] are count[1] and count[2] here. *)
Counted(count, len) ==
    LET low == (count[1] + 8 * len) % 2^WordBits
    IN <<low, IF low < count[1]
              THEN (count[2] + len \div 2^(WordBits - 3) + 1) % 2^WordBits
              ELSE count[2]>>

(* What an append of len bytes is counted as behind n: the multiple of 2^29 *)
(* in it is added only when the rest overflows count[0] (sha1.c:230-231).   *)
Reckoned(n, len) ==
    LET most == 2^(WordBits - 3)
    IN IF (n % most) + (len % most) < most THEN n + (len % most) ELSE n + len

(* I2Sha1Append: the buffer is filled up and compressed, then whole blocks  *)
(* of the data, and what remains goes to the start of the buffer.           *)
Appended(ctx, data) ==
    LET len == Len(data)
        j == (ctx.count[1] \div 8) % BlockSize
        i == IF Fills(j, len) THEN BlockSize - j ELSE 0
        whole == IF i = 0 THEN 0 ELSE (len - i) \div BlockSize
        first == IF i = 0 THEN <<>>
                 ELSE <<Overwrite(ctx.buffer, j, SubSeq(data, 1, i))>>
        blocks == first \o [k \in 1..whole |->
                     SubSeq(data, i + (k - 1) * BlockSize + 1, i + k * BlockSize)]
        rest == SubSeq(data, i + whole * BlockSize + 1, len)
    IN IF len = 0 THEN ctx
       ELSE [state |-> Transformed(ctx.state, blocks),
             count |-> Counted(ctx.count, len),
             buffer |-> Overwrite(IF first = <<>> THEN ctx.buffer ELSE first[1],
                                  IF i = 0 THEN j ELSE 0, rest)]

(* I2Sha1Init: the buffer keeps what it held. *)
Initialised(ctx) == [state |-> <<>>, count |-> <<0, 0>>, buffer |-> ctx.buffer]

DigestOf(state) == [k \in 1..DigestSize |-> <<"digest", <<state, k>>>>]

ZerosAppended(ctx, n) ==
    LET after[k \in 0..n] == IF k = 0 THEN ctx ELSE Appended(after[k - 1], <<Zero>>)
    IN after[n]

(* I2Sha1Finish: the mark, zeros one by one up to the last two bytes of a   *)
(* block, and the length as it was before; the context is wiped.            *)
Finished(ctx) ==
    LET marked == Appended(ctx, <<<<"0x80", 0>>>>)
        zeros == (BlockSize - 2 - (marked.count[1] \div 8)) % BlockSize
        padded == ZerosAppended(marked, zeros)
    IN DigestOf(Appended(padded, <<<<"count", ctx.count[2]>>,
                                   <<"count", ctx.count[1]>>>>).state)

Wiped == [state |-> <<>>, count |-> <<0, 0>>, buffer |-> Fill(BlockSize)]

(* I2Sha1: a context on the stack. *)
I2Sha1(data) == Finished(Appended(Initialised(Wiped), data))
-----------------------------------------------------------------------------
(*                                 HMAC                                    *)

PaddedKey(inkey) ==
    Overwrite(Fill(BlockSize), 0, IF Len(inkey) > BlockSize THEN I2Sha1(inkey) ELSE inkey)

Xored(pad, bytes) == [k \in DOMAIN bytes |-> <<pad, bytes[k]>>]
-----------------------------------------------------------------------------
(* No context was initialised yet. *)
None == [digest |-> Fill(DigestSize), of |-> "none"]
KdfIdle == [at |-> "idle", saltlen |-> 0, count |-> 0, dklen |-> 0, i |-> 0, j |-> 0,
            buffer |-> <<>>, outbuff |-> <<>>, dk |-> <<>>, rc |-> 0]

DigestTypeOK ==
    /\ sha.count \in Seq(0..2^WordBits - 1) /\ Len(sha.count) = 2
    /\ Len(sha.buffer) = BlockSize
    /\ \A b \in Range(sha.state) : Len(b) = BlockSize /\ \A k \in DOMAIN b : b[k][1] \in Byte
    /\ hmac.used \in BOOLEAN /\ Len(hmac.opad) = BlockSize
    /\ Len(message) \in 0..MaxMessage /\ reckoned \in 0..BlockSize + Len(message)
    /\ digested = <<>> \/ Len(digested.digest) = DigestSize
    /\ kdf.at \in {"idle", "first", "next", "returned"} /\ kdf.rc \in {0, -1}
    /\ kdf.i \in 0..kdf.dklen /\ kdf.j \in 0..MaxCount + 1
    /\ \A k \in DOMAIN kdf.buffer : kdf.buffer[k][1] \in Byte
    /\ kdf.at # "idle" /\ kdf.rc = 0 =>
         /\ Len(kdf.buffer) = Max({kdf.saltlen, PrfSize}) + 1
         /\ Len(kdf.outbuff) = PrfSize /\ Len(kdf.dk) = kdf.dklen

DigestInit ==
    /\ sha = Wiped
    /\ hmac = [used |-> FALSE, opad |-> Fill(BlockSize)]
    /\ message = <<>> /\ key = <<>> /\ reckoned = 0 /\ digested = None
    /\ kdf = KdfIdle

(* A client starts a message, also when it left another unfinished. *)
I2Sha1Init ==
    /\ kdf = KdfIdle
    /\ sha' = Initialised(sha)
    /\ hmac' = [hmac EXCEPT !.used = FALSE]
    /\ message' = <<>> /\ key' = <<>> /\ reckoned' = 0 /\ digested' = <<>>
    /\ UNCHANGED kdf

I2HMACSha1Init ==
    /\ kdf = KdfIdle
    /\ \E n \in KeySizes : key' = Named("key", n)
    /\ LET padded == PaddedKey(key')
       IN /\ hmac' = [used |-> TRUE, opad |-> Xored("opad", padded)]
          /\ sha' = Appended(Initialised(sha), Xored("ipad", padded))
    /\ message' = <<>> /\ reckoned' = BlockSize /\ digested' = <<>>
    /\ UNCHANGED kdf

(* I2Sha1Append and I2HMACSha1Append (which asserts that there is data). *)
AppendData ==
    /\ digested = <<>>
    /\ \E len \in AppendSizes :
         /\ Len(message) + len <= MaxMessage
         /\ hmac.used => len > 0
         /\ LET data == [k \in 1..len |-> <<"data", Len(message) + k>>]
            IN /\ sha' = Appended(sha, data)
               /\ message' = message \o data
               /\ reckoned' = Reckoned(reckoned, len)
    /\ UNCHANGED <<hmac, key, digested, kdf>>

I2Sha1Finish ==
    /\ digested = <<>> /\ ~hmac.used
    /\ digested' = [digest |-> Finished(sha), of |-> "sha1"]
    /\ sha' = Wiped
    /\ UNCHANGED <<hmac, message, key, reckoned, kdf>>

(* The inner digest, then the context again for the outer one. *)
I2HMACSha1Finish ==
    /\ digested = <<>> /\ hmac.used
    /\ LET inner == Finished(sha)
           outer == Appended(Appended(Initialised(Wiped), hmac.opad), inner)
       IN digested' = [digest |-> Finished(outer), of |-> "hmac"]
    /\ sha' = Wiped
    /\ UNCHANGED <<hmac, message, key, reckoned, kdf>>
-----------------------------------------------------------------------------
(*                                PBKDF2                                   *)

(* A byte of the derived key is the set of bytes xored into it. *)
Xor(a, b) == (a \ b) \cup (b \ a)
Prf(text) == [k \in 1..PrfSize |-> <<"prf", <<text, k>>>>]

L == kdf.dklen \div PrfSize
R == kdf.dklen % PrfSize

(* After the last block that is needed, the function returns. *)
NextBlock(i) == IF i < L \/ (i = L /\ R > 0) THEN "first" ELSE "returned"

(* I2pbkdf2 shares nothing with the contexts: a client that derives a key   *)
(* does so with none in use.                                                *)
I2pbkdf2 ==
    /\ kdf.at \in {"idle", "returned"} /\ digested = None
    /\ \E saltlen \in SaltSizes, count \in 1..MaxCount, dklen \in DKSizes, rc \in {0, -1} :
         kdf' = IF rc = -1
                THEN [KdfIdle EXCEPT !.at = "returned", !.rc = -1]
                ELSE [KdfIdle EXCEPT !.at = IF dklen = 0 THEN "returned" ELSE "first",
                                     !.saltlen = saltlen, !.count = count, !.dklen = dklen,
                                     !.buffer = Fill(Max({saltlen, PrfSize}) + 1),
                                     !.outbuff = [k \in 1..PrfSize |-> {}],
                                     !.dk = [k \in 1..dklen |-> {}]]
    /\ UNCHANGED <<sha, hmac, message, key, reckoned, digested>>

(* u, where F puts its result: the derived key itself, or outbuff for an    *)
(* incomplete last block.                                                   *)
InPlace == kdf.i < L
WithU(buffer, u) ==
    IF InPlace
    THEN [kdf EXCEPT !.buffer = buffer, !.dk = Overwrite(@, kdf.i * PrfSize, u)]
    ELSE [kdf EXCEPT !.buffer = buffer, !.outbuff = u]
U == IF InPlace THEN SubSeq(kdf.dk, kdf.i * PrfSize + 1, (kdf.i + 1) * PrfSize)
     ELSE kdf.outbuff

(* Mutant: the last block has the index of the one before. *)
BlockIndex_Last(i) == IF i < L THEN i + 1 ELSE i

BlockIndex(i) == i + 1

(* U_1, from the salt and the index; the result replaces them in place. *)
F_First ==
    /\ kdf.at = "first"
    /\ LET seed == Append(Named("salt", kdf.saltlen), <<"int", BlockIndex(kdf.i)>>)
           out == Prf(seed)
       IN kdf' = [WithU(Overwrite(Overwrite(kdf.buffer, 0, seed), 0, out),
                        [k \in 1..PrfSize |-> {out[k]}])
                     EXCEPT !.at = "next", !.j = 2]
    /\ UNCHANGED <<sha, hmac, message, key, reckoned, digested>>

F_Next ==
    /\ kdf.at = "next" /\ kdf.j <= kdf.count
    /\ LET out == Prf(SubSeq(kdf.buffer, 1, PrfSize))
       IN kdf' = [WithU(Overwrite(kdf.buffer, 0, out),
                        [k \in 1..PrfSize |-> Xor(U[k], {out[k]})])
                     EXCEPT !.j = @ + 1]
    /\ UNCHANGED <<sha, hmac, message, key, reckoned, digested>>

(* F returns; of an incomplete block r bytes are copied. *)
F_Returns ==
    /\ kdf.at = "next" /\ kdf.j > kdf.count
    /\ kdf' = [kdf EXCEPT !.at = NextBlock(kdf.i + 1), !.i = @ + 1, !.j = 0,
                          !.dk = IF InPlace THEN @
                                 ELSE Overwrite(@, L * PrfSize, SubSeq(kdf.outbuff, 1, R))]
    /\ UNCHANGED <<sha, hmac, message, key, reckoned, digested>>

DigestNext ==
    \/ I2Sha1Init \/ I2HMACSha1Init \/ AppendData \/ I2Sha1Finish \/ I2HMACSha1Finish
    \/ I2pbkdf2 \/ F_First \/ F_Next \/ F_Returns

DigestSpec == DigestInit /\ [][DigestNext]_digestVars
-----------------------------------------------------------------------------
(*                              Properties                                 *)

(* FIPS 180-1: the mark, as few zeros as fill a block but for the length,   *)
(* the length in bits in two words, cut into blocks; for a length of n.     *)
Sha1Counted(m, n) ==
    LET bits == 8 * n
        zeros == CHOOSE z \in 0..BlockSize - 1 : (Len(m) + 1 + z + 2) % BlockSize = 0
        padded == m \o <<<<"0x80", 0>>>> \o Fill(zeros)
                    \o <<<<"count", bits \div 2^WordBits>>, <<"count", bits % 2^WordBits>>>>
    IN DigestOf([b \in 1..Len(padded) \div BlockSize |->
                    SubSeq(padded, (b - 1) * BlockSize + 1, b * BlockSize)])
Sha1Of(m) == Sha1Counted(m, Len(m))

(* RFC 2104: H(K xor opad, H(K xor ipad, text)). *)
HmacCounted(k, m, n) ==
    LET short == IF Len(k) > BlockSize THEN Sha1Of(k) ELSE k
        K == short \o Fill(BlockSize - Len(short))
    IN Sha1Of(Xored("opad", K) \o Sha1Counted(Xored("ipad", K) \o m, n))
HmacOf(k, m) == HmacCounted(k, m, BlockSize + Len(m))

(* However a message is cut into appends, and whatever the context held     *)
(* before, the digest is that of the standards for the whole of it, also    *)
(* when the count of bits has wrapped; but with the length that the message *)
(* was reckoned to have.  That is its own, unless some append had 2^29      *)
(* bytes or more and sha1.c:230-231 left them out of the count: then the    *)
(* length that is hashed is wrong, and the digest is not the standard's.    *)
DigestIsOfTheMessage ==
    digested \notin {<<>>, None} =>
        digested.digest = IF digested.of = "sha1" THEN Sha1Counted(message, reckoned)
                          ELSE HmacCounted(key, message, reckoned)

(* RFC 2898: U_1 = PRF(salt, INT(i)) and U_j = PRF(U_(j-1)).               *)
Seed(saltlen, block) == Append(Named("salt", saltlen), <<"int", block>>)
Chain(seed, count) ==
    LET us[j \in 1..count] == Prf(IF j = 1 THEN seed ELSE us[j - 1]) IN us

(* Byte k of the key is byte k mod hLen of U_1 xor .. xor U_c for its block.  *)
BlockOf(k) == (k - 1) \div PrfSize + 1
ByteOf(k) == ((k - 1) % PrfSize) + 1
StandardByte(k) ==
    LET us == Chain(Seed(kdf.saltlen, BlockOf(k)), kdf.count)
    IN {us[j][ByteOf(k)] : j \in 1..kdf.count}

DerivedKeyIsStandard ==
    kdf.at = "returned" /\ kdf.rc = 0 =>
        \A k \in 1..kdf.dklen : kdf.dk[k] = StandardByte(k)
=============================================================================
