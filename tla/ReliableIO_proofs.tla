-------------------------- MODULE ReliableIO_proofs --------------------------
(***************************************************************************)
(* Proofs about reading and writing whole blocks: for any sizes of blocks, *)
(* streams and files, and any number of short transfers, signals and       *)
(* errors, a call that succeeds did the whole of what it says, and one     *)
(* that returns for an interrupt was asked to.                             *)
(***************************************************************************)
EXTENDS ReliableIO, SequenceTheorems, TLAPS

LEMMA MinOfTwo ==
    ASSUME NEW m \in Nat, NEW n \in Nat
    PROVE  Min({m, n}) = IF m <= n THEN m ELSE n
<1> DEFINE least == IF m <= n THEN m ELSE n
           IsMin(x) == \A y \in {m, n} : x <= y
<1>1. least \in {m, n} /\ IsMin(least)
  OBVIOUS
<1>2. ASSUME NEW x \in {m, n}, IsMin(x) PROVE x = least
  BY <1>2
<1>3. (CHOOSE x \in {m, n} : IsMin(x)) = least
  <2> HIDE DEF IsMin, least
  <2> QED BY <1>1, <1>2
<1> QED BY <1>3 DEF Min
-----------------------------------------------------------------------------
(*                        The inductive invariant                          *)

CallRec == [fn : IOFuncs \cup {"none"}, at : {"called", "returned"},
            n : Nat, nleft : Nat, buf : Seq(Nat), rc : Int]
StreamRec == [arrived : Nat, read : Nat, closed : BOOLEAN]

(* The part of the types that transfers depend on. *)
TransferTypes ==
    /\ io \in CallRec
    /\ io.nleft <= io.n
    /\ stream \in StreamRec
    /\ stream.read <= stream.arrived
    /\ sink \in Seq(Nat)

(* What was read is the end of what was taken from the stream; the call has *)
(* what is not left, and once it succeeded lacks only what never comes.     *)
ReadSoFar ==
    io.fn \in Readers =>
        /\ Len(io.buf) <= stream.read
        /\ \A i \in 1..Len(io.buf) : io.buf[i] = stream.read - Len(io.buf) + i
        /\ Running => Len(io.buf) = io.n - io.nleft
        /\ ~Running /\ io.rc >= 0 =>
             /\ Len(io.buf) < io.n => stream.closed /\ stream.read = stream.arrived
             /\ IF io.fn = "I2RandomBytes" THEN Len(io.buf) = io.n ELSE Len(io.buf) = io.rc

(* What was written is the beginning of the buffer. *)
WrittenSoFar ==
    io.fn \in Writers =>
        /\ Len(io.buf) = io.n
        /\ Running => sink = SubSeq(io.buf, 1, io.n - io.nleft)
        /\ ~Running /\ io.rc >= 0 => sink = io.buf /\ io.rc = io.n

CopiedFile ==
    io.fn = "I2CopyFile" =>
        /\ ~Running
        /\ io.rc >= 0 =>
             /\ IsPrefix(sink, io.buf)
             /\ Len(sink) = IF io.n = 0 THEN Len(io.buf) ELSE Min({io.n, Len(io.buf)})

IOInv == TransferTypes /\ ReadSoFar /\ WrittenSoFar /\ CopiedFile

(* The steps change a call in three ways. *)
LEMMA Returned ==
    ASSUME io \in CallRec, NEW c \in Int, io' = [io EXCEPT !.at = "returned", !.rc = c]
    PROVE  /\ io' \in CallRec /\ io'.at = "returned" /\ io'.rc = c
           /\ io'.fn = io.fn /\ io'.n = io.n /\ io'.nleft = io.nleft /\ io'.buf = io.buf
<1> USE DEF CallRec
<1>1. io'.at = "returned" /\ io'.rc = c
      /\ io'.fn = io.fn /\ io'.n = io.n /\ io'.nleft = io.nleft /\ io'.buf = io.buf
  OBVIOUS
<1>2. io' \in CallRec
  BY <1>1
<1> QED BY <1>1, <1>2

LEMMA Reduced ==
    ASSUME NEW r \in CallRec, NEW k \in Nat, NEW q, q = [r EXCEPT !.nleft = k]
    PROVE  /\ q \in CallRec /\ q.nleft = k
           /\ q.fn = r.fn /\ q.at = r.at /\ q.n = r.n /\ q.buf = r.buf /\ q.rc = r.rc
BY DEF CallRec

LEMMA Extended ==
    ASSUME io \in CallRec, NEW k \in Nat, NEW b \in Seq(Nat),
           io' = [io EXCEPT !.nleft = k, !.buf = b]
    PROVE  /\ io' \in CallRec /\ io'.nleft = k /\ io'.buf = b
           /\ io'.fn = io.fn /\ io'.at = io.at /\ io'.n = io.n /\ io'.rc = io.rc
BY DEF CallRec

LEMMA Fields ==
    ASSUME TransferTypes
    PROVE  /\ io \in CallRec /\ io.n \in Nat /\ io.nleft \in Nat /\ io.nleft <= io.n
           /\ io.buf \in Seq(Nat) /\ Len(io.buf) \in Nat /\ io.rc \in Int
           /\ stream \in StreamRec /\ stream.read \in Nat /\ stream.arrived \in Nat
           /\ stream.read <= stream.arrived /\ sink \in Seq(Nat)
<1>1. io \in CallRec /\ io.nleft <= io.n /\ stream \in StreamRec
      /\ stream.read <= stream.arrived /\ sink \in Seq(Nat)
  BY DEF TransferTypes
<1>2. io.n \in Nat /\ io.nleft \in Nat /\ io.buf \in Seq(Nat) /\ io.rc \in Int
  BY <1>1 DEF CallRec
<1>3. stream.read \in Nat /\ stream.arrived \in Nat
  BY <1>1 DEF StreamRec
<1> QED BY <1>1, <1>2, <1>3

LEMMA CallIsRecord == ASSUME TransferTypes PROVE io \in CallRec /\ stream \in StreamRec
BY DEF TransferTypes

LEMMA IOInitially == IOInit => IOInv
<1> SUFFICES ASSUME IOInit PROVE IOInv
  OBVIOUS
<1>1. /\ io = [fn |-> "none", at |-> "returned", n |-> 0, nleft |-> 0, buf |-> <<>>, rc |-> 0]
      /\ stream = [arrived |-> 0, read |-> 0, closed |-> FALSE]
      /\ sink = <<>>
  BY DEF IOInit
<1>2. io.fn = "none" /\ io.at = "returned" /\ io.nleft = 0 /\ io.n = 0
  BY <1>1
<1>3. io \in CallRec
  <2>1. <<>> \in Seq(Nat) /\ "none" \in IOFuncs \cup {"none"}
    OBVIOUS
  <2> QED BY <1>1, <2>1 DEF CallRec
<1>4. stream \in StreamRec /\ stream.read = 0 /\ stream.arrived = 0
  BY <1>1 DEF StreamRec
<1>5. TransferTypes
  BY <1>1, <1>2, <1>3, <1>4 DEF TransferTypes
<1> QED BY <1>2, <1>5 DEF IOInv, ReadSoFar, WrittenSoFar, CopiedFile, Readers, Writers

(* Steps that leave the call, the stream and what was written alone. *)
LEMMA Elsewhere ==
    ASSUME IOInv, UNCHANGED <<io, stream, sink>> PROVE IOInv'
BY DEF IOInv, TransferTypes, ReadSoFar, WrittenSoFar, CopiedFile, Running

(* A call that runs fails. *)
LEMMA Failing ==
    ASSUME IOInv, Running, IOReturn(-1), UNCHANGED <<stream, sink>> PROVE IOInv'
<1>1. /\ io'.fn = io.fn /\ io'.at = "returned" /\ io'.n = io.n /\ io'.nleft = io.nleft
      /\ io'.buf = io.buf /\ io'.rc = -1 /\ io' \in CallRec
  <2>1. io \in CallRec /\ -1 \in Int
    BY CallIsRecord DEF IOInv
  <2>2. io' = [io EXCEPT !.at = "returned", !.rc = -1]
    BY DEF IOReturn
  <2> QED BY <2>1, <2>2, Returned, Zenon
<1>2. TransferTypes'
  BY <1>1, Fields DEF IOInv, TransferTypes
<1>3. ReadSoFar'
  BY <1>1 DEF IOInv, ReadSoFar, Running
<1>4. WrittenSoFar'
  BY <1>1 DEF IOInv, WrittenSoFar, Running
<1>5. CopiedFile'
  BY <1>1 DEF IOInv, CopiedFile, Running
<1> QED BY <1>2, <1>3, <1>4, <1>5 DEF IOInv
-----------------------------------------------------------------------------
LEMMA CallIOStep == ASSUME IOInv, NEW fn \in Readers \cup Writers, CallIO(fn) PROVE IOInv'
<1> PICK n \in BlockSizes :
      io' = [fn |-> fn, at |-> "called", n |-> n, nleft |-> n, rc |-> 0,
             buf |-> IF fn \in Writers THEN [i \in 1..n |-> i] ELSE <<>>]
  BY DEF CallIO
<1>1. n \in Nat /\ fn \in IOFuncs /\ sink' = <<>> /\ stream' = stream
  BY IOAssumption DEF CallIO, IOFuncs, Readers, Writers
<1>2. [i \in 1..n |-> i] \in Seq(Nat) /\ Len([i \in 1..n |-> i]) = n
  BY <1>1
<1>3. /\ io'.fn = fn /\ io'.at = "called" /\ io'.n = n /\ io'.nleft = n /\ io'.rc = 0
      /\ fn \in Writers => io'.buf = [i \in 1..n |-> i]
      /\ fn \notin Writers => io'.buf = <<>>
      /\ io'.buf \in Seq(Nat)
  BY <1>2
<1>4. TransferTypes'
  <2> DEFINE b == IF fn \in Writers THEN [i \in 1..n |-> i] ELSE <<>>
  <2>1. b \in Seq(Nat)
    BY <1>2
  <2>2. io' = [fn |-> fn, at |-> "called", n |-> n, nleft |-> n, rc |-> 0, buf |-> b]
    OBVIOUS
  <2> HIDE DEF b
  <2>3. io' \in CallRec
    BY <1>1, <2>1, <2>2 DEF CallRec
  <2> QED BY <1>1, <1>3, <2>3 DEF IOInv, TransferTypes
<1>5. ReadSoFar'
  <2>1. stream'.read \in Nat
    BY <1>1, Fields DEF IOInv
  <2> QED BY <1>1, <1>3, <2>1 DEF ReadSoFar, Running, Readers, Writers
<1>6. WrittenSoFar'
  <2>1. io'.fn \in Writers => Len(io'.buf) = io'.n
    BY <1>2, <1>3
  <2>2. SubSeq(io'.buf, 1, 0) = <<>>
    BY <1>3
  <2> QED BY <1>1, <1>3, <2>1, <2>2 DEF WrittenSoFar, Running
<1>7. CopiedFile'
  BY <1>3 DEF CopiedFile, Readers, Writers
<1> QED BY <1>4, <1>5, <1>6, <1>7 DEF IOInv

LEMMA DoneStep == IOInv /\ Done => IOInv'
<1> SUFFICES ASSUME IOInv, Done PROVE IOInv'
  OBVIOUS
<1>1. /\ Running /\ io.fn # "I2CopyFile" /\ io.nleft = 0 /\ UNCHANGED <<stream, sink>>
      /\ io' = [io EXCEPT !.at = "returned",
                          !.rc = IF io.fn = "I2RandomBytes" THEN 0 ELSE io.n]
  BY DEF Done, IOReturn
<1>2. /\ io'.fn = io.fn /\ io'.at = "returned" /\ io'.n = io.n /\ io'.nleft = 0
      /\ io'.buf = io.buf /\ io'.rc = IF io.fn = "I2RandomBytes" THEN 0 ELSE io.n
      /\ io' \in CallRec
  <2> DEFINE rc == IF io.fn = "I2RandomBytes" THEN 0 ELSE io.n
  <2>1. rc \in Int
    BY Fields DEF IOInv
  <2>2. io' = [io EXCEPT !.at = "returned", !.rc = rc]
    BY <1>1
  <2> HIDE DEF rc
  <2>3. /\ io' \in CallRec /\ io'.at = "returned" /\ io'.rc = rc
        /\ io'.fn = io.fn /\ io'.n = io.n /\ io'.nleft = io.nleft /\ io'.buf = io.buf
    <3>1. io \in CallRec
      BY CallIsRecord DEF IOInv
    <3> QED BY <2>1, <2>2, <3>1, Returned, Zenon
  <2> QED BY <1>1, <2>3 DEF rc
<1>3. TransferTypes'
  BY <1>1, <1>2, Fields DEF IOInv, TransferTypes
<1>4. io.n \in Nat /\ io.buf \in Seq(Nat)
  BY Fields DEF IOInv
<1>5. ReadSoFar'
  BY <1>1, <1>2, <1>4 DEF IOInv, ReadSoFar, Running
<1>6. WrittenSoFar'
  <2>1. io.fn \in Writers => sink = SubSeq(io.buf, 1, Len(io.buf)) /\ Len(io.buf) = io.n
    BY <1>1, <1>4 DEF IOInv, WrittenSoFar
  <2>2. SubSeq(io.buf, 1, Len(io.buf)) = io.buf
    BY <1>4, SubSeqFull
  <2> QED BY <1>1, <1>2, <2>1, <2>2 DEF WrittenSoFar, Running, Writers
<1>7. CopiedFile'
  BY <1>1, <1>2 DEF CopiedFile
<1> QED BY <1>3, <1>5, <1>6, <1>7 DEF IOInv

LEMMA ReadSomeStep == IOInv /\ ReadSome => IOInv'
<1> SUFFICES ASSUME IOInv, ReadSome PROVE IOInv'
  OBVIOUS
<1>1. /\ io.n \in Nat /\ io.nleft \in Nat /\ io.nleft <= io.n /\ io.buf \in Seq(Nat)
      /\ stream.arrived \in Nat /\ stream.read \in Nat /\ stream.read <= stream.arrived
      /\ Running /\ io.fn \in Readers /\ sink' = sink
  BY Fields DEF IOInv, ReadSome, Reading
<1> DEFINE enough == Min({io.nleft, stream.arrived - stream.read})
<1>2. enough \in Nat /\ enough <= io.nleft /\ enough <= stream.arrived - stream.read
  BY <1>1, MinOfTwo
<1>0. PICK nread \in 1..enough :
      /\ io' = [io EXCEPT !.nleft = @ - nread,
                          !.buf = @ \o [i \in 1..nread |-> stream.read + i]]
      /\ stream' = [stream EXCEPT !.read = @ + nread]
  BY DEF ReadSome
<1> HIDE DEF enough
<1>3. nread \in Nat /\ nread <= io.nleft /\ nread <= stream.arrived - stream.read
      /\ io.nleft - nread \in Nat
  BY <1>1, <1>2
<1> DEFINE new == [i \in 1..nread |-> stream.read + i]
<1>4. new \in Seq(Nat) /\ Len(new) = nread
  <2>1. \A i \in 1..nread : stream.read + i \in Nat
    BY <1>1, <1>3
  <2>2. new \in [1..nread -> Nat]
    BY <2>1
  <2> HIDE DEF new
  <2> QED BY <1>3, <2>2
<1>5. /\ io.buf \o new \in Seq(Nat) /\ Len(io.buf \o new) = Len(io.buf) + nread
      /\ \A i \in 1..Len(io.buf) + nread :
           (io.buf \o new)[i] = IF i <= Len(io.buf) THEN io.buf[i]
                                ELSE stream.read + (i - Len(io.buf))
  <2>1. \A i \in 1..nread : new[i] = stream.read + i
    OBVIOUS
  <2> HIDE DEF new
  <2>2. io.buf \in Seq(Nat) /\ Len(io.buf) \in Nat
    BY Fields DEF IOInv
  <2>3. /\ io.buf \o new \in Seq(Nat) /\ Len(io.buf \o new) = Len(io.buf) + nread
        /\ \A i \in 1..Len(io.buf) + nread :
             (io.buf \o new)[i] = IF i <= Len(io.buf) THEN io.buf[i] ELSE new[i - Len(io.buf)]
    BY <1>4, <2>2, ConcatProperties
  <2>4. ASSUME NEW k \in Nat, NEW i \in 1..k + nread, ~(i <= k) PROVE i - k \in 1..nread
    BY <1>3, <2>4
  <2> QED BY <2>1, <2>2, <2>3, <2>4
<1>6. /\ io'.fn = io.fn /\ io'.at = io.at /\ io'.n = io.n /\ io'.rc = io.rc
      /\ io'.nleft = io.nleft - nread /\ io'.buf = io.buf \o new /\ io' \in CallRec
      /\ stream'.read = stream.read + nread /\ stream'.arrived = stream.arrived
      /\ stream' \in StreamRec
  <2>1. io' = [io EXCEPT !.nleft = io.nleft - nread, !.buf = io.buf \o new]
    BY <1>0
  <2>2. stream' = [stream EXCEPT !.read = stream.read + nread]
    BY <1>0
  <2> HIDE DEF new
  <2>3. /\ io'.fn = io.fn /\ io'.at = io.at /\ io'.n = io.n /\ io'.rc = io.rc
        /\ io'.nleft = io.nleft - nread /\ io'.buf = io.buf \o new /\ io' \in CallRec
    <3>1. io \in CallRec
      BY CallIsRecord DEF IOInv
    <3> QED BY <1>3, <1>5, <2>1, <3>1, Extended, Zenon
  <2>4. stream.read + nread \in Nat
    BY <1>1, <1>3
  <2>5. stream'.read = stream.read + nread /\ stream'.arrived = stream.arrived
        /\ stream' \in StreamRec
    <3>1. stream \in StreamRec
      BY CallIsRecord DEF IOInv
    <3> QED BY <2>2, <2>4, <3>1 DEF StreamRec
  <2> QED BY <2>3, <2>5
<1> HIDE DEF new
<1>7. TransferTypes'
  <2>1. /\ io'.nleft <= io'.n /\ stream'.read <= stream'.arrived
        /\ io' \in CallRec /\ stream' \in StreamRec
    BY <1>1, <1>3, <1>6
  <2>2. sink' \in Seq(Nat)
    BY <1>1, Fields DEF IOInv
  <2> QED BY <2>1, <2>2 DEF TransferTypes
<1>8. ReadSoFar'
  <2>1. /\ Len(io.buf) <= stream.read /\ Len(io.buf) = io.n - io.nleft
        /\ \A i \in 1..Len(io.buf) : io.buf[i] = stream.read - Len(io.buf) + i
    BY <1>1 DEF IOInv, ReadSoFar
  <2>2. Len(io'.buf) = Len(io.buf) + nread /\ Len(io'.buf) <= stream'.read
    BY <1>1, <1>3, <1>5, <1>6, <2>1
  <2>3. Len(io'.buf) = io'.n - io'.nleft
    BY <1>1, <1>3, <1>6, <2>1, <2>2
  <2>4. ASSUME NEW i \in 1..Len(io'.buf)
        PROVE  io'.buf[i] = stream'.read - Len(io'.buf) + i
    <3>1. stream'.read - Len(io'.buf) + i = stream.read - Len(io.buf) + i
      BY <1>1, <1>3, <1>6, <2>2
    <3>2. io'.buf[i] = IF i <= Len(io.buf) THEN io.buf[i]
                       ELSE stream.read + (i - Len(io.buf))
      BY <1>5, <1>6, <2>2
    <3>3. CASE i <= Len(io.buf)
      <4>1. i \in 1..Len(io.buf)
        BY <1>1, <3>3
      <4>2. io.buf[i] = stream.read - Len(io.buf) + i
        BY <2>1, <4>1
      <4> QED BY <3>1, <3>2, <3>3, <4>2
    <3>4. CASE ~(i <= Len(io.buf))
      <4>1. i \in Int /\ Len(io.buf) \in Int /\ stream.read \in Int
        BY <1>1
      <4>2. stream.read + (i - Len(io.buf)) = stream.read - Len(io.buf) + i
        BY <4>1
      <4> QED BY <3>1, <3>2, <3>4, <4>2
    <3> QED BY <3>3, <3>4
  <2>5. Running'
    BY <1>1, <1>6 DEF Running
  <2> QED BY <2>2, <2>3, <2>4, <2>5 DEF ReadSoFar
<1>9. WrittenSoFar' /\ CopiedFile'
  BY <1>1, <1>6 DEF WrittenSoFar, CopiedFile, Readers, Writers
<1> QED BY <1>7, <1>8, <1>9 DEF IOInv

LEMMA ReadEOFStep == IOInv /\ ReadEOF => IOInv'
<1> SUFFICES ASSUME IOInv, ReadEOF PROVE IOInv'
  OBVIOUS
<1> DEFINE rc == IF io.fn = "I2RandomBytes" THEN -1 ELSE io.n - io.nleft
<1>1. /\ Running /\ io.fn \in Readers /\ stream.closed /\ stream.read = stream.arrived
      /\ io.n \in Nat /\ io.nleft \in Nat /\ io.nleft <= io.n
      /\ io' = [io EXCEPT !.at = "returned", !.rc = rc]
      /\ UNCHANGED <<stream, sink>>
  BY Fields DEF ReadEOF, Reading, IOReturn, IOInv
<1>2. rc \in Int
  BY <1>1
<1>3. /\ io'.fn = io.fn /\ io'.at = "returned" /\ io'.n = io.n /\ io'.nleft = io.nleft
      /\ io'.buf = io.buf /\ io'.rc = rc /\ io' \in CallRec
  <2>1. io' = [io EXCEPT !.at = "returned", !.rc = rc]
    BY <1>1
  <2> HIDE DEF rc
  <2>2. io \in CallRec
    BY CallIsRecord DEF IOInv
  <2> QED BY <1>2, <2>1, <2>2, Returned, Zenon
<1>4. TransferTypes'
  BY <1>1, <1>3, Fields DEF IOInv, TransferTypes
<1>5. ReadSoFar'
  BY <1>1, <1>3 DEF IOInv, ReadSoFar, Running
<1>6. WrittenSoFar' /\ CopiedFile'
  BY <1>1, <1>3 DEF WrittenSoFar, CopiedFile, Readers, Writers
<1> QED BY <1>4, <1>5, <1>6 DEF IOInv

LEMMA WriteSomeStep == IOInv /\ WriteSome => IOInv'
<1> SUFFICES ASSUME IOInv, WriteSome PROVE IOInv'
  OBVIOUS
<1>1. /\ Running /\ io.fn \in Writers /\ stream' = stream
      /\ sink = SubSeq(io.buf, 1, io.n - io.nleft) /\ Len(io.buf) = io.n
  BY DEF IOInv, WrittenSoFar, WriteSome, Writing
<1>a. io.n \in Nat /\ io.nleft \in Nat /\ io.nleft <= io.n
  BY Fields DEF IOInv
<1>b. io.buf \in Seq(Nat) /\ io \in CallRec
  BY Fields DEF IOInv
<1>0. PICK nwritten \in 1..io.nleft :
      /\ io' = [io EXCEPT !.nleft = @ - nwritten]
      /\ sink' = sink \o SubSeq(io.buf, io.n - io.nleft + 1, io.n - io.nleft + nwritten)
  BY DEF WriteSome
<1> DEFINE done == io.n - io.nleft
<1>2. /\ nwritten \in Nat /\ nwritten <= io.nleft /\ done \in Nat /\ done + nwritten <= io.n
      /\ io.nleft - nwritten \in Nat /\ io.n - (io.nleft - nwritten) = done + nwritten
      /\ done + nwritten \in Nat
  BY <1>a
<1>3. /\ io'.fn = io.fn /\ io'.at = io.at /\ io'.n = io.n /\ io'.rc = io.rc
      /\ io'.nleft = io.nleft - nwritten /\ io'.buf = io.buf /\ io' \in CallRec
      /\ io'.n - io'.nleft = done + nwritten
  <2>1. io' = [io EXCEPT !.nleft = io.nleft - nwritten]
    BY <1>0
  <2> HIDE DEF done
  <2>2. /\ io'.fn = io.fn /\ io'.at = io.at /\ io'.n = io.n /\ io'.rc = io.rc
        /\ io'.nleft = io.nleft - nwritten /\ io'.buf = io.buf /\ io' \in CallRec
    BY <1>2, <1>b, <2>1, Reduced
  <2> QED BY <1>2, <2>2
<1> HIDE DEF done
<1>c. sink = SubSeq(io.buf, 1, done)
      /\ sink' = sink \o SubSeq(io.buf, done + 1, done + nwritten)
  BY <1>0, <1>1 DEF done
<1>4. sink' = SubSeq(io.buf, 1, done + nwritten)
  <2>1. /\ 1 \in 1..io.n + 1 /\ done \in 1 - 1..io.n /\ done + nwritten \in done..io.n
    BY <1>a, <1>2
  <2>2. /\ 1 \in 1..Len(io.buf) + 1 /\ done \in 1 - 1..Len(io.buf)
        /\ done + nwritten \in done..Len(io.buf)
    BY <1>1, <2>1
  <2>3. SubSeq(io.buf, 1, done) \o SubSeq(io.buf, done + 1, done + nwritten)
          = SubSeq(io.buf, 1, done + nwritten)
    BY <1>b, <2>2, ConcatAdjacentSubSeq
  <2> QED BY <1>c, <2>3
<1>5. sink' \in Seq(Nat)
  <2>1. \A i \in 1..done + nwritten : i \in 1..io.n
    BY <1>a, <1>2
  <2>2. \A i \in 1..Len(io.buf) : io.buf[i] \in Nat
    BY <1>b
  <2>3. \A i \in 1..done + nwritten : io.buf[i] \in Nat
    BY <1>1, <2>1, <2>2
  <2>4. 1 \in Int /\ done + nwritten \in Int
    BY <1>2
  <2> QED BY <1>4, <2>3, <2>4, SubSeqProperties
<1>6. TransferTypes'
  <2>1. io'.nleft <= io'.n
    BY <1>2, <1>3, <1>a
  <2>2. stream' \in StreamRec /\ stream'.read <= stream'.arrived
    BY <1>1 DEF IOInv, TransferTypes
  <2> QED BY <1>3, <1>5, <2>1, <2>2 DEF TransferTypes
<1>7. WrittenSoFar'
  BY <1>1, <1>3, <1>4 DEF WrittenSoFar, Running
<1>8. ReadSoFar' /\ CopiedFile'
  BY <1>1, <1>3 DEF ReadSoFar, CopiedFile, Readers, Writers
<1> QED BY <1>6, <1>7, <1>8 DEF IOInv

LEMMA PeerSendsStep == IOInv /\ PeerSends => IOInv'
<1> SUFFICES ASSUME IOInv, PeerSends PROVE IOInv'
  OBVIOUS
<1>1. /\ stream.closed = FALSE /\ UNCHANGED <<io, sink>>
      /\ \/ stream' = [stream EXCEPT !.arrived = @ + 1]
         \/ stream' = [stream EXCEPT !.closed = TRUE]
      /\ stream \in StreamRec
      /\ stream.read <= stream.arrived
  BY Fields DEF PeerSends, IOInv, StreamRec
<1>2. /\ stream' \in StreamRec
      /\ stream'.read = stream.read /\ stream'.read <= stream'.arrived
  <2>1. CASE stream' = [stream EXCEPT !.arrived = @ + 1]
    BY <1>1, <2>1 DEF StreamRec
  <2>2. CASE stream' = [stream EXCEPT !.closed = TRUE]
    BY <1>1, <2>2 DEF StreamRec
  <2> QED BY <1>1, <2>1, <2>2
<1>3. TransferTypes'
  BY <1>1, <1>2 DEF IOInv, TransferTypes
<1>4. ReadSoFar'
  BY <1>1, <1>2 DEF IOInv, ReadSoFar, Running
<1>5. WrittenSoFar' /\ CopiedFile'
  BY <1>1 DEF IOInv, WrittenSoFar, CopiedFile, Running
<1> QED BY <1>3, <1>4, <1>5 DEF IOInv

(* A file of bytes numbered by their place, and the beginning of it. *)
CopyShape(size, len, file, copy, zeros) ==
    /\ file = [i \in 1..size |-> i]
    /\ copy = [i \in 1..len |-> IF i <= size THEN i ELSE 0]
    /\ zeros = [i \in 1..len |-> 0]

LEMMA CopyFacts ==
    ASSUME NEW size \in Nat, NEW len \in Nat, len <= size,
           NEW file, NEW copy, NEW zeros, CopyShape(size, len, file, copy, zeros)
    PROVE  /\ file \in Seq(Nat) /\ copy \in Seq(Nat) /\ zeros \in Seq(Nat)
           /\ Len(file) = size /\ Len(copy) = len
           /\ IsPrefix(copy, file)
<1> USE DEF CopyShape
<1>1. file \in [1..size -> Nat] /\ copy \in [1..len -> Nat] /\ zeros \in [1..len -> Nat]
  OBVIOUS
<1>2. file \in Seq(Nat) /\ copy \in Seq(Nat) /\ zeros \in Seq(Nat)
  BY <1>1
<1>3. Len(file) = size /\ Len(copy) = len
  BY <1>1
<1>4. \A i \in 1..len : copy[i] = i /\ file[i] = i
  OBVIOUS
<1>5. /\ SubSeq(file, 1, len) \in Seq(Nat) /\ Len(SubSeq(file, 1, len)) = len
      /\ \A i \in 1..len : SubSeq(file, 1, len)[i] = file[i]
  <2>1. \A i \in 1..len : file[i] \in Nat
    BY <1>4
  <2> QED BY <2>1, SubSeqProperties
<1>6. SubSeq(copy, 1, len) = copy
  BY <1>2, <1>3, SubSeqFull
<1>7. copy = SubSeq(file, 1, len)
  BY <1>2, <1>3, <1>4, <1>5, SeqEqual
<1> QED BY <1>2, <1>3, <1>6, <1>7 DEF IsPrefix

(* What a copy may leave in its target: nothing new, zeros, or the copy. *)
LEMMA CopyTarget ==
    ASSUME NEW result \in {"fstat", "ftruncate", "mmap from", "mmap to", "copied"},
           NEW old, NEW zeros, NEW copy, NEW target,
           target = CASE result \in {"fstat", "ftruncate"} -> old
                      [] result \in {"mmap from", "mmap to"} -> zeros
                      [] result = "copied" -> copy
    PROVE  target \in {old, zeros, copy} /\ (result = "copied" => target = copy)
<1>1. CASE result \in {"fstat", "ftruncate"}
  <2>1. target = old /\ result # "copied"
    BY <1>1
  <2> QED BY <2>1
<1>2. CASE result \in {"mmap from", "mmap to"}
  <2>1. result \notin {"fstat", "ftruncate"} /\ result # "copied"
    BY <1>2
  <2>2. target = zeros
    BY <1>2, <2>1
  <2> QED BY <2>1, <2>2
<1>3. CASE result = "copied"
  <2>1. result \notin {"fstat", "ftruncate"} /\ result \notin {"mmap from", "mmap to"}
    BY <1>3
  <2>2. target = copy
    BY <1>3, <2>1
  <2> QED BY <2>2
<1> QED BY <1>1, <1>2, <1>3

LEMMA CopyLengthFacts ==
    ASSUME NEW asked \in Nat, NEW size \in Nat
    PROVE  /\ CopyLength(asked, size) \in Nat /\ CopyLength(asked, size) <= size
           /\ CopyLength(asked, size) = IF asked = 0 THEN size ELSE Min({asked, size})
BY MinOfTwo DEF CopyLength

LEMMA OnlyCopied == \A result : (IF result = "copied" THEN 0 ELSE -1) = 0 => result = "copied"
OBVIOUS

CopyOutcome(size, asked, file, copy, zeros, rc) ==
    /\ size \in Nat /\ asked \in Nat /\ rc \in {0, -1}
    /\ CopyShape(size, CopyLength(asked, size), file, copy, zeros)
    /\ io' = [fn |-> "I2CopyFile", at |-> "returned", n |-> asked, nleft |-> 0,
              buf |-> file, rc |-> rc]
    /\ stream' = stream
    /\ sink' \in {sink, zeros, copy} /\ (rc = 0 => sink' = copy)

(* A copy that succeeds is made of the beginning of the file. *)
LEMMA CopyFileStep == IOInv /\ I2CopyFile => IOInv'
<1>1. ASSUME IOInv, NEW size, NEW asked, NEW file, NEW copy, NEW zeros, NEW rc,
             CopyOutcome(size, asked, file, copy, zeros, rc)
      PROVE  IOInv'
  <2> USE DEF CopyOutcome
  <2>0. size \in Nat /\ asked \in Nat
    BY <1>1
  <2>1. /\ file \in Seq(Nat) /\ copy \in Seq(Nat) /\ zeros \in Seq(Nat)
        /\ Len(file) = size /\ Len(copy) = CopyLength(asked, size)
        /\ IsPrefix(copy, file)
    <3>1. CopyLength(asked, size) \in Nat /\ CopyLength(asked, size) <= size
      BY <2>0, CopyLengthFacts
    <3>2. CopyShape(size, CopyLength(asked, size), file, copy, zeros)
      BY <1>1
    <3> HIDE DEF CopyOutcome
    <3> QED BY <2>0, <3>1, <3>2, CopyFacts
  <2>2. /\ io'.fn = "I2CopyFile" /\ io'.at = "returned" /\ io'.n = asked /\ io'.nleft = 0
        /\ io'.buf = file /\ io'.rc = rc
    BY <1>1
  <2>3. io' \in CallRec
    <3>1. "I2CopyFile" \in IOFuncs \cup {"none"} /\ rc \in Int
      BY <1>1 DEF IOFuncs
    <3> QED BY <1>1, <2>0, <2>1, <3>1 DEF CallRec
  <2>4. TransferTypes'
    <3>1. sink' \in Seq(Nat)
      <4>1. sink \in Seq(Nat) /\ sink' \in {sink, zeros, copy}
        BY <1>1 DEF IOInv, TransferTypes
      <4> QED BY <2>1, <4>1
    <3>2. stream' \in StreamRec /\ stream'.read <= stream'.arrived
      BY <1>1 DEF IOInv, TransferTypes
    <3>3. io'.nleft <= io'.n
      BY <2>0, <2>2
    <3> QED BY <2>3, <3>1, <3>2, <3>3 DEF TransferTypes
  <2>5. CopiedFile'
    <3>1. Len(copy) = IF asked = 0 THEN Len(file) ELSE Min({asked, Len(file)})
      BY <2>0, <2>1, CopyLengthFacts
    <3>2. io'.rc >= 0 => sink' = copy
      BY <1>1, <2>2
    <3> QED BY <2>1, <2>2, <3>1, <3>2 DEF CopiedFile, Running
  <2>6. ReadSoFar' /\ WrittenSoFar'
    BY <2>2 DEF ReadSoFar, WrittenSoFar, Readers, Writers
  <2> QED BY <2>4, <2>5, <2>6 DEF IOInv
<1>2. ASSUME IOInv, I2CopyFile PROVE IOInv'
  <2>1. PICK size \in FileSizes, asked \in {0} \cup BlockSizes,
         result \in {"fstat", "ftruncate", "mmap from", "mmap to", "copied"} :
         CopyEnds(size, asked, result)
    BY <1>2, Zenon DEF I2CopyFile
  <2> DEFINE file == [i \in 1..size |-> i]
             copy == [i \in 1..CopyLength(asked, size) |-> IF i <= size THEN i ELSE 0]
             zeros == [i \in 1..CopyLength(asked, size) |-> 0]
             rc == IF result = "copied" THEN 0 ELSE -1
  <2>2. size \in Nat
    BY IOAssumption
  <2>3. asked \in Nat
    <3>1. CASE asked = 0
      BY <3>1
    <3>2. CASE asked \in BlockSizes
      BY <3>2, IOAssumption
    <3> QED BY <3>1, <3>2
  <2>4. /\ stream' = stream /\ rc \in {0, -1}
        /\ io' = [fn |-> "I2CopyFile", at |-> "returned", n |-> asked, nleft |-> 0,
                  buf |-> file, rc |-> rc]
    <3>1. stream' = stream
      BY <1>2 DEF I2CopyFile
    <3>2. rc \in {0, -1}
      OBVIOUS
    <3> QED BY <2>1, <3>1, <3>2, Zenon DEF CopyEnds
  <2>5. CopyShape(size, CopyLength(asked, size), file, copy, zeros)
    BY DEF CopyShape
  <2>6. sink' = CASE result \in {"fstat", "ftruncate"} -> sink
                  [] result \in {"mmap from", "mmap to"} -> zeros
                  [] result = "copied" -> copy
    BY <2>1, Zenon DEF CopyEnds
  <2> HIDE DEF file, copy, zeros
  <2>7. sink' \in {sink, zeros, copy} /\ (rc = 0 => sink' = copy)
    <3>1. sink' \in {sink, zeros, copy} /\ (result = "copied" => sink' = copy)
      BY <2>6, CopyTarget, Zenon
    <3>2. rc = 0 => result = "copied"
      BY OnlyCopied, Zenon
    <3> HIDE DEF rc
    <3> QED BY <3>1, <3>2, Zenon
  <2> HIDE DEF rc
  <2>8. CopyOutcome(size, asked, file, copy, zeros, rc)
    BY <2>2, <2>3, <2>4, <2>5, <2>7, Zenon DEF CopyOutcome
  <2> QED BY <1>1, <1>2, <2>8, Zenon
<1> QED BY <1>2
-----------------------------------------------------------------------------
LEMMA IOPreserved == IOInv /\ [IONext]_ioVars => IOInv'
<1> SUFFICES ASSUME IOInv, [IONext]_ioVars PROVE IOInv'
  OBVIOUS
<1>1. ASSUME NEW fn \in Readers \cup Writers, CallIO(fn) PROVE IOInv'
  BY <1>1, CallIOStep
<1>2. CASE IOStep
  BY <1>2, DoneStep, ReadSomeStep, ReadEOFStep, WriteSomeStep DEF IOStep
<1>3. CASE Interrupted
  <2>1. Running /\ UNCHANGED <<stream, sink>> /\ (IOReturn(-1) \/ io' = io)
    BY <1>3 DEF Interrupted, Reading, Writing
  <2> QED BY <2>1, Failing, Elsewhere
<1>4. CASE Signalled
  BY <1>4, Elsewhere DEF Signalled
<1>5. CASE Fails
  BY <1>5, Failing DEF Fails, Reading, Writing
<1>6. CASE WriteNothing
  <2>1. Running /\ UNCHANGED <<stream, sink>> /\ (IOReturn(-1) \/ io' = io)
    BY <1>6 DEF WriteNothing, Writing
  <2> QED BY <2>1, Failing, Elsewhere
<1>7. CASE ClearFlag
  BY <1>7, Elsewhere DEF ClearFlag
<1>8. CASE PeerSends
  BY <1>8, PeerSendsStep
<1>9. CASE I2RandomSourceInit \/ I2RandomSourceClose
  BY <1>9, Elsewhere DEF I2RandomSourceInit, I2RandomSourceClose
<1>10. CASE I2CopyFile
  BY <1>10, CopyFileStep
<1>11. CASE UNCHANGED ioVars
  BY <1>11, Elsewhere DEF ioVars
<1> QED BY <1>1, <1>2, <1>3, <1>4, <1>5, <1>6, <1>7, <1>8, <1>9, <1>10, <1>11 DEF IONext

-----------------------------------------------------------------------------
(* What transfers do not depend on: the flag, errno, the bounds.            *)
AroundTypes ==
    /\ intr \in BOOLEAN /\ errno \in {"none", "EINTR", "EIO"}
    /\ stream.arrived <= StreamSize
    /\ source \in {"none", "open", "lost"} /\ maps \in Nat
    /\ ioCalls \in 0..MaxIOCalls /\ faults \in 0..MaxFaults

LEMMA AroundInitially == IOInit => AroundTypes
<1> SUFFICES ASSUME IOInit PROVE AroundTypes
  OBVIOUS
<1>1. stream.arrived = 0
  BY DEF IOInit
<1>2. intr \in BOOLEAN
  BY Zenon DEF IOInit
<1> QED BY <1>1, <1>2, IOAssumption DEF IOInit, AroundTypes

LEMMA AroundStep == IOInv /\ AroundTypes /\ [IONext]_ioVars => AroundTypes'
<1> SUFFICES ASSUME IOInv, AroundTypes, [IONext]_ioVars PROVE AroundTypes'
  OBVIOUS
<1>1. /\ intr \in BOOLEAN /\ ioCalls \in 0..MaxIOCalls /\ faults \in 0..MaxFaults
      /\ MaxIOCalls \in Nat /\ MaxFaults \in Nat /\ StreamSize \in Nat
      /\ maps \in Nat /\ stream.arrived <= StreamSize
  BY IOAssumption DEF AroundTypes
<1>2. stream \in StreamRec /\ stream.arrived \in Nat
  BY Fields DEF IOInv
<1>3. CASE \E fn \in Readers \cup Writers : CallIO(fn)
  <2>1. ioCalls < MaxIOCalls /\ ioCalls' = ioCalls + 1
        /\ UNCHANGED <<intr, errno, stream, source, maps, faults>>
    BY <1>3 DEF CallIO
  <2>2. ioCalls' \in 0..MaxIOCalls
    BY <1>1, <2>1
  <2> QED BY <2>1, <2>2 DEF AroundTypes
<1>4. CASE Done \/ ReadEOF \/ WriteSome
  BY <1>4 DEF Done, ReadEOF, WriteSome, AroundTypes
<1>5. CASE ReadSome
  <2>1. UNCHANGED <<intr, errno, source, maps, ioCalls, faults>>
    BY <1>5 DEF ReadSome
  <2>2. PICK nread : stream' = [stream EXCEPT !.read = @ + nread]
    BY <1>5 DEF ReadSome
  <2>3. stream'.arrived = stream.arrived
    BY <1>2, <2>2 DEF StreamRec
  <2> QED BY <2>1, <2>3 DEF AroundTypes
<1>6. CASE Interrupted \/ Signalled \/ Fails \/ WriteNothing
  <2>1. faults < MaxFaults /\ faults' = faults + 1 /\ UNCHANGED <<stream, source, maps, ioCalls>>
    BY <1>6 DEF Interrupted, Signalled, Fails, WriteNothing, Fault
  <2>2. faults' \in 0..MaxFaults
    BY <1>1, <2>1
  <2>3. errno' \in {"none", "EINTR", "EIO"}
    BY <1>6 DEF Interrupted, Signalled, Fails, WriteNothing, AroundTypes
  <2>4. intr' \in BOOLEAN
    BY <1>1, <1>6, Zenon DEF Interrupted, Signalled, Fails, WriteNothing
  <2> QED BY <2>1, <2>2, <2>3, <2>4 DEF AroundTypes
<1>7. CASE ClearFlag
  <2>1. intr' = FALSE /\ UNCHANGED <<errno, stream, source, maps, ioCalls, faults>>
    BY <1>7 DEF ClearFlag
  <2>2. intr' \in BOOLEAN
    BY <2>1, Zenon
  <2> QED BY <2>1, <2>2 DEF AroundTypes
<1>8. CASE PeerSends
  <2>1. /\ UNCHANGED <<intr, errno, source, maps, ioCalls, faults>>
        /\ stream' = IF stream.arrived < StreamSize
                     THEN [stream EXCEPT !.arrived = stream.arrived + 1]
                     ELSE [stream EXCEPT !.closed = TRUE]
    BY <1>8 DEF PeerSends
  <2>2. stream'.arrived <= StreamSize
    <3>1. CASE stream.arrived < StreamSize
      <4>1. stream'.arrived = stream.arrived + 1
        BY <1>2, <2>1, <3>1 DEF StreamRec
      <4> QED BY <1>1, <1>2, <3>1, <4>1
    <3>2. CASE ~(stream.arrived < StreamSize)
      <4>1. stream'.arrived = stream.arrived
        BY <1>2, <2>1, <3>2 DEF StreamRec
      <4> QED BY <1>1, <4>1
    <3> QED BY <3>1, <3>2
  <2> QED BY <2>1, <2>2 DEF AroundTypes
<1>9. CASE I2RandomSourceInit
  <2>1. /\ ioCalls < MaxIOCalls /\ ioCalls' = ioCalls + 1 /\ source' \in {"open", "lost"}
        /\ UNCHANGED <<intr, errno, stream, maps, faults>>
    BY <1>9 DEF I2RandomSourceInit
  <2>2. ioCalls' \in 0..MaxIOCalls
    BY <1>1, <2>1
  <2> QED BY <2>1, <2>2 DEF AroundTypes
<1>10. CASE I2RandomSourceClose
  BY <1>10 DEF I2RandomSourceClose, AroundTypes
<1>11. CASE I2CopyFile
  <2>1. /\ ioCalls < MaxIOCalls /\ ioCalls' = ioCalls + 1
        /\ UNCHANGED <<intr, errno, stream, source, faults>>
    BY <1>11 DEF I2CopyFile
  <2>2. maps + 0 = maps
    BY <1>1
  <2>3. maps' \in {maps, maps + 1}
    <3>1. PICK size \in FileSizes, asked \in {0} \cup BlockSizes,
               result \in {"fstat", "ftruncate", "mmap from", "mmap to", "copied"} :
             CopyEnds(size, asked, result)
      BY <1>11, Zenon DEF I2CopyFile
    <3>2. maps' = maps + (IF result = "mmap to" THEN 1 ELSE 0)
      BY <3>1, Zenon DEF CopyEnds
    <3>3. CASE result = "mmap to"
      BY <3>2, <3>3, Zenon
    <3>4. CASE result # "mmap to"
      BY <2>2, <3>2, <3>4, Zenon
    <3> QED BY <3>3, <3>4, Zenon
  <2>4. ioCalls' \in 0..MaxIOCalls /\ maps' \in Nat
    BY <1>1, <2>1, <2>3
  <2> QED BY <2>1, <2>4 DEF AroundTypes
<1>12. CASE UNCHANGED ioVars
  BY <1>12 DEF ioVars, AroundTypes
<1> QED BY <1>3, <1>4, <1>5, <1>6, <1>7, <1>8, <1>9, <1>10, <1>11, <1>12 DEF IONext, IOStep

(* Every variable keeps its type, nothing is read that has not arrived, and *)
(* no more is left to transfer than was asked for.                          *)
THEOREM TransfersTyped == IOSpec => []IOTypeOK
<1>1. IOInv /\ AroundTypes => IOTypeOK
  <2> SUFFICES ASSUME IOInv, AroundTypes PROVE IOTypeOK
    OBVIOUS
  <2>1. stream \in StreamRec /\ stream.read <= stream.arrived /\ stream.arrived <= StreamSize
        /\ io \in CallRec /\ io.nleft <= io.n /\ sink \in Seq(Nat)
    BY Fields DEF IOInv, AroundTypes
  <2>2. stream \in [arrived : 0..StreamSize, read : 0..StreamSize, closed : BOOLEAN]
    <3>1. stream.arrived \in 0..StreamSize /\ stream.read \in 0..StreamSize
      BY <2>1, IOAssumption DEF StreamRec
    <3> QED BY <2>1, <3>1 DEF StreamRec
  <2> QED BY <2>1, <2>2 DEF AroundTypes, CallRec, IOTypeOK
<1> QED BY IOInitially, IOPreserved, AroundInitially, AroundStep, <1>1, PTL DEF IOSpec

(* A read that succeeds gives the bytes that follow those before, all that  *)
(* were asked for or all there are; a write, the whole block, once; a copy, *)
(* the file (io.c:57).                                                      *)
THEOREM WholeTransfers == IOSpec => []TransfersAreWhole
<1>1. IOInv => TransfersAreWhole
  <2> SUFFICES ASSUME IOInv PROVE TransfersAreWhole
    OBVIOUS
  <2>1. DOMAIN io.buf = 1..Len(io.buf)
    BY Fields DEF IOInv
  <2> QED BY <2>1 DEF IOInv, ReadSoFar, WrittenSoFar, CopiedFile, TransfersAreWhole
<1> QED BY IOInitially, IOPreserved, <1>1, PTL DEF IOSpec

(* A call that returns for an interrupt found *retn_on_intr set, and only   *)
(* the functions that look at it do (io.c:52).                              *)
THEOREM InterruptsAsked == IOSpec => InterruptsAreAsked
<1> DEFINE Asked == Running /\ io.fn # "I2RandomBytes" /\ io'.at = "returned" /\ io'.rc = -1
                    /\ errno' = "EINTR" => intr' /\ io.fn \in {"I2Readni", "I2Writeni"}
<1>1. IOInv /\ [IONext]_ioVars => [Asked]_ioVars
  <2> SUFFICES ASSUME IOInv, [IONext]_ioVars,
                      Running, io.fn # "I2RandomBytes", io'.at = "returned", io'.rc = -1,
                      errno' = "EINTR"
               PROVE  intr' /\ io.fn \in {"I2Readni", "I2Writeni"}
    OBVIOUS
  <2> USE DEF Running
  <2>0. io \in CallRec /\ io.at = "called"
    BY CallIsRecord DEF IOInv
  <2>1. ASSUME NEW fn \in Readers \cup Writers, CallIO(fn) PROVE FALSE
    BY <2>1 DEF CallIO
  <2>2. CASE Done
    <3>1. io' = [io EXCEPT !.at = "returned", !.rc = io.n]
      BY <2>2 DEF Done, IOReturn
    <3>2. io'.rc = io.n /\ io.n \in Nat
      BY <2>0, <3>1 DEF CallRec
    <3> QED BY <3>2
  <2>3. CASE ReadSome
    <3>1. PICK nread : io' = [io EXCEPT !.nleft = @ - nread,
                                        !.buf = @ \o [i \in 1..nread |-> stream.read + i]]
      BY <2>3 DEF ReadSome
    <3> QED BY <2>0, <3>1 DEF CallRec
  <2>4. CASE ReadEOF
    <3>1. io' = [io EXCEPT !.at = "returned", !.rc = io.n - io.nleft]
      BY <2>4 DEF ReadEOF, IOReturn
    <3>2. io'.rc = io.n - io.nleft
      BY <2>0, <3>1 DEF CallRec
    <3>3. io.n \in Nat /\ io.nleft \in Nat /\ io.nleft <= io.n
      BY Fields DEF IOInv
    <3> QED BY <3>2, <3>3
  <2>5. CASE WriteSome
    <3>1. PICK k : io' = [io EXCEPT !.nleft = @ - k]
      BY <2>5 DEF WriteSome
    <3> QED BY <2>0, <3>1 DEF CallRec
  <2>6. CASE Interrupted
    BY <2>0, <2>6 DEF Interrupted
  <2>7. CASE Signalled
    BY <2>0, <2>7 DEF Signalled
  <2>8. CASE Fails
    BY <2>8 DEF Fails
  <2>9. CASE WriteNothing
    BY <2>0, <2>9 DEF WriteNothing, RetnOnIntr
  <2>10. CASE ClearFlag \/ I2RandomSourceInit \/ I2RandomSourceClose \/ I2CopyFile
    BY <2>10 DEF ClearFlag, I2RandomSourceInit, I2RandomSourceClose, I2CopyFile
  <2>11. CASE PeerSends
    BY <2>0, <2>11 DEF PeerSends
  <2>12. CASE UNCHANGED ioVars
    BY <2>0, <2>12 DEF ioVars
  <2> QED BY <2>1, <2>2, <2>3, <2>4, <2>5, <2>6, <2>7, <2>8, <2>9, <2>10, <2>11, <2>12
          DEF IONext, IOStep
<1> QED BY IOInitially, IOPreserved, <1>1, PTL DEF IOSpec, InterruptsAreAsked
=============================================================================
