----------------------------- MODULE ReliableIO -----------------------------
(***************************************************************************)
(* Reading and writing whole blocks (I2util/io.c), and the source of       *)
(* random bytes that reads through it (I2util/random.c).                   *)
(*                                                                         *)
(* A call is a loop around read() or write(), which transfer less than     *)
(* they are asked for, are interrupted by signals, and fail.  A signal     *)
(* handler of the client may set the flag *retn_on_intr at any time.       *)
(* Bytes are numbered by their place in the stream.                        *)
(***************************************************************************)
EXTENDS Integers, SequencesExt

CONSTANTS
    StreamSize,  \* bytes the peer sends before it closes
    BlockSizes,  \* sizes clients read and write
    FileSizes,   \* sizes of files
    MaxIOCalls,  \* bound: calls made
    MaxFaults    \* bound: signals, errors and writes of nothing

ASSUME IOAssumption ==
    /\ StreamSize \in Nat /\ MaxIOCalls \in Nat /\ MaxFaults \in Nat
    /\ BlockSizes \subseteq Nat \ {0} /\ FileSizes \subseteq Nat

VARIABLES
    io,       \* the call that runs, or ran last
    intr,     \* *retn_on_intr
    errno,
    stream,   \* how many bytes arrived, and how many were read
    sink,     \* the bytes that were written
    source,   \* the I2RandomSource: its descriptor is open or not
    maps,     \* mappings I2CopyFile has not undone
    ioCalls, faults

ioVars == <<io, intr, errno, stream, sink, source, maps, ioCalls, faults>>

IOFuncs == {"I2Readni", "I2Readn", "I2RandomBytes", "I2Writeni", "I2Writen", "I2CopyFile"}
Readers == {"I2Readni", "I2Readn", "I2RandomBytes"}
Writers == {"I2Writeni", "I2Writen"}

IOTypeOK ==
    /\ io \in [fn : IOFuncs \cup {"none"}, at : {"called", "returned"},
               n : Nat, nleft : Nat, buf : Seq(Nat), rc : Int]
    /\ io.nleft <= io.n
    /\ intr \in BOOLEAN /\ errno \in {"none", "EINTR", "EIO"}
    /\ stream \in [arrived : 0..StreamSize, read : 0..StreamSize, closed : BOOLEAN]
    /\ stream.read <= stream.arrived
    /\ sink \in Seq(Nat)
    /\ source \in {"none", "open", "lost"} /\ maps \in Nat
    /\ ioCalls \in 0..MaxIOCalls /\ faults \in 0..MaxFaults

IOInit ==
    /\ io = [fn |-> "none", at |-> "returned", n |-> 0, nleft |-> 0, buf |-> <<>>, rc |-> 0]
    /\ intr = FALSE /\ errno = "none"
    /\ stream = [arrived |-> 0, read |-> 0, closed |-> FALSE]
    /\ sink = <<>>
    /\ source = "none" /\ maps = 0
    /\ ioCalls = 0 /\ faults = 0

Running == io.at = "called"
IOReturn(rc) == io' = [io EXCEPT !.at = "returned", !.rc = rc]
(* I2Readn, I2Writen and I2RandomBytes have a flag of their own, always 0. *)
RetnOnIntr == intr /\ io.fn \in {"I2Readni", "I2Writeni"}
-----------------------------------------------------------------------------
(* Calls.  A buffer to be written holds bytes numbered from 1.              *)
CallIO(fn) ==
    /\ ~Running /\ ioCalls < MaxIOCalls
    /\ fn = "I2RandomBytes" => source = "open"
    /\ \E n \in BlockSizes :
         io' = [fn |-> fn, at |-> "called", n |-> n, nleft |-> n, rc |-> 0,
                buf |-> IF fn \in Writers THEN [i \in 1..n |-> i] ELSE <<>>]
    /\ ioCalls' = ioCalls + 1
    /\ sink' = <<>>
    /\ UNCHANGED <<intr, errno, stream, source, maps, faults>>

(* The loop ends when nothing is left; I2RandomBytes returns 0. *)
Done ==
    /\ Running /\ io.fn # "I2CopyFile" /\ io.nleft = 0
    /\ IOReturn(IF io.fn = "I2RandomBytes" THEN 0 ELSE io.n)
    /\ UNCHANGED <<intr, errno, stream, sink, source, maps, ioCalls, faults>>

Reading == Running /\ io.fn \in Readers /\ io.nleft > 0
Writing == Running /\ io.fn \in Writers /\ io.nleft > 0

(* Mutant: what is left is not reduced by what a short read gave. *)
ReadSome_Whole ==
    /\ Reading
    /\ \E nread \in 1..Min({io.nleft, stream.arrived - stream.read}) :
         /\ io' = [io EXCEPT !.nleft = 0,
                             !.buf = @ \o [i \in 1..nread |-> stream.read + i]]
         /\ stream' = [stream EXCEPT !.read = @ + nread]
    /\ UNCHANGED <<intr, errno, sink, source, maps, ioCalls, faults>>

(* Mutant: every turn of the loop asks for the whole block. *)
ReadSome_AsksAll ==
    /\ Reading
    /\ \E nread \in 1..Min({io.n, stream.arrived - stream.read}) :
         /\ io' = [io EXCEPT !.nleft = @ - nread,
                             !.buf = @ \o [i \in 1..nread |-> stream.read + i]]
         /\ stream' = [stream EXCEPT !.read = @ + nread]
    /\ UNCHANGED <<intr, errno, sink, source, maps, ioCalls, faults>>

(* read() gives a part of what has arrived. *)
ReadSome ==
    /\ Reading
    /\ \E nread \in 1..Min({io.nleft, stream.arrived - stream.read}) :
         /\ io' = [io EXCEPT !.nleft = @ - nread,
                             !.buf = @ \o [i \in 1..nread |-> stream.read + i]]
         /\ stream' = [stream EXCEPT !.read = @ + nread]
    /\ UNCHANGED <<intr, errno, sink, source, maps, ioCalls, faults>>

(* Mutant: the end of the stream is not told from an interrupted read. *)
ReadEOF_Again ==
    /\ Reading /\ stream.closed /\ stream.read = stream.arrived
    /\ UNCHANGED ioVars

(* The end of the stream: a short count, which I2RandomBytes refuses. *)
ReadEOF ==
    /\ Reading /\ stream.closed /\ stream.read = stream.arrived
    /\ IOReturn(IF io.fn = "I2RandomBytes" THEN -1 ELSE io.n - io.nleft)
    /\ UNCHANGED <<intr, errno, stream, sink, source, maps, ioCalls, faults>>

(* write() takes a part. *)
WriteSome ==
    /\ Writing
    /\ \E nwritten \in 1..io.nleft :
         /\ io' = [io EXCEPT !.nleft = @ - nwritten]
         /\ sink' = sink \o SubSeq(io.buf, io.n - io.nleft + 1, io.n - io.nleft + nwritten)
    /\ UNCHANGED <<intr, errno, stream, source, maps, ioCalls, faults>>

Fault == faults < MaxFaults /\ faults' = faults + 1

(* Mutant: the flag is not looked at. *)
Interrupted_Always ==
    /\ Reading \/ Writing
    /\ Fault
    /\ \E sets \in BOOLEAN : intr' = (intr \/ sets)
    /\ errno' = "EINTR"
    /\ IOReturn(-1)
    /\ UNCHANGED <<stream, sink, source, maps, ioCalls>>

(* A signal interrupts read() or write() before anything is transferred; its *)
(* handler sets the flag, or does not.                                       *)
Interrupted ==
    /\ Reading \/ Writing
    /\ Fault
    /\ \E sets \in BOOLEAN :
         /\ intr' = (intr \/ sets)
         /\ errno' = "EINTR"
         /\ IF (intr \/ sets) /\ io.fn \in {"I2Readni", "I2Writeni"}
            THEN IOReturn(-1) ELSE UNCHANGED io
    /\ UNCHANGED <<stream, sink, source, maps, ioCalls>>

(* A signal arrives between two system calls: only the flag shows it. *)
Signalled ==
    /\ Running /\ ~intr
    /\ Fault
    /\ intr' = TRUE
    /\ UNCHANGED <<io, errno, stream, sink, source, maps, ioCalls>>

Fails ==
    /\ Reading \/ Writing
    /\ Fault
    /\ errno' = "EIO"
    /\ IOReturn(-1)
    /\ UNCHANGED <<intr, stream, sink, source, maps, ioCalls>>

(* write() returning 0 is taken for an error, by the errno of some earlier *)
(* call.                                                                   *)
WriteNothing ==
    /\ Writing
    /\ Fault
    /\ IF errno = "EINTR" /\ ~RetnOnIntr THEN UNCHANGED io ELSE IOReturn(-1)
    /\ UNCHANGED <<intr, errno, stream, sink, source, maps, ioCalls>>
-----------------------------------------------------------------------------
(* The client clears the flag, the peer sends and closes. *)
ClearFlag ==
    /\ ~Running /\ intr /\ intr' = FALSE
    /\ UNCHANGED <<io, errno, stream, sink, source, maps, ioCalls, faults>>

PeerSends ==
    /\ ~stream.closed
    /\ stream' = IF stream.arrived < StreamSize
                 THEN [stream EXCEPT !.arrived = @ + 1]
                 ELSE [stream EXCEPT !.closed = TRUE]
    /\ UNCHANGED <<io, intr, errno, sink, source, maps, ioCalls, faults>>
-----------------------------------------------------------------------------
(* random.c: a source whose device cannot be opened is not freed. *)
I2RandomSourceInit ==
    /\ ~Running /\ source = "none" /\ ioCalls < MaxIOCalls
    /\ source' \in {"open", "lost"}
    /\ ioCalls' = ioCalls + 1
    /\ UNCHANGED <<io, intr, errno, stream, sink, maps, faults>>

I2RandomSourceClose ==
    /\ ~Running /\ source = "open"
    /\ source' = "none"
    /\ UNCHANGED <<io, intr, errno, stream, sink, maps, ioCalls, faults>>
-----------------------------------------------------------------------------
CopyLength(len, size) == IF len = 0 THEN size ELSE Min({len, size})

(* I2CopyFile: the target is cut to the length first, and has lost what it  *)
(* held (0) when a mapping fails then.  Nothing can be mapped with length 0, *)
(* nor a file that is not open for writing too; a first mapping is not      *)
(* undone when the second fails.                                            *)
CopyEnds(size, asked, result) ==
    LET len == CopyLength(asked, size)
    IN /\ len = 0 => result # "copied" /\ result # "mmap to"
       /\ io' = [fn |-> "I2CopyFile", at |-> "returned", n |-> asked, nleft |-> 0,
                 buf |-> [i \in 1..size |-> i],
                 rc |-> IF result = "copied" THEN 0 ELSE -1]
       /\ sink' = CASE result \in {"fstat", "ftruncate"} -> sink
                    [] result \in {"mmap from", "mmap to"} -> [i \in 1..len |-> 0]
                    [] result = "copied" -> [i \in 1..len |-> IF i <= size THEN i ELSE 0]
       /\ maps' = maps + (IF result = "mmap to" THEN 1 ELSE 0)

I2CopyFile ==
    /\ ~Running /\ ioCalls < MaxIOCalls
    /\ ioCalls' = ioCalls + 1
    /\ \E size \in FileSizes, asked \in {0} \cup BlockSizes,
          result \in {"fstat", "ftruncate", "mmap from", "mmap to", "copied"} :
         CopyEnds(size, asked, result)
    /\ UNCHANGED <<intr, errno, stream, source, faults>>

IOStep == Done \/ ReadSome \/ ReadEOF \/ WriteSome

IONext ==
    \/ \E fn \in Readers \cup Writers : CallIO(fn)
    \/ IOStep
    \/ Interrupted \/ Signalled \/ Fails \/ WriteNothing
    \/ ClearFlag \/ PeerSends
    \/ I2RandomSourceInit \/ I2RandomSourceClose \/ I2CopyFile

IOSpec == IOInit /\ [][IONext]_ioVars
-----------------------------------------------------------------------------
(*                              Properties                                 *)

(* What a transfer says it did, it did.  A read that succeeds gave the      *)
(* bytes that follow those of the reads before, in order and without a gap, *)
(* and fewer than asked for only at the end of the stream (io.c:57), where  *)
(* I2RandomBytes fails; a write that succeeds wrote the whole block once; a *)
(* copy that succeeds is the file, or as much of it as was asked for.       *)
TransfersAreWhole ==
    ~Running /\ io.rc >= 0 =>
        /\ io.fn \in Readers =>
             /\ \A i \in DOMAIN io.buf : io.buf[i] = stream.read - Len(io.buf) + i
             /\ Len(io.buf) < io.n => stream.closed /\ stream.read = stream.arrived
             /\ IF io.fn = "I2RandomBytes" THEN Len(io.buf) = io.n ELSE Len(io.buf) = io.rc
        /\ io.fn \in Writers => sink = io.buf /\ io.rc = io.n
        /\ io.fn = "I2CopyFile" =>
             /\ IsPrefix(sink, io.buf)
             /\ Len(sink) = IF io.n = 0 THEN Len(io.buf) ELSE Min({io.n, Len(io.buf)})

(* io.c:52: "If this function returns due to an interrupt - *retn_on_intr   *)
(* will be non-zero", and functions without the flag never do, whatever     *)
(* number of signals they go through.                                       *)
InterruptsAreAsked ==
    [][Running /\ io.fn # "I2RandomBytes" /\ io'.at = "returned" /\ io'.rc = -1
       /\ errno' = "EINTR" => intr' /\ io.fn \in {"I2Readni", "I2Writeni"}]_ioVars

(* Every call returns, through any number of short transfers and signals,   *)
(* as long as the peer goes on.                                             *)
TransfersEnd == Running ~> ~Running
=============================================================================
