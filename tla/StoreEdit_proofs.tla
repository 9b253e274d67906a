-------------------------- MODULE StoreEdit_proofs --------------------------
(***************************************************************************)
(* Proofs about editing a store: what the record lock on the lock file     *)
(* guarantees for any number of processes, runs and kills; and that one    *)
(* process at a time edits the store in one atomic step (AtomicStore).     *)
(***************************************************************************)
EXTENDS StoreEdit, SequenceTheorems, WellFoundedInduction, TLAPS

(* What a run writes over a file leaves lines. *)
LEMMA OverwriteType ==
    ASSUME NEW old \in Seq(Line), NEW new \in Seq(Line)
    PROVE  Overwrite(old, new) \in Seq(Line)
<1>1. Len(new) \in Nat /\ Len(old) \in Nat
  OBVIOUS
<1>2. SubSeq(old, Len(new) + 1, Len(old)) \in Seq(Line)
  BY <1>1
<1> QED BY <1>2 DEF Overwrite

(* A pass stops at the first line the parser does not copy. *)
LEMMA ParseFromStops ==
    ASSUME NEW lines \in Seq(Line), NEW start \in Nat \ {0}, NEW sought
    PROVE  LET n == ParseFrom(lines, start, sought)
           IN  /\ n = 0 => \A j \in start..Len(lines) : ~Stops(lines, j, sought)
               /\ n # 0 => /\ n \in start..Len(lines) /\ Stops(lines, n, sought)
                           /\ \A j \in start..(n - 1) : ~Stops(lines, j, sought)
<1> DEFINE stops == {j \in start..Len(lines) : Stops(lines, j, sought)}
           n == ParseFrom(lines, start, sought)
<1>1. stops \subseteq Nat \ {0} /\ Len(lines) \in Nat
  OBVIOUS
<1>2. CASE stops = {}
  <2>1. n = 0
    BY <1>2 DEF ParseFrom
  <2> QED BY <1>2, <2>1
<1>3. CASE stops # {}
  <2>1. \E m \in stops : \A l \in stops : m <= l
    <3> HIDE DEF stops
    <3>1. PICK m \in stops : \A l \in stops : ~(<<l, m>> \in OpToRel(<, Nat))
      BY <1>1, <1>3, WFMin, NatLessThanWellFounded
    <3>2. \A l \in stops : l < m => <<l, m>> \in OpToRel(<, Nat)
      BY <1>1 DEF OpToRel
    <3>3. \A l \in stops : ~(l < m)
      BY <3>1, <3>2
    <3>4. \A l \in stops : l \in Nat /\ m \in Nat
      BY <1>1
    <3>5. \A l \in stops : m <= l
      BY <3>3, <3>4
    <3> QED BY <3>5
  <2>2. n = CHOOSE j \in stops : \A l \in stops : j <= l
    BY <1>3 DEF ParseFrom
  <2>3. n \in stops /\ \A l \in stops : n <= l
    BY <2>1, <2>2
  <2> HIDE DEF n
  <2>4. n # 0 /\ n \in start..Len(lines) /\ Stops(lines, n, sought)
    BY <1>1, <2>3
  <2>5. \A j \in start..(n - 1) : j \in start..Len(lines) /\ ~(n <= j)
    BY <1>1, <2>4
  <2>6. \A j \in start..(n - 1) : ~Stops(lines, j, sought)
    BY <2>3, <2>5
  <2> QED BY <2>4, <2>6 DEF n
<1> QED BY <1>2, <1>3

(* The place a pass of the parser stops at. *)
LEMMA ParseFromType ==
    ASSUME NEW lines \in Seq(Line), NEW start \in Nat \ {0}, NEW sought
    PROVE  ParseFrom(lines, start, sought) \in 0..Len(lines)
<1> DEFINE n == ParseFrom(lines, start, sought)
<1>1. n # 0 => n \in start..Len(lines)
  BY ParseFromStops
<1>2. Len(lines) \in Nat
  OBVIOUS
<1> QED BY <1>1, <1>2

(* Only the blanks of a line change on its way. *)
LEMMA CopiedType ==
    ASSUME NEW lines \in Seq(Line)
    PROVE  /\ Copied(lines) \in Seq(Line) /\ Len(Copied(lines)) = Len(lines)
           /\ \A j \in 1..Len(lines) :
                /\ lines[j] \in Line /\ Copied(lines)[j] \in Line
                /\ Copied(lines)[j].id = lines[j].id
                /\ Copied(lines)[j].pf = lines[j].pf
                /\ Text(lines[j]) => ~Copied(lines)[j].indent
<1> DEFINE spaced(j) == lines[j].id = Comment /\ Spaced(lines, j)
           copy(j) == [lines[j] EXCEPT !.indent = spaced(j)]
<1>1. \A j \in 1..Len(lines) : spaced(j) \in BOOLEAN
  OBVIOUS
<1>2. \A j \in 1..Len(lines) : Text(lines[j]) => spaced(j) = FALSE
  BY DEF Text
<1>3. Copied(lines) = [j \in 1..Len(lines) |-> copy(j)]
  BY DEF Copied
<1>4. \A j \in 1..Len(lines) : lines[j] \in Line
  OBVIOUS
<1> HIDE DEF spaced
<1>5. \A j \in 1..Len(lines) :
        /\ copy(j) \in Line /\ copy(j).id = lines[j].id /\ copy(j).pf = lines[j].pf
        /\ copy(j).indent = spaced(j)
  BY <1>1, <1>4 DEF Line
<1>6. Len(lines) \in Nat
  OBVIOUS
<1> HIDE DEF copy
<1>7. Copied(lines) \in [1..Len(lines) -> Line]
  BY <1>3, <1>5
<1>8. Copied(lines) \in Seq(Line) /\ Len(Copied(lines)) = Len(lines)
  BY <1>6, <1>7, IsASeq, LenProperties
<1> QED BY <1>2, <1>3, <1>4, <1>5, <1>8

(* The lines a pass has copied when it stops. *)
LEMMA UptoType ==
    ASSUME NEW lines \in Seq(Line), NEW stop \in 0..Len(lines)
    PROVE  /\ Upto(lines, stop) \in Seq(Line)
           /\ stop = 0 => Upto(lines, stop) = Copied(lines)
           /\ stop # 0 => Upto(lines, stop) = SubSeq(Copied(lines), 1, stop - 1)
<1> DEFINE cop == Copied(lines)
<1>1. cop \in Seq(Line) /\ Len(cop) = Len(lines) /\ Len(lines) \in Nat
  BY CopiedType
<1>2. stop = 0 => Upto(lines, stop) = SubSeq(cop, 1, Len(cop))
  BY <1>1 DEF Upto
<1>3. stop # 0 => Upto(lines, stop) = SubSeq(cop, 1, stop - 1)
  BY DEF Upto
<1> HIDE DEF cop
<1>4. SubSeq(cop, 1, Len(cop)) = cop
  BY <1>1
<1>5. stop # 0 => SubSeq(cop, 1, stop - 1) \in Seq(Line)
  BY <1>1
<1> QED BY <1>1, <1>2, <1>3, <1>4, <1>5 DEF cop

(* What a run writes for the identity of its command line. *)
LEMMA NewRecordType ==
    ASSUME NEW c \in Command
    PROVE  NewRecord(c) \in Line /\ <<NewRecord(c)>> \in Seq(Line)
<1>1. NewRecord(c) \in Line
  BY DEF NewRecord, Command, Line
<1> QED BY <1>1

(* The store that the second pass sees after a misread first row. *)
LEMMA RestType ==
    ASSUME NEW lines \in Seq(Line), lines # <<>>, Text(lines[1])
    PROVE  LET rest == <<Remainder(lines[1])>> \o Tail(lines)
           IN  /\ rest \in Seq(Line) /\ Len(rest) = Len(lines)
               /\ rest[1].pf = lines[1].pf
               /\ \A j \in 2..Len(lines) : rest[j] = lines[j]
<1> DEFINE l == lines[1]
           r == Remainder(l)
           rest == <<r>> \o Tail(lines)
<1>1. l \in Line /\ Len(lines) \in Nat /\ Len(lines) >= 1
  OBVIOUS
<1>2. l.id \in Id \cup {Broken}
  BY <1>1 DEF Text, Line
<1>3. Behead[l.id] \in Id \cup {Comment, Broken, Blank}
  BY <1>2, BeheadAssumption
<1>4. r \in Line /\ r.pf = l.pf
  BY <1>1, <1>3 DEF Remainder, Line
<1> HIDE DEF r
<1>5. /\ Tail(lines) \in Seq(Line) /\ Len(Tail(lines)) = Len(lines) - 1
      /\ \A j \in 1..Len(lines) - 1 : Tail(lines)[j] = lines[j + 1]
  BY <1>1, HeadTailProperties
<1>6. <<r>> \in Seq(Line) /\ Len(<<r>>) = 1 /\ <<r>>[1] = r
  BY <1>4
<1>7. /\ rest \in Seq(Line) /\ Len(rest) = 1 + (Len(lines) - 1)
      /\ \A j \in 1..(1 + (Len(lines) - 1)) :
           rest[j] = IF j <= 1 THEN <<r>>[j] ELSE Tail(lines)[j - 1]
  BY <1>5, <1>6, ConcatProperties
<1>8. Len(rest) = Len(lines) /\ rest[1] = r
  BY <1>1, <1>6, <1>7
<1>9. ASSUME NEW j \in 2..Len(lines) PROVE rest[j] = lines[j]
  <2>1. j - 1 \in 1..Len(lines) - 1 /\ (j - 1) + 1 = j
    BY <1>1
  <2> QED BY <1>1, <1>5, <1>7, <2>1
<1> QED BY <1>4, <1>7, <1>8, <1>9 DEF r

LEMMA MisreadType ==
    ASSUME NEW lines \in Seq(Line), NEW c \in Command, lines # <<>>, Text(lines[1])
    PROVE  Misread(lines, c).out \in Seq(Line)
<1> DEFINE rest == <<Remainder(lines[1])>> \o Tail(lines)
           n == ParseFrom(rest, 1, c.id)
           all == <<NewRecord(c)>> \o Upto(rest, n)
           ok == n = 0 \/ (n = 1 /\ Spaced(rest, 1))
<1>1. rest \in Seq(Line)
  BY RestType
<1>2. Misread(lines, c) = IF c.delete THEN [ok |-> FALSE, out |-> <<>>]
                          ELSE [ok |-> ok, out |-> all]
  BY DEF Misread
<1> HIDE DEF rest
<1>3. n \in 0..Len(rest)
  BY <1>1, ParseFromType
<1>4. Upto(rest, n) \in Seq(Line)
  BY <1>1, <1>3, UptoType
<1>5. all \in Seq(Line)
  BY <1>4, NewRecordType
<1> HIDE DEF all, ok
<1>6. CASE c.delete
  <2>1. Misread(lines, c) = [ok |-> FALSE, out |-> <<>>]
    BY <1>2, <1>6, Zenon
  <2> QED BY <2>1
<1>7. CASE ~c.delete
  <2>1. Misread(lines, c) = [ok |-> ok, out |-> all]
    BY <1>2, <1>7, Zenon
  <2> QED BY <1>5, <2>1
<1> QED BY <1>6, <1>7

(* Where the two passes stop, and what is written between them. *)
First(lines, c) == ParseFrom(lines, 1, c.id)
Second(lines, c) == ParseFrom(lines, First(lines, c) + 1, c.id)
NewLines(c) == IF c.delete THEN <<>> ELSE <<NewRecord(c)>>
Around(lines, m, n, c) ==
    Upto(lines, m) \o NewLines(c)
    \o SubSeq(Copied(lines), m + 1, IF n = 0 THEN Len(lines) ELSE n - 1)

LEMMA PassTypes ==
    ASSUME NEW lines \in Seq(Line), NEW c \in Command
    PROVE  /\ First(lines, c) \in 0..Len(lines) /\ Second(lines, c) \in 0..Len(lines)
           /\ First(lines, c) + 1 \in Nat \ {0} /\ Len(lines) \in Nat
           /\ NewLines(c) \in Seq(Line)
<1>1. First(lines, c) \in 0..Len(lines) /\ Len(lines) \in Nat
  BY ParseFromType DEF First
<1>2. First(lines, c) + 1 \in Nat \ {0}
  BY <1>1
<1>3. Second(lines, c) \in 0..Len(lines)
  BY <1>2, ParseFromType DEF Second
<1>4. NewLines(c) \in Seq(Line)
  BY NewRecordType DEF NewLines
<1> QED BY <1>1, <1>2, <1>3, <1>4

(* The two results of an edit. *)
LEMMA Fields ==
    ASSUME NEW e, NEW x, NEW y, e = [ok |-> x, out |-> y]
    PROVE  e.ok = x /\ e.out = y
  OBVIOUS

(* The ways an edit can come out. *)
LEMMA EditedOutcome ==
    ASSUME NEW lines \in Seq(Line), NEW c \in Command
    PROVE  LET m == First(lines, c)
               n == Second(lines, c)
               bad == lines[m].id = Broken \/ Invalid(lines[m])
           IN \/ /\ m = 0
                 /\ Edited(lines, c) =
                      [ok |-> ~c.delete, out |-> Upto(lines, m) \o NewLines(c)]
              \/ /\ m = 1 /\ Spaced(lines, m)
                 /\ Edited(lines, c) = Misread(lines, c)
              \/ /\ m # 0 /\ (bad \/ (m > 1 /\ Spaced(lines, m)))
                 /\ Edited(lines, c) = [ok |-> FALSE, out |-> Upto(lines, m)]
              \/ /\ m # 0 /\ ~Spaced(lines, m) /\ ~bad
                 /\ Edited(lines, c) = [ok |-> n = 0, out |-> Around(lines, m, n, c)]
<1> DEFINE m == First(lines, c)
           n == Second(lines, c)
           bad == lines[m].id = Broken \/ Invalid(lines[m])
           spaced == Spaced(lines, m)
           none == [ok |-> ~c.delete, out |-> Upto(lines, m) \o NewLines(c)]
           fails == [ok |-> FALSE, out |-> Upto(lines, m)]
           both == [ok |-> n = 0, out |-> Around(lines, m, n, c)]
<1>1. Edited(lines, c) =
        CASE m = 0 -> none
          [] m = 1 /\ spaced -> Misread(lines, c)
          [] m > 1 /\ spaced -> fails
          [] m # 0 /\ ~spaced /\ bad -> fails
          [] OTHER -> both
  BY DEF Edited, First, Second, NewLines, Around
<1>2. m \in Nat
  BY PassTypes
<1> HIDE DEF m, n, bad, spaced, none, fails, both
<1>3. \/ m = 0 /\ ~(m = 1) /\ ~(m > 1)
      \/ m = 1 /\ ~(m > 1) /\ m # 0
      \/ m > 1 /\ ~(m = 1) /\ m # 0
  BY <1>2
<1>4. CASE m = 0
  <2>1. Edited(lines, c) = none
    BY <1>1, <1>3, <1>4, Zenon
  <2> QED BY <1>4, <2>1 DEF m, none
<1>5. CASE m = 1 /\ spaced
  <2>1. Edited(lines, c) = Misread(lines, c)
    BY <1>1, <1>3, <1>5, Zenon
  <2> QED BY <1>5, <2>1 DEF m, spaced
<1>6. CASE m > 1 /\ spaced
  <2>1. Edited(lines, c) = fails
    BY <1>1, <1>3, <1>6, Zenon
  <2> QED BY <1>3, <1>6, <2>1 DEF m, spaced, fails
<1>7. CASE m # 0 /\ ~spaced /\ bad
  <2>1. Edited(lines, c) = fails
    BY <1>1, <1>3, <1>7, Zenon
  <2>2. m # 0 /\ (bad \/ (m > 1 /\ spaced)) /\ Edited(lines, c) = [ok |-> FALSE, out |-> Upto(lines, m)]
    BY <1>7, <2>1, Zenon DEF fails
  <2> QED BY <2>2, Zenon DEF m, bad, spaced
<1>8. CASE m # 0 /\ ~spaced /\ ~bad
  <2>1. Edited(lines, c) = both
    BY <1>1, <1>3, <1>8, Zenon
  <2> QED BY <1>8, <2>1 DEF m, n, spaced, bad, both
<1> QED BY <1>3, <1>4, <1>5, <1>6, <1>7, <1>8

(* What the two passes write are lines. *)
LEMMA EditedType ==
    ASSUME NEW lines \in Seq(Line), NEW c \in Command
    PROVE  Edited(lines, c).out \in Seq(Line)
<1> DEFINE m == First(lines, c)
           n == Second(lines, c)
           none == Upto(lines, m) \o NewLines(c)
<1>1. /\ m \in 0..Len(lines) /\ n \in 0..Len(lines) /\ Len(lines) \in Nat
      /\ NewLines(c) \in Seq(Line)
  BY PassTypes
<1>2. Upto(lines, m) \in Seq(Line)
  BY <1>1, UptoType
<1>3. none \in Seq(Line)
  BY <1>1, <1>2
<1>4. Around(lines, m, n, c) \in Seq(Line)
  <2> DEFINE last == IF n = 0 THEN Len(lines) ELSE n - 1
  <2>1. last \in Int /\ last <= Len(Copied(lines)) /\ Copied(lines) \in Seq(Line)
    BY <1>1, CopiedType
  <2>2. SubSeq(Copied(lines), m + 1, last) \in Seq(Line)
    <3> HIDE DEF last
    <3> QED BY <1>1, <2>1
  <2> QED BY <1>1, <1>2, <2>2 DEF Around
<1>5. CASE m = 1 /\ Spaced(lines, m) /\ Edited(lines, c) = Misread(lines, c)
  <2>1. Stops(lines, 1, c.id) /\ lines # <<>>
    BY <1>1, <1>5, ParseFromStops DEF First
  <2> QED BY <1>5, <2>1, MisreadType DEF Stops
<1> HIDE DEF m, n, none
<1>6. \/ Edited(lines, c) = [ok |-> ~c.delete, out |-> none]
      \/ Edited(lines, c) = Misread(lines, c) /\ m = 1 /\ Spaced(lines, m)
      \/ Edited(lines, c) = [ok |-> FALSE, out |-> Upto(lines, m)]
      \/ Edited(lines, c) = [ok |-> n = 0, out |-> Around(lines, m, n, c)]
  BY EditedOutcome DEF m, n, none
<1> QED BY <1>2, <1>3, <1>4, <1>5, <1>6
-----------------------------------------------------------------------------
(* The lock file is a file of its own: it is not the store, and no running  *)
(* process has it open as the store.                                        *)
LockFileIsFresh ==
    /\ store \in 0..inodes \cup {None}
    /\ lock \in 0..inodes \cup {None}
    /\ \A q \in Proc : from[q] \in 0..inodes \cup {None}
    /\ lock # None => lock # store

(* Where a process has its files open, and where it holds the lock of the   *)
(* one it will write.                                                       *)
Opened ==
    \A q \in Proc :
      /\ pc[q] \in Ended \cup {"open", "openlock"} => fd[q] = None
      /\ pc[q] \in {"lock", "edit", "rename", "close"} => fd[q] \in Inode
      /\ pc[q] \in Ended \cup {"open", "openlock", "lock", "edit"} => out[q] = <<>>
      /\ pc[q] \notin Ended => cmd[q] # None

LockedToWrite ==
    \A q \in Proc :
      pc[q] \in {"edit", "rename", "close"} \/ out[q] # <<>> =>
        fd[q] \in Inode /\ holder[fd[q]] = q

IInv == TypeOK /\ LockFileIsFresh /\ NoSelfCopy /\ Opened /\ LockedToWrite

LEMMA InitInvariant == Init => IInv
<1> SUFFICES ASSUME Init PROVE IInv
  OBVIOUS
<1> USE DEF Init
<1>1. TypeOK
  <2>1. PICK first \in Stores :
           \/ /\ first = None
              /\ store = None /\ inodes = 0
              /\ content = [n \in Inode |-> <<>>]
           \/ /\ first # None
              /\ store = 1 /\ inodes = 1
              /\ content = [n \in Inode |-> IF n = 1 THEN first ELSE <<>>]
    OBVIOUS
  <2>2. 1 \in Inode /\ 0 \in 0..MaxInode /\ 1 \in 0..MaxInode /\ 0 \in 0..MaxRuns
    BY BoundAssumption DEF Inode
  <2>3. <<>> \in Seq(Line) /\ first \in Seq(Line) \cup {None}
    BY StoresAssumption
  <2>4. store \in Inode \cup {None} /\ inodes \in 0..MaxInode
    BY <2>1, <2>2
  <2>5. content \in [Inode -> Seq(Line)]
    BY <2>1, <2>3
  <2> QED BY <2>2, <2>3, <2>4, <2>5 DEF TypeOK, Pc, Ended
<1>2. LockFileIsFresh
  BY DEF LockFileIsFresh
<1>3. NoSelfCopy /\ Opened /\ LockedToWrite
  BY DEF NoSelfCopy, Opened, LockedToWrite, Ended
<1> QED BY <1>1, <1>2, <1>3 DEF IInv

(* One lemma per action: it preserves the invariant. *)
LEMMA BeginStep == ASSUME IInv, NEW q \in Proc, Begin(q) PROVE IInv'
<1> USE DEF Begin, GoTo, files, IInv
<1>1. PICK c \in Command : cmd' = [cmd EXCEPT ![q] = c]
  OBVIOUS
<1>2. c # None
  BY NoneAssumption
<1>3. TypeOK'
  BY <1>1, BoundAssumption DEF TypeOK, Pc, Ended
<1>4. LockFileIsFresh' /\ NoSelfCopy'
  BY DEF LockFileIsFresh, NoSelfCopy
<1>5. Opened'
  BY <1>1, <1>2 DEF Opened, Ended, TypeOK
<1>6. LockedToWrite'
  BY DEF LockedToWrite, Opened, Ended, TypeOK
<1> QED BY <1>3, <1>4, <1>5, <1>6

LEMMA OpenStoreStep == ASSUME IInv, NEW q \in Proc, OpenStore(q) PROVE IInv'
<1> USE DEF OpenStore, GoTo, files, IInv
<1>1. TypeOK'
  BY DEF TypeOK, Pc, Ended
<1>2. LockFileIsFresh'
  BY DEF LockFileIsFresh, TypeOK
<1>3. fd[q] = None
  BY DEF Opened, Ended
<1>4. NoSelfCopy'
  BY <1>3 DEF NoSelfCopy, LockFileIsFresh, TypeOK
<1>5. Opened'
  BY DEF Opened, Ended, TypeOK
<1>6. LockedToWrite'
  BY DEF LockedToWrite, Opened, Ended, TypeOK
<1> QED BY <1>1, <1>2, <1>4, <1>5, <1>6

LEMMA OpenLockStep == ASSUME IInv, NEW q \in Proc, OpenLock(q) PROVE IInv'
<1> USE DEF OpenLock, GoTo, files, IInv
<1>1. lock' \in Inode /\ fd' = [fd EXCEPT ![q] = lock'] /\ inodes' \in 0..MaxInode
  BY BoundAssumption DEF TypeOK, Inode
<1>2. TypeOK'
  BY <1>1 DEF TypeOK, Pc, Ended
<1>3. LockFileIsFresh'
  BY NoneAssumption DEF LockFileIsFresh, TypeOK, Inode
<1>4. NoSelfCopy'
  BY <1>1 DEF NoSelfCopy, LockFileIsFresh, TypeOK, Inode
<1>5. Opened'
  BY <1>1 DEF Opened, Ended, TypeOK
<1>6. LockedToWrite'
  BY <1>1 DEF LockedToWrite, Opened, Ended, TypeOK
<1> QED BY <1>2, <1>3, <1>4, <1>5, <1>6

LEMMA LockStep == ASSUME IInv, NEW q \in Proc, Lock(q) PROVE IInv'
<1> USE DEF Lock, GoTo, files, IInv
<1>1. fd[q] \in Inode /\ out[q] = <<>>
  BY DEF Opened, Ended
<1>2. TypeOK'
  <2>1. holder' \in [Inode -> Proc \cup {None}]
    BY <1>1 DEF TypeOK
  <2>2. pc' \in [Proc -> Pc]
    BY DEF TypeOK, Pc
  <2> QED BY <2>1, <2>2 DEF TypeOK
<1>3. LockFileIsFresh' /\ NoSelfCopy'
  BY DEF LockFileIsFresh, NoSelfCopy
<1>4. Opened'
  BY <1>1 DEF Opened, Ended, TypeOK
<1>5. LockedToWrite'
  BY <1>1, NoneAssumption DEF LockedToWrite, Opened, Ended, TypeOK
<1> QED BY <1>2, <1>3, <1>4, <1>5

LEMMA PromptFailsStep == ASSUME IInv, NEW q \in Proc, PromptFails(q) PROVE IInv'
<1> USE DEF PromptFails, GoTo, files, IInv
<1>1. TypeOK'
  BY DEF TypeOK, Pc, Ended
<1>2. LockFileIsFresh' /\ NoSelfCopy'
  BY DEF LockFileIsFresh, NoSelfCopy
<1>3. Opened'
  BY DEF Opened, Ended, TypeOK
<1>4. LockedToWrite'
  BY DEF LockedToWrite, Opened, Ended, TypeOK
<1> QED BY <1>1, <1>2, <1>3, <1>4

LEMMA EditStep == ASSUME IInv, NEW q \in Proc, Edit(q) PROVE IInv'
<1> DEFINE lines == IF from[q] = None THEN <<>> ELSE content[from[q]]
           result == Edited(lines, cmd[q])
<1>1. lines \in Seq(Line) /\ cmd[q] \in Command
  BY DEF Edit, IInv, TypeOK, Opened, Ended
<1>2. result.out \in Seq(Line)
  BY <1>1, EditedType
<1>3. /\ pc[q] = "edit"
      /\ out' = [out EXCEPT ![q] = result.out]
      /\ pc' = [pc EXCEPT ![q] = IF result.ok THEN "rename" ELSE "exit"]
      /\ UNCHANGED <<files, cmd, from, fd, runs>>
  BY DEF Edit, GoTo
<1> HIDE DEF lines, result
<1> USE DEF IInv, files
<1>4. TypeOK'
  BY <1>2, <1>3 DEF TypeOK, Pc, Ended
<1>5. LockFileIsFresh' /\ NoSelfCopy'
  BY <1>3 DEF LockFileIsFresh, NoSelfCopy
<1>6. Opened'
  BY <1>3 DEF Opened, Ended, TypeOK
<1>7. LockedToWrite'
  BY <1>3 DEF LockedToWrite, Opened, Ended, TypeOK
<1> QED BY <1>4, <1>5, <1>6, <1>7

LEMMA RemoveLockStep == ASSUME IInv, RemoveLock PROVE IInv'
<1> USE DEF RemoveLock, process, IInv
<1>1. TypeOK' /\ LockFileIsFresh' /\ NoSelfCopy'
  BY DEF TypeOK, LockFileIsFresh, NoSelfCopy, Opened, Ended
<1>2. Opened' /\ LockedToWrite'
  BY DEF Opened, LockedToWrite
<1> QED BY <1>1, <1>2

LEMMA SpillStep == ASSUME IInv, NEW q \in Proc, Spill(q) PROVE IInv'
<1> USE DEF Spill, Write, process, IInv
<1>1. PICK k \in 1..Len(out[q]) :
        content' = [content EXCEPT ![fd[q]] = Overwrite(@, SubSeq(out[q], 1, k))]
  OBVIOUS
<1>2. fd[q] \in Inode
  BY <1>1 DEF LockedToWrite, TypeOK
<1>3. Overwrite(content[fd[q]], SubSeq(out[q], 1, k)) \in Seq(Line)
  <2>1. content[fd[q]] \in Seq(Line) /\ out[q] \in Seq(Line)
    BY <1>2 DEF TypeOK
  <2>2. SubSeq(out[q], 1, k) \in Seq(Line)
    BY <2>1
  <2> QED BY <2>1, <2>2, OverwriteType
<1>4. TypeOK'
  BY <1>1, <1>3 DEF TypeOK
<1>5. LockFileIsFresh' /\ NoSelfCopy' /\ Opened' /\ LockedToWrite'
  BY DEF LockFileIsFresh, NoSelfCopy, Opened, LockedToWrite
<1> QED BY <1>4, <1>5

LEMMA RenameStep == ASSUME IInv, NEW q \in Proc, Rename(q) PROVE IInv'
<1> USE DEF Rename, GoTo, IInv
<1>1. TypeOK'
  BY DEF TypeOK, Pc, Ended
<1>2. LockFileIsFresh' /\ NoSelfCopy'
  BY DEF LockFileIsFresh, NoSelfCopy, TypeOK
<1>3. Opened'
  BY DEF Opened, Ended, TypeOK
<1>4. LockedToWrite'
  BY DEF LockedToWrite, Opened, Ended, TypeOK
<1> QED BY <1>1, <1>2, <1>3, <1>4

(* The end of a run, after a change of the files' contents. *)
LEMMA EndStep ==
    ASSUME IInv, NEW q \in Proc, NEW how \in {"done", "failed", "killed"},
           End(q, how), content' \in [Inode -> Seq(Line)]
    PROVE  IInv'
<1> USE DEF End, GoTo, IInv
<1>1. TypeOK'
  BY DEF TypeOK, Pc, Ended
<1>2. LockFileIsFresh' /\ NoSelfCopy'
  BY DEF LockFileIsFresh, NoSelfCopy, TypeOK
<1>3. Opened'
  BY DEF Opened, Ended, TypeOK
<1>4. LockedToWrite'
  BY DEF LockedToWrite, Opened, Ended, TypeOK
<1> QED BY <1>1, <1>2, <1>3, <1>4

LEMMA WriteType ==
    ASSUME IInv, NEW q \in Proc, fd[q] \in Inode, Write(q, out[q])
    PROVE  content' \in [Inode -> Seq(Line)]
<1>1. content[fd[q]] \in Seq(Line) /\ out[q] \in Seq(Line)
  BY DEF IInv, TypeOK
<1>2. Overwrite(content[fd[q]], out[q]) \in Seq(Line)
  BY <1>1, OverwriteType
<1> QED BY <1>2 DEF Write, IInv, TypeOK

LEMMA CloseStep == ASSUME IInv, NEW q \in Proc, Close(q) PROVE IInv'
<1>1. fd[q] \in Inode
  BY DEF Close, IInv, Opened
<1> QED BY <1>1, WriteType, EndStep DEF Close

LEMMA ExitStep == ASSUME IInv, NEW q \in Proc, Exit(q) PROVE IInv'
<1>1. CASE out[q] # <<>>
  <2>1. fd[q] \in Inode
    BY <1>1 DEF IInv, LockedToWrite
  <2> QED BY <1>1, <2>1, WriteType, EndStep DEF Exit
<1>2. CASE out[q] = <<>>
  BY <1>2, EndStep DEF Exit, IInv, TypeOK
<1> QED BY <1>1, <1>2

LEMMA CrashStep == ASSUME IInv, NEW q \in Proc, Crash(q) PROVE IInv'
  BY EndStep DEF Crash, IInv, TypeOK

LEMMA StepInvariant == IInv /\ [Next]_vars => IInv'
<1> SUFFICES ASSUME IInv, [Next]_vars PROVE IInv'
  OBVIOUS
<1>1. CASE RemoveLock
  BY <1>1, RemoveLockStep
<1>2. CASE \E q \in Proc : Begin(q) \/ Step(q) \/ Spill(q) \/ Crash(q)
  <2>1. PICK q \in Proc : Begin(q) \/ Step(q) \/ Spill(q) \/ Crash(q)
    BY <1>2
  <2>2. CASE Step(q)
    BY <2>2, OpenStoreStep, OpenLockStep, LockStep, PromptFailsStep, EditStep,
       RenameStep, CloseStep, ExitStep DEF Step
  <2> QED BY <2>1, <2>2, BeginStep, SpillStep, CrashStep
<1>3. CASE UNCHANGED vars
  BY <1>3 DEF vars, files, process, IInv, TypeOK, LockFileIsFresh, NoSelfCopy,
              Opened, LockedToWrite
<1> QED BY <1>1, <1>2, <1>3 DEF Next

(* The inductive invariant holds in every reachable state. *)
THEOREM Invariance == Spec => []IInv
<1> QED BY InitInvariant, StepInvariant, PTL DEF Spec

(* The variables of all processes keep their types: what is written to a    *)
(* file is always whole lines.                                              *)
THEOREM TypeCorrect == Spec => []TypeOK
<1>1. IInv => TypeOK
  BY DEF IInv
<1> QED BY <1>1, Invariance, PTL

(* However many processes open, lock and rename, none reads the store from  *)
(* the file it is about to write.                                           *)
THEOREM NobodyCopiesToItself == Spec => []NoSelfCopy
<1>1. IInv => NoSelfCopy
  BY DEF IInv
<1> QED BY <1>1, Invariance, PTL

(* Whoever loses the race for the lock writes nothing: a file's content     *)
(* changes only by what the process that holds its lock has to write to it. *)
THEOREM OnlyHoldersWrite == Spec => WritersHoldTheLock
<1> DEFINE Part(n, q) == \E k \in 1..Len(out[q]) :
                           content'[n] = Overwrite(content[n], SubSeq(out[q], 1, k))
           A == \A n \in Inode : content'[n] # content[n] =>
                  \E q \in Proc :
                    /\ fd[q] = n /\ holder[n] = q
                    /\ \E k \in 1..Len(out[q]) :
                         content'[n] = Overwrite(content[n], SubSeq(out[q], 1, k))
<1>1. IInv /\ [Next]_vars => [A]_vars
  <2> SUFFICES ASSUME IInv, Next, content' # content PROVE A
    BY DEF vars, files
  <2>1. PICK q \in Proc : Step(q) \/ Spill(q)
    BY DEF Next, RemoveLock, Begin, Crash, files
  <2>2. /\ fd[q] \in Inode /\ holder[fd[q]] = q
        /\ Spill(q) \/ Write(q, out[q])
    <3>1. CASE Spill(q)
      <4>1. out[q] # <<>> /\ pc[q] \in {"rename", "close", "exit"}
        BY <3>1 DEF Spill, IInv, TypeOK
      <4> QED BY <3>1, <4>1 DEF IInv, LockedToWrite
    <3>2. CASE Close(q)
      BY <3>2 DEF Close, IInv, LockedToWrite
    <3>3. CASE Exit(q)
      BY <3>3 DEF Exit, IInv, LockedToWrite
    <3>4. ~OpenStore(q) /\ ~OpenLock(q) /\ ~Lock(q)
          /\ ~PromptFails(q) /\ ~Edit(q) /\ ~Rename(q)
      BY DEF OpenStore, OpenLock, Lock, PromptFails, Edit, Rename, files
    <3> QED BY <2>1, <3>1, <3>2, <3>3, <3>4 DEF Step
  <2>3. out[q] \in Seq(Line) /\ content[fd[q]] \in Seq(Line)
    BY <2>2 DEF IInv, TypeOK
  <2>4. PICK s : content' = [content EXCEPT ![fd[q]] = Overwrite(@, s)]
    BY <2>2 DEF Spill, Write
  <2>5. \A n \in Inode : content'[n] # content[n] => n = fd[q]
    BY <2>2, <2>4 DEF IInv, TypeOK
  <2>6. content'[fd[q]] # content[fd[q]] => Part(fd[q], q)
    <3>1. CASE Spill(q)
      <4>1. PICK k \in 1..Len(out[q]) :
              content' = [content EXCEPT ![fd[q]] = Overwrite(@, SubSeq(out[q], 1, k))]
        BY <3>1 DEF Spill, Write
      <4> QED BY <2>2, <4>1 DEF IInv, TypeOK
    <3>2. CASE Write(q, out[q])
      <4>1. content'[fd[q]] = Overwrite(content[fd[q]], out[q])
        BY <2>2, <3>2 DEF Write, IInv, TypeOK
      <4>2. out[q] = <<>> => Overwrite(content[fd[q]], out[q]) = content[fd[q]]
        BY <2>3 DEF Overwrite
      <4>3. out[q] # <<>> => /\ Len(out[q]) \in 1..Len(out[q])
                             /\ SubSeq(out[q], 1, Len(out[q])) = out[q]
        BY <2>3
      <4> QED BY <4>1, <4>2, <4>3
    <3> QED BY <2>2, <3>1, <3>2
  <2> QED BY <2>2, <2>5, <2>6
<1> QED BY <1>1, Invariance, PTL DEF Spec, WritersHoldTheLock

(* No kill and no failed run leaves the directory without a store. *)
THEOREM StoreStays == Spec => StorePersists
<1>1. IInv /\ [Next]_vars => [store # None => store' # None]_vars
  <2> SUFFICES ASSUME IInv, Next, store # None PROVE store' # None
    BY DEF vars, files
  <2> QED BY DEF Next, RemoveLock, Begin, Step, OpenStore, OpenLock, Lock,
                 PromptFails, Edit, Spill, Rename, Close, Exit, Crash, End, files
<1> QED BY <1>1, Invariance, PTL DEF Spec, StorePersists
-----------------------------------------------------------------------------
(*                       What is written of a buffer                       *)

(* The file holds the first lines of what a run has to write. *)
Written(old, new) == Len(old) <= Len(new) /\ old = SubSeq(new, 1, Len(old))

(* All of it, written at last, is the new store. *)
LEMMA AllOverwritten ==
    ASSUME NEW old \in Seq(Line), NEW new \in Seq(Line), Len(old) <= Len(new)
    PROVE  Overwrite(old, new) = new
<1>1. Len(new) \in Nat /\ Len(old) \in Nat /\ Len(old) < Len(new) + 1
  OBVIOUS
<1>2. SubSeq(old, Len(new) + 1, Len(old)) = <<>>
  BY <1>1
<1> QED BY <1>2 DEF Overwrite

(* What stdio writes early leaves first lines of the new store, too. *)
LEMMA PartOverwritten ==
    ASSUME NEW old \in Seq(Line), NEW new \in Seq(Line), Written(old, new),
           NEW k \in 1..Len(new)
    PROVE  Written(Overwrite(old, SubSeq(new, 1, k)), new)
<1> DEFINE part == SubSeq(new, 1, k)
           rest == SubSeq(old, k + 1, Len(old))
           w == part \o rest
<1>1. Len(new) \in Nat /\ Len(old) \in Nat /\ Len(old) <= Len(new)
  BY DEF Written
<1>2. part \in Seq(Line) /\ Len(part) = k /\ \A j \in 1..k : part[j] = new[j]
  BY <1>1
<1>3. /\ rest \in Seq(Line)
      /\ Len(rest) = IF k + 1 <= Len(old) THEN Len(old) - k ELSE 0
      /\ \A j \in 1..Len(old) - k : rest[j] = old[k + j]
  <2>1. \A j \in (k + 1)..Len(old) : old[j] \in Line
    BY <1>1
  <2>2. \A j \in 1..Len(old) - (k + 1) + 1 : SubSeq(old, k + 1, Len(old))[j] = old[(k + 1) + j - 1]
    BY <1>1, <2>1, SubSeqProperties
  <2>3. \A j \in 1..Len(old) - k : j \in 1..Len(old) - (k + 1) + 1 /\ (k + 1) + j - 1 = k + j
    BY <1>1
  <2> QED BY <1>1, <2>1, <2>2, <2>3, SubSeqProperties
<1>4. \A j \in 1..Len(old) : old[j] = new[j]
  BY <1>1 DEF Written
<1>5. Overwrite(old, part) = w
  BY <1>2 DEF Overwrite
<1> HIDE DEF part, rest
<1>6. /\ w \in Seq(Line) /\ Len(w) = Len(part) + Len(rest)
      /\ \A j \in 1..Len(part) + Len(rest) : w[j] = IF j <= Len(part) THEN part[j]
                                                    ELSE rest[j - Len(part)]
  BY <1>2, <1>3, ConcatProperties
<1>7. Len(w) \in Nat /\ Len(w) <= Len(new)
  BY <1>1, <1>2, <1>3, <1>6
<1> HIDE DEF w
<1>8. ASSUME NEW j \in 1..Len(w) PROVE w[j] = new[j]
  <2>1. CASE j <= k
    BY <1>2, <1>6, <2>1
  <2>2. CASE ~(j <= k)
    <3>1. j - k \in 1..Len(old) - k /\ k + (j - k) = j /\ j \in 1..Len(old)
      BY <1>1, <1>2, <1>3, <1>6, <2>2
    <3>2. w[j] = rest[j - k]
      BY <1>2, <1>6, <2>2
    <3> QED BY <1>3, <1>4, <3>1, <3>2
  <2> QED BY <2>1, <2>2
<1>9. w = SubSeq(new, 1, Len(w))
  <2> DEFINE t == SubSeq(new, 1, Len(w))
  <2>1. t \in Seq(Line) /\ Len(t) = Len(w) /\ \A j \in 1..Len(w) : t[j] = new[j]
    BY <1>1, <1>7
  <2> HIDE DEF t
  <2>2. \A j \in 1..Len(w) : w[j] = t[j]
    BY <1>8, <2>1
  <2>3. w = t
    BY <1>6, <2>1, <2>2, SeqEqual
  <2> QED BY <2>3 DEF t
<1> QED BY <1>5, <1>7, <1>9 DEF Written, part
-----------------------------------------------------------------------------
(*                           What the edit does                            *)

(* The identities a query selects are compared exactly. *)
Exact == KeyFile \/ Related = {}

LEMMA StopsHere ==
    ASSUME Exact, NEW lines \in Seq(Line), NEW j \in 1..Len(lines), NEW id \in Id,
           Stops(lines, j, id)
    PROVE  \/ lines[j].id = id \/ lines[j].id = Broken \/ Invalid(lines[j])
           \/ Spaced(lines, j)
  BY DEF Exact, Stops, Matches

LEMMA FoundStops ==
    ASSUME NEW lines, NEW j, NEW id \in Id, lines[j].id = id
    PROVE  Stops(lines, j, id)
  BY IdAssumption DEF Stops, Matches, Text

(* A record the parser reads has no blanks before it. *)
LEMMA NotSpaced ==
    ASSUME NEW lines \in Seq(Line), \A j \in 1..Len(lines) : Text(lines[j]) => ~Spaced(lines, j)
    PROVE  ~Abstract!Unreadable(lines)
<1> SUFFICES ASSUME NEW j \in 1..Len(lines),
                    Abstract!Indented(lines, j) \/ Abstract!AfterIndented(lines, j)
             PROVE  FALSE
  BY DEF Abstract!Unreadable
<1>1. Text(lines[j])
  BY DEF Abstract!Indented, Abstract!AfterIndented, Abstract!IsText, Text
<1>2. CASE Abstract!Indented(lines, j)
  <2>1. lines[j].indent /\ j \in 1..j /\ j..(j - 1) = {}
    BY <1>2 DEF Abstract!Indented
  <2>2. Spaced(lines, j)
    BY <2>1 DEF Spaced
  <2> QED BY <1>1, <2>2
<1>3. CASE Abstract!AfterIndented(lines, j)
  <2>1. PICK i \in 1..(j - 1) : lines[i].indent /\ \A k \in i..(j - 1) : lines[k].id = Comment
    BY <1>3 DEF Abstract!AfterIndented
  <2>2. i \in 1..j
    OBVIOUS
  <2>3. Spaced(lines, j)
    BY <2>1, <2>2 DEF Spaced
  <2> QED BY <1>1, <2>3
<1> QED BY <1>2, <1>3

LEMMA SpacedIsUnreadable ==
    ASSUME NEW lines \in Seq(Line), NEW j \in 1..Len(lines), Text(lines[j]), Spaced(lines, j)
    PROVE  Abstract!Unreadable(lines)
<1>1. PICK i \in 1..j : lines[i].indent /\ \A k \in i..(j - 1) : lines[k].id = Comment
  BY DEF Spaced
<1>2. CASE i = j
  BY <1>1, <1>2 DEF Abstract!Unreadable, Abstract!Indented, Abstract!IsText, Text
<1>3. CASE i # j
  <2>1. i \in 1..(j - 1)
    BY <1>3
  <2>2. Abstract!AfterIndented(lines, j)
    BY <1>1, <2>1 DEF Abstract!AfterIndented, Abstract!IsText, Text
  <2> QED BY <2>2 DEF Abstract!Unreadable
<1> QED BY <1>2, <1>3

(* Lines that are alike stay so when both lose or gain the same one. *)
SameLine(l, k) ==
    /\ l.id = k.id /\ l.pf = k.pf
    /\ Text(l) => l.indent = k.indent

LEMMA AlikeIs ==
    ASSUME NEW s, NEW t
    PROVE  Abstract!Alike(s, t) <=>
             Len(s) = Len(t) /\ \A j \in 1..Len(s) : SameLine(s[j], t[j])
  BY DEF Abstract!Alike, SameLine, Abstract!IsText, Text

LEMMA AlikeAppend ==
    ASSUME NEW s \in Seq(Line), NEW t \in Seq(Line), Abstract!Alike(s, t), NEW r \in Line
    PROVE  Abstract!Alike(Append(s, r), Append(t, r))
<1>1. Len(s) = Len(t) /\ Len(s) \in Nat /\ \A j \in 1..Len(s) : SameLine(s[j], t[j])
  BY AlikeIs
<1>2. SameLine(r, r)
  BY DEF SameLine
<1>3. /\ Len(Append(s, r)) = Len(s) + 1 /\ Len(Append(t, r)) = Len(s) + 1
      /\ \A j \in 1..Len(s) : Append(s, r)[j] = s[j] /\ Append(t, r)[j] = t[j]
      /\ Append(s, r)[Len(s) + 1] = r /\ Append(t, r)[Len(s) + 1] = r
  BY <1>1, AppendProperties
<1>4. \A j \in 1..(Len(s) + 1) : j \in 1..Len(s) \/ j = Len(s) + 1
  BY <1>1
<1>5. \A j \in 1..Len(Append(s, r)) : SameLine(Append(s, r)[j], Append(t, r)[j])
  BY <1>1, <1>2, <1>3, <1>4
<1> QED BY <1>3, <1>5, AlikeIs

LEMMA AlikeReplace ==
    ASSUME NEW s \in Seq(Line), NEW t \in Seq(Line), Abstract!Alike(s, t), NEW r \in Line,
           NEW m \in 1..Len(s)
    PROVE  Abstract!Alike(Abstract!ReplaceAt(s, m, r), Abstract!ReplaceAt(t, m, r))
<1>1. Len(s) = Len(t) /\ Len(s) \in Nat /\ \A j \in 1..Len(s) : SameLine(s[j], t[j])
  BY AlikeIs
<1>2. SameLine(r, r)
  BY DEF SameLine
<1> DEFINE u == [s EXCEPT ![m] = r]
           v == [t EXCEPT ![m] = r]
<1>3. /\ Len(u) = Len(s) /\ \A j \in 1..Len(s) : u[j] = IF j = m THEN r ELSE s[j]
      /\ Len(v) = Len(s) /\ \A j \in 1..Len(s) : v[j] = IF j = m THEN r ELSE t[j]
  BY <1>1, ExceptSeq
<1>4. \A j \in 1..Len(u) : SameLine(u[j], v[j])
  BY <1>1, <1>2, <1>3
<1>5. Abstract!Alike(u, v)
  BY <1>3, <1>4, AlikeIs
<1> QED BY <1>5 DEF Abstract!ReplaceAt

LEMMA AlikeSubSeq ==
    ASSUME NEW s \in Seq(Line), NEW t \in Seq(Line), Abstract!Alike(s, t),
           NEW a \in Int, NEW b \in Int, a >= 1, b <= Len(s)
    PROVE  Abstract!Alike(SubSeq(s, a, b), SubSeq(t, a, b))
<1>1. Len(s) = Len(t) /\ Len(s) \in Nat /\ \A j \in 1..Len(s) : SameLine(s[j], t[j])
  BY AlikeIs
<1>2. \A j \in a..b : s[j] \in Line /\ t[j] \in Line
  BY <1>1
<1>3. /\ Len(SubSeq(s, a, b)) = IF a <= b THEN b - a + 1 ELSE 0
      /\ Len(SubSeq(t, a, b)) = IF a <= b THEN b - a + 1 ELSE 0
      /\ \A j \in 1..(b - a + 1) : SubSeq(s, a, b)[j] = s[a + j - 1]
                                   /\ SubSeq(t, a, b)[j] = t[a + j - 1]
  BY <1>2, SubSeqProperties
<1>4. \A j \in 1..(b - a + 1) : a + j - 1 \in 1..Len(s)
  BY <1>1
<1>5. \A j \in 1..Len(SubSeq(s, a, b)) : j \in 1..(b - a + 1)
  BY <1>3
<1>6. \A j \in 1..Len(SubSeq(s, a, b)) : SameLine(SubSeq(s, a, b)[j], SubSeq(t, a, b)[j])
  BY <1>1, <1>3, <1>4, <1>5
<1> QED BY <1>3, <1>6, AlikeIs

LEMMA AlikeConcat ==
    ASSUME NEW s \in Seq(Line), NEW t \in Seq(Line), Abstract!Alike(s, t),
           NEW u \in Seq(Line), NEW v \in Seq(Line), Abstract!Alike(u, v)
    PROVE  Abstract!Alike(s \o u, t \o v)
<1>1. Len(s) = Len(t) /\ Len(s) \in Nat /\ \A j \in 1..Len(s) : SameLine(s[j], t[j])
  BY AlikeIs
<1>2. Len(u) = Len(v) /\ Len(u) \in Nat /\ \A j \in 1..Len(u) : SameLine(u[j], v[j])
  BY AlikeIs
<1>3. /\ Len(s \o u) = Len(s) + Len(u)
      /\ \A j \in 1..(Len(s) + Len(u)) :
           (s \o u)[j] = IF j <= Len(s) THEN s[j] ELSE u[j - Len(s)]
  BY ConcatProperties
<1>4. /\ Len(t \o v) = Len(s) + Len(u)
      /\ \A j \in 1..(Len(s) + Len(u)) :
           (t \o v)[j] = IF j <= Len(s) THEN t[j] ELSE v[j - Len(s)]
  BY <1>1, <1>2, ConcatProperties
<1>5. ASSUME NEW j \in 1..(Len(s) + Len(u)) PROVE SameLine((s \o u)[j], (t \o v)[j])
  <2>1. CASE j <= Len(s)
    <3>1. j \in 1..Len(s)
      BY <1>1, <2>1
    <3> QED BY <1>1, <1>3, <1>4, <2>1, <3>1
  <2>2. CASE ~(j <= Len(s))
    <3>1. j - Len(s) \in 1..Len(u)
      BY <1>1, <1>2, <2>2
    <3> QED BY <1>2, <1>3, <1>4, <2>2, <3>1
  <2> QED BY <2>1, <2>2
<1> QED BY <1>3, <1>4, <1>5, AlikeIs

LEMMA AlikeRemove ==
    ASSUME NEW s \in Seq(Line), NEW t \in Seq(Line), Abstract!Alike(s, t), NEW m \in 1..Len(s)
    PROVE  Abstract!Alike(Abstract!RemoveAt(s, m), Abstract!RemoveAt(t, m))
<1>1. Len(s) = Len(t) /\ Len(s) \in Nat
  BY AlikeIs
<1>2. Abstract!Alike(SubSeq(s, 1, m - 1), SubSeq(t, 1, m - 1))
  BY <1>1, AlikeSubSeq
<1>3. Abstract!Alike(SubSeq(s, m + 1, Len(s)), SubSeq(t, m + 1, Len(t)))
  BY <1>1, AlikeSubSeq
<1>4. /\ SubSeq(s, 1, m - 1) \in Seq(Line) /\ SubSeq(t, 1, m - 1) \in Seq(Line)
      /\ SubSeq(s, m + 1, Len(s)) \in Seq(Line) /\ SubSeq(t, m + 1, Len(t)) \in Seq(Line)
  BY <1>1
<1> QED BY <1>2, <1>3, <1>4, AlikeConcat DEF Abstract!RemoveAt

(* Lines that are all copied are alike. *)
LEMMA CopiedAlike ==
    ASSUME NEW lines \in Seq(Line), \A j \in 1..Len(lines) : Text(lines[j]) => ~Spaced(lines, j)
    PROVE  Abstract!Alike(Copied(lines), lines)
<1>1. ASSUME NEW j \in 1..Len(lines) PROVE SameLine(Copied(lines)[j], lines[j])
  <2>1. /\ lines[j] \in Line /\ Copied(lines)[j] \in Line
        /\ Copied(lines)[j].id = lines[j].id /\ Copied(lines)[j].pf = lines[j].pf
        /\ Text(lines[j]) => ~Copied(lines)[j].indent
    BY CopiedType
  <2>2. Text(lines[j]) => ~lines[j].indent
    <3>1. lines[j].indent => Spaced(lines, j)
      <4>1. j \in 1..j /\ j..(j - 1) = {}
        OBVIOUS
      <4> QED BY <4>1 DEF Spaced
    <3> QED BY <3>1
  <2> QED BY <2>1, <2>2 DEF SameLine, Text, Line
<1> QED BY <1>1, CopiedType, AlikeIs

(* Replacing or taking out one line, as the two passes write it. *)
LEMMA AroundIs ==
    ASSUME NEW lines \in Seq(Line), NEW c \in Command, NEW m \in 1..Len(lines)
    PROVE  Around(lines, m, 0, c) =
             IF c.delete THEN Abstract!RemoveAt(Copied(lines), m)
             ELSE Abstract!ReplaceAt(Copied(lines), m, NewRecord(c))
<1> DEFINE cop == Copied(lines)
           new == NewLines(c)
           edited == Around(lines, m, 0, c)
           front == SubSeq(cop, 1, m - 1)
           back == SubSeq(cop, m + 1, Len(cop))
<1>1. /\ Len(cop) \in Nat /\ Len(cop) = Len(lines) /\ cop \in Seq(Line) /\ m \in 1..Len(cop)
      /\ \A j \in 1..Len(cop) : cop[j] \in Line
  BY CopiedType
<1>2. edited = front \o new \o back
  <2>1. m \in 0..Len(lines) /\ m # 0
    BY <1>1
  <2>2. Upto(lines, m) = front
    BY <2>1, UptoType
  <2> QED BY <1>1, <2>2 DEF Around
<1>3. NewRecord(c) \in Line
  BY NewRecordType
<1> HIDE DEF cop, edited
<1>6. front \in Seq(Line) /\ Len(front) = m - 1 /\ \A j \in 1..(m - 1) : front[j] = cop[j]
  BY <1>1
<1>7. /\ back \in Seq(Line) /\ Len(back) = Len(cop) - m
      /\ \A j \in 1..(Len(cop) - m) : back[j] = cop[m + j]
  <2>1. \A j \in (m + 1)..Len(cop) : cop[j] \in Line
    BY <1>1
  <2>2. /\ back \in Seq(Line)
        /\ Len(back) = IF m + 1 <= Len(cop) THEN Len(cop) - (m + 1) + 1 ELSE 0
        /\ \A j \in 1..Len(cop) - (m + 1) + 1 : back[j] = cop[(m + 1) + j - 1]
    BY <1>1, <2>1, SubSeqProperties
  <2>3. Len(back) = Len(cop) - m
    BY <1>1, <2>2
  <2>4. \A j \in 1..(Len(cop) - m) :
          j \in 1..Len(cop) - (m + 1) + 1 /\ (m + 1) + j - 1 = m + j
    BY <1>1
  <2> QED BY <2>2, <2>3, <2>4
<1>8. CASE c.delete
  <2>1. new = <<>>
    BY <1>8 DEF NewLines
  <2> HIDE DEF front, back
  <2>2. front \o <<>> = front
    BY <1>6
  <2>3. edited = front \o back
    BY <1>2, <2>1, <2>2
  <2> QED BY <1>8, <2>3 DEF Abstract!RemoveAt, front, back, cop, edited
<1>9. CASE ~c.delete
  <2> DEFINE r == NewRecord(c)
             t == [cop EXCEPT ![m] = r]
             head == front \o <<r>>
  <2>1. new = <<r>> /\ <<r>> \in Seq(Line) /\ Len(<<r>>) = 1 /\ <<r>>[1] = r
    BY <1>3, <1>9 DEF NewLines
  <2> HIDE DEF front, back, r
  <2>2. /\ head \in Seq(Line) /\ Len(head) = m
        /\ \A j \in 1..m : head[j] = IF j <= m - 1 THEN cop[j] ELSE r
    <3>1. /\ head \in Seq(Line) /\ Len(head) = Len(front) + 1
          /\ \A j \in 1..Len(front) + 1 :
               head[j] = IF j <= Len(front) THEN front[j] ELSE <<r>>[j - Len(front)]
      BY <1>6, <2>1, ConcatProperties
    <3>2. head[m] = r
      BY <1>1, <1>6, <2>1, <3>1
    <3> QED BY <1>1, <1>6, <3>1, <3>2
  <2>3. edited = head \o back
    BY <1>2, <2>1
  <2> HIDE DEF head
  <2>4. /\ edited \in Seq(Line) /\ Len(edited) = Len(head) + Len(back)
        /\ \A j \in 1..Len(head) + Len(back) :
             edited[j] = IF j <= Len(head) THEN head[j] ELSE back[j - Len(head)]
    BY <1>7, <2>2, <2>3, ConcatProperties
  <2>5. Len(head) + Len(back) = Len(cop)
    BY <1>1, <1>7, <2>2
  <2>6. ASSUME NEW j \in 1..Len(cop) PROVE edited[j] = IF j = m THEN r ELSE cop[j]
    <3>1. CASE j <= m
      BY <1>1, <2>2, <2>4, <2>5, <3>1
    <3>2. CASE ~(j <= m)
      <4>1. j - m \in 1..(Len(cop) - m) /\ m + (j - m) = j
        BY <1>1, <3>2
      <4>2. edited[j] = back[j - m]
        BY <2>2, <2>4, <2>5, <3>2
      <4> QED BY <1>1, <1>7, <3>2, <4>1, <4>2
    <3> QED BY <3>1, <3>2
  <2>7. /\ t \in Seq(Line) /\ Len(t) = Len(cop)
        /\ \A j \in 1..Len(cop) : t[j] = IF j = m THEN r ELSE cop[j]
    BY <1>1, <1>3, ExceptSeq DEF r
  <2> HIDE DEF t
  <2>8. edited = t
    BY <2>4, <2>5, <2>6, <2>7, SeqEqual
  <2> QED BY <1>9, <2>8 DEF t, r, Abstract!ReplaceAt, edited, cop
<1> QED BY <1>8, <1>9

(* What is promised of an edit: the one record of the identity is replaced  *)
(* or taken out where it was, or a new one comes last.                      *)
Promised(lines, c, edited) ==
    /\ ~Abstract!Unreadable(lines)
    /\ \/ \E j \in Abstract!At(lines, c.id) :
            /\ Abstract!At(lines, c.id) = {j}
            /\ Abstract!Alike(edited, IF c.delete THEN Abstract!RemoveAt(lines, j)
                                      ELSE Abstract!ReplaceAt(lines, j, Abstract!Record(c)))
       \/ /\ ~c.delete /\ Abstract!At(lines, c.id) = {}
          /\ Abstract!Alike(edited, Append(lines, Abstract!Record(c)))

(* What comes of a store that begins with an indented record. *)
Damaged(lines, c, edited) ==
    /\ ~c.delete /\ lines # <<>> /\ Abstract!Indented(lines, 1)
    /\ \/ edited = <<Abstract!Record(c)>>
       \/ /\ Len(edited) = Len(lines) + 1
          /\ edited[1] = Abstract!Record(c)
          /\ edited[2].pf = lines[1].pf
          /\ Abstract!Alike(Tail(Tail(edited)), Tail(lines))

LEMMA NothingStops ==
    ASSUME NEW lines \in Seq(Line), NEW c \in Command, First(lines, c) = 0
    PROVE  /\ Abstract!At(lines, c.id) = {}
           /\ \A j \in 1..Len(lines) : Text(lines[j]) => ~Spaced(lines, j)
<1>1. \A j \in 1..Len(lines) : ~Stops(lines, j, c.id)
  BY ParseFromStops DEF First
<1>2. c.id \in Id
  BY DEF Command
<1> QED BY <1>1, <1>2, FoundStops DEF Stops, Abstract!At

(* An edit that appends. *)
LEMMA Appends ==
    ASSUME NEW lines \in Seq(Line), NEW c \in Command, First(lines, c) = 0, ~c.delete
    PROVE  Promised(lines, c, Upto(lines, 0) \o NewLines(c))
<1> DEFINE r == NewRecord(c)
<1>1. /\ Abstract!At(lines, c.id) = {}
      /\ \A j \in 1..Len(lines) : Text(lines[j]) => ~Spaced(lines, j)
  BY NothingStops
<1>2. r \in Line /\ Abstract!Record(c) = r
  BY NewRecordType DEF NewRecord, Abstract!Record
<1>3. Abstract!Alike(Copied(lines), lines) /\ Copied(lines) \in Seq(Line)
  BY <1>1, CopiedAlike, CopiedType
<1>4. 0 \in 0..Len(lines)
  OBVIOUS
<1>5. Upto(lines, 0) = Copied(lines) /\ NewLines(c) = <<r>>
  BY <1>4, UptoType DEF NewLines
<1> HIDE DEF r
<1>6. Copied(lines) \o <<r>> = Append(Copied(lines), r)
  BY <1>2, <1>3, AppendIsConcat
<1>7. Abstract!Alike(Append(Copied(lines), r), Append(lines, r))
  BY <1>2, <1>3, AlikeAppend
<1>8. ~Abstract!Unreadable(lines)
  BY <1>1, NotSpaced
<1> QED BY <1>1, <1>2, <1>5, <1>6, <1>7, <1>8 DEF Promised

(* An edit that replaces or takes out. *)
LEMMA Replaces ==
    ASSUME Exact, NEW lines \in Seq(Line), NEW c \in Command,
           First(lines, c) # 0, Second(lines, c) = 0, ~Spaced(lines, First(lines, c)),
           ~(lines[First(lines, c)].id = Broken \/ Invalid(lines[First(lines, c)]))
    PROVE  Promised(lines, c, Around(lines, First(lines, c), 0, c))
<1> DEFINE m == First(lines, c)
           start == m + 1
           at == Abstract!At(lines, c.id)
           r == NewRecord(c)
           cop == Copied(lines)
<1>1. Len(lines) \in Nat /\ c.id \in Id /\ m + 1 \in Nat \ {0}
  BY PassTypes DEF Command
<1>2. m \in 1..Len(lines) /\ Stops(lines, m, c.id) /\ \A j \in 1..(m - 1) : ~Stops(lines, j, c.id)
  BY ParseFromStops DEF First
<1>3. \A j \in start..Len(lines) : ~Stops(lines, j, c.id)
  <2>1. ParseFrom(lines, start, c.id) = 0 /\ start \in Nat \ {0}
    BY <1>1 DEF Second
  <2> HIDE DEF start
  <2> QED BY <2>1, ParseFromStops
<1>4. lines[m].id = c.id
  BY <1>1, <1>2, StopsHere
<1>5. ~Spaced(lines, m)
  OBVIOUS
<1>6. at = {j \in 1..Len(lines) : lines[j].id = c.id}
  BY DEF Abstract!At
<1>7. r \in Line /\ Abstract!Record(c) = r
  BY NewRecordType DEF NewRecord, Abstract!Record
<1> HIDE DEF m, at, r, cop
<1>8. \A j \in 1..Len(lines) : j # m => ~Stops(lines, j, c.id)
  <2>1. \A j \in 1..Len(lines) : j # m => j \in 1..(m - 1) \/ j \in start..Len(lines)
    BY <1>1, <1>2
  <2> QED BY <1>2, <1>3, <2>1
<1>9. at = {m}
  <2>1. \A j \in at : Stops(lines, j, c.id) /\ j \in 1..Len(lines)
    BY <1>1, <1>6, FoundStops
  <2> QED BY <1>2, <1>4, <1>6, <1>8, <2>1
<1>10. \A j \in 1..Len(lines) : Text(lines[j]) => ~Spaced(lines, j)
  BY <1>5, <1>8 DEF Stops
<1>11. Abstract!Alike(cop, lines) /\ cop \in Seq(Line) /\ m \in 1..Len(cop)
  BY <1>2, <1>10, CopiedAlike, CopiedType DEF cop
<1>12. Around(lines, m, 0, c) =
         IF c.delete THEN Abstract!RemoveAt(cop, m) ELSE Abstract!ReplaceAt(cop, m, r)
  BY <1>2, AroundIs DEF cop, r
<1>13. Abstract!Alike(Around(lines, m, 0, c),
                      IF c.delete THEN Abstract!RemoveAt(lines, m)
                      ELSE Abstract!ReplaceAt(lines, m, Abstract!Record(c)))
  <2>1. Abstract!Alike(Abstract!RemoveAt(cop, m), Abstract!RemoveAt(lines, m))
    BY <1>11, AlikeRemove
  <2>2. Abstract!Alike(Abstract!ReplaceAt(cop, m, r), Abstract!ReplaceAt(lines, m, r))
    BY <1>7, <1>11, AlikeReplace
  <2> QED BY <1>7, <1>12, <2>1, <2>2
<1>14. ~Abstract!Unreadable(lines)
  BY <1>10, NotSpaced
<1> QED BY <1>9, <1>13, <1>14 DEF Promised, m, at

(* An edit that misreads the first row. *)
LEMMA Misreads ==
    ASSUME NEW lines \in Seq(Line), NEW c \in Command,
           First(lines, c) = 1, Spaced(lines, 1), Misread(lines, c).ok
    PROVE  Damaged(lines, c, Misread(lines, c).out)
<1> DEFINE rest == <<Remainder(lines[1])>> \o Tail(lines)
           n == ParseFrom(rest, 1, c.id)
           r == NewRecord(c)
           ok == n = 0 \/ (n = 1 /\ Spaced(rest, 1))
           edited == <<r>> \o Upto(rest, n)
<1>1. Len(lines) \in Nat /\ c.delete \in BOOLEAN
  BY DEF Command
<1>2. 1 \in 1..Len(lines) /\ Stops(lines, 1, c.id) /\ lines # <<>>
  BY ParseFromStops DEF First
<1>3. Text(lines[1])
  BY <1>2 DEF Stops
<1>4. lines[1].indent
  BY DEF Spaced
<1>5. Abstract!Indented(lines, 1)
  BY <1>3, <1>4 DEF Abstract!Indented, Abstract!IsText, Text
<1>6. /\ rest \in Seq(Line) /\ Len(rest) = Len(lines) /\ rest[1].pf = lines[1].pf
      /\ \A j \in 2..Len(lines) : rest[j] = lines[j]
  BY <1>2, <1>3, RestType
<1>7. Misread(lines, c) = IF c.delete THEN [ok |-> FALSE, out |-> <<>>]
                          ELSE [ok |-> ok, out |-> edited]
  BY DEF Misread
<1>8. r \in Line /\ Abstract!Record(c) = r /\ <<r>> \in Seq(Line) /\ Len(<<r>>) = 1 /\ <<r>>[1] = r
  BY NewRecordType DEF NewRecord, Abstract!Record
<1> HIDE DEF rest, r, ok, edited
<1>9. ~c.delete
  <2> SUFFICES ASSUME c.delete PROVE FALSE
    OBVIOUS
  <2>1. Misread(lines, c) = [ok |-> FALSE, out |-> <<>>]
    BY <1>7, Zenon
  <2> QED BY <2>1
<1>10. Misread(lines, c) = [ok |-> ok, out |-> edited]
  BY <1>7, <1>9, Zenon
<1>11. ok /\ Misread(lines, c).out = edited
  BY <1>10
<1>12. CASE n = 1
  <2>1. Upto(rest, n) = SubSeq(Copied(rest), 1, 0)
    BY <1>6, <1>1, <1>2, <1>12, UptoType
  <2>2. Upto(rest, n) = <<>>
    BY <1>6, <2>1, CopiedType
  <2>3. edited = <<r>>
    <3>1. <<r>> \o <<>> = <<r>>
      BY <1>8, ConcatEmptySeq
    <3> QED BY <2>2, <3>1, Zenon DEF edited
  <2> QED BY <1>2, <1>5, <1>8, <1>9, <1>11, <2>3 DEF Damaged
<1>13. CASE n = 0
  <2> DEFINE cop == Copied(rest)
  <2>1. \A j \in 1..Len(rest) : ~Stops(rest, j, c.id)
    BY <1>6, <1>13, ParseFromStops
  <2>2. \A j \in 1..Len(rest) : Text(rest[j]) => ~Spaced(rest, j)
    BY <2>1 DEF Stops
  <2>3. /\ cop \in Seq(Line) /\ Len(cop) = Len(lines) /\ Abstract!Alike(cop, rest)
        /\ cop[1].pf = lines[1].pf
    BY <1>2, <1>6, <2>2, CopiedAlike, CopiedType
  <2>4. edited = <<r>> \o cop
    <3>1. 0 \in 0..Len(rest)
      BY <1>1, <1>6
    <3> QED BY <1>6, <1>13, <3>1, UptoType DEF edited
  <2> HIDE DEF cop
  <2>5. /\ edited \in Seq(Line) /\ Len(edited) = 1 + Len(cop)
        /\ \A j \in 1..(1 + Len(cop)) : edited[j] = IF j <= 1 THEN <<r>>[j] ELSE cop[j - 1]
    BY <1>8, <2>3, <2>4, ConcatProperties
  <2>6. /\ Len(edited) = Len(lines) + 1 /\ edited[1] = r /\ edited[2].pf = lines[1].pf
    BY <1>1, <1>2, <1>8, <2>3, <2>5
  <2>7. Abstract!Alike(Tail(Tail(edited)), Tail(lines))
    <3> DEFINE tt == Tail(Tail(edited))
    <3>1. /\ Tail(edited) \in Seq(Line) /\ Len(Tail(edited)) = Len(lines)
          /\ \A j \in 1..Len(lines) : Tail(edited)[j] = edited[j + 1]
      BY <1>1, <2>5, <2>6, HeadTailProperties
    <3> DEFINE te == Tail(edited)
    <3>2. te # <<>>
      BY <1>1, <1>2, <3>1
    <3> HIDE DEF te
    <3>3. /\ Len(Tail(te)) = Len(te) - 1
          /\ \A j \in 1..(Len(te) - 1) : Tail(te)[j] = te[j + 1]
      BY <3>1, <3>2, HeadTailProperties DEF te
    <3>4. /\ Len(Tail(lines)) = Len(lines) - 1
          /\ \A j \in 1..(Len(lines) - 1) : Tail(lines)[j] = lines[j + 1]
      BY <1>2, HeadTailProperties
    <3>5. \A j \in 1..(Len(lines) - 1) : tt[j] = cop[j + 1]
      <4>1. \A j \in 1..(Len(lines) - 1) : tt[j] = edited[(j + 1) + 1]
        BY <1>1, <3>1, <3>3 DEF te
      <4>2. \A j \in 1..(Len(lines) - 1) : edited[(j + 1) + 1] = cop[j + 1]
        BY <1>1, <2>3, <2>5
      <4> QED BY <4>1, <4>2
    <3>6. Len(tt) = Len(lines) - 1
      BY <3>1, <3>3 DEF te
    <3> HIDE DEF tt
    <3>7. ASSUME NEW j \in 1..(Len(lines) - 1) PROVE SameLine(tt[j], Tail(lines)[j])
      <4>1. j + 1 \in 1..Len(lines) /\ j + 1 \in 2..Len(lines)
        BY <1>1
      <4>2. SameLine(cop[j + 1], rest[j + 1])
        BY <2>3, <4>1, AlikeIs
      <4> QED BY <1>6, <3>4, <3>5, <4>1, <4>2
    <3>8. Len(tt) = Len(Tail(lines)) /\ \A j \in 1..Len(tt) : SameLine(tt[j], Tail(lines)[j])
      BY <3>4, <3>6, <3>7
    <3>9. Abstract!Alike(tt, Tail(lines))
      BY <3>8, AlikeIs
    <3> QED BY <3>9 DEF tt
  <2> QED BY <1>2, <1>5, <1>8, <1>9, <1>11, <2>6, <2>7 DEF Damaged
<1> QED BY <1>11, <1>12, <1>13 DEF ok

(* An edit that commits is what is promised of it, but for the store that   *)
(* begins with an indented record.                                          *)
LEMMA EditedCommits ==
    ASSUME Exact, NEW lines \in Seq(Line), NEW c \in Command, Edited(lines, c).ok
    PROVE  \/ Promised(lines, c, Edited(lines, c).out)
           \/ Damaged(lines, c, Edited(lines, c).out)
<1> DEFINE m == First(lines, c)
           n == Second(lines, c)
           bad == lines[m].id = Broken \/ Invalid(lines[m])
           e == Edited(lines, c)
<1>1. c.delete \in BOOLEAN
  BY DEF Command
<1>2. CASE m = 0 /\ e = [ok |-> ~c.delete, out |-> Upto(lines, m) \o NewLines(c)]
  <2>1. e.ok = ~c.delete /\ e.out = Upto(lines, m) \o NewLines(c)
    BY <1>2, Fields, Zenon
  <2>2. ~c.delete /\ e.out = Upto(lines, 0) \o NewLines(c)
    BY <1>1, <1>2, <2>1
  <2> QED BY <1>2, <2>2, Appends
<1>3. CASE m = 1 /\ Spaced(lines, m) /\ e = Misread(lines, c)
  BY <1>3, Misreads
<1>4. CASE e = [ok |-> FALSE, out |-> Upto(lines, m)]
  BY <1>4
<1>5. CASE m # 0 /\ ~Spaced(lines, m) /\ ~bad
           /\ e = [ok |-> n = 0, out |-> Around(lines, m, n, c)]
  <2> DEFINE ends == n = 0
             written == Around(lines, m, n, c)
  <2>1. e.ok = ends /\ e.out = written
    <3>1. e = [ok |-> ends, out |-> written]
      BY <1>5
    <3> HIDE DEF ends, written, e
    <3> QED BY <3>1, Fields
  <2>2. n = 0
    BY <2>1
  <2>3. e.out = Around(lines, m, 0, c)
    BY <2>1, <2>2, Zenon
  <2> QED BY <1>5, <2>2, <2>3, Replaces
<1> HIDE DEF m, n, bad, e
<1>6. \/ m = 0 /\ e = [ok |-> ~c.delete, out |-> Upto(lines, m) \o NewLines(c)]
      \/ m = 1 /\ Spaced(lines, m) /\ e = Misread(lines, c)
      \/ e = [ok |-> FALSE, out |-> Upto(lines, m)]
      \/ /\ m # 0 /\ ~Spaced(lines, m) /\ ~bad
         /\ e = [ok |-> n = 0, out |-> Around(lines, m, n, c)]
  BY EditedOutcome DEF m, n, bad, e
<1> QED BY <1>2, <1>3, <1>4, <1>5, <1>6 DEF e

(* An edit that does not commit has a reason. *)
LEMMA EditedRefuses ==
    ASSUME Exact, NEW lines \in Seq(Line), NEW c \in Command, ~Edited(lines, c).ok
    PROVE  \/ c.delete /\ Abstract!At(lines, c.id) = {}
           \/ Abstract!Malformed(lines) \/ Abstract!Unreadable(lines)
           \/ Abstract!Duplicate(lines)
<1> DEFINE m == First(lines, c)
           n == Second(lines, c)
           bad == lines[m].id = Broken \/ Invalid(lines[m])
           e == Edited(lines, c)
<1>1. Len(lines) \in Nat /\ c.id \in Id /\ c.delete \in BOOLEAN
  BY DEF Command
<1>2. m # 0 => m \in 1..Len(lines) /\ Stops(lines, m, c.id)
  BY ParseFromStops DEF First
<1>3. ASSUME NEW j \in 1..Len(lines), Text(lines[j]), lines[j].id = Broken \/ Invalid(lines[j])
      PROVE  Abstract!Malformed(lines)
  BY <1>3 DEF Abstract!Malformed, Invalid, Abstract!IsText, Text
<1>4. CASE m = 0 /\ e = [ok |-> ~c.delete, out |-> Upto(lines, m) \o NewLines(c)]
  <2>1. c.delete
    BY <1>4, Fields, Zenon
  <2> QED BY <1>4, <2>1, NothingStops
<1>5. CASE m # 0 /\ Spaced(lines, m)
  BY <1>2, <1>5, SpacedIsUnreadable DEF Stops
<1>6. CASE m # 0 /\ bad
  BY <1>2, <1>3, <1>6 DEF Stops
<1>7. CASE m # 0 /\ ~Spaced(lines, m) /\ ~bad
           /\ e = [ok |-> n = 0, out |-> Around(lines, m, n, c)]
  <2>0. n # 0
    BY <1>7, Fields, Zenon
  <2>1. m + 1 \in Nat \ {0} /\ n # 0
    BY <2>0, PassTypes
  <2>2. n \in (m + 1)..Len(lines) /\ Stops(lines, n, c.id)
    BY <2>1, ParseFromStops DEF Second
  <2>3. lines[m].id = c.id
    BY <1>1, <1>2, <1>7, StopsHere
  <2> HIDE DEF m, n
  <2>4. m \in 1..Len(lines) /\ n \in 1..Len(lines) /\ m # n
    BY <1>1, <1>2, <1>7, <2>2
  <2>5. \/ lines[n].id = c.id \/ lines[n].id = Broken \/ Invalid(lines[n])
        \/ Spaced(lines, n)
    BY <1>1, <2>2, <2>4, StopsHere
  <2>6. Text(lines[n])
    BY <2>2 DEF Stops
  <2>7. CASE lines[n].id = c.id
    BY <1>1, <2>3, <2>4, <2>7 DEF Abstract!Duplicate, Abstract!At
  <2>8. CASE Spaced(lines, n)
    BY <2>4, <2>6, <2>8, SpacedIsUnreadable
  <2> QED BY <1>3, <2>4, <2>5, <2>6, <2>7, <2>8
<1> HIDE DEF m, n, bad, e
<1>8. \/ m = 0 /\ e = [ok |-> ~c.delete, out |-> Upto(lines, m) \o NewLines(c)]
      \/ m # 0 /\ Spaced(lines, m)
      \/ m # 0 /\ bad
      \/ /\ m # 0 /\ ~Spaced(lines, m) /\ ~bad
         /\ e = [ok |-> n = 0, out |-> Around(lines, m, n, c)]
  <2>1. m = 1 => m # 0
    OBVIOUS
  <2> QED BY <2>1, EditedOutcome DEF m, n, bad, e
<1> QED BY <1>4, <1>5, <1>6, <1>7, <1>8

-----------------------------------------------------------------------------
(*                        One process at a time                            *)

Alone == TidyUp /\ \E q \in Proc : Proc = {q}

(* The lines a run finds. *)
Current == IF store = None THEN <<>> ELSE content[store]

(* Nobody takes the names away from a run: the lock file it opens is new,   *)
(* keeps its name until the rename, and the store is the one it opened.     *)
NamesAreKept ==
    \A q \in Proc :
      /\ pc[q] \in {"open", "openlock"} => lock = None
      /\ pc[q] \in {"lock", "edit", "rename"} \/ (pc[q] = "exit" /\ fd[q] # None) =>
           lock = fd[q]
      /\ pc[q] = "close" => store = fd[q] /\ lock = None
      /\ pc[q] \in {"openlock", "lock", "edit", "rename"} =>
           from[q] = store /\ (cmd[q].create <=> store = None)

(* Nobody else writes the lock file, or holds it. *)
FilesAreKept ==
    /\ \A n \in Inode : n > inodes => content[n] = <<>>
    /\ \A q \in Proc : fd[q] \in 1..inodes \cup {None}
    /\ \A q \in Proc : \A n \in Inode :
         holder[n] # None => pc[q] \in {"edit", "rename", "close", "exit"}
    /\ \A q \in Proc : fd[q] # None => Written(content[fd[q]], out[q])

(* A run that gets to the rename has edited the store; one that fails       *)
(* without being at a prompt had to.                                        *)
ResultIsKept ==
    \A q \in Proc :
      /\ pc[q] = "rename" => /\ Edited(Current, cmd[q]).ok
                             /\ out[q] = Edited(Current, cmd[q]).out
      /\ pc[q] = "exit" => Abstract!Refused(cmd[q]) \/ ~cmd[q].delete

AloneInv == IInv /\ NamesAreKept /\ FilesAreKept /\ ResultIsKept

LEMMA OnlyOne == ASSUME Alone, NEW q \in Proc PROVE Proc = {q} /\ TheProcess = q
  BY DEF Alone, TheProcess

(* What the store shows, in terms of the process. *)
IsShown ==
    \A q \in Proc :
      /\ store = None => StoreLines = None /\ pc[q] # "close"
      /\ store # None =>
           /\ store \in Inode
           /\ StoreLines = IF pc[q] = "close" THEN out[q] ELSE content[store]
           /\ StoreLines \in Seq(Line) /\ StoreLines # None

LEMMA Shown == Alone /\ AloneInv => IsShown
<1> SUFFICES ASSUME Alone, AloneInv, NEW q \in Proc
             PROVE  /\ store = None => StoreLines = None /\ pc[q] # "close"
                    /\ store # None =>
                         /\ store \in Inode
                         /\ StoreLines = IF pc[q] = "close" THEN out[q] ELSE content[store]
                         /\ StoreLines \in Seq(Line) /\ StoreLines # None
  BY DEF IsShown
<1>1. Proc = {q}
  BY OnlyOne
<1>2. store \in Inode \cup {None} /\ content \in [Inode -> Seq(Line)] /\ out[q] \in Seq(Line)
  BY DEF AloneInv, IInv, TypeOK
<1>3. pc[q] = "close" => fd[q] \in Inode /\ store = fd[q]
  BY DEF AloneInv, NamesAreKept, IInv, Opened
<1>4. None \notin Inode /\ None \notin Seq(Line)
  BY NoneAssumption
<1> DEFINE writers == {r \in Proc : pc[r] = "close" /\ fd[r] = store}
<1>5. CASE pc[q] = "close"
  <2>1. writers = {q} /\ store # None /\ store \in Inode
    BY <1>1, <1>3, <1>4, <1>5
  <2>2. (CHOOSE r \in writers : TRUE) = q
    BY <2>1
  <2>3. StoreLines = Overwrite(content[store], out[q])
    BY <2>1, <2>2 DEF StoreLines
  <2>4. Written(content[store], out[q])
    BY <1>3, <1>4, <1>5 DEF AloneInv, FilesAreKept
  <2>5. StoreLines = out[q]
    BY <1>2, <2>1, <2>3, <2>4, AllOverwritten DEF Written
  <2> QED BY <1>2, <1>4, <1>5, <2>1, <2>5
<1>6. CASE pc[q] # "close"
  <2>1. writers = {}
    BY <1>1, <1>6
  <2>2. StoreLines = IF store = None THEN None ELSE content[store]
    BY <2>1 DEF StoreLines
  <2> QED BY <1>2, <1>4, <1>6, <2>2
<1> QED BY <1>5, <1>6

LEMMA ShownNext == ASSUME Alone PROVE AloneInv' => IsShown'
  BY Shown, PTL

(* Whether a run is refused depends on the lines of the store alone. *)
LEMMA SameLinesRefuse ==
    ASSUME StoreLines' = StoreLines, NEW c
    PROVE  Abstract!Refused(c) => Abstract!Refused(c)'
  BY DEF Abstract!Refused, Abstract!Malformed, Abstract!Duplicate, Abstract!At,
         Abstract!Unreadable, Abstract!Indented, Abstract!AfterIndented, Abstract!IsText
-----------------------------------------------------------------------------
(* One lemma per action: it preserves the invariant, and is a step of the   *)
(* abstract store or changes nothing that shows.                            *)
LEMMA AloneInit == Alone /\ Init => AloneInv /\ Abstract!Init
<1> SUFFICES ASSUME Alone, Init PROVE AloneInv /\ Abstract!Init
  OBVIOUS
<1>1. IInv
  BY InitInvariant
<1>2. NamesAreKept /\ ResultIsKept
  BY DEF Init, NamesAreKept, ResultIsKept
<1>3. FilesAreKept
  <2>1. \A n \in Inode : n > inodes => content[n] = <<>>
    <3>1. PICK first \in Stores :
             \/ inodes = 0 /\ content = [n \in Inode |-> <<>>]
             \/ inodes = 1 /\ content = [n \in Inode |-> IF n = 1 THEN first ELSE <<>>]
      BY DEF Init
    <3>2. CASE content = [n \in Inode |-> <<>>]
      BY <3>2
    <3>3. CASE inodes = 1 /\ content = [n \in Inode |-> IF n = 1 THEN first ELSE <<>>]
      <4>1. \A n \in Inode : n > 1 => n # 1
        BY DEF Inode
      <4> QED BY <3>3, <4>1
    <3> QED BY <3>1, <3>2, <3>3
  <2> QED BY <2>1 DEF Init, FilesAreKept
<1>4. TheProcess \in Proc
  BY DEF Alone, TheProcess
<1>5. Abstract!Init
  BY <1>4 DEF Init, Abstract!Init, Ended
<1> QED BY <1>1, <1>2, <1>3, <1>5 DEF AloneInv

LEMMA AloneBegin ==
    ASSUME Alone, AloneInv, NEW q \in Proc, Begin(q), IInv'
    PROVE  AloneInv' /\ Abstract!Begin
<1> USE DEF Begin, GoTo, files
<1>1. Proc = {q} /\ TheProcess = q
  BY OnlyOne
<1>2. PICK c \in Command : cmd' = [cmd EXCEPT ![q] = c]
  OBVIOUS
<1>3. /\ pc[q] \in Ended /\ pc' = [pc EXCEPT ![q] = "open"] /\ pc'[q] = "open"
      /\ cmd'[q] = c /\ lock = None
  BY <1>2 DEF AloneInv, IInv, TypeOK, Alone
<1>4. NamesAreKept' /\ ResultIsKept'
  BY <1>1, <1>3 DEF NamesAreKept, ResultIsKept
<1>5. \A n \in Inode : holder[n] = None
  BY <1>1, <1>3 DEF AloneInv, FilesAreKept, Ended
<1>6. FilesAreKept'
  BY <1>1, <1>3, <1>5 DEF AloneInv, FilesAreKept
<1>7. AloneInv'
  BY <1>4, <1>6 DEF AloneInv
<1>8. StoreLines' = StoreLines
  BY <1>1, <1>3, <1>7, Shown, ShownNext DEF IsShown, Ended
<1>9. Abstract!Begin
  BY <1>1, <1>2, <1>3, <1>8 DEF Abstract!Begin, Abstract!Ended, Ended, Command
<1> QED BY <1>7, <1>9

(* Before the rename, the lock file is all that changes. *)
LEMMA NothingShown ==
    ASSUME Alone, AloneInv, AloneInv', NEW q \in Proc,
           store' = store, store # None => content'[store] = content[store],
           cmd' = cmd,
           pc[q] = pc'[q] \/ (pc[q] \notin Ended /\ pc'[q] \notin Ended),
           pc[q] # "close", pc'[q] # "close"
    PROVE  UNCHANGED Abstract!vars
<1>1. TheProcess = q
  BY OnlyOne
<1>2. StoreLines' = StoreLines
  BY Shown, ShownNext DEF IsShown
<1> QED BY <1>1, <1>2 DEF Abstract!vars

LEMMA AloneOpenStore ==
    ASSUME Alone, AloneInv, NEW q \in Proc, OpenStore(q), IInv'
    PROVE  AloneInv' /\ UNCHANGED Abstract!vars
<1> USE DEF OpenStore, GoTo, files
<1>1. Proc = {q}
  BY OnlyOne
<1>2. /\ pc[q] = "open" /\ lock = None /\ fd[q] = None /\ cmd[q] \in Command
      /\ from'[q] = store
      /\ pc'[q] = IF cmd[q].create <=> store = None THEN "openlock" ELSE "exit"
  BY DEF AloneInv, NamesAreKept, IInv, TypeOK, Opened, Ended
<1>3. NamesAreKept'
  BY <1>1, <1>2 DEF NamesAreKept
<1>4. \A n \in Inode : holder[n] = None
  BY <1>1, <1>2 DEF AloneInv, FilesAreKept
<1>5. FilesAreKept'
  BY <1>1, <1>2, <1>4 DEF AloneInv, FilesAreKept
<1>6. pc'[q] = "exit" => Abstract!Refused(cmd[q])'
  <2> SUFFICES ASSUME pc'[q] = "exit" PROVE Abstract!Refused(cmd[q])'
    OBVIOUS
  <2>1. StoreLines = None <=> store = None
    BY Shown DEF IsShown
  <2>2. cmd[q].create <=> store # None
    BY <1>2 DEF Command
  <2>3. StoreLines' = None <=> store' = None
    BY <1>1, <1>2, NoneAssumption DEF StoreLines, AloneInv, IInv, TypeOK
  <2> QED BY <2>2, <2>3 DEF Abstract!Refused
<1>7. ResultIsKept'
  BY <1>1, <1>2, <1>6 DEF ResultIsKept
<1>8. AloneInv'
  BY <1>3, <1>5, <1>7 DEF AloneInv
<1> QED BY <1>2, <1>8, NothingShown DEF Ended

LEMMA AloneOpenLock ==
    ASSUME Alone, AloneInv, NEW q \in Proc, OpenLock(q), IInv'
    PROVE  AloneInv' /\ UNCHANGED Abstract!vars
<1> USE DEF OpenLock, GoTo, files
<1>1. Proc = {q}
  BY OnlyOne
<1>2. /\ pc[q] = "openlock" /\ lock = None /\ pc'[q] = "lock"
      /\ inodes \in Nat /\ inodes' = inodes + 1 /\ inodes + 1 \in Inode
      /\ lock' = inodes + 1 /\ fd'[q] = inodes + 1
      /\ out[q] = <<>>
  BY BoundAssumption DEF AloneInv, NamesAreKept, IInv, TypeOK, Opened, Ended, Inode
<1>3. NamesAreKept'
  BY <1>1, <1>2, NoneAssumption DEF NamesAreKept, AloneInv
<1>4. \A n \in Inode : holder[n] = None
  BY <1>1, <1>2 DEF AloneInv, FilesAreKept
<1>5. FilesAreKept'
  <2>1. \A n \in Inode : n > inodes + 1 => n > inodes
    BY <1>2 DEF Inode
  <2>2. content[inodes + 1] = <<>> /\ inodes + 1 \in 1..(inodes + 1)
    BY <1>2 DEF AloneInv, FilesAreKept
  <2>3. Written(<<>>, <<>>)
    BY DEF Written
  <2> QED BY <1>1, <1>2, <1>4, <2>1, <2>2, <2>3 DEF AloneInv, FilesAreKept
<1>6. ResultIsKept'
  BY <1>1, <1>2 DEF ResultIsKept
<1>7. AloneInv'
  BY <1>3, <1>5, <1>6 DEF AloneInv
<1> QED BY <1>2, <1>7, NothingShown DEF Ended

LEMMA AloneLock ==
    ASSUME Alone, AloneInv, NEW q \in Proc, Lock(q), IInv'
    PROVE  AloneInv' /\ UNCHANGED Abstract!vars
<1> USE DEF Lock, GoTo, files
<1>1. Proc = {q}
  BY OnlyOne
<1>2. /\ pc[q] = "lock" /\ fd[q] \in Inode
      /\ holder[fd[q]] = None /\ holder' = [holder EXCEPT ![fd[q]] = q]
      /\ pc'[q] = "edit"
  BY <1>1 DEF AloneInv, FilesAreKept, IInv, TypeOK, Opened
<1>3. NamesAreKept'
  BY <1>1, <1>2 DEF NamesAreKept, AloneInv
<1>4. FilesAreKept'
  BY <1>1, <1>2 DEF AloneInv, FilesAreKept
<1>5. ResultIsKept'
  BY <1>1, <1>2 DEF ResultIsKept
<1>6. AloneInv'
  BY <1>3, <1>4, <1>5 DEF AloneInv
<1> QED BY <1>2, <1>6, NothingShown DEF Ended

LEMMA AlonePromptFails ==
    ASSUME Alone, AloneInv, NEW q \in Proc, PromptFails(q), IInv'
    PROVE  AloneInv' /\ UNCHANGED Abstract!vars
<1> USE DEF PromptFails, GoTo, files
<1>1. Proc = {q}
  BY OnlyOne
<1>2. pc[q] = "edit" /\ pc'[q] = "exit" /\ ~cmd[q].delete
  BY DEF AloneInv, IInv, TypeOK
<1>3. NamesAreKept'
  BY <1>1, <1>2 DEF NamesAreKept, AloneInv
<1>4. FilesAreKept'
  BY <1>1, <1>2 DEF AloneInv, FilesAreKept
<1>5. ResultIsKept'
  BY <1>1, <1>2 DEF ResultIsKept
<1>6. AloneInv'
  BY <1>3, <1>4, <1>5 DEF AloneInv
<1> QED BY <1>2, <1>6, NothingShown DEF Ended

(* What nobody has written to can be followed by anything. *)
LEMMA NothingWritten ==
    ASSUME NEW old \in Seq(Line), NEW new \in Seq(Line), Written(old, <<>>)
    PROVE  Written(old, new)
<1>1. Len(old) = 0 /\ Len(new) \in Nat
  BY DEF Written
<1>2. old = <<>> /\ SubSeq(new, 1, 0) = <<>>
  BY <1>1
<1> QED BY <1>1, <1>2 DEF Written

LEMMA AloneEdit ==
    ASSUME Alone, Exact, AloneInv, NEW q \in Proc, Edit(q), IInv'
    PROVE  AloneInv' /\ UNCHANGED Abstract!vars
<1> DEFINE c == cmd[q]
           result == Edited(Current, c)
<1>1. Proc = {q}
  BY OnlyOne
<1>2. /\ pc[q] = "edit" /\ from[q] = store /\ c \in Command
      /\ (c.create <=> store = None) /\ Current \in Seq(Line)
      /\ fd[q] \in Inode /\ out[q] = <<>>
  <2>1. pc[q] = "edit"
    BY DEF Edit
  <2>2. from[q] = store /\ (c.create <=> store = None)
    BY <2>1 DEF AloneInv, NamesAreKept
  <2>3. c \in Command /\ fd[q] \in Inode /\ out[q] = <<>>
    BY <2>1 DEF AloneInv, IInv, TypeOK, Opened, Ended
  <2>4. Current \in Seq(Line)
    BY DEF AloneInv, IInv, TypeOK, Current
  <2> QED BY <2>1, <2>2, <2>3, <2>4
<1>3. /\ out' = [out EXCEPT ![q] = result.out]
      /\ pc' = [pc EXCEPT ![q] = IF result.ok THEN "rename" ELSE "exit"]
      /\ UNCHANGED <<store, lock, content, holder, inodes, cmd, from, fd, runs>>
  BY <1>2 DEF Edit, GoTo, Current, files
<1>4. out'[q] = result.out /\ pc'[q] = IF result.ok THEN "rename" ELSE "exit"
  BY <1>3 DEF AloneInv, IInv, TypeOK
<1>5. result.out \in Seq(Line)
  BY <1>2, EditedType
<1>6. ~result.ok => Abstract!Refused(c)
  <2> SUFFICES ASSUME ~result.ok PROVE Abstract!Refused(c)
    OBVIOUS
  <2>1. \/ c.delete /\ Abstract!At(Current, c.id) = {}
        \/ Abstract!Malformed(Current) \/ Abstract!Unreadable(Current)
        \/ Abstract!Duplicate(Current)
    BY <1>2, EditedRefuses
  <2>2. CASE store = None
    <3>1. Current = <<>> /\ 1..Len(<<>>) = {}
      BY <2>2 DEF Current
    <3>2. /\ ~Abstract!Malformed(Current) /\ ~Abstract!Unreadable(Current)
          /\ ~Abstract!Duplicate(Current)
      BY <3>1 DEF Abstract!Malformed, Abstract!Unreadable, Abstract!Duplicate, Abstract!At
    <3> QED BY <1>2, <2>1, <2>2, <3>2 DEF Abstract!Refused
  <2>3. CASE store # None
    <3>1. StoreLines = Current /\ StoreLines # None
      BY <1>2, <2>3, Shown DEF IsShown, Current
    <3> QED BY <2>1, <3>1 DEF Abstract!Refused
  <2> QED BY <2>2, <2>3
<1> HIDE DEF result
<1>7. NamesAreKept'
  BY <1>1, <1>2, <1>3, <1>4 DEF NamesAreKept, AloneInv
<1>8. FilesAreKept'
  <2>1. Written(content[fd[q]], result.out)
    <3>1. content[fd[q]] \in Seq(Line)
      BY <1>2 DEF AloneInv, IInv, TypeOK
    <3>2. Written(content[fd[q]], <<>>)
      BY <1>2, NoneAssumption DEF AloneInv, FilesAreKept
    <3> QED BY <1>5, <3>1, <3>2, NothingWritten
  <2> QED BY <1>1, <1>2, <1>3, <1>4, <2>1 DEF AloneInv, FilesAreKept
<1>9. StoreLines' = StoreLines
  BY <1>1, <1>2, <1>3, <1>4 DEF StoreLines
<1>10. Current' = Current
  BY <1>3 DEF Current
<1>11. ResultIsKept'
  <2>1. ~result.ok => Abstract!Refused(c)'
    BY <1>3, <1>6, <1>9, SameLinesRefuse
  <2>2. Edited(Current, c)' = result
    BY <1>3, <1>10 DEF result
  <2> QED BY <1>1, <1>3, <1>4, <2>1, <2>2 DEF ResultIsKept
<1>12. AloneInv'
  BY <1>7, <1>8, <1>11 DEF AloneInv
<1> QED BY <1>2, <1>3, <1>4, <1>12, NothingShown DEF Ended

LEMMA AloneRemoveLock ==
    ASSUME Alone, AloneInv, NEW q \in Proc, RemoveLock, IInv'
    PROVE  AloneInv' /\ UNCHANGED Abstract!vars
<1> USE DEF RemoveLock, process
<1>1. Proc = {q}
  BY OnlyOne
<1>2. pc[q] \in Ended
  OBVIOUS
<1>3. NamesAreKept' /\ ResultIsKept'
  BY <1>1, <1>2 DEF NamesAreKept, ResultIsKept, Ended
<1>4. FilesAreKept'
  BY DEF AloneInv, FilesAreKept
<1>5. AloneInv'
  BY <1>3, <1>4 DEF AloneInv
<1> QED BY <1>2, <1>5, NothingShown DEF Ended

LEMMA AloneSpill ==
    ASSUME Alone, AloneInv, NEW q \in Proc, Spill(q), IInv'
    PROVE  AloneInv' /\ UNCHANGED Abstract!vars
<1> USE DEF process
<1>1. Proc = {q} /\ TheProcess = q
  BY OnlyOne
<1>2. PICK k \in 1..Len(out[q]) :
        content' = [content EXCEPT ![fd[q]] = Overwrite(@, SubSeq(out[q], 1, k))]
  BY DEF Spill, Write
<1>3. /\ pc[q] \in {"rename", "close", "exit"}
      /\ UNCHANGED <<store, lock, holder, inodes, pc, cmd, from, fd, out, runs>>
  BY DEF Spill
<1>4. fd[q] \in Inode /\ fd[q] # None /\ out[q] \in Seq(Line)
  BY <1>2, NoneAssumption DEF AloneInv, IInv, LockedToWrite, TypeOK
<1>5. /\ content'[fd[q]] = Overwrite(content[fd[q]], SubSeq(out[q], 1, k))
      /\ \A n \in Inode : n # fd[q] => content'[n] = content[n]
  BY <1>2, <1>4 DEF AloneInv, IInv, TypeOK
<1>6. Written(content'[fd[q]], out[q])
  <2>1. content[fd[q]] \in Seq(Line)
    BY <1>4 DEF AloneInv, IInv, TypeOK
  <2>2. Written(content[fd[q]], out[q])
    BY <1>4 DEF AloneInv, FilesAreKept
  <2> QED BY <1>4, <1>5, <2>1, <2>2, PartOverwritten
<1>7. FilesAreKept'
  <2>1. fd[q] \in 1..inodes /\ inodes \in Nat
    BY <1>4 DEF AloneInv, FilesAreKept, IInv, TypeOK
  <2>2. \A n \in Inode : n > inodes => n # fd[q]
    BY <2>1 DEF Inode
  <2> QED BY <1>1, <1>3, <1>5, <1>6, <2>2 DEF AloneInv, FilesAreKept
<1>8. NamesAreKept'
  BY <1>3 DEF NamesAreKept, AloneInv
<1>9. CASE pc[q] = "close"
  <2>1. ResultIsKept'
    BY <1>1, <1>3, <1>9 DEF ResultIsKept
  <2>2. AloneInv'
    BY <1>7, <1>8, <2>1 DEF AloneInv
  <2>3. StoreLines = out[q] /\ StoreLines' = out'[q]
    BY <1>3, <1>9, <2>2, Shown, ShownNext DEF IsShown
  <2> QED BY <1>1, <1>3, <2>2, <2>3 DEF Abstract!vars
<1>10. CASE pc[q] # "close"
  <2>1. store # None => store # fd[q] /\ store \in Inode
    <3>1. lock = fd[q]
      BY <1>3, <1>4, <1>10 DEF AloneInv, NamesAreKept
    <3> QED BY <1>4, <3>1 DEF AloneInv, IInv, LockFileIsFresh, TypeOK
  <2>2. store # None => content'[store] = content[store]
    BY <1>5, <2>1
  <2>3. Current' = Current /\ StoreLines' = StoreLines
    BY <1>1, <1>3, <1>10, <2>2 DEF Current, StoreLines
  <2>4. ResultIsKept'
    <3>1. Edited(Current, cmd[q])' = Edited(Current, cmd[q])
      BY <1>3, <2>3
    <3>2. Abstract!Refused(cmd[q]) => Abstract!Refused(cmd[q])'
      BY <1>3, <2>3, SameLinesRefuse
    <3> QED BY <1>1, <1>3, <3>1, <3>2 DEF AloneInv, ResultIsKept
  <2>5. AloneInv'
    BY <1>7, <1>8, <2>4 DEF AloneInv
  <2> QED BY <1>3, <1>10, <2>2, <2>5, NothingShown
<1> QED BY <1>9, <1>10

(* The rename is where the store changes. *)
LEMMA AloneRename ==
    ASSUME Alone, Exact, AloneInv, NEW q \in Proc, Rename(q), IInv'
    PROVE  AloneInv' /\ (Abstract!Commit \/ Abstract!Misread)
<1> USE DEF Rename, GoTo
<1> DEFINE c == cmd[q]
<1>1. Proc = {q} /\ TheProcess = q
  BY OnlyOne
<1>2. /\ pc[q] = "rename" /\ pc'[q] = "close"
      /\ fd[q] \in Inode /\ fd[q] # None /\ lock = fd[q] /\ c \in Command
  BY NoneAssumption DEF AloneInv, NamesAreKept, IInv, TypeOK, Opened, Ended
<1>3. (c.create <=> store = None)
  BY <1>2 DEF AloneInv, NamesAreKept
<1>4. /\ Edited(Current, c).ok /\ out[q] = Edited(Current, c).out
      /\ Current \in Seq(Line)
  BY <1>2 DEF AloneInv, ResultIsKept, IInv, TypeOK, Current
<1>5. store' = fd[q] /\ lock' = None
  BY <1>2
<1>6. NamesAreKept'
  BY <1>1, <1>2, <1>5 DEF NamesAreKept
<1>7. FilesAreKept'
  BY <1>1, <1>2 DEF AloneInv, FilesAreKept
<1>8. ResultIsKept'
  BY <1>1, <1>2 DEF ResultIsKept
<1>9. AloneInv'
  BY <1>6, <1>7, <1>8 DEF AloneInv
<1>10. StoreLines' = Edited(Current, c).out
  BY <1>2, <1>4, <1>5, <1>9, ShownNext DEF IsShown
<1>11. /\ (StoreLines = None <=> store = None)
       /\ Current = IF StoreLines = None THEN <<>> ELSE StoreLines
  BY <1>2, Shown DEF IsShown, Current
<1>12. Promised(Current, c, StoreLines') \/ Damaged(Current, c, StoreLines')
  BY <1>2, <1>4, <1>10, EditedCommits
<1> DEFINE status == IF pc[q] \in Abstract!Ended THEN pc[q]
                     ELSE IF pc[q] = "close" THEN "committed" ELSE "running"
           old == IF StoreLines = None THEN <<>> ELSE StoreLines
<1>13. /\ status = "running" /\ status' = "committed"
       /\ UNCHANGED c /\ old = Current
       /\ c.create <=> StoreLines = None
  BY <1>2, <1>3, <1>11 DEF Abstract!Ended
<1> HIDE DEF status, old, c, Rename
<1>14. CASE Promised(Current, c, StoreLines')
  <2>1. Promised(old, c, StoreLines')
    BY <1>13, <1>14
  <2>2. Abstract!Commit
    BY ZenonT(60), <1>1, <1>13, <2>1
    DEF Abstract!Commit, Promised, status, old, c, Ended, Abstract!Ended
  <2> QED BY <1>9, <2>2
<1>15. CASE Damaged(Current, c, StoreLines')
  <2>1. StoreLines # None /\ Damaged(StoreLines, c, StoreLines')
    BY <1>11, <1>15 DEF Damaged
  <2>2. ~c.create
    BY <1>13, <2>1
  <2>3. Abstract!Misread
    BY ZenonT(60), <1>1, <1>13, <2>1, <2>2
    DEF Abstract!Misread, Damaged, status, c, Ended, Abstract!Ended
  <2> QED BY <1>9, <2>3
<1> QED BY <1>12, <1>14, <1>15

(* The end of the only process leaves nothing of it behind. *)
LEMMA AloneEnd ==
    ASSUME Alone, AloneInv, NEW q \in Proc, NEW how \in {"done", "failed", "killed"},
           End(q, how), IInv',
           \A n \in Inode : n > inodes => content'[n] = content[n]
    PROVE  /\ AloneInv' /\ pc'[q] = how /\ cmd'[q] = None
           /\ StoreLines' = IF store = None THEN None ELSE content'[store]
<1> USE DEF End, GoTo
<1>1. Proc = {q}
  BY OnlyOne
<1>2. pc'[q] = how /\ cmd'[q] = None /\ fd'[q] = None /\ out'[q] = <<>>
  BY DEF AloneInv, IInv, TypeOK
<1>3. \A n \in Inode : holder'[n] = None
  BY <1>1, NoneAssumption DEF AloneInv, IInv, TypeOK
<1>4. NamesAreKept' /\ ResultIsKept'
  BY <1>1, <1>2 DEF NamesAreKept, ResultIsKept
<1>5. FilesAreKept'
  BY <1>1, <1>2, <1>3 DEF AloneInv, FilesAreKept
<1>6. AloneInv'
  BY <1>4, <1>5 DEF AloneInv
<1>7. StoreLines' = IF store' = None THEN None ELSE content'[store']
  BY <1>1, <1>2 DEF StoreLines
<1> QED BY <1>2, <1>6, <1>7

(* What a process writes at its end reaches the file it has open. *)
LEMMA LastWrite ==
    ASSUME AloneInv, NEW q \in Proc, fd[q] \in Inode, Write(q, out[q])
    PROVE  /\ content'[fd[q]] = out[q]
           /\ \A n \in Inode : n # fd[q] => content'[n] = content[n]
           /\ \A n \in Inode : n > inodes => content'[n] = content[n]
<1>1. fd[q] # None
  BY NoneAssumption
<1>2. content[fd[q]] \in Seq(Line) /\ out[q] \in Seq(Line)
  BY DEF AloneInv, IInv, TypeOK
<1>3. Overwrite(content[fd[q]], out[q]) = out[q]
  BY <1>1, <1>2, AllOverwritten DEF AloneInv, FilesAreKept, Written
<1>4. /\ content'[fd[q]] = out[q]
      /\ \A n \in Inode : n # fd[q] => content'[n] = content[n]
  BY <1>3 DEF Write, AloneInv, IInv, TypeOK
<1>5. fd[q] \in 1..inodes /\ inodes \in Nat
  BY <1>1 DEF AloneInv, FilesAreKept, IInv, TypeOK
<1>6. \A n \in Inode : n > inodes => n # fd[q]
  BY <1>5 DEF Inode
<1> QED BY <1>4, <1>6

LEMMA AloneClose ==
    ASSUME Alone, AloneInv, NEW q \in Proc, Close(q), IInv'
    PROVE  AloneInv' /\ Abstract!Finish
<1>1. TheProcess = q
  BY OnlyOne
<1>2. pc[q] = "close" /\ Write(q, out[q]) /\ End(q, "done")
  BY DEF Close
<1>3. fd[q] \in Inode /\ store = fd[q] /\ store # None
  BY <1>2, NoneAssumption DEF AloneInv, NamesAreKept, IInv, Opened
<1>4. content'[store] = out[q]
  BY <1>2, <1>3, LastWrite
<1>5. AloneInv' /\ pc'[q] = "done" /\ cmd'[q] = None /\ StoreLines' = content'[store]
  BY <1>2, <1>3, LastWrite, AloneEnd
<1>6. StoreLines = out[q]
  BY <1>2, <1>3, Shown DEF IsShown
<1> QED BY <1>1, <1>2, <1>4, <1>5, <1>6 DEF Abstract!Finish, Ended

LEMMA AloneExit ==
    ASSUME Alone, AloneInv, NEW q \in Proc, Exit(q), IInv'
    PROVE  AloneInv' /\ Abstract!Fail
<1>1. TheProcess = q
  BY OnlyOne
<1>2. pc[q] = "exit" /\ End(q, "failed")
  BY DEF Exit
<1>3. /\ \A n \in Inode : n > inodes => content'[n] = content[n]
      /\ store # None => content'[store] = content[store]
  <2>1. CASE out[q] # <<>>
    <3>1. fd[q] \in Inode /\ fd[q] # None
      BY <2>1, NoneAssumption DEF AloneInv, IInv, LockedToWrite
    <3>2. lock = fd[q]
      BY <1>2, <3>1 DEF AloneInv, NamesAreKept
    <3>3. store # None => store # fd[q] /\ store \in Inode
      BY <3>1, <3>2 DEF AloneInv, IInv, LockFileIsFresh, TypeOK
    <3>4. Write(q, out[q])
      BY <2>1 DEF Exit
    <3> QED BY <3>1, <3>3, <3>4, LastWrite
  <2>2. CASE out[q] = <<>>
    BY <2>2 DEF Exit
  <2> QED BY <2>1, <2>2
<1>4. /\ AloneInv' /\ pc'[q] = "failed" /\ cmd'[q] = None
      /\ StoreLines' = IF store = None THEN None ELSE content'[store]
  BY <1>2, <1>3, AloneEnd
<1>5. StoreLines' = StoreLines
  BY <1>2, <1>3, <1>4, Shown DEF IsShown
<1>6. Abstract!Refused(cmd[q]) \/ ~cmd[q].delete
  BY <1>2 DEF AloneInv, ResultIsKept
<1> QED BY <1>1, <1>2, <1>4, <1>5, <1>6 DEF Abstract!Fail, Ended

LEMMA AloneCrash ==
    ASSUME Alone, AloneInv, NEW q \in Proc, Crash(q), IInv'
    PROVE  AloneInv' /\ Abstract!Kill
<1>1. TheProcess = q
  BY OnlyOne
<1>2. pc[q] \notin Ended /\ End(q, "killed") /\ content' = content
  BY DEF Crash
<1>3. /\ AloneInv' /\ pc'[q] = "killed" /\ cmd'[q] = None
      /\ StoreLines' = IF store = None THEN None ELSE content[store]
  BY <1>2, AloneEnd
<1>4. CASE pc[q] # "close"
  <2>1. StoreLines' = StoreLines
    BY <1>3, <1>4, Shown DEF IsShown
  <2> QED BY <1>1, <1>2, <1>3, <1>4, <2>1 DEF Abstract!Kill, Ended
<1>5. CASE pc[q] = "close"
  <2>1. fd[q] \in Inode /\ fd[q] # None /\ store = fd[q]
    BY <1>5, NoneAssumption DEF AloneInv, NamesAreKept, IInv, Opened
  <2>2. content[store] \in Seq(Line) /\ out[q] \in Seq(Line) /\ Written(content[store], out[q])
    BY <2>1 DEF AloneInv, FilesAreKept, IInv, TypeOK
  <2>3. StoreLines = out[q] /\ StoreLines' = content[store]
    BY <1>3, <1>5, <2>1, Shown DEF IsShown
  <2>4. Abstract!IsPrefix(content[store], out[q])
    <3>1. SubSeq(content[store], 1, Len(content[store])) = content[store]
      BY <2>2
    <3> QED BY <2>2, <3>1 DEF Written, Abstract!IsPrefix
  <2>5. StoreLines' # None
    BY <2>2, <2>3, NoneAssumption
  <2> QED BY <1>1, <1>2, <1>3, <1>5, <2>3, <2>4, <2>5 DEF Abstract!Kill, Ended
<1> QED BY <1>4, <1>5

LEMMA AloneStep ==
    ASSUME Alone, Exact
    PROVE  AloneInv /\ [Next]_vars => AloneInv' /\ [Abstract!Next]_(Abstract!vars)
<1> SUFFICES ASSUME AloneInv, [Next]_vars
             PROVE  AloneInv' /\ [Abstract!Next]_(Abstract!vars)
  OBVIOUS
<1> USE DEF Abstract!Next
<1>1. IInv'
  BY StepInvariant DEF AloneInv
<1>2. PICK q : q \in Proc
  BY DEF Alone
<1>3. CASE RemoveLock
  BY <1>1, <1>2, <1>3, AloneRemoveLock
<1>4. CASE \E r \in Proc : Begin(r) \/ Step(r) \/ Spill(r) \/ Crash(r)
  <2>1. PICK r \in Proc : Begin(r) \/ Step(r) \/ Spill(r) \/ Crash(r)
    BY <1>4
  <2>2. CASE Begin(r)
    BY <1>1, <2>2, AloneBegin
  <2>3. CASE Spill(r)
    BY <1>1, <2>3, AloneSpill
  <2>4. CASE Crash(r)
    BY <1>1, <2>4, AloneCrash
  <2>5. CASE Step(r)
    <3>1. CASE OpenStore(r) \/ OpenLock(r) \/ Lock(r) \/ PromptFails(r) \/ Edit(r)
      BY <1>1, <3>1, AloneOpenStore, AloneOpenLock, AloneLock, AlonePromptFails, AloneEdit
    <3>2. CASE Rename(r) \/ Close(r) \/ Exit(r)
      BY <1>1, <3>2, AloneRename, AloneClose, AloneExit
    <3> QED BY <2>5, <3>1, <3>2 DEF Step
  <2> QED BY <2>1, <2>2, <2>3, <2>4, <2>5
<1>5. CASE UNCHANGED vars
  <2>1. StoreLines' = StoreLines /\ Current' = Current
    BY <1>5 DEF vars, files, process, StoreLines, Current
  <2>2. \A c : Abstract!Refused(c) => Abstract!Refused(c)'
    BY <2>1, SameLinesRefuse
  <2>3. NamesAreKept' /\ FilesAreKept'
    BY <1>5 DEF vars, files, process, AloneInv, NamesAreKept, FilesAreKept
  <2>4. ResultIsKept'
    BY <1>5, <2>1, <2>2 DEF vars, files, process, AloneInv, ResultIsKept
  <2>5. UNCHANGED Abstract!vars
    BY <1>5, <2>1 DEF vars, process, Abstract!vars
  <2> QED BY <1>1, <2>3, <2>4, <2>5 DEF AloneInv
<1> QED BY <1>3, <1>4, <1>5 DEF Next

(* With one process at a time, leftovers removed and identities compared    *)
(* exactly, an edit of the store is one atomic step: the rename.  Nothing   *)
(* else shows, whatever stdio writes early and wherever a run is killed.    *)
(* What the step does is what the man page says, for every store but one    *)
(* that begins with an indented record, whose damage is bounded.            *)
THEOREM EditsAreAtomic == ASSUME Alone, Exact PROVE Spec => ImplementsAtomicStore
<1>1. Init => AloneInv /\ Abstract!Init
  BY AloneInit
<1>2. AloneInv /\ [Next]_vars => AloneInv' /\ [Abstract!Next]_(Abstract!vars)
  BY AloneStep
<1> QED BY <1>1, <1>2, PTL DEF Spec, ImplementsAtomicStore, Abstract!Spec
=============================================================================
