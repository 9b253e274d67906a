------------------------------ MODULE StoreEdit ------------------------------
(***************************************************************************)
(* Editing a pass-phrase store with pfstore (pfstore/pfstore.c).  A run    *)
(* copies the store line by line to a lock file in the same directory,     *)
(* leaving out the record of one identity and writing its new one, and     *)
(* renames the lock file to the store.  aespasswd edits its key file by    *)
(* the same steps (aespasswd/aespasswd.c), with a parser of its own.       *)
(*                                                                         *)
(* Several processes may run at once, any of them may be killed between    *)
(* two system calls, and what stdio has buffered is then lost.  A file is  *)
(* a sequence of lines, all of one length: bytes are overwritten line by   *)
(* line; it is small enough to be read at once.  The library's parsers are *)
(* modelled in so far as they decide which lines are copied and which stop *)
(* a run (I2ParsePFFile and I2ParseKeyFile in I2util/conf.c).              *)
(***************************************************************************)
EXTENDS Integers, FiniteSets, SequencesExt

CONSTANTS
    Proc,        \* the processes, each of which runs pfstore again and again
    KeyFile,     \* TRUE: aespasswd and its key file; FALSE: pfstore
    Id, Pass,    \* identities and pass-phrases (or keys)
    NoPass,      \* the empty pass-phrase: a record without a hex field
    Comment,     \* the "identity" of a comment line
    Broken,      \* the "identity" of a line without separator
    Blank,       \* the "identity" of a blank line
    Behead,      \* an identity without its first character, Blank if it is one
    Related,     \* pairs of identities of which one is a prefix of the other
    Stores,      \* what the store may hold at first: contents, or None
    None,
    MaxInode,    \* bound: files ever created; MaxRuns + 1 is no restriction
    MaxRuns,     \* bound: runs ever started
    MayCrash,    \* whether processes may be killed
    TidyUp       \* whether a lock file that is left over is removed by hand
                 \* before the next run

Line == [id : Id \cup {Comment, Broken, Blank}, pf : Pass \cup {NoPass},
         indent : BOOLEAN]
Command == [delete : BOOLEAN, create : BOOLEAN, id : Id, pf : Pass \cup {NoPass}]
Inode == 1..MaxInode

ASSUME RelatedAssumption == Related \subseteq Id \X Id
ASSUME StoresAssumption == \A s \in Stores : s = None \/ s \in Seq(Line)
ASSUME NoneAssumption ==
    None \notin Proc \cup Inode \cup Command /\ None \notin Seq(Line)
ASSUME IdAssumption ==
    /\ Comment \notin Id /\ Broken \notin Id /\ Blank \notin Id
    /\ Comment # Broken /\ Comment # Blank /\ Broken # Blank
ASSUME BeheadAssumption ==
    Behead \in [Id \cup {Broken} -> Id \cup {Comment, Broken, Blank}]
ASSUME BoundAssumption ==
    /\ MaxInode \in Nat \ {0} /\ MaxRuns \in Nat
    /\ MayCrash \in BOOLEAN /\ TidyUp \in BOOLEAN /\ KeyFile \in BOOLEAN

VARIABLES
    store, lock,   \* the two names of the directory: an inode, or None
    content,       \* the lines of every file
    holder,        \* the process that holds the write lock on a file
    inodes,        \* files created so far
    pc, cmd,       \* where a process is, and its command line
    from, fd,      \* its two open files: the store, the lock file
    out,           \* the lines it has written to the lock file's FILE
    runs

files == <<store, lock, content, holder, inodes>>
process == <<pc, cmd, from, fd, out>>
vars == <<files, process, runs>>

Ended == {"idle", "done", "failed", "killed"}
Pc == Ended \cup {"open", "openlock", "lock", "edit", "rename", "close", "exit"}

TypeOK ==
    /\ store \in Inode \cup {None} /\ lock \in Inode \cup {None}
    /\ content \in [Inode -> Seq(Line)]
    /\ holder \in [Inode -> Proc \cup {None}]
    /\ inodes \in 0..MaxInode
    /\ pc \in [Proc -> Pc]
    /\ cmd \in [Proc -> Command \cup {None}]
    /\ from \in [Proc -> Inode \cup {None}]
    /\ fd \in [Proc -> Inode \cup {None}]
    /\ out \in [Proc -> Seq(Line)]
    /\ runs \in 0..MaxRuns

Init ==
    /\ \E first \in Stores :
         \/ /\ first = None
            /\ store = None /\ inodes = 0
            /\ content = [n \in Inode |-> <<>>]
         \/ /\ first # None
            /\ store = 1 /\ inodes = 1
            /\ content = [n \in Inode |-> IF n = 1 THEN first ELSE <<>>]
    /\ lock = None
    /\ holder = [n \in Inode |-> None]
    /\ pc = [q \in Proc |-> "idle"]
    /\ cmd = [q \in Proc |-> None]
    /\ from = [q \in Proc |-> None]
    /\ fd = [q \in Proc |-> None]
    /\ out = [q \in Proc |-> <<>>]
    /\ runs = 0

GoTo(q, label) == pc' = [pc EXCEPT ![q] = label]
-----------------------------------------------------------------------------
(* The lines an edit writes. *)

(* pfstore compares identities over the length of the shorter one.          *)
Matches(id, sought) ==
    \/ id = sought
    \/ ~KeyFile /\ (<<id, sought>> \in Related \/ <<sought, id>> \in Related)

(* A record without a hex field is an error of the line for aespasswd,      *)
(* which validates all of them, and for pfstore in a record that matches;   *)
(* a line without separator is one for both.                                *)
Invalid(line) == line.pf = NoPass

Text(line) == line.id \notin {Comment, Blank}

(* parsefileline() has counted blanks when it gets to line j: its own, or   *)
(* those of a comment before it, which only a blank line or the end of a    *)
(* record forgets.                                                          *)
Spaced(lines, j) ==
    \E i \in 1..j : lines[i].indent /\ \A k \in i..(j - 1) : lines[k].id = Comment

(* The line the parser does not copy, although it is no comment.            *)
Stops(lines, j, sought) ==
    /\ Text(lines[j])
    /\ \/ Spaced(lines, j)
       \/ Matches(lines[j].id, sought)
       \/ lines[j].id = Broken
       \/ KeyFile /\ Invalid(lines[j])

(* The first line from position start on that stops the parser, 0 for none. *)
ParseFrom(lines, start, sought) ==
    LET stops == {j \in start..Len(lines) : Stops(lines, j, sought)}
    IN  IF stops = {} THEN 0 ELSE CHOOSE j \in stops : \A l \in stops : j <= l

(* The lines as they are copied: the blanks counted go before comments.     *)
Copied(lines) ==
    [j \in 1..Len(lines) |->
        [lines[j] EXCEPT !.indent = lines[j].id = Comment /\ Spaced(lines, j)]]

(* The copied lines up to the one that stopped the parser. *)
Upto(lines, stop) == SubSeq(Copied(lines), 1, IF stop = 0 THEN Len(lines) ELSE stop - 1)

(* Mutant: the two arguments swapped. *)
NewRecord_Swapped(c) == [id |-> c.pf, pf |-> c.id, indent |-> FALSE]

NewRecord(c) == [id |-> c.id, pf |-> c.pf, indent |-> FALSE]

(* What is left of an indented line when its first character has been read: *)
(* of an identity of one character, its hex field after a separator.        *)
Remainder(line) ==
    IF Behead[line.id] = Blank /\ line.id # Broken /\ ~Invalid(line)
    THEN [id |-> Broken, pf |-> line.pf, indent |-> TRUE]
    ELSE [id |-> Behead[line.id], pf |-> line.pf, indent |-> FALSE]

(* Blanks before a record are the error -rc, and rc is 0 in the first row:  *)
(* taken for the end of the file.  There is nothing to delete then; a new   *)
(* record is written, and the second pass starts in the middle of the row,  *)
(* where blanks end the file once more.                                     *)
Misread(lines, c) ==
    LET rest == <<Remainder(lines[1])>> \o Tail(lines)
        n == ParseFrom(rest, 1, c.id)
    IN  IF c.delete THEN [ok |-> FALSE, out |-> <<>>]
        ELSE [ok |-> n = 0 \/ (n = 1 /\ Spaced(rest, 1)),
              out |-> <<NewRecord(c)>> \o Upto(rest, n)]

(* Mutant: the second pass is forgotten. *)
Edited_OnePass(lines, c) ==
    LET m == ParseFrom(lines, 1, c.id)
    IN  [ok |-> c.delete => m # 0,
         out |-> Upto(lines, m) \o IF c.delete THEN <<>> ELSE <<NewRecord(c)>>]

(* The two passes over the store: lines written, and whether the run may    *)
(* commit.  The record that stops the first pass is the one replaced; it    *)
(* must be valid, and no line may stop the second pass.                     *)
Edited(lines, c) ==
    LET m == ParseFrom(lines, 1, c.id)
        n == ParseFrom(lines, m + 1, c.id)
        new == IF c.delete THEN <<>> ELSE <<NewRecord(c)>>
    IN  CASE m = 0 ->
               [ok |-> ~c.delete, out |-> Upto(lines, m) \o new]
          [] m = 1 /\ Spaced(lines, m) ->
               Misread(lines, c)
          [] m > 1 /\ Spaced(lines, m) ->
               [ok |-> FALSE, out |-> Upto(lines, m)]
          [] m # 0 /\ ~Spaced(lines, m)
                   /\ (lines[m].id = Broken \/ Invalid(lines[m])) ->
               [ok |-> FALSE, out |-> Upto(lines, m)]
          [] OTHER ->
               [ok |-> n = 0,
                out |-> Upto(lines, m) \o new
                        \o SubSeq(Copied(lines), m + 1,
                                  IF n = 0 THEN Len(lines) ELSE n - 1)]

(* Writing from the start of a file that is not truncated. *)
Overwrite(old, new) == new \o SubSeq(old, Len(new) + 1, Len(old))
-----------------------------------------------------------------------------
(* main(), one action per system call that another process can see. *)

(* By hand: a lock file nobody uses is removed. *)
RemoveLock ==
    /\ lock # None
    /\ \A q \in Proc : pc[q] \in Ended
    /\ lock' = None
    /\ UNCHANGED <<store, content, holder, inodes, process, runs>>

Begin(q) ==
    /\ pc[q] \in Ended
    /\ runs < MaxRuns
    /\ TidyUp => lock = None
    /\ runs' = runs + 1
    /\ \E c \in Command :
         /\ c.delete => c.pf = NoPass
         /\ KeyFile /\ ~c.delete => c.pf # NoPass   \* the hash of anything is a key
         /\ cmd' = [cmd EXCEPT ![q] = c]
    /\ GoTo(q, "open")
    /\ UNCHANGED <<files, from, fd, out>>

(* fopen(pffname, "r+"); -n wants no store, anything else wants one. *)
OpenStore(q) ==
    /\ pc[q] = "open"
    /\ from' = [from EXCEPT ![q] = store]
    /\ GoTo(q, IF cmd[q].create <=> store = None THEN "openlock" ELSE "exit")
    /\ UNCHANGED <<files, cmd, fd, out, runs>>

(* Mutant: O_TRUNC, before the lock is held. *)
OpenLock_Truncates(q) ==
    /\ pc[q] = "openlock"
    /\ \/ /\ lock # None
          /\ fd' = [fd EXCEPT ![q] = lock]
          /\ content' = [content EXCEPT ![lock] = <<>>]
          /\ UNCHANGED <<lock, inodes>>
       \/ /\ lock = None
          /\ inodes < MaxInode
          /\ inodes' = inodes + 1
          /\ lock' = inodes + 1
          /\ fd' = [fd EXCEPT ![q] = inodes + 1]
          /\ UNCHANGED content
    /\ GoTo(q, "lock")
    /\ UNCHANGED <<store, holder, cmd, from, out, runs>>

(* open(lockfname, O_RDWR|O_CREAT): an existing file keeps its content. *)
OpenLock(q) ==
    /\ pc[q] = "openlock"
    /\ \/ /\ lock # None
          /\ fd' = [fd EXCEPT ![q] = lock]
          /\ UNCHANGED <<lock, inodes>>
       \/ /\ lock = None
          /\ inodes < MaxInode
          /\ inodes' = inodes + 1
          /\ lock' = inodes + 1
          /\ fd' = [fd EXCEPT ![q] = inodes + 1]
    /\ GoTo(q, "lock")
    /\ UNCHANGED <<store, content, holder, cmd, from, out, runs>>

(* fcntl(F_SETLK) does not wait: the loser gives up. *)
Lock(q) ==
    /\ pc[q] = "lock"
    /\ \/ /\ holder[fd[q]] = None
          /\ holder' = [holder EXCEPT ![fd[q]] = q]
          /\ GoTo(q, "edit")
       \/ /\ holder[fd[q]] # None
          /\ GoTo(q, "exit")
          /\ UNCHANGED holder
    /\ UNCHANGED <<store, lock, content, inodes, cmd, from, fd, out, runs>>

(* No pass-phrase could be read from the terminal. *)
PromptFails(q) ==
    /\ pc[q] = "edit"
    /\ ~cmd[q].delete
    /\ GoTo(q, "exit")
    /\ UNCHANGED <<files, cmd, from, fd, out, runs>>

(* Both passes, from the file opened before the lock was taken. *)
Edit(q) ==
    LET lines == IF from[q] = None THEN <<>> ELSE content[from[q]]
        result == Edited(lines, cmd[q])
    IN  /\ pc[q] = "edit"
        /\ out' = [out EXCEPT ![q] = result.out]
        /\ GoTo(q, IF result.ok THEN "rename" ELSE "exit")
        /\ UNCHANGED <<files, cmd, from, fd, runs>>

Write(q, lines) == content' = [content EXCEPT ![fd[q]] = Overwrite(@, lines)]

(* stdio writes out what its buffer cannot hold, at any time. *)
Spill(q) ==
    /\ pc[q] \in {"rename", "close", "exit"}
    /\ \E k \in 1..Len(out[q]) : Write(q, SubSeq(out[q], 1, k))
    /\ UNCHANGED <<store, lock, holder, inodes, process, runs>>

(* Mutant: the lock file keeps its name. *)
Rename_Links(q) ==
    /\ pc[q] = "rename"
    /\ store' = IF lock # None THEN lock ELSE store
    /\ GoTo(q, "close")
    /\ UNCHANGED <<lock, content, holder, inodes, cmd, from, fd, out, runs>>

(* Mutant: the old store is unlinked first. *)
Rename_Unlinks(q) ==
    /\ pc[q] = "rename"
    /\ store' = lock
    /\ lock' = None
    /\ GoTo(q, "close")
    /\ UNCHANGED <<content, holder, inodes, cmd, from, fd, out, runs>>

(* Mutant: tried again until it succeeds. *)
Rename_Retries(q) ==
    /\ pc[q] = "rename"
    /\ lock # None
    /\ store' = lock
    /\ lock' = None
    /\ GoTo(q, "close")
    /\ UNCHANGED <<content, holder, inodes, cmd, from, fd, out, runs>>

(* rename(lockfname, pffname), whose result nobody looks at: it moves the   *)
(* file that has the name now, if there is one.                             *)
Rename(q) ==
    /\ pc[q] = "rename"
    /\ store' = IF lock # None THEN lock ELSE store
    /\ lock' = None
    /\ GoTo(q, "close")
    /\ UNCHANGED <<content, holder, inodes, cmd, from, fd, out, runs>>

(* The process is gone, and its lock and its memory with it. *)
End(q, how) ==
    /\ GoTo(q, how)
    /\ holder' = [n \in Inode |-> IF holder[n] = q THEN None ELSE holder[n]]
    /\ cmd' = [cmd EXCEPT ![q] = None]
    /\ from' = [from EXCEPT ![q] = None]
    /\ fd' = [fd EXCEPT ![q] = None]
    /\ out' = [out EXCEPT ![q] = <<>>]
    /\ UNCHANGED <<store, lock, inodes, runs>>

(* fclose(tofp) writes the buffer and drops the lock; then exit(0). *)
Close(q) ==
    /\ pc[q] = "close"
    /\ Write(q, out[q])
    /\ End(q, "done")

(* exit(1) writes the buffer of the lock file too, if it was opened. *)
Exit(q) ==
    /\ pc[q] = "exit"
    /\ IF out[q] # <<>> THEN Write(q, out[q]) ELSE UNCHANGED content
    /\ End(q, "failed")

Crash(q) ==
    /\ MayCrash
    /\ pc[q] \notin Ended
    /\ End(q, "killed")
    /\ UNCHANGED content

Step(q) ==
    \/ OpenStore(q) \/ OpenLock(q) \/ Lock(q) \/ PromptFails(q) \/ Edit(q)
    \/ Rename(q) \/ Close(q) \/ Exit(q)

Next ==
    \/ RemoveLock
    \/ \E q \in Proc : Begin(q) \/ Step(q) \/ Spill(q) \/ Crash(q)

Spec == Init /\ [][Next]_vars

(* A process that runs goes on; the prompt is answered or given up. *)
FairSpec == Spec /\ \A q \in Proc : WF_vars(Step(q))
-----------------------------------------------------------------------------
(* What the directory shows, and what is wanted of it. *)

(* The lines of the store once its last writer has written its buffer.      *)
StoreLines ==
    LET writers == {q \in Proc : pc[q] = "close" /\ fd[q] = store}
    IN  IF store = None THEN None
        ELSE IF writers = {} THEN content[store]
        ELSE Overwrite(content[store], out[CHOOSE q \in writers : TRUE])

TheProcess == CHOOSE q \in Proc : TRUE

(* Refinement: with one process at a time, and left-over lock files         *)
(* removed, an edit of the store is one atomic step, the rename.            *)
Abstract == INSTANCE AtomicStore WITH
    lines <- StoreLines,
    status <- IF pc[TheProcess] \in Ended THEN pc[TheProcess]
              ELSE IF pc[TheProcess] = "close" THEN "committed"
              ELSE "running",
    command <- cmd[TheProcess]

ImplementsAtomicStore == Abstract!Spec

(* A file changes only by what the process that holds its lock has to write *)
(* to it: whoever opens the lock file without getting the lock leaves it    *)
(* alone.                                                                   *)
WritersHoldTheLock ==
    [][\A n \in Inode : content'[n] # content[n] =>
           \E q \in Proc :
             /\ fd[q] = n /\ holder[n] = q
             /\ \E k \in 1..Len(out[q]) :
                  content'[n] = Overwrite(content[n], SubSeq(out[q], 1, k))]_vars

(* No run ever reads the file it writes, whatever others rename meanwhile:  *)
(* the store it opened is not, and never becomes, its lock file.            *)
NoSelfCopy ==
    \A q \in Proc : from[q] # None => from[q] # fd[q] /\ from[q] # lock

(* Once there is a store there always is one: no crash and no failed run    *)
(* takes the name away.                                                     *)
StorePersists == [][store # None => store' # None]_vars

(* Every run ends: whoever does not get the lock does not wait for it.      *)
EveryRunEnds == \A q \in Proc : pc[q] \notin Ended ~> pc[q] \in Ended
-----------------------------------------------------------------------------
(* What the documentation says and the code does not do in every case. *)

(* pfstore.c:255: "All records that don't match idquery will be copied":    *)
(* committing a run leaves the other lines of the store as they were.       *)
OthersKept ==
    [][\A q \in Proc :
         /\ pc[q] = "rename" /\ pc'[q] = "close" /\ store # None
         => LET other(s) == SelectSeq(s, LAMBDA l : l.id # cmd[q].id)
            IN  other(StoreLines') = other(StoreLines)]_vars

(* pfstore.man:78: a run with -d "Deletes the identity testuser from the    *)
(* pfsfile": no record of it is left when the run ends well.                *)
DeletedIsGone ==
    [][\A q \in Proc :
         pc[q] = "close" /\ pc'[q] = "done" /\ cmd[q].delete
         => \A j \in 1..Len(content'[store]) :
                content'[store][j].id # cmd[q].id]_vars

(* pfstore.man:73: with -n, "If the file already exists, an error message   *)
(* will be printed and no action will be taken".                            *)
CreateFindsNoStore ==
    [][\A q \in Proc :
         pc[q] = "rename" /\ pc'[q] = "close" /\ cmd[q].create
         => store = None]_vars
=============================================================================
