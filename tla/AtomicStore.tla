----------------------------- MODULE AtomicStore -----------------------------
(***************************************************************************)
(* What the man pages of pfstore and aespasswd promise of one run at a     *)
(* time (doc/pfstore.man, doc/aespasswd.man): the store changes in one     *)
(* step.  A run that ends well leaves one record of its identity, or none  *)
(* if it deletes, and every other line as and where it was, but for blanks *)
(* before comments and in blank lines.  A run that fails leaves the store  *)
(* alone, and has a reason.                                                *)
(*                                                                         *)
(* Two things are not promised.  A kill after the new store has its name   *)
(* loses what had not been written to it (Kill).  And the edit of a store  *)
(* whose first line is an indented record ends well with that record       *)
(* damaged, or with everything but the new record gone (Misread).          *)
(***************************************************************************)
EXTENDS Integers, SequencesExt

CONSTANTS Id, Pass, NoPass, Comment, Broken, Blank, None

VARIABLES
    lines,    \* the lines of the store, None when there is none
    status,   \* of the run
    command   \* of the run

vars == <<lines, status, command>>

Ended == {"idle", "done", "failed", "killed"}

(* The records of an identity. *)
At(s, id) == {j \in 1..Len(s) : s[j].id = id}

Record(c) == [id |-> c.id, pf |-> c.pf, indent |-> FALSE]

(* A line that is neither a record with a pass-phrase nor a comment nor     *)
(* blank: "Leading spaces are only allowed in comment lines" (conf.c:316).  *)
IsText(l) == l.id \notin {Comment, Blank}
Indented(s, j) == IsText(s[j]) /\ s[j].indent
Malformed(s) == \E j \in 1..Len(s) :
    IsText(s[j]) /\ (s[j].id = Broken \/ s[j].pf = NoPass \/ s[j].indent)
Duplicate(s) == \E i \in Id : \E j, l \in At(s, i) : j # l

(* A record after a comment that is indented, or after comments that follow *)
(* such a comment.  The man page allows it (pfstore.man:62).                *)
AfterIndented(s, j) ==
    /\ IsText(s[j])
    /\ \E i \in 1..(j - 1) : s[i].indent /\ \A k \in i..(j - 1) : s[k].id = Comment
Unreadable(s) == \E j \in 1..Len(s) : Indented(s, j) \/ AfterIndented(s, j)

(* The same lines, but for blanks before comments and in blank lines. *)
Alike(s, t) ==
    /\ Len(s) = Len(t)
    /\ \A j \in 1..Len(s) :
         /\ s[j].id = t[j].id /\ s[j].pf = t[j].pf
         /\ IsText(s[j]) => s[j].indent = t[j].indent

Refused(c) ==
    \/ c.create <=> lines # None
    \/ c.delete /\ (c.create \/ At(lines, c.id) = {})
    \/ /\ lines # None
       /\ Malformed(lines) \/ Unreadable(lines) \/ Duplicate(lines)

Init == status = "idle" /\ command = None

Begin ==
    /\ status \in Ended
    /\ status' = "running"
    /\ command' \in [delete : BOOLEAN, create : BOOLEAN,
                     id : Id, pf : Pass \cup {NoPass}]
    /\ UNCHANGED lines

(* The record is taken out or replaced where it is; a new one comes last.   *)
Commit ==
    LET c == command
        old == IF lines = None THEN <<>> ELSE lines
    IN  /\ status = "running"
        /\ c.create <=> lines = None
        /\ ~Unreadable(old)
        /\ status' = "committed"
        /\ \/ \E j \in At(old, c.id) :
                /\ At(old, c.id) = {j}
                /\ Alike(lines', IF c.delete THEN RemoveAt(old, j)
                                 ELSE ReplaceAt(old, j, Record(c)))
           \/ /\ ~c.delete /\ At(old, c.id) = {}
              /\ Alike(lines', Append(old, Record(c)))
        /\ UNCHANGED command

(* The new record goes first, the indented one loses its first character.   *)
(* If it had no other, the rest of the store is lost.                       *)
Misread ==
    LET c == command
    IN  /\ status = "running"
        /\ ~c.create /\ ~c.delete
        /\ lines # None /\ lines # <<>> /\ Indented(lines, 1)
        /\ status' = "committed"
        /\ \/ lines' = <<Record(c)>>
           \/ /\ Len(lines') = Len(lines) + 1
              /\ lines'[1] = Record(c)
              /\ lines'[2].pf = lines[1].pf
              /\ Alike(Tail(Tail(lines')), Tail(lines))
        /\ UNCHANGED command

(* Without a reason in the store or the command line, a run that asks for   *)
(* a pass-phrase fails only when it gets none.                              *)
Fail ==
    /\ status = "running"
    /\ Refused(command) \/ ~command.delete
    /\ status' = "failed" /\ command' = None
    /\ UNCHANGED lines

Finish ==
    /\ status = "committed"
    /\ status' = "done" /\ command' = None
    /\ UNCHANGED lines

Kill ==
    /\ \/ status = "running" /\ UNCHANGED lines
       \/ status = "committed" /\ lines' # None /\ IsPrefix(lines', lines)
    /\ status' = "killed" /\ command' = None

Next == Begin \/ Commit \/ Misread \/ Fail \/ Finish \/ Kill

Spec == Init /\ [][Next]_vars
=============================================================================
