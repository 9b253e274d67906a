------------------------------- MODULE KeyMap -------------------------------
(***************************************************************************)
(* What the hash table of I2util promises its callers (I2util/table.h):    *)
(* a map from keys to values, whose iteration hands every key that is in   *)
(* the map when its turn comes to the callback, once, in some order, until *)
(* the callback returns false; deleting is the one change a callback may   *)
(* make.  Storing a new key may fail for want of memory; replacing the     *)
(* value of a key that is present may not.                                 *)
(***************************************************************************)
EXTENDS Integers, FiniteSets

CONSTANTS Key, Value, NULL

VARIABLES
    map,        \* the value of every key, NULL where there is none
    phase,      \* what the table is doing
    unvisited,  \* keys the running iteration has yet to hand out
    ret         \* the last result handed to the caller or the callback

vars == <<map, phase, unvisited, ret>>

Empty == [k \in Key |-> NULL]
Present == {k \in Key : map[k] # NULL}
Result(call, out) == [call |-> call, out |-> out]

Init ==
    /\ map = Empty
    /\ phase = "closed"
    /\ unvisited = {}
    /\ ret = Result("none", NULL)

Calling == phase \in {"idle", "callback"}

Open ==
    /\ phase = "closed"
    /\ \/ phase' = "idle" /\ ret' = Result("I2HashInit", 0)
       \/ phase' = "closed" /\ ret' = Result("I2HashInit", NULL)
    /\ UNCHANGED <<map, unvisited>>

Close ==
    /\ phase = "idle"
    /\ phase' = "closed"
    /\ map' = Empty
    /\ ret' = Result("I2HashClose", NULL)
    /\ UNCHANGED unvisited

Store(k, v) ==
    /\ phase = "idle"
    /\ \/ map' = [map EXCEPT ![k] = v] /\ ret' = Result("I2HashStore", 0)
       \/ k \notin Present /\ UNCHANGED map /\ ret' = Result("I2HashStore", -1)
    /\ UNCHANGED <<phase, unvisited>>

Fetch(k) ==
    /\ Calling
    /\ ret' = Result("I2HashFetch", map[k])
    /\ UNCHANGED <<map, phase, unvisited>>

Delete(k) ==
    /\ Calling
    /\ map' = [map EXCEPT ![k] = NULL]
    /\ unvisited' = unvisited \ {k}
    /\ ret' = Result("I2HashDelete", IF k \in Present THEN 0 ELSE -1)
    /\ UNCHANGED phase

NumEntries ==
    /\ Calling
    /\ ret' = Result("I2HashNumEntries", Cardinality(Present))
    /\ UNCHANGED <<map, phase, unvisited>>

Iterate ==
    /\ phase = "idle"
    /\ phase' = "visiting"
    /\ unvisited' = Present
    /\ ret' = Result("I2HashIterate", NULL)
    /\ UNCHANGED map

Visit ==
    /\ phase = "visiting"
    /\ \E k \in unvisited :
         /\ unvisited' = unvisited \ {k}
         /\ ret' = Result("ifunc", k)
    /\ phase' = "callback"
    /\ UNCHANGED map

CallbackReturns ==
    /\ phase = "callback"
    /\ \/ phase' = "visiting" /\ UNCHANGED unvisited
       \/ phase' = "leaving" /\ unvisited' = {}
    /\ UNCHANGED <<map, ret>>

AllVisited ==
    /\ phase = "visiting"
    /\ unvisited = {}
    /\ phase' = "leaving"
    /\ UNCHANGED <<map, unvisited, ret>>

Clean ==
    /\ phase = "idle"
    /\ phase' = "leaving"
    /\ map' = Empty
    /\ ret' = Result("I2HashClean", NULL)
    /\ UNCHANGED unvisited

Leave ==
    /\ phase = "leaving"
    /\ phase' = "idle"
    /\ UNCHANGED <<map, unvisited, ret>>

Next ==
    \/ Open \/ Close
    \/ \E k \in Key, v \in Value : Store(k, v)
    \/ \E k \in Key : Fetch(k) \/ Delete(k)
    \/ NumEntries
    \/ Iterate \/ Visit \/ CallbackReturns \/ AllVisited
    \/ Clean \/ Leave

Spec == Init /\ [][Next]_vars
=============================================================================
