------------------------------- MODULE ErrLog -------------------------------
(***************************************************************************)
(* Error logging (I2util/ErrLog.c).  I2ErrLog and its relatives are macros *)
(* of two calls: I2ErrLocation_ takes the library's mutex and records      *)
(* where the caller is; the arguments of the second call are evaluated;    *)
(* then I2ErrLogVT hands the event to the client's log function and        *)
(* releases the mutex.  The same mutex is held around the client's         *)
(* retrieval function by I2ErrGetMsg and I2ErrRep.                         *)
(*                                                                         *)
(* The library is built with threads or without (I2util/Pthread.h): then   *)
(* the mutex is nothing at all.  A client without threads may log from     *)
(* its log function; one with threads would wait for itself.               *)
(***************************************************************************)
EXTENDS Integers, FiniteSets, SequencesExt

CONSTANTS
    Thread,
    Handle,      \* error handles
    NULL,        \* no handle, no thread, no function
    Location,    \* places in the source that log
    Code,        \* error codes
    Garbage,     \* what malloc() leaves in a field nobody sets
    Build,       \* the builds looked at: "threads", "plain"
    NestsIn,     \* the builds whose clients log from their log function
    NoneIn,      \* the builds whose clients log at level I2LOG_NONE
    ResetsUnset, \* whether clients reset handles without a reset function
    MaxCalls,    \* bound: logging and retrieving calls made
    MaxDepth     \* bound: calls nested in a thread

ASSUME NullAssumption == NULL \notin Thread \cup Handle
ASSUME BuildAssumption ==
    /\ Build \subseteq {"threads", "plain"}
    /\ NestsIn \subseteq Build /\ NoneIn \subseteq Build
    /\ ResetsUnset \in BOOLEAN
ASSUME BoundAssumption == MaxCalls \in Nat /\ MaxDepth \in Nat \ {0}

VARIABLES
    build,       \* how the library was compiled
    mutex,       \* MyMutex: the thread that holds it
    location,    \* errorFile, errorLine and errorDate
    code,        \* of every handle: the error code of its last event
    reset_func,  \* of every handle, NULL when it is not open
    inReset,     \* the handle whose reset function runs, or NULL
    stack,       \* of every thread: the calls it is in, innermost last
    calls

handles == <<code, reset_func, inReset>>
vars == <<build, mutex, location, handles, stack, calls>>

At == {"locate", "arguments", "log_func", "retrieve", "retrieve_func"}
Frame == [at : At, eh : Handle \cup {NULL}, level : {"some", "none"},
          code : Code, here : Location, event : Location \cup {NULL}]
ResetFunc == {"closed", "set", "null", Garbage}

TypeOK ==
    /\ build \in Build
    /\ mutex \in Thread \cup {NULL}
    /\ location \in Location \cup {NULL}
    /\ code \in [Handle -> Code \cup {0}]
    /\ reset_func \in [Handle -> ResetFunc]
    /\ inReset \in Handle \cup {NULL}
    /\ stack \in [Thread -> Seq(Frame)]
    /\ calls \in 0..MaxCalls

Init ==
    /\ build \in Build
    /\ mutex = NULL
    /\ location = NULL
    /\ code = [h \in Handle |-> 0]
    /\ reset_func = [h \in Handle |-> "closed"]
    /\ inReset = NULL
    /\ stack = [q \in Thread |-> <<>>]
    /\ calls = 0

IsAt(q, at) == stack[q] # <<>> /\ Last(stack[q]).at = at
Top(q) == Last(stack[q])
Push(q, frame) == stack' = [stack EXCEPT ![q] = Append(@, frame)]
Replace(q, frame) == stack' = [stack EXCEPT ![q] = Append(Front(@), frame)]
Return(q) == stack' = [stack EXCEPT ![q] = Front(@)]

(* In use: a handle some call has been given. *)
InUse(h) == \E q \in Thread : \E j \in DOMAIN stack[q] : stack[q][j].eh = h
-----------------------------------------------------------------------------
(* The mutex, which threads alone have.  Its owner waits for itself. *)
I2ThreadMutexLock(q) ==
    \/ build = "threads" /\ mutex = NULL /\ mutex' = q
    \/ build = "plain" /\ UNCHANGED mutex

I2ThreadMutexUnlock(q) ==
    mutex' = IF build = "threads" /\ mutex = q THEN NULL ELSE mutex
-----------------------------------------------------------------------------
(* The life of a handle.  Clients with threads see to it that nobody uses   *)
(* a handle while it is reset or closed.                                    *)

(* Mutant: the error code is left as malloc() gave it. *)
I2ErrOpen_NoCode(h) ==
    /\ reset_func[h] = "closed"
    /\ reset_func' = [reset_func EXCEPT ![h] = Garbage]
    /\ code' = [code EXCEPT ![h] = Garbage]
    /\ UNCHANGED <<build, mutex, location, inReset, stack, calls>>

I2ErrOpen(h) ==
    /\ reset_func[h] = "closed"
    /\ reset_func' = [reset_func EXCEPT ![h] = Garbage]
    /\ code' = [code EXCEPT ![h] = 0]
    /\ UNCHANGED <<build, mutex, location, inReset, stack, calls>>

Idle(h) == reset_func[h] # "closed" /\ inReset # h /\ ~InUse(h)

I2ErrSetResetFunc(h) ==
    /\ Idle(h)
    /\ \E f \in {"set", "null"} : reset_func' = [reset_func EXCEPT ![h] = f]
    /\ UNCHANGED <<build, mutex, location, code, inReset, stack, calls>>

(* Without a reset function there is nothing to do. *)
I2ErrReset(h) ==
    /\ Idle(h) /\ inReset = NULL
    /\ reset_func[h] # "null"
    /\ reset_func[h] = Garbage => ResetsUnset
    /\ inReset' = h
    /\ UNCHANGED <<build, mutex, location, code, reset_func, stack, calls>>

(* A reset function that fails closes the handle. *)
ResetFuncReturns(h) ==
    /\ inReset = h
    /\ inReset' = NULL
    /\ \/ UNCHANGED reset_func
       \/ reset_func' = [reset_func EXCEPT ![h] = "closed"]
    /\ UNCHANGED <<build, mutex, location, code, stack, calls>>

I2ErrClose(h) ==
    /\ Idle(h)
    /\ reset_func' = [reset_func EXCEPT ![h] = "closed"]
    /\ UNCHANGED <<build, mutex, location, code, inReset, stack, calls>>
-----------------------------------------------------------------------------
(* A thread calls the library: from its own code or from a log function.    *)
(* Without threads there is one.                                            *)
Calls(q) ==
    /\ calls < MaxCalls
    /\ calls' = calls + 1
    /\ \/ stack[q] = <<>>
       \/ IsAt(q, "log_func") /\ build \in NestsIn /\ Len(stack[q]) < MaxDepth
    /\ build = "plain" => \A r \in Thread : r = q \/ stack[r] = <<>>

OpenHandles == {h \in Handle : reset_func[h] # "closed" /\ inReset # h}

I2ErrLog(q) ==
    /\ Calls(q)
    /\ \E h \in OpenHandles \cup {NULL}, here \in Location, c \in Code,
          level \in {"some"} \cup (IF build \in NoneIn THEN {"none"} ELSE {}) :
         Push(q, [at |-> "locate", eh |-> h, level |-> level,
                  code |-> c, here |-> here, event |-> NULL])
    /\ UNCHANGED <<build, mutex, location, handles>>

(* Mutant: the location is recorded before the mutex is taken. *)
I2ErrLocation_NoLock(q) ==
    /\ IsAt(q, "locate")
    /\ location' = Top(q).here
    /\ Replace(q, [Top(q) EXCEPT !.at = "arguments"])
    /\ UNCHANGED <<build, mutex, handles, calls>>

I2ErrLocation_(q) ==
    /\ IsAt(q, "locate")
    /\ I2ThreadMutexLock(q)
    /\ location' = Top(q).here
    /\ Replace(q, [Top(q) EXCEPT !.at = "arguments"])
    /\ UNCHANGED <<build, handles, calls>>

(* I2ErrLogVT at level I2LOG_NONE returns before anything else. *)
LogNothing(q) ==
    /\ IsAt(q, "arguments")
    /\ Top(q).level = "none"
    /\ Return(q)
    /\ UNCHANGED <<build, mutex, location, handles, calls>>

(* I2ErrLogVT without a handle writes to stderr. *)
LogToStderr(q) ==
    /\ IsAt(q, "arguments")
    /\ Top(q).level # "none"
    /\ Top(q).eh = NULL
    /\ I2ThreadMutexUnlock(q)
    /\ Return(q)
    /\ UNCHANGED <<build, location, handles, calls>>

(* I2ErrLogVT fills in the event and calls the log function. *)
LogEvent(q) ==
    /\ IsAt(q, "arguments")
    /\ Top(q).level # "none"
    /\ Top(q).eh # NULL
    /\ code' = [code EXCEPT ![Top(q).eh] = Top(q).code]
    /\ Replace(q, [Top(q) EXCEPT !.at = "log_func", !.event = location])
    /\ UNCHANGED <<build, mutex, location, reset_func, inReset, calls>>

(* Mutant: the mutex is not released. *)
LogFuncReturns_KeepsMutex(q) ==
    /\ IsAt(q, "log_func")
    /\ Return(q)
    /\ UNCHANGED <<build, mutex, location, handles, calls>>

LogFuncReturns(q) ==
    /\ IsAt(q, "log_func")
    /\ I2ThreadMutexUnlock(q)
    /\ Return(q)
    /\ UNCHANGED <<build, location, handles, calls>>
-----------------------------------------------------------------------------
(* I2ErrGetMsg and I2ErrRep; the latter returns at once without a handle.   *)
I2ErrGetMsg(q) ==
    /\ Calls(q)
    /\ \E h \in OpenHandles, here \in Location, c \in Code :
         Push(q, [at |-> "retrieve", eh |-> h, level |-> "some",
                  code |-> c, here |-> here, event |-> NULL])
    /\ UNCHANGED <<build, mutex, location, handles>>

(* Mutant: the retrieval function is called without the mutex. *)
RetrieveMsg_NoLock(q) ==
    /\ IsAt(q, "retrieve")
    /\ Replace(q, [Top(q) EXCEPT !.at = "retrieve_func"])
    /\ UNCHANGED <<build, mutex, location, handles, calls>>

RetrieveMsg(q) ==
    /\ IsAt(q, "retrieve")
    /\ I2ThreadMutexLock(q)
    /\ Replace(q, [Top(q) EXCEPT !.at = "retrieve_func"])
    /\ UNCHANGED <<build, location, handles, calls>>

RetrieveFuncReturns(q) ==
    /\ IsAt(q, "retrieve_func")
    /\ I2ThreadMutexUnlock(q)
    /\ Return(q)
    /\ UNCHANGED <<build, location, handles, calls>>

Step(q) ==
    \/ I2ErrLocation_(q) \/ LogNothing(q) \/ LogToStderr(q) \/ LogEvent(q)
    \/ LogFuncReturns(q) \/ RetrieveMsg(q) \/ RetrieveFuncReturns(q)

Next ==
    \/ \E h \in Handle :
         I2ErrOpen(h) \/ I2ErrSetResetFunc(h) \/ I2ErrReset(h)
         \/ ResetFuncReturns(h) \/ I2ErrClose(h)
    \/ \E q \in Thread : I2ErrLog(q) \/ I2ErrGetMsg(q) \/ Step(q)

Spec == Init /\ [][Next]_vars

(* Threads run on, and log and retrieval functions return. *)
FairSpec == Spec /\ \A q \in Thread : WF_vars(Step(q))
-----------------------------------------------------------------------------
(*                              Properties                                 *)

ClientCode == {"log_func", "retrieve_func"}

(* The event a log function is given carries the place of the very call     *)
(* that made it, although the place went through a variable all threads     *)
(* and nested calls share.                                                  *)
EventHasItsLocation ==
    \A q \in Thread : \A j \in DOMAIN stack[q] :
        stack[q][j].at = "log_func" => stack[q][j].event = stack[q][j].here

(* The client's functions need no lock of their own: log and retrieval      *)
(* functions, which share the handle's data, never run in two threads.      *)
ClientCodeSerialised ==
    \A q, r \in Thread :
        (\E j \in DOMAIN stack[q] : stack[q][j].at \in ClientCode)
        /\ (\E j \in DOMAIN stack[r] : stack[r][j].at \in ClientCode)
        => q = r

(* Every logging and retrieving call returns. *)
CallsReturn == \A q \in Thread : stack[q] # <<>> ~> stack[q] = <<>>

(* ErrLog.c:623: the variables are "locked until unlocked by                *)
(* I2ErrLogFunction() or I2ErrLogPFunction()": a thread that is in no call  *)
(* does not hold the mutex.                                                 *)
MutexHeldInCalls == \A q \in Thread : mutex = q => stack[q] # <<>>

(* ErrLog.c:377: I2ErrReset calls the reset function "If there is a         *)
(* reset_func assigned to the ErrHandle", and nothing else.                 *)
ResetCallsAssigned == inReset # NULL => reset_func[inReset] = "set"
=============================================================================
