--------------------------- MODULE ErrLog_proofs ---------------------------
(***************************************************************************)
(* Proofs about error logging: what the mutex that is taken by one         *)
(* function and released by another guarantees, for any number of threads, *)
(* handles and nested calls, in both builds.                               *)
(***************************************************************************)
EXTENDS ErrLog, TLAPS

(* The frames of a thread after a step of its innermost call. *)
LEMMA FrontFacts ==
    ASSUME NEW S, NEW s \in Seq(S), s # <<>>
    PROVE  /\ Front(s) \in Seq(S)
           /\ Len(Front(s)) = Len(s) - 1
           /\ \A j \in 1..(Len(s) - 1) : Front(s)[j] = s[j]
           /\ Last(s) = s[Len(s)] /\ Last(s) \in S
           /\ Len(s) \in Nat \ {0}
<1>1. Len(s) \in Nat \ {0}
  OBVIOUS
<1>2. Last(s) = s[Len(s)] /\ Last(s) \in S
  BY <1>1 DEF Last
<1> DEFINE n == Len(s) - 1
<1>3. n \in Nat /\ n <= Len(s)
  BY <1>1
<1>4. Front(s) = SubSeq(s, 1, n)
  BY DEF Front
<1> HIDE DEF n
<1>5. SubSeq(s, 1, n) \in Seq(S) /\ Len(SubSeq(s, 1, n)) = n
      /\ \A j \in 1..n : SubSeq(s, 1, n)[j] = s[j]
  BY <1>1, <1>3
<1>6. Front(s) \in Seq(S) /\ Len(Front(s)) = n /\ \A j \in 1..n : Front(s)[j] = s[j]
  BY <1>4, <1>5
<1> QED BY <1>1, <1>2, <1>6 DEF n

LEMMA ReplaceTop ==
    ASSUME NEW S, NEW s \in Seq(S), s # <<>>, NEW f \in S
    PROVE  /\ Append(Front(s), f) \in Seq(S)
           /\ Len(Append(Front(s), f)) = Len(s)
           /\ \A j \in 1..(Len(s) - 1) : Append(Front(s), f)[j] = s[j]
           /\ Append(Front(s), f)[Len(s)] = f
  BY FrontFacts

LEMMA PushTop ==
    ASSUME NEW S, NEW s \in Seq(S), NEW f \in S
    PROVE  /\ Append(s, f) \in Seq(S)
           /\ Len(Append(s, f)) = Len(s) + 1
           /\ \A j \in 1..Len(s) : Append(s, f)[j] = s[j]
           /\ Append(s, f)[Len(s) + 1] = f
  OBVIOUS
-----------------------------------------------------------------------------
(* The calls between I2ErrLocation_ and the end: those that hold the mutex, *)
(* in a build that has one.                                                 *)
Inside == {"arguments"} \cup ClientCode

(* Only a log function can have calls nested in it; where there is a mutex, *)
(* such a call is still waiting for it.                                     *)
Nesting ==
    \A q \in Thread :
      /\ \A j \in 1..(Len(stack[q]) - 1) : stack[q][j].at = "log_func"
      /\ build = "threads" /\ Len(stack[q]) > 1 =>
           stack[q][Len(stack[q])].at \in {"locate", "retrieve"}

(* Who is inside holds the mutex, and without threads there is one thread.  *)
Holding ==
    /\ build = "threads" =>
         \A q \in Thread : \A j \in 1..Len(stack[q]) :
             stack[q][j].at \in Inside => mutex = q
    /\ build = "plain" =>
         \A q, r \in Thread : stack[q] # <<>> /\ stack[r] # <<>> => q = r

(* Until the event is made the shared location is the caller's own, then    *)
(* the event is.                                                            *)
Located ==
    \A q \in Thread : \A j \in 1..Len(stack[q]) :
      /\ stack[q][j].at = "arguments" => location = stack[q][j].here
      /\ stack[q][j].at = "log_func" => stack[q][j].event = stack[q][j].here

IInv == TypeOK /\ Nesting /\ Holding /\ Located

LEMMA InitInvariant == Init => IInv
<1> SUFFICES ASSUME Init PROVE IInv
  OBVIOUS
<1> USE DEF Init
<1>1. TypeOK
  BY BoundAssumption DEF TypeOK, ResetFunc
<1>2. Nesting /\ Holding /\ Located
  BY DEF Nesting, Holding, Located
<1> QED BY <1>1, <1>2 DEF IInv

(* What the invariant says of two threads that are both inside. *)
LEMMA OneInside ==
    ASSUME IInv, NEW q \in Thread, NEW r \in Thread,
           NEW j \in 1..Len(stack[q]), NEW l \in 1..Len(stack[r]),
           stack[q][j].at \in Inside, stack[r][l].at \in Inside
    PROVE  q = r
<1>1. CASE build = "threads"
  BY <1>1 DEF IInv, Holding
<1>2. CASE build = "plain"
  BY <1>2 DEF IInv, Holding
<1> QED BY <1>1, <1>2, BuildAssumption DEF IInv, TypeOK
-----------------------------------------------------------------------------
(* A new call on top of a thread's calls, none or a log function's. *)
LEMMA PushStep ==
    ASSUME IInv, NEW q \in Thread, NEW f \in Frame, Calls(q), Push(q, f),
           f.at \in {"locate", "retrieve"},
           UNCHANGED <<build, mutex, location, handles>>
    PROVE  IInv'
<1> DEFINE s == stack[q]
           t == Append(s, f)
<1>1. /\ stack' = [stack EXCEPT ![q] = t] /\ s \in Seq(Frame)
      /\ s = <<>> \/ s[Len(s)].at = "log_func"
      /\ calls' \in 0..MaxCalls
  BY BoundAssumption DEF Push, Calls, IInv, TypeOK, IsAt, Last
<1>2. /\ t \in Seq(Frame) /\ Len(t) = Len(s) + 1 /\ Len(s) \in Nat
      /\ \A j \in 1..Len(s) : t[j] = s[j]
      /\ t[Len(t)] = f
  BY <1>1, PushTop
<1>3. /\ stack'[q] = t
      /\ \A r \in Thread : r # q => stack'[r] = stack[r]
      /\ stack' \in [Thread -> Seq(Frame)]
  BY <1>1, <1>2 DEF IInv, TypeOK
<1> HIDE DEF t
<1>4. TypeOK'
  BY <1>1, <1>3 DEF IInv, TypeOK, handles
<1>5. Nesting'
  BY <1>1, <1>2, <1>3 DEF IInv, Nesting
<1>6. Holding'
  <2>1. build = "plain" => \A r \in Thread : r = q \/ stack[r] = <<>>
    BY DEF Calls
  <2> QED BY <1>1, <1>2, <1>3, <2>1 DEF IInv, Holding, Inside, ClientCode
<1>7. Located'
  BY <1>1, <1>2, <1>3 DEF IInv, Located
<1> QED BY <1>4, <1>5, <1>6, <1>7 DEF IInv

(* The innermost call goes on: from waiting for the mutex to inside, or     *)
(* from its arguments to the log function.                                  *)
LEMMA ReplaceStep ==
    ASSUME IInv, NEW q \in Thread, stack[q] # <<>>, NEW f \in Frame, Replace(q, f),
           UNCHANGED <<build, handles, calls>> \/ UNCHANGED <<build, reset_func, inReset, calls>>,
           code' \in [Handle -> Code \cup {0}],
           \/ /\ Top(q).at \in {"locate", "retrieve"}
              /\ I2ThreadMutexLock(q)
              /\ f.at \in {"arguments", "retrieve_func"}
              /\ \/ f.at = "arguments" /\ location' = f.here /\ f.here \in Location
                 \/ f.at = "retrieve_func" /\ UNCHANGED location
           \/ /\ Top(q).at = "arguments"
              /\ UNCHANGED <<mutex, location>>
              /\ f.at = "log_func" /\ f.event = f.here
    PROVE  IInv'
<1> DEFINE s == stack[q]
           t == Append(Front(s), f)
           n == Len(s)
<1>1. /\ stack' = [stack EXCEPT ![q] = t] /\ s \in Seq(Frame)
      /\ n \in Nat \ {0} /\ Top(q) = s[n]
  BY FrontFacts DEF Replace, IInv, TypeOK, Top
<1>2. /\ t \in Seq(Frame) /\ Len(t) = n
      /\ \A j \in 1..(n - 1) : t[j] = s[j]
      /\ t[n] = f
  BY <1>1, ReplaceTop
<1>3. /\ stack'[q] = t
      /\ \A r \in Thread : r # q => stack'[r] = stack[r]
      /\ stack' \in [Thread -> Seq(Frame)]
  BY <1>1, <1>2 DEF IInv, TypeOK
<1>4. build' = build
  OBVIOUS
<1>5. \A j \in 1..(n - 1) : s[j].at = "log_func"
  BY <1>1 DEF IInv, Nesting
<1>6. build = "threads" => mutex' = q /\ (mutex = NULL \/ mutex = q)
  BY <1>1, <1>2 DEF I2ThreadMutexLock, IInv, Holding, Inside
<1>7. build = "threads" => n = 1
  <2>1. CASE Top(q).at \in {"locate", "retrieve"}
    <3> SUFFICES ASSUME build = "threads", n # 1 PROVE FALSE
      OBVIOUS
    <3>1. mutex = NULL
      BY <2>1, NullAssumption DEF I2ThreadMutexLock
    <3> HIDE DEF n
    <3>2. 1 \in 1..(n - 1) /\ 1 \in 1..n
      BY <1>1
    <3> USE DEF n
    <3>4. s[1].at = "log_func"
      BY <1>5, <3>2
    <3>3. mutex = q
      BY <3>2, <3>4 DEF IInv, Holding, Inside, ClientCode
    <3> QED BY <3>1, <3>3, NullAssumption
  <2>2. CASE Top(q).at = "arguments"
    <3> SUFFICES ASSUME build = "threads" PROVE n = 1
      OBVIOUS
    <3>1. ~(n > 1)
      BY <1>1, <2>2 DEF IInv, Nesting
    <3>2. n \in Nat \ {0}
      BY <1>1
    <3> HIDE DEF n
    <3> QED BY <3>1, <3>2
  <2> QED BY <2>1, <2>2
<1> HIDE DEF t, n, s
<1>8. \A r \in Thread : r # q =>
        \A j \in 1..Len(stack[r]) :
            build = "threads" => stack[r][j].at \notin Inside
  BY <1>6, NullAssumption DEF IInv, Holding
<1>9. \A r \in Thread : r # q /\ build = "plain" => stack[r] = <<>>
  BY <1>1 DEF IInv, Holding, s
<1>10. TypeOK'
  BY <1>3, <1>6 DEF IInv, TypeOK, handles, I2ThreadMutexLock
<1>11. Nesting'
  BY <1>1, <1>2, <1>3, <1>4, <1>5, <1>7 DEF IInv, Nesting
<1>12. Holding'
  BY <1>3, <1>4, <1>6, <1>8, <1>9 DEF IInv, Holding
<1>13. Located'
  <2> SUFFICES ASSUME NEW r \in Thread, NEW j \in 1..Len(stack'[r])
               PROVE  /\ stack'[r][j].at = "arguments" => location' = stack'[r][j].here
                      /\ stack'[r][j].at = "log_func" =>
                           stack'[r][j].event = stack'[r][j].here
    BY DEF Located
  <2>1. CASE r # q
    <3>1. stack'[r] = stack[r] /\ j \in 1..Len(stack[r])
      BY <1>3, <2>1
    <3>2. stack[r][j].at \notin Inside
      <4>1. stack[r] # <<>>
        BY <3>1
      <4> QED BY <1>8, <1>9, <2>1, <3>1, <4>1, BuildAssumption DEF IInv, TypeOK
    <3> QED BY <3>1, <3>2 DEF IInv, Located, Inside, ClientCode
  <2>2. CASE r = q /\ j # n
    <3>1. j \in 1..(n - 1) /\ stack'[r][j] = s[j] /\ j \in 1..n
      BY <1>1, <1>2, <1>3, <2>2
    <3>2. s[j].at = "log_func"
      BY <1>5, <3>1
    <3> QED BY <3>1, <3>2 DEF IInv, Located, s, n
  <2>3. CASE r = q /\ j = n
    <3>1. stack'[r][j] = f
      BY <1>2, <1>3, <2>3
    <3> QED BY <3>1
  <2> QED BY <2>1, <2>2, <2>3
<1> QED BY <1>10, <1>11, <1>12, <1>13 DEF IInv

(* The innermost call returns, releasing the mutex or, at level NONE, not.  *)
LEMMA ReturnStep ==
    ASSUME IInv, NEW q \in Thread, stack[q] # <<>>, Return(q),
           Top(q).at \in Inside,
           UNCHANGED mutex \/ I2ThreadMutexUnlock(q),
           UNCHANGED <<build, location, handles, calls>>
    PROVE  IInv'
<1> DEFINE s == stack[q]
           t == Front(s)
           n == Len(s)
<1>1. /\ stack' = [stack EXCEPT ![q] = t] /\ s \in Seq(Frame)
      /\ n \in Nat \ {0} /\ Top(q) = s[n]
      /\ t \in Seq(Frame) /\ Len(t) = n - 1
      /\ \A j \in 1..(n - 1) : t[j] = s[j]
  BY FrontFacts DEF Return, IInv, TypeOK, Top
<1>2. /\ stack'[q] = t
      /\ \A r \in Thread : r # q => stack'[r] = stack[r]
      /\ stack' \in [Thread -> Seq(Frame)]
  BY <1>1 DEF IInv, TypeOK
<1>3. build = "threads" => n = 1 /\ mutex = q
  <2> SUFFICES ASSUME build = "threads" PROVE n = 1 /\ mutex = q
    OBVIOUS
  <2>1. ~(n > 1)
    BY <1>1 DEF IInv, Nesting, Inside, ClientCode
  <2>2. mutex = q
    BY <1>1 DEF IInv, Holding
  <2>3. n \in Nat \ {0}
    BY <1>1
  <2> HIDE DEF n
  <2> QED BY <2>1, <2>2, <2>3
<1> HIDE DEF t, n, s
<1>4. \A r \in Thread : r # q =>
        \A j \in 1..Len(stack[r]) :
            build = "threads" => stack[r][j].at \notin Inside
  BY <1>3 DEF IInv, Holding
<1>5. TypeOK'
  BY <1>2 DEF IInv, TypeOK, handles, I2ThreadMutexUnlock
<1>6. Nesting'
  <2> SUFFICES ASSUME NEW r \in Thread
               PROVE  /\ \A j \in 1..(Len(stack'[r]) - 1) : stack'[r][j].at = "log_func"
                      /\ build' = "threads" /\ Len(stack'[r]) > 1 =>
                           stack'[r][Len(stack'[r])].at \in {"locate", "retrieve"}
    BY DEF Nesting
  <2>1. CASE r # q
    <3>1. stack'[r] = stack[r] /\ build' = build
      BY <1>2, <2>1
    <3>2. /\ \A j \in 1..(Len(stack[r]) - 1) : stack[r][j].at = "log_func"
          /\ build = "threads" /\ Len(stack[r]) > 1 =>
               stack[r][Len(stack[r])].at \in {"locate", "retrieve"}
      BY DEF IInv, Nesting
    <3> QED BY <3>1, <3>2
  <2>2. CASE r = q
    <3>1. \A j \in 1..(n - 1) : s[j].at = "log_func"
      BY DEF IInv, Nesting, s, n
    <3>2. \A j \in 1..(n - 2) : t[j].at = "log_func"
      BY <1>1, <3>1
    <3>3. stack'[r] = t /\ Len(stack'[r]) = n - 1
      BY <1>1, <1>2, <2>2
    <3>4. n \in Nat \ {0} /\ Len(stack'[r]) - 1 = n - 2
      BY <1>1, <3>3
    <3>5. build' = "threads" => ~(Len(stack'[r]) > 1)
      <4> SUFFICES ASSUME build' = "threads" PROVE ~(Len(stack'[r]) > 1)
        OBVIOUS
      <4>1. n = 1
        BY <1>3
      <4> QED BY <3>3, <4>1
    <3>6. \A j \in 1..(Len(stack'[r]) - 1) : stack'[r][j].at = "log_func"
      BY <3>2, <3>3, <3>4
    <3> QED BY <3>5, <3>6
  <2> QED BY <2>1, <2>2
<1>7. Holding'
  <2>1. build = "threads" => Len(t) = 0
    BY <1>1, <1>3
  <2> QED BY <1>1, <1>2, <1>4, <2>1 DEF IInv, Holding, s, n
<1>8. Located'
  BY <1>1, <1>2 DEF IInv, Located, s, n
<1> QED BY <1>5, <1>6, <1>7, <1>8 DEF IInv
-----------------------------------------------------------------------------
(* A step that moves no thread keeps everything but the handles.            *)
LEMMA HandleStep ==
    ASSUME IInv, UNCHANGED <<build, mutex, location, stack, calls>>,
           code' \in [Handle -> Code \cup {0}],
           reset_func' \in [Handle -> ResetFunc],
           inReset' \in Handle \cup {NULL}
    PROVE  IInv'
<1>1. TypeOK'
  BY DEF IInv, TypeOK
<1>2. Nesting'
  BY DEF IInv, Nesting
<1>3. Holding'
  BY DEF IInv, Holding
<1>4. Located'
  BY DEF IInv, Located
<1> QED BY <1>1, <1>2, <1>3, <1>4 DEF IInv

LEMMA HandleSteps ==
    ASSUME IInv, NEW h \in Handle,
           I2ErrOpen(h) \/ I2ErrSetResetFunc(h) \/ I2ErrReset(h)
           \/ ResetFuncReturns(h) \/ I2ErrClose(h)
    PROVE  IInv'
<1> USE DEF IInv, TypeOK, ResetFunc
<1>1. CASE I2ErrOpen(h)
  BY <1>1, HandleStep DEF I2ErrOpen
<1>2. CASE I2ErrSetResetFunc(h)
  BY <1>2, HandleStep DEF I2ErrSetResetFunc
<1>3. CASE I2ErrReset(h)
  BY <1>3, HandleStep DEF I2ErrReset
<1>4. CASE ResetFuncReturns(h)
  BY <1>4, HandleStep DEF ResetFuncReturns
<1>5. CASE I2ErrClose(h)
  BY <1>5, HandleStep DEF I2ErrClose
<1> QED BY <1>1, <1>2, <1>3, <1>4, <1>5

LEMMA CallSteps ==
    ASSUME IInv, NEW q \in Thread, I2ErrLog(q) \/ I2ErrGetMsg(q)
    PROVE  IInv'
<1>1. CASE I2ErrLog(q)
  <2>1. PICK h \in OpenHandles \cup {NULL}, here \in Location, c \in Code,
             level \in {"some"} \cup (IF build \in NoneIn THEN {"none"} ELSE {}) :
          Push(q, [at |-> "locate", eh |-> h, level |-> level,
                   code |-> c, here |-> here, event |-> NULL])
    BY <1>1 DEF I2ErrLog
  <2>2. [at |-> "locate", eh |-> h, level |-> level,
         code |-> c, here |-> here, event |-> NULL] \in Frame
    BY DEF Frame, At, OpenHandles
  <2> QED BY <1>1, <2>1, <2>2, PushStep DEF I2ErrLog
<1>2. CASE I2ErrGetMsg(q)
  <2>1. PICK h \in OpenHandles, here \in Location, c \in Code :
          Push(q, [at |-> "retrieve", eh |-> h, level |-> "some",
                   code |-> c, here |-> here, event |-> NULL])
    BY <1>2 DEF I2ErrGetMsg
  <2>2. [at |-> "retrieve", eh |-> h, level |-> "some",
         code |-> c, here |-> here, event |-> NULL] \in Frame
    BY DEF Frame, At, OpenHandles
  <2> QED BY <1>2, <2>1, <2>2, PushStep DEF I2ErrGetMsg
<1> QED BY <1>1, <1>2

LEMMA InnermostSteps ==
    ASSUME IInv, NEW q \in Thread, Step(q)
    PROVE  IInv'
<1>1. stack[q] # <<>>
  BY DEF Step, I2ErrLocation_, LogNothing, LogToStderr, LogEvent, LogFuncReturns,
         RetrieveMsg, RetrieveFuncReturns, IsAt
<1> DEFINE f == Top(q)
<1>2. f \in Frame
  BY <1>1, FrontFacts DEF IInv, TypeOK, Top
<1>3. code \in [Handle -> Code \cup {0}]
  BY DEF IInv, TypeOK
<1>4. CASE I2ErrLocation_(q)
  <2>1. /\ [f EXCEPT !.at = "arguments"] \in Frame
        /\ [f EXCEPT !.at = "arguments"].at = "arguments"
        /\ [f EXCEPT !.at = "arguments"].here = f.here
        /\ f.here \in Location
    BY <1>2 DEF Frame, At
  <2>2. f.at = "locate"
    BY <1>4 DEF I2ErrLocation_, IsAt, Top
  <2> HIDE DEF f
  <2> QED BY <1>1, <1>3, <1>4, <2>1, <2>2, ReplaceStep DEF I2ErrLocation_, handles, f
<1>5. CASE LogEvent(q)
  <2> DEFINE g == [f EXCEPT !.at = "log_func", !.event = location]
  <2>1. f.at = "arguments" /\ f.eh \in Handle /\ f.code \in Code /\ location = f.here
    <3>1. f.at = "arguments" /\ f.eh # NULL
      BY <1>5 DEF LogEvent, IsAt, Top
    <3> DEFINE j == Len(stack[q])
    <3>2. f = stack[q][j] /\ j \in Nat \ {0}
      BY <1>1, FrontFacts DEF IInv, TypeOK, Top
    <3>3. j \in 1..Len(stack[q])
      BY <3>2
    <3>4. location = f.here
      BY <3>1, <3>2, <3>3 DEF IInv, Located
    <3> QED BY <1>2, <3>1, <3>4 DEF Frame
  <2>2. g \in Frame /\ g.at = "log_func" /\ g.event = g.here
    BY <1>2, <2>1 DEF Frame, At
  <2>3. Replace(q, g) /\ code' \in [Handle -> Code \cup {0}]
        /\ UNCHANGED <<build, mutex, location, reset_func, inReset, calls>>
    BY <1>3, <1>5, <2>1 DEF LogEvent
  <2> HIDE DEF g
  <2> QED BY <1>1, <2>1, <2>2, <2>3, ReplaceStep
<1>6. CASE RetrieveMsg(q)
  <2> DEFINE g == [f EXCEPT !.at = "retrieve_func"]
  <2>1. g \in Frame /\ g.at = "retrieve_func"
    BY <1>2 DEF Frame, At
  <2>2. f.at = "retrieve" /\ I2ThreadMutexLock(q) /\ Replace(q, g)
        /\ UNCHANGED <<build, location, handles, calls>>
    BY <1>6 DEF RetrieveMsg, IsAt, Top
  <2>3. code' = code
    BY <2>2 DEF handles
  <2> HIDE DEF g
  <2> QED BY <1>1, <1>3, <2>1, <2>2, <2>3, ReplaceStep
<1>7. CASE LogNothing(q) \/ LogToStderr(q) \/ LogFuncReturns(q) \/ RetrieveFuncReturns(q)
  <2>1. f.at \in Inside
    BY <1>7 DEF LogNothing, LogToStderr, LogFuncReturns, RetrieveFuncReturns, IsAt, Top,
                Inside, ClientCode
  <2>2. Return(q) /\ UNCHANGED <<build, location, handles, calls>>
        /\ (UNCHANGED mutex \/ I2ThreadMutexUnlock(q))
    BY <1>7 DEF LogNothing, LogToStderr, LogFuncReturns, RetrieveFuncReturns
  <2> QED BY <1>1, <2>1, <2>2, ReturnStep
<1> QED BY <1>4, <1>5, <1>6, <1>7 DEF Step

LEMMA StepInvariant == IInv /\ [Next]_vars => IInv'
<1> SUFFICES ASSUME IInv, [Next]_vars PROVE IInv'
  OBVIOUS
<1>1. CASE Next
  BY <1>1, HandleSteps, CallSteps, InnermostSteps DEF Next
<1>2. CASE UNCHANGED vars
  BY <1>2, HandleStep DEF vars, handles, IInv, TypeOK
<1> QED BY <1>1, <1>2
-----------------------------------------------------------------------------
(* The inductive invariant holds in every reachable state of both builds. *)
THEOREM Invariance == Spec => []IInv
BY InitInvariant, StepInvariant, PTL DEF Spec

(* Every field keeps its type: an error code is 0 or one that was logged,   *)
(* never what malloc() left in the handle.                                  *)
THEOREM TypeCorrect == Spec => []TypeOK
<1>1. IInv => TypeOK
  BY DEF IInv
<1> QED BY <1>1, Invariance, PTL

(* However many threads and handles log, and however deep log functions     *)
(* that log are nested, an event carries the place of its own call.         *)
THEOREM EventsCarryLocation == Spec => []EventHasItsLocation
<1>1. IInv => EventHasItsLocation
  BY DEF IInv, TypeOK, Located, EventHasItsLocation
<1> QED BY <1>1, Invariance, PTL

(* Log functions and retrieval functions of different threads never run at  *)
(* the same time, whichever handles they belong to.                         *)
THEOREM ClientsSerialised == Spec => []ClientCodeSerialised
<1>1. ASSUME IInv PROVE ClientCodeSerialised
  <2>1. \A q \in Thread : DOMAIN stack[q] = 1..Len(stack[q])
    BY <1>1 DEF IInv, TypeOK
  <2>2. ASSUME NEW q \in Thread, NEW r \in Thread,
               NEW j \in DOMAIN stack[q], stack[q][j].at \in ClientCode,
               NEW l \in DOMAIN stack[r], stack[r][l].at \in ClientCode
        PROVE  q = r
    <3>1. j \in 1..Len(stack[q]) /\ l \in 1..Len(stack[r])
      BY <2>1
    <3> QED BY <1>1, <2>2, <3>1, OneInside DEF Inside
  <2> QED BY <2>2 DEF ClientCodeSerialised
<1> QED BY <1>1, Invariance, PTL
=============================================================================
