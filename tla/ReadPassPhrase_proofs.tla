----------------------- MODULE ReadPassPhrase_proofs -----------------------
(***************************************************************************)
(* Proofs about prompting for a pass phrase: for any line, any size of the *)
(* buffers, and any number of calls, signals and stops, what is caught is  *)
(* let go and what is turned off is turned on again, the answer is the     *)
(* line, and signals reach the client.                                     *)
(***************************************************************************)
EXTENDS ReadPassPhrase, WellFoundedInduction, TLAPS

Steps == {"client", "open", "catch", "echo_off", "read", "terminate", "echo_on",
           "release", "resend"}
Cell == Char \cup {"nul", NoChar}

LEMMA SignalFacts ==
    /\ DOMAIN Signals = {1, 2} /\ Len(Signals) = 2
    /\ Signals[1] = "INT" /\ Signals[2] = "TSTP"
    /\ Sig = {"INT", "TSTP"}
    /\ NoChar \notin Sig
<1>1. DOMAIN Signals = {1, 2} /\ Len(Signals) = 2
      /\ Signals[1] = "INT" /\ Signals[2] = "TSTP"
  BY DEF Signals
<1>2. Sig = {"INT", "TSTP"}
  BY <1>1 DEF Sig, Range
<1> QED BY <1>1, <1>2, PromptAssumption
-----------------------------------------------------------------------------
(*                            What is put back                             *)

(* The part of the types that control depends on. *)
ControlTypes ==
    /\ at \in Steps \X {1, 2}
    /\ proc \in {"running", "stopped", "dead"}
    /\ input \in BOOLEAN /\ echo \in BOOLEAN
    /\ caught \subseteq Sig
    /\ saved \in [echo : BOOLEAN, caught : SUBSET Sig]
    /\ signo \in Sig \cup {NoChar}
    /\ oom \in BOOLEAN

(* Which signals are caught at every step, and where echo may be off.       *)
Restored ==
    oom \/ /\ at[1] \in {"client", "open", "resend"} => caught = {}
           /\ at[1] = "catch" => caught = IF at[2] = 1 THEN {} ELSE {"INT"}
           /\ at[1] \in {"echo_off", "read", "terminate", "echo_on"} => caught = Sig
           /\ at[1] = "release" => caught = IF at[2] = 1 THEN Sig ELSE {"TSTP"}
           /\ saved.caught = {}
           /\ at[1] \in {"read", "terminate", "echo_on"} => saved.echo
           /\ at[1] \notin {"read", "terminate", "echo_on"} => echo
           /\ at[1] \in {"client", "open"} => ~input
           /\ proc # "running" => echo

ControlInv == ControlTypes /\ Restored

LEMMA ControlInit == PromptInit => ControlInv
<1> SUFFICES ASSUME PromptInit PROVE ControlInv
  OBVIOUS
<1>1. at = <<"client", 1>> /\ saved = [echo |-> TRUE, caught |-> {}] /\ caught = {}
  BY DEF PromptInit
<1>2. /\ at \in Steps \X {1, 2}
      /\ saved \in [echo : BOOLEAN, caught : SUBSET Sig]
  BY <1>1 DEF Steps
<1>3. ControlTypes
  BY <1>1, <1>2 DEF PromptInit, ControlTypes
<1>4. Restored
  BY <1>1 DEF PromptInit, Restored
<1> QED BY <1>3, <1>4 DEF ControlInv

LEMMA ControlStep == ControlInv /\ [PromptNext]_promptVars => ControlInv'
<1> SUFFICES ASSUME ControlInv, [PromptNext]_promptVars PROVE ControlInv'
  OBVIOUS
<1> USE SignalFacts DEF ControlInv, ControlTypes, Steps, Signalling, Buffer, Terminal
<1>1. CASE CallPrompt
  BY <1>1 DEF CallPrompt, Restored, At, Goto
<1>2. CASE SetDisposition
  BY <1>2 DEF SetDisposition, Restored, At
<1>3. CASE OpenInput
  <2>1. /\ at[1] = "open"
        /\ UNCHANGED <<proc, echo, caught, saved, signo, oom>>
    BY <1>3 DEF OpenInput, At
  <2>2. CASE at' = <<"catch", 1>> /\ input' = TRUE
    BY <2>1, <2>2 DEF Restored
  <2>3. CASE at' = <<"client", 1>> /\ input' = input
    BY <2>1, <2>3 DEF Restored
  <2> QED BY <1>3, <2>2, <2>3 DEF OpenInput, Goto
<1>4. CASE CatchSignal
  <2>1. /\ at[1] = "catch" /\ proc = "running"
        /\ UNCHANGED <<proc, input, echo, signo, oom>>
        /\ saved' = [saved EXCEPT !.caught =
                          (@ \ {Signals[at[2]]}) \cup (caught \cap {Signals[at[2]]})]
        /\ caught' = caught \cup {Signals[at[2]]}
        /\ NextSignal("echo_off")
    BY <1>4 DEF CatchSignal, At
  <2>2. CASE at[2] = 1
    <3>1. at' = <<"catch", 2>>
      BY <2>1, <2>2 DEF NextSignal
    <3>2. /\ caught' = caught \cup {"INT"}
          /\ saved'.echo = saved.echo
          /\ saved'.caught = (saved.caught \ {"INT"}) \cup (caught \cap {"INT"})
          /\ saved' \in [echo : BOOLEAN, caught : SUBSET Sig]
      BY <2>1, <2>2
    <3> QED BY <2>1, <2>2, <3>1, <3>2 DEF Restored
  <2>3. CASE at[2] = 2
    <3>1. at' = <<"echo_off", 1>>
      BY <2>1, <2>3 DEF NextSignal
    <3>2. /\ caught' = caught \cup {"TSTP"}
          /\ saved'.echo = saved.echo
          /\ saved'.caught = (saved.caught \ {"TSTP"}) \cup (caught \cap {"TSTP"})
          /\ saved' \in [echo : BOOLEAN, caught : SUBSET Sig]
      BY <2>1, <2>3
    <3> QED BY <2>1, <2>3, <3>1, <3>2 DEF Restored
  <2> QED BY <2>2, <2>3
<1>5. CASE EchoOff
  BY <1>5 DEF EchoOff, Restored, At, Goto
<1>6. CASE ReadChar
  BY <1>6 DEF ReadChar, Restored, At
<1>7. CASE ReadLast
  BY <1>7 DEF ReadLast, Restored, At, Goto
<1>8. CASE Terminate
  BY <1>8 DEF Terminate, Restored, At, Goto
<1>9. CASE EchoOn
  BY <1>9 DEF EchoOn, Restored, At, Goto
<1>10. CASE ReleaseSignal
  <2>1. /\ at[1] = "release" /\ proc = "running"
        /\ UNCHANGED <<proc, input, echo, saved, signo, oom>>
        /\ caught' = caught \ ({Signals[at[2]]} \ saved.caught)
        /\ NextSignal("resend")
    BY <1>10 DEF ReleaseSignal, At
  <2>2. CASE at[2] = 1
    <3>1. at' = <<"release", 2>>
      BY <2>1, <2>2 DEF NextSignal
    <3>2. caught' = caught \ ({"INT"} \ saved.caught)
      BY <2>1, <2>2
    <3> QED BY <2>1, <2>2, <3>1, <3>2 DEF Restored
  <2>3. CASE at[2] = 2
    <3>1. at' = <<"resend", 1>>
      BY <2>1, <2>3 DEF NextSignal
    <3>2. caught' = caught \ ({"TSTP"} \ saved.caught)
      BY <2>1, <2>3
    <3> QED BY <2>1, <2>3, <3>1, <3>2 DEF Restored
  <2> QED BY <2>2, <2>3
<1>11. CASE Resend
  <2>1. /\ at[1] = "resend" /\ input' = FALSE
        /\ UNCHANGED <<echo, caught, saved, oom>>
    BY <1>11 DEF Resend, At
  <2>2. at' = <<"client", 1>> \/ at' = <<"open", 1>>
    BY <1>11 DEF Resend, ReturnAnswer, Goto
  <2>3. signo' \in {signo, NoChar}
    BY <1>11 DEF Resend
  <2>4. proc' \in {"running", "stopped", "dead"}
    BY <1>11 DEF Resend, Deliver
  <2>5. at' \in Steps \X {1, 2}
    BY <2>2
  <2>6. signo' \in Sig \cup {NoChar}
    BY <2>3
  <2>7. ControlTypes'
    BY <2>1, <2>4, <2>5, <2>6
  <2> QED BY <2>1, <2>2, <2>7 DEF Restored
<1>12. CASE OutOfMemory
  BY <1>12 DEF OutOfMemory, Restored, At, Goto
<1>13. ASSUME NEW s \in Sig, Signal(s) PROVE ControlInv'
  BY <1>13 DEF Signal, Restored, Goto, Deliver
<1>14. CASE Continue
  BY <1>14 DEF Continue, Restored
<1>15. CASE UNCHANGED promptVars
  BY <1>15 DEF promptVars, Restored
<1> QED BY <1>1, <1>2, <1>3, <1>4, <1>5, <1>6, <1>7, <1>8, <1>9, <1>10, <1>11, <1>12, <1>13,
            <1>14, <1>15 DEF PromptNext, PromptStep

(* However signals and stops fall, the user at a shell has the echo, and    *)
(* the client its signal actions and its terminal (readpassphrase.c:124,    *)
(* 175), unless memory ran out.                                             *)
THEOREM TerminalRestored == PromptSpec => []NothingLeftBehind
<1>1. ControlInv => NothingLeftBehind
  BY DEF ControlInv, Restored, NothingLeftBehind
<1> QED BY ControlInit, ControlStep, <1>1, PTL DEF PromptSpec
-----------------------------------------------------------------------------
(*                     Signals are resent, and but once                    *)

SignalTypes ==
    /\ at \in Steps \X {1, 2}
    /\ signo \in Sig \cup {NoChar}
    /\ stale \in Nat
    /\ sent \in [Sig -> Nat] /\ got \in [Sig -> Nat] /\ merged \in [Sig -> Nat]

(* What the client may yet get of what signo holds: TSTP at any time, INT   *)
(* in the call it came in, or once in each later call.                      *)
Waits(s) == IF signo = s /\ (s = "TSTP" \/ at[1] # "client") THEN 1 ELSE 0
Extra(s) == IF s = "INT" THEN stale ELSE 0
NoneInvented == \A s \in Sig : got[s] + Waits(s) <= sent[s] + Extra(s)

(* What this call still has to resend. *)
Noted(s) == IF signo = s /\ at[1] \notin {"client", "open"} THEN 1 ELSE 0
NoneLost == oom \/ \A s \in Sig : sent[s] <= got[s] + merged[s] + Noted(s)

SignalInv == SignalTypes /\ NoneInvented /\ NoneLost

LEMMA SignalInit == PromptInit => SignalInv
<1> SUFFICES ASSUME PromptInit PROVE SignalInv
  OBVIOUS
<1> USE SignalFacts
<1>1. /\ at = <<"client", 1>> /\ signo = NoChar /\ stale = 0
      /\ sent = [s \in Sig |-> 0] /\ got = [s \in Sig |-> 0] /\ merged = [s \in Sig |-> 0]
  BY DEF PromptInit
<1>2. SignalTypes
  BY <1>1 DEF SignalTypes, Steps
<1>3. NoneInvented
  BY <1>1 DEF NoneInvented, Waits, Extra
<1>4. NoneLost
  BY <1>1 DEF NoneLost, Noted
<1> QED BY <1>2, <1>3, <1>4 DEF SignalInv

(* What the counts say of one signal. *)
LEMMA CountFacts ==
    ASSUME SignalInv, NEW s \in Sig
    PROVE  /\ got[s] \in Nat /\ sent[s] \in Nat /\ merged[s] \in Nat /\ Extra(s) \in Nat
           /\ Waits(s) \in {0, 1} /\ Noted(s) \in {0, 1}
           /\ got[s] + Waits(s) <= sent[s] + Extra(s)
           /\ oom \/ sent[s] <= got[s] + merged[s] + Noted(s)
BY DEF SignalInv, SignalTypes, NoneInvented, NoneLost, Waits, Noted, Extra

(* A step that sends, delivers and notes nothing: it may return to the      *)
(* client, and only a call that is past its opening goes on to catch.       *)
LEMMA Quiet ==
    ASSUME SignalInv, UNCHANGED <<sent, got, merged, stale, signo>>, oom' = oom,
           at' \in Steps \X {1, 2}, at[1] = "client" => at'[1] = "client",
           at'[1] \in {"client", "open"} => at[1] \in {"client", "open"}
    PROVE  SignalInv'
<1>1. SignalTypes'
  BY DEF SignalInv, SignalTypes
<1>2. ASSUME NEW s \in Sig
      PROVE  /\ (got[s] + Waits(s))' <= (sent[s] + Extra(s))'
             /\ (oom \/ sent[s] <= got[s] + merged[s] + Noted(s))'
  <2>1. Waits(s)' \in {0, 1} /\ Waits(s)' <= Waits(s) /\ Extra(s)' = Extra(s)
    BY DEF Waits, Extra
  <2>2. Noted(s)' \in {0, 1} /\ Noted(s) <= Noted(s)'
    BY DEF Noted
  <2> QED BY <2>1, <2>2, CountFacts
<1> QED BY <1>1, <1>2 DEF SignalInv, NoneInvented, NoneLost

LEMMA SignalStep == ControlInv /\ SignalInv /\ [PromptNext]_promptVars => SignalInv'
<1> SUFFICES ASSUME ControlInv, SignalInv, [PromptNext]_promptVars PROVE SignalInv'
  OBVIOUS
<1> USE SignalFacts
<1>a. at \in Steps \X {1, 2} /\ at[2] \in {1, 2}
  BY DEF SignalInv, SignalTypes
<1>b. oom \/ (at[1] \in {"client", "open", "resend"} => caught = {})
  BY DEF ControlInv, Restored
<1> DEFINE Kept == UNCHANGED <<sent, got, merged, stale, signo, oom>>
<1>1. CASE CallPrompt
  <2>1. /\ at' = <<"open", 1>> /\ stale' = IF signo = "INT" THEN stale + 1 ELSE stale
        /\ at[1] = "client" /\ UNCHANGED <<signo, sent, got, merged, oom>>
    BY <1>1 DEF CallPrompt, Goto, At
  <2>2. SignalTypes'
    BY <2>1 DEF SignalInv, SignalTypes, Steps
  <2>3. ASSUME NEW s \in Sig
        PROVE  /\ (got[s] + Waits(s))' <= (sent[s] + Extra(s))'
               /\ (oom \/ sent[s] <= got[s] + merged[s] + Noted(s))'
    <3>1. Noted(s)' = 0 /\ Noted(s) = 0
      BY <2>1 DEF Noted
    <3>2. Waits(s)' = IF signo = s THEN 1 ELSE 0
      BY <2>1 DEF Waits
    <3>3. Waits(s) = IF signo = s /\ s = "TSTP" THEN 1 ELSE 0
      BY <2>1 DEF Waits
    <3>4. Extra(s)' = IF s = "INT" /\ signo = s THEN Extra(s) + 1 ELSE Extra(s)
      BY <2>1 DEF Extra
    <3> QED BY <2>1, <3>1, <3>2, <3>3, <3>4, CountFacts
  <2> QED BY <2>2, <2>3 DEF SignalInv, NoneInvented, NoneLost
<1>2. CASE SetDisposition
  <2>1. Kept /\ at' = at
    BY <1>2 DEF SetDisposition, Signalling, Buffer
  <2> QED BY <1>a, <2>1, Quiet
<1>3. CASE OpenInput
  <2>1. Kept /\ at[1] = "open" /\ at' \in Steps \X {1, 2}
    BY <1>3 DEF OpenInput, At, Goto, Signalling, Buffer, Steps
  <2> QED BY <2>1, Quiet
<1>4. CASE CatchSignal
  <2>1. Kept /\ at[1] = "catch" /\ ((at' = <<at[1], at[2] + 1>> /\ at[2] < 2)
                                    \/ at' = <<"echo_off", 1>>)
    BY <1>4 DEF CatchSignal, At, NextSignal, Signalling, Buffer
  <2>2. at' \in Steps \X {1, 2} /\ at'[1] \in {"catch", "echo_off"}
    BY <1>a, <2>1 DEF Steps
  <2> QED BY <2>1, <2>2, Quiet
<1>5. CASE EchoOff
  <2>1. Kept /\ at[1] = "echo_off" /\ at' = <<"read", 1>>
    BY <1>5 DEF EchoOff, At, Goto, Signalling
  <2> QED BY <2>1, Quiet DEF Steps
<1>6. CASE ReadChar
  <2>1. Kept /\ at' = at
    BY <1>6 DEF ReadChar, Signalling
  <2> QED BY <1>a, <2>1, Quiet
<1>7. CASE ReadLast
  <2>1. Kept /\ at[1] = "read" /\ at' = <<"terminate", 1>>
    BY <1>7 DEF ReadLast, At, Goto, Signalling
  <2> QED BY <2>1, Quiet DEF Steps
<1>8. CASE Terminate
  <2>1. Kept /\ at[1] = "terminate" /\ at' = <<"echo_on", 1>>
    BY <1>8 DEF Terminate, At, Goto, Signalling
  <2> QED BY <2>1, Quiet DEF Steps
<1>9. CASE EchoOn
  <2>1. Kept /\ at[1] = "echo_on" /\ at' = <<"release", 1>>
    BY <1>9 DEF EchoOn, At, Goto, Signalling, Buffer
  <2> QED BY <2>1, Quiet DEF Steps
<1>10. CASE ReleaseSignal
  <2>1. Kept /\ at[1] = "release" /\ ((at' = <<at[1], at[2] + 1>> /\ at[2] < 2)
                                      \/ at' = <<"resend", 1>>)
    BY <1>10 DEF ReleaseSignal, At, NextSignal, Signalling, Buffer
  <2>2. at' \in Steps \X {1, 2} /\ at'[1] \in {"release", "resend"}
    BY <1>a, <2>1 DEF Steps
  <2> QED BY <2>1, <2>2, Quiet
<1>11. CASE Resend
  <2>1. at[1] = "resend" /\ UNCHANGED <<sent, stale, merged, oom, caught>>
    BY <1>11 DEF Resend, At, Buffer
  <2>2. /\ at' = <<"client", 1>> \/ at' = <<"open", 1>>
        /\ signo = "TSTP" \/ at' = <<"open", 1>> => signo' = NoChar
        /\ signo' \in {signo, NoChar}
    BY <1>11 DEF Resend, ReturnAnswer, Goto
  <2>3. /\ signo = NoChar \/ signo \in caught => got' = got
        /\ signo \in Sig \ caught => got' = [got EXCEPT ![signo] = @ + 1]
    BY <1>11 DEF Resend, Deliver
  <2>4. signo \in Sig \cup {NoChar} /\ got \in [Sig -> Nat]
    BY DEF SignalInv, SignalTypes
  <2>5. got' \in [Sig -> Nat]
    BY <2>3, <2>4
  <2>6. SignalTypes'
    BY <2>1, <2>2, <2>4, <2>5 DEF SignalInv, SignalTypes, Steps
  <2>7. ASSUME NEW s \in Sig
        PROVE  /\ (got[s] + Waits(s))' <= (sent[s] + Extra(s))'
               /\ (oom \/ sent[s] <= got[s] + merged[s] + Noted(s))'
    <3>1. Noted(s)' = 0 /\ Noted(s) = IF signo = s THEN 1 ELSE 0
      BY <2>1, <2>2 DEF Noted
    <3>2. Waits(s)' = 0 /\ Waits(s) = IF signo = s THEN 1 ELSE 0
      BY <2>1, <2>2 DEF Waits
    <3>3. Extra(s)' = Extra(s)
      BY <2>1 DEF Extra
    <3>4. got[s]' = IF signo = s /\ signo \notin caught THEN got[s] + 1 ELSE got[s]
      BY <2>3, <2>4
    <3>5. got[s]' \in Nat
      BY <2>5
    <3> QED BY <1>b, <2>1, <3>1, <3>2, <3>3, <3>4, <3>5, CountFacts
  <2> QED BY <2>6, <2>7 DEF SignalInv, NoneInvented, NoneLost
<1>12. CASE OutOfMemory
  <2>1. UNCHANGED <<sent, got, merged, stale, signo>> /\ oom' = TRUE /\ at' = <<"client", 1>>
    BY <1>12 DEF OutOfMemory, Goto, Signalling
  <2>2. SignalTypes'
    BY <2>1 DEF SignalInv, SignalTypes, Steps
  <2>3. ASSUME NEW s \in Sig PROVE (got[s] + Waits(s))' <= (sent[s] + Extra(s))'
    <3>1. Waits(s)' \in {0, 1} /\ Waits(s)' <= Waits(s) /\ Extra(s)' = Extra(s)
      BY <2>1 DEF Waits, Extra
    <3> QED BY <2>1, <3>1, CountFacts
  <2> QED BY <2>1, <2>2, <2>3 DEF SignalInv, NoneInvented, NoneLost
<1>13. ASSUME NEW s \in Sig, Signal(s) PROVE SignalInv'
  <2>1. sent' = [sent EXCEPT ![s] = @ + 1] /\ stale' = stale /\ oom' = oom
    BY <1>13 DEF Signal
  <2>2. /\ signo \in Sig \cup {NoChar} /\ got \in [Sig -> Nat]
        /\ sent \in [Sig -> Nat] /\ merged \in [Sig -> Nat]
    BY DEF SignalInv, SignalTypes
  <2>3. ASSUME NEW t \in Sig
        PROVE  /\ sent[t]' = IF t = s THEN sent[t] + 1 ELSE sent[t]
               /\ Extra(t)' = Extra(t)
    BY <2>1, <2>2 DEF Extra
  <2>4. CASE UNCHANGED <<signo, merged, at>> /\ got' = [got EXCEPT ![s] = @ + 1]
    <3>1. SignalTypes'
      BY <2>1, <2>4 DEF SignalInv, SignalTypes
    <3>2. ASSUME NEW t \in Sig
          PROVE  /\ (got[t] + Waits(t))' <= (sent[t] + Extra(t))'
                 /\ (oom \/ sent[t] <= got[t] + merged[t] + Noted(t))'
      <4>1. Waits(t)' = Waits(t) /\ Noted(t)' = Noted(t)
        BY <2>4 DEF Waits, Noted
      <4>2. got[t]' = IF t = s THEN got[t] + 1 ELSE got[t]
        BY <2>2, <2>4
      <4> QED BY <2>1, <2>3, <2>4, <4>1, <4>2, CountFacts
    <3> QED BY <3>1, <3>2 DEF SignalInv, NoneInvented, NoneLost
  <2>5. CASE /\ s \in caught /\ signo' = s /\ got' = got
             /\ merged' = IF signo = NoChar THEN merged ELSE [merged EXCEPT ![signo] = @ + 1]
             /\ at' = at \/ (at[1] = "read" /\ at' = <<"terminate", 1>>)
    <3>1. at' \in Steps \X {1, 2}
      BY <1>a, <2>5 DEF Steps
    <3>2. merged' \in [Sig -> Nat]
      BY <2>2, <2>5
    <3>3. SignalTypes'
      BY <2>1, <2>5, <3>1, <3>2 DEF SignalInv, SignalTypes
    <3>4. ASSUME NEW t \in Sig
          PROVE  /\ (got[t] + Waits(t))' <= (sent[t] + Extra(t))'
                 /\ (oom \/ sent[t] <= got[t] + merged[t] + Noted(t))'
      <4>1. Waits(t)' \in {0, 1} /\ (t # s => Waits(t)' = 0)
        BY <2>5 DEF Waits
      <4>2. ASSUME ~oom
            PROVE  /\ Noted(t)' = IF t = s THEN 1 ELSE 0
                   /\ Noted(t) = IF signo = t THEN 1 ELSE 0
        <5>1. at[1] \notin {"client", "open"} /\ at'[1] \notin {"client", "open"}
          BY <1>b, <2>5, <4>2
        <5> QED BY <2>5, <5>1 DEF Noted
      <4>3. merged[t]' = IF signo = t THEN merged[t] + 1 ELSE merged[t]
        BY <2>2, <2>5
      <4>4. got[t]' = got[t] /\ oom' = oom
        BY <2>1, <2>5
      <4> QED BY <2>3, <4>1, <4>2, <4>3, <4>4, CountFacts
    <3> QED BY <3>3, <3>4 DEF SignalInv, NoneInvented, NoneLost
  <2> QED BY <1>13, <2>4, <2>5 DEF Signal, Deliver, Goto
<1>14. CASE Continue
  <2>1. Kept /\ at' = at
    BY <1>14 DEF Continue, Buffer
  <2> QED BY <1>a, <2>1, Quiet
<1>15. CASE UNCHANGED promptVars
  <2>1. Kept /\ at' = at
    BY <1>15 DEF promptVars
  <2> QED BY <1>a, <2>1, Quiet
<1> QED BY <1>1, <1>2, <1>3, <1>4, <1>5, <1>6, <1>7, <1>8, <1>9, <1>10, <1>11, <1>12, <1>13,
            <1>14, <1>15 DEF PromptNext, PromptStep

(* What the handler swallowed reaches the client (readpassphrase.c:192),    *)
(* unless another signal overtook it in signo or memory ran out, and never  *)
(* more often than it was sent, but that an INT a client survives comes     *)
(* again with each later call.                                              *)
THEOREM SignalsDelivered == PromptSpec => []SignalsAreResent
<1>1. SignalInv => SignalsAreResent
  <2> SUFFICES ASSUME SignalInv PROVE SignalsAreResent
    OBVIOUS
  <2>1. got["TSTP"] <= sent["TSTP"]
    <3>1. "TSTP" \in Sig /\ Extra("TSTP") = 0
      BY SignalFacts DEF Extra
    <3> QED BY <3>1, CountFacts
  <2>2. got["INT"] <= sent["INT"] + stale
    <3>1. "INT" \in Sig /\ Extra("INT") = stale
      BY SignalFacts DEF Extra
    <3> QED BY <3>1, CountFacts
  <2>3. ASSUME at[1] = "client", ~oom, NEW s \in Sig PROVE sent[s] <= got[s] + merged[s]
    <3>1. Noted(s) = 0
      BY <2>3 DEF Noted
    <3> QED BY <2>3, <3>1, CountFacts
  <2> QED BY <2>1, <2>2, <2>3 DEF SignalsAreResent
<1> QED BY ControlInit, ControlStep, SignalInit, SignalStep, <1>1, PTL DEF PromptSpec
-----------------------------------------------------------------------------
(*                         The answer is the line                          *)

Early == {"open", "catch", "echo_off"}
BeingRead == {"read", "terminate"}
Late == {"echo_on", "release", "resend"}

LineTypes ==
    /\ at \in Steps \X {1, 2}
    /\ call \in [fn : PromptFuncs, disp : {"default", "client"}]
    /\ mem \in Seq(Cell)
    /\ pos \in [p : Nat, pf_len : Nat]
    /\ typed \in Seq(Char)
    /\ gap \in Nat \cup {-1}

(* What the buffer keeps of the line, and how much that is. *)
Whole == Alloc \/ Len(typed) < BufSize
LineRead == IF Whole THEN typed ELSE SubSeq(typed, 1, BufSize - 1)
Held == IF Whole THEN Len(typed) ELSE BufSize - 1

(* How many characters of the line certainly stand at the buffer's start. *)
Sure == IF gap = -1 THEN pos.p ELSE gap

(* p jumps at most once in a prompt: it then stays with pf_len.             *)
Room == at[1] # "client" => answer = NoChar /\ (~Alloc => Len(mem) = BufSize)
InBuffer == Alloc /\ at[1] # "client" => pos.p <= pos.pf_len /\ pos.pf_len <= Len(mem)
Filled ==
    at[1] \in BeingRead \cup Late =>
        /\ pos.p <= Len(mem)
        /\ IF gap = -1 THEN pos.p = Held ELSE Alloc /\ gap <= Len(typed) /\ gap <= pos.p
        /\ \A i \in 1..Sure : mem[i] = typed[i]
Together == at[1] \in BeingRead /\ gap # -1 => pos.p = pos.pf_len
Ended == at[1] \in Late => pos.p < Len(mem) /\ mem[pos.p + 1] = "nul"
Answered ==
    at[1] = "client" /\ answer # NoChar =>
        IF gap # -1 THEN IsPrefix(SubSeq(typed, 1, gap), answer) ELSE answer = LineRead

LineInv == LineTypes /\ Room /\ InBuffer /\ Filled /\ Together /\ Ended /\ Answered

LEMMA LineInit == PromptInit => LineInv
<1> SUFFICES ASSUME PromptInit PROVE LineInv
  OBVIOUS
<1>1. /\ at = <<"client", 1>> /\ mem = <<>> /\ pos = [p |-> 0, pf_len |-> 0]
      /\ typed = <<>> /\ answer = NoChar /\ gap = -1
      /\ call = [fn |-> "I2ReadPassPhrase", disp |-> "default"]
  BY DEF PromptInit
<1>2. LineTypes
  BY <1>1 DEF LineTypes, Steps, PromptFuncs
<1>3. Room /\ InBuffer /\ Filled /\ Together /\ Ended /\ Answered
  BY <1>1 DEF Room, InBuffer, Filled, Together, Ended, Answered, Early, BeingRead, Late
<1> QED BY <1>2, <1>3 DEF LineInv

(* Steps that leave the buffer alone and move on within a stage, or give up. *)
LEMMA SameStage ==
    ASSUME LineInv, UNCHANGED <<mem, pos, typed, gap, answer>>,
           call' \in [fn : PromptFuncs, disp : {"default", "client"}], call'.fn = call.fn,
           at' \in Steps \X {1, 2},
           \/ at'[1] = at[1]
           \/ at[1] \in Early /\ at'[1] \in Early \cup {"client"}
           \/ at[1] \in BeingRead /\ at'[1] \in BeingRead
           \/ at[1] \in Late /\ at'[1] \in Late
    PROVE  LineInv'
<1>1. Alloc' = Alloc /\ Held' = Held /\ LineRead' = LineRead /\ Sure' = Sure
  BY DEF Alloc, Held, LineRead, Whole, Sure
<1>2. LineTypes'
  BY DEF LineInv, LineTypes
<1>3. Room' /\ InBuffer'
  BY <1>1 DEF LineInv, Room, InBuffer, Early, BeingRead, Late
<1>4. Filled'
  BY <1>1 DEF LineInv, Filled, Early, BeingRead, Late
<1>5. Together' /\ Ended'
  BY <1>1 DEF LineInv, Together, Ended, Early, BeingRead, Late
<1>6. Answered'
  BY <1>1 DEF LineInv, Answered, Room, Early, BeingRead, Late
<1> QED BY <1>2, <1>3, <1>4, <1>5, <1>6 DEF LineInv

(* The buffer after it has grown is a buffer, with the same beginning. *)
LEMMA GrownFacts ==
    ASSUME mem \in Seq(Cell)
    PROVE  /\ Grown \in Seq(Cell) /\ Len(Grown) = Len(mem) + LineBufInc
           /\ \A i \in 1..Len(mem) : Grown[i] = mem[i]
<1>1. LineBufInc \in Nat \ {0}
  BY PromptAssumption
<1>2. [i \in 1..LineBufInc |-> NoChar] \in Seq(Cell)
  BY <1>1 DEF Cell
<1>3. Len([i \in 1..LineBufInc |-> NoChar]) = LineBufInc
  BY <1>1
<1> QED BY <1>1, <1>2, <1>3 DEF Grown

(* Writing a cell keeps the length, wherever it is written. *)
LEMMA PutFacts ==
    ASSUME NEW m \in Seq(Cell), NEW c \in Cell, NEW k
    PROVE  /\ [m EXCEPT ![k] = c] \in Seq(Cell)
           /\ Len([m EXCEPT ![k] = c]) = Len(m)
           /\ \A i \in 1..Len(m) : [m EXCEPT ![k] = c][i] = IF i = k THEN c ELSE m[i]
<1> DEFINE w == [m EXCEPT ![k] = c]
<1>1. DOMAIN w = 1..Len(m) /\ Len(m) \in Nat
  OBVIOUS
<1>2. \A i \in 1..Len(m) : w[i] = IF i = k THEN c ELSE m[i]
  OBVIOUS
<1>3. \A i \in 1..Len(m) : m[i] \in Cell
  OBVIOUS
<1>4. w = [i \in 1..Len(m) |-> w[i]]
  BY <1>1
<1>5. w \in [1..Len(m) -> Cell]
  <2> HIDE DEF w
  <2> QED BY <1>1, <1>2, <1>3, <1>4
<1>6. w \in Seq(Cell) /\ Len(w) = Len(m)
  <2> HIDE DEF w
  <2> QED BY <1>1, <1>5
<1> QED BY <1>2, <1>6

(* Where the next character goes: not before p, within the buffer, which    *)
(* grows when it must; and p itself unless it jumps.                        *)
LEMMA NextPlace ==
    ASSUME LineInv, at[1] \in BeingRead,
           NEW p, p = IF Full THEN pos.pf_len ELSE pos.p,
           NEW m, m = IF Full THEN Grown ELSE mem
    PROVE  /\ m \in Seq(Cell) /\ Len(m) \in Nat /\ p \in Nat /\ p >= pos.p
           /\ Len(m) >= Len(mem) /\ \A i \in 1..Len(mem) : m[i] = mem[i]
           /\ Alloc => p <= pos.pf_len /\ pos.pf_len < Len(m)
           /\ ~Alloc => m = mem /\ p = pos.p
           /\ ~Apart => p = pos.p
<1>1. /\ mem \in Seq(Cell) /\ Len(mem) \in Nat /\ pos.p \in Nat /\ pos.pf_len \in Nat
      /\ Alloc => pos.p <= pos.pf_len /\ pos.pf_len <= Len(mem)
  BY DEF LineInv, LineTypes, InBuffer, BeingRead
<1>2. CASE Full
  <2>1. p = pos.pf_len /\ m = Grown /\ Alloc
    BY <1>2 DEF Full
  <2>2. /\ LineBufInc \in Nat \ {0} /\ Grown \in Seq(Cell)
        /\ Len(Grown) = Len(mem) + LineBufInc
        /\ \A i \in 1..Len(mem) : Grown[i] = mem[i]
    BY <1>1, GrownFacts, PromptAssumption
  <2>3. ~Apart => p = pos.p
    BY <1>2, <2>1 DEF Apart
  <2> HIDE DEF Grown
  <2> QED BY <1>1, <2>1, <2>2, <2>3
<1>3. CASE ~Full
  <2>1. p = pos.p /\ m = mem
    BY <1>3
  <2>2. Alloc => pos.pf_len + 1 <= Len(mem)
    BY <1>1, <1>3 DEF Full
  <2> QED BY <1>1, <2>1, <2>2
<1> QED BY <1>2, <1>3

(* Text is what stands before the first terminating character. *)
LEMMA TextEnds ==
    ASSUME LineTypes, Ended, at[1] \in Late
    PROVE  \E e \in 0..Len(mem) : /\ Text = SubSeq(mem, 1, e) /\ mem[e + 1] = "nul"
                                  /\ \A j \in 1..e : mem[j] # "nul"
<1>1. /\ mem \in Seq(Cell) /\ Len(mem) \in Nat /\ pos.p \in Nat /\ pos.p < Len(mem)
      /\ mem[pos.p + 1] = "nul"
  BY DEF LineTypes, Ended
<1> DEFINE Ends(i) == mem[i + 1] = "nul"
           Places == {i \in Nat : Ends(i)}
<1>2. PICK i \in Places : \A j \in Places : ~(j < i)
  <2>1. Places # {} /\ Places \subseteq Nat
    BY <1>1
  <2>2. IsWellFoundedOn(OpToRel(<, Nat), Nat)
    BY NatLessThanWellFounded
  <2> HIDE DEF Places
  <2>3. \E i \in Places : \A j \in Places : <<j, i>> \notin OpToRel(<, Nat)
    BY <2>1, <2>2, WFMin
  <2> QED BY <2>1, <2>3 DEF OpToRel
<1>3. i \in Nat /\ Ends(i) /\ i <= pos.p
  BY <1>1, <1>2
<1> DEFINE End(k) == mem[k + 1] = "nul" /\ \A j \in 1..k : mem[j] # "nul"
<1>4. i \in 0..Len(mem) /\ End(i)
  <2>1. i \in 0..Len(mem)
    BY <1>1, <1>3
  <2>2. ASSUME NEW j \in 1..i, mem[j] = "nul" PROVE FALSE
    <3>1. j - 1 \in Nat /\ j - 1 < i /\ (j - 1) + 1 = j
      BY <1>3
    <3>2. j - 1 \in Places
      BY <2>2, <3>1
    <3> QED BY <1>2, <3>1, <3>2
  <2> QED BY <1>3, <2>1, <2>2
<1> DEFINE e == CHOOSE k \in 0..Len(mem) : End(k)
<1>5. e \in 0..Len(mem) /\ End(e)
  <2> HIDE DEF End
  <2> QED BY <1>4
<1>6. Text = SubSeq(mem, 1, e)
  BY DEF Text
<1> HIDE DEF e
<1> QED BY <1>1, <1>5, <1>6

LEMMA TextTypes ==
    ASSUME LineTypes, Ended, at[1] \in Late
    PROVE  Text \in Seq(Cell)
<1>1. PICK e \in 0..Len(mem) : Text = SubSeq(mem, 1, e)
  BY TextEnds
<1>2. mem \in Seq(Cell)
  BY DEF LineTypes
<1> QED BY <1>1, <1>2

(* The text is the line, or begins with what is certainly in place of it. *)
LEMMA TextIsLine ==
    ASSUME LineTypes, Filled, Ended, at[1] \in Late
    PROVE  IF gap # -1 THEN IsPrefix(SubSeq(typed, 1, gap), Text) ELSE Text = LineRead
<1> USE PromptAssumption
<1>1. PICK e \in 0..Len(mem) : /\ Text = SubSeq(mem, 1, e) /\ mem[e + 1] = "nul"
                              /\ \A j \in 1..e : mem[j] # "nul"
  BY TextEnds
<1>2. /\ pos.p \in Nat /\ pos.p < Len(mem) /\ Len(mem) \in Nat /\ mem \in Seq(Cell)
      /\ mem[pos.p + 1] = "nul" /\ gap \in Nat \cup {-1} /\ typed \in Seq(Char)
      /\ gap = -1 => pos.p = Held
      /\ gap # -1 => gap <= Len(typed) /\ gap <= pos.p
      /\ \A i \in 1..Sure : mem[i] = typed[i]
  BY DEF LineTypes, Filled, Ended, Late
<1>3. Held <= Len(typed) /\ Len(typed) \in Nat /\ Held \in Nat
  BY DEF Held, Whole, LineTypes
<1>4. Sure <= Len(typed) /\ Sure \in Nat
  BY <1>2, <1>3 DEF Sure
<1>5. \A i \in 1..Sure : mem[i] # "nul"
  <2> SUFFICES ASSUME NEW i \in 1..Sure PROVE mem[i] # "nul"
    OBVIOUS
  <2>1. typed[i] \in Char
    BY <1>2, <1>3, <1>4
  <2> QED BY <1>2, <2>1 DEF Char
<1>6. e >= Sure
  <2> SUFFICES ASSUME e < Sure PROVE FALSE
    BY <1>4
  <2>1. e + 1 \in 1..Sure
    BY <1>4
  <2> QED BY <1>1, <1>5, <2>1
<1>7. CASE gap # -1
  <2>1. Sure = gap /\ gap \in Nat /\ gap <= e /\ gap <= Len(typed)
    BY <1>2, <1>6, <1>7 DEF Sure
  <2>2. Len(SubSeq(typed, 1, gap)) = gap /\ Len(SubSeq(mem, 1, e)) = e
    BY <1>2, <1>3, <2>1
  <2>3. SubSeq(SubSeq(typed, 1, gap), 1, gap) = SubSeq(SubSeq(mem, 1, e), 1, gap)
    <3>1. \A i \in 1..gap : SubSeq(typed, 1, gap)[i] = SubSeq(mem, 1, e)[i]
      BY <1>2, <1>3, <2>1
    <3>2. SubSeq(typed, 1, gap) \in Seq(Char) /\ SubSeq(mem, 1, e) \in Seq(Cell)
      BY <1>2, <1>3, <2>1
    <3> QED BY <2>1, <2>2, <3>1, <3>2
  <2> QED BY <1>1, <1>7, <2>1, <2>2, <2>3 DEF IsPrefix
<1>8. CASE gap = -1
  <2>1. e = pos.p
    <3>1. Sure = pos.p
      BY <1>8 DEF Sure
    <3>2. ~(e > pos.p)
      <4> SUFFICES ASSUME e > pos.p PROVE FALSE
        OBVIOUS
      <4>1. pos.p + 1 \in 1..e
        BY <1>2
      <4> QED BY <1>1, <1>2, <4>1
    <3> QED BY <1>2, <1>6, <3>1, <3>2
  <2>2. Text = SubSeq(mem, 1, pos.p) /\ pos.p = Held /\ \A i \in 1..pos.p : mem[i] = typed[i]
    BY <1>1, <1>2, <1>8, <2>1 DEF Sure
  <2>3. CASE Whole
    <3>1. pos.p = Len(typed)
      BY <2>2, <2>3 DEF Held
    <3>2. SubSeq(mem, 1, pos.p) = typed
      BY <1>2, <2>2, <3>1
    <3> QED BY <1>8, <2>2, <2>3, <3>2 DEF LineRead
  <2>4. CASE ~Whole
    <3>1. pos.p = BufSize - 1 /\ BufSize - 1 <= Len(typed)
      BY <1>3, <2>2, <2>4 DEF Held, Whole
    <3>2. SubSeq(mem, 1, pos.p) = SubSeq(typed, 1, BufSize - 1)
      BY <1>2, <2>2, <3>1
    <3> QED BY <1>8, <2>2, <2>4, <3>2 DEF LineRead
  <2> QED BY <2>3, <2>4
<1> QED BY <1>7, <1>8

(* One more character: it is put where the line ends, or dropped where the  *)
(* buffer of the caller's is full.                                          *)
LEMMA ReadCharStep == LineInv /\ ReadChar => LineInv'
<1> SUFFICES ASSUME LineInv, ReadChar PROVE LineInv'
  OBVIOUS
<1> USE PromptAssumption
<1> DEFINE c == Typing[Len(typed) + 1]
<1>1. /\ at[1] = "read" /\ Len(typed) < Len(Typing)
      /\ UNCHANGED <<at, call, answer>>
      /\ Stored(c) /\ typed' = Append(typed, c)
      /\ gap' = IF Apart THEN Len(typed) ELSE gap
  BY DEF ReadChar, At
<1>2. /\ LineTypes /\ Room
      /\ mem \in Seq(Cell) /\ Len(mem) \in Nat /\ typed \in Seq(Char) /\ Len(typed) \in Nat
      /\ pos \in [p : Nat, pf_len : Nat] /\ pos.p \in Nat /\ pos.pf_len \in Nat
      /\ gap \in Nat \cup {-1} /\ gap' \in Nat \cup {-1}
  BY <1>1 DEF LineInv, LineTypes
<1>3. c \in Char /\ c \in Cell
  BY <1>1, <1>2 DEF Char, Cell
<1>4. /\ typed' \in Seq(Char) /\ Len(typed') = Len(typed) + 1
      /\ typed'[Len(typed) + 1] = c
      /\ \A i \in 1..Len(typed) : typed'[i] = typed[i]
  <2> HIDE DEF c
  <2> QED BY <1>1, <1>2, <1>3
<1>5. Alloc' = Alloc /\ (~Alloc => Len(mem) = BufSize)
  BY <1>1, <1>2 DEF Alloc, Room
<1>6. /\ pos.p <= Len(mem) /\ Sure \in Nat /\ Sure <= pos.p /\ Sure <= Len(typed)
      /\ \A i \in 1..Sure : mem[i] = typed[i]
      /\ gap = -1 => pos.p = Held
      /\ gap # -1 => Alloc /\ pos.p = pos.pf_len
  <2>1. Held <= Len(typed)
    BY <1>2 DEF Held, Whole
  <2> QED BY <1>1, <1>2, <2>1 DEF LineInv, Filled, Together, Sure, BeingRead
<1>7. Ended' /\ Answered'
  BY <1>1 DEF Ended, Answered, Late
<1> HIDE DEF c
<1>8. CASE Alloc
  <2> DEFINE p == IF Full THEN pos.pf_len ELSE pos.p
             m == IF Full THEN Grown ELSE mem
  <2>1. mem' = [m EXCEPT ![p + 1] = c] /\ pos' = [p |-> p + 1, pf_len |-> pos.pf_len + 1]
    BY <1>1, <1>8 DEF Stored
  <2>2. /\ m \in Seq(Cell) /\ Len(m) \in Nat /\ Len(m) >= Len(mem)
        /\ \A i \in 1..Len(mem) : m[i] = mem[i]
        /\ p \in Nat /\ p >= pos.p /\ p <= pos.pf_len /\ pos.pf_len < Len(m)
        /\ ~Apart => p = pos.p
    BY <1>1, <1>8, NextPlace DEF BeingRead
  <2>3. Apart => p = pos.pf_len
    BY DEF Apart
  <2> HIDE DEF m, p
  <2>4. /\ mem' \in Seq(Cell) /\ Len(mem') = Len(m)
        /\ \A i \in 1..Len(m) : mem'[i] = IF i = p + 1 THEN c ELSE m[i]
    BY <1>3, <2>1, <2>2, PutFacts
  <2>5. pos'.p = p + 1 /\ pos'.pf_len = pos.pf_len + 1 /\ pos' \in [p : Nat, pf_len : Nat]
    BY <1>2, <2>1, <2>2
  <2>6. LineTypes' /\ Room' /\ InBuffer'
    BY <1>1, <1>2, <1>4, <1>5, <1>8, <2>2, <2>4, <2>5 DEF LineTypes, Room, InBuffer
  <2>7. Together'
    <3>1. CASE Apart
      BY <2>3, <2>5, <3>1 DEF Together
    <3>2. CASE ~Apart
      BY <1>1, <1>6, <2>2, <2>5, <3>2 DEF Together
    <3> QED BY <3>1, <3>2
  <2>8. \A i \in 1..Sure : mem'[i] = typed'[i]
    <3> SUFFICES ASSUME NEW i \in 1..Sure PROVE mem'[i] = typed'[i]
      OBVIOUS
    <3>1. i \in 1..Len(mem) /\ i \in 1..Len(m) /\ i # p + 1 /\ i \in 1..Len(typed)
      BY <1>2, <1>6, <2>2
    <3> QED BY <1>4, <1>6, <2>2, <2>4, <3>1
  <2>9. Held' = Len(typed) + 1 /\ (gap = -1 => pos.p = Len(typed) /\ Sure = Len(typed))
    BY <1>4, <1>5, <1>6, <1>8 DEF Held, Whole, Sure
  <2>10. Filled'
    <3>1. CASE gap' = -1
      <4>1. gap = -1 /\ ~Apart
        BY <1>1, <1>2, <3>1
      <4>2. p = Len(typed) /\ pos'.p = Len(typed) + 1 /\ Sure' = Len(typed) + 1
        BY <2>2, <2>5, <2>9, <3>1, <4>1 DEF Sure
      <4>3. mem'[Len(typed) + 1] = typed'[Len(typed) + 1]
        <5>1. Len(typed) + 1 \in 1..Len(m)
          BY <1>2, <2>2, <4>2
        <5> QED BY <1>4, <2>4, <4>2, <5>1
      <4>4. \A i \in 1..(Len(typed) + 1) : mem'[i] = typed'[i]
        <5> SUFFICES ASSUME NEW i \in 1..(Len(typed) + 1) PROVE mem'[i] = typed'[i]
          OBVIOUS
        <5>1. i = Len(typed) + 1 \/ i \in 1..Sure
          BY <1>2, <2>9, <4>1
        <5> QED BY <2>8, <4>3, <5>1
      <4>5. Sure' = Len(typed) + 1 /\ pos'.p <= Len(mem') /\ pos'.p = Held'
        BY <1>2, <2>2, <2>4, <2>9, <4>2
      <4> QED BY <3>1, <4>4, <4>5 DEF Filled
    <3>2. CASE gap' # -1
      <4>1. gap' = Sure
        <5>1. CASE Apart
          BY <1>1, <1>6, <2>9, <5>1 DEF Sure, Apart
        <5>2. CASE ~Apart
          BY <1>1, <3>2, <5>2 DEF Sure
        <5> QED BY <5>1, <5>2
      <4>2. Sure' = Sure
        BY <3>2, <4>1 DEF Sure
      <4>3. gap' <= Len(typed') /\ gap' <= pos'.p /\ pos'.p <= Len(mem')
        BY <1>2, <1>4, <1>6, <2>2, <2>4, <2>5, <4>1
      <4> QED BY <1>5, <1>8, <2>8, <3>2, <4>2, <4>3 DEF Filled
    <3> QED BY <3>1, <3>2
  <2> QED BY <1>7, <2>6, <2>7, <2>10 DEF LineInv
<1>9. CASE ~Alloc
  <2>1. /\ Len(mem) = BufSize /\ gap = -1 /\ pos.p = Held /\ Sure = pos.p
        /\ gap' = -1 /\ Sure' = pos'.p
    BY <1>1, <1>5, <1>6, <1>9 DEF Sure, Apart, Full
  <2>2. InBuffer' /\ Together'
    BY <1>5, <1>9, <2>1 DEF InBuffer, Together
  <2>3. CASE pos.p < Len(mem) - 1
    <3>1. mem' = [mem EXCEPT ![pos.p + 1] = c] /\ pos' = [pos EXCEPT !.p = @ + 1]
      BY <1>1, <1>9, <2>3 DEF Stored
    <3>2. pos.p = Len(typed)
      BY <1>2, <1>9, <2>1, <2>3 DEF Held, Whole
    <3>3. /\ mem' \in Seq(Cell) /\ Len(mem') = BufSize
          /\ \A i \in 1..Len(mem) : mem'[i] = IF i = pos.p + 1 THEN c ELSE mem[i]
      BY <1>2, <1>3, <2>1, <3>1, PutFacts
    <3>4. pos' \in [p : Nat, pf_len : Nat] /\ pos'.p = Len(typed) + 1
      BY <1>2, <3>1, <3>2
    <3>5. Held' = Len(typed) + 1
      BY <1>2, <1>4, <1>5, <1>9, <2>1, <2>3, <3>2 DEF Held, Whole
    <3>6. \A i \in 1..(Len(typed) + 1) : mem'[i] = typed'[i]
      <4> SUFFICES ASSUME NEW i \in 1..(Len(typed) + 1) PROVE mem'[i] = typed'[i]
        OBVIOUS
      <4>1. i \in 1..Len(mem)
        BY <1>2, <2>3, <3>2
      <4>2. CASE i = Len(typed) + 1
        BY <1>4, <3>2, <3>3, <4>1, <4>2
      <4>3. CASE i \in 1..Len(typed)
        BY <1>2, <1>4, <1>6, <2>1, <3>2, <3>3, <4>1, <4>3
      <4> QED BY <1>2, <4>2, <4>3
    <3>7. LineTypes' /\ Room'
      BY <1>1, <1>2, <1>4, <1>5, <3>3, <3>4 DEF LineTypes, Room
    <3>8. Filled'
      BY <1>2, <2>1, <2>3, <3>2, <3>3, <3>4, <3>5, <3>6 DEF Filled
    <3> QED BY <1>7, <2>2, <3>7, <3>8 DEF LineInv
  <2>4. CASE ~(pos.p < Len(mem) - 1)
    <3>1. UNCHANGED <<mem, pos>>
      BY <1>1, <1>9, <2>4 DEF Stored
    <3>2. pos.p = BufSize - 1 /\ Len(typed) >= BufSize - 1
      BY <1>2, <1>9, <2>1, <2>4 DEF Held, Whole
    <3>3. Held' = BufSize - 1
      BY <1>2, <1>4, <1>5, <1>9, <3>2 DEF Held, Whole
    <3>4. \A i \in 1..pos.p : mem'[i] = typed'[i]
      BY <1>2, <1>4, <1>6, <2>1, <3>1, <3>2
    <3>5. LineTypes' /\ Room'
      BY <1>1, <1>2, <1>4, <1>5, <3>1 DEF LineTypes, Room
    <3>6. Filled'
      BY <2>1, <3>1, <3>2, <3>3, <3>4 DEF Filled
    <3> QED BY <1>7, <2>2, <3>5, <3>6 DEF LineInv
  <2> QED BY <2>3, <2>4
<1> QED BY <1>8, <1>9

(* The line ends: its terminating character is put behind it. *)
LEMMA TerminateStep == LineInv /\ Terminate => LineInv'
<1> SUFFICES ASSUME LineInv, Terminate PROVE LineInv'
  OBVIOUS
<1> USE PromptAssumption
<1> DEFINE p == IF Full THEN pos.pf_len ELSE pos.p
           m == IF Full THEN Grown ELSE mem
<1>1. /\ at[1] = "terminate" /\ at' = <<"echo_on", 1>>
      /\ mem' = [m EXCEPT ![p + 1] = "nul"] /\ pos' = [pos EXCEPT !.p = p]
      /\ gap' = IF Apart THEN Len(typed) ELSE gap
      /\ UNCHANGED <<call, typed, answer>>
  BY DEF Terminate, At, Goto
<1>2. /\ LineTypes /\ Room
      /\ mem \in Seq(Cell) /\ Len(mem) \in Nat /\ typed \in Seq(Char) /\ Len(typed) \in Nat
      /\ pos \in [p : Nat, pf_len : Nat] /\ pos.p \in Nat /\ pos.pf_len \in Nat
      /\ gap \in Nat \cup {-1} /\ gap' \in Nat \cup {-1}
  BY <1>1 DEF LineInv, LineTypes
<1>3. /\ m \in Seq(Cell) /\ Len(m) \in Nat /\ p \in Nat /\ p >= pos.p
      /\ Len(m) >= Len(mem) /\ \A i \in 1..Len(mem) : m[i] = mem[i]
      /\ Alloc => p <= pos.pf_len /\ pos.pf_len < Len(m)
      /\ ~Alloc => m = mem /\ p = pos.p
      /\ ~Apart => p = pos.p
  BY <1>1, NextPlace DEF BeingRead
<1> HIDE DEF m, p
<1>4. Alloc' = Alloc /\ Held' = Held /\ (~Alloc => Len(mem) = BufSize)
  BY <1>1, <1>2 DEF Alloc, Held, Whole, Room
<1>5. /\ pos.p <= Len(mem) /\ Sure \in Nat /\ Sure <= pos.p /\ Sure <= Len(typed)
      /\ \A i \in 1..Sure : mem[i] = typed[i]
      /\ gap = -1 => pos.p = Held
      /\ gap # -1 => Alloc /\ pos.p = pos.pf_len
  <2>1. Held <= Len(typed)
    BY <1>2 DEF Held, Whole
  <2> QED BY <1>1, <1>2, <2>1 DEF LineInv, Filled, Together, Sure, BeingRead
<1>6. /\ mem' \in Seq(Cell) /\ Len(mem') = Len(m)
      /\ \A i \in 1..Len(m) : mem'[i] = IF i = p + 1 THEN "nul" ELSE m[i]
  <2>1. "nul" \in Cell
    BY DEF Cell
  <2> QED BY <1>1, <1>3, <2>1, PutFacts
<1>7. pos' \in [p : Nat, pf_len : Nat] /\ pos'.p = p /\ pos'.pf_len = pos.pf_len
  BY <1>1, <1>2, <1>3
<1>8. p < Len(m)
  <2>1. CASE Alloc
    BY <1>2, <1>3, <2>1
  <2>2. CASE ~Alloc
    BY <1>2, <1>3, <1>4, <1>5, <2>2 DEF Held, Whole
  <2> QED BY <2>1, <2>2
<1>9. LineTypes' /\ Room' /\ InBuffer'
  BY <1>1, <1>2, <1>3, <1>4, <1>6, <1>7 DEF LineTypes, Room, InBuffer, Steps
<1>10. Together' /\ Answered'
  BY <1>1 DEF Together, Answered, BeingRead
<1>11. Ended'
  <2>1. p + 1 \in 1..Len(m)
    BY <1>3, <1>8
  <2> QED BY <1>6, <1>7, <1>8, <2>1 DEF Ended
<1>12. Filled'
  <2>1. Sure' = Sure
    <3>1. CASE Apart
      <4>1. gap = -1 /\ Alloc /\ gap' = Len(typed)
        BY <1>1, <1>5, <3>1 DEF Apart, Full
      <4> QED BY <1>2, <1>5, <4>1 DEF Sure, Held, Whole
    <3>2. CASE ~Apart
      BY <1>1, <1>3, <1>7, <3>2 DEF Sure
    <3> QED BY <3>1, <3>2
  <2>2. \A i \in 1..Sure : mem'[i] = typed'[i]
    <3> SUFFICES ASSUME NEW i \in 1..Sure PROVE mem'[i] = typed'[i]
      OBVIOUS
    <3>1. i \in 1..Len(mem) /\ i \in 1..Len(m) /\ i # p + 1
      BY <1>2, <1>3, <1>5
    <3> QED BY <1>1, <1>3, <1>5, <1>6, <3>1
  <2>3. gap' = -1 => pos'.p = Held'
    BY <1>1, <1>2, <1>3, <1>4, <1>5, <1>7
  <2>4. gap' # -1 => Alloc' /\ gap' = Sure
    <3>1. CASE Apart
      BY <1>1, <1>4, <1>5, <3>1 DEF Apart, Full, Sure, Held, Whole
    <3>2. CASE ~Apart
      BY <1>1, <1>4, <1>5, <3>2 DEF Sure
    <3> QED BY <3>1, <3>2
  <2>5. pos'.p <= Len(mem') /\ Sure <= pos'.p /\ typed' = typed
    <3>1. pos'.p = p /\ Len(mem') = Len(m) /\ typed' = typed
      BY <1>1, <1>6, <1>7
    <3>2. p <= Len(m) /\ Sure <= p
      BY <1>2, <1>3, <1>5, <1>8
    <3> QED BY <3>1, <3>2
  <2> QED BY <1>5, <2>1, <2>2, <2>3, <2>4, <2>5 DEF Filled
<1> QED BY <1>9, <1>10, <1>11, <1>12 DEF LineInv

LEMMA LineStep == LineInv /\ [PromptNext]_promptVars => LineInv'
<1> SUFFICES ASSUME LineInv, [PromptNext]_promptVars PROVE LineInv'
  OBVIOUS
<1> USE SignalFacts DEF Buffer
<1> DEFINE Kept == UNCHANGED <<mem, pos, typed, gap, answer, call>>
<1>a. /\ LineTypes /\ at \in Steps \X {1, 2} /\ at[2] \in {1, 2}
      /\ call \in [fn : PromptFuncs, disp : {"default", "client"}]
  BY DEF LineInv, LineTypes
<1>b. ASSUME Kept, at' \in Steps \X {1, 2},
             \/ at'[1] = at[1]
             \/ at[1] \in Early /\ at'[1] \in Early \cup {"client"}
             \/ at[1] \in BeingRead /\ at'[1] \in BeingRead
             \/ at[1] \in Late /\ at'[1] \in Late
      PROVE  LineInv'
  BY <1>a, <1>b, SameStage
<1>1. CASE CallPrompt
  <2>1. /\ at' = <<"open", 1>> /\ pos' = [p |-> 0, pf_len |-> 0] /\ typed' = <<>>
        /\ answer' = NoChar /\ gap' = -1
        /\ \E fn \in PromptFuncs : call' = [call EXCEPT !.fn = fn]
        /\ mem' = IF call'.fn = "I2ReadPassPhrase" THEN [i \in 1..BufSize |-> NoChar]
                  ELSE IF call.fn = "I2ReadPassPhrase" THEN <<>> ELSE mem
    BY <1>1 DEF CallPrompt, Goto
  <2>2. /\ call' \in [fn : PromptFuncs, disp : {"default", "client"}]
        /\ ~Alloc' => call'.fn = "I2ReadPassPhrase"
    BY <1>a, <2>1 DEF PromptFuncs, Alloc
  <2>3. /\ [i \in 1..BufSize |-> NoChar] \in Seq(Cell)
        /\ Len([i \in 1..BufSize |-> NoChar]) = BufSize
    BY PromptAssumption DEF Cell
  <2>4. mem' \in Seq(Cell)
    BY <1>a, <2>1, <2>3 DEF LineTypes
  <2>5. LineTypes'
    BY <2>1, <2>2, <2>4 DEF LineTypes, Steps
  <2>6. Room'
    BY <2>1, <2>2, <2>3 DEF Room
  <2>7. Len(mem') \in Nat
    BY <2>4
  <2>8. InBuffer'
    <3>1. at'[1] = "open" /\ pos'.p = 0 /\ pos'.pf_len = 0
      BY <2>1
    <3> QED BY <2>7, <3>1 DEF InBuffer
  <2>9. Filled' /\ Together' /\ Ended' /\ Answered'
    <3>1. at'[1] = "open"
      BY <2>1
    <3> QED BY <3>1 DEF Filled, Together, Ended, Answered, BeingRead, Late
  <2> QED BY <2>5, <2>6, <2>8, <2>9 DEF LineInv
<1>2. CASE SetDisposition
  <2>1. /\ UNCHANGED <<mem, pos, typed, gap, answer, at>>
        /\ call' = [call EXCEPT !.disp = "client"]
    BY <1>2 DEF SetDisposition
  <2>2. call' \in [fn : PromptFuncs, disp : {"default", "client"}] /\ call'.fn = call.fn
    BY <1>a, <2>1
  <2> QED BY <1>a, <2>1, <2>2, SameStage
<1>3. CASE OpenInput
  <2>1. Kept /\ at[1] = "open" /\ (at' = <<"catch", 1>> \/ at' = <<"client", 1>>)
    BY <1>3 DEF OpenInput, At, Goto
  <2> QED BY <1>b, <2>1 DEF Early, Steps
<1>4. CASE CatchSignal
  <2>1. Kept /\ at[1] = "catch" /\ ((at' = <<at[1], at[2] + 1>> /\ at[2] < 2)
                                    \/ at' = <<"echo_off", 1>>)
    BY <1>4 DEF CatchSignal, At, NextSignal
  <2>2. at' \in Steps \X {1, 2} /\ at'[1] \in Early /\ at[1] \in Early
    BY <1>a, <2>1 DEF Steps, Early
  <2> QED BY <1>b, <2>1, <2>2
<1>5. CASE EchoOff
  <2>1. /\ at[1] = "echo_off" /\ at' = <<"read", 1>> /\ typed' = <<>>
        /\ pos' = [pos EXCEPT !.p = 0] /\ gap' = -1
        /\ UNCHANGED <<mem, answer, call>>
    BY <1>5 DEF EchoOff, At, Goto
  <2>2. Alloc' = Alloc /\ Room' /\ LineTypes'
    <3>1. Alloc' = Alloc
      BY <2>1 DEF Alloc
    <3>2. Room'
      BY <1>a, <2>1, <3>1 DEF LineInv, Room
    <3>3. at' \in Steps \X {1, 2}
      BY <2>1 DEF Steps
    <3>4. pos \in [p : Nat, pf_len : Nat] /\ mem \in Seq(Cell)
      BY <1>a DEF LineTypes
    <3>5. pos' \in [p : Nat, pf_len : Nat]
      BY <2>1, <3>4
    <3>6. typed' \in Seq(Char) /\ mem' = mem /\ call' = call /\ gap' \in Nat \cup {-1}
      BY <2>1
    <3>7. LineTypes'
      BY <1>a, <3>3, <3>4, <3>5, <3>6, Zenon DEF LineTypes
    <3> QED BY <3>1, <3>2, <3>7
  <2>3. pos'.p = 0 /\ pos'.pf_len = pos.pf_len /\ Len(mem) \in Nat /\ pos.pf_len \in Nat
    BY <1>a, <2>1 DEF LineTypes
  <2>4. Held' = 0 /\ Sure' = 0
    BY <2>1, <2>3, PromptAssumption DEF Held, Whole, Sure
  <2>5. Filled' /\ Together' /\ Ended' /\ Answered'
    BY <2>1, <2>3, <2>4 DEF Filled, Together, Ended, Answered, Late
  <2>6. InBuffer'
    BY <2>1, <2>2, <2>3 DEF LineInv, InBuffer
  <2> QED BY <2>2, <2>5, <2>6 DEF LineInv
<1>6. CASE ReadChar
  BY <1>6, ReadCharStep
<1>7. CASE ReadLast
  <2>1. Kept /\ at[1] = "read" /\ at' = <<"terminate", 1>>
    BY <1>7 DEF ReadLast, At, Goto
  <2> QED BY <1>b, <2>1 DEF BeingRead, Steps
<1>8. CASE Terminate
  BY <1>8, TerminateStep
<1>9. CASE EchoOn
  <2>1. Kept /\ at[1] = "echo_on" /\ at' = <<"release", 1>>
    BY <1>9 DEF EchoOn, At, Goto
  <2> QED BY <1>b, <2>1 DEF Late, Steps
<1>10. CASE ReleaseSignal
  <2>1. Kept /\ at[1] = "release" /\ ((at' = <<at[1], at[2] + 1>> /\ at[2] < 2)
                                      \/ at' = <<"resend", 1>>)
    BY <1>10 DEF ReleaseSignal, At, NextSignal
  <2>2. at' \in Steps \X {1, 2} /\ at'[1] \in Late /\ at[1] \in Late
    BY <1>a, <2>1 DEF Steps, Late
  <2> QED BY <1>b, <2>1, <2>2
<1>11. CASE Resend
  <2>1. at[1] = "resend" /\ UNCHANGED <<mem, pos, typed, gap, call>>
    BY <1>11 DEF Resend, At
  <2>2. Alloc' = Alloc /\ LineRead' = LineRead
    BY <2>1 DEF Alloc, LineRead, Whole
  <2>3. CASE ReturnAnswer
    <3>1. at' = <<"client", 1>> /\ answer' \in {NoChar, Text}
      BY <2>3 DEF ReturnAnswer, Goto
    <3>2. LineTypes' /\ Room' /\ InBuffer'
      BY <1>a, <2>1, <3>1 DEF LineTypes, Room, InBuffer, Steps
    <3>3. IF gap # -1 THEN IsPrefix(SubSeq(typed, 1, gap), Text) ELSE Text = LineRead
      BY <2>1, TextIsLine DEF LineInv, Late
    <3>4. Filled' /\ Together' /\ Ended'
      BY <3>1 DEF Filled, Together, Ended, BeingRead, Late
    <3>5. Answered'
      BY <2>1, <2>2, <3>1, <3>3 DEF Answered
    <3> QED BY <3>2, <3>4, <3>5 DEF LineInv
  <2>4. CASE at' = <<"open", 1>> /\ answer' = answer
    <3>1. LineTypes' /\ Room' /\ InBuffer'
      BY <1>a, <2>1, <2>2, <2>4 DEF LineInv, LineTypes, Room, InBuffer, Steps
    <3>2. Filled' /\ Together' /\ Ended' /\ Answered'
      BY <2>4 DEF Filled, Together, Ended, Answered, BeingRead, Late
    <3> QED BY <3>1, <3>2 DEF LineInv
  <2> QED BY <1>11, <2>3, <2>4 DEF Resend, Goto
<1>12. CASE OutOfMemory
  <2>1. /\ at' = <<"client", 1>> /\ mem' = <<>> /\ answer' = NoChar
        /\ UNCHANGED <<call, pos, typed, gap>>
    BY <1>12 DEF OutOfMemory, Goto
  <2>2. LineTypes' /\ Room'
    BY <1>a, <2>1 DEF LineTypes, Room, Steps
  <2>3. InBuffer' /\ Filled' /\ Together' /\ Ended' /\ Answered'
    BY <2>1 DEF InBuffer, Filled, Together, Ended, Answered, Early, BeingRead, Late
  <2> QED BY <2>2, <2>3 DEF LineInv
<1>13. ASSUME NEW s \in Sig, Signal(s) PROVE LineInv'
  <2>1. Kept /\ (at' = at \/ (at[1] = "read" /\ at' = <<"terminate", 1>>))
    <3>1. Kept
      BY <1>13 DEF Signal
    <3>2. at' = at \/ (at[1] = "read" /\ at' = <<"terminate", 1>>)
      BY <1>13 DEF Signal, Goto
    <3> QED BY <3>1, <3>2
  <2>2. CASE at' = at
    BY <1>a, <1>b, <2>1, <2>2
  <2>3. CASE at[1] = "read" /\ at' = <<"terminate", 1>>
    BY <1>b, <2>1, <2>3 DEF BeingRead, Steps
  <2> QED BY <2>1, <2>2, <2>3
<1>14. CASE Continue
  BY <1>14, <1>a, <1>b DEF Continue
<1>15. CASE UNCHANGED promptVars
  BY <1>15, <1>a, <1>b DEF promptVars
<1> QED BY <1>1, <1>2, <1>3, <1>4, <1>5, <1>6, <1>7, <1>8, <1>9, <1>10, <1>11, <1>12, <1>13,
            <1>14, <1>15 DEF PromptNext, PromptStep

(* Whatever is typed, whatever the sizes of the buffers and however often   *)
(* the prompt starts over, the answer is the line, cut to what a buffer of  *)
(* the caller's holds (readpassphrase.c:170, 329); where a buffer grew with *)
(* p behind pf_len it still begins with what was typed before.              *)
THEOREM LineReturned == PromptSpec => []AnswerIsTheLine
<1>1. LineInv => AnswerIsTheLine
  BY DEF LineInv, Answered, LineRead, Whole, AnswerIsTheLine
<1> QED BY LineInit, LineStep, <1>1, PTL DEF PromptSpec
-----------------------------------------------------------------------------
(*                     Types of what a call returns                        *)

ReturnTypes ==
    /\ answer \in Seq(Cell) \cup {NoChar}
    /\ nr \in {-1, 0, 1} /\ prompts \in 0..MaxPrompts

LEMMA ReturnInit == PromptInit => ReturnTypes
BY PromptAssumption DEF PromptInit, ReturnTypes

LEMMA ReturnTypesStep == LineInv /\ ReturnTypes /\ [PromptNext]_promptVars => ReturnTypes'
<1> SUFFICES ASSUME LineInv, ReturnTypes, [PromptNext]_promptVars PROVE ReturnTypes'
  OBVIOUS
<1> USE PromptAssumption DEF Buffer
<1>1. CASE CallPrompt
  BY <1>1 DEF CallPrompt, ReturnTypes
<1>2. CASE SetDisposition
  BY <1>2 DEF SetDisposition, ReturnTypes
<1>3. CASE OpenInput
  BY <1>3 DEF OpenInput, ReturnTypes
<1>4. CASE CatchSignal
  BY <1>4 DEF CatchSignal, ReturnTypes
<1>5. CASE EchoOff
  BY <1>5 DEF EchoOff, ReturnTypes
<1>6. CASE ReadChar
  BY <1>6 DEF ReadChar, ReturnTypes
<1>7. CASE ReadLast
  BY <1>7 DEF ReadLast, ReturnTypes
<1>8. CASE Terminate
  BY <1>8 DEF Terminate, ReturnTypes
<1>9. CASE EchoOn
  BY <1>9 DEF EchoOn, ReturnTypes
<1>10. CASE ReleaseSignal
  BY <1>10 DEF ReleaseSignal, ReturnTypes
<1>11. CASE Resend
  <2>1. at[1] = "resend" /\ UNCHANGED <<nr, prompts>> /\ answer' \in {answer, NoChar, Text}
    BY <1>11 DEF Resend, ReturnAnswer, At
  <2>2. Text \in Seq(Cell)
    BY <2>1, TextTypes DEF LineInv, Late
  <2> QED BY <2>1, <2>2 DEF ReturnTypes
<1>12. CASE OutOfMemory
  BY <1>12 DEF OutOfMemory, ReturnTypes
<1>13. ASSUME NEW s \in Sig, Signal(s) PROVE ReturnTypes'
  BY <1>13 DEF Signal, ReturnTypes
<1>14. CASE Continue
  BY <1>14 DEF Continue, ReturnTypes
<1>15. CASE UNCHANGED promptVars
  BY <1>15 DEF promptVars, ReturnTypes
<1> QED BY <1>1, <1>2, <1>3, <1>4, <1>5, <1>6, <1>7, <1>8, <1>9, <1>10, <1>11, <1>12, <1>13,
            <1>14, <1>15 DEF PromptNext, PromptStep

(* Every variable keeps its type: also what is returned when a restart has  *)
(* left pf_len behind (readpassphrase.c:329) is a line that ends within the *)
(* buffer.                                                                  *)
THEOREM PromptTyped == PromptSpec => []PromptTypeOK
<1>1. ControlInv /\ SignalInv /\ LineInv /\ ReturnTypes => PromptTypeOK
  <2> SUFFICES ASSUME ControlInv, SignalInv, LineInv, ReturnTypes PROVE PromptTypeOK
    OBVIOUS
  <2>1. at \in Steps \X DOMAIN Signals
    BY SignalFacts DEF ControlInv, ControlTypes
  <2> QED BY <2>1 DEF ControlInv, ControlTypes, SignalInv, SignalTypes, LineInv, LineTypes,
                      ReturnTypes, PromptTypeOK, Steps, Cell
<1> QED BY ControlInit, ControlStep, SignalInit, SignalStep, LineInit, LineStep, ReturnInit,
           ReturnTypesStep, <1>1, PTL DEF PromptSpec
=============================================================================
