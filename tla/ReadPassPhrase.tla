--------------------------- MODULE ReadPassPhrase ---------------------------
(***************************************************************************)
(* Prompting for a pass phrase (I2util/readpassphrase.c): signals are      *)
(* caught, echo is turned off, a line is read, everything is put back, and *)
(* a signal that came meanwhile is sent again.  After a stop the prompt is *)
(* made again.  I2ReadPassPhrase fills a buffer of the caller's;           *)
(* I2ReadPassPhraseAlloc one that grows and is kept from call to call.     *)
(*                                                                         *)
(* Two signals stand for the seven: INT (for HUP, QUIT, TERM) ends a       *)
(* process by default, TSTP (for TTIN, TTOU) stops it.                     *)
(***************************************************************************)
EXTENDS Integers, SequencesExt

CONSTANTS
    Typing,      \* what the user types, or a beginning of it
    NoChar,      \* NULL: no signal, no answer, no character
    BufSize,     \* size of the caller's buffer
    LineBufInc,  \* I2LINEBUFINC
    MaxPrompts,  \* bound: calls made
    MaxSignals   \* bound: signals sent

ASSUME PromptAssumption ==
    /\ Typing \in Seq(Range(Typing))
    /\ "nul" \notin Range(Typing)
    /\ NoChar \notin Range(Typing) \cup {"INT", "TSTP", "nul"}
    /\ BufSize \in Nat \ {0} /\ LineBufInc \in Nat \ {0}
    /\ MaxPrompts \in Nat /\ MaxSignals \in Nat

VARIABLES
    at,        \* where the process is: "client", or a step of the functions
    proc,      \* "running", "stopped" or "dead"
    call,      \* the function that is called, and what signals do to its client
    input,     \* what is read from is open
    echo,      \* the terminal echoes
    caught,    \* the signals handled by handler()
    saved,     \* what sigaction() and tcgetattr() returned
    signo,
    sent, got, \* signals sent to the process, and left to the client's action
    mem,       \* the buffer; NoChar where nothing was written
    pos,       \* p and pf_len
    nr,        \* what read() returned last
    typed,     \* not in the code: the characters read since the prompt
    answer,    \* what the last call returned
    oom,       \* an allocation failed
    gap,       \* not in the code, nor the next two: the characters read when
               \* the buffer grew with p behind pf_len, or -1
    stale,     \* calls begun with the INT of an earlier one in signo
    merged,    \* signals that another overtook in signo
    prompts

promptVars == <<at, proc, call, input, echo, caught, saved, signo, sent, got,
                mem, pos, nr, typed, answer, oom, gap, stale, merged, prompts>>

Signals == <<"INT", "TSTP">>
Sig == Range(Signals)
Char == Range(Typing)
PromptFuncs == {"I2ReadPassPhrase", "I2ReadPassPhraseAlloc"}

PromptTypeOK ==
    /\ at \in {"client", "open", "catch", "echo_off", "read", "terminate", "echo_on",
               "release", "resend"} \X DOMAIN Signals
    /\ proc \in {"running", "stopped", "dead"}
    /\ call \in [fn : PromptFuncs, disp : {"default", "client"}]
    /\ input \in BOOLEAN /\ echo \in BOOLEAN
    /\ caught \subseteq Sig
    /\ saved \in [echo : BOOLEAN, caught : SUBSET Sig]
    /\ signo \in Sig \cup {NoChar}
    /\ sent \in [Sig -> Nat] /\ got \in [Sig -> Nat]
    /\ mem \in Seq(Char \cup {"nul", NoChar})
    /\ pos \in [p : Nat, pf_len : Nat]
    /\ nr \in {-1, 0, 1}
    /\ typed \in Seq(Char)
    /\ answer \in Seq(Char \cup {"nul", NoChar}) \cup {NoChar}
    /\ oom \in BOOLEAN /\ gap \in Nat \cup {-1}
    /\ stale \in Nat /\ merged \in [Sig -> Nat]
    /\ prompts \in 0..MaxPrompts

PromptInit ==
    /\ at = <<"client", 1>> /\ proc = "running"
    /\ call = [fn |-> "I2ReadPassPhrase", disp |-> "default"]
    /\ input = FALSE /\ echo = TRUE
    /\ caught = {}
    /\ saved = [echo |-> TRUE, caught |-> {}]
    /\ signo = NoChar
    /\ sent = [s \in Sig |-> 0] /\ got = [s \in Sig |-> 0]
    /\ mem = <<>> /\ pos = [p |-> 0, pf_len |-> 0]
    /\ nr = 0 /\ typed = <<>> /\ answer = NoChar
    /\ oom = FALSE /\ gap = -1 /\ stale = 0 /\ merged = [s \in Sig |-> 0]
    /\ prompts = 0

(* The steps of the functions, grouped by the variables they leave alone.   *)
At(step) == at[1] = step /\ proc = "running"
Goto(step) == at' = <<step, 1>>
Signalling == <<signo, sent, got, proc, stale, merged>>
Buffer == <<mem, pos, nr, typed, oom, gap>>
Terminal == <<input, echo, caught, saved>>
-----------------------------------------------------------------------------
(* The client calls.  What signals do to it (disp) it chose before: they    *)
(* end or stop it, or it catches or ignores them.  signo may still hold the *)
(* INT of an earlier call.                                                  *)
CallPrompt ==
    /\ At("client") /\ prompts < MaxPrompts
    /\ prompts' = prompts + 1
    /\ \E fn \in PromptFuncs : call' = [call EXCEPT !.fn = fn]
    /\ mem' = IF call'.fn = "I2ReadPassPhrase" THEN [i \in 1..BufSize |-> NoChar]
              ELSE IF call.fn = "I2ReadPassPhrase" THEN <<>> ELSE mem
    /\ pos' = [p |-> 0, pf_len |-> 0]
    /\ Goto("open")
    /\ typed' = <<>> /\ gap' = -1 /\ answer' = NoChar
    /\ stale' = IF signo = "INT" THEN stale + 1 ELSE stale
    /\ UNCHANGED <<proc, Terminal, signo, sent, got, merged, nr, oom>>

(* restart: /dev/tty, or standard input; neither where I2RPP_REQUIRE_TTY    *)
(* asks for /dev/tty and it cannot be opened.                               *)
OpenInput ==
    /\ At("open")
    /\ \/ /\ input' = TRUE
          /\ Goto("catch")
       \/ /\ Goto("client")
          /\ UNCHANGED input
    /\ UNCHANGED <<call, echo, caught, saved, Signalling, Buffer, answer, prompts>>

(* The code's sequence of sigaction() calls, one signal after the other.    *)
NextSignal(then) == at' = IF at[2] < Len(Signals) THEN <<at[1], at[2] + 1>> ELSE <<then, 1>>

CatchSignal ==
    /\ At("catch")
    /\ LET s == Signals[at[2]]
       IN /\ saved' = [saved EXCEPT !.caught = (@ \ {s}) \cup (caught \cap {s})]
          /\ caught' = caught \cup {s}
    /\ NextSignal("echo_off")
    /\ UNCHANGED <<call, input, echo, Signalling, Buffer, answer, prompts>>

(* Mutant: the start of the buffer is taken before the restart label. *)
EchoOff_KeepsP ==
    /\ At("echo_off")
    /\ saved' = [saved EXCEPT !.echo = echo]
    /\ echo' \in {FALSE, echo}
    /\ Goto("read")
    /\ typed' = <<>> /\ gap' = -1
    /\ UNCHANGED <<call, input, caught, Signalling, mem, pos, nr, oom, answer, prompts>>

(* Echo is turned off (not if I2RPP_ECHO_ON, or if the input is no terminal) *)
(* and the prompt written.                                                   *)
EchoOff ==
    /\ At("echo_off")
    /\ saved' = [saved EXCEPT !.echo = echo]
    /\ echo' \in {FALSE, echo}
    /\ Goto("read")
    /\ pos' = [pos EXCEPT !.p = 0]
    /\ typed' = <<>> /\ gap' = -1
    /\ UNCHANGED <<call, input, caught, Signalling, mem, nr, oom, answer, prompts>>
-----------------------------------------------------------------------------
(* Room for one more character and the terminating one. *)
Alloc == call.fn = "I2ReadPassPhraseAlloc"
Full == Alloc /\ pos.pf_len + 1 > Len(mem)
Apart == Full /\ pos.p # pos.pf_len
Grown == mem \o [i \in 1..LineBufInc |-> NoChar]

(* A character is put at p, or at pf_len when the buffer had to grow; a     *)
(* buffer that does not grow drops what does not fit.  pf_len is not set    *)
(* back when the prompt is made again: p jumps over what is between them.   *)
Stored(c) ==
    IF Alloc
    THEN LET p == IF Full THEN pos.pf_len ELSE pos.p
         IN /\ mem' = [(IF Full THEN Grown ELSE mem) EXCEPT ![p + 1] = c]
            /\ pos' = [p |-> p + 1, pf_len |-> pos.pf_len + 1]
    ELSE IF pos.p < Len(mem) - 1
    THEN mem' = [mem EXCEPT ![pos.p + 1] = c] /\ pos' = [pos EXCEPT !.p = @ + 1]
    ELSE UNCHANGED <<mem, pos>>

ReadChar ==
    /\ At("read") /\ Len(typed) < Len(Typing)
    /\ LET c == Typing[Len(typed) + 1] IN Stored(c) /\ typed' = Append(typed, c)
    /\ gap' = IF Apart THEN Len(typed) ELSE gap
    /\ nr' = 1
    /\ UNCHANGED <<at, call, Terminal, Signalling, oom, answer, prompts>>

(* A newline, the end of the input, or an error. *)
ReadLast ==
    /\ At("read")
    /\ nr' \in {-1, 0, 1}
    /\ Goto("terminate")
    /\ UNCHANGED <<call, Terminal, Signalling, mem, pos, typed, oom, gap, answer, prompts>>

(* realloc() fails: the function returns at once, with nothing put back.    *)
(* (The size it asked for is kept beside the NULL pointer; a client must    *)
(* start again with an empty buffer, and its callers exit.)                 *)
OutOfMemory ==
    /\ (At("read") /\ Len(typed) < Len(Typing)) \/ At("terminate")
    /\ Full
    /\ oom' = TRUE
    /\ mem' = <<>> /\ answer' = NoChar
    /\ Goto("client")
    /\ UNCHANGED <<call, Terminal, Signalling, pos, nr, typed, gap, prompts>>

Terminate ==
    /\ At("terminate")
    /\ LET p == IF Full THEN pos.pf_len ELSE pos.p
       IN /\ mem' = [(IF Full THEN Grown ELSE mem) EXCEPT ![p + 1] = "nul"]
          /\ pos' = [pos EXCEPT !.p = p]
    /\ gap' = IF Apart THEN Len(typed) ELSE gap
    /\ Goto("echo_on")
    /\ UNCHANGED <<call, Terminal, Signalling, nr, typed, oom, answer, prompts>>
-----------------------------------------------------------------------------
(* Mutant: an interrupted read returns before the terminal is restored. *)
EchoOn_Answered ==
    /\ At("echo_on")
    /\ echo' = IF nr = -1 THEN echo ELSE saved.echo
    /\ Goto("release")
    /\ UNCHANGED <<call, input, caught, saved, Signalling, Buffer, answer, prompts>>

(* What it was is put back: the terminal first, then the signals. *)
EchoOn ==
    /\ At("echo_on")
    /\ echo' = saved.echo
    /\ Goto("release")
    /\ UNCHANGED <<call, input, caught, saved, Signalling, Buffer, answer, prompts>>

ReleaseSignal ==
    /\ At("release")
    /\ caught' = caught \ ({Signals[at[2]]} \ saved.caught)
    /\ NextSignal("resend")
    /\ UNCHANGED <<call, input, echo, saved, Signalling, Buffer, answer, prompts>>

(* What a signal does that is not caught by handler(). *)
Deliver(s) ==
    /\ got' = [got EXCEPT ![s] = @ + 1]
    /\ proc' = IF call.disp = "client" THEN proc
               ELSE IF s = "INT" THEN "dead" ELSE "stopped"

Text == SubSeq(mem, 1, CHOOSE i \in 0..Len(mem) : mem[i + 1] = "nul"
                                               /\ \A j \in 1..i : mem[j] # "nul")

ReturnAnswer ==
    /\ Goto("client")
    /\ answer' = IF nr = -1 THEN NoChar ELSE Text

(* Mutant: signo is not reset before the prompt is made again. *)
Resend_Again ==
    /\ At("resend")
    /\ input' = FALSE
    /\ IF signo = NoChar
       THEN ReturnAnswer /\ UNCHANGED <<signo, got, proc>>
       ELSE /\ IF signo \in caught THEN UNCHANGED <<got, proc>> ELSE Deliver(signo)
            /\ IF signo = "TSTP"
               THEN signo' = signo /\ Goto("open") /\ UNCHANGED answer
               ELSE ReturnAnswer /\ UNCHANGED signo
    /\ UNCHANGED <<call, echo, caught, saved, sent, stale, merged, Buffer, prompts>>

(* Mutant: a read that fails is taken for one that a stop interrupted. *)
Resend_OnError ==
    /\ At("resend")
    /\ input' = FALSE
    /\ signo' = NoChar
    /\ IF signo \in caught \cup {NoChar} THEN UNCHANGED <<got, proc>> ELSE Deliver(signo)
    /\ IF nr = -1 THEN Goto("open") /\ pos' = [p |-> 0, pf_len |-> 0] /\ UNCHANGED answer
       ELSE ReturnAnswer /\ UNCHANGED pos
    /\ UNCHANGED <<call, echo, caught, saved, sent, stale, merged, mem, nr, typed, oom, gap,
                   prompts>>

(* The signal that came is sent again: TSTP and then the prompt again; INT  *)
(* only if the client survives it, and then signo keeps it.  (handler()     *)
(* gets it when a call that ran out of memory left that installed.)         *)
Resend ==
    /\ At("resend")
    /\ input' = FALSE
    /\ IF signo = NoChar
       THEN ReturnAnswer /\ UNCHANGED <<signo, got, proc>>
       ELSE /\ IF signo \in caught THEN UNCHANGED <<got, proc>> ELSE Deliver(signo)
            /\ IF signo = "TSTP"
               THEN signo' = NoChar /\ Goto("open") /\ UNCHANGED answer
               ELSE ReturnAnswer /\ UNCHANGED signo
    /\ UNCHANGED <<call, echo, caught, saved, sent, stale, merged, Buffer, prompts>>
-----------------------------------------------------------------------------
(* A signal arrives.  While the process waits in read(), the read ends; a   *)
(* signal just before it is seen only after the line.                       *)
Signal(s) ==
    /\ proc = "running" /\ sent["INT"] + sent["TSTP"] < MaxSignals
    /\ sent' = [sent EXCEPT ![s] = @ + 1]
    /\ \/ /\ s \notin caught /\ Deliver(s)
          /\ UNCHANGED <<signo, merged, at, nr>>
       \/ /\ s \in caught /\ signo' = s
          /\ merged' = IF signo = NoChar THEN merged ELSE [merged EXCEPT ![signo] = @ + 1]
          /\ UNCHANGED <<got, proc>>
          /\ \/ UNCHANGED <<at, nr>>
             \/ at[1] = "read" /\ Goto("terminate") /\ nr' = -1
    /\ UNCHANGED <<call, Terminal, mem, pos, typed, oom, gap, answer, stale, prompts>>

Continue ==
    /\ proc = "stopped" /\ proc' = "running"
    /\ UNCHANGED <<at, call, Terminal, signo, sent, got, Buffer, answer, stale, merged,
                   prompts>>

(* A client may catch or ignore the signals itself. *)
SetDisposition ==
    /\ At("client") /\ prompts = 0
    /\ call' = [call EXCEPT !.disp = "client"]
    /\ UNCHANGED <<at, Terminal, Signalling, Buffer, answer, prompts>>

PromptStep ==
    \/ OpenInput \/ CatchSignal \/ EchoOff \/ ReadChar \/ ReadLast \/ Terminate
    \/ EchoOn \/ ReleaseSignal \/ Resend

PromptNext ==
    \/ CallPrompt \/ SetDisposition \/ PromptStep \/ OutOfMemory
    \/ \E s \in Sig : Signal(s)
    \/ Continue

PromptSpec == PromptInit /\ [][PromptNext]_promptVars
-----------------------------------------------------------------------------
(*                              Properties                                 *)

(* Whenever the user is back at a shell (the process was stopped or killed, *)
(* at any point) or the client has the control, the terminal echoes again,  *)
(* the client's signal actions are in place, and the terminal is closed.    *)
(* readpassphrase.c:124: "Catch signals that would otherwise cause the user *)
(* to end up with echo turned off in the shell".  Not after an allocation   *)
(* failed.                                                                  *)
NothingLeftBehind ==
    oom \/ /\ proc # "running" => echo
           /\ at[1] = "client" => echo /\ caught = {} /\ ~input

(* The answer is what was typed at the last prompt, as much of it as a      *)
(* buffer of the caller's holds, however often the process was stopped      *)
(* before.  I2ReadPassPhraseAlloc keeps pf_len when the prompt is made      *)
(* again: if its buffer grows then, and something had been typed before,    *)
(* only the characters typed until then are sure to begin the answer.       *)
AnswerIsTheLine ==
    at[1] = "client" /\ answer # NoChar =>
        IF gap # -1 THEN IsPrefix(SubSeq(typed, 1, gap), answer)
        ELSE answer = IF Alloc \/ Len(typed) < BufSize THEN typed
                      ELSE SubSeq(typed, 1, BufSize - 1)

(* The client gets no signal that was not sent, however often the prompt is *)
(* made again: what handler() swallowed is resent once, but an INT that the *)
(* client survives stays in signo and is resent by every later call too.    *)
(* And when a call returns none is lost: every signal that was sent has     *)
(* reached the client, or another overtook it while it waited in signo.     *)
(* (Not when an allocation failed and left the handler.)                    *)
SignalsAreResent ==
    /\ got["TSTP"] <= sent["TSTP"]
    /\ got["INT"] <= sent["INT"] + stale
    /\ at[1] = "client" /\ ~oom => \A s \in Sig : sent[s] <= got[s] + merged[s]

(* A prompt ends, with an answer or with the process, stops notwithstanding. *)
PromptEnds == at[1] # "client" ~> at[1] = "client" \/ proc = "dead"
=============================================================================
