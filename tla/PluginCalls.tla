----------------------------- MODULE PluginCalls -----------------------------
(***************************************************************************)
(* How a flow calls a plugin's script (internal/plugin/js/plugin.go).      *)
(*                                                                         *)
(* One goroutine owns the script's VM and takes calls from an unbuffered   *)
(* mailbox; a caller waits a bounded time for its call to be taken and a   *)
(* bounded time for the answer, and goes on without the plugin when either *)
(* runs out.  A timer interrupts a script that runs too long.  Stopping    *)
(* the timer does not wait for a callback that has begun, so that callback *)
(* may interrupt the VM after run has cleared it: `late` below.            *)
(***************************************************************************)
EXTENDS Naturals, FiniteSets

CONSTANTS
    PluginCallers,  \* the calls, one flow's hook each
    Endless         \* those whose script does not end by itself

Nobody == "nobody"

ASSUME CallsAssumption == Endless \subseteq PluginCallers /\ Nobody \notin PluginCallers

VARIABLES
    calls,    \* the calls: where the caller is and what it was answered
    reply,    \* the reply channel of each call, with room for one answer
    loop,     \* the goroutine that owns the VM, and the call it runs
    timer,    \* the watchdog of each call
    flag,     \* whose callback interrupted the VM, if any did
    quit      \* whether Close was called

callVars == <<calls, reply, loop, timer, flag, quit>>

CallsInit ==
    /\ calls = [c \in PluginCallers |-> [at |-> "idle", got |-> "none"]]
    /\ reply = [c \in PluginCallers |-> "empty"]
    /\ loop = [at |-> "waits", job |-> Nobody, out |-> "none"]
    /\ timer = [c \in PluginCallers |-> "off"]
    /\ flag = Nobody
    /\ quit = FALSE

\* dispatch
Dispatch(c) ==
    /\ calls[c].at = "idle"
    /\ calls' = [calls EXCEPT ![c].at = "offers"]
    /\ UNCHANGED <<reply, loop, timer, flag, quit>>

\* The mailbox: the loop takes the call, arms its watchdog and starts the script.
Accept(c) ==
    /\ calls[c].at = "offers" /\ loop.at = "waits"
    /\ calls' = [calls EXCEPT ![c].at = "waits"]
    /\ loop' = [at |-> "runs", job |-> c, out |-> "none"]
    /\ timer' = [timer EXCEPT ![c] = "armed"]
    /\ UNCHANGED <<reply, flag, quit>>

\* Nobody takes it in time, or the plugin is closed: the flow goes on.
GiveUpOffer(c) ==
    /\ calls[c].at = "offers"
    /\ calls' = [calls EXCEPT ![c] = [at |-> "done", got |-> "nothing"]]
    /\ UNCHANGED <<reply, loop, timer, flag, quit>>

TakeReply(c) ==
    /\ calls[c].at = "waits" /\ reply[c] # "empty"
    /\ calls' = [calls EXCEPT ![c] = [at |-> "done", got |-> reply[c]]]
    /\ reply' = [reply EXCEPT ![c] = "empty"]
    /\ UNCHANGED <<loop, timer, flag, quit>>

GiveUpReply(c) ==
    /\ calls[c].at = "waits"
    /\ calls' = [calls EXCEPT ![c] = [at |-> "done", got |-> "nothing"]]
    /\ UNCHANGED <<reply, loop, timer, flag, quit>>

----------------------------------------------------------------------------
(* run                                                                     *)

\* A script that is soon over may not notice that it was interrupted.
ScriptEnds ==
    /\ loop.at = "runs" /\ loop.job \notin Endless
    /\ loop' = [loop EXCEPT !.at = "stop", !.out = "answer"]
    /\ UNCHANGED <<calls, reply, timer, flag, quit>>

ScriptInterrupted ==
    /\ loop.at = "runs" /\ flag # Nobody
    /\ loop' = [loop EXCEPT !.at = "stop", !.out = "nothing"]
    /\ UNCHANGED <<calls, reply, timer, flag, quit>>

\* AfterFunc: the callback starts on a goroutine of its own.
Watches(c) == timer[c] = "armed"

TimerFires(c) ==
    /\ Watches(c)
    /\ timer' = [timer EXCEPT ![c] = "fired"]
    /\ UNCHANGED <<calls, reply, loop, flag, quit>>

Interrupt(c) ==
    /\ timer[c] \in {"fired", "late"}
    /\ flag' = c
    /\ timer' = [timer EXCEPT ![c] = IF @ = "late" THEN "late over" ELSE "over"]
    /\ UNCHANGED <<calls, reply, loop, quit>>

\* timer.Stop: a callback that has begun is not waited for.
Stopped(t) == IF t = "armed" THEN "stopped" ELSE IF t = "fired" THEN "late" ELSE t

StopTimer ==
    /\ loop.at = "stop"
    /\ loop' = [loop EXCEPT !.at = "clear"]
    /\ timer' = [timer EXCEPT ![loop.job] = Stopped(@)]
    /\ UNCHANGED <<calls, reply, flag, quit>>

\* Mutant of Cleared: the interrupt stays for the next script.
ClearedNot(by) == by

Cleared(by) == Nobody

ClearInterrupt ==
    /\ loop.at = "clear"
    /\ loop' = [loop EXCEPT !.at = "reply"]
    /\ flag' = Cleared(flag)
    /\ UNCHANGED <<calls, reply, timer, quit>>

HasRoom(c) == reply[c] = "empty"

SendAnswer ==
    /\ loop.at = "reply" /\ HasRoom(loop.job)
    /\ reply' = [reply EXCEPT ![loop.job] = loop.out]
    /\ loop' = [at |-> "waits", job |-> Nobody, out |-> "none"]
    /\ UNCHANGED <<calls, timer, flag, quit>>

\* Close, and the loop that sees it when it next looks for a call.
Quit ==
    /\ ~quit /\ quit' = TRUE
    /\ UNCHANGED <<calls, reply, loop, timer, flag>>

LoopQuits ==
    /\ loop.at = "waits" /\ quit
    /\ loop' = [loop EXCEPT !.at = "ended"]
    /\ UNCHANGED <<calls, reply, timer, flag, quit>>

CallsNext ==
    \/ \E c \in PluginCallers :
          \/ Dispatch(c) \/ Accept(c) \/ GiveUpOffer(c) \/ TakeReply(c) \/ GiveUpReply(c)
          \/ TimerFires(c) \/ Interrupt(c)
    \/ ScriptEnds \/ ScriptInterrupted \/ StopTimer \/ ClearInterrupt \/ SendAnswer
    \/ Quit \/ LoopQuits

\* The runtime runs every goroutine that can run, and timers fire.  Nothing
\* makes a flow call, a script end or the user close a plugin.
CallsFairness ==
    /\ \A c \in PluginCallers :
          /\ WF_callVars(GiveUpOffer(c)) /\ WF_callVars(GiveUpReply(c))
          /\ WF_callVars(TimerFires(c)) /\ WF_callVars(Interrupt(c))
    /\ WF_callVars(ScriptInterrupted) /\ WF_callVars(StopTimer)
    /\ WF_callVars(ClearInterrupt) /\ WF_callVars(SendAnswer) /\ WF_callVars(LoopQuits)

CallsSpec == CallsInit /\ [][CallsNext]_callVars /\ CallsFairness

CallsTypeOK ==
    /\ calls \in [PluginCallers -> [at : {"idle", "offers", "waits", "done"},
                                    got : {"none", "nothing", "answer"}]]
    /\ reply \in [PluginCallers -> {"empty", "nothing", "answer"}]
    /\ loop.at \in {"waits", "runs", "stop", "clear", "reply", "ended"}
    /\ loop.job \in PluginCallers \cup {Nobody} /\ flag \in PluginCallers \cup {Nobody}
    /\ timer \in [PluginCallers ->
          {"off", "armed", "stopped", "fired", "late", "over", "late over"}]
    /\ quit \in BOOLEAN

\* A script that may run is interrupted only by its own watchdog or by a
\* callback that had begun when the script it watched ended: whatever was left
\* of an earlier call is cleared.  Only a script that ended answers its call.
InterruptsOwn ==
    /\ CallsTypeOK
    /\ loop.at = "runs" /\ flag # Nobody =>
          flag = loop.job \/ timer[flag] = "late over"
    /\ \A c \in PluginCallers : calls[c].got = "answer" => c \notin Endless

\* However long a script runs, the goroutine that owns the VM never keeps the call
\* of a flow that has gone on without it: the VM is free again, and when the
\* plugin is closed the goroutine ends.  (An interrupt ends JavaScript; a native
\* built-in that is at work, say a regular expression, is not interrupted.)
LoopReturns ==
    /\ loop.at = "runs" ~> loop.at \in {"waits", "ended"}
    /\ quit ~> loop.at = "ended"

=============================================================================
