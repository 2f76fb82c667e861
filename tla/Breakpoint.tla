----------------------------- MODULE Breakpoint -----------------------------
(***************************************************************************)
(* The breakpoint manager of internal/pipeline/breakpoint.go.              *)
(*                                                                         *)
(* A handler goroutine that reaches a breakpoint calls Pause: it publishes *)
(* its flow in the map `paused`, emits breakpoint_hit, and blocks until a  *)
(* UI call delivers an answer or the timer fires; it then takes the flow   *)
(* out of the map and emits breakpoint_resolved.  UI calls (Resume, Abort) *)
(* look the flow up under the lock and send on its one-slot channel after  *)
(* they have released it.                                                  *)
(*                                                                         *)
(* The Pause calls of a flow are told apart by their phase: a flow goes    *)
(* through each phase once, so <<f, ph>> stands for one *paused value and  *)
(* its channel.  A step is what the code does between two points at which  *)
(* another goroutine can observe or influence it: a critical section of    *)
(* b.mu, a channel operation, an emit.                                     *)
(***************************************************************************)
EXTENDS Naturals, FiniteSets

CONSTANTS
  Flows,         \* the flows (one handler goroutine each)
  Calls,         \* bound on the Resume and Abort calls that are under way or accepted
  MaxOpen,       \* BreakpointManager.maxOpen
  HandlerStates  \* the values of f.State the handlers write (a bound for TLC)

None   == "none"
Phases == {"request", "response"}
Pauses == Flows \X Phases

(* ResumeAction, with "edit" for a continue that carries an edited flow.   *)
Answers == {"continue", "edit", "abort"}

(* What ended a Pause: an answer, the timer, a panic of the emitter, or    *)
(* the limit on open pauses.                                               *)
Endings == Answers \cup {"timeout", "panic", "full"}

(* flow.FlowState.                                                         *)
Paused  == "paused_at_breakpoint"
Working == {"pending", "awaiting_response", "completed", "mocked",
            "blocked", "errored"}
States  == Working \cup {Paused}

ASSUME MaxOpenAssumption == MaxOpen \in Nat
ASSUME HandlerStatesAssumption == HandlerStates \subseteq Working

(* Where the handler of a flow is inside Pause.                            *)
Steps == {"idle", "hit", "select", "unpublish", "resolve"}

VARIABLES
  paused,    \* phase at which a flow is in the manager's map, None if it is not
  chan,      \* the one-slot resume channel of each Pause call
  state,     \* f.State
  prev,      \* prevState, local to Pause (None outside it)
  step, at,  \* the handler's position inside Pause, and the phase it was called for
  taken,     \* what ended each Pause call, None while it has not ended
  modified,  \* f.Modified
  announced, \* the last event emitted for each flow
  callStep, callPause, callAnswer   \* the UI calls: position, *paused held, message

pauseVars == <<paused, step, at, taken, prev, announced>>
flowVars  == <<state, modified>>
callVars  == <<callStep, callPause, callAnswer>>
bpVars    == <<pauseVars, chan, flowVars, callVars>>

Open == {f \in Flows : paused[f] # None}

TypeOK ==
  /\ paused \in [Flows -> Phases \cup {None}]
  /\ chan \in [Pauses -> Answers \cup {None}]
  /\ state \in [Flows -> States]
  /\ prev \in [Flows -> States \cup {None}]
  /\ step \in [Flows -> Steps]
  /\ at \in [Flows -> Phases \cup {None}]
  /\ \A f \in Flows : step[f] # "idle" => at[f] \in Phases
  /\ taken \in [Pauses -> Endings \cup {None}]
  /\ modified \in [Flows -> BOOLEAN]
  /\ announced \in [Flows -> {None, "hit", "resolved"}]
  /\ callStep \in [Calls -> {"idle", "send", "accepted"}]
  /\ callPause \in [Calls -> Pauses \cup {<<>>}]
  /\ callAnswer \in [Calls -> Answers \cup {None}]
  /\ \A c \in Calls : callStep[c] # "idle" =>
        callPause[c] \in Pauses /\ callAnswer[c] \in Answers
  /\ \A f \in Flows : step[f] # "idle" => prev[f] \in States

Init ==
  /\ paused = [f \in Flows |-> None]
  /\ chan = [p \in Pauses |-> None]
  /\ state = [f \in Flows |-> "pending"]
  /\ prev = [f \in Flows |-> None]
  /\ step = [f \in Flows |-> "idle"]
  /\ at = [f \in Flows |-> None]
  /\ taken = [p \in Pauses |-> None]
  /\ modified = [f \in Flows |-> FALSE]
  /\ announced = [f \in Flows |-> None]
  /\ callStep = [c \in Calls |-> "idle"]
  /\ callPause = [c \in Calls |-> <<>>]
  /\ callAnswer = [c \in Calls |-> None]

-----------------------------------------------------------------------------
(* Pause, in the handler goroutine.                                        *)

(* Over the limit Pause fails open: it returns at once and leaves the flow *)
(* as it was.                                                              *)
PauseFull(f, ph) ==
  /\ Cardinality(Open) >= MaxOpen
  /\ taken' = [taken EXCEPT ![<<f, ph>>] = "full"]
  /\ UNCHANGED <<paused, step, at, prev, announced, chan, flowVars, callVars>>

Publish(f, ph) ==
  /\ Cardinality(Open) < MaxOpen
  /\ prev' = [prev EXCEPT ![f] = state[f]]
  /\ state' = [state EXCEPT ![f] = Paused]
  /\ paused' = [paused EXCEPT ![f] = ph]
  /\ at' = [at EXCEPT ![f] = ph]
  /\ step' = [step EXCEPT ![f] = "hit"]
  /\ UNCHANGED <<taken, announced, chan, modified, callVars>>

(* The call of Pause, up to the release of the lock.                       *)
Pause(f, ph) ==
  /\ step[f] = "idle"
  /\ taken[<<f, ph>>] = None
  /\ PauseFull(f, ph) \/ Publish(f, ph)

EmitHit(f) ==
  /\ step[f] = "hit"
  /\ announced' = [announced EXCEPT ![f] = "hit"]
  /\ step' = [step EXCEPT ![f] = "select"]
  /\ UNCHANGED <<paused, at, taken, prev, chan, flowVars, callVars>>

(* The emitter is injected and may panic: only the deferred function runs. *)
EmitPanics(f) ==
  /\ step[f] = "hit"
  /\ taken' = [taken EXCEPT ![<<f, at[f]>>] = "panic"]
  /\ step' = [step EXCEPT ![f] = "resolve"]
  /\ UNCHANGED <<paused, at, prev, announced, chan, flowVars, callVars>>

(* Mutant of Receive: f.State is restored before the flow is taken out.    *)
ReceiveRestoresFirst(f) ==
  LET p == <<f, at[f]>> IN
  /\ step[f] = "select"
  /\ chan[p] # None
  /\ taken' = [taken EXCEPT ![p] = chan[p]]
  /\ chan' = [chan EXCEPT ![p] = None]
  /\ step' = [step EXCEPT ![f] = "unpublish"]
  /\ state' = [state EXCEPT ![f] = prev[f]]
  /\ UNCHANGED <<paused, at, prev, announced, modified, callVars>>

(* The two cases of the select; when both are ready Go picks either.       *)
Receive(f) ==
  LET p == <<f, at[f]>> IN
  /\ step[f] = "select"
  /\ chan[p] # None
  /\ taken' = [taken EXCEPT ![p] = chan[p]]
  /\ chan' = [chan EXCEPT ![p] = None]
  /\ step' = [step EXCEPT ![f] = "unpublish"]
  /\ UNCHANGED <<paused, at, prev, announced, flowVars, callVars>>

(* Mutant of TimeOut: the timer fails closed.                              *)
TimeOutAborts(f) ==
  /\ step[f] = "select"
  /\ taken' = [taken EXCEPT ![<<f, at[f]>>] = "abort"]
  /\ step' = [step EXCEPT ![f] = "unpublish"]
  /\ UNCHANGED <<paused, at, prev, announced, chan, flowVars, callVars>>

TimeOut(f) ==
  /\ step[f] = "select"
  /\ taken' = [taken EXCEPT ![<<f, at[f]>>] = "timeout"]
  /\ step' = [step EXCEPT ![f] = "unpublish"]
  /\ UNCHANGED <<paused, at, prev, announced, chan, flowVars, callVars>>

Unpublish(f) ==
  /\ step[f] = "unpublish"
  /\ paused' = [paused EXCEPT ![f] = None]
  /\ step' = [step EXCEPT ![f] = "resolve"]
  /\ UNCHANGED <<at, taken, prev, announced, chan, flowVars, callVars>>

(* An abort and a panic leave f.State to the caller of Pause.              *)
Restored(f) ==
  IF taken[<<f, at[f]>>] \in {"abort", "panic"} THEN state[f] ELSE prev[f]

(* Mutant of Resolve: the deferred function does not take the flow out.    *)
ResolveListed(f) ==
  /\ step[f] = "resolve"
  /\ modified' = [modified EXCEPT ![f] = @ \/ taken[<<f, at[f]>>] = "edit"]
  /\ state' = [state EXCEPT ![f] = Restored(f)]
  /\ announced' = [announced EXCEPT ![f] = "resolved"]
  /\ step' = [step EXCEPT ![f] = "idle"]
  /\ at' = [at EXCEPT ![f] = None]
  /\ prev' = [prev EXCEPT ![f] = None]
  /\ UNCHANGED <<paused, taken, chan, callVars>>

(* The writes to the flow, which no one else can see once it is out of the *)
(* map, then the deferred function and the return.                         *)
Resolve(f) ==
  /\ step[f] = "resolve"
  /\ modified' = [modified EXCEPT ![f] = @ \/ taken[<<f, at[f]>>] = "edit"]
  /\ state' = [state EXCEPT ![f] = Restored(f)]
  /\ paused' = [paused EXCEPT ![f] = None]
  /\ announced' = [announced EXCEPT ![f] = "resolved"]
  /\ step' = [step EXCEPT ![f] = "idle"]
  /\ at' = [at EXCEPT ![f] = None]
  /\ prev' = [prev EXCEPT ![f] = None]
  /\ UNCHANGED <<taken, chan, callVars>>

-----------------------------------------------------------------------------
(* deliver, in a UI goroutine: look the flow up under the lock (the call   *)
(* of a flow that is not in the map returns false and changes nothing) ... *)
Lookup(c, f, a) ==
  /\ callStep[c] = "idle"
  /\ paused[f] # None
  /\ callStep' = [callStep EXCEPT ![c] = "send"]
  /\ callPause' = [callPause EXCEPT ![c] = <<f, paused[f]>>]
  /\ callAnswer' = [callAnswer EXCEPT ![c] = a]
  /\ UNCHANGED <<pauseVars, chan, flowVars>>

(* Mutants of the send: a later answer replaces an earlier one; a full     *)
(* slot blocks the caller.                                                 *)
SlotOverwritten(c) ==
  /\ chan' = [chan EXCEPT ![callPause[c]] = callAnswer[c]]
  /\ callStep' = [callStep EXCEPT ![c] = "accepted"]
  /\ UNCHANGED <<callPause, callAnswer>>

SlotFullBlocks(c) ==
  /\ chan[callPause[c]] # None
  /\ UNCHANGED <<chan, callVars>>

(* ... and send without blocking once the lock is released: a full slot    *)
(* refuses the call, whose caller is free to try again.                    *)
SlotFree(c) ==
  /\ chan[callPause[c]] = None
  /\ chan' = [chan EXCEPT ![callPause[c]] = callAnswer[c]]
  /\ callStep' = [callStep EXCEPT ![c] = "accepted"]
  /\ UNCHANGED <<callPause, callAnswer>>

SlotFull(c) ==
  /\ chan[callPause[c]] # None
  /\ callStep' = [callStep EXCEPT ![c] = "idle"]
  /\ callPause' = [callPause EXCEPT ![c] = <<>>]
  /\ callAnswer' = [callAnswer EXCEPT ![c] = None]
  /\ UNCHANGED chan

Send(c) ==
  /\ callStep[c] = "send"
  /\ SlotFree(c) \/ SlotFull(c)
  /\ UNCHANGED <<pauseVars, flowVars>>

(* What the handler does to f.State between two Pause calls.               *)
SetState(f, s) ==
  /\ step[f] = "idle"
  /\ state' = [state EXCEPT ![f] = s]
  /\ UNCHANGED <<pauseVars, chan, modified, callVars>>

-----------------------------------------------------------------------------
InPause(f) == EmitHit(f) \/ EmitPanics(f) \/ Receive(f) \/ TimeOut(f)
              \/ Unpublish(f) \/ Resolve(f)

Next ==
  \/ \E f \in Flows, ph \in Phases : Pause(f, ph)
  \/ \E f \in Flows : InPause(f)
  \/ \E c \in Calls, f \in Flows, a \in Answers : Lookup(c, f, a)
  \/ \E c \in Calls : Send(c)
  \/ \E f \in Flows, s \in HandlerStates : SetState(f, s)

Spec == Init /\ [][Next]_bpVars

-----------------------------------------------------------------------------
Accepted(p) == {c \in Calls : callStep[c] = "accepted" /\ callPause[c] = p}

(* maxOpen is respected whatever the handlers' interleaving.               *)
OpenBound == Cardinality(Open) <= MaxOpen

(* A flow is in the map only while its own handler is inside Pause for     *)
(* that phase, and List then shows it as paused: f.State is written before *)
(* it is published or after it is taken out (breakpoint.go:287).           *)
ListedWhilePaused ==
  \A f \in Open : step[f] # "idle" /\ paused[f] = at[f] /\ state[f] = Paused

(* The map never holds more than maxOpen flows and never one whose handler *)
(* has left Pause, whatever the order of answers, timers and panics: an    *)
(* entry that leaked would take one of the places for ever.                *)
MapSound == TypeOK /\ OpenBound /\ ListedWhilePaused

(* A pause ends with an answer only if a UI call sent that answer to that  *)
(* very pause and was told it was accepted; in particular nothing is       *)
(* blocked or edited by a timeout, a panic or a full table.                *)
AnswersComeFromCalls ==
  \A p \in Pauses : taken[p] \in Answers =>
     \E c \in Accepted(p) : callAnswer[c] = taken[p]

(* The one-slot channel loses no answer silently: of the calls accepted by *)
(* a pause one is the answer it took and one is still in the slot, and the *)
(* others were refused.  Two clicks are never both taken.                  *)
AcceptedAccounted ==
  \A p \in Pauses :
     Cardinality(Accepted(p)) =
        (IF taken[p] \in Answers THEN 1 ELSE 0) + (IF chan[p] # None THEN 1 ELSE 0)

(* breakpoint_resolved is emitted only for a flow List no longer returns,  *)
(* also when the emitter panicked on breakpoint_hit.                       *)
ResolvedIsUnlisted ==
  [][\A f \in Flows : announced'[f] = "resolved" /\ announced[f] # "resolved"
                      => paused'[f] = None]_bpVars

(* A Resume or Abort never blocks its caller, be the slot full and the     *)
(* handler gone (breakpoint_test.go:340).                                  *)
CallsReturn ==
  \A c \in Calls : callStep[c] = "send" ~> callStep[c] # "send"
=============================================================================
