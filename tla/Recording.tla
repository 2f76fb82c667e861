----------------------------- MODULE Recording ------------------------------
(***************************************************************************)
(* How captured and resent flows get into the session store, the           *)
(* statistics and the event bus: RecordFlowStarted, RecordFlowCompleted,   *)
(* RecordFlowUpdated and the ImportFlow functions of                       *)
(* internal/service/service.go, called by the handler goroutine of each    *)
(* flow (flow_pipeline.go, resend.go), by its process resolver             *)
(* (asyncResolveProcess) and by the UI.                                    *)
(*                                                                         *)
(* The recording switch is an atomic, the store and the statistics have a  *)
(* lock each: a goroutine that has read one of them can be overtaken       *)
(* before it touches the next.  Each such access is a step of its own.     *)
(***************************************************************************)
EXTENDS SessionStore, FiniteSets

CONSTANT Imported   \* the flows that are resent, not captured

ASSUME ImportedAssumption == Imported \subseteq Ids

HandlerSteps == {"new", "start_put", "start_emit", "running", "complete",
                 "complete_check", "complete_put", "count", "complete_emit", "done"}
ResolverSteps == {"off", "resolving", "put", "emit", "done"}
Events == {"started", "completed", "updated"}

VARIABLES
  recording,   \* Service.recording
  handler,     \* where the handler of each flow is
  resolver,    \* where the process resolver of each flow is
  counted,     \* how often the statistics counted each flow
  events,      \* the events emitted for each flow, in order
  captured,    \* history: the flows a handler put while it saw recording on
  removed      \* history: the flows that have left the store at least once

runVars == <<recording, handler, resolver, counted, events, captured>>
recordingVars    == <<storeVars, runVars, removed>>

RecordingTypeOK ==
  /\ StoreTypeOK
  /\ recording \in BOOLEAN
  /\ handler \in [Ids -> HandlerSteps]
  /\ resolver \in [Ids -> ResolverSteps]
  /\ \A f \in Ids : resolver[f] = "off" <=> handler[f] \in {"new", "start_put", "start_emit"}
  /\ counted \in [Ids -> Nat]
  /\ events \in [Ids -> Seq(Events)]
  /\ captured \subseteq Ids
  /\ removed \subseteq Ids

RecordingInit ==
  /\ StoreInit
  /\ recording \in BOOLEAN
  /\ handler = [f \in Ids |-> "new"]
  /\ resolver = [f \in Ids |-> "off"]
  /\ counted = [f \in Ids |-> 0]
  /\ events = [f \in Ids |-> <<>>]
  /\ captured = {}
  /\ removed = {}

(* What a step does to the store, and the history of what left it.         *)
Store(op) == op /\ removed' = removed \cup (items \ items')
Stored(f) == Put(f) /\ removed' = removed \cup (items \ items')
Untouched == UNCHANGED <<storeVars, removed>>

At(f, step)      == handler[f] = step
Goto(f, step)    == handler' = [handler EXCEPT ![f] = step]
Emit(f, event)   == events' = [events EXCEPT ![f] = Append(@, event)]

-----------------------------------------------------------------------------
(* RecordFlowStarted looks at the switch, ImportFlowStarted does not.      *)
Started(f) ==
  /\ At(f, "new")
  /\ IF recording \/ f \in Imported
     THEN Goto(f, "start_put") /\ UNCHANGED resolver
     ELSE Goto(f, "running") /\ resolver' = [resolver EXCEPT ![f] = "resolving"]
  /\ Untouched
  /\ UNCHANGED <<recording, counted, events, captured>>

StartPut(f) ==
  /\ At(f, "start_put")
  /\ Stored(f)
  /\ captured' = captured \cup {f}
  /\ Goto(f, "start_emit")
  /\ UNCHANGED <<recording, resolver, counted, events>>

(* The resolver of a captured flow is started when RecordFlowStarted has   *)
(* returned; a resent flow has none.                                       *)
StartEmit(f) ==
  /\ At(f, "start_emit")
  /\ Emit(f, "started")
  /\ Goto(f, "running")
  /\ resolver' = [resolver EXCEPT ![f] = IF f \in Imported THEN "done" ELSE "resolving"]
  /\ Untouched
  /\ UNCHANGED <<recording, counted, captured>>

(* Mutant of Completed: only the switch decides.                           *)
CompletedIfRecording(f) ==
  /\ At(f, "running")
  /\ Goto(f, IF f \in Imported THEN "complete_put" ELSE "complete_check")
  /\ Untouched
  /\ UNCHANGED <<recording, resolver, counted, events, captured>>

(* RecordFlowCompleted first looks the flow up in the store ...            *)
Completed(f) ==
  /\ At(f, "running")
  /\ Goto(f, IF f \in items \/ f \in Imported THEN "complete_put" ELSE "complete_check")
  /\ Untouched
  /\ UNCHANGED <<recording, resolver, counted, events, captured>>

(* ... and when it is not there, at the switch.                            *)
CompleteCheck(f) ==
  /\ At(f, "complete_check")
  /\ Goto(f, IF recording THEN "complete_put" ELSE "done")
  /\ captured' = IF recording THEN captured \cup {f} ELSE captured
  /\ Untouched
  /\ UNCHANGED <<recording, resolver, counted, events>>


CompletePut(f) ==
  /\ At(f, "complete_put")
  /\ Stored(f)
  /\ Goto(f, "count")
  /\ UNCHANGED <<recording, resolver, counted, events, captured>>

(* statsCollector.record                                                   *)
Count(f) ==
  /\ At(f, "count")
  /\ counted' = [counted EXCEPT ![f] = @ + 1]
  /\ Goto(f, "complete_emit")
  /\ Untouched
  /\ UNCHANGED <<recording, resolver, events, captured>>

(* A capture that got a response announces its completion and, in the same *)
(* breath, the update; any other flow only the update.                     *)
CompleteEmit(f) ==
  /\ At(f, "complete_emit")
  /\ \E response \in IF f \in Imported THEN {FALSE} ELSE BOOLEAN :
       events' = [events EXCEPT ![f] = @ \o
         (IF response THEN <<"completed", "updated">> ELSE <<"updated">>)]
  /\ Goto(f, "done")
  /\ Untouched
  /\ UNCHANGED <<recording, resolver, counted, captured>>

-----------------------------------------------------------------------------
(* asyncResolveProcess: it finds a process or silently gives up, and then  *)
(* calls RecordFlowUpdated, which puts the flow unconditionally.           *)
ResolverGoto(f, step) == resolver' = [resolver EXCEPT ![f] = step]

Resolved(f) ==
  /\ resolver[f] = "resolving"
  /\ ResolverGoto(f, "put") \/ ResolverGoto(f, "done")
  /\ Untouched
  /\ UNCHANGED <<recording, handler, counted, events, captured>>

UpdatedPut(f) ==
  /\ resolver[f] = "put"
  /\ Stored(f)
  /\ ResolverGoto(f, "emit")
  /\ UNCHANGED <<recording, handler, counted, events, captured>>

UpdatedEmit(f) ==
  /\ resolver[f] = "emit"
  /\ Emit(f, "updated")
  /\ ResolverGoto(f, "done")
  /\ Untouched
  /\ UNCHANGED <<recording, handler, counted, captured>>

-----------------------------------------------------------------------------
(* The UI: start and stop recording, delete, clear, a new capacity.        *)
Switch ==
  /\ recording' = ~recording
  /\ Untouched
  /\ UNCHANGED <<handler, resolver, counted, events, captured>>

Manage ==
  /\ \/ \E f \in Ids : Store(Delete(f))
     \/ Store(Clear)
     \/ \E n \in Caps \cup {0} : Store(SetCap(n))
  /\ UNCHANGED runVars

Evicted == /\ \E f \in Ids : OnEvict(f)
           /\ UNCHANGED <<runVars, removed>>

Handler(f)  == \/ Started(f) \/ StartPut(f) \/ StartEmit(f) \/ Completed(f)
               \/ CompleteCheck(f) \/ CompletePut(f) \/ Count(f) \/ CompleteEmit(f)
Resolver(f) == Resolved(f) \/ UpdatedPut(f) \/ UpdatedEmit(f)

RecordingNext == (\E f \in Ids : Handler(f) \/ Resolver(f)) \/ Switch \/ Manage \/ Evicted

RecordingSpec == RecordingInit /\ [][RecordingNext]_recordingVars

-----------------------------------------------------------------------------
(* A flow captured at its start and never taken out of the store since is  *)
(* completed in it and counted, exactly once, even if recording is stopped *)
(* in between (service.go:134).                                            *)
CapturedIsCounted ==
  \A f \in Ids :
     /\ counted[f] <= 1
     /\ handler[f] = "done" /\ f \in captured \ removed => counted[f] = 1 /\ f \in items

(* What is counted was captured: a flow that came while recording was off  *)
(* and whose completion found it still off does not enter the statistics,  *)
(* unless its resolver has put it into the store meanwhile.                *)
CountedWasStored ==
  \A f \in Ids : counted[f] > 0 => f \in captured \/ resolver[f] \in {"emit", "done"}

(* The completion of a flow is announced after its start and after it was  *)
(* counted, and once.                                                      *)
Announced ==
  \A f \in Ids :
     LET at(event) == {i \in DOMAIN events[f] : events[f][i] = event} IN
     /\ Cardinality(at("started")) <= 1 /\ Cardinality(at("completed")) <= 1
     /\ \A i \in at("started") : i = 1
     /\ at("completed") # {} => counted[f] = 1

(* What the switch, the store, the statistics and the events say of a flow *)
(* agree, although each is touched by itself and the user interface moves  *)
(* between them (service.go:122-152).                                      *)
RecordingAgrees == RecordingTypeOK /\ CapturedIsCounted /\ CountedWasStored /\ Announced
=============================================================================
