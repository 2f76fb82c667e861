---------------------------- MODULE CachedBodies ----------------------------
(***************************************************************************)
(* The body cache and the session store together: a passed-through         *)
(* response is recorded when it starts, copied to the disk while it is     *)
(* relayed, and recorded again when it has ended (passthrough.go,          *)
(* service.go); a flow that leaves the store takes its copy with it,       *)
(* through the callback that Service.SetBodyCache registers.               *)
(*                                                                         *)
(* The callback runs in the goroutine whose put, delete or clear took the  *)
(* flow out, after the store's lock is released and before that operation  *)
(* returns: `duty` says for whom it still has to call.  The path of the    *)
(* copy is written and read without a lock; either value may be read.      *)
(***************************************************************************)
EXTENDS BodyCache

CONSTANT Caps   \* capacities of the session store

ASSUME CapsAssumption == Caps \subseteq Nat \ {0} /\ Caps # {}

VARIABLES
  listed, stored, cap, evicting,  \* the session store: order, items, cap, evicting
  duty,        \* the flows each goroutine still has to call onEvict for
  recording,   \* Service.recording
  at,          \* where the handler of each flow is
  bodyFile,    \* the flows whose Response names a copy (SetPassthroughBody)
  left,        \* history: the flows that have left the store at least once
  forced,      \* history: the flows whose copy the budget or Clear took out
  unrecorded   \* history: the flows whose completion was not recorded

S == INSTANCE SessionStore WITH Ids <- Flows, order <- listed, items <- stored

sessionVars == <<listed, stored, cap, evicting, duty, left>>
flowVars    == <<recording, at, bodyFile, forced, unrecorded>>
vars        == <<cacheVars, sessionVars, flowVars>>

HandlerSteps == {"new", "relay", "publish", "complete", "put", "done"}

TypeOK ==
  /\ CacheTypeOK /\ S!StoreTypeOK
  /\ duty \in [Callers -> SUBSET Flows]
  /\ evicting = UNION {duty[c] : c \in Callers}
  /\ recording \in BOOLEAN
  /\ at \in [Flows -> HandlerSteps]
  /\ bodyFile \subseteq {f \in Flows : entry[f] = "committed"}
  /\ left \subseteq Flows /\ forced \subseteq Flows /\ unrecorded \subseteq Flows

Init ==
  /\ CacheInit /\ S!StoreInit
  /\ duty = [c \in Callers |-> {}]
  /\ recording \in BOOLEAN
  /\ at = [f \in Flows |-> "new"]
  /\ bodyFile = {} /\ left = {} /\ forced = {} /\ unrecorded = {}

(* A goroutine that has nothing left of an earlier operation.              *)
Free(c) == duty[c] = {} /\ Idle(c)

(* An operation of the store, by goroutine c.                              *)
Changes(c) ==
  /\ duty' = [duty EXCEPT ![c] = stored \ stored']
  /\ left' = left \cup (stored \ stored')

Goto(f, step) == at' = [at EXCEPT ![f] = step]

-----------------------------------------------------------------------------
(* RecordFlowStarted.                                                      *)
Start(f) ==
  /\ at[f] = "new"
  /\ IF recording THEN S!Put(f) /\ Changes(f) ELSE UNCHANGED sessionVars
  /\ Goto(f, "relay")
  /\ UNCHANGED <<cacheVars, recording, bodyFile, forced, unrecorded>>

(* The relay: the copy is opened and written, or there is none.            *)
Copy(f) ==
  /\ at[f] = "relay" /\ Free(f)
  /\ Create(f) \/ Write(f)
  /\ UNCHANGED <<sessionVars, flowVars>>

(* The relay ends without a copy.                                          *)
RelayUncopied(f) ==
  /\ at[f] = "relay" /\ Free(f)
  /\ GiveUp(f) \/ (entry[f] = "none" /\ UNCHANGED cacheVars)
  /\ Goto(f, "complete")
  /\ UNCHANGED <<sessionVars, recording, bodyFile, forced, unrecorded>>

(* The relay ends with a whole body.                                       *)
RelayCopied(f) ==
  /\ at[f] = "relay" /\ Free(f)
  /\ Commit(f)
  /\ forced' = forced \cup unlinking'[f]
  /\ Goto(f, "publish")
  /\ UNCHANGED <<sessionVars, recording, bodyFile, unrecorded>>

(* Mutant of Publish: the path stays empty.                                *)
PublishNothing(f) ==
  /\ at[f] = "publish" /\ Free(f)
  /\ Goto(f, "complete")
  /\ UNCHANGED <<cacheVars, sessionVars, recording, bodyFile, forced, unrecorded>>

(* SetPassthroughBody, once Commit has returned.                           *)
Publish(f) ==
  /\ at[f] = "publish" /\ Free(f)
  /\ bodyFile' = bodyFile \cup {f}
  /\ Goto(f, "complete")
  /\ UNCHANGED <<cacheVars, sessionVars, recording, forced, unrecorded>>

(* RecordFlowCompleted looks at the store and at the switch ...            *)
Complete(f) ==
  /\ at[f] = "complete"
  /\ IF f \in stored \/ recording
     THEN Goto(f, "put") /\ UNCHANGED unrecorded
     ELSE Goto(f, "done") /\ unrecorded' = unrecorded \cup {f}
  /\ UNCHANGED <<cacheVars, sessionVars, recording, bodyFile, forced>>

(* ... and puts the flow, which may have left the store meanwhile.         *)
CompletePut(f) ==
  /\ at[f] = "put"
  /\ S!Put(f) /\ Changes(f)
  /\ Goto(f, "done")
  /\ UNCHANGED <<cacheVars, recording, bodyFile, forced, unrecorded>>

-----------------------------------------------------------------------------
Manage(m) ==
  /\ Free(m)
  /\ S!Clear \/ \E f \in Flows : S!Delete(f)
  /\ Changes(m)
  /\ UNCHANGED <<cacheVars, flowVars>>

Switch ==
  /\ recording' = ~recording
  /\ UNCHANGED <<cacheVars, sessionVars, at, bodyFile, forced, unrecorded>>

(* The callback: it reads the path and, when there is one, removes the     *)
(* copy; it runs to its end before the next flow's.                        *)
Callback(c, f) ==
  /\ f \in duty[c] /\ Idle(c)
  /\ duty' = [duty EXCEPT ![c] = @ \ {f}]
  /\ evicting' = UNION {duty'[d] : d \in Callers}
  /\ IF f \in bodyFile THEN RemoveCopy(c, f) ELSE UNCHANGED cacheVars
  /\ UNCHANGED <<listed, stored, cap, left, flowVars>>

Unlinked == /\ \E c \in Callers, f \in Flows : Unlink(c, f)
            /\ UNCHANGED <<sessionVars, flowVars>>

(* The other exported operations of the cache.                             *)
Maintain(m) ==
  /\ Free(m)
  /\ Clear(m) \/ \E b \in Budgets : SetBudget(m, b)
  /\ forced' = forced \cup unlinking'[m]
  /\ UNCHANGED <<sessionVars, recording, at, bodyFile, unrecorded>>

(* The process dies at any point and is started again; every flow is a new *)
(* one.                                                                    *)
Crash ==
  /\ Restart
  /\ listed' = <<>> /\ stored' = {} /\ evicting' = {} /\ UNCHANGED cap
  /\ duty' = [c \in Callers |-> {}]
  /\ recording' \in BOOLEAN
  /\ at' = [f \in Flows |-> "new"]
  /\ bodyFile' = {} /\ left' = {} /\ forced' = {} /\ unrecorded' = {}

Relay(f) == \/ Start(f) \/ Copy(f) \/ RelayUncopied(f) \/ RelayCopied(f)
            \/ Publish(f) \/ Complete(f) \/ CompletePut(f)

Next ==
  \/ \E f \in Flows : Relay(f)
  \/ \E m \in Managers : Manage(m) \/ Maintain(m)
  \/ \E c \in Callers, f \in Flows : Callback(c, f)
  \/ Switch
  \/ Unlinked
  \/ Crash

Spec == Init /\ [][Next]_vars

-----------------------------------------------------------------------------
(* No copy outlives its flow: when the handler of a flow is done and no    *)
(* callback is pending for it, its copy is in the cache only if the flow   *)
(* is in the store, or if its completion was not recorded because it had   *)
(* left the store and recording was off: the leak that is left to the      *)
(* budget (service.go:59).                                                 *)
LeaksOnlyUnrecorded ==
  \A f \in Registered :
     at[f] = "done" /\ f \notin evicting => f \in stored \/ f \in unrecorded

(* A flow that has been in the store ever since it was put there keeps its *)
(* copy, unless the budget forces it out: no removal of another flow, no   *)
(* callback of an earlier life and no failed write takes it away.          *)
CopyKept ==
  \A f \in (stored \cap bodyFile) \ left : f \in Registered \/ f \in forced

(* Copies live as long as their flows, neither longer nor shorter, but for *)
(* the leak of what is never recorded (service.go:61, bodycache.go:94).    *)
CopiesFollowFlows == TypeOK /\ LeaksOnlyUnrecorded /\ CopyKept
=============================================================================
