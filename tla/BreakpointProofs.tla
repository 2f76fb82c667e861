-------------------------- MODULE BreakpointProofs --------------------------
(***************************************************************************)
(* Proofs about Breakpoint, for any set of flows (also an infinite one),   *)
(* any set of UI calls and any maxOpen.                                    *)
(*                                                                         *)
(* The invariant is a conjunction of layers, each inductive relative to    *)
(* the ones before it: types; the map and its size; the answer of a pause  *)
(* that is still open; where answers come from, and how many there are.    *)
(***************************************************************************)
EXTENDS Breakpoint, FiniteSetTheorems, TLAPS

(* A pause whose handler has not reached the end of the select is open: it *)
(* has no ending yet.                                                      *)
OpenPauseHasNoEnding ==
  \A f \in Flows : step[f] \in {"hit", "select"} => taken[<<f, at[f]>>] = None

(* What is in a slot was put there by an accepted call.                    *)
SlotComesFromCall ==
  \A p \in Pauses : chan[p] # None => \E c \in Accepted(p) : callAnswer[c] = chan[p]

(* The size of the map is that of a finite set.                            *)
OpenFinite == IsFiniteSet(Open)

-----------------------------------------------------------------------------
(* The types.                                                              *)

LEMMA InitTypeOK == Init => TypeOK
  BY DEF Init, TypeOK, Paused, States, Working, Steps

LEMMA StepTypeOK == TypeOK /\ [Next]_bpVars => TypeOK'
<1> USE DEF Pauses, Answers, Endings, Paused, States, Working, Steps, Phases, None
<1> SUFFICES ASSUME TypeOK, [Next]_bpVars PROVE TypeOK'
    OBVIOUS
<1>1. ASSUME NEW f \in Flows, NEW ph \in Phases, Pause(f, ph) PROVE TypeOK'
  <2>1. CASE PauseFull(f, ph)
    BY <1>1, <2>1 DEF TypeOK, PauseFull, flowVars, callVars
  <2>2. CASE Publish(f, ph)
    BY <1>1, <2>2 DEF TypeOK, Publish, callVars
  <2> QED BY <1>1, <2>1, <2>2 DEF Pause
<1>2. ASSUME NEW f \in Flows, InPause(f) PROVE TypeOK'
  <2>1. CASE EmitHit(f)
    BY <2>1 DEF TypeOK, EmitHit, flowVars, callVars
  <2>2. CASE EmitPanics(f)
    BY <2>2 DEF TypeOK, EmitPanics, flowVars, callVars
  <2>3. CASE Receive(f)
    BY <2>3 DEF TypeOK, Receive, flowVars, callVars
  <2>4. CASE TimeOut(f)
    BY <2>4 DEF TypeOK, TimeOut, flowVars, callVars
  <2>5. CASE Unpublish(f)
    BY <2>5 DEF TypeOK, Unpublish, flowVars, callVars
  <2>6. CASE Resolve(f)
    BY <2>6 DEF TypeOK, Resolve, Restored, callVars
  <2> QED BY <1>2, <2>1, <2>2, <2>3, <2>4, <2>5, <2>6 DEF InPause
<1>3. ASSUME NEW c \in Calls, NEW f \in Flows, NEW a \in Answers, Lookup(c, f, a)
      PROVE TypeOK'
  BY <1>3 DEF TypeOK, Lookup, pauseVars, flowVars
<1>4. ASSUME NEW c \in Calls, Send(c) PROVE TypeOK'
  <2>1. CASE SlotFree(c)
    BY <1>4, <2>1 DEF TypeOK, Send, SlotFree, pauseVars, flowVars
  <2>2. CASE SlotFull(c)
    BY <1>4, <2>2 DEF TypeOK, Send, SlotFull, pauseVars, flowVars
  <2> QED BY <1>4, <2>1, <2>2 DEF Send
<1>5. ASSUME NEW f \in Flows, NEW s \in HandlerStates, SetState(f, s) PROVE TypeOK'
  BY <1>5, HandlerStatesAssumption DEF TypeOK, SetState, pauseVars, callVars
<1>6. CASE UNCHANGED bpVars
  BY <1>6 DEF TypeOK, bpVars, pauseVars, flowVars, callVars
<1> QED BY <1>1, <1>2, <1>3, <1>4, <1>5, <1>6 DEF Next

(* Every variable keeps its type, for any flows, calls and limit.          *)
THEOREM TypeCorrect == Spec => []TypeOK
<1>1. Init => TypeOK
  BY InitTypeOK
<1>2. TypeOK /\ [Next]_bpVars => TypeOK'
  BY StepTypeOK
<1> QED BY <1>1, <1>2, PTL DEF Spec

-----------------------------------------------------------------------------
(* The map: its entries and its size.                                      *)

(* Open after a step: nothing changes it but Publish, which adds the flow, *)
(* and Unpublish and Resolve, which take the flow out.                     *)
LEMMA PublishOpens ==
  ASSUME TypeOK, NEW f \in Flows, NEW ph \in Phases, Publish(f, ph)
  PROVE  Open' = Open \cup {f}
  BY DEF TypeOK, Publish, Open, Phases, None

LEMMA OthersOpenNothing ==
  ASSUME TypeOK, [Next]_bpVars,
         ~ \E f \in Flows, ph \in Phases : Publish(f, ph)
  PROVE  Open' \subseteq Open
<1>1. ASSUME NEW f \in Flows, NEW ph \in Phases, Pause(f, ph) PROVE Open' \subseteq Open
  BY <1>1 DEF Pause, PauseFull, Open
<1>2. ASSUME NEW f \in Flows, InPause(f) PROVE Open' \subseteq Open
  BY <1>2 DEF InPause, EmitHit, EmitPanics, Receive, TimeOut, Unpublish, Resolve,
              TypeOK, Open
<1>3. ASSUME NEW c \in Calls, NEW f \in Flows, NEW a \in Answers, Lookup(c, f, a)
      PROVE Open' \subseteq Open
  BY <1>3 DEF Lookup, pauseVars, Open
<1>4. ASSUME NEW c \in Calls, Send(c) PROVE Open' \subseteq Open
  BY <1>4 DEF Send, pauseVars, Open
<1>5. ASSUME NEW f \in Flows, NEW s \in HandlerStates, SetState(f, s)
      PROVE Open' \subseteq Open
  BY <1>5 DEF SetState, pauseVars, Open
<1>6. CASE UNCHANGED bpVars
  BY <1>6 DEF bpVars, pauseVars, Open
<1> QED BY <1>1, <1>2, <1>3, <1>4, <1>5, <1>6 DEF Next

(* The limit is tested under the lock that publishes, so it holds after.   *)
LEMMA StepOpenBound ==
  TypeOK /\ OpenFinite /\ OpenBound /\ [Next]_bpVars => (OpenFinite /\ OpenBound)'
<1> SUFFICES ASSUME TypeOK, OpenFinite, OpenBound, [Next]_bpVars
             PROVE  IsFiniteSet(Open') /\ Cardinality(Open') <= MaxOpen
    BY DEF OpenFinite, OpenBound
<1> USE MaxOpenAssumption
<1>0. IsFiniteSet(Open) /\ Cardinality(Open) \in Nat /\ Cardinality(Open) <= MaxOpen
  BY FS_CardinalityType DEF OpenFinite, OpenBound
<1>1. ASSUME NEW f \in Flows, NEW ph \in Phases, Publish(f, ph)
      PROVE  IsFiniteSet(Open') /\ Cardinality(Open') <= MaxOpen
  <2>1. Open' = Open \cup {f}
    BY <1>1, PublishOpens
  <2>2. Cardinality(Open) < MaxOpen
    BY <1>1 DEF Publish
  <2>3. /\ IsFiniteSet(Open \cup {f})
        /\ \/ Cardinality(Open \cup {f}) = Cardinality(Open)
           \/ Cardinality(Open \cup {f}) = Cardinality(Open) + 1
    BY <1>0, FS_AddElement
  <2> QED BY <1>0, <2>1, <2>2, <2>3
<1>2. CASE ~ \E f \in Flows, ph \in Phases : Publish(f, ph)
  <2>1. Open' \subseteq Open
    BY <1>2, OthersOpenNothing
  <2>2. IsFiniteSet(Open') /\ Cardinality(Open') <= Cardinality(Open)
    BY <1>0, <2>1, FS_Subset
  <2>3. Cardinality(Open') \in Nat
    BY <2>2, FS_CardinalityType
  <2> QED BY <1>0, <2>2, <2>3
<1> QED BY <1>1, <1>2

LEMMA StepListed == TypeOK /\ ListedWhilePaused /\ [Next]_bpVars => ListedWhilePaused'
<1> USE DEF ListedWhilePaused, Open
<1> SUFFICES ASSUME TypeOK, ListedWhilePaused, [Next]_bpVars PROVE ListedWhilePaused'
    OBVIOUS
<1>1. ASSUME NEW f \in Flows, NEW ph \in Phases, Pause(f, ph) PROVE ListedWhilePaused'
  BY <1>1 DEF Pause, PauseFull, Publish, TypeOK, flowVars
<1>2. ASSUME NEW f \in Flows, InPause(f) PROVE ListedWhilePaused'
  <2>1. CASE EmitHit(f)
    BY <2>1 DEF EmitHit, TypeOK, flowVars
  <2>2. CASE EmitPanics(f)
    BY <2>2 DEF EmitPanics, TypeOK, flowVars
  <2>3. CASE Receive(f)
    BY <2>3 DEF Receive, TypeOK, flowVars
  <2>4. CASE TimeOut(f)
    BY <2>4 DEF TimeOut, TypeOK, flowVars
  <2>5. CASE Unpublish(f)
    BY <2>5 DEF Unpublish, TypeOK, flowVars
  <2>6. CASE Resolve(f)
    BY <2>6 DEF Resolve, TypeOK
  <2> QED BY <1>2, <2>1, <2>2, <2>3, <2>4, <2>5, <2>6 DEF InPause
<1>3. ASSUME NEW c \in Calls, NEW f \in Flows, NEW a \in Answers, Lookup(c, f, a)
      PROVE ListedWhilePaused'
  BY <1>3 DEF Lookup, pauseVars, flowVars
<1>4. ASSUME NEW c \in Calls, Send(c) PROVE ListedWhilePaused'
  BY <1>4 DEF Send, pauseVars, flowVars
<1>5. ASSUME NEW f \in Flows, NEW s \in HandlerStates, SetState(f, s)
      PROVE ListedWhilePaused'
  BY <1>5 DEF SetState, pauseVars, TypeOK
<1>6. CASE UNCHANGED bpVars
  BY <1>6 DEF bpVars, pauseVars, flowVars
<1> QED BY <1>1, <1>2, <1>3, <1>4, <1>5, <1>6 DEF Next

(* Never more than maxOpen flows are in the map, whatever the handlers'    *)
(* interleaving, for every maxOpen and any number of flows.                *)
THEOREM LimitHolds == Spec => []OpenBound
<1> DEFINE Inv == TypeOK /\ OpenFinite /\ OpenBound
<1>1. Init => Inv
  <2> SUFFICES ASSUME Init PROVE OpenFinite /\ OpenBound
      BY InitTypeOK
  <2>1. Open = {}
    BY DEF Init, Open
  <2> QED BY <2>1, FS_EmptySet, MaxOpenAssumption DEF OpenFinite, OpenBound
<1>2. Inv /\ [Next]_bpVars => Inv'
  BY StepTypeOK, StepOpenBound
<1>3. Inv => OpenBound
  OBVIOUS
<1> QED BY <1>1, <1>2, <1>3, PTL DEF Spec

(* A flow in the map has its handler inside Pause for that very phase, and *)
(* shows as paused: no entry leaks, also not through a panicking emitter.  *)
THEOREM NoEntryLeaks == Spec => []ListedWhilePaused
<1>1. Init => TypeOK /\ ListedWhilePaused
  BY InitTypeOK DEF Init, ListedWhilePaused, Open
<1>2. TypeOK /\ ListedWhilePaused /\ [Next]_bpVars => (TypeOK /\ ListedWhilePaused)'
  BY StepTypeOK, StepListed
<1> QED BY <1>1, <1>2, PTL DEF Spec

(* Both together, the soundness of the manager's map.                      *)
THEOREM MapStaysSound == Spec => []MapSound
<1>1. TypeOK /\ OpenBound /\ ListedWhilePaused => MapSound
  BY DEF MapSound
<1> QED BY <1>1, TypeCorrect, LimitHolds, NoEntryLeaks, PTL

-----------------------------------------------------------------------------
(* breakpoint_resolved is emitted by Resolve alone, in the step that makes *)
(* sure the flow is out of the map; so the interface, which asks List when *)
(* it sees the event, never finds the flow there.                          *)
THEOREM ResolvedAfterUnlisting == Spec => ResolvedIsUnlisted
<1> DEFINE Quiet(f) == announced'[f] = "resolved" /\ announced[f] # "resolved"
                       => paused'[f] = None
<1>1. TypeOK /\ [Next]_bpVars => [\A f \in Flows : Quiet(f)]_bpVars
  <2> SUFFICES ASSUME TypeOK, Next, NEW g \in Flows PROVE Quiet(g)
      OBVIOUS
  <2>1. ASSUME NEW f \in Flows, NEW ph \in Phases, Pause(f, ph) PROVE Quiet(g)
    BY <2>1 DEF Pause, PauseFull, Publish
  <2>2. ASSUME NEW f \in Flows, InPause(f) PROVE Quiet(g)
    BY <2>2 DEF InPause, EmitHit, EmitPanics, Receive, TimeOut, Unpublish, Resolve, TypeOK
  <2>3. ASSUME NEW c \in Calls, NEW f \in Flows, NEW a \in Answers, Lookup(c, f, a)
        PROVE Quiet(g)
    BY <2>3 DEF Lookup, pauseVars
  <2>4. ASSUME NEW c \in Calls, Send(c) PROVE Quiet(g)
    BY <2>4 DEF Send, pauseVars
  <2>5. ASSUME NEW f \in Flows, NEW s \in HandlerStates, SetState(f, s) PROVE Quiet(g)
    BY <2>5 DEF SetState, pauseVars
  <2> QED BY <2>1, <2>2, <2>3, <2>4, <2>5 DEF Next
<1> QED BY <1>1, TypeCorrect, PTL DEF Spec, ResolvedIsUnlisted
-----------------------------------------------------------------------------
(* Where answers come from, and how many there are.                        *)

(* Accepted only grows, by the call that fills a slot.                     *)
LEMMA AcceptedAfterSend ==
  ASSUME TypeOK, NEW c \in Calls, callStep[c] = "send", SlotFree(c), NEW p \in Pauses
  PROVE  Accepted(p)' = IF p = callPause[c] THEN Accepted(p) \cup {c} ELSE Accepted(p)
  BY DEF TypeOK, SlotFree, Accepted

LEMMA AcceptedOtherwise ==
  ASSUME TypeOK, [Next]_bpVars, NEW p \in Pauses,
         ~ \E c \in Calls : Send(c) /\ SlotFree(c)
  PROVE  Accepted(p)' = Accepted(p)
<1>1. ASSUME NEW f \in Flows, NEW ph \in Phases, Pause(f, ph)
      PROVE  Accepted(p)' = Accepted(p)
  BY <1>1 DEF Pause, PauseFull, Publish, callVars, Accepted
<1>2. ASSUME NEW f \in Flows, InPause(f) PROVE Accepted(p)' = Accepted(p)
  BY <1>2 DEF InPause, EmitHit, EmitPanics, Receive, TimeOut, Unpublish, Resolve,
              callVars, Accepted
<1>3. ASSUME NEW c \in Calls, NEW f \in Flows, NEW a \in Answers, Lookup(c, f, a)
      PROVE  Accepted(p)' = Accepted(p)
  BY <1>3 DEF Lookup, Accepted, TypeOK
<1>4. ASSUME NEW c \in Calls, Send(c) PROVE Accepted(p)' = Accepted(p)
  BY <1>4 DEF Send, SlotFull, Accepted, TypeOK
<1>5. ASSUME NEW f \in Flows, NEW s \in HandlerStates, SetState(f, s)
      PROVE  Accepted(p)' = Accepted(p)
  BY <1>5 DEF SetState, callVars, Accepted
<1>6. CASE UNCHANGED bpVars
  BY <1>6 DEF bpVars, callVars, Accepted
<1> QED BY <1>1, <1>2, <1>3, <1>4, <1>5, <1>6 DEF Next

LEMMA StepOpenPause ==
  TypeOK /\ OpenPauseHasNoEnding /\ [Next]_bpVars => OpenPauseHasNoEnding'
<1> USE DEF OpenPauseHasNoEnding, Pauses
<1> SUFFICES ASSUME TypeOK, OpenPauseHasNoEnding, [Next]_bpVars
             PROVE  OpenPauseHasNoEnding'
    OBVIOUS
<1>1. ASSUME NEW f \in Flows, NEW ph \in Phases, Pause(f, ph) PROVE OpenPauseHasNoEnding'
  <2>1. CASE PauseFull(f, ph)
    BY <1>1, <2>1 DEF Pause, PauseFull, TypeOK
  <2>2. CASE Publish(f, ph)
    BY <1>1, <2>2 DEF Pause, Publish, TypeOK
  <2> QED BY <1>1, <2>1, <2>2 DEF Pause
<1>2. ASSUME NEW f \in Flows, InPause(f) PROVE OpenPauseHasNoEnding'
  BY <1>2 DEF InPause, EmitHit, EmitPanics, Receive, TimeOut, Unpublish, Resolve, TypeOK
<1>3. ASSUME NEW c \in Calls, NEW f \in Flows, NEW a \in Answers, Lookup(c, f, a)
      PROVE OpenPauseHasNoEnding'
  BY <1>3 DEF Lookup, pauseVars
<1>4. ASSUME NEW c \in Calls, Send(c) PROVE OpenPauseHasNoEnding'
  BY <1>4 DEF Send, pauseVars
<1>5. ASSUME NEW f \in Flows, NEW s \in HandlerStates, SetState(f, s)
      PROVE OpenPauseHasNoEnding'
  BY <1>5 DEF SetState, pauseVars
<1>6. CASE UNCHANGED bpVars
  BY <1>6 DEF bpVars, pauseVars
<1> QED BY <1>1, <1>2, <1>3, <1>4, <1>5, <1>6 DEF Next

(* What a step does to the slot and the ending of one pause.  Only three   *)
(* steps touch what the two invariants below are about: a call fills the   *)
(* slot, the handler empties it into the ending, or the pause ends without *)
(* an answer.                                                              *)
Fills(p)    == \E c \in Calls : /\ callStep[c] = "send"
                                /\ callPause[c] = p
                                /\ chan[p] = None
                                /\ SlotFree(c)
                                /\ taken'[p] = taken[p]
Empties(p)  == /\ chan[p] # None /\ taken[p] = None
               /\ taken'[p] = chan[p] /\ chan'[p] = None
               /\ Accepted(p)' = Accepted(p)
               /\ UNCHANGED callAnswer
EndsBare(p) == /\ taken[p] = None /\ taken'[p] \in {"timeout", "panic", "full"}
               /\ chan'[p] = chan[p]
               /\ Accepted(p)' = Accepted(p)
               /\ UNCHANGED callAnswer
Keeps(p)    == /\ taken'[p] = taken[p] /\ chan'[p] = chan[p]
               /\ Accepted(p)' = Accepted(p)
               /\ \A c \in Accepted(p) : callAnswer'[c] = callAnswer[c]

LEMMA StepOfOnePause ==
  ASSUME TypeOK, OpenPauseHasNoEnding, [Next]_bpVars, NEW p \in Pauses
  PROVE  Fills(p) \/ Empties(p) \/ EndsBare(p) \/ Keeps(p)
<1> DEFINE Goal == Fills(p) \/ Empties(p) \/ EndsBare(p) \/ Keeps(p)
<1>1. ASSUME NEW f \in Flows, NEW ph \in Phases, Pause(f, ph) PROVE Goal
  <2>0. UNCHANGED <<callStep, callPause, callAnswer, chan>>
    BY <1>1 DEF Pause, PauseFull, Publish, callVars
  <2>1. Accepted(p)' = Accepted(p)
    BY <2>0 DEF Accepted
  <2>2. CASE PauseFull(f, ph) /\ p = <<f, ph>>
    BY <1>1, <2>0, <2>1, <2>2 DEF Pause, PauseFull, EndsBare, TypeOK
  <2>3. CASE PauseFull(f, ph) /\ p # <<f, ph>>
    BY <2>0, <2>1, <2>3 DEF PauseFull, Keeps, TypeOK
  <2>4. CASE Publish(f, ph)
    BY <2>0, <2>1, <2>4 DEF Publish, Keeps
  <2> QED BY <1>1, <2>2, <2>3, <2>4 DEF Pause
<1>2. ASSUME NEW f \in Flows, InPause(f) PROVE Goal
  <2>0. UNCHANGED <<callStep, callPause, callAnswer>>
    BY <1>2 DEF InPause, EmitHit, EmitPanics, Receive, TimeOut, Unpublish, Resolve, callVars
  <2>1. Accepted(p)' = Accepted(p)
    BY <2>0 DEF Accepted
  <2>2. CASE p = <<f, at[f]>> /\ Receive(f)
    BY <2>0, <2>1, <2>2 DEF Receive, Empties, OpenPauseHasNoEnding, TypeOK
  <2>3. CASE p = <<f, at[f]>> /\ (TimeOut(f) \/ EmitPanics(f))
    BY <2>0, <2>1, <2>3 DEF TimeOut, EmitPanics, EndsBare, OpenPauseHasNoEnding, TypeOK
  <2>4. CASE p # <<f, at[f]>> /\ (Receive(f) \/ TimeOut(f) \/ EmitPanics(f))
    BY <2>0, <2>1, <2>4 DEF Receive, TimeOut, EmitPanics, Keeps, TypeOK
  <2>5. CASE EmitHit(f) \/ Unpublish(f) \/ Resolve(f)
    BY <2>0, <2>1, <2>5 DEF EmitHit, Unpublish, Resolve, Keeps
  <2> QED BY <1>2, <2>2, <2>3, <2>4, <2>5 DEF InPause
<1>3. ASSUME NEW c \in Calls, NEW f \in Flows, NEW a \in Answers, Lookup(c, f, a)
      PROVE Goal
  <2>1. Accepted(p)' = Accepted(p)
    BY <1>3 DEF Lookup, Accepted, TypeOK
  <2>2. c \notin Accepted(p)
    BY <1>3 DEF Lookup, Accepted
  <2> QED BY <1>3, <2>1, <2>2 DEF Lookup, pauseVars, Accepted, Keeps, TypeOK
<1>4. ASSUME NEW c \in Calls, Send(c) PROVE Goal
  <2>1. CASE SlotFree(c) /\ p = callPause[c]
    BY <1>4, <2>1 DEF Send, SlotFree, pauseVars, Fills
  <2>2. CASE SlotFree(c) /\ p # callPause[c]
    <3>1. Accepted(p)' = Accepted(p)
      BY <1>4, <2>2, AcceptedAfterSend DEF Send
    <3> QED BY <1>4, <2>2, <3>1 DEF Send, SlotFree, pauseVars, Keeps, TypeOK
  <2>3. CASE SlotFull(c)
    <3>1. Accepted(p)' = Accepted(p) /\ c \notin Accepted(p)
      BY <1>4, <2>3 DEF Send, SlotFull, Accepted, TypeOK
    <3> QED BY <1>4, <2>3, <3>1 DEF Send, SlotFull, pauseVars, Accepted, Keeps, TypeOK
  <2> QED BY <1>4, <2>1, <2>2, <2>3 DEF Send
<1>5. ASSUME NEW f \in Flows, NEW s \in HandlerStates, SetState(f, s) PROVE Goal
  BY <1>5 DEF SetState, pauseVars, callVars, Accepted, Keeps
<1>6. CASE UNCHANGED bpVars
  BY <1>6 DEF bpVars, pauseVars, callVars, Accepted, Keeps
<1> QED BY <1>1, <1>2, <1>3, <1>4, <1>5, <1>6 DEF Next

-----------------------------------------------------------------------------
LEMMA StepSlot ==
  TypeOK /\ OpenPauseHasNoEnding /\ SlotComesFromCall /\ [Next]_bpVars
     => SlotComesFromCall'
<1> SUFFICES ASSUME TypeOK, OpenPauseHasNoEnding, SlotComesFromCall, [Next]_bpVars,
                    NEW p \in Pauses, chan'[p] # None
             PROVE  \E c \in Accepted(p)' : callAnswer'[c] = chan'[p]
    BY DEF SlotComesFromCall
<1>1. CASE Fills(p)
  <2>1. PICK c \in Calls : /\ callStep[c] = "send" /\ callPause[c] = p /\ SlotFree(c)
    BY <1>1 DEF Fills
  <2>2. c \in Accepted(p)'
    BY <2>1, AcceptedAfterSend
  <2>3. callAnswer'[c] = chan'[p]
    BY <2>1 DEF SlotFree, TypeOK
  <2> QED BY <2>2, <2>3
<1>2. CASE Empties(p)
  BY <1>2 DEF Empties
<1>3. CASE EndsBare(p)
  BY <1>3 DEF EndsBare, SlotComesFromCall
<1>4. CASE Keeps(p)
  BY <1>4 DEF Keeps, SlotComesFromCall
<1> QED BY <1>1, <1>2, <1>3, <1>4, StepOfOnePause

LEMMA StepAnswers ==
  /\ TypeOK /\ OpenPauseHasNoEnding /\ SlotComesFromCall /\ AnswersComeFromCalls
  /\ [Next]_bpVars
  => AnswersComeFromCalls'
<1> SUFFICES ASSUME TypeOK, OpenPauseHasNoEnding, SlotComesFromCall,
                    AnswersComeFromCalls, [Next]_bpVars,
                    NEW p \in Pauses, taken'[p] \in Answers
             PROVE  \E c \in Accepted(p)' : callAnswer'[c] = taken'[p]
    BY DEF AnswersComeFromCalls
<1>1. CASE Fills(p)
  <2>1. PICK d \in Calls : /\ callStep[d] = "send" /\ callPause[d] = p /\ SlotFree(d)
                           /\ taken'[p] = taken[p]
    BY <1>1 DEF Fills
  <2>2. PICK c \in Accepted(p) : callAnswer[c] = taken[p]
    BY <2>1 DEF AnswersComeFromCalls
  <2>3. c \in Accepted(p)'
    BY <2>1, <2>2, AcceptedAfterSend
  <2> QED BY <2>1, <2>2, <2>3 DEF SlotFree
<1>2. CASE Empties(p)
  BY <1>2 DEF Empties, SlotComesFromCall
<1>3. CASE EndsBare(p)
  BY <1>3 DEF EndsBare, Answers
<1>4. CASE Keeps(p)
  BY <1>4 DEF Keeps, AnswersComeFromCalls
<1> QED BY <1>1, <1>2, <1>3, <1>4, StepOfOnePause

(* The number of accepted calls is that of the answers; the sets counted   *)
(* are finite because they grow by one call at a time.                     *)
AcceptedFinite == \A p \in Pauses : IsFiniteSet(Accepted(p))

LEMMA StepAccounted ==
  TypeOK /\ OpenPauseHasNoEnding /\ AcceptedFinite /\ AcceptedAccounted /\ [Next]_bpVars
     => (AcceptedFinite /\ AcceptedAccounted)'
<1> DEFINE Count(t, s) == (IF t \in Answers THEN 1 ELSE 0) + (IF s # None THEN 1 ELSE 0)
<1> SUFFICES ASSUME TypeOK, OpenPauseHasNoEnding, AcceptedFinite, AcceptedAccounted,
                    [Next]_bpVars, NEW p \in Pauses
             PROVE  /\ IsFiniteSet(Accepted(p)')
                    /\ Cardinality(Accepted(p)') = Count(taken'[p], chan'[p])
    BY DEF AcceptedFinite, AcceptedAccounted
<1>0. IsFiniteSet(Accepted(p)) /\ Cardinality(Accepted(p)) = Count(taken[p], chan[p])
  BY DEF AcceptedFinite, AcceptedAccounted
<1>1. CASE Fills(p)
  <2>1. PICK c \in Calls : /\ callStep[c] = "send" /\ callPause[c] = p /\ SlotFree(c)
                           /\ chan[p] = None /\ taken'[p] = taken[p]
    BY <1>1 DEF Fills
  <2>2. Accepted(p)' = Accepted(p) \cup {c} /\ c \notin Accepted(p)
    BY <2>1, AcceptedAfterSend DEF Accepted
  <2>3. /\ IsFiniteSet(Accepted(p)')
        /\ Cardinality(Accepted(p)') = Cardinality(Accepted(p)) + 1
    BY <1>0, <2>2, FS_AddElement
  <2>4. chan'[p] # None
    BY <2>1 DEF SlotFree, TypeOK, Answers, None
  <2> QED BY <1>0, <2>1, <2>3, <2>4
<1>2. CASE Empties(p)
  <2>1. taken'[p] \in Answers /\ taken[p] \notin Answers
    BY <1>2 DEF Empties, TypeOK, Answers, None
  <2> QED BY <1>0, <1>2, <2>1 DEF Empties
<1>3. CASE EndsBare(p)
  BY <1>0, <1>3 DEF EndsBare, Answers, None
<1>4. CASE Keeps(p)
  BY <1>0, <1>4 DEF Keeps
<1> QED BY <1>1, <1>2, <1>3, <1>4, StepOfOnePause

(* A pause ends with an answer only if a call sent that answer to that     *)
(* pause and was told so; the timer, a panic and a full table block and    *)
(* edit nothing, and no answer reaches the other pause of the flow.        *)
THEOREM OnlyCallsAnswer == Spec => []AnswersComeFromCalls
<1> DEFINE Inv == /\ TypeOK /\ OpenPauseHasNoEnding
                  /\ SlotComesFromCall /\ AnswersComeFromCalls
<1>1. Init => Inv
  BY InitTypeOK DEF Init, OpenPauseHasNoEnding, SlotComesFromCall, AnswersComeFromCalls,
                    Answers, None
<1>2. Inv /\ [Next]_bpVars => Inv'
  BY StepTypeOK, StepOpenPause, StepSlot, StepAnswers
<1>3. Inv => AnswersComeFromCalls
  OBVIOUS
<1> QED BY <1>1, <1>2, <1>3, PTL DEF Spec

(* Every call that was told it was accepted is the one its pause took or   *)
(* the one in its slot: with any number of calls in any order, two answers *)
(* of one pause are never both taken, and none of them overwritten.        *)
THEOREM EveryAcceptedCallCounts == Spec => []AcceptedAccounted
<1> DEFINE Inv == TypeOK /\ OpenPauseHasNoEnding /\ AcceptedFinite /\ AcceptedAccounted
<1>1. Init => Inv
  <2> SUFFICES ASSUME Init, NEW p \in Pauses
               PROVE  /\ IsFiniteSet(Accepted(p))
                      /\ Cardinality(Accepted(p)) = 0
                      /\ taken[p] \notin Answers /\ chan[p] = None
      BY InitTypeOK DEF Init, OpenPauseHasNoEnding, AcceptedFinite, AcceptedAccounted
  <2>1. Accepted(p) = {}
    BY DEF Init, Accepted
  <2> QED BY <2>1, FS_EmptySet DEF Init, Answers, None
<1>2. Inv /\ [Next]_bpVars => Inv'
  BY StepTypeOK, StepOpenPause, StepAccounted
<1>3. Inv => AcceptedAccounted
  OBVIOUS
<1> QED BY <1>1, <1>2, <1>3, PTL DEF Spec
=============================================================================
