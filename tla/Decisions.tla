----------------------------- MODULE Decisions ------------------------------
(***************************************************************************)
(* How the pipeline turns the results of its hooks into one decision and   *)
(* one request to pause: internal/flow/decision.go and the loops of        *)
(* OnRequest and OnResponse in internal/pipeline/pipeline.go.              *)
(*                                                                         *)
(* The hooks of a phase are the sequence of their results, in the order    *)
(* the snapshot gives them.  A hook that is disabled or does not match the *)
(* URL is "skipped"; one that panics counts as a continue.  The two aborts *)
(* are those whose StatusOnAbort is zero (close) and non-zero (status).    *)
(***************************************************************************)
EXTENDS Integers, Sequences, SequencesExt

Aborts  == {"abort_close", "abort_status"}
Results == {"skipped", "panic", "continue", "breakpoint", "mock"} \cup Aborts

(* DecisionKind.priority.                                                  *)
Priority(r) ==
  CASE r \in Aborts      -> 3
    [] r = "mock"        -> 2
    [] r = "breakpoint"  -> 1
    [] OTHER             -> 0

(* A decision remembers which hook took it (0: the initial continue).      *)
Continue == [is |-> "continue", by |-> 0]

(* Merge: the higher priority wins, of two equal ones the earlier.         *)
Merge(acc, next) == IF Priority(next.is) > Priority(acc.is) THEN next ELSE acc

Hooked(results) == [i \in DOMAIN results |-> [is |-> results[i], by |-> i]]

RequestStops  == Aborts \cup {"mock"}   \* OnRequest breaks off at these
ResponseStops == Aborts                 \* and OnResponse only at these

(* The loop's body: a breakpoint only sets pause, anything else is merged. *)
AfterHook(acc, next, stops) ==
  LET d == Merge(acc.decision, next) IN
  IF acc.stopped \/ next.is = "skipped" THEN acc
  ELSE IF next.is = "breakpoint" THEN [acc EXCEPT !.pause = TRUE]
  ELSE [acc EXCEPT !.decision = d, !.stopped = d.is \in stops]

RunHooks(results, stops) ==
  FoldLeft(LAMBDA acc, next : AfterHook(acc, next, stops),
           [decision |-> Continue, pause |-> FALSE, stopped |-> FALSE],
           Hooked(results))

(* Mutant of OnRequest: it breaks off only where OnResponse does.          *)
OnRequestKeepsGoing(results) == RunHooks(results, ResponseStops)

OnRequest(results)  == RunHooks(results, RequestStops)

OnResponse(results) == RunHooks(results, ResponseStops)

(* OnWebSocketMessage and OnStreamMessage never pause: they merge every    *)
(* result and return at the first abort.                                   *)
OnMessage(results) ==
  FoldLeft(LAMBDA acc, next : IF acc.is \in Aborts THEN acc ELSE Merge(acc, next),
           Continue, Hooked(results))

-----------------------------------------------------------------------------
(* The first hook with one of these results, 0 when there is none.         *)
FirstOf(results, wanted) ==
  LET hits == {i \in DOMAIN results : results[i] \in wanted}
  IN IF hits = {} THEN 0 ELSE Min(hits)

(* Whether a hook that runs, the one that breaks the loop off being hook   *)
(* `last`, asks for a breakpoint.                                          *)
AskedBefore(results, last) ==
  \E i \in DOMAIN results : results[i] = "breakpoint" /\ (last = 0 \/ i < last)

(* What a chain of hooks should decide, without a loop.                    *)
Decides(results) ==
  LET request  == OnRequest(results)
      response == OnResponse(results)
      message  == OnMessage(results)
      first    == FirstOf(results, Aborts \cup {"mock"})
      abort    == FirstOf(results, Aborts)
  IN /\ request.decision.by = first
     /\ request.pause = AskedBefore(results, first)
     /\ response.decision.by = (IF abort # 0 THEN abort ELSE FirstOf(results, {"mock"}))
     /\ response.pause = AskedBefore(results, abort)
     /\ (message.is \in Aborts) = (abort # 0)
     /\ abort # 0 => message.by = abort
=============================================================================
