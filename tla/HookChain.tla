----------------------------- MODULE HookChain ------------------------------
(***************************************************************************)
(* The hooks of one phase, met one after the other in the order of the     *)
(* snapshot (internal/pipeline/pipeline.go): a step is the next hook and   *)
(* its result, and what the pipeline has decided at that point is the      *)
(* decision Decisions computes for the results so far.                     *)
(***************************************************************************)
EXTENDS Decisions

VARIABLE answers   \* the results of the hooks met so far

ChainInit == answers = <<>>

(* A hook is skipped, runs to its result or panics (callHook recovers).    *)
NextHook == \E r \in Results : answers' = Append(answers, r)

ChainSpec == ChainInit /\ [][NextHook]_answers

-----------------------------------------------------------------------------
(* OnRequest decides as the first abort or mock does and pauses for every  *)
(* breakpoint before it; OnResponse lets an abort override every mock,     *)
(* also an earlier one, and of several mocks keeps the first.  A           *)
(* breakpoint neither displaces a decision nor is displaced by one,        *)
(* whatever the number and order of the hooks (pipeline.go:161,            *)
(* decision.go:14).  A message is dropped exactly when some hook aborts    *)
(* it, whatever the others say before or after (pipeline.go:227).          *)
ChainsDecide == Decides(answers)
=============================================================================
