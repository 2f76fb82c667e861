--------------------------- MODULE MCFlowPipeline ---------------------------
(* Instances of FlowPipeline for TLC.                                      *)
EXTENDS FlowPipeline, TLC

(* One representative of each decision, with and without a request to      *)
(* pause; MCAlgorithms covers the longer sequences.                        *)
EveryRun ==
  {<<>>, <<"breakpoint">>, <<"mock">>, <<"breakpoint", "mock">>,
   <<"mock", "breakpoint">>, <<"mock", "abort_status">>,
   <<"abort_close">>, <<"abort_status">>}

(* Two exchanges side by side: plain ones and blocked ones.                *)
FewRuns == {<<>>, <<"breakpoint">>, <<"abort_close">>}

Symmetry == Permutations(Flows) \cup Permutations(Calls)
=============================================================================
