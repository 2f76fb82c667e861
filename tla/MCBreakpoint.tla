---------------------------- MODULE MCBreakpoint ----------------------------
(* Instances of Breakpoint for TLC.                                        *)
EXTENDS Breakpoint, TLC

Symmetry == Permutations(Flows) \cup Permutations(Calls)
=============================================================================
