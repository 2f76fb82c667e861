------------------------------ MODULE Selection ------------------------------
(***************************************************************************)
(* SelectSeq with the test given as a set, and defined by a function: the  *)
(* prover has no facts about SelectSeq, which takes an operator.           *)
(***************************************************************************)
EXTENDS Naturals, Sequences

(* The elements of s that are in T, in their order.                        *)
Only(s, T) ==
  LET upTo[n \in 0..Len(s)] ==
        IF n = 0 THEN <<>> ELSE IF s[n] \in T THEN Append(upTo[n - 1], s[n]) ELSE upTo[n - 1]
  IN upTo[Len(s)]
=============================================================================
