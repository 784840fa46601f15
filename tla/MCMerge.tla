------------------------------ MODULE MCMerge -------------------------------
(***************************************************************************)
(* Two contributions with every combination of fields, and two answers.    *)
(***************************************************************************)
EXTENDS Merge

CONSTANTS v1, v2, f1

TwoAnswers == {[f \in Fields |-> IF f = f1 THEN v1 ELSE Absent], [f \in Fields |-> v2]}
=============================================================================
