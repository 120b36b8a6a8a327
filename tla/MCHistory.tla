----------------------------- MODULE MCHistory -----------------------------
(***************************************************************************)
(* History for TLC, with the operators interchangeable.                    *)
(***************************************************************************)
EXTENDS History, TLC

CONSTANTS v1, v2, bad

OperatorSymmetry == Permutations(Operators)
=============================================================================
