---------------------------- MODULE MCBlueGreen ----------------------------
(***************************************************************************)
(* BlueGreen for TLC.  The configurations give the constants; symmetric    *)
(* sets are permuted only in runs without temporal properties.             *)
(***************************************************************************)
EXTENDS BlueGreen, TLC

CONSTANTS v1, v2, bad

OperatorSymmetry == Permutations(Operators)
=============================================================================
