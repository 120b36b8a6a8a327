--------------------------- MODULE MCReplication ---------------------------
(***************************************************************************)
(* Replication for TLC.  Everything is given by the configurations; rows   *)
(* are numbered in the order of their insertion, so there is no symmetry   *)
(* to use.                                                                 *)
(***************************************************************************)
EXTENDS Replication, TLC
=============================================================================
