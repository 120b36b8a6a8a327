------------------------------ MODULE Follower ------------------------------
(***************************************************************************)
(* What GTID replication from mysql-primary to mysql-replica promises while *)
(* nobody restores or promotes: rows are only added to the primary, and the *)
(* replica adds the same rows in the same order, each one once.            *)
(***************************************************************************)
EXTENDS Naturals, Sequences

CONSTANTS
  Row,   \* the rows that can be inserted
  Seed   \* what the primary holds before replication is set up

VARIABLES
  log,   \* the rows of the primary, in the order they were committed
  copy   \* the rows of the replica

Init ==
  /\ log = Seed
  /\ copy = << >>

Commit ==
  /\ \E row \in Row : log' = Append(log, row)
  /\ UNCHANGED copy

Catch ==
  /\ Len(copy) < Len(log)
  /\ copy' = Append(copy, log[Len(copy) + 1])
  /\ UNCHANGED log

Next == Commit \/ Catch

Spec == Init /\ [][Next]_<<log, copy>>
=============================================================================
