------------------------------ MODULE History ------------------------------
(***************************************************************************)
(* What becomes of the entries of history.json when runs overlap.          *)
(* append_history (common.py:303-310) reads the whole object and writes it *)
(* back with no lock, so of two runs between that read and that write one  *)
(* can drop the entry of the other.  This module adds a history variable,  *)
(* the log as it last stood while no run was between the two, and says     *)
(* what is never lost.                                                     *)
(***************************************************************************)
EXTENDS BlueGreen

VARIABLE settled   \* history.json when it was last settled

hvars == <<vars, settled>>

\* No run is between its read and its write of the history.
Settled == \A o \in Operators : pc[o] # "hist_write"

HistoryInit == Init /\ settled = history

HistoryNext ==
  /\ Next
  /\ settled' = IF Settled' THEN history' ELSE settled

HistorySpec == HistoryInit /\ [][HistoryNext]_hvars

\* Of the log h the log g keeps every entry, in its place, or loses the n
\* oldest ones because it is full.
Survives(h, g) ==
  \E n \in 0..Len(h) :
    /\ Len(h) - n <= Len(g)
    /\ \A i \in 1..(Len(h) - n) : g[i] = h[n + i]
    /\ n > 0 => Len(g) = MaxHistory

\* However runs overlap, break off and repeat, an entry that was in the log
\* when no run was between its read and its write is lost only to newer
\* entries that fill the log (common.py:309): the runs under way can lose each
\* other's entries and nobody else's.
SettledStays == [][Survives(settled, history')]_hvars
=============================================================================
