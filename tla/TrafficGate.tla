---------------------------- MODULE TrafficGate ----------------------------
(***************************************************************************)
(* What the blue-green pipeline promises its users, with no instance, no   *)
(* nginx and no colours: one version answers the public endpoint, it only  *)
(* ever changes to a version whose build can pass a health check, it never *)
(* goes away again, and the ledger's last-good entry only ever records the *)
(* version that is answering at that moment.                               *)
(***************************************************************************)
CONSTANTS
  Tags,     \* image tags (git short shas)
  BadTags,  \* the tags whose build never passes its health check
  NoTag     \* "nothing": no version answers, no version recorded

VARIABLES
  serving,  \* the version the public endpoint answers with
  recorded  \* the version last-good.json names

Init ==
  /\ serving = NoTag
  /\ recorded = NoTag

\* Traffic moves, in one step, to a healthy version.
Promote ==
  /\ serving' \in Tags \ BadTags
  /\ UNCHANGED recorded

\* The version that is live becomes the last known good one.
Record ==
  /\ serving # NoTag
  /\ recorded' = serving
  /\ UNCHANGED serving

Next == Promote \/ Record

Spec == Init /\ [][Next]_<<serving, recorded>>
=============================================================================
