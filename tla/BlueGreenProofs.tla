-------------------------- MODULE BlueGreenProofs --------------------------
(***************************************************************************)
(* Theorems about BlueGreen, for every value of its constants and however  *)
(* runs overlap: the types, that the ledger offers no build that fails its *)
(* health check, that every step brings its run nearer to its end, and     *)
(* that a settled entry of the history stays (History).                    *)
(***************************************************************************)
EXTENDS History, TLAPS

-----------------------------------------------------------------------------
(* Types: the control operators keep the run state well-typed *)

LEMMA NoJobType == NoJob \in Jobs
  BY DEF NoJob, Jobs, AllKinds, Colors, NoColor

LEMMA ExitType ==
  ASSUME RunTypeOK, NEW o \in Operators, NEW code \in ExitCodes, Exit(o, code)
  PROVE  RunTypeOK'
  BY NoJobType DEF RunTypeOK, Exit, Labels

LEMMA ContinueType ==
  ASSUME RunTypeOK, NEW o \in Operators, NEW label \in Labels, Continue(o, label)
  PROVE  RunTypeOK'
  BY DEF RunTypeOK, Continue, Goto

LEMMA ContinueWithType ==
  ASSUME RunTypeOK, NEW o \in Operators, NEW label \in Labels, NEW j \in Jobs,
         ContinueWith(o, label, j)
  PROVE  RunTypeOK'
  BY DEF RunTypeOK, ContinueWith, Goto

LEMMA StartType ==
  ASSUME TypeOK, NEW o \in Operators, NEW k \in AllKinds, NEW t \in Tags \cup {NoTag},
         NEW label \in Labels, Start(o, k, t, label)
  PROVE  TypeOK'
<1> DEFINE j == [NoJob EXCEPT !.kind = k, !.tag = t]
<1>1. j \in Jobs
  BY NoJobType DEF Jobs
<1>2. RunTypeOK'
  <2>1. job' = [job EXCEPT ![o] = j] /\ pc' = [pc EXCEPT ![o] = label]
    BY DEF Start, Goto
  <2>2. exit' = [exit EXCEPT ![o] = NoExit] /\ runs' = runs + 1 /\ runs < MaxRuns
    BY DEF Start, MayStart
  <2>3. runs' \in 0..MaxRuns
    BY <2>2, BoundsAssumption DEF TypeOK, RunTypeOK
  <2> QED
    BY <1>1, <2>1, <2>2, <2>3 DEF TypeOK, RunTypeOK, ExitCodes
<1>3. HostTypeOK' /\ LedgerTypeOK'
  BY DEF Start, host, ledger, TypeOK, HostTypeOK, LedgerTypeOK
<1> QED
  BY <1>2, <1>3 DEF TypeOK

LEMMA ReturnType ==
  ASSUME RunTypeOK, NEW o \in Operators, NEW label \in Labels, Return(o, label)
  PROVE  RunTypeOK'
  BY ContinueType, ExitType DEF Return, ExitCodes

LEMMA ScriptFailedType ==
  ASSUME RunTypeOK, NEW o \in Operators, ScriptFailed(o)
  PROVE  RunTypeOK'
<1>1. PICK code \in ExitCodes : Exit(o, code)
  BY DEF ScriptFailed, ExitCodes
<1> QED
  BY <1>1, ExitType

\* What the slots hold stays a container.
LEMMA VacantType == Vacant \in Containers
  BY DEF Vacant, Containers

LEMMA SetSlotType ==
  ASSUME HostTypeOK, NEW c \in Colors, NEW v \in Containers, SetSlot(c, v)
  PROVE  slot' \in [Colors -> Containers]
  BY DEF HostTypeOK, SetSlot

LEMMA StopType ==
  ASSUME HostTypeOK, NEW c \in Colors, Stop(c)
  PROVE  slot' \in [Colors -> Containers]
<1>1. PICK left \in StopOutcomes(slot[c]) : SetSlot(c, left)
  BY DEF Stop
<1>2. slot[c] \in Containers
  BY DEF HostTypeOK
<1>3. left \in Containers
  BY <1>2, VacantType DEF StopOutcomes, Containers
<1> QED
  BY <1>1, <1>3, SetSlotType

\* The history is cut to MaxHistory entries, all of them entries it had.
LEMMA TruncatedType ==
  ASSUME NEW h \in Seq(Entries)
  PROVE  /\ Truncated(h) \in Seq(Entries)
         /\ Len(Truncated(h)) <= MaxHistory
         /\ \A i \in DOMAIN Truncated(h) : \E k \in DOMAIN h : Truncated(h)[i] = h[k]
<1>1. CASE Len(h) <= MaxHistory
  BY <1>1, BoundsAssumption DEF Truncated
<1>2. CASE Len(h) > MaxHistory
  <2> DEFINE m == Len(h) - MaxHistory + 1
  <2>1. Truncated(h) = SubSeq(h, m, Len(h))
    BY <1>2 DEF Truncated
  <2>2. m \in 1..Len(h) /\ Len(h) \in Nat
    BY <1>2, BoundsAssumption
  <2>3. \A k \in 1..Len(h) : h[k] \in Entries
    OBVIOUS
  <2>4. SubSeq(h, m, Len(h)) = [i \in 1..MaxHistory |-> h[i + m - 1]]
    BY <2>2, BoundsAssumption
  <2>5. \A i \in 1..MaxHistory : i + m - 1 \in 1..Len(h)
    BY <2>2, <1>2, BoundsAssumption
  <2>6. SubSeq(h, m, Len(h)) \in Seq(Entries)
    BY <2>3, <2>4, <2>5, BoundsAssumption
  <2>7. Len(SubSeq(h, m, Len(h))) = MaxHistory
    BY <2>4, BoundsAssumption
  <2>8. \A i \in DOMAIN Truncated(h) : \E k \in DOMAIN h : Truncated(h)[i] = h[k]
    <3> SUFFICES ASSUME NEW i \in 1..MaxHistory
                 PROVE  \E k \in DOMAIN h : Truncated(h)[i] = h[k]
      BY <2>1, <2>4
    <3>1. i + m - 1 \in DOMAIN h
      BY <2>5
    <3>2. Truncated(h)[i] = h[i + m - 1]
      BY <2>1, <2>4
    <3> QED
      BY <3>1, <3>2
  <2> QED
    BY <2>1, <2>6, <2>7, <2>8, BoundsAssumption
<1> QED
  BY <1>1, <1>2, BoundsAssumption

LEMMA EntryType ==
  ASSUME NEW h \in Seq(Entries), NEW i \in DOMAIN h
  PROVE  h[i] \in Entries /\ h[i].tag \in Tags
<1>1. h[i] \in Entries
  OBVIOUS
<1> QED
  BY <1>1 DEF Entries

LEMMA PickedType ==
  ASSUME NEW r \in Jobs, NEW t \in Tags
  PROVE  /\ [r EXCEPT !.tag = t, !.seen = << >>] \in Jobs
         /\ [r EXCEPT !.tag = t, !.seen = << >>].tag = t
<1>1. << >> \in Seq(Entries)
  OBVIOUS
<1> QED
  BY <1>1 DEF Jobs

LEMMA NextAttemptType ==
  ASSUME NEW r \in Jobs
  PROVE  LET j == [r EXCEPT !.attempt = @ + 1]
         IN j \in Jobs /\ j.tag = r.tag /\ j.target = r.target
<1>1. r.attempt + 1 \in Nat
  BY DEF Jobs
<1> QED
  BY <1>1 DEF Jobs

LEMMA AppendedType ==
  ASSUME NEW o \in Operators, job[o] \in Jobs, job[o].tag \in Tags
  PROVE  /\ Appended(o) \in Seq(Entries)
         /\ Len(Appended(o)) <= MaxHistory
<1>1. Append(job[o].seen, [tag |-> job[o].tag, status |-> job[o].status]) \in Seq(Entries)
  BY DEF Jobs, Entries
<1> QED
  BY <1>1, TruncatedType DEF Appended

-----------------------------------------------------------------------------
(* The type invariant.  That history entries are well-typed rests on the    *)
(* run knowing its tag and its slot from the steps that choose them on.     *)

SlotLabels ==
  {"pull", "remove", "create", "gate", "teardown", "still_live", "install",
   "test", "reload", "drain", "last_good", "hist_read", "hist_write"}

Chosen(o) ==
  /\ pc[o] \in SlotLabels \cup {"active", "inactive"} => job[o].tag \in Tags
  /\ pc[o] \in SlotLabels \cup {"fo_inspect"} => job[o].target \in Colors
  /\ pc[o] \in {"fo_inspect", "drain"} => job[o].current \in Colors

TypeInv == TypeOK /\ \A o \in Operators : Chosen(o)

\* A step of o leaves the runs of the others alone.
Moves(o) ==
  \A p \in Operators \ {o} : pc'[p] = pc[p] /\ job'[p] = job[p]

LEMMA ChosenOthers ==
  ASSUME TypeInv, NEW o \in Operators, Moves(o), Chosen(o)'
  PROVE  \A p \in Operators : Chosen(p)'
  BY DEF TypeInv, Chosen, Moves

LEMMA ExitChosen ==
  ASSUME TypeInv, NEW o \in Operators, NEW code \in ExitCodes, Exit(o, code)
  PROVE  RunTypeOK' /\ \A p \in Operators : Chosen(p)'
<1>1. RunTypeOK'
  BY ExitType DEF TypeInv, TypeOK
<1>2. Moves(o) /\ Chosen(o)'
  BY DEF TypeInv, TypeOK, RunTypeOK, Exit, Moves, Chosen, SlotLabels
<1> QED
  BY <1>1, <1>2, ChosenOthers

LEMMA ContinueChosen ==
  ASSUME TypeInv, NEW o \in Operators, NEW label \in Labels, Continue(o, label),
         label \in SlotLabels => pc[o] \in SlotLabels,
         label # "fo_inspect",
         label = "drain" => job[o].current \in Colors,
         label \in {"active", "inactive"} => job[o].tag \in Tags
  PROVE  RunTypeOK' /\ \A p \in Operators : Chosen(p)'
<1>1. RunTypeOK'
  BY ContinueType DEF TypeInv, TypeOK
<1>2. Moves(o) /\ Chosen(o)'
  BY DEF TypeInv, TypeOK, RunTypeOK, Continue, Goto, Moves, Chosen
<1> QED
  BY <1>1, <1>2, ChosenOthers

LEMMA ContinueWithChosen ==
  ASSUME TypeInv, NEW o \in Operators, NEW label \in Labels, NEW j \in Jobs,
         ContinueWith(o, label, j),
         label \in SlotLabels \cup {"active", "inactive"} => j.tag \in Tags,
         label \in SlotLabels \cup {"fo_inspect"} => j.target \in Colors,
         label \in {"fo_inspect", "drain"} => j.current \in Colors
  PROVE  RunTypeOK' /\ \A p \in Operators : Chosen(p)'
<1>1. RunTypeOK'
  BY ContinueWithType DEF TypeInv, TypeOK
<1>2. Moves(o) /\ Chosen(o)'
  BY DEF TypeInv, TypeOK, RunTypeOK, ContinueWith, Goto, Moves, Chosen
<1> QED
  BY <1>1, <1>2, ChosenOthers

LEMMA ReturnChosen ==
  ASSUME TypeInv, NEW o \in Operators, NEW label \in Labels, Return(o, label),
         label \in SlotLabels => pc[o] \in SlotLabels,
         label \notin {"fo_inspect", "active", "inactive"},
         label = "drain" => job[o].current \in Colors
  PROVE  RunTypeOK' /\ \A p \in Operators : Chosen(p)'
<1>1. CASE Continue(o, label)
  BY <1>1, ContinueChosen
<1>2. CASE Exit(o, Precondition)
  BY <1>2, ExitChosen DEF ExitCodes
<1> QED
  BY <1>1, <1>2 DEF Return

LEMMA ScriptFailedChosen ==
  ASSUME TypeInv, NEW o \in Operators, ScriptFailed(o)
  PROVE  RunTypeOK' /\ \A p \in Operators : Chosen(p)'
<1>1. PICK code \in ExitCodes : Exit(o, code)
  BY DEF ScriptFailed, ExitCodes
<1> QED
  BY <1>1, ExitChosen

LEMMA StoppedType ==
  ASSUME TypeInv, NEW o \in Operators, pc[o] \in SlotLabels
  PROVE  [NewContainer(o) EXCEPT !.up = FALSE] \in Containers
  BY DEF NewContainer, Containers, TypeInv, Chosen

LEMMA NewContainerType ==
  ASSUME TypeInv, NEW o \in Operators, pc[o] \in SlotLabels
  PROVE  NewContainer(o) \in Containers
  BY DEF NewContainer, Containers, TypeInv, Chosen

\* No step of a run leaves the type invariant.
LEMMA StepTypeInv ==
  ASSUME TypeInv, NEW o \in Operators, Step(o)
  PROVE  TypeInv'
<1>1. CASE ReadLive(o)
  <2>1. HostTypeOK' /\ LedgerTypeOK'
    BY <1>1 DEF ReadLive, HostTypeOK, LedgerTypeOK, TypeOK, TypeInv, host, ledger
  <2>2. VersionServed \in Tags \cup {NoTag}
    BY DEF VersionServed, TypeInv, TypeOK, HostTypeOK, Containers
  <2>3. PICK v \in Tags \cup {NoTag} :
          ContinueWith(o, "recorded", [job[o] EXCEPT !.live = v])
    BY <1>1, <2>2 DEF ReadLive
  <2>4. [job[o] EXCEPT !.live = v] \in Jobs
    BY DEF TypeInv, TypeOK, RunTypeOK, Jobs
  <2> QED
    BY <2>1, <2>3, <2>4, ContinueWithChosen DEF TypeInv, TypeOK, SlotLabels, Labels
<1>2. CASE CheckLedger(o)
  <2>1. HostTypeOK' /\ LedgerTypeOK'
    BY <1>2 DEF CheckLedger, HostTypeOK, LedgerTypeOK, TypeOK, TypeInv, host, ledger
  <2>2. job[o].tag \in Tags \cup {NoTag}
    BY DEF TypeInv, TypeOK, RunTypeOK, Jobs
  <2> QED
    BY <1>2, <2>1, <2>2, ContinueChosen, ExitChosen
    DEF CheckLedger, TypeInv, TypeOK, SlotLabels, Labels, ExitCodes
<1>3. CASE ReadPast(o)
  <2>1. HostTypeOK' /\ LedgerTypeOK'
    BY <1>3 DEF ReadPast, HostTypeOK, LedgerTypeOK, TypeOK, TypeInv, host, ledger
  <2> DEFINE j == [job[o] EXCEPT !.seen = history]
  <2>2. j \in Jobs
    BY DEF TypeInv, TypeOK, RunTypeOK, LedgerTypeOK, HostTypeOK, Jobs
  <2>3. ContinueWith(o, "pick", j)
    BY <1>3 DEF ReadPast
  <2> QED
    BY <2>1, <2>2, <2>3, ContinueWithChosen DEF TypeInv, TypeOK, Chosen, SlotLabels, Labels, ReadPast
<1>4. CASE PickPrevious(o)
  <2>1. HostTypeOK' /\ LedgerTypeOK'
    BY <1>4 DEF PickPrevious, HostTypeOK, LedgerTypeOK, TypeOK, TypeInv, host, ledger
  <2>2. CASE Exit(o, Precondition)
    BY <2>1, <2>2, ExitChosen DEF TypeInv, TypeOK, ExitCodes
  <2>3. CASE ~Exit(o, Precondition)
    <3>1. PICK i \in Candidates(o) : ContinueWith(o, "active",
               [job[o] EXCEPT !.tag = job[o].seen[i].tag, !.seen = << >>])
      BY <1>4, <2>3 DEF PickPrevious
    <3> DEFINE j == [job[o] EXCEPT !.tag = job[o].seen[i].tag, !.seen = << >>]
    <3>2. job[o] \in Jobs /\ job[o].seen \in Seq(Entries) /\ i \in DOMAIN job[o].seen
      BY <3>1 DEF Candidates, TypeInv, TypeOK, RunTypeOK, Jobs
    <3>3. job[o].seen[i].tag \in Tags
      BY <3>2, EntryType
    <3>4. j \in Jobs /\ j.tag \in Tags
      BY <3>2, <3>3, PickedType
    <3> QED
      BY <2>1, <3>1, <3>4, ContinueWithChosen DEF TypeInv, TypeOK, SlotLabels, Labels
  <2> QED
    BY <2>2, <2>3
<1>5. CASE InspectActive(o)
  <2>1. HostTypeOK' /\ LedgerTypeOK'
    BY <1>5 DEF InspectActive, HostTypeOK, LedgerTypeOK, TypeOK, TypeInv, host, ledger
  <2> DEFINE j == [job[o] EXCEPT !.current = conf, !.target = conf]
  <2>2. j \in Jobs /\ j.current = conf /\ j.target = conf
    BY DEF TypeInv, TypeOK, RunTypeOK, HostTypeOK, Jobs
  <2> QED
    BY <1>5, <2>1, <2>2, ContinueWithChosen, ExitChosen
    DEF InspectActive, TypeInv, TypeOK, HostTypeOK, SlotLabels, Labels, ExitCodes, NoColor
<1>6. CASE InspectImage(o)
  <2>1. HostTypeOK' /\ LedgerTypeOK'
    BY <1>6 DEF InspectImage, HostTypeOK, LedgerTypeOK, TypeOK, TypeInv, host, ledger
  <2> DEFINE found == slot[job[o].current].tag
             j == [job[o] EXCEPT !.tag = found]
  <2>2. pc[o] = "fo_inspect" /\ job[o].current \in Colors /\ job[o].target \in Colors
    BY <1>6 DEF InspectImage, TypeInv, Chosen
  <2>3. found \in Tags \cup {NoTag}
    BY <2>2 DEF TypeInv, TypeOK, HostTypeOK, Containers
  <2>4. j \in Jobs /\ j.tag = found /\ j.target = job[o].target
    BY <2>3 DEF TypeInv, TypeOK, RunTypeOK, Jobs
  <2>5. Exit(o, Deployed) \/ (found # NoTag /\ ContinueWith(o, "pull", j))
    BY <1>6 DEF InspectImage
  <2>6. CASE Exit(o, Deployed)
    BY <2>1, <2>6, ExitChosen DEF TypeInv, TypeOK, ExitCodes
  <2>7. CASE found # NoTag /\ ContinueWith(o, "pull", j)
    <3>1. RunTypeOK' /\ \A p \in Operators : Chosen(p)'
      BY <2>2, <2>3, <2>4, <2>7, ContinueWithChosen DEF SlotLabels, Labels
    <3> QED
      BY <2>1, <3>1 DEF TypeInv, TypeOK
  <2> QED
    BY <2>5, <2>6, <2>7
<1>7. CASE ReadActive(o)
  <2>1. HostTypeOK' /\ LedgerTypeOK'
    BY <1>7 DEF ReadActive, HostTypeOK, LedgerTypeOK, TypeOK, TypeInv, host, ledger
  <2> DEFINE j == [job[o] EXCEPT !.current = conf]
  <2>2. j \in Jobs
    BY DEF TypeInv, TypeOK, RunTypeOK, HostTypeOK, Jobs
  <2>3. ContinueWith(o, "inactive", j) /\ job[o].tag \in Tags
    BY <1>7 DEF ReadActive, TypeInv, Chosen
  <2>4. j.tag = job[o].tag
    BY DEF TypeInv, TypeOK, RunTypeOK, Jobs
  <2> HIDE DEF j
  <2>5. RunTypeOK' /\ \A p \in Operators : Chosen(p)'
    BY <2>2, <2>3, <2>4, ContinueWithChosen DEF SlotLabels, Labels
  <2> QED
    BY <2>1, <2>5 DEF TypeInv, TypeOK
<1>8. CASE ReadInactive(o)
  <2>1. HostTypeOK' /\ LedgerTypeOK'
    BY <1>8 DEF ReadInactive, HostTypeOK, LedgerTypeOK, TypeOK, TypeInv, host, ledger
  <2> DEFINE j == [job[o] EXCEPT !.target = InactiveColor(conf)]
  <2>2. j \in Jobs /\ j.target \in Colors /\ j.tag = job[o].tag
    BY DEF TypeInv, TypeOK, RunTypeOK, Jobs, InactiveColor, Colors
  <2>3. ContinueWith(o, "pull", j) /\ job[o].tag \in Tags
    BY <1>8 DEF ReadInactive, TypeInv, Chosen
  <2> QED
    BY <2>1, <2>2, <2>3, ContinueWithChosen DEF TypeInv, TypeOK, SlotLabels, Labels
<1>9. CASE Pull(o)
  <2>1. HostTypeOK' /\ LedgerTypeOK'
    BY <1>9 DEF Pull, HostTypeOK, LedgerTypeOK, TypeOK, TypeInv, host, ledger
  <2> QED
    BY <1>9, <2>1, ContinueChosen, ScriptFailedChosen
    DEF Pull, TypeInv, TypeOK, SlotLabels, Labels
<1>10. CASE RemoveStale(o)
  <2>1. job[o].target \in Colors
    BY <1>10 DEF RemoveStale, TypeInv, Chosen, SlotLabels
  <2>2. slot' \in [Colors -> Containers]
    BY <1>10, <2>1, VacantType, SetSlotType DEF RemoveStale, TypeInv, TypeOK, HostTypeOK
  <2>3. HostTypeOK' /\ LedgerTypeOK'
    BY <1>10, <2>2 DEF RemoveStale, HostTypeOK, LedgerTypeOK, TypeOK, TypeInv, host, ledger
  <2> QED
    BY <1>10, <2>3, ContinueChosen, ScriptFailedChosen
    DEF RemoveStale, TypeInv, TypeOK, SlotLabels, Labels
<1>11. CASE Create(o)
  <2>1. job[o].target \in Colors /\ NewContainer(o) \in Containers
    BY <1>11, NewContainerType DEF Create, TypeInv, Chosen, SlotLabels
  <2>2. slot' \in [Colors -> Containers]
    BY <1>11, <2>1, SetSlotType DEF Create, TypeInv, TypeOK
  <2>3. HostTypeOK' /\ LedgerTypeOK'
    BY <1>11, <2>2 DEF Create, HostTypeOK, LedgerTypeOK, TypeOK, TypeInv, host, ledger
  <2> QED
    BY <1>11, <2>3, ReturnChosen, ExitChosen
    DEF Create, TypeInv, TypeOK, SlotLabels, Labels, ExitCodes
<1>12. CASE CreateFails(o)
  <2>1. job[o].target \in Colors /\ [NewContainer(o) EXCEPT !.up = FALSE] \in Containers
    BY <1>12, NewContainerType DEF CreateFails, TypeInv, Chosen, SlotLabels, Containers
  <2>2. slot' \in [Colors -> Containers]
    BY <1>12, <2>1, SetSlotType DEF CreateFails, TypeInv, TypeOK, HostTypeOK
  <2>3. HostTypeOK' /\ LedgerTypeOK'
    BY <1>12, <2>2 DEF CreateFails, HostTypeOK, LedgerTypeOK, TypeOK, TypeInv, host, ledger
  <2> QED
    BY <1>12, <2>3, ScriptFailedChosen DEF CreateFails, TypeInv, TypeOK
<1>13. CASE GatePass(o)
  <2>1. HostTypeOK' /\ LedgerTypeOK'
    BY <1>13 DEF GatePass, HostTypeOK, LedgerTypeOK, TypeOK, TypeInv, host, ledger
  <2> DEFINE j == [job[o] EXCEPT !.status = "success", !.attempt = 1]
  <2>2. j \in Jobs /\ j.tag = job[o].tag /\ j.target = job[o].target
    BY DEF TypeInv, TypeOK, RunTypeOK, LedgerTypeOK, Jobs
  <2>3. ContinueWith(o, "install", j) /\ job[o].tag \in Tags /\ job[o].target \in Colors
    BY <1>13 DEF GatePass, TypeInv, Chosen, SlotLabels
  <2> QED
    BY <2>1, <2>2, <2>3, ContinueWithChosen DEF TypeInv, TypeOK, SlotLabels, Labels
<1>14. CASE GateMiss(o)
  <2>1. HostTypeOK' /\ LedgerTypeOK'
    BY <1>14 DEF GateMiss, HostTypeOK, LedgerTypeOK, TypeOK, TypeInv, host, ledger
  <2> DEFINE j == [job[o] EXCEPT !.attempt = @ + 1]
  <2>2. j \in Jobs /\ j.tag = job[o].tag /\ j.target = job[o].target
    BY NextAttemptType DEF TypeInv, TypeOK, RunTypeOK
  <2>3. ContinueWith(o, "gate", j) /\ job[o].tag \in Tags /\ job[o].target \in Colors
    BY <1>14 DEF GateMiss, TypeInv, Chosen, SlotLabels
  <2> QED
    BY <2>1, <2>2, <2>3, ContinueWithChosen DEF TypeInv, TypeOK, SlotLabels, Labels
<1>15. CASE GateUnhealthy(o)
  <2>1. HostTypeOK' /\ LedgerTypeOK'
    BY <1>15 DEF GateUnhealthy, HostTypeOK, LedgerTypeOK, TypeOK, TypeInv, host, ledger
  <2> QED
    BY <1>15, <2>1, ContinueChosen DEF GateUnhealthy, TypeInv, TypeOK, SlotLabels, Labels
<1>16. CASE GateLost(o)
  <2>1. HostTypeOK' /\ LedgerTypeOK'
    BY <1>16 DEF GateLost, HostTypeOK, LedgerTypeOK, TypeOK, TypeInv, host, ledger
  <2> QED
    BY <1>16, <2>1, ContinueChosen DEF GateLost, TypeInv, TypeOK, SlotLabels, Labels
<1>17. CASE Teardown(o)
  <2>1. job[o].target \in Colors
    BY <1>17 DEF Teardown, TypeInv, Chosen, SlotLabels
  <2>2. HostTypeOK' /\ LedgerTypeOK'
    BY <1>17, <2>1, StopType DEF Teardown, HostTypeOK, LedgerTypeOK, TypeOK, TypeInv, host, ledger
  <2> QED
    BY <1>17, <2>2, ContinueChosen DEF Teardown, TypeInv, TypeOK, SlotLabels, Labels
<1>18. CASE StillLive(o)
  <2>1. HostTypeOK' /\ LedgerTypeOK'
    BY <1>18 DEF StillLive, HostTypeOK, LedgerTypeOK, TypeOK, TypeInv, host, ledger
  <2> QED
    BY <1>18, <2>1, ContinueChosen DEF StillLive, TypeInv, TypeOK, SlotLabels, Labels
<1>19. CASE Install(o)
  <2>1. job[o].target \in Colors /\ job[o].tag \in Tags
    BY <1>19 DEF Install, TypeInv, Chosen, SlotLabels
  <2>2. HostTypeOK' /\ LedgerTypeOK'
    BY <1>19, <2>1 DEF Install, HostTypeOK, LedgerTypeOK, TypeOK, TypeInv, host, ledger
  <2> DEFINE j == [job[o] EXCEPT !.backup = conf # NoColor]
  <2>3. j \in Jobs /\ j.tag = job[o].tag /\ j.target = job[o].target
    BY DEF TypeInv, TypeOK, RunTypeOK, Jobs
  <2>4. ContinueWith(o, "test", j)
    BY <1>19 DEF Install
  <2> QED
    BY <2>1, <2>2, <2>3, <2>4, ContinueWithChosen DEF TypeInv, TypeOK, SlotLabels, Labels
<1>20. CASE ConfigAccepted(o)
  <2>1. HostTypeOK' /\ LedgerTypeOK'
    BY <1>20 DEF ConfigAccepted, HostTypeOK, LedgerTypeOK, TypeOK, TypeInv, host, ledger
  <2> QED
    BY <1>20, <2>1, ContinueChosen DEF ConfigAccepted, TypeInv, TypeOK, SlotLabels, Labels
<1>21. CASE ConfigRejected(o)
  <2>1. HostTypeOK' /\ LedgerTypeOK'
    BY <1>21 DEF ConfigRejected, Restored, HostTypeOK, LedgerTypeOK, TypeOK, TypeInv, host, ledger
  <2> QED
    BY <1>21, <2>1, ExitChosen DEF ConfigRejected, TypeInv, TypeOK, ExitCodes
<1>22. CASE Reload(o)
  <2>1. HostTypeOK' /\ LedgerTypeOK'
    BY <1>22 DEF Reload, HostTypeOK, LedgerTypeOK, TypeOK, TypeInv, host, ledger
  <2>2. AfterSwitch(o) \in {"last_good", "drain"}
    BY DEF AfterSwitch
  <2>3. AfterSwitch(o) = "drain" => job[o].current \in Colors
    BY DEF AfterSwitch, TypeInv, TypeOK, RunTypeOK, Jobs
  <2> QED
    BY <1>22, <2>1, <2>2, <2>3, ReturnChosen DEF Reload, TypeInv, TypeOK, SlotLabels, Labels
<1>23. CASE ReloadFails(o)
  <2>1. HostTypeOK' /\ LedgerTypeOK'
    BY <1>23 DEF ReloadFails, HostTypeOK, LedgerTypeOK, TypeOK, TypeInv, host, ledger
  <2> QED
    BY <1>23, <2>1, ExitChosen DEF ReloadFails, TypeInv, TypeOK, SlotLabels, Labels, ExitCodes
<1>24. CASE Drain(o)
  <2>1. job[o].current \in Colors
    BY <1>24 DEF Drain, TypeInv, Chosen
  <2>2. HostTypeOK' /\ LedgerTypeOK'
    BY <1>24, <2>1, StopType DEF Drain, HostTypeOK, LedgerTypeOK, TypeOK, TypeInv, host, ledger
  <2> QED
    BY <1>24, <2>2, ReturnChosen DEF Drain, TypeInv, TypeOK, SlotLabels, Labels
<1>25. CASE RecordLastGood(o)
  <2>1. job[o].tag \in Tags
    BY <1>25 DEF RecordLastGood, TypeInv, Chosen, SlotLabels
  <2>2. HostTypeOK' /\ LedgerTypeOK'
    BY <1>25, <2>1 DEF RecordLastGood, HostTypeOK, LedgerTypeOK, TypeOK, TypeInv, host, ledger
  <2> QED
    BY <1>25, <2>2, ContinueChosen DEF RecordLastGood, TypeInv, TypeOK, SlotLabels, Labels
<1>26. CASE LedgerError(o)
  <2>1. job[o].tag \in Tags /\ job[o].target \in Colors
    BY <1>26 DEF LedgerError, TypeInv, Chosen, SlotLabels
  <2>2. HostTypeOK' /\ LedgerTypeOK'
    BY <1>26, <2>1 DEF LedgerError, HostTypeOK, LedgerTypeOK, TypeOK, TypeInv, host, ledger
  <2> DEFINE j == [job[o] EXCEPT !.attempt = @ + 1]
  <2>3. j \in Jobs /\ j.tag = job[o].tag /\ j.target = job[o].target
    BY NextAttemptType DEF TypeInv, TypeOK, RunTypeOK
  <2>4. ContinueWith(o, "last_good", j) \/ Exit(o, LedgerStale) \/ Exit(o, Raised)
    BY <1>26 DEF LedgerError
  <2> QED
    BY <2>1, <2>2, <2>3, <2>4, ContinueWithChosen, ExitChosen
    DEF TypeInv, TypeOK, SlotLabels, Labels, ExitCodes, Raised
<1>27. CASE ReadHistory(o)
  <2>1. HostTypeOK' /\ LedgerTypeOK'
    BY <1>27 DEF ReadHistory, HostTypeOK, LedgerTypeOK, TypeOK, TypeInv, host, ledger
  <2> DEFINE j == [job[o] EXCEPT !.seen = history]
  <2>2. j \in Jobs /\ j.tag = job[o].tag /\ j.target = job[o].target
    BY DEF TypeInv, TypeOK, RunTypeOK, LedgerTypeOK, Jobs
  <2>3. ContinueWith(o, "hist_write", j) /\ job[o].tag \in Tags /\ job[o].target \in Colors
    BY <1>27 DEF ReadHistory, TypeInv, Chosen, SlotLabels
  <2> QED
    BY <2>1, <2>2, <2>3, ContinueWithChosen DEF TypeInv, TypeOK, SlotLabels, Labels
<1>28. CASE WriteHistory(o)
  <2>1. job[o] \in Jobs /\ job[o].tag \in Tags
    BY <1>28 DEF WriteHistory, TypeInv, TypeOK, RunTypeOK, Chosen, SlotLabels
  <2>2. HostTypeOK' /\ LedgerTypeOK'
    BY <1>28, <2>1, AppendedType DEF WriteHistory, HostTypeOK, LedgerTypeOK, TypeOK, TypeInv, host, ledger
  <2>3. FinalCode(o) \in ExitCodes /\ Raised \in ExitCodes
    BY DEF FinalCode, ExitCodes, Raised
  <2> QED
    BY <1>28, <2>2, <2>3, ExitChosen DEF WriteHistory, TypeInv, TypeOK
<1> QED
  BY <1>1, <1>2, <1>3, <1>4, <1>5, <1>6, <1>7, <1>8, <1>9, <1>10, <1>11, <1>12, <1>13, <1>14,
     <1>15, <1>16, <1>17, <1>18, <1>19, <1>20, <1>21, <1>22, <1>23, <1>24, <1>25, <1>26, <1>27, <1>28 DEF Step

LEMMA BreakOffTypeInv ==
  ASSUME TypeInv, NEW o \in Operators, BreakOff(o)
  PROVE  TypeInv'
<1>1. HostTypeOK' /\ LedgerTypeOK'
  BY DEF BreakOff, S3Raises, SshFails, Killed, HostTypeOK, LedgerTypeOK, TypeOK, TypeInv, host, ledger
<1>2. PICK code \in ExitCodes : Exit(o, code)
  BY DEF BreakOff, S3Raises, SshFails, Killed, ExitCodes, Raised
<1> QED
  BY <1>1, <1>2, ExitChosen DEF TypeInv, TypeOK

LEMMA StartTypeInv ==
  ASSUME TypeInv, NEW o \in Operators, StartRun(o)
  PROVE  TypeInv'
<1>1. PICK k \in AllKinds, t \in Tags \cup {NoTag}, label \in {"active", "live", "fo_active"} :
         Start(o, k, t, label) /\ (label = "active" => t \in Tags)
  BY DEF StartRun, StartDeploy, StartRollback, StartFailover, AllKinds
<1>2. TypeOK'
  BY <1>1, StartType DEF TypeInv, Labels
<1>3. pc' = [pc EXCEPT ![o] = label]
      /\ job' = [job EXCEPT ![o] = [NoJob EXCEPT !.kind = k, !.tag = t]]
  BY <1>1 DEF Start, Goto
<1>4. [NoJob EXCEPT !.kind = k, !.tag = t].tag = t
  BY DEF NoJob
<1>5. Moves(o) /\ Chosen(o)'
  BY <1>1, <1>3, <1>4 DEF Moves, Chosen, SlotLabels, TypeInv, TypeOK, RunTypeOK
<1> QED
  BY <1>2, <1>5, ChosenOthers DEF TypeInv

LEMMA InitTypeInv == Init => TypeInv
  BY NoJobType, VacantType, BoundsAssumption
  DEF Init, HostTypeOK, LedgerTypeOK, TypeOK, TypeInv, host, ledger, RunTypeOK, Chosen, SlotLabels, Labels, ExitCodes

LEMMA NextTypeInv == ASSUME TypeInv, [Next]_vars PROVE TypeInv'
<1>1. CASE \E o \in Operators : StartRun(o)
  BY <1>1, StartTypeInv
<1>2. CASE \E o \in Operators : Step(o)
  BY <1>2, StepTypeInv
<1>3. CASE \E o \in Operators : BreakOff(o)
  BY <1>3, BreakOffTypeInv
<1>4. CASE NginxRestart
  BY <1>4 DEF NginxRestart, HostTypeOK, LedgerTypeOK, TypeOK, TypeInv, host, ledger, RunTypeOK, Chosen
<1>5. CASE UNCHANGED vars
  BY <1>5 DEF vars, HostTypeOK, LedgerTypeOK, TypeOK, TypeInv, host, ledger, RunTypeOK, Chosen
<1> QED
  BY <1>1, <1>2, <1>3, <1>4, <1>5 DEF Next

\* Every variable keeps its type, and the history its bound, in every
\* behaviour, whatever the faults and however the runs overlap.
THEOREM TypeCorrect == Spec => []TypeOK
<1>1. TypeInv /\ [Next]_vars => TypeInv'
  BY NextTypeInv
<1>2. TypeInv => TypeOK
  BY DEF TypeInv
<1> QED
  BY InitTypeInv, <1>1, <1>2, PTL DEF Spec

-----------------------------------------------------------------------------
(* The ledger never offers a build that fails its health check, whatever    *)
(* fails and however runs overlap.                                          *)

SoundHistory(h) ==
  \A i \in DOMAIN h : h[i].status = "success" => h[i].tag \notin BadTags

\* A slot that answers as healthy holds a build that can.
SlotsSound == \A c \in Colors : slot[c].ok => slot[c].tag \notin BadTags

PassedLabels == {"install", "test", "reload", "drain", "last_good"}

\* A run is past the gate with a good build, or has not passed it, and what it
\* has read of the history is sound.
JobSound(o) ==
  /\ job[o].status = "success" =>
       /\ pc[o] \in PassedLabels \cup {"hist_read", "hist_write"}
       /\ job[o].tag \notin BadTags
  /\ pc[o] \in PassedLabels => job[o].status = "success"
  /\ SoundHistory(job[o].seen)

SoundInv ==
  /\ lastGood \notin BadTags
  /\ SoundHistory(history)
  /\ SlotsSound
  /\ \A o \in Operators : JobSound(o)

-----------------------------------------------------------------------------
LEMMA JobSoundOthers ==
  ASSUME SoundInv, NEW o \in Operators, Moves(o), JobSound(o)'
  PROVE  \A p \in Operators : JobSound(p)'
  BY DEF SoundInv, JobSound, Moves, SoundHistory

LEMMA ExitSound ==
  ASSUME TypeInv, SoundInv, NEW o \in Operators, NEW code \in ExitCodes, Exit(o, code)
  PROVE  \A p \in Operators : JobSound(p)'
<1>1. Moves(o) /\ pc'[o] = "idle" /\ job'[o] = NoJob
  BY DEF TypeInv, TypeOK, RunTypeOK, Exit, Moves
<1>2. NoJob.status = "failed" /\ NoJob.seen = << >>
  BY DEF NoJob
<1>3. JobSound(o)'
  BY <1>1, <1>2 DEF JobSound, PassedLabels, SoundHistory
<1> QED
  BY <1>1, <1>3, JobSoundOthers

LEMMA ContinueSound ==
  ASSUME TypeInv, SoundInv, NEW o \in Operators, NEW label \in Labels, Continue(o, label),
         label \in PassedLabels => pc[o] \in PassedLabels,
         pc[o] \in PassedLabels => label \in PassedLabels \cup {"hist_read", "hist_write"},
         pc[o] \notin {"hist_read", "hist_write"}
  PROVE  \A p \in Operators : JobSound(p)'
<1>1. Moves(o) /\ pc'[o] = label /\ job'[o] = job[o]
  BY DEF TypeInv, TypeOK, RunTypeOK, Continue, Goto, Moves
<1>2. JobSound(o)'
  BY <1>1 DEF SoundInv, JobSound, SoundHistory
<1> QED
  BY <1>1, <1>2, JobSoundOthers

LEMMA ContinueWithSound ==
  ASSUME TypeInv, SoundInv, NEW o \in Operators, NEW label \in Labels, NEW j \in Jobs,
         ContinueWith(o, label, j),
         j.status = "success" =>
           /\ label \in PassedLabels \cup {"hist_read", "hist_write"}
           /\ j.tag \notin BadTags,
         label \in PassedLabels => j.status = "success",
         SoundHistory(j.seen)
  PROVE  \A p \in Operators : JobSound(p)'
<1>1. Moves(o) /\ pc'[o] = label /\ job'[o] = j
  BY DEF TypeInv, TypeOK, RunTypeOK, ContinueWith, Goto, Moves
<1>2. JobSound(o)'
  BY <1>1 DEF JobSound, SoundHistory
<1> QED
  BY <1>1, <1>2, JobSoundOthers

LEMMA ScriptFailedSound ==
  ASSUME TypeInv, SoundInv, NEW o \in Operators, ScriptFailed(o)
  PROVE  \A p \in Operators : JobSound(p)'
<1>1. PICK code \in ExitCodes : Exit(o, code)
  BY DEF ScriptFailed, ExitCodes
<1> QED
  BY <1>1, ExitSound

LEMMA ReturnSound ==
  ASSUME TypeInv, SoundInv, NEW o \in Operators, NEW label \in Labels, Return(o, label),
         label \in PassedLabels => pc[o] \in PassedLabels,
         pc[o] \in PassedLabels => label \in PassedLabels \cup {"hist_read", "hist_write"},
         pc[o] \notin {"hist_read", "hist_write"}
  PROVE  \A p \in Operators : JobSound(p)'
<1>1. CASE Continue(o, label)
  BY <1>1, ContinueSound
<1>2. CASE Exit(o, Precondition)
  BY <1>2, ExitSound DEF ExitCodes
<1> QED
  BY <1>1, <1>2 DEF Return

\* Writing a sound container keeps the slots sound.
LEMMA SetSlotSound ==
  ASSUME TypeInv, SoundInv, NEW c \in Colors, NEW v \in Containers, SetSlot(c, v),
         v.ok => v.tag \notin BadTags
  PROVE  SlotsSound'
  BY DEF SetSlot, SlotsSound, SoundInv, TypeInv, TypeOK, HostTypeOK

LEMMA StopSound ==
  ASSUME TypeInv, SoundInv, NEW c \in Colors, Stop(c)
  PROVE  SlotsSound'
<1>1. PICK left \in StopOutcomes(slot[c]) : SetSlot(c, left)
  BY DEF Stop
<1>2. slot[c] \in Containers
  BY DEF TypeInv, TypeOK, HostTypeOK
<1>3. left \in Containers
  BY <1>2, VacantType DEF StopOutcomes, Containers
<1>4. left.ok => left.tag \notin BadTags
  <2>1. CASE left = Vacant
    BY <2>1 DEF Vacant
  <2>2. CASE left = slot[c]
    BY <2>2 DEF SoundInv, SlotsSound
  <2>3. CASE left = [slot[c] EXCEPT !.up = FALSE]
    <3>1. left.ok = slot[c].ok /\ left.tag = slot[c].tag
      BY <1>2, <2>3 DEF Containers
    <3> QED
      BY <3>1 DEF SoundInv, SlotsSound
  <2> QED
    BY <1>1, <2>1, <2>2, <2>3 DEF StopOutcomes
<1> QED
  BY <1>1, <1>3, <1>4, SetSlotSound

LEMMA NewContainerSound ==
  ASSUME NEW o \in Operators
  PROVE  /\ NewContainer(o).ok => NewContainer(o).tag \notin BadTags
         /\ LET c == [NewContainer(o) EXCEPT !.up = FALSE]
            IN c.ok => c.tag \notin BadTags
  BY DEF NewContainer

\* A history to which a gated build's success, or a failure, is appended.
LEMMA AppendedSound ==
  ASSUME TypeInv, SoundInv, NEW o \in Operators, job[o].tag \in Tags
  PROVE  SoundHistory(Appended(o))
<1> DEFINE e == [tag |-> job[o].tag, status |-> job[o].status]
           h == Append(job[o].seen, e)
<1>1. job[o].seen \in Seq(Entries) /\ e \in Entries
  BY DEF TypeInv, TypeOK, RunTypeOK, Jobs, Entries
<1>2. SoundHistory(job[o].seen) /\ (job[o].status = "success" => job[o].tag \notin BadTags)
  BY DEF SoundInv, JobSound
<1>3. h \in Seq(Entries)
  BY <1>1
<1>4. \A k \in DOMAIN h : h[k] = e \/ \E i \in DOMAIN job[o].seen : h[k] = job[o].seen[i]
  BY <1>1
<1>5. SoundHistory(h)
  BY <1>2, <1>4 DEF SoundHistory
<1>6. \A i \in DOMAIN Truncated(h) : \E k \in DOMAIN h : Truncated(h)[i] = h[k]
  BY <1>3, TruncatedType
<1> HIDE DEF h, e
<1>7. SoundHistory(Truncated(h))
  BY <1>5, <1>6 DEF SoundHistory
<1> QED
  BY <1>7 DEF Appended, h, e

LEMMA StepSound ==
  ASSUME TypeInv, SoundInv, NEW o \in Operators, Step(o)
  PROVE  SoundInv'
<1>1. CASE ReadLive(o)
  <2>1. lastGood' \notin BadTags /\ SoundHistory(history)' /\ SlotsSound'
    BY <1>1 DEF ReadLive, host, ledger, SoundInv, SlotsSound
  <2>2. VersionServed \in Tags \cup {NoTag}
    BY DEF VersionServed, TypeInv, TypeOK, HostTypeOK, Containers
  <2>3. PICK v \in Tags \cup {NoTag} :
          ContinueWith(o, "recorded", [job[o] EXCEPT !.live = v])
    BY <1>1, <2>2 DEF ReadLive
  <2> DEFINE j == [job[o] EXCEPT !.live = v]
  <2>4. j \in Jobs /\ j.status = job[o].status /\ SoundHistory(j.seen)
    <3>1. j \in Jobs /\ j.status = job[o].status /\ j.seen = job[o].seen
      BY DEF TypeInv, TypeOK, RunTypeOK, Jobs
    <3>2. SoundHistory(job[o].seen)
      BY DEF SoundInv, JobSound
    <3> QED
      BY <3>1, <3>2
  <2>5. ContinueWith(o, "recorded", j) /\ job[o].status # "success"
    BY <1>1, <2>3 DEF ReadLive, SoundInv, JobSound, PassedLabels
  <2> HIDE DEF j
  <2>6. \A p \in Operators : JobSound(p)'
    BY <2>4, <2>5, ContinueWithSound DEF Labels, PassedLabels
  <2> QED
    BY <2>1, <2>6 DEF SoundInv
<1>2. CASE CheckLedger(o)
  <2>1. lastGood' \notin BadTags /\ SoundHistory(history)' /\ SlotsSound'
    BY <1>2 DEF CheckLedger, host, ledger, SoundInv, SlotsSound
  <2>2. \A p \in Operators : JobSound(p)'
    BY <1>2, ContinueSound, ExitSound DEF CheckLedger, Labels, PassedLabels, ExitCodes
  <2> QED
    BY <2>1, <2>2 DEF SoundInv
<1>3. CASE ReadPast(o)
  <2>1. lastGood' \notin BadTags /\ SoundHistory(history)' /\ SlotsSound'
    BY <1>3 DEF ReadPast, host, ledger, SoundInv, SlotsSound
  <2> DEFINE j == [job[o] EXCEPT !.seen = history]
  <2>2. j \in Jobs /\ j.status = job[o].status /\ SoundHistory(j.seen)
    <3>1. j \in Jobs /\ j.status = job[o].status /\ j.seen = history
      BY DEF TypeInv, TypeOK, RunTypeOK, HostTypeOK, LedgerTypeOK, Jobs
    <3>2. SoundHistory(history)
      BY DEF SoundInv
    <3> QED
      BY <3>1, <3>2
  <2>3. ContinueWith(o, "pick", j) /\ job[o].status # "success"
    BY <1>3 DEF ReadPast, SoundInv, JobSound, PassedLabels
  <2> HIDE DEF j
  <2>4. \A p \in Operators : JobSound(p)'
    BY <2>2, <2>3, ContinueWithSound DEF Labels, PassedLabels
  <2> QED
    BY <2>1, <2>4 DEF SoundInv
<1>4. CASE PickPrevious(o)
  <2>1. lastGood' \notin BadTags /\ SoundHistory(history)' /\ SlotsSound'
    BY <1>4 DEF PickPrevious, host, ledger, SoundInv, SlotsSound
  <2>2. CASE Exit(o, Precondition)
    BY <2>1, <2>2, ExitSound DEF SoundInv, ExitCodes
  <2>3. CASE ~Exit(o, Precondition)
    <3>1. PICK i \in Candidates(o) : ContinueWith(o, "active",
               [job[o] EXCEPT !.tag = job[o].seen[i].tag, !.seen = << >>])
      BY <1>4, <2>3 DEF PickPrevious
    <3> DEFINE j == [job[o] EXCEPT !.tag = job[o].seen[i].tag, !.seen = << >>]
    <3>2. job[o] \in Jobs /\ job[o].seen \in Seq(Entries) /\ i \in DOMAIN job[o].seen
      BY <3>1 DEF Candidates, TypeInv, TypeOK, RunTypeOK, Jobs
    <3>3. job[o].seen[i].tag \in Tags
      BY <3>2, EntryType
    <3>4. j \in Jobs
      BY <3>2, <3>3, PickedType
    <3>5. j.status = job[o].status /\ j.seen = << >>
      BY <3>2 DEF Jobs
    <3>6. job[o].status # "success"
      BY <1>4 DEF PickPrevious, SoundInv, JobSound, PassedLabels
    <3>7. ContinueWith(o, "active", j) /\ SoundHistory(j.seen)
      BY <3>1, <3>5 DEF SoundHistory
    <3> HIDE DEF j
    <3>8. \A p \in Operators : JobSound(p)'
      BY <3>4, <3>5, <3>6, <3>7, ContinueWithSound DEF Labels, PassedLabels
    <3> QED
      BY <2>1, <3>8 DEF SoundInv
  <2> QED
    BY <2>2, <2>3
<1>5. CASE InspectActive(o)
  <2>1. lastGood' \notin BadTags /\ SoundHistory(history)' /\ SlotsSound'
    BY <1>5 DEF InspectActive, host, ledger, SoundInv, SlotsSound
  <2> DEFINE j == [job[o] EXCEPT !.current = conf, !.target = conf]
  <2>2. j \in Jobs /\ j.status = job[o].status /\ SoundHistory(j.seen)
    <3>1. j \in Jobs /\ j.status = job[o].status /\ j.seen = job[o].seen
      BY DEF TypeInv, TypeOK, RunTypeOK, HostTypeOK, Jobs
    <3>2. SoundHistory(job[o].seen)
      BY DEF SoundInv, JobSound
    <3> QED
      BY <3>1, <3>2
  <2>3. Exit(o, Deployed) \/ ContinueWith(o, "fo_inspect", j)
    BY <1>5 DEF InspectActive
  <2>4. job[o].status # "success"
    BY <1>5 DEF InspectActive, SoundInv, JobSound, PassedLabels
  <2> HIDE DEF j
  <2>5. \A p \in Operators : JobSound(p)'
    BY <2>2, <2>3, <2>4, ContinueWithSound, ExitSound DEF Labels, PassedLabels, ExitCodes
  <2> QED
    BY <2>1, <2>5 DEF SoundInv
<1>6. CASE InspectImage(o)
  <2>1. lastGood' \notin BadTags /\ SoundHistory(history)' /\ SlotsSound'
    BY <1>6 DEF InspectImage, host, ledger, SoundInv, SlotsSound
  <2> DEFINE found == slot[job[o].current].tag
             j == [job[o] EXCEPT !.tag = found]
  <2>2. job[o].current \in Colors /\ job[o].status # "success"
    BY <1>6 DEF InspectImage, TypeInv, Chosen, SoundInv, JobSound, PassedLabels
  <2>3. found \in Tags \cup {NoTag}
    BY <2>2 DEF TypeInv, TypeOK, HostTypeOK, Containers
  <2>4. j \in Jobs /\ j.status = job[o].status /\ SoundHistory(j.seen)
    <3>1. j \in Jobs /\ j.status = job[o].status /\ j.seen = job[o].seen
      BY <2>3 DEF TypeInv, TypeOK, RunTypeOK, Jobs
    <3>2. SoundHistory(job[o].seen)
      BY DEF SoundInv, JobSound
    <3> QED
      BY <3>1, <3>2
  <2>5. Exit(o, Deployed) \/ ContinueWith(o, "pull", j)
    BY <1>6 DEF InspectImage
  <2> HIDE DEF j
  <2>6. \A p \in Operators : JobSound(p)'
    BY <2>2, <2>4, <2>5, ContinueWithSound, ExitSound DEF Labels, PassedLabels, ExitCodes
  <2> QED
    BY <2>1, <2>6 DEF SoundInv
<1>7. CASE ReadActive(o)
  <2>1. lastGood' \notin BadTags /\ SoundHistory(history)' /\ SlotsSound'
    BY <1>7 DEF ReadActive, host, ledger, SoundInv, SlotsSound
  <2> DEFINE j == [job[o] EXCEPT !.current = conf]
  <2>2. j \in Jobs /\ j.status = job[o].status /\ SoundHistory(j.seen)
    <3>1. j \in Jobs /\ j.status = job[o].status /\ j.seen = job[o].seen
      BY DEF TypeInv, TypeOK, RunTypeOK, HostTypeOK, LedgerTypeOK, Jobs
    <3>2. SoundHistory(job[o].seen)
      BY DEF SoundInv, JobSound
    <3> QED
      BY <3>1, <3>2
  <2>3. ContinueWith(o, "inactive", j) /\ job[o].status # "success"
    BY <1>7 DEF ReadActive, SoundInv, JobSound, PassedLabels
  <2> HIDE DEF j
  <2>4. \A p \in Operators : JobSound(p)'
    BY <2>2, <2>3, ContinueWithSound DEF Labels, PassedLabels
  <2> QED
    BY <2>1, <2>4 DEF SoundInv
<1>8. CASE ReadInactive(o)
  <2>1. lastGood' \notin BadTags /\ SoundHistory(history)' /\ SlotsSound'
    BY <1>8 DEF ReadInactive, host, ledger, SoundInv, SlotsSound
  <2> DEFINE j == [job[o] EXCEPT !.target = InactiveColor(conf)]
  <2>2. j \in Jobs /\ j.status = job[o].status /\ SoundHistory(j.seen)
    <3>1. j \in Jobs /\ j.status = job[o].status /\ j.seen = job[o].seen
      BY DEF TypeInv, TypeOK, RunTypeOK, HostTypeOK, LedgerTypeOK, Jobs, InactiveColor, Colors
    <3>2. SoundHistory(job[o].seen)
      BY DEF SoundInv, JobSound
    <3> QED
      BY <3>1, <3>2
  <2>3. ContinueWith(o, "pull", j) /\ job[o].status # "success"
    BY <1>8 DEF ReadInactive, SoundInv, JobSound, PassedLabels
  <2> HIDE DEF j
  <2>4. \A p \in Operators : JobSound(p)'
    BY <2>2, <2>3, ContinueWithSound DEF Labels, PassedLabels
  <2> QED
    BY <2>1, <2>4 DEF SoundInv
<1>9. CASE Pull(o)
  <2>1. lastGood' \notin BadTags /\ SoundHistory(history)' /\ SlotsSound'
    BY <1>9 DEF Pull, host, ledger, SoundInv, SlotsSound
  <2>2. \A p \in Operators : JobSound(p)'
    BY <1>9, ContinueSound, ScriptFailedSound DEF Pull, Labels, PassedLabels
  <2> QED
    BY <2>1, <2>2 DEF SoundInv
<1>10. CASE RemoveStale(o)
  <2>3. job[o].target \in Colors /\ job[o].tag \in Tags
    BY <1>10 DEF RemoveStale, TypeInv, Chosen, SlotLabels
  <2>4. SlotsSound'
    BY <1>10, <2>3, VacantType, SetSlotSound DEF RemoveStale, SoundInv, Vacant, SlotsSound
  <2>1. lastGood' \notin BadTags /\ SoundHistory(history)' /\ SlotsSound'
    BY <1>10, <2>4 DEF RemoveStale, ledger, SoundInv
  <2>2. \A p \in Operators : JobSound(p)'
    BY <1>10, ContinueSound, ScriptFailedSound DEF RemoveStale, Labels, PassedLabels
  <2> QED
    BY <2>1, <2>2 DEF SoundInv
<1>11. CASE Create(o)
  <2>3. job[o].target \in Colors /\ job[o].tag \in Tags
    BY <1>11 DEF Create, TypeInv, Chosen, SlotLabels
  <2>4. SlotsSound'
    BY <1>11, <2>3, NewContainerType, NewContainerSound, SetSlotSound DEF Create, SoundInv, SlotLabels
  <2>1. lastGood' \notin BadTags /\ SoundHistory(history)' /\ SlotsSound'
    BY <1>11, <2>4 DEF Create, ledger, SoundInv
  <2>2. \A p \in Operators : JobSound(p)'
    BY <1>11, ReturnSound, ExitSound DEF Create, Labels, PassedLabels, ExitCodes
  <2> QED
    BY <2>1, <2>2 DEF SoundInv
<1>12. CASE CreateFails(o)
  <2>3. job[o].target \in Colors /\ job[o].tag \in Tags
    BY <1>12 DEF CreateFails, TypeInv, Chosen, SlotLabels
  <2>4. SlotsSound'
    BY <1>12, <2>3, StoppedType, NewContainerSound, SetSlotSound DEF CreateFails, SoundInv, SlotsSound, SlotLabels
  <2>1. lastGood' \notin BadTags /\ SoundHistory(history)' /\ SlotsSound'
    BY <1>12, <2>4 DEF CreateFails, ledger, SoundInv
  <2>2. \A p \in Operators : JobSound(p)'
    BY <1>12, ScriptFailedSound DEF CreateFails, Labels, PassedLabels
  <2> QED
    BY <2>1, <2>2 DEF SoundInv
<1>13. CASE GatePass(o)
  <2>1. lastGood' \notin BadTags /\ SoundHistory(history)' /\ SlotsSound'
    BY <1>13 DEF GatePass, host, ledger, SoundInv, SlotsSound
  <2> DEFINE j == [job[o] EXCEPT !.status = "success", !.attempt = 1]
  <2>2. j \in Jobs /\ j.status = "success" /\ j.tag = job[o].tag
    BY DEF TypeInv, TypeOK, RunTypeOK, Jobs
  <2>3. SoundHistory(j.seen)
    BY DEF TypeInv, TypeOK, RunTypeOK, Jobs, SoundInv, JobSound
  <2>4. ContinueWith(o, "install", j) /\ job[o].target \in Colors
    BY <1>13 DEF GatePass, TypeInv, Chosen, SlotLabels
  <2>5. job[o].tag \notin BadTags
    BY <1>13, <2>4 DEF GatePass, Healthy, Serving, SoundInv, SlotsSound
  <2> HIDE DEF j
  <2>6. \A p \in Operators : JobSound(p)'
    BY <2>2, <2>3, <2>4, <2>5, ContinueWithSound DEF Labels, PassedLabels
  <2> QED
    BY <2>1, <2>6 DEF SoundInv
<1>14. CASE GateMiss(o)
  <2>1. lastGood' \notin BadTags /\ SoundHistory(history)' /\ SlotsSound'
    BY <1>14 DEF GateMiss, host, ledger, SoundInv, SlotsSound
  <2> DEFINE j == [job[o] EXCEPT !.attempt = @ + 1]
  <2>2. j \in Jobs
    BY NextAttemptType DEF TypeInv, TypeOK, RunTypeOK
  <2>3. j.status = job[o].status /\ SoundHistory(j.seen)
    BY DEF TypeInv, TypeOK, RunTypeOK, Jobs, SoundInv, JobSound
  <2>4. ContinueWith(o, "gate", j) /\ job[o].status # "success"
    BY <1>14 DEF GateMiss, SoundInv, JobSound, PassedLabels
  <2> HIDE DEF j
  <2>5. \A p \in Operators : JobSound(p)'
    BY <2>2, <2>3, <2>4, ContinueWithSound DEF Labels, PassedLabels
  <2> QED
    BY <2>1, <2>5 DEF SoundInv
<1>15. CASE GateUnhealthy(o)
  <2>1. lastGood' \notin BadTags /\ SoundHistory(history)' /\ SlotsSound'
    BY <1>15 DEF GateUnhealthy, host, ledger, SoundInv, SlotsSound
  <2>2. \A p \in Operators : JobSound(p)'
    BY <1>15, ContinueSound DEF GateUnhealthy, Labels, PassedLabels
  <2> QED
    BY <2>1, <2>2 DEF SoundInv
<1>16. CASE GateLost(o)
  <2>1. lastGood' \notin BadTags /\ SoundHistory(history)' /\ SlotsSound'
    BY <1>16 DEF GateLost, host, ledger, SoundInv, SlotsSound
  <2>2. \A p \in Operators : JobSound(p)'
    BY <1>16, ContinueSound DEF GateLost, Labels, PassedLabels
  <2> QED
    BY <2>1, <2>2 DEF SoundInv
<1>17. CASE Teardown(o)
  <2>3. job[o].target \in Colors /\ job[o].tag \in Tags
    BY <1>17 DEF Teardown, TypeInv, Chosen, SlotLabels
  <2>4. SlotsSound'
    BY <1>17, <2>3, StopSound DEF Teardown, SoundInv
  <2>1. lastGood' \notin BadTags /\ SoundHistory(history)' /\ SlotsSound'
    BY <1>17, <2>4 DEF Teardown, ledger, SoundInv
  <2>2. \A p \in Operators : JobSound(p)'
    BY <1>17, ContinueSound DEF Teardown, Labels, PassedLabels
  <2> QED
    BY <2>1, <2>2 DEF SoundInv
<1>18. CASE StillLive(o)
  <2>1. lastGood' \notin BadTags /\ SoundHistory(history)' /\ SlotsSound'
    BY <1>18 DEF StillLive, host, ledger, SoundInv, SlotsSound
  <2>2. \A p \in Operators : JobSound(p)'
    BY <1>18, ContinueSound DEF StillLive, Labels, PassedLabels
  <2> QED
    BY <2>1, <2>2 DEF SoundInv
<1>19. CASE Install(o)
  <2>1. lastGood' \notin BadTags /\ SoundHistory(history)' /\ SlotsSound'
    BY <1>19 DEF Install, host, ledger, SoundInv, SlotsSound
  <2> DEFINE j == [job[o] EXCEPT !.backup = conf # NoColor]
  <2>2. j \in Jobs /\ j.status = job[o].status /\ j.tag = job[o].tag /\ SoundHistory(j.seen)
    <3>1. j \in Jobs /\ j.status = job[o].status /\ j.tag = job[o].tag /\ j.seen = job[o].seen
      BY DEF TypeInv, TypeOK, RunTypeOK, Jobs
    <3>2. SoundHistory(job[o].seen)
      BY DEF SoundInv, JobSound
    <3> QED
      BY <3>1, <3>2
  <2>3. ContinueWith(o, "test", j) /\ job[o].status = "success" /\ job[o].tag \notin BadTags
    BY <1>19 DEF Install, SoundInv, JobSound, PassedLabels
  <2> HIDE DEF j
  <2>4. \A p \in Operators : JobSound(p)'
    BY <2>2, <2>3, ContinueWithSound DEF Labels, PassedLabels
  <2> QED
    BY <2>1, <2>4 DEF SoundInv
<1>20. CASE ConfigAccepted(o)
  <2>1. lastGood' \notin BadTags /\ SoundHistory(history)' /\ SlotsSound'
    BY <1>20 DEF ConfigAccepted, host, ledger, SoundInv, SlotsSound
  <2>2. \A p \in Operators : JobSound(p)'
    BY <1>20, ContinueSound DEF ConfigAccepted, Labels, PassedLabels
  <2> QED
    BY <2>1, <2>2 DEF SoundInv
<1>21. CASE ConfigRejected(o)
  <2>1. lastGood' \notin BadTags /\ SoundHistory(history)' /\ SlotsSound'
    BY <1>21 DEF ConfigRejected, host, ledger, SoundInv, SlotsSound
  <2>2. \A p \in Operators : JobSound(p)'
    BY <1>21, ExitSound DEF ConfigRejected, Labels, PassedLabels, ExitCodes
  <2> QED
    BY <2>1, <2>2 DEF SoundInv
<1>22. CASE Reload(o)
  <2>1. lastGood' \notin BadTags /\ SoundHistory(history)' /\ SlotsSound'
    BY <1>22 DEF Reload, host, ledger, SoundInv, SlotsSound
  <2>2. \A p \in Operators : JobSound(p)'
    BY <1>22, ReturnSound DEF Reload, Labels, PassedLabels, AfterSwitch
  <2> QED
    BY <2>1, <2>2 DEF SoundInv
<1>23. CASE ReloadFails(o)
  <2>1. lastGood' \notin BadTags /\ SoundHistory(history)' /\ SlotsSound'
    BY <1>23 DEF ReloadFails, host, ledger, SoundInv, SlotsSound
  <2>2. \A p \in Operators : JobSound(p)'
    BY <1>23, ExitSound DEF ReloadFails, Labels, PassedLabels, ExitCodes
  <2> QED
    BY <2>1, <2>2 DEF SoundInv
<1>24. CASE Drain(o)
  <2>3. job[o].current \in Colors
    BY <1>24 DEF Drain, TypeInv, Chosen
  <2>4. SlotsSound'
    BY <1>24, <2>3, StopSound DEF Drain
  <2>1. lastGood' \notin BadTags /\ SoundHistory(history)' /\ SlotsSound'
    BY <1>24, <2>4 DEF Drain, ledger, SoundInv
  <2>2. \A p \in Operators : JobSound(p)'
    BY <1>24, ReturnSound DEF Drain, Labels, PassedLabels
  <2> QED
    BY <2>1, <2>2 DEF SoundInv
<1>25. CASE RecordLastGood(o)
  <2>3. job[o].status = "success" /\ job[o].tag \notin BadTags
    BY <1>25 DEF RecordLastGood, SoundInv, JobSound, PassedLabels
  <2>1. lastGood' \notin BadTags /\ SoundHistory(history)' /\ SlotsSound'
    BY <1>25, <2>3 DEF RecordLastGood, host, SoundInv, SlotsSound
  <2>2. \A p \in Operators : JobSound(p)'
    BY <1>25, ContinueSound DEF RecordLastGood, Labels, PassedLabels
  <2> QED
    BY <2>1, <2>2 DEF SoundInv
<1>26. CASE LedgerError(o)
  <2>3. job[o].status = "success" /\ job[o].tag \notin BadTags
    BY <1>26 DEF LedgerError, SoundInv, JobSound, PassedLabels
  <2>1. lastGood' \notin BadTags /\ SoundHistory(history)' /\ SlotsSound'
    BY <1>26, <2>3 DEF LedgerError, host, SoundInv, SlotsSound
  <2> DEFINE j == [job[o] EXCEPT !.attempt = @ + 1]
  <2>4. j \in Jobs /\ j.tag = job[o].tag
    BY NextAttemptType DEF TypeInv, TypeOK, RunTypeOK
  <2>5. j.status = job[o].status /\ SoundHistory(j.seen)
    BY DEF TypeInv, TypeOK, RunTypeOK, Jobs, SoundInv, JobSound
  <2>6. ContinueWith(o, "last_good", j) \/ Exit(o, LedgerStale) \/ Exit(o, Raised)
    BY <1>26 DEF LedgerError
  <2> HIDE DEF j
  <2>7. \A p \in Operators : JobSound(p)'
    BY <2>3, <2>4, <2>5, <2>6, ContinueWithSound, ExitSound
    DEF Labels, PassedLabels, ExitCodes, Raised
  <2> QED
    BY <2>1, <2>7 DEF SoundInv
<1>27. CASE ReadHistory(o)
  <2>1. lastGood' \notin BadTags /\ SoundHistory(history)' /\ SlotsSound'
    BY <1>27 DEF ReadHistory, host, ledger, SoundInv, SlotsSound
  <2> DEFINE j == [job[o] EXCEPT !.seen = history]
  <2>2. j \in Jobs /\ j.status = job[o].status /\ j.tag = job[o].tag /\ SoundHistory(j.seen)
    BY DEF TypeInv, TypeOK, RunTypeOK, LedgerTypeOK, Jobs, SoundInv
  <2>3. ContinueWith(o, "hist_write", j)
    BY <1>27 DEF ReadHistory
  <2>4. job[o].status = "success" => job[o].tag \notin BadTags
    BY DEF SoundInv, JobSound
  <2> HIDE DEF j
  <2>5. \A p \in Operators : JobSound(p)'
    BY <2>2, <2>3, <2>4, ContinueWithSound DEF Labels, PassedLabels
  <2> QED
    BY <2>1, <2>5 DEF SoundInv
<1>28. CASE WriteHistory(o)
  <2>1. job[o].tag \in Tags
    BY <1>28 DEF WriteHistory, TypeInv, Chosen, SlotLabels
  <2>2. SoundHistory(history')
    BY <1>28, <2>1, AppendedSound DEF WriteHistory
  <2>3. lastGood' \notin BadTags /\ SlotsSound'
    BY <1>28 DEF WriteHistory, host, SoundInv, SlotsSound
  <2>4. FinalCode(o) \in ExitCodes /\ Raised \in ExitCodes
    BY DEF FinalCode, ExitCodes, Raised
  <2>5. \A p \in Operators : JobSound(p)'
    BY <1>28, <2>4, ExitSound DEF WriteHistory
  <2> QED
    BY <2>2, <2>3, <2>5 DEF SoundInv, SoundHistory
<1> QED
  BY <1>1, <1>2, <1>3, <1>4, <1>5, <1>6, <1>7, <1>8, <1>9, <1>10, <1>11, <1>12, <1>13, <1>14,
     <1>15, <1>16, <1>17, <1>18, <1>19, <1>20, <1>21, <1>22, <1>23, <1>24, <1>25, <1>26, <1>27, <1>28 DEF Step

LEMMA BreakOffSound ==
  ASSUME TypeInv, SoundInv, NEW o \in Operators, BreakOff(o)
  PROVE  SoundInv'
<1>1. UNCHANGED <<host, ledger>>
  BY DEF BreakOff, S3Raises, SshFails, Killed
<1>2. PICK code \in ExitCodes : Exit(o, code)
  BY DEF BreakOff, S3Raises, SshFails, Killed, ExitCodes, Raised
<1>3. \A p \in Operators : JobSound(p)'
  BY <1>2, ExitSound
<1> QED
  BY <1>1, <1>3 DEF SoundInv, SlotsSound, SoundHistory, host, ledger

LEMMA StartSound ==
  ASSUME TypeInv, SoundInv, NEW o \in Operators, StartRun(o)
  PROVE  SoundInv'
<1>1. PICK k \in AllKinds, t \in Tags \cup {NoTag}, label \in {"active", "live", "fo_active"} :
         Start(o, k, t, label)
  BY DEF StartRun, StartDeploy, StartRollback, StartFailover, AllKinds
<1> DEFINE j == [NoJob EXCEPT !.kind = k, !.tag = t]
<1>2. pc' = [pc EXCEPT ![o] = label] /\ job' = [job EXCEPT ![o] = j]
      /\ UNCHANGED <<host, ledger>>
  BY <1>1 DEF Start, Goto
<1>3. j.status = "failed" /\ j.seen = << >>
  BY DEF NoJob
<1> HIDE DEF j
<1>4. Moves(o) /\ JobSound(o)'
  BY <1>2, <1>3 DEF Moves, JobSound, SoundHistory, PassedLabels, TypeInv, TypeOK, RunTypeOK
<1>5. \A p \in Operators : JobSound(p)'
  BY <1>4, JobSoundOthers
<1> QED
  BY <1>2, <1>5 DEF SoundInv, SlotsSound, SoundHistory, host, ledger

LEMMA InitSound == Init => SoundInv
  BY TagsAssumption
  DEF Init, SoundInv, SoundHistory, SlotsSound, JobSound, PassedLabels, NoJob, Vacant

LEMMA NextSound ==
  ASSUME TypeInv, SoundInv, [Next]_vars
  PROVE  SoundInv'
<1>1. CASE \E o \in Operators : StartRun(o)
  BY <1>1, StartSound
<1>2. CASE \E o \in Operators : Step(o)
  BY <1>2, StepSound
<1>3. CASE \E o \in Operators : BreakOff(o)
  BY <1>3, BreakOffSound
<1>4. CASE NginxRestart
  BY <1>4 DEF NginxRestart, ledger, SoundInv, SoundHistory, SlotsSound, JobSound
<1>5. CASE UNCHANGED vars
  BY <1>5 DEF vars, host, ledger, SoundInv, SoundHistory, SlotsSound, JobSound
<1> QED
  BY <1>1, <1>2, <1>3, <1>4, <1>5 DEF Next

\* Whatever the faults and however the runs overlap, last-good.json and every
\* success in the history name builds that passed a health check.
THEOREM LedgerIsSound == Spec => []LedgerSound
<1>1. Init => TypeInv /\ SoundInv
  BY InitTypeInv, InitSound
<1>2. (TypeInv /\ SoundInv) /\ [Next]_vars => (TypeInv /\ SoundInv)'
  BY NextTypeInv, NextSound
<1>3. SoundInv => LedgerSound
  BY DEF SoundInv, LedgerSound, SoundHistory
<1> QED
  BY <1>1, <1>2, <1>3, PTL DEF Spec

-----------------------------------------------------------------------------
(* Every step of a run takes it nearer to its end *)

\* What a step of o does to its own run, and that it does nothing to another.
LEMMA ExitAdvances ==
  ASSUME TypeInv, NEW o \in Operators, NEW code, Exit(o, code)
  PROVE  Advances(o) /\ Moves(o)
  BY DEF TypeInv, TypeOK, RunTypeOK, Exit, Advances, Moves

LEMMA LaterAdvances ==
  ASSUME TypeInv, NEW o \in Operators, NEW label, NEW j,
         Continue(o, label) \/ ContinueWith(o, label, j), Order[pc[o]] < Order[label]
  PROVE  Advances(o) /\ Moves(o)
  BY DEF TypeInv, TypeOK, RunTypeOK, Continue, ContinueWith, Goto, Advances, Moves

LEMMA ReturnAdvances ==
  ASSUME TypeInv, NEW o \in Operators, NEW label, Return(o, label),
         Order[pc[o]] < Order[label]
  PROVE  Advances(o) /\ Moves(o)
  BY ExitAdvances, LaterAdvances DEF Return

LEMMA ScriptFailedAdvances ==
  ASSUME TypeInv, NEW o \in Operators, ScriptFailed(o)
  PROVE  Advances(o) /\ Moves(o)
  BY ExitAdvances DEF ScriptFailed

\* Another attempt, of which there are as many as the loop has.
LEMMA AttemptAdvances ==
  ASSUME TypeInv, NEW o \in Operators, NEW n \in Nat, n \in {Retries, LedgerAttempts},
         job[o].attempt < n,
         ContinueWith(o, pc[o], [job[o] EXCEPT !.attempt = @ + 1])
  PROVE  Advances(o) /\ Moves(o)
<1>1. pc \in [Operators -> Labels] /\ job \in [Operators -> Jobs]
  BY DEF TypeInv, TypeOK, RunTypeOK
<1>2. /\ pc' = [pc EXCEPT ![o] = pc[o]]
      /\ job' = [job EXCEPT ![o] = [job[o] EXCEPT !.attempt = @ + 1]]
  BY DEF ContinueWith, Goto
<1>3. Moves(o) /\ pc'[o] = pc[o] /\ job'[o] = [job[o] EXCEPT !.attempt = @ + 1]
  BY <1>1, <1>2 DEF Moves
<1>4. job'[o].attempt = job[o].attempt + 1 /\ job[o].attempt \in Nat
  BY <1>1, <1>3 DEF Jobs
<1>5. job'[o].attempt <= n
  BY <1>4
<1> QED
  BY <1>3, <1>4, <1>5 DEF Advances

LEMMA StepAdvances ==
  ASSUME TypeInv, NEW o \in Operators, Step(o)
  PROVE  Advances(o) /\ Moves(o)
<1> USE DEF Order
<1>1. CASE ReadLive(o) \/ ReadPast(o) \/ ReadActive(o) \/ ReadInactive(o)
  BY <1>1, LaterAdvances DEF ReadLive, ReadPast, ReadActive, ReadInactive
<1>2. CASE CheckLedger(o)
  BY <1>2, ExitAdvances, LaterAdvances DEF CheckLedger
<1>3. CASE PickPrevious(o)
  <2>1. pc[o] = "pick" /\ (Exit(o, Precondition) \/ \E j : ContinueWith(o, "active", j))
    BY <1>3 DEF PickPrevious
  <2> QED
    BY <2>1, ExitAdvances, LaterAdvances
<1>4. CASE InspectActive(o) \/ InspectImage(o)
  BY <1>4, ExitAdvances, LaterAdvances DEF InspectActive, InspectImage
<1>5. CASE Pull(o) \/ RemoveStale(o)
  BY <1>5, ScriptFailedAdvances, LaterAdvances DEF Pull, RemoveStale
<1>6. CASE Create(o) \/ CreateFails(o)
  BY <1>6, ScriptFailedAdvances, ExitAdvances, ReturnAdvances DEF Create, CreateFails
<1>7. CASE GatePass(o) \/ GateUnhealthy(o) \/ GateLost(o)
  BY <1>7, LaterAdvances DEF GatePass, GateUnhealthy, GateLost
<1>8. CASE GateMiss(o)
  BY <1>8, AttemptAdvances, BoundsAssumption DEF GateMiss
<1>9. CASE Teardown(o) \/ StillLive(o) \/ Install(o) \/ ConfigAccepted(o)
  <2>1. CASE Install(o)
    <3>1. pc[o] = "install" /\ \E j : ContinueWith(o, "test", j)
      BY <2>1 DEF Install
    <3> QED
      BY <3>1, LaterAdvances
  <2>2. CASE Teardown(o)
    <3>1. pc[o] = "teardown" /\ Continue(o, "still_live")
      BY <2>2 DEF Teardown
    <3> QED
      BY <3>1, LaterAdvances
  <2>3. CASE StillLive(o)
    <3>1. pc[o] = "still_live" /\ Continue(o, "hist_read")
      BY <2>3 DEF StillLive
    <3> QED
      BY <3>1, LaterAdvances
  <2>4. CASE ConfigAccepted(o)
    <3>1. pc[o] = "test" /\ Continue(o, "reload")
      BY <2>4 DEF ConfigAccepted
    <3> QED
      BY <3>1, LaterAdvances
  <2> QED
    BY <1>9, <2>1, <2>2, <2>3, <2>4
<1>10. CASE ConfigRejected(o) \/ ReloadFails(o)
  BY <1>10, ExitAdvances DEF ConfigRejected, ReloadFails
<1>11. CASE Reload(o) \/ Drain(o)
  BY <1>11, ReturnAdvances DEF Reload, Drain, AfterSwitch
<1>12. CASE RecordLastGood(o) \/ ReadHistory(o)
  BY <1>12, LaterAdvances DEF RecordLastGood, ReadHistory
<1>13. CASE LedgerError(o)
  BY <1>13, ExitAdvances, AttemptAdvances, BoundsAssumption DEF LedgerError, LedgerAttempts
<1>14. CASE WriteHistory(o)
  BY <1>14, ExitAdvances DEF WriteHistory
<1> QED
  BY <1>1, <1>2, <1>3, <1>4, <1>5, <1>6, <1>7, <1>8, <1>9, <1>10, <1>11, <1>12, <1>13,
     <1>14 DEF Step

\* However runs overlap and whatever fails: no step of a run takes it back, and
\* none keeps it where it is without using up an attempt.
THEOREM RunsGoOn == Spec => RunsAdvance
<1> DEFINE P == \A o \in Operators :
       pc[o] # "idle" => Advances(o) \/ (pc'[o] = pc[o] /\ job'[o] = job[o])
<1>1. ASSUME TypeInv, Next PROVE P
  <2>1. ASSUME NEW o \in Operators, Step(o) \/ BreakOff(o) PROVE Advances(o) /\ Moves(o)
    BY <1>1, <2>1, StepAdvances, ExitAdvances DEF BreakOff, S3Raises, SshFails, Killed
  <2>2. ASSUME NEW o \in Operators, StartRun(o) PROVE pc[o] = "idle" /\ Moves(o)
    BY <1>1, <2>2 DEF StartRun, StartDeploy, StartRollback, StartFailover, Start, MayStart,
       Goto, Moves, TypeInv, TypeOK, RunTypeOK
  <2>3. ASSUME NEW o \in Operators, Moves(o), pc[o] = "idle" \/ Advances(o) PROVE P
    BY <2>3 DEF Moves
  <2>4. CASE NginxRestart
    BY <2>4 DEF NginxRestart
  <2> QED
    BY <1>1, <2>1, <2>2, <2>3, <2>4 DEF Next
<1>2. TypeInv /\ [Next]_vars => TypeInv' /\ [P]_vars
  BY <1>1, NextTypeInv
<1> QED
  BY <1>2, InitTypeInv, PTL DEF Spec, RunsAdvance
-----------------------------------------------------------------------------
(* What is settled in the history stays there *)

\* A log that survives in s survives when s is written back with one entry more.
LEMMA SurvivesAppend ==
  ASSUME NEW h \in Seq(Entries), NEW s \in Seq(Entries), NEW e \in Entries,
         Survives(h, s), Len(h) <= MaxHistory, Len(s) <= MaxHistory
  PROVE  Survives(h, Truncated(Append(s, e)))
<1> DEFINE a == Append(s, e)
           g == Truncated(a)
<1> USE BoundsAssumption
<1>1. PICK n \in 0..Len(h) :
        /\ Len(h) - n <= Len(s)
        /\ \A i \in 1..(Len(h) - n) : s[i] = h[n + i]
        /\ n > 0 => Len(s) = MaxHistory
  BY DEF Survives
<1>2. a \in Seq(Entries) /\ Len(a) = Len(s) + 1 /\ \A i \in 1..Len(s) : a[i] = s[i]
  OBVIOUS
<1>3. CASE Len(s) < MaxHistory
  <2>1. g = a /\ n = 0
    BY <1>1, <1>2, <1>3 DEF Truncated
  <2>2. /\ 0 \in 0..Len(h) /\ Len(h) - 0 <= Len(g)
        /\ \A i \in 1..(Len(h) - 0) : g[i] = h[0 + i]
    BY <1>1, <1>2, <2>1
  <2> HIDE DEF g
  <2> QED
    BY <2>2 DEF Survives, g
<1>4. CASE Len(s) = MaxHistory
  <2>1. g = SubSeq(a, 2, MaxHistory + 1)
    BY <1>2, <1>4 DEF Truncated
  <2>2. Len(g) = MaxHistory /\ \A i \in 1..(MaxHistory - 1) : g[i] = s[i + 1]
    BY <1>2, <1>4, <2>1
  <2> DEFINE m == IF n = Len(h) THEN n ELSE n + 1
  <2>3. m \in 0..Len(h) /\ Len(h) - m <= Len(g)
    BY <2>2
  <2>4. ASSUME NEW i \in 1..(Len(h) - m) PROVE g[i] = h[m + i]
    <3>1. m = n + 1 /\ i + 1 \in 1..(Len(h) - n) /\ i \in 1..(MaxHistory - 1)
      BY <2>4
    <3> HIDE DEF g
    <3> QED
      BY <1>1, <2>2, <3>1
  <2> HIDE DEF g, m
  <2> QED
    BY <2>2, <2>3, <2>4 DEF Survives, g
<1> QED
  BY <1>3, <1>4

\* A run about to write holds the history as it read it.
LEMMA HeldHistory ==
  ASSUME TypeInv, Next, NEW o \in Operators, pc'[o] = "hist_write"
  PROVE  \/ pc[o] = "hist_write" /\ job'[o].seen = job[o].seen
         \/ job'[o].seen = history
<1>1. ASSUME NEW p \in Operators, Step(p), p # o
      PROVE  pc'[o] = pc[o] /\ job'[o] = job[o]
  BY <1>1, StepAdvances DEF Moves
<1>2. ASSUME NEW p \in Operators, StartRun(p) PROVE pc'[o] = pc[o] /\ job'[o] = job[o]
  BY <1>2 DEF StartRun, StartDeploy, StartRollback, StartFailover, Start, Goto, TypeInv,
     TypeOK, RunTypeOK
<1>3. ASSUME NEW p \in Operators, NEW code, Exit(p, code)
      PROVE  pc'[o] = pc[o] /\ job'[o] = job[o]
  BY <1>3 DEF Exit, TypeInv, TypeOK, RunTypeOK
<1>4. ASSUME NEW p \in Operators, BreakOff(p) PROVE pc'[o] = pc[o] /\ job'[o] = job[o]
  BY <1>3, <1>4 DEF BreakOff, S3Raises, SshFails, Killed
<1>5. ASSUME Step(o) PROVE ReadHistory(o)
  <2>1. ~(\E code : Exit(o, code))
    BY DEF Exit, TypeInv, TypeOK, RunTypeOK
  <2>2. ASSUME NEW label, NEW j, Continue(o, label) \/ ContinueWith(o, label, j)
        PROVE  label = "hist_write"
    BY <2>2 DEF Continue, ContinueWith, Goto, TypeInv, TypeOK, RunTypeOK
  <2> QED
    BY <1>5, <2>1, <2>2 DEF Step, ReadLive, CheckLedger, ReadPast, PickPrevious,
       InspectActive, InspectImage, ReadActive, ReadInactive, Pull, RemoveStale, Create,
       CreateFails, GatePass, GateMiss, GateUnhealthy, GateLost, Teardown, StillLive, Install,
       ConfigAccepted, ConfigRejected, Reload, ReloadFails, Drain, RecordLastGood,
       LedgerError, WriteHistory, ScriptFailed, Return, AfterSwitch
<1>6. ASSUME ReadHistory(o) PROVE job'[o].seen = history
  BY <1>6 DEF ReadHistory, ContinueWith, TypeInv, TypeOK, RunTypeOK, Jobs
<1> QED
  BY <1>1, <1>2, <1>4, <1>5, <1>6 DEF Next, NginxRestart

\* Only a write of the history changes it.
LEMMA HistoryWritten ==
  ASSUME [Next]_vars, history' # history
  PROVE  \E o \in Operators : WriteHistory(o)
  BY DEF Next, StartRun, StartDeploy, StartRollback, StartFailover, Start, BreakOff,
     S3Raises, SshFails, Killed, NginxRestart, vars, ledger, Step, ReadLive, CheckLedger,
     ReadPast, PickPrevious, InspectActive, InspectImage, ReadActive, ReadInactive, Pull,
     RemoveStale, Create, CreateFails, GatePass, GateMiss, GateUnhealthy, GateLost,
     Teardown, StillLive, Install, ConfigAccepted, ConfigRejected, Reload, ReloadFails,
     Drain, RecordLastGood, LedgerError, ReadHistory

\* The settled log survives in the history, and in every copy of it that is
\* about to be written back.
SettledInv ==
  /\ settled \in Seq(Entries) /\ Len(settled) <= MaxHistory
  /\ Survives(settled, history)
  /\ \A o \in Operators : pc[o] = "hist_write" =>
       Len(job[o].seen) <= MaxHistory /\ Survives(settled, job[o].seen)

LEMMA SurvivesWhole == ASSUME NEW h \in Seq(Entries) PROVE Survives(h, h)
<1>1. 0 \in 0..Len(h) /\ \A i \in 1..Len(h) : h[i] = h[0 + i]
  OBVIOUS
<1> QED
  BY <1>1 DEF Survives

LEMMA SettledKept ==
  ASSUME TypeInv, SettledInv, [HistoryNext]_hvars
  PROVE  Survives(settled, history') /\ SettledInv'
<1>1. CASE UNCHANGED hvars
  BY <1>1 DEF hvars, vars, ledger, SettledInv
<1>2. CASE HistoryNext
  <2>1. Next /\ TypeInv'
    BY <1>2, NextTypeInv DEF HistoryNext
  <2>2. Survives(settled, history')
    <3>1. CASE history' # history
      <4>1. PICK o \in Operators : WriteHistory(o)
        BY <2>1, <3>1, HistoryWritten
      <4>2. /\ pc[o] = "hist_write" /\ job[o] \in Jobs /\ job[o].tag \in Tags
            /\ history' = Appended(o)
        BY <4>1 DEF WriteHistory, TypeInv, TypeOK, RunTypeOK, Chosen, SlotLabels
      <4>3. job[o].seen \in Seq(Entries)
            /\ [tag |-> job[o].tag, status |-> job[o].status] \in Entries
        BY <4>2 DEF Jobs, Entries
      <4> QED
        BY <4>2, <4>3, SurvivesAppend DEF SettledInv, Appended
    <3> QED
      BY <3>1 DEF SettledInv
  <2>3. CASE Settled'
    <3>1. settled' = history' /\ history' \in Seq(Entries) /\ Len(history') <= MaxHistory
      BY <1>2, <2>1, <2>3 DEF HistoryNext, TypeInv, TypeOK, LedgerTypeOK
    <3>2. Survives(history', history')
      BY <3>1, SurvivesWhole
    <3> QED
      BY <2>2, <2>3, <3>1, <3>2 DEF SettledInv, Settled
  <2>4. CASE ~Settled'
    <3>1. settled' = settled
      BY <1>2, <2>4 DEF HistoryNext
    <3>2. ASSUME NEW o \in Operators, pc'[o] = "hist_write"
          PROVE  Len(job'[o].seen) <= MaxHistory /\ Survives(settled, job'[o].seen)
      BY <2>1, <3>2, HeldHistory DEF SettledInv, TypeInv, TypeOK, LedgerTypeOK
    <3> QED
      BY <2>2, <3>1, <3>2 DEF SettledInv
  <2> QED
    BY <2>2, <2>3, <2>4
<1> QED
  BY <1>1, <1>2

\* However runs overlap and whatever fails: an entry that is in the history
\* while no run is between its read and its write of it is lost only to newer
\* ones, when the history is full.
THEOREM SettledHistoryStays == HistorySpec => SettledStays
<1>1. HistoryInit => TypeInv /\ SettledInv
  <2>1. Init => TypeInv
    BY InitTypeInv
  <2>2. HistoryInit => Survives(history, history) /\ history = << >>
    <3>1. << >> \in Seq(Entries)
      OBVIOUS
    <3> QED
      BY <3>1, SurvivesWhole DEF HistoryInit, Init
  <2> QED
    BY <2>1, <2>2, BoundsAssumption DEF HistoryInit, Init, SettledInv
<1>2. TypeInv /\ [HistoryNext]_hvars => TypeInv'
  BY NextTypeInv DEF HistoryNext, hvars
<1>3. TypeInv /\ SettledInv /\ [HistoryNext]_hvars
        => SettledInv' /\ [Survives(settled, history')]_hvars
  BY SettledKept
<1> QED
  BY <1>1, <1>2, <1>3, PTL DEF HistorySpec, SettledStays
=============================================================================
