----------------------------- MODULE RunProofs -----------------------------
(***************************************************************************)
(* What holds of every run when runs do not overlap, failovers included    *)
(* and under every fault: the run works in the slot that nginx's file does *)
(* not name (a failover in the one it names), and what it reports and      *)
(* records is true.                                                        *)
(***************************************************************************)
EXTENDS BlueGreenProofs

\* At most one run is under way.
Alone == \A o, p \in Operators : pc[o] # "idle" /\ pc[p] # "idle" => o = p

\* The steps between choosing the slot and touching nginx's file.
Preparing == {"pull", "remove", "create", "gate", "teardown", "still_live", "install"}
Switching == {"test", "reload"}
Switched == {"drain", "last_good"}

\* The steps of a failover.
Restarting == {"fo_active", "fo_inspect", "pull", "remove", "create"}

\* Where a deploy or a rollback is, it works in the slot that nginx's file
\* does not name; once it has written the file, the file names a container
\* that passed the gate, and the run knows which colour to go back to.
DeployPlaced(o) ==
  /\ pc[o] \notin {"fo_active", "fo_inspect"}
  /\ pc[o] = "inactive" => job[o].current = conf
  /\ pc[o] \in Preparing =>
       job[o].current = conf /\ job[o].target = InactiveColor(conf)
  /\ pc[o] \in Switching \cup Switched =>
       conf = job[o].target /\ job[o].current # job[o].target
  /\ pc[o] \in {"install"} \cup Switching \cup Switched =>
       Serving(job[o].target) /\ slot[job[o].target].tag = job[o].tag
  /\ pc[o] \in Switching =>
       /\ job[o].backup <=> job[o].current # NoColor
       /\ job[o].backup => bak = job[o].current

\* A failover works in the slot the file names.
FailoverPlaced(o) ==
  /\ pc[o] \in Restarting
  /\ pc[o] # "fo_active" => job[o].target = conf /\ job[o].current = conf

Placed(o) ==
  IF job[o].kind = "failover" THEN FailoverPlaced(o) ELSE DeployPlaced(o)

PlaceInv == Alone /\ \A o \in Operators : Placed(o)

-----------------------------------------------------------------------------
\* While o is under way nobody else is, so only o's place can be disturbed.
LEMMA OthersStay ==
  ASSUME TypeInv, PlaceInv, NEW o \in Operators, pc[o] # "idle", Moves(o), Placed(o)'
  PROVE  PlaceInv'
<1>1. \A p \in Operators \ {o} : pc[p] = "idle"
  BY DEF PlaceInv, Alone
<1>2. \A p \in Operators \ {o} : pc'[p] = "idle" /\ job'[p].kind # "failover"
  BY <1>1 DEF Moves, PlaceInv, Placed, FailoverPlaced, Restarting
<1>3. \A p \in Operators \ {o} : Placed(p)'
  BY <1>2 DEF Placed, DeployPlaced, Preparing, Switching, Switched
<1> QED
  BY <1>2, <1>3 DEF PlaceInv, Alone

LEMMA ExitPlaced ==
  ASSUME TypeInv, PlaceInv, NEW o \in Operators, pc[o] # "idle",
         NEW code, Exit(o, code)
  PROVE  PlaceInv'
<1>1. Moves(o) /\ pc'[o] = "idle" /\ job'[o] = NoJob
  BY DEF TypeInv, TypeOK, RunTypeOK, Exit, Moves
<1>2. NoJob.kind = "none"
  BY DEF NoJob
<1>3. Placed(o)'
  BY <1>1, <1>2 DEF Placed, DeployPlaced, Preparing, Switching, Switched
<1> QED
  BY <1>1, <1>3, OthersStay

LEMMA ScriptFailedPlaced ==
  ASSUME TypeInv, PlaceInv, NEW o \in Operators, pc[o] # "idle", ScriptFailed(o)
  PROVE  PlaceInv'
  BY ExitPlaced DEF ScriptFailed

\* What a step to another label of the same phase keeps.
SamePhase(o, label) ==
  /\ label \notin {"inactive", "install", "fo_active", "fo_inspect"}
  /\ label \notin Restarting => pc[o] \notin Restarting
  /\ label \in Preparing => pc[o] \in Preparing
  /\ label \in Switching => pc[o] \in Switching
  /\ label \in Switched => pc[o] \in Switched

\* Changing o's local state within a phase, its colours untouched.
LEMMA ContinueWithPlaced ==
  ASSUME TypeInv, PlaceInv, NEW o \in Operators, pc[o] # "idle",
         NEW label \in Labels, NEW j, ContinueWith(o, label, j), SamePhase(o, label),
         j.kind = job[o].kind, j.current = job[o].current, j.target = job[o].target,
         j.backup = job[o].backup,
         label \in Preparing \cup Switching \cup Switched => j.tag = job[o].tag,
         UNCHANGED host
  PROVE  PlaceInv'
<1>1. Moves(o) /\ pc'[o] = label /\ job'[o] = j
  BY DEF TypeInv, TypeOK, RunTypeOK, ContinueWith, Goto, Moves
<1>2. CASE job[o].kind = "failover"
  <2>1. FailoverPlaced(o) /\ pc[o] \in Restarting
    BY <1>2 DEF PlaceInv, Placed, FailoverPlaced
  <2>2. label \in {"pull", "remove", "create"} /\ pc[o] # "fo_active"
    BY <2>1 DEF SamePhase, Restarting, Preparing
  <2>3. FailoverPlaced(o)'
    BY <1>1, <2>1, <2>2 DEF FailoverPlaced, host, Restarting
  <2> QED
    BY <1>1, <1>2, <2>3, OthersStay DEF Placed
<1>3. CASE job[o].kind # "failover"
  <2>1. DeployPlaced(o)
    BY <1>3 DEF PlaceInv, Placed
  <2>2. DeployPlaced(o)'
    BY <1>1, <2>1 DEF DeployPlaced, SamePhase, host, Serving, Preparing, Switching, Switched
  <2> QED
    BY <1>1, <1>3, <2>2, OthersStay DEF Placed
<1> QED
  BY <1>2, <1>3

LEMMA ContinueIsContinueWith ==
  ASSUME TypeInv, NEW o \in Operators, NEW label, Continue(o, label)
  PROVE  ContinueWith(o, label, job[o])
  BY DEF Continue, ContinueWith, TypeInv, TypeOK, RunTypeOK

LEMMA ContinuePlaced ==
  ASSUME TypeInv, PlaceInv, NEW o \in Operators, pc[o] # "idle",
         NEW label \in Labels, Continue(o, label), SamePhase(o, label), UNCHANGED host
  PROVE  PlaceInv'
<1>1. ContinueWith(o, label, job[o])
  BY ContinueIsContinueWith
<1> QED
  BY <1>1, ContinueWithPlaced

\* A run that has gone where a failover never goes is none.
LEMMA NotFailover ==
  ASSUME PlaceInv, NEW o \in Operators, pc[o] \notin Restarting
  PROVE  job[o].kind # "failover" /\ DeployPlaced(o)
  BY DEF PlaceInv, Placed, FailoverPlaced

\* Work in the slot of a run that is preparing does not touch the slot
\* nginx's file names - unless the run is a failover.
LEMMA SlotWork ==
  ASSUME TypeInv, PlaceInv, NEW o \in Operators, pc[o] \in Preparing,
         job[o].kind # "failover", NEW v, SetSlot(job[o].target, v)
  PROVE  /\ \A c \in Colors : c = conf => slot'[c] = slot[c]
         /\ job[o].target # conf /\ job[o].target \in Colors
<1>1. job[o].target = InactiveColor(conf) /\ InactiveColor(conf) # conf
      /\ InactiveColor(conf) \in Colors
  BY DEF PlaceInv, Placed, DeployPlaced, InactiveColor, Colors
<1> QED
  BY <1>1 DEF SetSlot, TypeInv, TypeOK, HostTypeOK

\* A run can go on preparing whatever it does to its slot, short of the gate's
\* verdict.
LEMMA PrepareOn ==
  ASSUME TypeInv, PlaceInv, NEW o \in Operators, pc[o] \in Preparing,
         NEW label \in Labels, Continue(o, label), UNCHANGED <<conf, bak>>,
         label \in (Preparing \ {"install"}) \cup {"hist_read"},
         job[o].kind = "failover" => label \in Restarting
  PROVE  PlaceInv'
<1>1. Moves(o) /\ pc'[o] = label /\ job'[o] = job[o]
  BY DEF TypeInv, TypeOK, RunTypeOK, Continue, Goto, Moves
<1>2. Placed(o)'
  BY <1>1 DEF PlaceInv, Placed, DeployPlaced, FailoverPlaced, Preparing, Switching, Switched
<1>3. pc[o] # "idle"
  BY DEF Preparing
<1> QED
  BY <1>1, <1>2, <1>3, OthersStay

\* The steps that only read, or talk to S3.
LEMMA ReadsPlaced ==
  ASSUME TypeInv, PlaceInv, NEW o \in Operators,
         \/ ReadLive(o) \/ CheckLedger(o) \/ ReadPast(o) \/ PickPrevious(o)
         \/ GateMiss(o) \/ RecordLastGood(o) \/ LedgerError(o) \/ ReadHistory(o)
         \/ WriteHistory(o)
  PROVE  PlaceInv'
<1> USE DEF SamePhase, Labels, Restarting, Preparing, Switching, Switched
<1>1. UNCHANGED host /\ pc[o] # "idle" /\ pc[o] \notin Restarting
  BY DEF ReadLive, CheckLedger, ReadPast, PickPrevious, GateMiss, RecordLastGood,
     LedgerError, ReadHistory, WriteHistory
<1>2. job[o] \in Jobs
  BY DEF TypeInv, TypeOK, RunTypeOK
<1>3. CASE \E code : Exit(o, code)
  BY <1>1, <1>3, ExitPlaced
<1>4. CASE \/ CheckLedger(o) /\ Continue(o, "active")
           \/ CheckLedger(o) /\ Continue(o, "past")
           \/ RecordLastGood(o) /\ Continue(o, "hist_read")
  BY <1>1, <1>4, ContinuePlaced DEF CheckLedger, RecordLastGood
<1>5. CASE ReadLive(o)
  <2>1. PICK v : ContinueWith(o, "recorded", [job[o] EXCEPT !.live = v])
    BY <1>5 DEF ReadLive
  <2> DEFINE j == [job[o] EXCEPT !.live = v]
  <2>2. /\ j.kind = job[o].kind /\ j.current = job[o].current
        /\ j.target = job[o].target /\ j.backup = job[o].backup
    BY <1>2 DEF Jobs
  <2>3. ContinueWith(o, "recorded", j)
    BY <2>1
  <2> HIDE DEF j
  <2> QED
    BY <1>1, <2>2, <2>3, ContinueWithPlaced
<1>6. CASE ReadPast(o) \/ ReadHistory(o)
  <2> DEFINE j == [job[o] EXCEPT !.seen = history]
  <2>1. /\ j.kind = job[o].kind /\ j.current = job[o].current
        /\ j.target = job[o].target /\ j.backup = job[o].backup
    BY <1>2 DEF Jobs
  <2>2. ContinueWith(o, "pick", j) \/ ContinueWith(o, "hist_write", j)
    BY <1>6 DEF ReadPast, ReadHistory
  <2> HIDE DEF j
  <2> QED
    BY <1>1, <2>1, <2>2, ContinueWithPlaced
<1>7. ASSUME NEW i \in Candidates(o),
             ContinueWith(o, "active", [job[o] EXCEPT !.tag = job[o].seen[i].tag, !.seen = << >>])
      PROVE  PlaceInv'
  <2> DEFINE j == [job[o] EXCEPT !.tag = job[o].seen[i].tag, !.seen = << >>]
  <2>1. /\ j.kind = job[o].kind /\ j.current = job[o].current
        /\ j.target = job[o].target /\ j.backup = job[o].backup
    BY <1>2 DEF Jobs
  <2>2. ContinueWith(o, "active", j)
    BY <1>7
  <2> HIDE DEF j
  <2> QED
    BY <1>1, <2>1, <2>2, ContinueWithPlaced
<1>8. CASE \/ GateMiss(o)
           \/ LedgerError(o) /\ ContinueWith(o, "last_good", [job[o] EXCEPT !.attempt = @ + 1])
  <2> DEFINE j == [job[o] EXCEPT !.attempt = @ + 1]
  <2>1. /\ j.kind = job[o].kind /\ j.current = job[o].current /\ j.tag = job[o].tag
        /\ j.target = job[o].target /\ j.backup = job[o].backup
    BY <1>2 DEF Jobs
  <2>2. \/ pc[o] = "gate" /\ ContinueWith(o, "gate", j)
        \/ pc[o] = "last_good" /\ ContinueWith(o, "last_good", j)
    BY <1>8 DEF GateMiss, LedgerError
  <2> HIDE DEF j
  <2> QED
    BY <1>1, <2>1, <2>2, ContinueWithPlaced
<1> QED
  BY <1>3, <1>4, <1>5, <1>6, <1>7, <1>8
  DEF CheckLedger, PickPrevious, LedgerError, WriteHistory, RecordLastGood

\* The choice of the slot.
LEMMA ChoicePlaced ==
  ASSUME TypeInv, PlaceInv, NEW o \in Operators,
         InspectActive(o) \/ InspectImage(o) \/ ReadActive(o) \/ ReadInactive(o)
  PROVE  PlaceInv'
<1>1. UNCHANGED host /\ pc[o] # "idle" /\ job[o] \in Jobs
  BY DEF InspectActive, InspectImage, ReadActive, ReadInactive, TypeInv, TypeOK, RunTypeOK
<1>2. CASE Exit(o, Deployed)
  BY <1>1, <1>2, ExitPlaced
<1>3. CASE InspectActive(o) /\ ~Exit(o, Deployed)
  <2>1. /\ pc[o] = "fo_active" /\ Moves(o) /\ pc'[o] = "fo_inspect"
        /\ job'[o] = [job[o] EXCEPT !.current = conf, !.target = conf]
    BY <1>3 DEF InspectActive, ContinueWith, Goto, Moves, TypeInv, TypeOK, RunTypeOK
  <2>2. job'[o].kind = job[o].kind /\ job'[o].target = conf /\ job'[o].current = conf
    BY <1>1, <2>1 DEF Jobs
  <2>3. job[o].kind = "failover"
    BY <2>1 DEF PlaceInv, Placed, DeployPlaced
  <2> QED
    BY <1>1, <2>1, <2>2, <2>3, OthersStay DEF Placed, FailoverPlaced, Restarting, host
<1>4. CASE InspectImage(o) /\ ~Exit(o, Deployed)
  <2>1. /\ pc[o] = "fo_inspect" /\ Moves(o) /\ pc'[o] = "pull"
        /\ job'[o] = [job[o] EXCEPT !.tag = slot[job[o].current].tag]
    BY <1>4 DEF InspectImage, ContinueWith, Goto, Moves, TypeInv, TypeOK, RunTypeOK
  <2>2. job'[o].kind = job[o].kind /\ job'[o].target = job[o].target
        /\ job'[o].current = job[o].current
    BY <1>1, <2>1 DEF Jobs
  <2>3. job[o].kind = "failover" /\ FailoverPlaced(o)
    BY <2>1 DEF PlaceInv, Placed, DeployPlaced
  <2> QED
    BY <1>1, <2>1, <2>2, <2>3, OthersStay DEF Placed, FailoverPlaced, Restarting, host
<1>5. CASE ReadActive(o)
  <2>1. /\ pc[o] = "active" /\ Moves(o) /\ pc'[o] = "inactive"
        /\ job'[o] = [job[o] EXCEPT !.current = conf]
    BY <1>5 DEF ReadActive, ContinueWith, Goto, Moves, TypeInv, TypeOK, RunTypeOK
  <2>2. job'[o].kind # "failover" /\ job'[o].current = conf
    BY <1>1, <2>1, NotFailover DEF Jobs, Restarting
  <2> QED
    BY <1>1, <2>1, <2>2, OthersStay
    DEF Placed, DeployPlaced, Preparing, Switching, Switched, host
<1>6. CASE ReadInactive(o)
  <2>1. /\ pc[o] = "inactive" /\ Moves(o) /\ pc'[o] = "pull"
        /\ job'[o] = [job[o] EXCEPT !.target = InactiveColor(conf)]
    BY <1>6 DEF ReadInactive, ContinueWith, Goto, Moves, TypeInv, TypeOK, RunTypeOK
  <2>2. job[o].kind # "failover" /\ job[o].current = conf
    BY <2>1, NotFailover DEF DeployPlaced, Restarting
  <2>3. job'[o].kind # "failover" /\ job'[o].current = conf
        /\ job'[o].target = InactiveColor(conf)
    BY <1>1, <2>1, <2>2 DEF Jobs
  <2> QED
    BY <1>1, <2>1, <2>3, OthersStay
    DEF Placed, DeployPlaced, Preparing, Switching, Switched, host, InactiveColor
<1> QED
  BY <1>2, <1>3, <1>4, <1>5, <1>6

\* The work in the slot, and the gate.
LEMMA SlotPlaced ==
  ASSUME TypeInv, PlaceInv, NEW o \in Operators,
         \/ Pull(o) \/ RemoveStale(o) \/ Create(o) \/ CreateFails(o) \/ GatePass(o)
         \/ GateUnhealthy(o) \/ GateLost(o) \/ Teardown(o) \/ StillLive(o)
  PROVE  PlaceInv'
<1> USE DEF Labels, Restarting, Preparing
<1>1. pc[o] \in Preparing /\ pc[o] # "idle" /\ UNCHANGED <<conf, bak>> /\ job[o] \in Jobs
  BY DEF Pull, RemoveStale, Create, CreateFails, GatePass, GateUnhealthy, GateLost,
     Teardown, StillLive, host, TypeInv, TypeOK, RunTypeOK
<1>2. CASE ScriptFailed(o) \/ \E code : Exit(o, code)
  BY <1>1, <1>2, ScriptFailedPlaced, ExitPlaced
<1>3. CASE GatePass(o)
  <2>1. /\ pc[o] = "gate" /\ Moves(o) /\ pc'[o] = "install" /\ UNCHANGED host
        /\ job'[o] = [job[o] EXCEPT !.status = "success", !.attempt = 1]
    BY <1>3 DEF GatePass, ContinueWith, Goto, Moves, TypeInv, TypeOK, RunTypeOK
  <2>2. job[o].kind # "failover" /\ job[o].current = conf /\ job[o].target = InactiveColor(conf)
    BY <2>1, NotFailover DEF DeployPlaced
  <2>3. /\ job'[o].kind = job[o].kind /\ job'[o].current = job[o].current
        /\ job'[o].target = job[o].target /\ job'[o].tag = job[o].tag
    BY <1>1, <2>1 DEF Jobs
  <2>4. Serving(job[o].target) /\ slot[job[o].target].tag = job[o].tag
    BY <1>3 DEF GatePass, Healthy
  <2>5. DeployPlaced(o)'
    BY <2>1, <2>2, <2>3, <2>4
    DEF DeployPlaced, Switching, Switched, host, InactiveColor, Serving
  <2> QED
    BY <1>1, <2>1, <2>2, <2>3, <2>5, OthersStay DEF Placed
<1>4. CASE \/ pc[o] = "pull" /\ Continue(o, "remove")
           \/ pc[o] = "remove" /\ Continue(o, "create")
  BY <1>1, <1>4, PrepareOn
<1>5. CASE job[o].kind # "failover" /\ Continue(o, "gate")
  BY <1>1, <1>5, PrepareOn
<1>6. CASE /\ pc[o] \in {"gate", "teardown", "still_live"}
           /\ \E label \in {"teardown", "still_live", "hist_read"} : Continue(o, label)
  BY <1>1, <1>6, NotFailover, PrepareOn
<1> QED
  BY <1>2, <1>3, <1>4, <1>5, <1>6
  DEF Pull, RemoveStale, Create, CreateFails, GateUnhealthy, GateLost, Teardown, StillLive,
      Return

\* The switch, and the container drained after it.
LEMMA SwitchPlaced ==
  ASSUME TypeInv, PlaceInv, NEW o \in Operators,
         \/ Install(o) \/ ConfigAccepted(o) \/ ConfigRejected(o) \/ Reload(o)
         \/ ReloadFails(o) \/ Drain(o)
  PROVE  PlaceInv'
<1> USE DEF Restarting, Preparing, Switching, Switched
<1>1. pc[o] \in {"install"} \cup Switching \cup {"drain"} /\ pc[o] # "idle" /\ job[o] \in Jobs
  BY DEF Install, ConfigAccepted, ConfigRejected, Reload, ReloadFails, Drain, TypeInv,
     TypeOK, RunTypeOK
<1>2. job[o].kind # "failover" /\ DeployPlaced(o)
  BY <1>1, NotFailover
<1>3. CASE \E code : Exit(o, code)
  BY <1>1, <1>3, ExitPlaced
<1>4. CASE Install(o)
  <2>1. /\ pc[o] = "install" /\ Moves(o) /\ pc'[o] = "test"
        /\ job'[o] = [job[o] EXCEPT !.backup = conf # NoColor]
        /\ conf' = job[o].target /\ slot' = slot /\ (conf # NoColor => bak' = conf)
    BY <1>4 DEF Install, ContinueWith, Goto, Moves, TypeInv, TypeOK, RunTypeOK
  <2>2. /\ job'[o].kind = job[o].kind /\ job'[o].current = job[o].current
        /\ job'[o].target = job[o].target /\ job'[o].tag = job[o].tag
        /\ job'[o].backup = (conf # NoColor)
    BY <1>1, <2>1 DEF Jobs
  <2>3. job[o].current = conf /\ job[o].target # conf
    BY <1>2, <2>1 DEF DeployPlaced, InactiveColor
  <2>4. DeployPlaced(o)'
    BY <1>2, <2>1, <2>2, <2>3 DEF DeployPlaced, Serving
  <2> QED
    BY <1>1, <1>2, <2>1, <2>2, <2>4, OthersStay DEF Placed
<1>5. CASE ConfigAccepted(o)
  BY <1>1, <1>5, ContinuePlaced DEF ConfigAccepted, SamePhase, Labels
<1>6. CASE Reload(o) /\ Continue(o, AfterSwitch(o))
  <2>1. /\ pc[o] = "reload" /\ Moves(o) /\ pc'[o] \in Switched /\ job'[o] = job[o]
        /\ UNCHANGED <<conf, bak, slot>>
    BY <1>6 DEF Reload, Continue, Goto, AfterSwitch, Moves, TypeInv, TypeOK, RunTypeOK
  <2>2. DeployPlaced(o)'
    BY <1>2, <2>1 DEF DeployPlaced, Serving
  <2> QED
    BY <1>1, <1>2, <2>1, <2>2, OthersStay DEF Placed
<1>7. CASE Drain(o) /\ Continue(o, "last_good")
  <2>1. /\ pc[o] = "drain" /\ Moves(o) /\ pc'[o] = "last_good" /\ job'[o] = job[o]
        /\ UNCHANGED <<conf, bak>>
    BY <1>7 DEF Drain, Continue, Goto, Moves, TypeInv, TypeOK, RunTypeOK
  <2>2. job[o].current # job[o].target /\ job[o].target \in Colors
    BY <1>2, <2>1 DEF DeployPlaced, TypeInv, Chosen, SlotLabels
  <2>3. slot'[job[o].target] = slot[job[o].target]
    BY <1>7, <2>2 DEF Drain, Stop, SetSlot, TypeInv, TypeOK, HostTypeOK
  <2>4. DeployPlaced(o)'
    BY <1>2, <2>1, <2>3 DEF DeployPlaced, Serving
  <2> QED
    BY <1>1, <1>2, <2>1, <2>4, OthersStay DEF Placed
<1> QED
  BY <1>3, <1>4, <1>5, <1>6, <1>7 DEF ConfigRejected, Reload, ReloadFails, Drain, Return

LEMMA StepPlaced == ASSUME TypeInv, PlaceInv, NEW o \in Operators, Step(o) PROVE PlaceInv'
  BY ReadsPlaced, ChoicePlaced, SlotPlaced, SwitchPlaced DEF Step

LEMMA BreakOffPlaced ==
  ASSUME TypeInv, PlaceInv, NEW o \in Operators, BreakOff(o)
  PROVE  PlaceInv'
<1>1. pc[o] # "idle" /\ \E code : Exit(o, code)
  BY DEF BreakOff, S3Raises, SshFails, Killed, S3Reads, RemoteSteps
<1> QED
  BY <1>1, ExitPlaced

LEMMA StartPlaced ==
  ASSUME TypeInv, PlaceInv, Exclusive, NEW o \in Operators, StartRun(o)
  PROVE  PlaceInv'
<1>1. PICK k \in Kinds, t \in Tags \cup {NoTag}, label \in {"active", "live", "fo_active"} :
         Start(o, k, t, label) /\ (label = "fo_active" <=> k = "failover")
  BY DEF StartRun, StartDeploy, StartRollback, StartFailover, Start, MayStart
<1>2. job'[o] = [NoJob EXCEPT !.kind = k, !.tag = t]
  BY <1>1 DEF Start, TypeInv, TypeOK, RunTypeOK
<1>3. job'[o].kind = k
  BY <1>2 DEF NoJob
<1>4. /\ pc'[o] = label
      /\ \A p \in Operators \ {o} : pc[p] = "idle" /\ pc'[p] = "idle" /\ job'[p] = job[p]
  BY <1>1 DEF Start, MayStart, Goto, TypeInv, TypeOK, RunTypeOK
<1>5. Alone'
  BY <1>4 DEF Alone
<1>6. Placed(o)'
  BY <1>1, <1>3, <1>4
  DEF Placed, FailoverPlaced, DeployPlaced, Restarting, Preparing, Switching, Switched
<1>7. \A p \in Operators \ {o} : Placed(p)'
  BY <1>4 DEF PlaceInv, Placed, FailoverPlaced, DeployPlaced, Restarting, Preparing,
     Switching, Switched
<1> QED
  BY <1>5, <1>6, <1>7 DEF PlaceInv

LEMMA InitPlaced == Init => PlaceInv
  BY DEF Init, PlaceInv, Alone, Placed, DeployPlaced, NoJob, Preparing, Switching, Switched

LEMMA NextPlaced ==
  ASSUME TypeInv, PlaceInv, Exclusive, [Next]_vars
  PROVE  PlaceInv'
<1>1. CASE \E o \in Operators : StartRun(o)
  BY <1>1, StartPlaced
<1>2. CASE \E o \in Operators : Step(o)
  BY <1>2, StepPlaced
<1>3. CASE \E o \in Operators : BreakOff(o)
  BY <1>3, BreakOffPlaced
<1>4. CASE NginxRestart \/ UNCHANGED vars
  BY <1>4 DEF NginxRestart, vars, host, PlaceInv, Alone, Placed, FailoverPlaced,
     DeployPlaced, Serving
<1> QED
  BY <1>1, <1>2, <1>3, <1>4 DEF Next

-----------------------------------------------------------------------------
(* What a run reports and records *)

Appending == {"hist_read", "hist_write"}

\* A run that says success is past the gate; from the reload on nginx routes to
\* the container it started, and from the record on last-good names its tag.
\* What it read of the ledger is still what the ledger says.
Reports(o) ==
  /\ job[o].status = "success" =>
       pc[o] \in {"install"} \cup Switching \cup Switched \cup Appending
  /\ pc[o] \in Switched \/ (pc[o] \in Appending /\ job[o].status = "success") =>
       /\ proxy = job[o].target /\ conf = proxy
       /\ Serving(proxy) /\ slot[proxy].tag = job[o].tag
  /\ pc[o] \in Appending /\ job[o].status = "success" => lastGood = job[o].tag
  /\ pc[o] \in {"pick", "hist_write"} => job[o].seen = history
  /\ pc[o] \in {"past", "pick"} /\ job[o].live # NoTag => lastGood \in {NoTag, job[o].live}

\* Successes are recorded after last-good.
SuccessIsNamed ==
  (\E i \in DOMAIN history : history[i].status = "success") => lastGood # NoTag

ReportInv == SuccessIsNamed /\ \A o \in Operators : Reports(o)

LEMMA ReportOthers ==
  ASSUME TypeInv, PlaceInv, ReportInv, NEW o \in Operators, pc[o] # "idle",
         Moves(o), Reports(o)'
  PROVE  \A p \in Operators : Reports(p)'
<1>1. \A p \in Operators \ {o} : pc[p] = "idle"
  BY DEF PlaceInv, Alone
<1>2. \A p \in Operators \ {o} : pc'[p] = "idle" /\ job'[p].status # "success"
  BY <1>1 DEF Moves, ReportInv, Reports, Switching, Switched, Appending
<1>3. \A p \in Operators \ {o} : Reports(p)'
  BY <1>2 DEF Reports, Switching, Switched, Appending
<1> QED
  BY <1>3

LEMMA ExitReports ==
  ASSUME TypeInv, PlaceInv, ReportInv, NEW o \in Operators, pc[o] # "idle",
         NEW code, Exit(o, code)
  PROVE  \A p \in Operators : Reports(p)'
<1>1. Moves(o) /\ pc'[o] = "idle" /\ job'[o] = NoJob
  BY DEF TypeInv, TypeOK, RunTypeOK, Exit, Moves
<1>2. NoJob.status = "failed"
  BY DEF NoJob
<1>3. Reports(o)'
  BY <1>1, <1>2 DEF Reports, Switching, Switched, Appending
<1> QED
  BY <1>1, <1>3, ReportOthers

LEMMA ScriptFailedReports ==
  ASSUME TypeInv, PlaceInv, ReportInv, NEW o \in Operators, pc[o] # "idle", ScriptFailed(o)
  PROVE  \A p \in Operators : Reports(p)'
  BY ExitReports DEF ScriptFailed

\* Steps before the switch: nothing is claimed yet.
Claimless(label) ==
  label \notin Switched \cup Appending \cup {"past", "pick"}

LEMMA ContinueReports ==
  ASSUME TypeInv, PlaceInv, ReportInv, NEW o \in Operators, pc[o] # "idle",
         NEW label, Continue(o, label), Claimless(label),
         job[o].status = "success" => label \in {"install"} \cup Switching
  PROVE  \A p \in Operators : Reports(p)'
<1>1. Moves(o) /\ pc'[o] = label /\ job'[o] = job[o]
  BY DEF TypeInv, TypeOK, RunTypeOK, Continue, Goto, Moves
<1>2. Reports(o)'
  BY <1>1 DEF Reports, Claimless, Switching, Switched, Appending
<1> QED
  BY <1>1, <1>2, ReportOthers

LEMMA ContinueWithReports ==
  ASSUME TypeInv, PlaceInv, ReportInv, NEW o \in Operators, pc[o] # "idle",
         NEW label, NEW j, ContinueWith(o, label, j), Claimless(label),
         j.status = "success" => label \in {"install"} \cup Switching
  PROVE  \A p \in Operators : Reports(p)'
<1>1. Moves(o) /\ pc'[o] = label /\ job'[o] = j
  BY DEF TypeInv, TypeOK, RunTypeOK, ContinueWith, Goto, Moves
<1>2. Reports(o)'
  BY <1>1 DEF Reports, Claimless, Switching, Switched, Appending
<1> QED
  BY <1>1, <1>2, ReportOthers

\* What append_history writes ends with the new entry; the others were read.
LEMMA AppendedEntries ==
  ASSUME TypeInv, NEW o \in Operators, job[o].tag \in Tags
  PROVE  LET e == [tag |-> job[o].tag, status |-> job[o].status]
         IN /\ Appended(o)[Len(Appended(o))] = e
            /\ \A i \in DOMAIN Appended(o) :
                 Appended(o)[i] = e \/ \E k \in DOMAIN job[o].seen : Appended(o)[i] = job[o].seen[k]
<1> DEFINE e == [tag |-> job[o].tag, status |-> job[o].status]
           h == Append(job[o].seen, e)
<1>1. job[o].seen \in Seq(Entries) /\ e \in Entries
  BY DEF TypeInv, TypeOK, RunTypeOK, Jobs, Entries
<1>2. h \in Seq(Entries) /\ Len(h) \in Nat \ {0} /\ h[Len(h)] = e
  BY <1>1
<1>3. \A k \in DOMAIN h : h[k] = e \/ \E i \in DOMAIN job[o].seen : h[k] = job[o].seen[i]
  BY <1>1
<1>4. \A i \in DOMAIN Truncated(h) : \E k \in DOMAIN h : Truncated(h)[i] = h[k]
  BY <1>2, TruncatedType
<1> HIDE DEF h, e
<1>5. Truncated(h)[Len(Truncated(h))] = h[Len(h)]
  <2>1. CASE Len(h) <= MaxHistory
    BY <1>2, <2>1, BoundsAssumption DEF Truncated
  <2>2. CASE Len(h) > MaxHistory
    <3> DEFINE m == Len(h) - MaxHistory + 1
    <3>1. Truncated(h) = SubSeq(h, m, Len(h)) /\ m \in 1..Len(h)
      BY <1>2, <2>2, BoundsAssumption DEF Truncated
    <3>2. SubSeq(h, m, Len(h)) = [i \in 1..MaxHistory |-> h[i + m - 1]]
      BY <1>2, <3>1, BoundsAssumption
    <3>3. Len(SubSeq(h, m, Len(h))) = MaxHistory
      BY <3>2, BoundsAssumption
    <3>4. SubSeq(h, m, Len(h))[MaxHistory] = h[MaxHistory + m - 1]
      BY <3>2, BoundsAssumption
    <3>5. MaxHistory + m - 1 = Len(h)
      BY <1>2, BoundsAssumption
    <3> QED
      BY <3>1, <3>3, <3>4, <3>5
  <2> QED
    BY <1>2, <2>1, <2>2, BoundsAssumption
<1>6. Appended(o) = Truncated(h)
  BY DEF Appended, h, e
<1> QED
  BY <1>2, <1>3, <1>4, <1>5, <1>6 DEF e

\* The steps that neither touch the ledger nor follow the reload.
LEMMA StepBefore ==
  ASSUME TypeInv, PlaceInv, ReportInv, NEW o \in Operators, Step(o),
         ~(CheckLedger(o) \/ ReadPast(o) \/ StillLive(o) \/ Reload(o) \/ Drain(o)),
         ~(RecordLastGood(o) \/ LedgerError(o) \/ ReadHistory(o) \/ WriteHistory(o))
  PROVE  ReportInv'
<1> USE DEF Claimless, Switching, Switched, Appending
<1>1. UNCHANGED ledger
  BY DEF Step, ReadLive, PickPrevious, InspectActive, InspectImage, ReadActive,
     ReadInactive, Pull, RemoveStale, Create, CreateFails, GatePass, GateMiss,
     GateUnhealthy, GateLost, Teardown, Install, ConfigAccepted, ConfigRejected,
     ReloadFails
<1>2. job[o] \in Jobs
  BY DEF TypeInv, TypeOK, RunTypeOK
<1>3. CASE ReadLive(o) \/ ReadActive(o) \/ ReadInactive(o) \/ PickPrevious(o)
           \/ InspectActive(o) \/ InspectImage(o)
  <2>1. pc[o] \in {"live", "active", "inactive", "pick", "fo_active", "fo_inspect"}
        /\ job[o].status # "success"
    BY <1>3 DEF ReadLive, ReadActive, ReadInactive, PickPrevious, InspectActive,
       InspectImage, ReportInv, Reports
  <2>2. \/ \E code \in ExitCodes : Exit(o, code)
        \/ \E label \in {"recorded", "inactive", "pull", "active", "fo_inspect"} : \E j :
             ContinueWith(o, label, j) /\ j.status = job[o].status
    <3>1. CASE ReadLive(o)
      <4>1. PICK v : ContinueWith(o, "recorded", [job[o] EXCEPT !.live = v])
        BY <3>1 DEF ReadLive
      <4>2. [job[o] EXCEPT !.live = v].status = job[o].status
        BY <1>2 DEF Jobs
      <4> QED
        BY <4>1, <4>2
    <3>2. CASE ReadActive(o) \/ ReadInactive(o)
      <4>1. \/ ContinueWith(o, "inactive", [job[o] EXCEPT !.current = conf])
            \/ ContinueWith(o, "pull", [job[o] EXCEPT !.target = InactiveColor(conf)])
        BY <3>2 DEF ReadActive, ReadInactive
      <4>2. /\ [job[o] EXCEPT !.current = conf].status = job[o].status
            /\ [job[o] EXCEPT !.target = InactiveColor(conf)].status = job[o].status
        BY <1>2 DEF Jobs
      <4> QED
        BY <4>1, <4>2
    <3>3. CASE PickPrevious(o)
      <4>1. \/ Exit(o, Precondition)
            \/ \E i \in Candidates(o) : ContinueWith(o, "active",
                 [job[o] EXCEPT !.tag = job[o].seen[i].tag, !.seen = << >>])
        BY <3>3 DEF PickPrevious
      <4>2. \A i : [job[o] EXCEPT !.tag = job[o].seen[i].tag, !.seen = << >>].status
                     = job[o].status
        BY <1>2 DEF Jobs
      <4> QED
        BY <4>1, <4>2 DEF ExitCodes
    <3>4. CASE InspectActive(o) \/ InspectImage(o)
      <4>1. \/ Exit(o, Deployed)
            \/ ContinueWith(o, "fo_inspect", [job[o] EXCEPT !.current = conf, !.target = conf])
            \/ ContinueWith(o, "pull", [job[o] EXCEPT !.tag = slot[job[o].current].tag])
        BY <3>4 DEF InspectActive, InspectImage
      <4>2. /\ [job[o] EXCEPT !.current = conf, !.target = conf].status = job[o].status
            /\ [job[o] EXCEPT !.tag = slot[job[o].current].tag].status = job[o].status
        BY <1>2 DEF Jobs
      <4> QED
        BY <4>1, <4>2 DEF ExitCodes
    <3> QED
      BY <1>3, <3>1, <3>2, <3>3, <3>4
  <2>3. \A p \in Operators : Reports(p)'
    BY <2>1, <2>2, ExitReports, ContinueWithReports
  <2> QED
    BY <1>1, <2>3 DEF ReportInv, SuccessIsNamed, ledger
<1>4. CASE Pull(o) \/ RemoveStale(o) \/ Create(o) \/ CreateFails(o)
           \/ GateUnhealthy(o) \/ GateLost(o) \/ Teardown(o)
  <2>1. pc[o] \in Preparing \ {"install"} /\ job[o].status # "success"
    BY <1>4 DEF Pull, RemoveStale, Create, CreateFails, GateUnhealthy, GateLost, Teardown,
       ReportInv, Reports, Preparing
  <2>2. \/ \E code \in ExitCodes : Exit(o, code)
        \/ \E label \in {"remove", "create", "gate", "teardown", "still_live"} : Continue(o, label)
    BY <1>4 DEF Pull, RemoveStale, Create, CreateFails, GateUnhealthy, GateLost, Teardown,
       ScriptFailed, Return, ExitCodes
  <2>3. \A p \in Operators : Reports(p)'
    BY <2>1, <2>2, ExitReports, ContinueReports DEF Preparing
  <2> QED
    BY <1>1, <2>3 DEF ReportInv, SuccessIsNamed, ledger
<1>5. CASE GatePass(o) \/ GateMiss(o)
  <2>1. pc[o] = "gate" /\ job[o].status # "success"
    BY <1>5 DEF GatePass, GateMiss, ReportInv, Reports
  <2>2. \/ ContinueWith(o, "install", [job[o] EXCEPT !.status = "success", !.attempt = 1])
        \/ ContinueWith(o, "gate", [job[o] EXCEPT !.attempt = @ + 1])
    BY <1>5 DEF GatePass, GateMiss
  <2>3. [job[o] EXCEPT !.attempt = @ + 1].status = job[o].status
    BY <1>2 DEF Jobs
  <2>4. \A p \in Operators : Reports(p)'
    BY <2>1, <2>2, <2>3, ContinueWithReports
  <2> QED
    BY <1>1, <2>4 DEF ReportInv, SuccessIsNamed, ledger
<1>6. CASE Install(o) \/ ConfigAccepted(o) \/ ConfigRejected(o) \/ ReloadFails(o)
  <2>1. pc[o] \in {"install", "test", "reload"}
    BY <1>6 DEF Install, ConfigAccepted, ConfigRejected, ReloadFails
  <2>2. \/ Exit(o, Precondition) \/ Continue(o, "reload")
        \/ \E j : ContinueWith(o, "test", j)
    BY <1>6 DEF Install, ConfigAccepted, ConfigRejected, ReloadFails
  <2>3. \A p \in Operators : Reports(p)'
    BY <2>1, <2>2, ExitReports, ContinueReports, ContinueWithReports
  <2> QED
    BY <1>1, <2>3 DEF ReportInv, SuccessIsNamed, ledger
<1> QED
  BY <1>3, <1>4, <1>5, <1>6 DEF Step

\* rollback.py: what the ledger says of the live version.
LEMMA StepRead ==
  ASSUME TypeInv, PlaceInv, ReportInv, NEW o \in Operators, CheckLedger(o) \/ ReadPast(o)
  PROVE  ReportInv'
<1> USE DEF Switching, Switched, Appending
<1>1. UNCHANGED <<host, ledger>> /\ pc[o] \in {"recorded", "past"} /\ job[o] \in Jobs
  BY DEF CheckLedger, ReadPast, TypeInv, TypeOK, RunTypeOK
<1>2. job[o].status # "success"
  BY <1>1 DEF ReportInv, Reports
<1>3. CASE Exit(o, Precondition) \/ Continue(o, "active")
  BY <1>1, <1>2, <1>3, ExitReports, ContinueReports DEF Claimless, ReportInv,
     SuccessIsNamed, ledger
<1>4. CASE pc[o] = "recorded" /\ ~StaleLedger(o) /\ Continue(o, "past")
  <2>1. Moves(o) /\ pc'[o] = "past" /\ job'[o] = job[o]
    BY <1>4 DEF TypeInv, TypeOK, RunTypeOK, Continue, Goto, Moves
  <2>2. Reports(o)'
    BY <1>1, <1>2, <1>4, <2>1 DEF Reports, StaleLedger, ledger
  <2> QED
    BY <1>1, <2>1, <2>2, ReportOthers DEF ReportInv, SuccessIsNamed, ledger
<1>5. CASE ReadPast(o)
  <2>1. Moves(o) /\ pc'[o] = "pick" /\ job'[o] = [job[o] EXCEPT !.seen = history]
    BY <1>5 DEF ReadPast, TypeInv, TypeOK, RunTypeOK, ContinueWith, Goto, Moves
  <2>2. job'[o].seen = history /\ job'[o].live = job[o].live /\ job'[o].status # "success"
    BY <1>1, <1>2, <2>1 DEF Jobs
  <2>3. job[o].live # NoTag => lastGood \in {NoTag, job[o].live}
    BY <1>5 DEF ReadPast, ReportInv, Reports
  <2>4. Reports(o)'
    BY <1>1, <2>1, <2>2, <2>3 DEF Reports, ledger
  <2> QED
    BY <1>1, <2>1, <2>4, ReportOthers DEF ReportInv, SuccessIsNamed, ledger
<1> QED
  BY <1>3, <1>4, <1>5 DEF CheckLedger

\* The switch itself, and the container drained after it.
LEMMA StepSwitched ==
  ASSUME TypeInv, PlaceInv, ReportInv, NEW o \in Operators,
         StillLive(o) \/ Reload(o) \/ Drain(o)
  PROVE  ReportInv'
<1> USE DEF Switching, Switched, Appending
<1>1. UNCHANGED <<conf, ledger>> /\ pc[o] \in {"still_live", "reload", "drain"}
  BY DEF StillLive, Reload, Drain, host
<1>2. CASE \E code \in ExitCodes : Exit(o, code)
  BY <1>1, <1>2, ExitReports DEF ReportInv, SuccessIsNamed, ledger
<1>3. CASE StillLive(o)
  <2>1. Moves(o) /\ pc'[o] = "hist_read" /\ job'[o] = job[o] /\ job[o].status # "success"
    BY <1>3 DEF StillLive, TypeInv, TypeOK, RunTypeOK, Continue, Goto, Moves, ReportInv, Reports
  <2>2. Reports(o)'
    BY <2>1 DEF Reports
  <2> QED
    BY <1>1, <2>1, <2>2, ReportOthers DEF ReportInv, SuccessIsNamed, ledger
<1>4. CASE Reload(o) /\ Continue(o, AfterSwitch(o))
  <2>1. Moves(o) /\ pc'[o] \in Switched /\ job'[o] = job[o]
    BY <1>4 DEF TypeInv, TypeOK, RunTypeOK, Continue, Goto, Moves, AfterSwitch
  <2>2. /\ proxy' = conf /\ UNCHANGED <<conf, slot>> /\ conf = job[o].target
        /\ Serving(job[o].target) /\ slot[job[o].target].tag = job[o].tag
    BY <1>4, NotFailover DEF Reload, DeployPlaced, Restarting
  <2>3. Reports(o)'
    BY <2>1, <2>2 DEF Reports, Serving
  <2> QED
    BY <1>1, <1>4, <2>1, <2>3, ReportOthers DEF ReportInv, SuccessIsNamed, ledger
<1>5. CASE Drain(o) /\ Continue(o, "last_good")
  <2>1. Moves(o) /\ pc'[o] = "last_good" /\ job'[o] = job[o]
    BY <1>5 DEF TypeInv, TypeOK, RunTypeOK, Continue, Goto, Moves
  <2>2. job[o].current # job[o].target /\ job[o].target \in Colors /\ pc[o] = "drain"
    BY <1>5, NotFailover DEF Drain, DeployPlaced, Restarting, TypeInv, Chosen, SlotLabels
  <2>3. slot'[job[o].target] = slot[job[o].target] /\ proxy' = proxy
    BY <1>5, <2>2 DEF Drain, Stop, SetSlot, TypeInv, TypeOK, HostTypeOK
  <2>4. Reports(o)'
    BY <1>1, <2>1, <2>2, <2>3 DEF ReportInv, Reports, Serving
  <2> QED
    BY <1>1, <2>1, <2>2, <2>4, ReportOthers DEF ReportInv, SuccessIsNamed, ledger
<1> QED
  BY <1>2, <1>3, <1>4, <1>5 DEF Reload, Drain, Return, ExitCodes

LEMMA StepRecords ==
  ASSUME TypeInv, PlaceInv, ReportInv, NEW o \in Operators,
         RecordLastGood(o) \/ LedgerError(o) \/ ReadHistory(o)
  PROVE  ReportInv'
<1> USE DEF Switching, Switched, Appending
<1>1. UNCHANGED <<host, history>> /\ pc[o] \in {"last_good", "hist_read"} /\ job[o] \in Jobs
  BY DEF RecordLastGood, LedgerError, ReadHistory, ledger, TypeInv, TypeOK, RunTypeOK
<1>2. job[o].tag \in Tags
  BY <1>1 DEF TypeInv, Chosen, SlotLabels
<1>3. SuccessIsNamed'
  <2>1. lastGood' \in {lastGood, job[o].tag}
    BY DEF RecordLastGood, LedgerError, ReadHistory, ledger
  <2> QED
    BY <1>1, <1>2, <2>1, TagsAssumption DEF ReportInv, SuccessIsNamed
<1>4. CASE \E code \in ExitCodes : Exit(o, code)
  BY <1>1, <1>3, <1>4, ExitReports DEF ReportInv
<1>5. CASE RecordLastGood(o)
  <2>1. Moves(o) /\ pc'[o] = "hist_read" /\ job'[o] = job[o] /\ lastGood' = job[o].tag
        /\ pc[o] = "last_good"
    BY <1>5 DEF RecordLastGood, TypeInv, TypeOK, RunTypeOK, Continue, Goto, Moves
  <2>2. Reports(o)'
    BY <1>1, <2>1 DEF ReportInv, Reports, host, Serving
  <2> QED
    BY <1>3, <2>1, <2>2, ReportOthers DEF ReportInv
<1>6. CASE LedgerError(o) /\ ContinueWith(o, "last_good", [job[o] EXCEPT !.attempt = @ + 1])
  <2>1. Moves(o) /\ pc'[o] = "last_good" /\ job'[o] = [job[o] EXCEPT !.attempt = @ + 1]
        /\ pc[o] = "last_good"
    BY <1>6 DEF LedgerError, TypeInv, TypeOK, RunTypeOK, ContinueWith, Goto, Moves
  <2>2. job'[o].target = job[o].target /\ job'[o].tag = job[o].tag
    BY <1>1, <2>1 DEF Jobs
  <2>3. Reports(o)'
    BY <1>1, <2>1, <2>2 DEF ReportInv, Reports, host, Serving
  <2> QED
    BY <1>3, <2>1, <2>3, ReportOthers DEF ReportInv
<1>7. CASE ReadHistory(o)
  <2>1. Moves(o) /\ pc'[o] = "hist_write" /\ job'[o] = [job[o] EXCEPT !.seen = history]
        /\ pc[o] = "hist_read" /\ lastGood' = lastGood
    BY <1>7 DEF ReadHistory, ledger, TypeInv, TypeOK, RunTypeOK, ContinueWith, Goto, Moves
  <2>2. job'[o].target = job[o].target /\ job'[o].tag = job[o].tag
        /\ job'[o].status = job[o].status /\ job'[o].seen = history
    BY <1>1, <2>1 DEF Jobs
  <2>3. Reports(o)'
    BY <1>1, <2>1, <2>2 DEF ReportInv, Reports, host, Serving
  <2> QED
    BY <1>3, <2>1, <2>3, ReportOthers DEF ReportInv
<1> QED
  BY <1>4, <1>5, <1>6, <1>7 DEF LedgerError, ExitCodes, Raised

\* The write of the history ends the run.
LEMMA StepAppends ==
  ASSUME TypeInv, PlaceInv, ReportInv, NEW o \in Operators, WriteHistory(o)
  PROVE  ReportInv'
<1>1. pc[o] = "hist_write" /\ history' = Appended(o) /\ lastGood' = lastGood
  BY DEF WriteHistory
<1>2. job[o].tag \in Tags /\ job[o].seen = history
  BY <1>1 DEF TypeInv, Chosen, SlotLabels, ReportInv, Reports
<1>3. job[o].status = "success" => lastGood # NoTag
  BY <1>1, <1>2, TagsAssumption DEF ReportInv, Reports, Appending
<1>4. SuccessIsNamed'
  <2>1. \A i \in DOMAIN Appended(o) :
          \/ Appended(o)[i] = [tag |-> job[o].tag, status |-> job[o].status]
          \/ \E k \in DOMAIN history : Appended(o)[i] = history[k]
    BY <1>2, AppendedEntries
  <2> QED
    BY <1>1, <1>3, <2>1 DEF ReportInv, SuccessIsNamed
<1>5. \A p \in Operators : Reports(p)'
  BY <1>1, ExitReports DEF WriteHistory
<1> QED
  BY <1>4, <1>5 DEF ReportInv

LEMMA StartReports ==
  ASSUME TypeInv, PlaceInv, ReportInv, Exclusive, NEW o \in Operators, StartRun(o)
  PROVE  ReportInv'
<1>1. PICK k \in Kinds, t \in Tags \cup {NoTag}, label \in {"active", "live", "fo_active"} :
         Start(o, k, t, label)
  BY DEF StartRun, StartDeploy, StartRollback, StartFailover, Start, MayStart
<1> DEFINE j == [NoJob EXCEPT !.kind = k, !.tag = t]
<1>2. j.status = "failed"
  BY DEF NoJob
<1> HIDE DEF j
<1>3. /\ pc'[o] = label /\ job'[o] = j /\ UNCHANGED <<host, ledger>>
      /\ \A p \in Operators \ {o} : pc[p] = "idle" /\ pc'[p] = "idle" /\ job'[p] = job[p]
  BY <1>1 DEF Start, MayStart, Goto, TypeInv, TypeOK, RunTypeOK, j
<1>4. Reports(o)'
  BY <1>2, <1>3 DEF Reports, Switching, Switched, Appending
<1>5. \A p \in Operators \ {o} : Reports(p)'
  BY <1>3 DEF ReportInv, Reports, Switching, Switched, Appending
<1> QED
  BY <1>3, <1>4, <1>5 DEF ReportInv, SuccessIsNamed, ledger

RunInv == TypeInv /\ PlaceInv /\ ReportInv

LEMMA InitRun == Init => RunInv
<1>1. Init => ReportInv
  BY DEF Init, ReportInv, SuccessIsNamed, Reports, NoJob, Switching, Switched, Appending
<1> QED
  BY <1>1, InitTypeInv, InitPlaced DEF RunInv

LEMMA NextReports ==
  ASSUME RunInv, Exclusive, [Next]_vars
  PROVE  ReportInv'
<1> USE DEF RunInv
<1>1. ASSUME NEW o \in Operators, Step(o) PROVE ReportInv'
  BY <1>1, StepBefore, StepRead, StepSwitched, StepRecords, StepAppends
<1>2. ASSUME NEW o \in Operators, BreakOff(o) PROVE ReportInv'
  <2>1. UNCHANGED <<host, ledger>> /\ pc[o] # "idle" /\ \E code : Exit(o, code)
    BY <1>2 DEF BreakOff, S3Raises, SshFails, Killed, S3Reads, RemoteSteps
  <2> QED
    BY <2>1, ExitReports DEF ReportInv, SuccessIsNamed, ledger
<1>3. ASSUME NEW o \in Operators, StartRun(o) PROVE ReportInv'
  BY <1>3, StartReports
<1>4. CASE NginxRestart
  BY <1>4 DEF NginxRestart, ReportInv, SuccessIsNamed, Reports, ledger, Serving
<1>5. CASE UNCHANGED vars
  BY <1>5 DEF vars, host, ledger, ReportInv, SuccessIsNamed, Reports, Serving
<1> QED
  BY <1>1, <1>2, <1>3, <1>4, <1>5 DEF Next

LEMMA NextRun == Exclusive => (RunInv /\ [Next]_vars => RunInv')
  BY NextTypeInv, NextPlaced, NextReports DEF RunInv

\* The only exits with status 0 or 2, a failover's left aside.
LEMMA StepEnds ==
  ASSUME TypeInv, PlaceInv, NEW o \in Operators, Step(o), job[o].kind # "failover",
         Ends(o, Deployed) \/ Ends(o, LedgerStale)
  PROVE  \/ WriteHistory(o) /\ Exit(o, FinalCode(o)) /\ Ends(o, Deployed)
            /\ job[o].status = "success"
         \/ LedgerError(o) /\ Exit(o, LedgerStale) /\ Ends(o, LedgerStale)
<1> USE DEF Ends, Deployed, RolledBack, LedgerStale, Precondition, Raised, NoExit
<1>1. ASSUME NEW code, Exit(o, code) PROVE exit'[o] = code
  BY <1>1 DEF Exit, TypeInv, TypeOK, RunTypeOK
<1>2. exit' # exit
  OBVIOUS
<1>3. CASE WriteHistory(o)
  <2>1. job[o].status \in {"success", "failed"}
    BY DEF TypeInv, TypeOK, RunTypeOK, Jobs
  <2>2. exit'[o] \in {FinalCode(o), Raised}
    BY <1>1, <1>3 DEF WriteHistory
  <2>3. FinalCode(o) \in {Deployed, RolledBack, Precondition}
        /\ (FinalCode(o) = Deployed => job[o].status = "success")
    BY <2>1 DEF FinalCode
  <2>4. FinalCode(o) = Deployed /\ exit'[o] = Deployed
    BY <2>2, <2>3
  <2>5. Exit(o, FinalCode(o))
    BY <1>1, <1>3, <2>4 DEF WriteHistory
  <2> QED
    BY <1>3, <2>3, <2>4, <2>5
<1>4. CASE LedgerError(o)
  <2>1. ~(\E j : ContinueWith(o, "last_good", j))
    BY <1>2 DEF ContinueWith
  <2>2. Exit(o, LedgerStale) \/ Exit(o, Raised)
    BY <1>4, <2>1 DEF LedgerError
  <2> QED
    BY <1>1, <1>4, <2>2
<1>5. CASE CheckLedger(o) \/ PickPrevious(o)
  <2>1. Exit(o, Precondition) \/ exit' = exit
    BY <1>5 DEF CheckLedger, PickPrevious, Continue, ContinueWith
  <2> QED
    BY <1>1, <1>2, <2>1
<1>6. CASE InspectActive(o) \/ InspectImage(o) \/ ConfigRejected(o) \/ ReloadFails(o)
  <2>1. pc[o] \notin {"fo_active", "fo_inspect"}
    BY DEF PlaceInv, Placed, DeployPlaced
  <2>2. Exit(o, Precondition)
    BY <1>6, <2>1 DEF InspectActive, InspectImage, ConfigRejected, ReloadFails
  <2> QED
    BY <1>1, <2>2
<1>7. CASE Pull(o) \/ RemoveStale(o) \/ Create(o) \/ CreateFails(o)
  <2>2. Exit(o, Precondition) \/ exit' = exit
    BY <1>7 DEF Pull, RemoveStale, Create, CreateFails, ScriptFailed, Return, Continue
  <2> QED
    BY <1>1, <1>2, <2>2
<1>8. CASE Reload(o) \/ Drain(o)
  BY <1>1, <1>2, <1>8 DEF Reload, Drain, Return, Continue
<1>9. CASE ~(WriteHistory(o) \/ LedgerError(o) \/ CheckLedger(o) \/ PickPrevious(o)
             \/ InspectActive(o) \/ InspectImage(o) \/ ConfigRejected(o) \/ ReloadFails(o)
             \/ Pull(o) \/ RemoveStale(o) \/ Create(o) \/ CreateFails(o) \/ Reload(o) \/ Drain(o))
  BY <1>2, <1>9 DEF Step, ReadLive, ReadPast, ReadActive, ReadInactive, GatePass, GateMiss,
     GateUnhealthy, GateLost, Teardown, StillLive, Install, ConfigAccepted, RecordLastGood,
     ReadHistory, Continue, ContinueWith
<1> QED
  BY <1>3, <1>4, <1>5, <1>6, <1>7, <1>8, <1>9

LEMMA StepTellsTruth ==
  ASSUME RunInv, NEW o \in Operators, Step(o), job[o].kind # "failover",
         Ends(o, Deployed) \/ Ends(o, LedgerStale)
  PROVE  /\ proxy' = job[o].target
         /\ Serving(proxy)' /\ slot'[proxy'].tag = job[o].tag
         /\ Ends(o, Deployed) =>
              /\ lastGood' = job[o].tag
              /\ history'[Len(history')] = [tag |-> job[o].tag, status |-> "success"]
<1> USE DEF RunInv, Switched, Appending
<1>1. CASE WriteHistory(o) /\ job[o].status = "success"
  <2>1. pc[o] = "hist_write" /\ UNCHANGED <<host, lastGood>> /\ history' = Appended(o)
    BY <1>1 DEF WriteHistory
  <2>2. proxy = job[o].target /\ Serving(proxy) /\ slot[proxy].tag = job[o].tag
        /\ lastGood = job[o].tag
    BY <1>1, <2>1 DEF ReportInv, Reports
  <2>3. job[o].tag \in Tags
    BY <2>1 DEF TypeInv, Chosen, SlotLabels
  <2>4. Appended(o)[Len(Appended(o))] = [tag |-> job[o].tag, status |-> "success"]
    BY <1>1, <2>3, AppendedEntries
  <2> QED
    BY <2>1, <2>2, <2>4 DEF host, Serving
<1>2. CASE LedgerError(o) /\ Ends(o, LedgerStale)
  <2>1. pc[o] = "last_good" /\ UNCHANGED host /\ ~Ends(o, Deployed)
    BY <1>2 DEF LedgerError, Ends, Deployed, LedgerStale
  <2> QED
    BY <2>1 DEF ReportInv, Reports, host, Serving
<1> QED
  BY <1>1, <1>2, StepEnds

LEMMA RunTellsTruth ==
  ASSUME RunInv, Exclusive, [Next]_vars, NEW o \in Operators,
         Ends(o, Deployed) \/ Ends(o, LedgerStale)
  PROVE  Step(o)
<1> USE DEF RunInv, TypeInv, TypeOK, RunTypeOK
<1>1. exit'[o] \in {Deployed, LedgerStale} /\ exit'[o] # exit[o]
  BY DEF Ends, NoExit, Deployed, LedgerStale
<1>2. ASSUME NEW p \in Operators, Step(p) PROVE exit' = exit \/ \E code : exit' = [exit EXCEPT ![p] = code]
  BY <1>2 DEF Step, ReadLive, CheckLedger, ReadPast, PickPrevious, InspectActive,
     InspectImage, ReadActive, ReadInactive, Pull, RemoveStale, Create, CreateFails,
     GatePass, GateMiss, GateUnhealthy, GateLost, Teardown, StillLive, Install,
     ConfigAccepted, ConfigRejected, Reload, ReloadFails, Drain, RecordLastGood,
     LedgerError, ReadHistory, WriteHistory, ScriptFailed, Return, Exit, Continue, ContinueWith
<1>3. ASSUME NEW p \in Operators, BreakOff(p) PROVE FALSE
  <2>1. PICK code \in {Raised, Precondition, NoExit} : exit' = [exit EXCEPT ![p] = code]
    BY <1>3 DEF BreakOff, S3Raises, SshFails, Killed, Exit
  <2> QED
    BY <1>1, <2>1 DEF Deployed, LedgerStale, Raised, RolledBack, Precondition, NoExit
<1>4. ASSUME NEW p \in Operators, StartRun(p) PROVE FALSE
  <2>1. exit' = [exit EXCEPT ![p] = NoExit]
    BY <1>4 DEF StartRun, StartDeploy, StartRollback, StartFailover, Start
  <2> QED
    BY <1>1, <2>1 DEF Deployed, LedgerStale, NoExit
<1>5. exit' # exit
  BY <1>1
<1>6. ~NginxRestart /\ ~UNCHANGED vars
  BY <1>5 DEF NginxRestart, vars
<1>7. PICK p \in Operators : Step(p)
  BY <1>3, <1>4, <1>6 DEF Next
<1>8. p = o
  BY <1>1, <1>2, <1>7
<1> QED
  BY <1>7, <1>8

\* When runs do not overlap, status 0 of a deploy or a rollback means deployed
\* and recorded, and status 2 deployed and live - also if nginx restarts, a
\* reload failed before, an earlier run was cut or a failover came between.
THEOREM ExitsTellTruth == Exclusive => (Spec => ExitTellsTruth)
<1> SUFFICES ASSUME Exclusive PROVE Spec => ExitTellsTruth
  OBVIOUS
<1>1. RunInv /\ [Next]_vars => RunInv'
  BY NextRun
<1>2. RunInv /\ [Next]_vars =>
        [\A o \in Operators :
          (job[o].kind # "failover" /\ (Ends(o, Deployed) \/ Ends(o, LedgerStale)))
            => /\ proxy' = job[o].target
               /\ Serving(proxy)' /\ slot'[proxy'].tag = job[o].tag
               /\ Ends(o, Deployed) =>
                    /\ lastGood' = job[o].tag
                    /\ history'[Len(history')] = [tag |-> job[o].tag, status |-> "success"]]_vars
  <2> SUFFICES ASSUME RunInv, [Next]_vars, NEW o \in Operators, job[o].kind # "failover",
                      Ends(o, Deployed) \/ Ends(o, LedgerStale)
               PROVE  /\ proxy' = job[o].target
                      /\ Serving(proxy)' /\ slot'[proxy'].tag = job[o].tag
                      /\ Ends(o, Deployed) =>
                           /\ lastGood' = job[o].tag
                           /\ history'[Len(history')]
                                = [tag |-> job[o].tag, status |-> "success"]
    OBVIOUS
  <2> QED
    BY RunTellsTruth, StepTellsTruth
<1> QED
  BY InitRun, <1>1, <1>2, PTL DEF Spec, ExitTellsTruth

LEMMA PickLeavesLive ==
  ASSUME RunInv, NEW o \in Operators, PickPrevious(o), pc'[o] = "active",
         job[o].live # NoTag
  PROVE  job'[o].tag # job[o].live /\ lastGood = job[o].live
<1> USE DEF RunInv
<1>1. job[o] \in Jobs /\ pc[o] = "pick"
  BY DEF PickPrevious, TypeInv, TypeOK, RunTypeOK
<1>2. ~Exit(o, Precondition)
  BY DEF Exit, TypeInv, TypeOK, RunTypeOK
<1>3. PICK i \in Candidates(o) : ContinueWith(o, "active",
             [job[o] EXCEPT !.tag = job[o].seen[i].tag, !.seen = << >>])
  BY <1>2 DEF PickPrevious
<1>4. job'[o] = [job[o] EXCEPT !.tag = job[o].seen[i].tag, !.seen = << >>]
  BY <1>3 DEF ContinueWith, TypeInv, TypeOK, RunTypeOK
<1>5. job'[o].tag = job[o].seen[i].tag
  BY <1>1, <1>4 DEF Jobs
<1>6. job[o].seen = history /\ lastGood \in {NoTag, job[o].live}
  BY <1>1 DEF ReportInv, Reports
<1>7. i \in DOMAIN history /\ history[i].status = "success" /\ history[i].tag # lastGood
  BY <1>3, <1>6 DEF Candidates
<1> QED
  BY <1>5, <1>6, <1>7 DEF ReportInv, SuccessIsNamed

\* A run leaves the choice of a version only by choosing, or by ending.
LEMMA PickStep ==
  ASSUME RunInv, Exclusive, [Next]_vars, NEW o \in Operators, pc[o] = "pick",
         pc'[o] = "active"
  PROVE  PickPrevious(o)
<1> USE DEF RunInv
<1>1. \A p \in Operators : pc[p] # "idle" => p = o
  BY DEF PlaceInv, Alone
<1>2. pc' # pc
  OBVIOUS
<1>3. ASSUME NEW p \in Operators, StartRun(p) PROVE FALSE
  BY <1>3 DEF StartRun, StartDeploy, StartRollback, StartFailover, Start, MayStart
<1>4. ASSUME NEW p \in Operators, BreakOff(p) PROVE FALSE
  <2>1. p = o /\ \E code : Exit(p, code)
    BY <1>1, <1>4 DEF BreakOff, S3Raises, SshFails, Killed, S3Reads, RemoteSteps
  <2> QED
    BY <2>1 DEF Exit, TypeInv, TypeOK, RunTypeOK
<1>5. ~NginxRestart /\ ~UNCHANGED vars
  BY <1>2 DEF NginxRestart, vars
<1>6. PICK p \in Operators : Step(p)
  BY <1>3, <1>4, <1>5 DEF Next
<1>7. p = o
  BY <1>1, <1>6 DEF Step, ReadLive, CheckLedger, ReadPast, PickPrevious, InspectActive,
     InspectImage, ReadActive, ReadInactive, Pull, RemoveStale, Create, CreateFails,
     GatePass, GateMiss, GateUnhealthy, GateLost, Teardown, StillLive, Install,
     ConfigAccepted, ConfigRejected, Reload, ReloadFails, Drain, RecordLastGood,
     LedgerError, ReadHistory, WriteHistory
<1> QED
  BY <1>6, <1>7 DEF Step, ReadLive, CheckLedger, ReadPast, InspectActive,
     InspectImage, ReadActive, ReadInactive, Pull, RemoveStale, Create, CreateFails,
     GatePass, GateMiss, GateUnhealthy, GateLost, Teardown, StillLive, Install,
     ConfigAccepted, ConfigRejected, Reload, ReloadFails, Drain, RecordLastGood,
     LedgerError, ReadHistory, WriteHistory

\* When runs do not overlap, rollback.py without --tag never goes back to the
\* version it saw live, and never picks by a ledger that names another one.
THEOREM RollbackMovesOn == Exclusive => (Spec => RollbackLeavesLive)
<1> SUFFICES ASSUME Exclusive PROVE Spec => RollbackLeavesLive
  OBVIOUS
<1>1. RunInv /\ [Next]_vars => RunInv'
  BY NextRun
<1>2. RunInv /\ [Next]_vars =>
        [\A o \in Operators :
           (pc[o] = "pick" /\ pc'[o] = "active" /\ job[o].live # NoTag)
             => /\ job'[o].tag # job[o].live
                /\ lastGood = job[o].live]_vars
  <2> SUFFICES ASSUME RunInv, [Next]_vars, NEW o \in Operators,
                      pc[o] = "pick", pc'[o] = "active", job[o].live # NoTag
               PROVE  job'[o].tag # job[o].live /\ lastGood = job[o].live
    OBVIOUS
  <2>1. PickPrevious(o)
    BY PickStep
  <2> QED
    BY <2>1, PickLeavesLive
<1> QED
  BY InitRun, <1>1, <1>2, PTL DEF Spec, RollbackLeavesLive
=============================================================================
