-------------------------- MODULE PipelineProofs --------------------------
(***************************************************************************)
(* Theorems about Pipeline: a build runs the scripts as BlueGreen allows,  *)
(* so what was proved of the scripts holds of the builds; and, when        *)
(* nothing breaks the switch, the verdict of a build tells what users are  *)
(* served.                                                                 *)
(***************************************************************************)
EXTENDS Pipeline, SwitchProofs

-----------------------------------------------------------------------------
(* Types, and the steps of the scripts *)

BuildTyped == PTypeOK /\ (stage # "none" => sha \in Tags)

LEMMA ServedType == ASSUME TypeOK PROVE VersionServed \in Tags \cup {NoTag}
  BY DEF TypeOK, HostTypeOK, VersionServed, Containers, Colors

LEMMA OutcomesTyped ==
  ASSUME NEW status
  PROVE  OutcomeOf(status) \in Outcomes /\ VerdictOf(OutcomeOf(status)) \in Verdicts
  BY DEF OutcomeOf, VerdictOf, Outcomes, Verdicts

LEMMA EndBuildTyped ==
  ASSUME NEW v \in Verdicts, NEW why \in Outcomes, EndBuild(v, why)
  PROVE  BuildTyped'
  BY DEF EndBuild, BuildTyped, PTypeOK, Stages

LEMMA EnterStageTyped ==
  ASSUME BuildTyped, stage # "none", NEW s \in Stages, EnterStage(s), outcome' \in Outcomes
  PROVE  BuildTyped'
  BY DEF EnterStage, BuildTyped, PTypeOK, Verdicts

LEMMA ReadStatusTyped ==
  ASSUME BuildTyped, stage # "none", NEW status, ReadStatus(status)
  PROVE  BuildTyped'
<1>1. CASE EnterStage("smoke") /\ outcome' = "deployed"
  BY <1>1, EnterStageTyped DEF Stages, Outcomes
<1>2. CASE EndBuild(VerdictOf(OutcomeOf(status)), OutcomeOf(status))
  BY <1>2, OutcomesTyped, EndBuildTyped
<1> QED
  BY <1>1, <1>2 DEF ReadStatus

LEMMA PNextTyped ==
  ASSUME TypeOK, BuildTyped, PNext
  PROVE  BuildTyped'
<1>1. outcome \in Outcomes /\ {"SUCCESS", "FAILURE", "ABORTED", "none"} \subseteq Verdicts
      /\ {"", "deployed"} \subseteq Outcomes
      /\ {"none", "pre", "deploy", "smoke", "rollback"} \subseteq Stages
  BY DEF BuildTyped, PTypeOK, Verdicts, Outcomes, Stages
<1>2. CASE StartBuild
  BY <1>1, <1>2, ServedType DEF StartBuild, BuildTyped, PTypeOK
<1>3. CASE PreDeployFails
  BY <1>1, <1>3, EndBuildTyped DEF PreDeployFails
<1>4. CASE EnterDeploy
  BY <1>1, <1>4, EnterStageTyped DEF EnterDeploy
<1>5. CASE PipFails
  BY <1>5, ReadStatusTyped DEF PipFails
<1>6. CASE DeployEnds
  BY <1>6, ReadStatusTyped DEF DeployEnds
<1>7. CASE SmokePasses
  BY <1>1, <1>7, EndBuildTyped DEF SmokePasses
<1>8. CASE SmokeFails
  BY <1>1, <1>8, EnterStageTyped DEF SmokeFails
<1>9. CASE RollbackEnds
  BY <1>1, <1>9, EndBuildTyped DEF RollbackEnds
<1>10. CASE Abort
  BY <1>1, <1>10, EndBuildTyped DEF Abort
<1>11. CASE RunStep
  BY <1>1, <1>11 DEF RunStep, build, BuildTyped, PTypeOK
<1>12. CASE ByHand
  BY <1>1, <1>12 DEF ByHand, BuildTyped, PTypeOK
<1> QED
  BY <1>2, <1>3, <1>4, <1>5, <1>6, <1>7, <1>8, <1>9, <1>10, <1>11, <1>12 DEF PNext,
     BuildStep

\* A step of a build is a step of a script, or none at all.
LEMMA PNextIsNext ==
  ASSUME BuildTyped, PNext
  PROVE  [Next]_vars
<1>1. CASE EnterDeploy
  <2>1. sha \in Tags
    BY <1>1 DEF EnterDeploy, BuildTyped
  <2>2. StartDeploy(ci)
    BY <1>1, <2>1 DEF EnterDeploy, StartDeploy
  <2> QED
    BY <2>2, PipelineAssumption DEF Next, StartRun
<1>2. CASE SmokeFails
  <2>1. StartRollback(ci)
    BY <1>2 DEF SmokeFails, StartRollback
  <2> QED
    BY <2>1, PipelineAssumption DEF Next, StartRun
<1>3. CASE Abort
  BY <1>3, PipelineAssumption DEF Abort, Next, BreakOff
<1>4. CASE RunStep \/ ByHand
  BY <1>4 DEF RunStep, ByHand, Next
<1>5. CASE \/ StartBuild \/ PreDeployFails \/ PipFails \/ DeployEnds \/ SmokePasses
           \/ RollbackEnds
  BY <1>5 DEF StartBuild, PreDeployFails, PipFails, DeployEnds, SmokePasses,
     RollbackEnds
<1> QED
  BY <1>1, <1>2, <1>3, <1>4, <1>5 DEF PNext, BuildStep

PInv == TypeInv /\ BuildTyped

LEMMA PInitTyped == PInit => PInv
  BY InitTypeInv DEF PInit, PInv, BuildTyped, PTypeOK, Stages, Outcomes, Verdicts

LEMMA PNextInv == PInv /\ [PNext]_pvars => PInv' /\ [Next]_vars
<1>1. ASSUME PInv, PNext PROVE PInv' /\ [Next]_vars
  <2>1. [Next]_vars
    BY <1>1, PNextIsNext DEF PInv
  <2>2. TypeInv' /\ BuildTyped'
    BY <1>1, <2>1, NextTypeInv, PNextTyped DEF PInv, TypeInv
  <2> QED
    BY <2>1, <2>2 DEF PInv
<1>2. ASSUME PInv, UNCHANGED pvars PROVE PInv' /\ [Next]_vars
  <2>1. UNCHANGED vars /\ UNCHANGED build /\ verdict' = verdict
    BY <1>2 DEF pvars
  <2>2. TypeInv'
    BY <1>2, <2>1, NextTypeInv DEF PInv
  <2> QED
    BY <1>2, <2>1, <2>2 DEF PInv, BuildTyped, PTypeOK, build
<1> QED
  BY <1>1, <1>2

\* The variables of a build keep their types.
THEOREM BuildTypeCorrect == PSpec => []PTypeOK
<1>1. PInv => PTypeOK
  BY DEF PInv, BuildTyped
<1> QED
  BY <1>1, PInitTyped, PNextInv, PTL DEF PSpec

\* Builds use the scripts only as BlueGreen allows: whatever is proved of the
\* scripts holds of every history of builds and of runs by hand between them.
THEOREM BuildsRunTheScripts == PSpec => Spec
<1>1. PInit => Init
  BY DEF PInit
<1> QED
  BY <1>1, PInitTyped, PNextInv, PTL DEF PSpec, Spec

\* Whatever the builds do, the ledger offers nothing to roll back to that has
\* not passed a health check.
THEOREM BuildsKeepLedgerSound == PSpec => []LedgerSound
  BY BuildsRunTheScripts, LedgerIsSound, PTL

-----------------------------------------------------------------------------
(* The verdict *)

Undisturbed == Calm /\ LedgerStale \notin PipStatuses

Hist == {"hist_read", "hist_write"}
Picking == {"live", "recorded", "past", "pick"}

\* Nobody works beside a build, and a build only waits for its own script.
BuildAlone ==
  /\ stage # "none" => \A o \in Operators \ {ci} : pc[o] = "idle"
  /\ stage \in {"pre", "smoke"} => pc[ci] = "idle"

\* A drill never passes the gate, and users never notice it.
DrillRun ==
  /\ VersionServed = before
  /\ pc[ci] \notin PassedLabels /\ job[ci].status = "failed"
  /\ pc[ci] = "gate" => ~slot[job[ci].target].ok

DeployRun ==
  /\ job[ci].kind = (IF drill THEN "drill" ELSE "deploy") /\ job[ci].tag = sha
  /\ pc[ci] \notin Picking
  /\ pc[ci] \in Hist /\ job[ci].status = "success" => lastGood = sha
  /\ drill => DrillRun

DeployOver ==
  /\ exit[ci] = Deployed => lastGood = sha
  /\ exit[ci] = LedgerStale => VersionServed = sha
  /\ drill => VersionServed = before /\ exit[ci] \notin {Deployed, LedgerStale}

RollbackRun ==
  /\ job[ci].kind = "rollback"
  /\ pc[ci] \in Picking => job[ci].tag = NoTag /\ lastGood = sha
  /\ pc[ci] \notin Picking => job[ci].tag # sha
  /\ pc[ci] \in Hist /\ job[ci].status = "success" => VersionServed = job[ci].tag

RollbackOver == exit[ci] = Deployed => VersionServed # sha

Told ==
  /\ BuildAlone
  /\ stage = "pre" => VersionServed = before
  /\ stage = "deploy" /\ pc[ci] # "idle" => DeployRun
  /\ stage = "deploy" /\ pc[ci] = "idle" => DeployOver
  /\ stage = "smoke" => lastGood = sha
  /\ stage = "rollback" /\ pc[ci] # "idle" => RollbackRun
  /\ stage = "rollback" /\ pc[ci] = "idle" => RollbackOver

-----------------------------------------------------------------------------
(* Where a step of the build's script leads *)

LEMMA ExitAt ==
  ASSUME TypeInv, NEW o \in Operators, NEW code, Exit(o, code)
  PROVE  pc'[o] = "idle" /\ exit'[o] = code
  BY DEF TypeInv, TypeOK, RunTypeOK, Exit

LEMMA ContinueAt ==
  ASSUME TypeInv, NEW o \in Operators, NEW label, Continue(o, label)
  PROVE  pc'[o] = label /\ job'[o] = job[o]
  BY DEF TypeInv, TypeOK, RunTypeOK, Continue, Goto

LEMMA ContinueWithAt ==
  ASSUME TypeInv, NEW o \in Operators, NEW label, NEW j, ContinueWith(o, label, j)
  PROVE  pc'[o] = label /\ job'[o] = j
  BY DEF TypeInv, TypeOK, RunTypeOK, ContinueWith, Goto

LEMMA ScriptFailedAt ==
  ASSUME TypeInv, NEW o \in Operators, ScriptFailed(o)
  PROVE  pc'[o] = "idle" /\ exit'[o] \in {RolledBack, Precondition}
  BY ExitAt DEF ScriptFailed

\* Before the switch and after it, users see the same version as before -
\* unless a failover restarts the container they use.
LEMMA QuietStep ==
  ASSUME CalmInv, NEW o \in Operators, Step(o), job[o].kind # "failover",
         ~(Install(o) \/ ConfigAccepted(o) \/ ConfigRejected(o) \/ Reload(o) \/ ReloadFails(o))
  PROVE  VersionServed' = VersionServed
<1>1. CASE RemoveStale(o) \/ Create(o) \/ CreateFails(o) \/ Teardown(o) \/ Drain(o)
  <2>1. proxy' = proxy
    BY <1>1 DEF RemoveStale, Create, CreateFails, Teardown, Drain
  <2>2. \/ slot' = slot
        \/ pc[o] \in Preparing /\ \E v : SetSlot(job[o].target, v)
        \/ pc[o] = "drain" /\ \E v : SetSlot(job[o].current, v)
    BY <1>1 DEF RemoveStale, Create, CreateFails, Teardown, Drain, Stop, Preparing
  <2> QED
    BY <2>1, <2>2, WorkIsElsewhere, SameVersion
<1>2. CASE ~(RemoveStale(o) \/ Create(o) \/ CreateFails(o) \/ Teardown(o) \/ Drain(o))
  <2>1. UNCHANGED <<proxy, slot>>
    BY <1>2 DEF Step, ReadLive, CheckLedger, ReadPast, PickPrevious, InspectActive,
       InspectImage, ReadActive, ReadInactive, Pull, GatePass, GateMiss, GateUnhealthy,
       GateLost, StillLive, RecordLastGood, LedgerError, ReadHistory, WriteHistory,
       host, ledger
  <2> QED
    BY <2>1, SameVersion
<1> QED
  BY <1>1, <1>2

LEMMA BrokenOff ==
  ASSUME CalmInv, NEW o \in Operators, BreakOff(o)
  PROVE  /\ pc[o] # "idle" /\ UNCHANGED <<host, ledger>>
         /\ pc'[o] = "idle" /\ exit'[o] \in {Raised, Precondition, NoExit}
  BY ExitAt DEF CalmInv, BreakOff, S3Raises, SshFails, Killed, S3Reads, RemoteSteps

-----------------------------------------------------------------------------
(* deploy.py, run by a build *)

After(run, over) == (pc'[ci] # "idle" => run) /\ (pc'[ci] = "idle" => over)

LEMMA DeployStep ==
  ASSUME CalmInv, Calm, DeployRun, Step(ci), UNCHANGED build
  PROVE  After(DeployRun', DeployOver')
<1>0. /\ ci \in Operators /\ TypeInv /\ DeployPlaced(ci) /\ job[ci].kind # "failover"
      /\ JobSound(ci) /\ job[ci] \in Jobs
      /\ UNCHANGED <<sha, drill, before>>
  BY PipelineAssumption DEF CalmInv, PlaceInv, Placed, DeployRun, SoundInv, build, TypeInv, TypeOK,
     RunTypeOK
<1>1. pc[ci] \notin {"install", "test", "reload"} => VersionServed' = VersionServed
  BY <1>0, QuietStep DEF Install, ConfigAccepted, ConfigRejected, Reload, ReloadFails
<1>2. CASE ReadActive(ci)
  BY <1>0, <1>1, <1>2, ContinueWithAt DEF ReadActive, Jobs, host, ledger, DeployRun,
     DrillRun, DeployOver, After, Labels, Picking, Hist, PassedLabels, Deployed,
     RolledBack, LedgerStale, Precondition, Raised
<1>3. CASE ReadInactive(ci)
  BY <1>0, <1>1, <1>3, ContinueWithAt DEF ReadInactive, Jobs, host, ledger, DeployRun,
     DrillRun, DeployOver, After, Labels, Picking, Hist, PassedLabels, Deployed,
     RolledBack, LedgerStale, Precondition, Raised
<1>4. CASE Pull(ci)
  BY <1>0, <1>1, <1>4, ContinueAt, ScriptFailedAt DEF Pull, host, ledger, DeployRun,
     DrillRun, DeployOver, After, Labels, Picking, Hist, PassedLabels, Deployed,
     RolledBack, LedgerStale, Precondition, Raised
<1>5. CASE RemoveStale(ci)
  BY <1>0, <1>1, <1>5, ContinueAt, ScriptFailedAt DEF RemoveStale, host, ledger,
     DeployRun, DrillRun, DeployOver, After, Labels, Picking, Hist, PassedLabels,
     Deployed, RolledBack, LedgerStale, Precondition, Raised
<1>6. CASE Create(ci)
  <2>1. job[ci].target \in Colors
    BY <1>0, <1>6 DEF Create, TypeInv, Chosen, SlotLabels
  <2>2. slot'[job[ci].target] = NewContainer(ci)
    BY <1>0, <1>6, <2>1 DEF Create, SetSlot, TypeInv, TypeOK, HostTypeOK
  <2>3. job[ci].kind = "drill" => ~NewContainer(ci).ok
    BY DEF NewContainer, Broken
  <2>4. CASE Continue(ci, "gate")
    BY <1>0, <1>1, <1>6, <2>2, <2>3, <2>4, ContinueAt DEF Create, ledger, DeployRun,
       DrillRun, After, Picking, Hist, PassedLabels
  <2>5. CASE Exit(ci, Precondition)
    BY <1>0, <1>1, <1>6, <2>5, ExitAt DEF Create, DeployRun, DrillRun, DeployOver,
       After, Deployed, LedgerStale, Precondition
  <2> QED
    BY <1>6, <2>4, <2>5 DEF Create, Return, DeployRun
<1>7. CASE CreateFails(ci)
  BY <1>0, <1>1, <1>7, ScriptFailedAt DEF CreateFails, ledger, DeployRun, DrillRun,
     DeployOver, After, Labels, Picking, Hist, PassedLabels, Deployed, RolledBack,
     LedgerStale, Precondition, Raised
<1>8. CASE GatePass(ci)
  <2>1. ~drill
    BY <1>8 DEF GatePass, Healthy, Serving, DeployRun, DrillRun
  <2>2. pc'[ci] = "install"
        /\ job'[ci] = [job[ci] EXCEPT !.status = "success", !.attempt = 1]
    BY <1>0, <1>8, ContinueWithAt DEF GatePass
  <2>3. job'[ci].kind = job[ci].kind /\ job'[ci].tag = job[ci].tag
    BY <1>0, <2>2 DEF Jobs
  <2> QED
    BY <1>0, <2>1, <2>2, <2>3 DEF DeployRun, After, Picking, Hist
<1>9. CASE GateMiss(ci)
  BY <1>0, <1>1, <1>9, ContinueWithAt DEF GateMiss, Jobs, host, ledger, DeployRun,
     DrillRun, DeployOver, After, Labels, Picking, Hist, PassedLabels, Deployed,
     RolledBack, LedgerStale, Precondition, Raised
<1>10. CASE GateUnhealthy(ci)
  BY <1>0, <1>1, <1>10, ContinueAt DEF GateUnhealthy, host, ledger, DeployRun, DrillRun,
     DeployOver, After, Labels, Picking, Hist, PassedLabels, Deployed, RolledBack,
     LedgerStale, Precondition, Raised
<1>11. CASE GateLost(ci)
  BY <1>0, <1>1, <1>11, ContinueAt DEF GateLost, host, ledger, DeployRun, DrillRun,
     DeployOver, After, Labels, Picking, Hist, PassedLabels, Deployed, RolledBack,
     LedgerStale, Precondition, Raised
<1>12. CASE Teardown(ci)
  BY <1>0, <1>1, <1>12, ContinueAt DEF Teardown, host, ledger, DeployRun, DrillRun,
     DeployOver, After, Labels, Picking, Hist, PassedLabels, Deployed, RolledBack,
     LedgerStale, Precondition, Raised
<1>13. CASE StillLive(ci)
  BY <1>0, <1>1, <1>13, ContinueAt DEF StillLive, host, ledger, JobSound, DeployRun,
     DrillRun, DeployOver, After, Labels, Picking, Hist, PassedLabels, Deployed,
     RolledBack, LedgerStale, Precondition, Raised
<1>14. CASE Drain(ci)
  BY <1>0, <1>1, <1>14, ContinueAt, ExitAt DEF Drain, host, ledger, Return, DeployRun,
     DrillRun, DeployOver, After, Labels, Picking, Hist, PassedLabels, Deployed,
     RolledBack, LedgerStale, Precondition, Raised
<1>15. CASE Install(ci)
  BY <1>0, <1>1, <1>15, ContinueWithAt DEF Install, Jobs, ledger, DeployRun, DrillRun,
     DeployOver, After, Labels, Picking, Hist, PassedLabels, Deployed, RolledBack,
     LedgerStale, Precondition, Raised
<1>16. CASE ConfigAccepted(ci)
  BY <1>0, <1>1, <1>16, ContinueAt DEF ConfigAccepted, host, ledger, DeployRun,
     DrillRun, DeployOver, After, Labels, Picking, Hist, PassedLabels, Deployed,
     RolledBack, LedgerStale, Precondition, Raised
<1>17. CASE ConfigRejected(ci)
  BY <1>0, <1>1, <1>17, ExitAt DEF ConfigRejected, ledger, DeployRun, DrillRun,
     DeployOver, After, Labels, Picking, Hist, PassedLabels, Deployed, RolledBack,
     LedgerStale, Precondition, Raised
<1>18. CASE Reload(ci)
  BY <1>0, <1>1, <1>18, ContinueAt, ExitAt DEF Reload, ledger, Return, AfterSwitch,
     DeployRun, DrillRun, DeployOver, After, Labels, Picking, Hist, PassedLabels,
     Deployed, RolledBack, LedgerStale, Precondition, Raised
<1>19. CASE ReloadFails(ci)
  BY <1>0, <1>1, <1>19 DEF ReloadFails, Calm, DeployRun, DrillRun, DeployOver, After,
     Labels, Picking, Hist, PassedLabels, Deployed, RolledBack, LedgerStale,
     Precondition, Raised
<1>20. CASE RecordLastGood(ci)
  BY <1>0, <1>1, <1>20, ContinueAt DEF RecordLastGood, host, DeployRun, DrillRun,
     DeployOver, After, Labels, Picking, Hist, PassedLabels, Deployed, RolledBack,
     LedgerStale, Precondition, Raised
<1>21. CASE LedgerError(ci)
  BY <1>0, <1>1, <1>21, ContinueWithAt, ExitAt, SwitchedVersion DEF LedgerError, Jobs,
     DeployRun, DrillRun, DeployOver, After, Labels, Picking, Hist, PassedLabels,
     Deployed, RolledBack, LedgerStale, Precondition, Raised
<1>22. CASE ReadHistory(ci)
  BY <1>0, <1>1, <1>22, ContinueWithAt DEF ReadHistory, Jobs, host, ledger, DeployRun,
     DrillRun, DeployOver, After, Labels, Picking, Hist, PassedLabels, Deployed,
     RolledBack, LedgerStale, Precondition, Raised
<1>23. CASE WriteHistory(ci)
  BY <1>0, <1>1, <1>23, ExitAt DEF WriteHistory, FinalCode, DeployRun, DrillRun,
     DeployOver, After, Labels, Picking, Hist, PassedLabels, Deployed, RolledBack,
     LedgerStale, Precondition, Raised
<1>24. CASE \/ ReadLive(ci) \/ CheckLedger(ci) \/ ReadPast(ci) \/ PickPrevious(ci)
           \/ InspectActive(ci) \/ InspectImage(ci)
  BY <1>0, <1>24 DEF ReadLive, CheckLedger, ReadPast, PickPrevious, InspectActive,
     InspectImage, DeployPlaced, DeployRun, Picking
<1> QED
  BY <1>2, <1>3, <1>4, <1>5, <1>6, <1>7, <1>8, <1>9, <1>10, <1>11, <1>12, <1>13, <1>14,
     <1>15, <1>16, <1>17, <1>18, <1>19, <1>20, <1>21, <1>22, <1>23, <1>24 DEF Step

-----------------------------------------------------------------------------
(* rollback.py, run by a build after a failed smoke test *)

LEMMA RollbackStep ==
  ASSUME CalmInv, Calm, RollbackRun, Step(ci), UNCHANGED build
  PROVE  After(RollbackRun', RollbackOver')
<1>0. /\ ci \in Operators /\ TypeInv /\ DeployPlaced(ci) /\ job[ci].kind # "failover"
      /\ JobSound(ci) /\ job[ci] \in Jobs
      /\ sha' = sha /\ lastGood \in Tags \cup {NoTag}
  BY PipelineAssumption DEF CalmInv, PlaceInv, Placed, RollbackRun, SoundInv, build, TypeInv, TypeOK,
     RunTypeOK, LedgerTypeOK
<1>1. pc[ci] \notin {"install", "test", "reload"} => VersionServed' = VersionServed
  BY <1>0, QuietStep DEF Install, ConfigAccepted, ConfigRejected, Reload, ReloadFails
<1>2. CASE ReadLive(ci)
  BY <1>0, <1>1, <1>2, ContinueWithAt DEF ReadLive, Jobs, host, ledger, RollbackRun,
     RollbackOver, After, Labels, Picking, Hist, PassedLabels, Deployed, RolledBack,
     LedgerStale, Precondition, Raised
<1>3. CASE CheckLedger(ci)
  BY <1>0, <1>1, <1>3, ContinueAt, ExitAt DEF CheckLedger, host, ledger, RollbackRun,
     RollbackOver, After, Labels, Picking, Hist, PassedLabels, Deployed, RolledBack,
     LedgerStale, Precondition, Raised
<1>4. CASE ReadPast(ci)
  BY <1>0, <1>1, <1>4, ContinueWithAt DEF ReadPast, Jobs, host, ledger, RollbackRun,
     RollbackOver, After, Labels, Picking, Hist, PassedLabels, Deployed, RolledBack,
     LedgerStale, Precondition, Raised
<1>5. CASE PickPrevious(ci)
  <2>1. CASE Exit(ci, Precondition)
    BY <1>0, <2>1, ExitAt DEF RollbackOver, After, Deployed, Precondition
  <2>2. ASSUME NEW i \in Candidates(ci),
               ContinueWith(ci, "active", [job[ci] EXCEPT !.tag = job[ci].seen[i].tag, !.seen = << >>])
        PROVE  After(RollbackRun', RollbackOver')
    <3>1. job[ci].seen[i].tag # sha
      BY <1>5 DEF PickPrevious, Candidates, RollbackRun, Picking
    <3>2. pc'[ci] = "active"
          /\ job'[ci] = [job[ci] EXCEPT !.tag = job[ci].seen[i].tag, !.seen = << >>]
      BY <1>0, <2>2, ContinueWithAt
    <3>3. job'[ci].kind = job[ci].kind /\ job'[ci].tag = job[ci].seen[i].tag
      BY <1>0, <3>2 DEF Jobs
    <3> QED
      BY <1>0, <3>1, <3>2, <3>3 DEF RollbackRun, After, Picking, Hist
  <2> QED
    BY <1>5, <2>1, <2>2 DEF PickPrevious
<1>6. CASE ReadActive(ci)
  BY <1>0, <1>1, <1>6, ContinueWithAt DEF ReadActive, Jobs, host, ledger, RollbackRun,
     RollbackOver, After, Labels, Picking, Hist, PassedLabels, Deployed, RolledBack,
     LedgerStale, Precondition, Raised
<1>7. CASE ReadInactive(ci)
  BY <1>0, <1>1, <1>7, ContinueWithAt DEF ReadInactive, Jobs, host, ledger, RollbackRun,
     RollbackOver, After, Labels, Picking, Hist, PassedLabels, Deployed, RolledBack,
     LedgerStale, Precondition, Raised
<1>8. CASE Pull(ci)
  BY <1>0, <1>1, <1>8, ContinueAt, ScriptFailedAt DEF Pull, host, ledger, RollbackRun,
     RollbackOver, After, Labels, Picking, Hist, PassedLabels, Deployed, RolledBack,
     LedgerStale, Precondition, Raised
<1>9. CASE RemoveStale(ci)
  BY <1>0, <1>1, <1>9, ContinueAt, ScriptFailedAt DEF RemoveStale, host, ledger,
     RollbackRun, RollbackOver, After, Labels, Picking, Hist, PassedLabels, Deployed,
     RolledBack, LedgerStale, Precondition, Raised
<1>10. CASE Create(ci)
  BY <1>0, <1>1, <1>10, ContinueAt, ExitAt DEF Create, host, ledger, Return, SetSlot,
     NewContainer, Broken, RollbackRun, RollbackOver, After, Labels, Picking, Hist,
     PassedLabels, Deployed, RolledBack, LedgerStale, Precondition, Raised
<1>11. CASE CreateFails(ci)
  BY <1>0, <1>1, <1>11, ScriptFailedAt DEF CreateFails, ledger, RollbackRun,
     RollbackOver, After, Labels, Picking, Hist, PassedLabels, Deployed, RolledBack,
     LedgerStale, Precondition, Raised
<1>12. CASE GatePass(ci)
  <2>1. pc[ci] = "gate" /\ pc'[ci] = "install"
        /\ job'[ci] = [job[ci] EXCEPT !.status = "success", !.attempt = 1]
    BY <1>0, <1>12, ContinueWithAt DEF GatePass
  <2>2. job'[ci].kind = job[ci].kind /\ job'[ci].tag = job[ci].tag
    BY <1>0, <2>1 DEF Jobs
  <2> QED
    BY <1>0, <2>1, <2>2 DEF RollbackRun, After, Picking, Hist
<1>13. CASE GateMiss(ci)
  BY <1>0, <1>1, <1>13, ContinueWithAt DEF GateMiss, Jobs, host, ledger, RollbackRun,
     RollbackOver, After, Labels, Picking, Hist, PassedLabels, Deployed, RolledBack,
     LedgerStale, Precondition, Raised
<1>14. CASE GateUnhealthy(ci)
  BY <1>0, <1>1, <1>14, ContinueAt DEF GateUnhealthy, host, ledger, RollbackRun,
     RollbackOver, After, Labels, Picking, Hist, PassedLabels, Deployed, RolledBack,
     LedgerStale, Precondition, Raised
<1>15. CASE GateLost(ci)
  BY <1>0, <1>1, <1>15, ContinueAt DEF GateLost, host, ledger, RollbackRun,
     RollbackOver, After, Labels, Picking, Hist, PassedLabels, Deployed, RolledBack,
     LedgerStale, Precondition, Raised
<1>16. CASE Teardown(ci)
  BY <1>0, <1>1, <1>16, ContinueAt DEF Teardown, host, ledger, RollbackRun,
     RollbackOver, After, Labels, Picking, Hist, PassedLabels, Deployed, RolledBack,
     LedgerStale, Precondition, Raised
<1>17. CASE StillLive(ci)
  BY <1>0, <1>1, <1>17, ContinueAt DEF StillLive, host, ledger, JobSound, RollbackRun,
     RollbackOver, After, Labels, Picking, Hist, PassedLabels, Deployed, RolledBack,
     LedgerStale, Precondition, Raised
<1>18. CASE Drain(ci)
  BY <1>0, <1>1, <1>18, ContinueAt, ExitAt DEF Drain, host, ledger, Return, RollbackRun,
     RollbackOver, After, Labels, Picking, Hist, PassedLabels, Deployed, RolledBack,
     LedgerStale, Precondition, Raised
<1>19. CASE Install(ci)
  BY <1>0, <1>1, <1>19, ContinueWithAt DEF Install, Jobs, ledger, RollbackRun,
     RollbackOver, After, Labels, Picking, Hist, PassedLabels, Deployed, RolledBack,
     LedgerStale, Precondition, Raised
<1>20. CASE ConfigAccepted(ci)
  BY <1>0, <1>1, <1>20, ContinueAt DEF ConfigAccepted, host, ledger, RollbackRun,
     RollbackOver, After, Labels, Picking, Hist, PassedLabels, Deployed, RolledBack,
     LedgerStale, Precondition, Raised
<1>21. CASE ConfigRejected(ci)
  BY <1>0, <1>1, <1>21, ExitAt DEF ConfigRejected, ledger, RollbackRun, RollbackOver,
     After, Labels, Picking, Hist, PassedLabels, Deployed, RolledBack, LedgerStale,
     Precondition, Raised
<1>22. CASE Reload(ci)
  BY <1>0, <1>1, <1>22, ContinueAt, ExitAt DEF Reload, ledger, Return, AfterSwitch,
     RollbackRun, RollbackOver, After, Labels, Picking, Hist, PassedLabels, Deployed,
     RolledBack, LedgerStale, Precondition, Raised
<1>23. CASE ReloadFails(ci)
  BY <1>0, <1>1, <1>23 DEF ReloadFails, Calm, RollbackRun, RollbackOver, After, Labels,
     Picking, Hist, PassedLabels, Deployed, RolledBack, LedgerStale, Precondition,
     Raised
<1>24. CASE RecordLastGood(ci)
  BY <1>0, <1>1, <1>24, ContinueAt, SwitchedVersion DEF RecordLastGood, host,
     RollbackRun, RollbackOver, After, Labels, Picking, Hist, PassedLabels, Deployed,
     RolledBack, LedgerStale, Precondition, Raised
<1>25. CASE LedgerError(ci)
  BY <1>0, <1>1, <1>25, ContinueWithAt, ExitAt, SwitchedVersion DEF LedgerError, Jobs,
     RollbackRun, RollbackOver, After, Labels, Picking, Hist, PassedLabels, Deployed,
     RolledBack, LedgerStale, Precondition, Raised
<1>26. CASE ReadHistory(ci)
  BY <1>0, <1>1, <1>26, ContinueWithAt DEF ReadHistory, Jobs, host, ledger, RollbackRun,
     RollbackOver, After, Labels, Picking, Hist, PassedLabels, Deployed, RolledBack,
     LedgerStale, Precondition, Raised
<1>27. CASE WriteHistory(ci)
  BY <1>0, <1>1, <1>27, ExitAt DEF WriteHistory, FinalCode, RollbackRun, RollbackOver,
     After, Labels, Picking, Hist, PassedLabels, Deployed, RolledBack, LedgerStale,
     Precondition, Raised
<1>28. CASE InspectActive(ci) \/ InspectImage(ci)
  BY <1>0, <1>28 DEF InspectActive, InspectImage, DeployPlaced
<1> QED
  BY <1>2, <1>3, <1>4, <1>5, <1>6, <1>7, <1>8, <1>9, <1>10, <1>11, <1>12, <1>13, <1>14,
     <1>15, <1>16, <1>17, <1>18, <1>19, <1>20, <1>21, <1>22, <1>23, <1>24, <1>25, <1>26,
     <1>27, <1>28 DEF Step

-----------------------------------------------------------------------------
(* The build *)

LEMMA StepIsActive ==
  ASSUME NEW o \in Operators, Step(o) \/ BreakOff(o)
  PROVE  pc[o] # "idle"
<1>1. CASE BreakOff(o)
  BY <1>1 DEF BreakOff, S3Raises, SshFails, Killed, S3Reads, RemoteSteps
<1>2. CASE Step(o)
  BY <1>2 DEF Step, ReadLive, CheckLedger, ReadPast, PickPrevious, InspectActive,
     InspectImage, ReadActive, ReadInactive, Pull, RemoveStale, Create, CreateFails,
     GatePass, GateMiss, GateUnhealthy, GateLost, Teardown, StillLive, Install,
     ConfigAccepted, ConfigRejected, Reload, ReloadFails, Drain, RecordLastGood,
     LedgerError, ReadHistory, WriteHistory
<1> QED
  BY <1>1, <1>2

\* A step of a script touches no other run.
LEMMA StepMovesOwn ==
  ASSUME TypeInv, NEW o \in Operators, Step(o) \/ BreakOff(o)
  PROVE  \A p \in Operators \ {o} : pc'[p] = pc[p]
<1>1. ASSUME NEW code, Exit(o, code) PROVE \A p \in Operators \ {o} : pc'[p] = pc[p]
  BY <1>1 DEF Exit, TypeInv, TypeOK, RunTypeOK
<1>2. ASSUME NEW label, Continue(o, label) PROVE \A p \in Operators \ {o} : pc'[p] = pc[p]
  BY <1>2 DEF Continue, Goto, TypeInv, TypeOK, RunTypeOK
<1>3. ASSUME NEW label, NEW j, ContinueWith(o, label, j)
      PROVE  \A p \in Operators \ {o} : pc'[p] = pc[p]
  BY <1>3 DEF ContinueWith, Goto, TypeInv, TypeOK, RunTypeOK
<1>4. CASE \/ ReadLive(o) \/ CheckLedger(o) \/ ReadPast(o) \/ PickPrevious(o)
           \/ InspectActive(o) \/ InspectImage(o) \/ ReadActive(o) \/ ReadInactive(o)
  BY <1>1, <1>2, <1>3, <1>4 DEF ReadLive, CheckLedger, ReadPast, PickPrevious,
     InspectActive, InspectImage, ReadActive, ReadInactive
<1>5. CASE \/ Pull(o) \/ RemoveStale(o) \/ Create(o) \/ CreateFails(o)
           \/ GatePass(o) \/ GateMiss(o) \/ GateUnhealthy(o) \/ GateLost(o)
  BY <1>1, <1>2, <1>3, <1>5 DEF Pull, RemoveStale, Create, CreateFails, GatePass,
     GateMiss, GateUnhealthy, GateLost, ScriptFailed, Return
<1>6. CASE \/ Teardown(o) \/ StillLive(o) \/ Install(o) \/ ConfigAccepted(o)
           \/ ConfigRejected(o) \/ Reload(o) \/ ReloadFails(o) \/ Drain(o)
  BY <1>1, <1>2, <1>3, <1>6 DEF Teardown, StillLive, Install, ConfigAccepted,
     ConfigRejected, Reload, ReloadFails, Drain, Return
<1>7. CASE RecordLastGood(o) \/ LedgerError(o) \/ ReadHistory(o) \/ WriteHistory(o)
  BY <1>1, <1>2, <1>3, <1>7 DEF RecordLastGood, LedgerError, ReadHistory, WriteHistory
<1>8. CASE BreakOff(o)
  BY <1>1, <1>8 DEF BreakOff, S3Raises, SshFails, Killed
<1> QED
  BY <1>4, <1>5, <1>6, <1>7, <1>8 DEF Step

\* A run the build starts.
LEMMA StartAt ==
  ASSUME TypeInv, NEW k, NEW t, NEW label, Start(ci, k, t, label)
  PROVE  /\ pc'[ci] = label /\ \A o \in Operators \ {ci} : pc'[o] = pc[o]
         /\ job'[ci].kind = k /\ job'[ci].tag = t /\ job'[ci].status = "failed"
         /\ UNCHANGED <<host, ledger>>
<1>1. ci \in Operators
  BY PipelineAssumption
<1>2. job'[ci] = [NoJob EXCEPT !.kind = k, !.tag = t]
  BY <1>1 DEF Start, TypeInv, TypeOK, RunTypeOK
<1>3. job'[ci].kind = k /\ job'[ci].tag = t /\ job'[ci].status = "failed"
  BY <1>2 DEF NoJob
<1> QED
  BY <1>1, <1>3 DEF Start, Goto, TypeInv, TypeOK, RunTypeOK

LEMMA SameHost == ASSUME UNCHANGED <<host, ledger>> PROVE VersionServed' = VersionServed
  BY SameVersion DEF host

LEMMA ReadStatusTold ==
  ASSUME Told, stage # "none", pc[ci] = "idle", NEW status, ReadStatus(status), UNCHANGED vars,
         status = Deployed => lastGood = sha
  PROVE  Told'
<1>1. OutcomeOf(status) = "deployed" => status = Deployed
  BY DEF OutcomeOf
<1>2. lastGood' = lastGood /\ pc' = pc
  BY DEF vars, ledger
<1>3. CASE EndBuild(VerdictOf(OutcomeOf(status)), OutcomeOf(status))
  BY <1>3 DEF EndBuild, Told, BuildAlone
<1>4. CASE EnterStage("smoke") /\ OutcomeOf(status) = "deployed"
  BY <1>1, <1>2, <1>4 DEF EnterStage, Told, BuildAlone
<1> QED
  BY <1>3, <1>4 DEF ReadStatus

LEMMA RunStepTold ==
  ASSUME CalmInv, Undisturbed, Told, RunStep
  PROVE  Told'
<1>1. stage' = stage /\ UNCHANGED build
  BY DEF RunStep, build
<1> SUFFICES ASSUME stage # "none" PROVE Told'
  BY <1>1 DEF Told, BuildAlone
<1>2. PICK o \in Operators : Step(o) \/ BreakOff(o)
  BY DEF RunStep
<1>3. o = ci /\ pc[ci] # "idle" /\ stage \notin {"pre", "smoke"}
  BY <1>2, StepIsActive DEF Told, BuildAlone
<1>4. BuildAlone'
  BY <1>1, <1>2, <1>3, StepMovesOwn DEF Told, BuildAlone, CalmInv
<1>5. CASE stage = "deploy"
  <2>1. CASE Step(ci)
    <3>1. After(DeployRun', DeployOver')
      BY <1>1, <1>3, <1>5, <2>1, DeployStep DEF Undisturbed, Told
    <3> QED
      BY <1>1, <1>4, <1>5, <3>1 DEF After, Told
  <2>2. CASE BreakOff(ci)
    <3>1. /\ UNCHANGED <<host, ledger>> /\ pc'[ci] = "idle"
          /\ exit'[ci] \in {Raised, Precondition, NoExit}
      BY <1>2, <1>3, <2>2, BrokenOff
    <3>2. DeployOver'
      BY <1>1, <1>3, <1>5, <3>1, SameHost DEF Told, DeployRun, DrillRun, DeployOver,
         build, Raised, RolledBack, Precondition, NoExit, Deployed, LedgerStale
    <3> QED
      BY <1>1, <1>4, <1>5, <3>1, <3>2 DEF Told
  <2> QED
    BY <1>2, <1>3, <2>1, <2>2
<1>6. CASE stage = "rollback"
  <2>1. CASE Step(ci)
    <3>1. After(RollbackRun', RollbackOver')
      BY <1>1, <1>3, <1>6, <2>1, RollbackStep DEF Undisturbed, Told
    <3> QED
      BY <1>1, <1>4, <1>6, <3>1 DEF After, Told
  <2>2. CASE BreakOff(ci)
    <3>1. pc'[ci] = "idle" /\ exit'[ci] \in {Raised, Precondition, NoExit}
      BY <1>2, <1>3, <2>2, BrokenOff
    <3>2. RollbackOver'
      BY <3>1 DEF RollbackOver, Raised, RolledBack, Precondition, NoExit, Deployed
    <3> QED
      BY <1>1, <1>4, <1>6, <3>1, <3>2 DEF Told
  <2> QED
    BY <1>2, <1>3, <2>1, <2>2
<1>7. CASE stage \notin {"deploy", "rollback"}
  BY <1>1, <1>3, <1>4, <1>7 DEF Told
<1> QED
  BY <1>5, <1>6, <1>7

LEMMA PNextTold ==
  ASSUME CalmInv, Undisturbed, Told, PNext
  PROVE  Told'
<1>0. ci \in Operators /\ TypeInv /\ Exclusive
  BY PipelineAssumption DEF CalmInv, Undisturbed, Calm
<1>1. ASSUME stage' = "none" PROVE Told'
  BY <1>1 DEF Told, BuildAlone
<1>2. CASE StartBuild
  <2>1. /\ stage' = "pre" /\ before' = VersionServed /\ VersionServed' = VersionServed
        /\ pc' = pc /\ \A o \in Operators : pc[o] = "idle"
    BY <1>0, <1>2, SameHost DEF StartBuild, vars
  <2> QED
    BY <1>0, <2>1 DEF Told, BuildAlone
<1>3. CASE EnterDeploy
  <2>1. stage = "pre" /\ stage' = "deploy" /\ UNCHANGED <<sha, drill, before>>
    BY <1>3 DEF EnterDeploy, EnterStage
  <2>2. /\ pc'[ci] = "active" /\ \A o \in Operators \ {ci} : pc'[o] = pc[o]
        /\ job'[ci].kind = (IF drill THEN "drill" ELSE "deploy") /\ job'[ci].tag = sha
        /\ job'[ci].status = "failed" /\ UNCHANGED <<host, ledger>>
    BY <1>0, <1>3, StartAt DEF EnterDeploy
  <2>3. VersionServed' = before
    BY <2>1, <2>2, SameHost DEF Told
  <2>4. DeployRun'
    BY <2>1, <2>2, <2>3 DEF DeployRun, DrillRun, Picking, Hist, PassedLabels
  <2> QED
    BY <2>1, <2>2, <2>4 DEF Told, BuildAlone
<1>4. CASE SmokeFails
  <2>1. stage = "smoke" /\ stage' = "rollback" /\ sha' = sha
    BY <1>4 DEF SmokeFails, EnterStage
  <2>2. /\ pc'[ci] = "live" /\ \A o \in Operators \ {ci} : pc'[o] = pc[o]
        /\ job'[ci].kind = "rollback" /\ job'[ci].tag = NoTag /\ job'[ci].status = "failed"
        /\ lastGood' = lastGood
    BY <1>0, <1>4, StartAt DEF SmokeFails, ledger
  <2>3. RollbackRun'
    BY <2>1, <2>2 DEF Told, RollbackRun, Picking, Hist
  <2> QED
    BY <2>1, <2>2, <2>3 DEF Told, BuildAlone
<1>5. CASE PipFails
  <2>1. \A status \in PipStatuses : status # Deployed
    BY PipelineAssumption DEF Deployed
  <2> QED
    BY <1>5, <2>1, ReadStatusTold DEF PipFails, Told, BuildAlone
<1>6. CASE DeployEnds
  BY <1>6, ReadStatusTold DEF DeployEnds, Told, DeployOver
<1>7. CASE RunStep
  BY <1>7, RunStepTold
<1>8. CASE PreDeployFails \/ SmokePasses \/ RollbackEnds \/ Abort \/ ByHand
  BY <1>1, <1>8 DEF PreDeployFails, SmokePasses, RollbackEnds, Abort, ByHand, EndBuild
<1> QED
  BY <1>2, <1>3, <1>4, <1>5, <1>6, <1>7, <1>8 DEF PNext, BuildStep

TellInv == PInv /\ CalmInv /\ Told

LEMMA PInitTells == PInit => TellInv
  BY PInitTyped, InitCalm DEF PInit, TellInv, Told, BuildAlone

LEMMA PNextTells == Undisturbed => (TellInv /\ [PNext]_pvars => TellInv')
<1> SUFFICES ASSUME Undisturbed, TellInv, [PNext]_pvars PROVE TellInv'
  OBVIOUS
<1>1. PInv' /\ [Next]_vars
  BY PNextInv DEF TellInv
<1>2. CalmInv'
  BY <1>1, NextCalm DEF TellInv, Undisturbed
<1>3. CASE PNext
  BY <1>1, <1>2, <1>3, PNextTold DEF TellInv
<1>4. CASE UNCHANGED pvars
  <2>1. UNCHANGED <<host, ledger, pc, job, exit, stage, sha, drill, before>>
    BY <1>4 DEF pvars, vars, build
  <2>2. VersionServed' = VersionServed
    BY <2>1, SameHost
  <2>3. Told'
    BY <2>1, <2>2 DEF TellInv, Told, BuildAlone, DeployRun, DrillRun, DeployOver,
       RollbackRun, RollbackOver, host, ledger
  <2> QED
    BY <1>1, <1>2, <2>3 DEF TellInv
<1> QED
  BY <1>3, <1>4

-----------------------------------------------------------------------------
(* What follows from it *)

\* When no run overlaps a build and nothing breaks the switch, SUCCESS means
\* that the new version is served and recorded, a stale ledger that it is
\* served, and a drill that worked that users kept the version they had -
\* whatever was run by hand between the builds, failovers included.
THEOREM VerdictsTell == Undisturbed => (PSpec => VerdictTells)
<1> SUFFICES ASSUME Undisturbed PROVE PSpec => VerdictTells
  OBVIOUS
<1> DEFINE P ==
     /\ verdict' = "SUCCESS" => VersionServed' = sha /\ lastGood' = sha
     /\ (verdict' = "UNSTABLE" /\ outcome' = "deployed-ledger-stale")
          => VersionServed' = sha
     /\ (verdict' = "UNSTABLE" /\ outcome' = "rolled-back-as-expected")
          => VersionServed' = before
<1>1. ASSUME TellInv, PNext PROVE P
  <2>1. CASE SmokePasses
    BY <1>1, <2>1, SameHost DEF SmokePasses, ShaIsServed, EndBuild, TellInv, Told, vars,
       ledger
  <2>2. ASSUME NEW status, ReadStatus(status), UNCHANGED vars,
               status = LedgerStale => VersionServed = sha,
               drill /\ status \notin {Deployed, LedgerStale} => VersionServed = before
        PROVE  P
    <3>1. VersionServed' = VersionServed
      BY <2>2, SameHost DEF vars
    <3>2. CASE EnterStage("smoke")
      BY <3>2 DEF EnterStage
    <3>3. CASE EndBuild(VerdictOf(OutcomeOf(status)), OutcomeOf(status))
      <4>1. verdict' # "SUCCESS" /\ outcome' = OutcomeOf(status)
        BY <3>3 DEF EndBuild, VerdictOf
      <4>2. OutcomeOf(status) = "deployed-ledger-stale" => status = LedgerStale
        BY DEF OutcomeOf
      <4>3. OutcomeOf(status) = "rolled-back-as-expected"
              => drill /\ status \notin {Deployed, LedgerStale}
        BY DEF OutcomeOf
      <4> QED
        BY <2>2, <3>1, <4>1, <4>2, <4>3
    <3> QED
      BY <2>2, <3>2, <3>3 DEF ReadStatus
  <2>3. CASE PipFails
    BY <1>1, <2>2, <2>3 DEF PipFails, Undisturbed, TellInv, Told
  <2>4. CASE DeployEnds
    BY <1>1, <2>2, <2>4 DEF DeployEnds, TellInv, Told, DeployOver
  <2>5. CASE \/ StartBuild \/ PreDeployFails \/ EnterDeploy \/ SmokeFails \/ RollbackEnds
             \/ Abort \/ RunStep \/ ByHand
    BY <2>5 DEF StartBuild, PreDeployFails, EnterDeploy, SmokeFails, RollbackEnds,
       Abort, RunStep, ByHand, EndBuild, EnterStage
  <2> QED
    BY <1>1, <2>1, <2>3, <2>4, <2>5 DEF PNext, BuildStep
<1>2. TellInv /\ [PNext]_pvars => [P]_pvars
  BY <1>1
<1>3. TellInv /\ [PNext]_pvars => TellInv'
  BY PNextTells
<1> QED
  BY <1>2, <1>3, PInitTells, PTL DEF PSpec, VerdictTells

\* When the rollback after a failed smoke test reports success, the version
\* that failed is gone from the users' sight.
THEOREM SmokeRollbackWorks == Undisturbed => (PSpec => SmokeRollbackLeaves)
<1> SUFFICES ASSUME Undisturbed PROVE PSpec => SmokeRollbackLeaves
  OBVIOUS
<1> DEFINE P == (stage = "rollback" /\ verdict' = "FAILURE" /\ exit[ci] = Deployed)
                  => VersionServed' # sha
<1>1. ASSUME TellInv, PNext PROVE P
  <2>1. CASE RollbackEnds
    <3>1. VersionServed' = VersionServed
      BY <2>1, SameHost DEF RollbackEnds, vars
    <3> QED
      BY <1>1, <2>1, <3>1 DEF RollbackEnds, TellInv, Told, RollbackOver
  <2>2. CASE ~RollbackEnds
    BY <1>1, <2>2 DEF PNext, BuildStep, StartBuild, PreDeployFails, EnterDeploy,
       PipFails, DeployEnds, SmokePasses, SmokeFails, Abort, RunStep, ByHand, EndBuild,
       EnterStage, TellInv, Told, BuildAlone
  <2> QED
    BY <2>1, <2>2
<1>2. TellInv /\ [PNext]_pvars => [P]_pvars
  BY <1>1
<1>3. TellInv /\ [PNext]_pvars => TellInv'
  BY PNextTells
<1> QED
  BY <1>2, <1>3, PInitTells, PTL DEF PSpec, SmokeRollbackLeaves

\* Under the same conditions no build, no drill and no run by hand between
\* builds, a failover included, lets users reach a container that fails its
\* health check.
THEOREM BuildsServeGoodVersions == Calm => (PSpec => []LiveBuildIsGood)
  BY BuildsRunTheScripts, UsersMeetGoodBuilds, PTL
=============================================================================
