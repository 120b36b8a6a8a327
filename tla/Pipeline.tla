------------------------------ MODULE Pipeline ------------------------------
(***************************************************************************)
(* The Jenkins job around deploy.py: the stages before it, the verdict on  *)
(* its exit status, the smoke test through nginx (deploy/healthcheck.py)   *)
(* and the rollback a failed smoke test starts.  Builds do not overlap     *)
(* (disableConcurrentBuilds); between two of them somebody may run any     *)
(* script by hand.  The runs themselves are those of BlueGreen.            *)
(***************************************************************************)
EXTENDS BlueGreen

CONSTANTS
  ci,          \* the operator that executes the builds
  PipStatuses  \* exit statuses of a failing `pip install boto3`

ASSUME PipelineAssumption == ci \in Operators /\ PipStatuses \subseteq Nat \ {0}

VARIABLES
  stage,    \* the stage of the build
  sha,      \* IMAGE_TAG
  drill,    \* params.ROLLBACK_DRILL
  outcome,  \* env.DEPLOY_OUTCOME
  before,   \* the version users were served when the build started
  verdict   \* how a build ended in the last step, if one did

build == <<stage, sha, drill, outcome, before>>
pvars == <<vars, build, verdict>>

Stages == {"none", "pre", "deploy", "smoke", "rollback"}
Outcomes == {"", "deployed", "deployed-ledger-stale", "never-deployed",
             "rolled-back", "rolled-back-as-expected"}
Verdicts == {"none", "SUCCESS", "UNSTABLE", "FAILURE", "ABORTED"}

PTypeOK ==
  /\ stage \in Stages /\ sha \in Tags \cup {NoTag} /\ drill \in BOOLEAN
  /\ outcome \in Outcomes /\ before \in Tags \cup {NoTag} /\ verdict \in Verdicts

PInit ==
  /\ Init
  /\ stage = "none" /\ sha = NoTag /\ drill = FALSE /\ outcome = ""
  /\ before = NoTag /\ verdict = "none"

-----------------------------------------------------------------------------
(* Control of a build *)

EnterStage(s) ==
  /\ stage' = s /\ verdict' = "none"
  /\ UNCHANGED <<sha, drill, before>>

EndBuild(v, why) ==
  /\ stage' = "none" /\ verdict' = v /\ outcome' = why
  /\ sha' = NoTag /\ drill' = FALSE /\ before' = NoTag

\* A new build; the bound leaves room for its deploy and its rollback.
StartBuild ==
  /\ stage = "none" /\ pc[ci] = "idle" /\ runs + 2 <= MaxRuns
  /\ Exclusive => \A o \in Operators : pc[o] = "idle"
  /\ stage' = "pre" /\ outcome' = "" /\ verdict' = "none"
  /\ sha' \in Tags /\ drill' \in BOOLEAN
  /\ before' = VersionServed
  /\ UNCHANGED vars

\* Checkout, lint, tests, docker build and push; none touches the instance.
PreDeployFails ==
  /\ stage = "pre"
  /\ EndBuild("FAILURE", "")
  /\ UNCHANGED vars

-----------------------------------------------------------------------------
(* Deploy stage *)

EnterDeploy ==
  /\ stage = "pre"
  /\ Start(ci, IF drill THEN "drill" ELSE "deploy", sha, "active")
  /\ EnterStage("deploy") /\ UNCHANGED outcome

StaleIsDeployed(status) ==   \* slip: status 2 is a success like 0
  IF status \in {Deployed, LedgerStale} THEN "deployed" ELSE "rolled-back"

OutcomeMisspelt(status) ==   \* slip: an outcome nobody compares with
  IF status = Deployed THEN "deployed" ELSE "rolledback"

\* What the stage makes of the status of its shell step.
OutcomeOf(status) ==
  CASE status = LedgerStale -> "deployed-ledger-stale"
    [] status = Precondition -> "never-deployed"
    [] status = Deployed -> "deployed"
    [] OTHER -> IF drill THEN "rolled-back-as-expected" ELSE "rolled-back"

VerdictOf(why) ==
  IF why \in {"deployed-ledger-stale", "rolled-back-as-expected"}
  THEN "UNSTABLE" ELSE "FAILURE"

ReadStatus(status) ==
  \/ /\ OutcomeOf(status) = "deployed"
     /\ EnterStage("smoke") /\ outcome' = "deployed"
  \/ /\ OutcomeOf(status) # "deployed"
     /\ EndBuild(VerdictOf(OutcomeOf(status)), OutcomeOf(status))

\* set -e: a failing pip install is the status of the step.
PipFails ==
  /\ stage = "pre"
  /\ \E status \in PipStatuses : ReadStatus(status)
  /\ UNCHANGED vars

DeployEnds ==
  /\ stage = "deploy" /\ pc[ci] = "idle"
  /\ ReadStatus(exit[ci])
  /\ UNCHANGED vars

-----------------------------------------------------------------------------
(* Smoke test stage *)

\* healthcheck.py: /health reports the tag, a link is created, followed, and
\* found with its click on the replica.  Anything else is a failure, a slow
\* answer and a lagging replica included.
ShaIsServed == VersionServed = sha

SmokePasses ==
  /\ stage = "smoke"
  /\ ShaIsServed
  /\ EndBuild("SUCCESS", outcome)
  /\ UNCHANGED vars

RedeployLastGood ==   \* slip: rollback.py is given the tag of the ledger
  /\ stage = "smoke"
  /\ Start(ci, "rollback", lastGood, "live")
  /\ EnterStage("rollback") /\ UNCHANGED outcome

SmokeFails ==
  /\ stage = "smoke"
  /\ Start(ci, "rollback", NoTag, "live")
  /\ EnterStage("rollback") /\ UNCHANGED outcome

RollbackSucceeds ==   \* slip: a failing rollback is not noticed
  /\ stage = "rollback" /\ pc[ci] = "idle" /\ exit[ci] = Deployed
  /\ EndBuild("FAILURE", outcome)
  /\ UNCHANGED vars

\* Failed or not, the build is a failure.
RollbackEnds ==
  /\ stage = "rollback" /\ pc[ci] = "idle"
  /\ EndBuild("FAILURE", outcome)
  /\ UNCHANGED vars

-----------------------------------------------------------------------------
(* The build is aborted: by hand, or after 25 minutes *)

Abort ==
  /\ stage # "none"
  /\ \/ pc[ci] = "idle" /\ UNCHANGED vars
     \/ Killed(ci)
  /\ EndBuild("ABORTED", outcome)

-----------------------------------------------------------------------------
\* The script of the build, or one that is run by hand, goes on or breaks off.
RunStep ==
  /\ \E o \in Operators : Step(o) \/ BreakOff(o)
  /\ verdict' = "none" /\ UNCHANGED build

ByHand ==
  /\ stage = "none"
  /\ \E o \in Operators : StartRun(o)
  /\ verdict' = "none" /\ outcome' = ""
  /\ UNCHANGED <<stage, sha, drill, before>>

BuildStep ==
  \/ PreDeployFails \/ EnterDeploy \/ PipFails \/ DeployEnds
  \/ SmokePasses \/ SmokeFails \/ RollbackEnds

PNext == StartBuild \/ BuildStep \/ Abort \/ RunStep \/ ByHand

PSpec == PInit /\ [][PNext]_pvars

\* Jenkins goes on with a build, and the runs end as in BlueGreen.
PFairSpec == PSpec /\ WF_pvars(BuildStep) /\ WF_pvars(RunStep)

-----------------------------------------------------------------------------
(* What must hold *)

\* The verdict of a build tells what users are served (Jenkinsfile:172-201):
\* after SUCCESS the new version, recorded in the ledger; after
\* deployed-ledger-stale the new version; after rolled-back-as-expected still
\* the version they were served when the drill began.
VerdictTells ==
  [][/\ verdict' = "SUCCESS" => VersionServed' = sha /\ lastGood' = sha
     /\ (verdict' = "UNSTABLE" /\ outcome' = "deployed-ledger-stale")
          => VersionServed' = sha
     /\ (verdict' = "UNSTABLE" /\ outcome' = "rolled-back-as-expected")
          => VersionServed' = before]_pvars

\* When the rollback after a failed smoke test returns 0, the version that
\* failed is not served any more (Jenkinsfile:222-227).
SmokeRollbackLeaves ==
  [][(stage = "rollback" /\ verdict' = "FAILURE" /\ exit[ci] = Deployed)
       => VersionServed' # sha]_pvars

\* Every build ends: with a verdict, or aborted.
EveryBuildEnds == stage # "none" ~> stage = "none"

-----------------------------------------------------------------------------
(* What the code's documentation says and the code does not do *)

\* Jenkinsfile:243: "FAILURE: ... Live traffic is unaffected."
FailureSparesTraffic ==
  [][verdict' = "FAILURE" => VersionServed' = before]_pvars

\* Jenkinsfile:194: "Rollback drill worked: the bad build was caught and torn
\* down" - a build that says so has run deploy.py.
DrillRan ==
  [][(verdict' = "UNSTABLE" /\ outcome' = "rolled-back-as-expected")
       => stage = "deploy"]_pvars
=============================================================================
