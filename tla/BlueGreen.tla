----------------------------- MODULE BlueGreen -----------------------------
(***************************************************************************)
(* The blue-green pipeline: one instance with two container slots behind   *)
(* nginx, the deployment ledger in S3, and the runs that change them:      *)
(* deploy.py (and its rollback drill), rollback.py, and the last step of   *)
(* promote_replica.sh, which restarts the live container.                  *)
(*                                                                         *)
(* A run is executed by an operator (a Jenkins build or a person).  Each   *)
(* remote command, each effect of a remote script and each S3 request is a *)
(* step of its own, so that another run, a lost ssh connection or a kill   *)
(* can come between any two of them.                                       *)
(***************************************************************************)
EXTENDS Integers, Sequences, FiniteSets

CONSTANTS
  Tags,        \* image tags that can be pulled
  BadTags,     \* tags whose /health never answers 200
  NoTag,       \* the empty tag ("", None)
  Operators,   \* who may run the scripts
  Retries,     \* health check attempts (--retries)
  MaxHistory,  \* MAX_HISTORY_ENTRIES
  MaxRuns,     \* bound: how many runs are started in a behaviour
  Exclusive,   \* runs never overlap (disableConcurrentBuilds, one person)
  Faults,      \* which of AllFaults can happen
  Kinds        \* which of AllKinds of run are started

AllFaults == {"cut",      \* a run dies between writing nginx's file and the reload
              "reload",   \* systemctl reload/start nginx fails
              "restart"}  \* nginx is restarted from outside the pipeline
AllKinds == {"deploy", "drill", "rollback", "failover"}

ASSUME TagsAssumption == BadTags \subseteq Tags /\ NoTag \notin Tags
ASSUME BoundsAssumption ==
  /\ Retries \in Nat \ {0}
  /\ MaxHistory \in Nat \ {0}
  /\ MaxRuns \in Nat
ASSUME ModeAssumption ==
  /\ Exclusive \in BOOLEAN
  /\ Faults \subseteq AllFaults
  /\ Kinds \subseteq AllKinds

Colors == {"blue", "green"}
NoColor == "none"
LedgerAttempts == 3   \* range(1, 4) around write_last_good

\* Exit statuses; 1 is also what an uncaught exception or a failed script gives.
Deployed == 0
RolledBack == 1
LedgerStale == 2
Precondition == 3
Raised == RolledBack
NoExit == -1          \* still running, or killed before it could report

VARIABLES
  conf,      \* the colour nginx's conf file names ("none": no file)
  proxy,     \* the colour the running nginx sends requests to
  bak,       \* the colour in state/nginx-zerodown.conf.prev
  slot,      \* the container in each colour's slot
  lastGood,  \* image_tag of last-good.json
  history,   \* history.json
  pc,        \* where each operator's run is
  job,       \* the local state of each operator's run
  exit,      \* how each operator's last run ended
  runs       \* bound: runs started so far

host == <<conf, proxy, bak, slot>>
ledger == <<lastGood, history>>
vars == <<host, ledger, pc, job, exit, runs>>

-----------------------------------------------------------------------------
(* Types *)

Vacant == [tag |-> NoTag, ok |-> FALSE, up |-> FALSE]
Containers == [tag : Tags \cup {NoTag}, ok : BOOLEAN, up : BOOLEAN]
Entries == [tag : Tags, status : {"success", "failed"}]

Jobs ==
  [kind    : AllKinds \cup {"none"},
   tag     : Tags \cup {NoTag},          \* the tag to start
   current : Colors \cup {NoColor},      \* deploy.py's `current`
   target  : Colors \cup {NoColor},      \* deploy.py's `target`
   attempt : Nat,                        \* of the loop the run is in
   status  : {"success", "failed"},      \* what append_history will record
   seen    : Seq(Entries),               \* history as last read from S3
   live    : Tags \cup {NoTag},          \* rollback.py's live_version
   backup  : BOOLEAN]                    \* switch_traffic.sh's BACKUP is set

NoJob ==
  [kind |-> "none", tag |-> NoTag, current |-> NoColor, target |-> NoColor,
   attempt |-> 1, status |-> "failed", seen |-> << >>, live |-> NoTag,
   backup |-> FALSE]

Labels ==
  {"idle", "live", "recorded", "past", "pick", "fo_active", "fo_inspect",
   "active", "inactive", "pull", "remove", "create", "gate", "teardown",
   "still_live", "install", "test", "reload", "drain", "last_good",
   "hist_read", "hist_write"}

ExitCodes == {NoExit, Deployed, RolledBack, LedgerStale, Precondition}

HostTypeOK ==
  /\ conf \in Colors \cup {NoColor}
  /\ proxy \in Colors \cup {NoColor}
  /\ bak \in Colors \cup {NoColor}
  /\ slot \in [Colors -> Containers]

LedgerTypeOK ==
  /\ lastGood \in Tags \cup {NoTag}
  /\ history \in Seq(Entries)
  /\ Len(history) <= MaxHistory

RunTypeOK ==
  /\ pc \in [Operators -> Labels]
  /\ job \in [Operators -> Jobs]
  /\ exit \in [Operators -> ExitCodes]
  /\ runs \in 0..MaxRuns

\* The type of every variable; the history never outgrows its limit.
TypeOK == HostTypeOK /\ LedgerTypeOK /\ RunTypeOK

Init ==
  /\ conf = NoColor /\ proxy = NoColor /\ bak = NoColor
  /\ slot = [c \in Colors |-> Vacant]
  /\ lastGood = NoTag /\ history = << >>
  /\ pc = [o \in Operators |-> "idle"]
  /\ job = [o \in Operators |-> NoJob]
  /\ exit = [o \in Operators |-> NoExit]
  /\ runs = 0

-----------------------------------------------------------------------------
(* Control of a run *)

Goto(o, label) == pc' = [pc EXCEPT ![o] = label]

\* The run ends and its local state is gone.
Exit(o, code) ==
  /\ pc' = [pc EXCEPT ![o] = "idle"]
  /\ job' = [job EXCEPT ![o] = NoJob]
  /\ exit' = [exit EXCEPT ![o] = code]
  /\ UNCHANGED runs

\* The run goes on at label, its local state unchanged or set to j.
Continue(o, label) == Goto(o, label) /\ UNCHANGED <<job, exit, runs>>
ContinueWith(o, label, j) ==
  /\ Goto(o, label)
  /\ job' = [job EXCEPT ![o] = j]
  /\ UNCHANGED <<exit, runs>>

\* The last effect of a remote script: ssh() returns its status, or the
\* connection is lost and fail() ends the run although the effect happened.
Return(o, label) == Continue(o, label) \/ Exit(o, Precondition)

\* How a run ends when start_container.sh fails: fail() in the two Python
\* scripts, `set -e` in promote_replica.sh.
ScriptFailed(o) ==
  Exit(o, IF job[o].kind = "failover" THEN RolledBack ELSE Precondition)

-----------------------------------------------------------------------------
(* Starting a run *)

MayStart(o, k) ==
  /\ k \in Kinds
  /\ runs < MaxRuns
  /\ pc[o] = "idle"
  /\ Exclusive => \A p \in Operators : pc[p] = "idle"

Start(o, k, t, label) ==
  /\ MayStart(o, k)
  /\ Goto(o, label)
  /\ job' = [job EXCEPT ![o] = [NoJob EXCEPT !.kind = k, !.tag = t]]
  /\ exit' = [exit EXCEPT ![o] = NoExit]
  /\ runs' = runs + 1
  /\ UNCHANGED <<host, ledger>>

\* deploy.py --tag t, with or without --break-health.
StartDeploy(o) == \E k \in {"deploy", "drill"}, t \in Tags : Start(o, k, t, "active")

\* rollback.py, with --tag t or without (NoTag).
StartRollback(o) == \E t \in Tags \cup {NoTag} : Start(o, "rollback", t, "live")

\* promote_replica.sh once the database part is done.
StartFailover(o) == Start(o, "failover", NoTag, "fo_active")

-----------------------------------------------------------------------------
(* rollback.py: what is live, what is recorded, where to go back to *)

\* A request to container c is answered by a healthy process.
Serving(c) == slot[c].up /\ slot[c].ok

\* The version the public endpoint reports, NoTag if it reports none.
VersionServed ==
  IF proxy \in Colors THEN IF Serving(proxy) THEN slot[proxy].tag ELSE NoTag
  ELSE NoTag

\* Best effort: an unreachable service and a slow one both read as "".
ReadLive(o) ==
  /\ pc[o] = "live"
  /\ \E v \in {NoTag, VersionServed} :
       ContinueWith(o, "recorded", [job[o] EXCEPT !.live = v])
  /\ UNCHANGED <<host, ledger>>

IgnoreStaleness(o) == FALSE   \* slip: the check left out
StaleLedger(o) ==
  /\ job[o].live # NoTag
  /\ lastGood # NoTag
  /\ job[o].live # lastGood

CheckLedger(o) ==
  /\ pc[o] = "recorded"
  /\ \/ job[o].tag # NoTag /\ Continue(o, "active")
     \/ job[o].tag = NoTag /\ StaleLedger(o) /\ Exit(o, Precondition)
     \/ job[o].tag = NoTag /\ ~StaleLedger(o) /\ Continue(o, "past")
  /\ UNCHANGED <<host, ledger>>

ReadPast(o) ==
  /\ pc[o] = "past"
  /\ ContinueWith(o, "pick", [job[o] EXCEPT !.seen = history])
  /\ UNCHANGED <<host, ledger>>

\* The positions in the history read that previous_good_tag may return;
\* last-good.json is read again, after the history.
Candidates(o) ==
  {i \in DOMAIN job[o].seen : /\ job[o].seen[i].status = "success"
                              /\ job[o].seen[i].tag # lastGood}

PickPrevious(o) ==
  /\ pc[o] = "pick"
  /\ \/ Candidates(o) = {} /\ Exit(o, Precondition)
     \/ \E i \in Candidates(o) :
          /\ \A j \in Candidates(o) : j <= i
          /\ ContinueWith(o, "active",
               [job[o] EXCEPT !.tag = job[o].seen[i].tag, !.seen = << >>])
  /\ UNCHANGED <<host, ledger>>

-----------------------------------------------------------------------------
(* promote_replica.sh: which container to restart *)

InspectActive(o) ==
  /\ pc[o] = "fo_active"
  /\ \/ conf = NoColor /\ Exit(o, Deployed)
     \/ /\ conf # NoColor
        /\ ContinueWith(o, "fo_inspect",
             [job[o] EXCEPT !.current = conf, !.target = conf])
  /\ UNCHANGED <<host, ledger>>

\* With no image found - no container, or docker inspect failed - the script
\* only warns and reports the failover complete.
InspectImage(o) ==
  /\ pc[o] = "fo_inspect"
  /\ LET found == slot[job[o].current].tag IN
       \/ Exit(o, Deployed)
       \/ found # NoTag /\ ContinueWith(o, "pull", [job[o] EXCEPT !.tag = found])
  /\ UNCHANGED <<host, ledger>>

-----------------------------------------------------------------------------
(* The two colours: two separate remote reads of the same file *)

ReadActive(o) ==
  /\ pc[o] = "active"
  /\ ContinueWith(o, "inactive", [job[o] EXCEPT !.current = conf])
  /\ UNCHANGED <<host, ledger>>

SameColor(c) == IF c = "green" THEN "green" ELSE "blue"   \* slip: not the other one
AlwaysBlue(c) == "blue"                                   \* slip: never alternates
InactiveColor(c) == IF c = "blue" THEN "green" ELSE "blue"

ReadInactive(o) ==
  /\ pc[o] = "inactive"
  /\ ContinueWith(o, "pull", [job[o] EXCEPT !.target = InactiveColor(conf)])
  /\ UNCHANGED <<host, ledger>>

-----------------------------------------------------------------------------
(* start_container.sh *)

SetSlot(c, container) == slot' = [slot EXCEPT ![c] = container]

Pull(o) ==
  /\ pc[o] = "pull"
  /\ Continue(o, "remove") \/ ScriptFailed(o)
  /\ UNCHANGED <<host, ledger>>

\* docker rm -f, when a container has the slot's name.
RemoveStale(o) ==
  /\ pc[o] = "remove"
  /\ \/ SetSlot(job[o].target, Vacant) /\ Continue(o, "create")
     \/ UNCHANGED slot /\ slot[job[o].target] # Vacant /\ ScriptFailed(o)
  /\ UNCHANGED <<conf, proxy, bak, ledger>>

\* Only deploy.py --break-health passes BREAK_HEALTHCHECK=1.
BrokenByDefault(o) == job[o].kind \in {"drill", "failover"}   \* slip: ${4:-1}
Broken(o) == job[o].kind = "drill"

NewContainer(o) ==
  [tag |-> job[o].tag, ok |-> job[o].tag \notin BadTags /\ ~Broken(o), up |-> TRUE]

Create(o) ==
  /\ pc[o] = "create"
  /\ slot[job[o].target] = Vacant
  /\ SetSlot(job[o].target, NewContainer(o))
  /\ \/ job[o].kind = "failover" /\ Exit(o, Deployed)
     \/ job[o].kind # "failover" /\ Return(o, "gate")
  /\ UNCHANGED <<conf, proxy, bak, ledger>>

\* docker run fails: the name is taken, or the container could not be made or
\* not started (docker then leaves it behind, stopped).
CreateFails(o) ==
  /\ pc[o] = "create"
  /\ \/ UNCHANGED slot
     \/ /\ slot[job[o].target] = Vacant
        /\ SetSlot(job[o].target, [NewContainer(o) EXCEPT !.up = FALSE])
  /\ ScriptFailed(o)
  /\ UNCHANGED <<conf, proxy, bak, ledger>>

-----------------------------------------------------------------------------
(* healthcheck.sh *)

\* HTTP 200, status ok or degraded, and the version just deployed.
AnswersAtAll(o) == slot[job[o].target].up       \* slip: any answer will do
IgnoresVersion(o) == Serving(job[o].target)     \* slip: whatever answers will do
Healthy(o) ==
  /\ Serving(job[o].target)
  /\ slot[job[o].target].tag = job[o].tag

GatePass(o) ==
  /\ pc[o] = "gate"
  /\ Healthy(o)
  /\ ContinueWith(o, "install", [job[o] EXCEPT !.status = "success", !.attempt = 1])
  /\ UNCHANGED <<host, ledger>>

\* A healthy build may still miss: it is starting, or MySQL does not answer.
GateMiss(o) ==
  /\ pc[o] = "gate"
  /\ job[o].attempt < Retries
  /\ ContinueWith(o, "gate", [job[o] EXCEPT !.attempt = @ + 1])
  /\ UNCHANGED <<host, ledger>>

GateUnhealthy(o) ==
  /\ pc[o] = "gate"
  /\ job[o].attempt = Retries
  /\ Continue(o, "teardown")
  /\ UNCHANGED <<host, ledger>>

\* check=False: a lost connection counts as an unhealthy answer.
GateLost(o) ==
  /\ pc[o] = "gate"
  /\ Continue(o, "teardown")
  /\ UNCHANGED <<host, ledger>>

-----------------------------------------------------------------------------
(* stop_container.sh: a docker stop or rm that fails only logs a warning *)

StopOutcomes(c) == {Vacant, c, [c EXCEPT !.up = FALSE]}

Stop(color) == \E left \in StopOutcomes(slot[color]) : SetSlot(color, left)

Teardown(o) ==
  /\ pc[o] = "teardown"
  /\ Stop(job[o].target)
  /\ Continue(o, "still_live")
  /\ UNCHANGED <<conf, proxy, bak, ledger>>

\* active_color once more, for the history entry only.
StillLive(o) ==
  /\ pc[o] = "still_live"
  /\ Continue(o, "hist_read")
  /\ UNCHANGED <<host, ledger>>

Drain(o) ==
  /\ pc[o] = "drain"
  /\ Stop(job[o].current)
  /\ Return(o, "last_good")
  /\ UNCHANGED <<conf, proxy, bak, ledger>>

-----------------------------------------------------------------------------
(* switch_traffic.sh *)

\* Back the conf file up, if there is one, and write the new one.
Install(o) ==
  /\ pc[o] = "install"
  /\ conf' = job[o].target
  /\ bak' = IF conf = NoColor THEN bak ELSE conf
  /\ ContinueWith(o, "test", [job[o] EXCEPT !.backup = conf # NoColor])
  /\ UNCHANGED <<proxy, slot, ledger>>

ConfigAccepted(o) ==
  /\ pc[o] = "test"
  /\ Continue(o, "reload")
  /\ UNCHANGED <<host, ledger>>

KeepRejected(o) == conf   \* slip: die without the restore
Restored(o) == IF job[o].backup THEN bak ELSE NoColor

\* slip: restore the file and try the switch again, for ever.
RetrySwitch(o) ==
  /\ pc[o] = "test"
  /\ conf' = Restored(o)
  /\ Continue(o, "install")
  /\ UNCHANGED <<proxy, bak, slot, ledger>>

\* nginx -t fails: put the old file back, or remove the new one, and die.
\* The restored file is reloaded only if nginx -t now passes.
ConfigRejected(o) ==
  /\ pc[o] = "test"
  /\ conf' = Restored(o)
  /\ proxy' = proxy \/ (job[o].backup /\ proxy' = conf')
  /\ Exit(o, Precondition)
  /\ UNCHANGED <<bak, slot, ledger>>

AfterSwitch(o) ==
  IF job[o].current \in {NoColor, job[o].target} THEN "last_good" ELSE "drain"

Reload(o) ==
  /\ pc[o] = "reload"
  /\ proxy' = conf
  /\ Return(o, AfterSwitch(o))
  /\ UNCHANGED <<conf, bak, slot, ledger>>

\* slip: `systemctl reload nginx || warn`, and on with the promotion.
IgnoreReloadFailure(o) ==
  /\ "reload" \in Faults
  /\ pc[o] = "reload"
  /\ Continue(o, AfterSwitch(o))
  /\ UNCHANGED <<host, ledger>>

ReloadFails(o) ==
  /\ "reload" \in Faults
  /\ pc[o] = "reload"
  /\ Exit(o, Precondition)
  /\ UNCHANGED <<host, ledger>>

-----------------------------------------------------------------------------
(* The ledger *)

RecordLastGood(o) ==
  /\ pc[o] = "last_good"
  /\ lastGood' = job[o].tag
  /\ Continue(o, "hist_read")
  /\ UNCHANGED <<host, history>>

\* The request raises; S3 may have stored the object all the same.
\* deploy.py tries again and in the end reports a stale ledger; rollback.py
\* lets the exception go.
LedgerError(o) ==
  /\ pc[o] = "last_good"
  /\ lastGood' \in {lastGood, job[o].tag}
  /\ \/ /\ job[o].kind # "rollback"
        /\ job[o].attempt < LedgerAttempts
        /\ ContinueWith(o, "last_good", [job[o] EXCEPT !.attempt = @ + 1])
     \/ /\ job[o].kind # "rollback"
        /\ job[o].attempt = LedgerAttempts
        /\ Exit(o, LedgerStale)
     \/ job[o].kind = "rollback" /\ Exit(o, Raised)
  /\ UNCHANGED <<host, history>>

\* append_history reads the whole object ...
ReadHistory(o) ==
  /\ pc[o] = "hist_read"
  /\ ContinueWith(o, "hist_write", [job[o] EXCEPT !.seen = history])
  /\ UNCHANGED <<host, ledger>>

\* ... and writes back its last MaxHistory entries, the new one included.
KeepOneMore(h) ==   \* slip: off by one
  IF Len(h) > MaxHistory + 1 THEN SubSeq(h, Len(h) - MaxHistory, Len(h)) ELSE h
KeepOneLess(h) ==   \* slip: off by one, the other way
  IF Len(h) > MaxHistory THEN SubSeq(h, Len(h) - MaxHistory + 2, Len(h)) ELSE h
Truncated(h) ==
  IF Len(h) > MaxHistory THEN SubSeq(h, Len(h) - MaxHistory + 1, Len(h)) ELSE h

Appended(o) ==
  Truncated(Append(job[o].seen, [tag |-> job[o].tag, status |-> job[o].status]))

\* deploy.py returns EXIT_ROLLED_BACK for a failed build, rollback.py fail()s.
FinalCode(o) ==
  CASE job[o].status = "success" -> Deployed
    [] job[o].status = "failed" /\ job[o].kind = "rollback" -> Precondition
    [] OTHER -> RolledBack

WriteHistory(o) ==
  /\ pc[o] = "hist_write"
  /\ history' = Appended(o)
  /\ Exit(o, FinalCode(o)) \/ Exit(o, Raised)
  /\ UNCHANGED <<host, lastGood>>

-----------------------------------------------------------------------------
(* Failures that end a run *)

S3Reads == {"recorded", "past", "pick", "hist_read"}
RemoteSteps ==
  {"active", "inactive", "pull", "remove", "create", "teardown", "still_live",
   "install", "test", "reload", "drain"}

\* Between the new conf file and the reload a run breaks off only as a "cut".
MayBreakOff(o) == pc[o] \in {"test", "reload"} => "cut" \in Faults

\* S3 answers a read with an error, or a write of the history is refused.
S3Raises(o) ==
  /\ pc[o] \in S3Reads \cup {"hist_write"}
  /\ Exit(o, Raised)
  /\ UNCHANGED <<host, ledger>>

\* The remote command is lost before its next effect; fail() exits 3.
SshFails(o) ==
  /\ pc[o] \in RemoteSteps
  /\ job[o].kind # "failover"
  /\ MayBreakOff(o)
  /\ Exit(o, Precondition)
  /\ UNCHANGED <<host, ledger>>

\* The build is aborted (Jenkins' timeout), the shell interrupted.
Killed(o) ==
  /\ pc[o] # "idle"
  /\ MayBreakOff(o)
  /\ Exit(o, NoExit)
  /\ UNCHANGED <<host, ledger>>

\* nginx comes back with the conf file it finds (a reboot, a manual reload).
NginxRestart ==
  /\ "restart" \in Faults
  /\ proxy' = conf
  /\ UNCHANGED <<conf, bak, slot, ledger, pc, job, exit, runs>>

-----------------------------------------------------------------------------
Step(o) ==
  \/ ReadLive(o) \/ CheckLedger(o) \/ ReadPast(o) \/ PickPrevious(o)
  \/ InspectActive(o) \/ InspectImage(o)
  \/ ReadActive(o) \/ ReadInactive(o)
  \/ Pull(o) \/ RemoveStale(o) \/ Create(o) \/ CreateFails(o)
  \/ GatePass(o) \/ GateMiss(o) \/ GateUnhealthy(o) \/ GateLost(o)
  \/ Teardown(o) \/ StillLive(o)
  \/ Install(o) \/ ConfigAccepted(o) \/ ConfigRejected(o)
  \/ Reload(o) \/ ReloadFails(o) \/ Drain(o)
  \/ RecordLastGood(o) \/ LedgerError(o) \/ ReadHistory(o) \/ WriteHistory(o)

BreakOff(o) == S3Raises(o) \/ SshFails(o) \/ Killed(o)

StartRun(o) == StartDeploy(o) \/ StartRollback(o) \/ StartFailover(o)

Next ==
  \/ \E o \in Operators : StartRun(o) \/ Step(o) \/ BreakOff(o)
  \/ NginxRestart

Spec == Init /\ [][Next]_vars

\* A run that is not idle goes on or is broken off: remote commands and S3
\* requests return, fail or time out, and Jenkins' build timeout kills a run
\* that still hangs.
Fairness == \A o \in Operators : WF_vars(Step(o) \/ BreakOff(o))
FairSpec == Spec /\ Fairness

-----------------------------------------------------------------------------
(* What must hold.  Which runs, faults and bounds each property is checked   *)
(* under is the business of the MC configurations.                           *)

\* Users get answers: whatever nginx routes to is a running, healthy
\* container, at every step of every run - deploy.py:6-8, "a failure at any
\* point before step 4 cannot touch the container currently serving users".
TrafficServed == proxy # NoColor => Serving(proxy)

\* The container named in nginx's conf file is running and healthy, so that
\* a restart of nginx, or the reload a broken-off run never made, finds a
\* service: the restore in switch_traffic.sh and the choice of the slot rest
\* on it even when nginx itself has not followed the file yet.
ConfServes == conf # NoColor => Serving(conf)

\* No request reaches a build that fails its health check, whatever else is
\* broken (README: "a broken deploy never reaches users").
LiveBuildIsGood == proxy # NoColor /\ slot[proxy].up => slot[proxy].ok

\* Everything rollback.py may choose from passed a health check: last-good
\* and every success in the history (common.py:11-13), even when runs overlap.
LedgerSound ==
  /\ lastGood \notin BadTags
  /\ \A i \in DOMAIN history :
       history[i].status = "success" => history[i].tag \notin BadTags

\* rollback.py without --tag, having seen which version is live, never picks
\* that version (rollback.py:16-17), and never runs on a ledger that names
\* another one: after an unrecorded deploy it refuses instead.
RollbackLeavesLive ==
  [][\A o \in Operators :
       (pc[o] = "pick" /\ pc'[o] = "active" /\ job[o].live # NoTag)
         => /\ job'[o].tag # job[o].live
            /\ lastGood = job[o].live]_vars

\* The run of operator o ends with the given status in this step.
Ends(o, code) == exit[o] = NoExit /\ exit'[o] = code

\* Status 0 of a deploy or rollback means deployed and recorded, status 2
\* deployed and live (common.py:44 and 46): nginx routes to the container the
\* run started, its version is up, and for 0 the ledger says so.
ExitTellsTruth ==
  [][\A o \in Operators :
       (job[o].kind # "failover" /\ (Ends(o, Deployed) \/ Ends(o, LedgerStale)))
         => /\ proxy' = job[o].target
            /\ Serving(proxy)' /\ slot'[proxy'].tag = job[o].tag
            /\ Ends(o, Deployed) =>
                 /\ lastGood' = job[o].tag
                 /\ history'[Len(history')] = [tag |-> job[o].tag, status |-> "success"]
    ]_vars

\* The order of the labels on every path of the scripts.
Order ==
  [live |-> 1, recorded |-> 2, past |-> 3, pick |-> 4, fo_active |-> 5,
   fo_inspect |-> 6, active |-> 7, inactive |-> 8, pull |-> 9, remove |-> 10,
   create |-> 11, gate |-> 12, teardown |-> 13, still_live |-> 14, install |-> 15,
   test |-> 16, reload |-> 17, drain |-> 18, last_good |-> 19, hist_read |-> 20,
   hist_write |-> 21]

\* What a step of its run brings an operator nearer to: the end, a later
\* label, or the last attempt of the loop it is in.
Advances(o) ==
  \/ pc'[o] = "idle"
  \/ Order[pc[o]] < Order[pc'[o]]
  \/ /\ pc'[o] = pc[o]
     /\ job'[o].attempt = job[o].attempt + 1
     /\ job'[o].attempt <= Retries \/ job'[o].attempt <= LedgerAttempts

\* Nothing ever takes a run back: whatever fails, whatever the others do to its
\* slots and whatever it reads, each of its steps advances it, so that it can
\* only make boundedly many (the loops of healthcheck.sh:29 and deploy.py:155).
RunsAdvance ==
  [][\A o \in Operators :
       pc[o] # "idle" => Advances(o) \/ (pc'[o] = pc[o] /\ job'[o] = job[o])]_vars

\* Every run ends: no retry loop, and no failure path, goes on for ever.
EveryRunEnds == \A o \in Operators : pc[o] # "idle" ~> pc[o] = "idle"

\* nginx catches up with its conf file, or the file goes back to what nginx
\* serves: the disagreement that a switch creates does not last.
SwitchSettles == conf # proxy ~> conf = proxy

-----------------------------------------------------------------------------
(* What the code's documentation says and the code does not do *)

\* common.py:49-50: "Only deploy.py's rollback path may exit 1" - the failed
\* build was destroyed and traffic never moved to it.
ExitOneMeansRolledBack ==
  [][\A o \in Operators :
       (job[o].kind \in {"deploy", "drill"} /\ Ends(o, RolledBack))
         => job[o].status = "failed" /\ proxy' # job[o].target]_vars

\* common.py:47: status 3 means "failed before any traffic change".
ExitThreeMeansUnchanged ==
  [][\A o \in Operators :
       (job[o].kind \in {"deploy", "drill"} /\ Ends(o, Precondition)
          /\ job[o].target # NoColor)
         => proxy' # job[o].target]_vars

\* deploy.py:20: "Every attempt, successful or not, is appended" - at least
\* when the script itself reports how the attempt ended.
EveryAttemptRecorded ==
  [][\A o \in Operators :
       (job[o].kind \in {"deploy", "drill"} /\ (Ends(o, Deployed) \/ Ends(o, LedgerStale)))
         => /\ history' # << >>
            /\ history'[Len(history')].tag = job[o].tag]_vars

\* ZeroDownPipeline-project-spec.md:80: "append-only log of every deploy
\* attempt".  Of two runs that overlap, the later write drops what the other
\* appended.
HistoryAppendOnly ==
  [][history' # history =>
       \E e \in Entries : history' = Truncated(Append(history, e))]_vars

\* start_container.sh:28-29: "the slot is only ever the INACTIVE one, so
\* removing it cannot affect live traffic".
RemoveSparesLive ==
  [][\A o \in Operators :
       (pc[o] = "remove" /\ pc'[o] = "create") => job[o].target # proxy]_vars

-----------------------------------------------------------------------------
(* The abstract specification this one implements *)

Gate == INSTANCE TrafficGate WITH serving <- VersionServed, recorded <- lastGood

GateSpec == Gate!Spec
=============================================================================
