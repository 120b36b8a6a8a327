# ZeroDownPipeline in TLA+

ZeroDownPipeline deploys a small Python API to one EC2 instance: two container
slots (blue and green) behind nginx, a health check that decides which build
gets traffic, a ledger of deployments in S3, Jenkins as the driver, a pair of
MySQL servers with a manual failover, and two scripts that make and destroy the
AWS resources. These modules model five parts: the switch between the slots, the
Jenkins builds around it, the pair of databases, the application over them, and
the AWS scripts. They are checked with TLC, and the main invariants are proved
with TLAPS. Paths below are relative to the repository (`src/`).

## Inventory

| Component | State it keeps | Operations | Interacts with | What is hard | What makes it correct |
|---|---|---|---|---|---|
| `deploy/deploy.py` | its local `current`, `target`; exit status | deploy, drill (`--break-health`) | instance over ssh, ledger in S3, Jenkins by exit status | ten remote steps, each can fail or lose its answer; colours read long before they are used | users served throughout; the exit status tells what happened |
| `deploy/rollback.py` | `live_version`, tag chosen | roll back to a tag or to the previous good one, `--list` | the public endpoint, ledger, instance | ledger and reality may differ; two reads of the ledger | never goes back by a ledger known to be stale, never picks the live version |
| `deploy/common.py` ledger | `deployments/last-good.json`, `deployments/history.json` | `write_last_good`, `append_history` | S3 | unlocked read-modify-write, ambiguous writes, truncation | names only builds that passed; append-only |
| `deploy/common.py` ssh, configuration | none; environment | `ssh`, `remote_script`, `load_config`, `discover_host` | instance, AWS | a lost connection looks like a failed command | - |
| `scripts/lib.sh` | none; reads nginx's file and `.env` | `active_color`, `inactive_color`, `other_color` | nginx's conf file | the file is not the running proxy; ports may change under it | the slot called inactive does not serve users |
| `start_container.sh`, `stop_container.sh` | the two containers | pull, remove, run; stop, remove | Docker | a failure between remove and run; stop failures are warnings | - |
| `scripts/healthcheck.sh` | attempt counter | poll `/health` | the new container | the old container on a recycled port, slow start | passes only for the version just started |
| `switch_traffic.sh` + nginx | conf file, its backup, the running proxy | back up, install, `nginx -t`, restore, reload | the next run, by way of the file | file and proxy differ between install and reload | both name a running, healthy container |
| `scripts/db/*.sh`, `docker-compose.data.yml` | MySQL primary and replica (GTID sets, relay log, `read_only`), `DB_HOST` in `.env`, dumps in S3 | set up replication, promote, back up, restore, status | application containers, `sync_scripts.py` | promotion with an undrained relay log, unfenced old primary, reboot without replication, restore under writes | no acknowledged write lost silently; one writable server |
| `deploy/sync_scripts.py` | files on the instance | copy scripts and a filtered `.env` | failover's change of `DB_HOST` | overwrites what a failover wrote | - |
| `Jenkinsfile`, `deploy/healthcheck.py` | outcome of a build | test, build, push, deploy, smoke test, rollback | the scripts by exit status | status 1 has several causes; rollback can fail too | the outcome reported is what users have |
| `app/` | links in MySQL, cache in Redis, audit copies in S3 | create, follow, stats, health | databases | retries of ambiguous inserts, codes equal but for case, replica lag, cache and table out of step, a process that starts without its database | a link that was returned keeps its URL and can be followed; copies repeat the table |
| `infra/` | AWS resources, `outputs.json`, key file | provision, tear down | AWS, its console | crash between two API calls, slow instances, stopped instances | repeatable; at most one instance, with all it needs |
| `measure_downtime.py`, `local_stack.sh`, images, tests, docs | - | - | - | - | - |

`PROJECT.json` lists these components with their status, and the hazards of the
code at the lines where they bite.

## Modules

| Module | What it is |
|---|---|
| `TrafficGate` | The promise, without instance or colours: one version serves, it changes in one step to a healthy version and never goes away, and only the version that serves is recorded as last good. |
| `BlueGreen` | The pipeline: deploy, drill, rollback and the container restart of a failover, run by any number of operators on one instance. |
| `MCBlueGreen` | `BlueGreen` for TLC: the model values and the operator symmetry. |
| `History` | `BlueGreen` with a history variable, the log as it last stood while no run was writing it: what overlapping runs cannot lose. |
| `MCHistory` | `History` for TLC. |
| `BlueGreenProofs` | Type correctness; the ledger never names a broken build; every step of a run takes it nearer to its end; settled history stays. All of it for overlapping runs. |
| `RunProofs` | When runs do not overlap: exit statuses and rollbacks tell the truth, with failovers and under every fault. |
| `SwitchProofs` | The configured container serves, users meet good builds only, users are served, `BlueGreen` implements `TrafficGate`. |
| `Pipeline` | Jenkins builds over `BlueGreen`: stages, the verdict on an exit status, the smoke test and the rollback it starts, with runs by hand between builds. |
| `MCPipeline` | `Pipeline` for TLC. |
| `PipelineProofs` | Builds are runs of `BlueGreen`; the verdict of a build tells what users have. |
| `Follower` | What replication promises while nobody restores or promotes: the replica repeats the primary's rows, in order, each once. |
| `Replication` | The two MySQL servers, the scripts in `scripts/db`, and `DB_HOST` in `.env` and in the containers. |
| `MCReplication` | `Replication` for TLC. |
| `ReplicationProofs` | Type correctness of `Replication`, for every script and fault; a failover is not undone. |
| `PairProofs` | The replica repeats the primary, through failovers and restores; a failover forks the data once; without promotions and restores, dumps are sound and `Replication` implements `Follower`. |
| `LinkBook` | What the application promises, with no cache, replica or requests: a book of links that is only added to. |
| `UrlService` | The application: requests on several threads over the table, the replica, Redis and S3. |
| `MCUrlService` | `UrlService` for TLC: two codes that MySQL takes for one, and a third. |
| `UrlProofs` | Types, acknowledged links, copies, clicks, and that `UrlService` implements `LinkBook`: all its properties. |
| `Provision` | `infra/provision.py` and `infra/teardown.py`, and what they ask of AWS. |
| `MCProvision` | `Provision` for TLC. |
| `ProvisionProofs` | All the safety properties of `Provision`, without an assumption. |

`BlueGreen` and `Replication` meet in the last step of `promote_replica.sh`:
`BlueGreen` has its container restart among deploys and rollbacks (`fo_active`
to `create`), `Replication` has the same restart as one step, among the database
steps, and a deploy as two (start a container, make it live or remove it).
`Pipeline` extends `BlueGreen`: a build starts its runs and reads their exit
status. `UrlService` is one container over a primary; what `Replication` knows
of it is its inserts, what `BlueGreen` knows is the answer of `/health`.

### BlueGreen and the code

State of the instance: `conf` is the colour whose port stands in
`/etc/nginx/conf.d/zerodown.conf` (`"none"` when there is no file), `proxy` the
colour the running nginx routes to, `bak` the saved file
`state/nginx-zerodown.conf.prev`, `slot` the two containers (the image tag, `ok`
when `/health` can answer 200, `up` when the process runs). The ledger:
`lastGood` and `history`. Each operator runs one script at a time: `pc` is where
it is, `job` its local variables, `exit` how its last run ended (`NoExit` while
it runs or when it was killed). `runs` only bounds the model.

A run is a path through these labels:

| Labels | Code |
|---|---|
| `live`, `recorded`, `past`, `pick` | `rollback.py:121-137` and `previous_good_tag`: the version the endpoint reports, the staleness check, the history, last-good.json again, the choice |
| `fo_active`, `fo_inspect` | `promote_replica.sh:66-77` |
| `active`, `inactive` | the two remote reads of the colour, `deploy.py:79-80`, `rollback.py:141-142` |
| `pull`, `remove`, `create` | `start_container.sh` |
| `gate` | `healthcheck.sh`, one step per attempt |
| `teardown`, `still_live` | `stop_container.sh` and the colour for the history entry after a failed check |
| `install`, `test`, `reload` | `switch_traffic.sh`: back up and write the file, `nginx -t` with its restore path, reload or start |
| `drain` | `stop_container.sh` on the old colour, skipped as in `deploy.py:144` |
| `last_good`, `hist_read`, `hist_write` | `write_last_good` with deploy.py's three attempts, `append_history` as a read and a write |

Failures. A remote command can fail before its next effect (`SshFails`, status
3), a script can fail (`ScriptFailed`), the connection can be lost after the
last effect of a script (`Return`); an S3 request can raise (`S3Raises`), and a
write that raised may still have happened (`LedgerError`, `WriteHistory`); a run
can be killed anywhere (`Killed`, the build timeout of Jenkins or an interrupted
shell). The health check's connection is special: it runs with `check=False`,
so a lost one counts as unhealthy (`GateLost`). Three faults are named in the
constant `Faults`, because properties depend on them: `cut` (a run breaks off
between the new nginx file and the reload), `reload` (systemctl fails) and
`restart` (nginx is restarted from outside, with the file it finds).

Constants that choose the setting: `Exclusive` says that runs do not overlap.
Jenkins guarantees it among builds (`disableConcurrentBuilds`, `Jenkinsfile:26`);
people who use the Makefile or the runbook must see to it, failovers included.
`Kinds` lists the kinds of run that are started. `BadTags` are the builds whose
`/health` never answers 200.

Abstractions. Durations, log text and the content of a history entry other than
tag and status are left out. `cp` and `install` of the nginx file are one step,
and so is `nginx -s reload` (the draining of old workers is not visible). The
file `state/active_color` is written and never read, so it is not modelled. A
remote script ends with its connection; one that survives it is not modelled.
`docker rm -f` of a container, `docker run` with its network, and a container
that crashes by itself (`--restart unless-stopped`) are steps or non-events, not
processes. A build's health does not change with time, except that an attempt
of the health check may miss (MySQL does not answer, the process is starting).

Operators marked `slip` in their comment (`SameColor`, `IgnoresVersion`,
`KeepRejected`, ...) are plausible mistakes in the definition that follows them.
No step uses them; they document which mistake each property would catch, and
`PROJECT.json` pairs each with its property.

### Replication and the code

`rows` is what each server holds: its transactions in the order in which they
were committed, numbered over both servers. An insert into `links` is one, and
so are the statements that make the replication user
(`setup_replication.sh:40-45`, one transaction in the model); number 0 stands for
the user, the database and the table, which only the primary creates by itself
(`setup_replication.sh:47-52`). `bin` is the primary's binary log
since the last RESET MASTER, with the number of GTIDs purged before it; `repl`
is the replica's state: whether it has a source, its two threads, its relay log,
how many of the primary's GTIDs it has executed, `read_only` now and in
`mysqld-auto.cnf`. `env` is `DB_HOST` in the instance's `.env`, `app` the value
the live container was started with, `fresh` that of a container a deploy has
started and not yet made live. `s3` holds the dumps and `latest.json`. `op` is
the script an operator runs, `cron` the backup. `written`, `failedOver` record
what happened; `ops` only bounds the model.

| Labels | Code |
|---|---|
| `bo_up` | `bootstrap_db.sh:20-36` |
| `su_check`, `su_user`, `su_point`, `su_arm`, `su_verify` | `setup_replication.sh`: the short-circuit, the replication user, CHANGE REPLICATION SOURCE, read_only, the check of the SQL thread |
| `pr_probe`, `pr_stop`, `pr_drain`, `pr_reset`, `pr_write`, `pr_env`, `pr_restart` | `promote_replica.sh`, steps 1 to 4 |
| `re_fetch`, `re_reset`, `re_load`, `re_stop`, `re_copy` | `restore_db.sh`: the dump, RESET MASTER and load of the primary, the same for the replica |
| `upload`, `pointer` (of `cron`) | `backup_db.sh` after the dump |

Each step is one mysql call, so a server can stop and a script be killed between
any two. With the server down the script dies where the code dies (`ServerGone`,
`set -e`), and goes on where it ignores the error: a STOP of the IO thread that fails
leaves it running (`pr_stop`), a drain that takes too long is given up
(`pr_drain`), and when the live container's image cannot be read there is a
warning and a failover that is "complete" (`pr_restart`). The two `docker
inspect` of that step fail or succeed together, so a version that is `unknown`
is not modelled.
`Faults` names what can happen besides: `down` (a server stops and comes back,
the replica without its threads: `--skip-replica-start`), `kill`, `sql` (the SQL
thread stops), `load` (a dump loads in part or not at all), `busy` (the
application writes during a restore), `meet` (a deploy overlaps a promotion).
`Scripts` names the scripts that are run. `Rerun` says whether replication may
be set up again while `.env` names the promoted server.

MySQL is modelled from what the scripts rely on: `Fetch` asks for the first
GTID not received (auto-position), `Apply` executes it, `IoStops` is the error
for GTIDs the primary no longer or not yet has, which comes late
(`setup_replication.sh:25-29`); a SET of GTID_PURGED that names an executed
transaction is refused. Left out: clicks and deletes (of the application only
inserts are transactions),
the GTIDs of the promoted server (only the primary's count), the expiry of the
binary log, two operators' database scripts at the same time, a dump that is not
a consistent snapshot, the error a row meets that is there already, and the loss
of a server's disk. So the model has no claim about rebuilding the old primary.

### Pipeline and the code

`stage` is where the build is: `pre` stands for the stages up to the push, which
do not touch the instance, then `deploy`, `smoke` and `rollback`. `sha` is
`IMAGE_TAG`, `drill` the parameter, `outcome` is `DEPLOY_OUTCOME`, `before` what
users were served when the build began, and `verdict` how a build ended in the
step just taken. `ci` is the operator of `BlueGreen` that runs the build's
scripts; between builds anybody may run a script by hand (`ByHand`).

| Action | Code |
|---|---|
| `StartBuild`, `PreDeployFails` | `Jenkinsfile:21-151` |
| `EnterDeploy`, `DeployEnds`, `PipFails` | `Jenkinsfile:153-205`: the shell step of the stage is `pip install` and `deploy.py` under `set -e`, so that the status of either is read |
| `SmokePasses`, `SmokeFails` | `Jenkinsfile:207-227` and `deploy/healthcheck.py`: it can pass only if the version expected is served, and fail at any time (a slow answer, a lagging replica) |
| `RollbackEnds` | the rollback and the `error` after it: failed or not, the build fails |
| `Abort` | an abort by hand, the timeout of 25 minutes |

`PipStatuses` are the statuses a failing `pip install` can have. When `PipFails`
is taken the deploy has not begun, which is why it is a step of the stage before.

### UrlService and the code

Each thread of gunicorn has a request (`pc`, `job`); every call to MySQL, Redis
or S3 is a step, and may fail, or raise after it took effect (`InsertRaises`,
`CountRaises`). `primary` is the table, with clicks; `mirror` the rows the
replica has; `cache` and `records` are Redis and S3. `Fold` maps a code to the
key MySQL stores it under: the table is made with the default collation of
utf8mb4, which ignores case, while Redis and S3 compare exactly. `acked` and
`redirects` record the answers 201 and 302 and are read by properties only.

| Labels, actions | Code |
|---|---|
| `insert`, `keep`, `audit`, `created` | `shorten`: up to five inserts, the cache, the audit copy, the answer |
| `get`, `read`, `fill`, `count` | `follow`: the cache, the primary, the cache again, the click and the redirect |
| `stats`, `Health` | `stats` over the replica or, when it does not answer, the primary; `/health` |
| `StartProcess`, `EndProcess` | `create_app` with its one attempt at the schema; gunicorn's timeout, a stopped container |
| `Replicate`, `Forget` | MySQL replication, Redis expiry, eviction and restart |

A failover and a restore are in `Replication`, not here: the primary is one
server that never goes back. `/stats` answers carry the row only as found or not.

### Provision and the code

`bucket` and `iam` are the parts made so far, `keypair`, `group` and `instance`
are named by the number of the script that made them, `pem` says whose private
half the local file holds, `outputs` is `infra/outputs.json`. One person runs
one script at a time; a script may raise or be killed at every label (`Fails`),
so also between a call and the use of its answer. Instances boot and shut down
on their own, and somebody may stop and start them in the console (`Console`).

| Labels | Code |
|---|---|
| `made` to `tagged`, `role` to `attached` | `ensure_bucket`, `ensure_instance_profile` |
| `key`, `pem` | `ensure_key_pair`: the pair in AWS, the file with its only private half |
| `group`, `ssh`, `http` | `ensure_security_group` |
| `launch`, `wait`, `outputs` | `launch_instance`, `write_outputs` |
| `load`, `terminate`, `gone` | `teardown.py`: outputs, instances, the wait |
| `del_group`, `del_key`, `del_pem`, `detach` to `del_role` | `--all` |
| `data`, `unlink` | `--delete-bucket`, the end |

The write of the key file and that of `outputs.json` may break off and leave a
file that is there and of no use (`Torn`, `bad`): `load_outputs` notices, the
check of the key file, `exists()`, does not. Left out: the IAM delays
(`time.sleep(10)`), the address the ssh rule is for, the objects in the bucket.

## Runs

`deploy_*` and `exit_one` are of `MCBlueGreen`, `two_operators` of `MCHistory`; `pair`,
`restore`, `promotion` and `busy_restore` of `MCReplication`; `builds` is of
`MCPipeline`, `urls` and `schema_gate` of `MCUrlService`, `provision` of
`MCProvision`. `v1` and `v2` are good builds, `bad` is a broken one.
`CHECK_DEADLOCK FALSE` everywhere: after the last run, request or script nothing
more is started, and the system rightly rests.

| Run | Setting | Checked | Result |
|---|---|---|---|
| `deploy_safe` | one operator, 4 runs, 2 health attempts, failovers too, no extra fault | `TypeOK`, `LiveBuildIsGood`, `RollbackLeavesLive` | hold, 282,157 states |
| `deploy_faulty` | one operator, 3 runs, deploy/drill/rollback, all three faults | `ConfServes`, `ExitTellsTruth` | hold, 56,110 states |
| `two_operators` | two operators at the same time, 3 runs, failovers too | `LedgerSound`, `RunsAdvance`, `SettledStays` | hold, 831,762 states |
| `builds` | builds of three tags and deploys, drills and rollbacks by hand, 4 runs, 2 health attempts, pip failing with status 1, fairness | `PTypeOK`, `TrafficServed`, `GateSpec`, `VerdictTells`, `SmokeRollbackLeaves`, `EveryBuildEnds`, `EveryRunEnds`, `SwitchSettles` | hold, 274,632 states |
| `exit_one` | deploys | `ExitOneMeansRolledBack` | violated |
| `pair` | set-ups, bootstraps, backups, deploys, syncs; faults `down`, `kill`, `sql` | `TypeOK`, `ReplicaIsPrefix`, `BackupSound`, `PairSpec` | hold, 628,408 states |
| `restore` | set-ups, backups, restores; no fault; fairness | `ReplicaIsPrefix`, `CatchesUp` | hold, 140,720 states |
| `promotion` | failovers, set-ups, bootstraps and deploys; faults `down`, `kill`, `sql`, `meet` | `FailoverHolds`, `CleanFork` | hold, 282,872 states |
| `busy_restore` | a restore while the application writes | `ReplicaIsPrefix` | violated |
| `urls` | two threads, three codes of which two are one to MySQL, two URLs, two attempts, 4 requests | `TypeOK`, `AckStands`, `CopiesAgree`, `ClicksCoverRedirects`, `AckedIsFound`, `BookSpec` | hold, 2,108,543 states |
| `schema_gate` | the same with 2 requests | `HealthGatesSchema` | violated |
| `provision` | 4 scripts with every combination of flags, stops and starts in the console, fairness | `TypeOK`, `InstanceEquipped`, `OneRunning`, `KeyIsKept`, `FinishedIsComplete`, `TornDown`, `EveryScriptEnds` | hold, 109,063 states |

What the passing runs show. With runs one after the other and no run stopped in
the middle of a switch, every failure deploys, rollbacks and builds can meet leaves
users with an answer, and what the public endpoint shows moves as `TrafficGate`
says; a failover makes a gap, but never lets users reach a running build that
fails its health check. When a
switch does stop in the middle, the container the file names is still a healthy
one, so that a restart of nginx is harmless. When people ignore the rule that
runs must not overlap, traffic may be lost but the ledger stays sound, since
only a run that saw its own version answer records it. Such runs also lose
each other's history entries, as the table below says, but no more than that:
an entry that was in the log when nobody was writing it goes only when newer ones
fill the log.

For builds: SUCCESS means that the new version is served and recorded, a drill
that "worked" left users what they had, and after a rollback that reports success
the version that failed its smoke test is gone.

For the databases: whatever stops, breaks off or is repeated, a configured
replica never holds a row the primary does not have or one out of order; dumps
agree with their positions as long as nobody restores or promotes. A restore
nobody disturbs keeps the replica a prefix, and so does a failover (that one is
proved only). Once the application writes to the promoted server, that server
accepts writes and has no source, through reboots, interrupted scripts and later
deploys. And the data forks once and cleanly: the promoted server holds what the
old primary had up to some transaction, none left out, and after it only its own,
even if the drain is given up, the STOP of the IO thread fails, the script breaks
off and is repeated, or a container goes on writing to the old primary. Both
hold provided the set-up is not repeated and no `.env` is shipped; what
happens otherwise, and what else a failover does not give, is listed below.

For the application: retries, restarts, a replica behind and a cache that forgets
never change what an acknowledged link leads to, never make `GET /<code>` answer
404 for it, and never leave a copy of a link the table does not have: to those
who use it the application is the `LinkBook`. (`/stats/<code>` reads the replica
and may answer 404 while that lags.)

For the AWS scripts: whatever broke off before, no script launches a second
instance beside a running one, or one that lacks its group, its profile or its
key pair with a file for it; no script takes the key pair or the file away from an
instance that lives; success means that everything the script stands for is
there, or gone. What is in the key file is not looked at by the scripts, and
nothing is claimed of it.

What the violated runs show. Each refutes a sentence of the repository:

* `exit_one`: a live deploy exits 1, "rolled back", when S3 refuses the history
  entry (`deploy.py:182` is outside the `try`), against `common.py:49-50`.
* `busy_restore`: rows inserted between RESET MASTER and the load make the load
  fail and take GTIDs the replica has seen; it skips them for good, which is
  what `restore_db.sh:54-59` wants to avoid.
* `schema_gate`: a process that starts while the database is down never makes
  its table (`main.py:156`), answers `/health` with 200 once the database is
  back, and every `/shorten` answers 503, against `main.py:153-154`.

Further disagreements, without a configuration of their own. TLC finds each
violated when the property is checked in the setting named:

| Property | Setting | What happens |
|---|---|---|
| `ExitThreeMeansUnchanged` | `exit_one` | a live deploy exits 3, "failed before any traffic change" (`common.py:47`), when the connection is lost at the end of the switch or while the old container is removed |
| `EveryAttemptRecorded` | `exit_one` | status 2 leaves no history entry, against `deploy.py:20` |
| `RemoveSparesLive` | `deploy_faulty` | a switch that stopped between the new file and the reload makes the next deploy remove the container that serves, against `lib.sh:78-80` and `start_container.sh:28-29` |
| `LiveBuildIsGood` | `exit_one` with a second operator, `Exclusive` FALSE | a deploy by hand during another one puts an unchecked build behind nginx, against "safe by construction" (`RUNBOOK.md:51`) |
| `RemoveSparesLive` | `deploy_safe` | failover hands the active colour to `start_container.sh`, against its lines 28-29: a gap in service, a lasting one if `docker run` fails |
| `HistoryAppendOnly` | `two_operators` | of two runs that overlap the later write drops the entry of the other (`common.py:305-310`), against "an append-only log" (`ZeroDownPipeline-project-spec.md:80`) |
| `FailoverHolds` | `promotion` with `Rerun` TRUE | bootstrap run again after a failover makes the promoted server a read-only replica of the old primary while the application writes to it, against `bootstrap_db.sh:2-3` |
| `CleanFork` | `promotion` with `restore` and `backup` among the scripts, the fault `kill`, one dump | a restore that breaks off between the two servers leaves different data on them; the script says so itself (`restore_db.sh:72`) |
| `AppFollowsFailover` | `promotion` without the fault `meet` | `docker inspect` of the live container fails, there is only a warning (`promote_replica.sh:69-77`), and "failover complete" (line 83) is said of an application that is still on the old primary, against lines 11-13 |
| `AppFollowsFailover` | `promotion` with the fault `meet` | a deploy that started its container before the failover makes it live afterwards |
| `AppFollowsFailover` | `promotion` with `sync` among the scripts | a sync ships the old `DB_HOST`, and the next deploy goes back to the old primary |
| `DrainedKeepsReceived` | `promotion` | the STOP of the IO thread fails and is ignored (`promote_replica.sh:36`): the thread goes on after the relay log was seen drained, and what it received since is dropped, against "finish applying what it has already received" (lines 5-6) |
| `PromotionKeepsReceived` | `promotion` | the drain is given up after 30 polls and the rest dropped (`promote_replica.sh:37-46`), against `RUNBOOK.md:154` |
| `SetupMeansRunning` | `pair` | with a stopped SQL thread the set-up reports running replication (`setup_replication.sh:33-34`) |
| `RequestsFollowEnv` | `promotion` | `DB_HOST` is fixed when the process starts, against `app/db.py:8-9` |
| `FailureSparesTraffic` | `builds` | a build that fails after its deploy, or whose rollback fails, ends with "Live traffic is unaffected" (`Jenkinsfile:243`) |
| `DrillRan` | `builds` | a drill whose `pip install` fails is reported as "Rollback drill worked: the bad build was caught and torn down" (`Jenkinsfile:194`) |
| `VerdictTells` | `builds` with `PipStatuses` {1, 2} | pip exits 2 and the build says "DEPLOYED, but the S3 deployment ledger is stale" (`Jenkinsfile:172-180`) |
| `NoDuplicates` | `provision` | an instance stopped in the console is not found, a second one is launched, against `provision.py:4-6` |
| `GroupIsDeleted` | `provision` | a group that a broken provision.py made, and did not record, survives `teardown.py --all`, against `teardown.py:14` |
| `KeyFileFits` | `provision` | a provision.py breaks off in the write of its key file, or teardown.py between the key pair and the file (`teardown.py:96-100`): the next run sees that a file is there (`provision.py:263-271`) and launches an instance nobody can log in to, which the refusal in lines 265-269 is there to avoid |

Read off the models without a property of their own: `ping("replica")` falls
back to the primary (`db.py:59-63`), so `/health` says `ok` with the replica down
against `main.py:109-110`, and `/stats` reads the primary against
`deploy/healthcheck.py:102`; codes that differ in case only collide, so there are
36^7 codes and not 62^7 (`main.py:53`), and a variant nobody was given redirects;
a second rollback by hand goes forward again to the version just left; the first
provision.py, killed between the launch and `write_outputs`, leaves an instance
that teardown refuses to look for.

Bounds. Two colours are the real number. Three tags are enough to tell the live
version, the recorded one and the one being started apart; two are enough where
only good and bad matter. Three or four runs let a run start from each state its
predecessor can leave: a first deploy, a normal one, one after a failure, and a
rollback with something to go back to. Two health attempts include a miss
followed by a pass. `MaxHistory` 2 makes truncation happen (200 in the code).
For `Replication` two servers are the real number. Two or three rows, with the
initial one, leave room for one applied, one in the relay log and one not
received; two to four scripts are a set-up, another one, and more on what those
two left (a promotion after a restore, a set-up after a promotion that died);
two dumps let `latest.json` and an older key differ. In `promotion` four
transactions after the first are the replication user's, one both servers have,
and one of each after they part; four scripts are a set-up, a promotion that dies,
its repetition and one more.
In `builds` four runs are a build with its rollback after two runs by hand, or two
builds with theirs. In
`urls` two threads and three codes let a request meet another for the same code,
for a variant in case and for another code, and two attempts a retry after a lost
answer; four requests are a creation, another one for the same row, and two that
read. In `provision` four scripts leave room for what a third finds of two that
broke off, with a teardown among them. No larger instance adds a kind of step:
the same properties are proved for every bound.

Fairness. `FairSpec` gives weak fairness to "this operator's run does its next
step or breaks off". The health check has a retry budget and a timeout per
request, S3 clients have their own timeouts. ssh has a timeout for the connect
only (`common.py:196`), and `subprocess.run` none, so a command whose connection
dies silently hangs; what breaks such a run off is the timeout of the build
(`Jenkinsfile:28`), and for a run by hand the person who interrupts it. Without
that the liveness of runs by hand is not a fact about the code. No fairness
is assumed of success: `EveryRunEnds` holds if every request fails. Starting
runs is not fair. `SwitchSettles` is checked without the three faults; `cut` and
`reload` are exactly how a switch stays half done. In `Pipeline` a build's next
step is fair too (`PFairSpec`): Jenkins goes on with it until its timeout.
In `Replication` only MySQL's own threads are fair (`Fetch`, `Apply`): they run
until they are stopped. Operators, cron and the application need not do
anything, so `CatchesUp` is checked without the faults that stop a thread.
In `Provision` the running script is fair, AWS is not: waiters and the six
attempts at the security group give up even if an instance never changes state.
`UrlService` claims no liveness: every call has a timeout, and gunicorn ends what
hangs.

## Proofs

| Theorem | Statement | Assumes |
|---|---|---|
| `BlueGreenProofs!TypeCorrect` | `Spec => []TypeOK` | nothing beyond the ASSUMEs of `BlueGreen` |
| `BlueGreenProofs!LedgerIsSound` | `Spec => []LedgerSound` | the same |
| `BlueGreenProofs!RunsGoOn` | `Spec => RunsAdvance` | the same |
| `BlueGreenProofs!SettledHistoryStays` | `HistorySpec => SettledStays` | the same |
| `RunProofs!ExitsTellTruth` | `Spec => ExitTellsTruth` | `Exclusive` |
| `RunProofs!RollbackMovesOn` | `Spec => RollbackLeavesLive` | `Exclusive` |
| `SwitchProofs!FileNamesAService` | `Spec => []ConfServes` | `Orderly`: `Exclusive`, and no failover among `Kinds` |
| `SwitchProofs!UsersMeetGoodBuilds` | `Spec => []LiveBuildIsGood` | `Calm`: `Exclusive` and `Faults = {}` |
| `SwitchProofs!UsersAreServed` | `Spec => []TrafficServed` | `Clean`: `Orderly` and `Faults = {}` |
| `SwitchProofs!ImplementsGate` | `Spec => GateSpec` | `Clean` |
| `PipelineProofs!BuildTypeCorrect` | `PSpec => []PTypeOK` | nothing beyond the ASSUMEs of `Pipeline` |
| `PipelineProofs!BuildsRunTheScripts` | `PSpec => Spec` | the same |
| `PipelineProofs!BuildsKeepLedgerSound` | `PSpec => []LedgerSound` | the same |
| `PipelineProofs!BuildsServeGoodVersions` | `PSpec => []LiveBuildIsGood` | `Calm` |
| `PipelineProofs!VerdictsTell` | `PSpec => VerdictTells` | `Undisturbed`: `Calm`, and pip never exits 2 |
| `PipelineProofs!SmokeRollbackWorks` | `PSpec => SmokeRollbackLeaves` | `Undisturbed` |
| `ReplicationProofs!ReplicationTypeCorrect` | `Spec => []TypeOK` | nothing beyond the ASSUMEs of `Replication` |
| `ReplicationProofs!FailoverStays` | `Spec => []FailoverHolds` | `NotUndone`: not `Rerun`, and no `sync` among `Scripts` |
| `PairProofs!ReplicaRepeats` | `Spec => []ReplicaIsPrefix` | `Kept`: with `promote` among `Scripts`, `NotUndone`; with `restore`, none of `down`, `kill`, `load`, `busy` among `Faults` |
| `PairProofs!ForkStaysClean` | `Spec => []CleanFork` | `Forks`: `NotUndone`, and no `restore` among `Scripts` |
| `PairProofs!BackupsAreSound` | `Spec => []BackupSound` | `Undisturbed`: neither `promote` nor `restore` among `Scripts` |
| `PairProofs!ImplementsFollower` | `Spec => PairSpec` | `Undisturbed` |
| `UrlProofs!UrlTypeCorrect`, `AcknowledgementStands`, `CopiesFollowTable`, `RedirectsCounted` | `Spec => []TypeOK`, `[]AckStands`, `[]CopiesAgree`, `[]ClicksCoverRedirects` | nothing beyond the ASSUME of `UrlService` |
| `UrlProofs!AcknowledgedIsFound`, `ImplementsBook` | `Spec => AckedIsFound`, `BookSpec` | the same |
| `ProvisionProofs!ProvisionTypeCorrect`, `EveryInstanceEquipped`, `NoSecondInstance` | `Spec => []TypeOK`, `[]InstanceEquipped`, `[]OneRunning` | nothing beyond the ASSUME of `Provision` |
| `ProvisionProofs!KeyStays`, `ProvisionCompletes`, `TeardownCompletes` | `Spec => KeyIsKept`, `FinishedIsComplete`, `TornDown` | the same |

Those of `BlueGreen` and `Pipeline` hold for every set of tags, operators, retry
budget, history length and number of runs, those of `Replication` for every
number of rows, scripts and dumps and for every set of faults, those of
`UrlService` for every number of threads, codes and requests and every `Fold`,
those of `Provision` for every number of scripts.

`TypeOK` is not inductive by itself: a run past the choice of its colour must
have a target in `Colors`, and a tag. `TypeInv` adds that as `Chosen`.

`SoundInv` strengthens `LedgerSound` with three facts: a container that answers
healthy does not hold a bad tag; a run past the health check carries a tag that
is not bad; the history a run has read is sound. The second is where the version
comparison of `healthcheck.sh` is needed, and none of them speaks of the slot
after the check, which is why no assumption about overlapping is needed.

`RunsAdvance` is the part of termination that is a safety property: a step of a
run ends it, takes it to a label that is later in `Order`, or uses up one of the
attempts of the health check or of the ledger write. It is proved action by
action from `TypeInv`, with one lemma per way a step can go on (`Exit`,
`Continue`, `Return`, another attempt). So a run makes boundedly many steps,
however many others there are and whatever they do to its slots; that a run which
can take a step does take one is the fairness of `EveryRunEnds`.

`SettledInv` says that the settled log survives in the history and in every copy
of it a run is about to write back: as long as any run holds a copy the log does
not settle anew, and each copy has what was settled when it was read. So the
write of a stale copy drops only what was appended since. The step that
matters is `SurvivesAppend`, where the log is truncated: an entry pushes out the
oldest one or none.

When runs do not overlap (`Exclusive`), what one run may rely on is `PlaceInv` in
`RunProofs`: before the switch its target is not the colour nginx's file names,
after it the target is that colour and the old colour is not; a failover on the
contrary works in the slot the file names and never reaches the switch. On it
rests `ReportInv`. `Reports` carries from the reload to the exit that nginx routes
to the run's container, from the record on that `last-good.json` names its tag,
and that what the run read of the ledger is still there. A failover puts nothing
of this at risk, since it can only run before or after the others.
`SuccessIsNamed`, no success in the history without a `last-good.json`, is what
lets a rollback conclude that the version it picks is not the live one.

`ServeInv` adds that the file, and its backup while a switch is under way, name
running healthy containers. A failover breaks that by design: it removes the live
container before it starts the new one, hence `Orderly`. What users meet is
weaker and survives failovers: `FitInv` says that in the slot of the file, or of
its backup, whatever runs is healthy and the tag is a good one, because a failover
starts the tag it found there and a deploy switches only to what passed the gate. `Followed`
says that away from `test` and `reload` the proxy equals the file, and there the
colour the run found; it is what the faults break, and the reason why
`LiveBuildIsGood` and `TrafficServed` need `Faults = {}` while `ConfServes` does
not. The refinement of `TrafficGate` needs all of it (`CleanInv`) and a step
lemma: each step of `Next` either keeps `VersionServed` and `lastGood`, or is
`Promote` (the reload), or is `Record` (`write_last_good`).

In `Replication`, `TypeOK` bounds the positions by the rows written, and that is
not inductive: a position grows with each row received. `ReplicationProofs!TypeInv`
adds that no server, no dump and no script is further than the rows written so
far, and what that rests on: a replica without a source has an empty relay log,
and the replica has no source when it takes over the position of a dump.

What a failover keeps is anchored in `.env`, the last thing `promote_replica.sh`
writes before it restarts the container. `HoldsInv`: since `.env` names the
replica, that server is writable, also in `mysqld-auto.cnf`, and has no source,
and no step of a set-up is under way; a container writes to the replica only if
`.env` names it. A restart of the server forgets `SET GLOBAL`, hence the part
about the file. `NotUndone`
excludes what the table of disagreements shows to break it.

`RepeatInv` says what replication is. `Matched`: the binary log is the end of the
primary's table, table and relay log of the replica are the beginning of it, and
the two GTID positions are as far apart as the two tables. Only the distance
counts, so it survives a set-up that drops the relay log, and a restore, which
resets the positions to that of the dump on both sides. It need not hold once
`.env` names the replica (a failover is over, the promoted server goes on alone)
nor within a restore, between `RESET MASTER` on the primary and the load of the
replica; there `DuringRestore` keeps what the rest of the script builds on: the
binary log is empty, and from the load on the primary has the rows and the
position of the dump. `Writers` says who is written to: without failovers only
the primary, and with them it is `HoldsInv`. The assumption `Kept` is needed, and
each of its parts for a reason: a set-up repeated on the promoted server makes
that one a replica of the old primary again, a write in the middle of a restore
lands on one side only (`busy_restore` is that run), and a restore that stops or
breaks off half way leaves two different servers, as the script itself says.

`CleanFork` needs little beside it (`ForkInv`). Until `.env` names the
promoted server, `Matched` makes the replica's rows a prefix of the primary's.
From then on `HoldsInv` keeps the source away, so that nothing is applied any
more, and each server only appends what nobody has: transactions are numbered
(`Numbered`), and a new number is not in the other table (`FreshSharesPast`). No
fault matters: that the drain is given up or the IO thread goes on only moves the
point where the two part.

Without promotions and restores more holds (`PairInv`): nothing is purged, so the
binary log is the whole table and a position is a length (`Whole`), and so
every dump is what its position says (`SoundDumps`). A restore takes rows away
that earlier dumps have, and a dump taken in the middle of it has the rows without
their position; after a failover the promoted server's own rows are in no position
of the primary. The step lemma `PairStep` says that each step keeps the tables, adds the
next row to the primary, or adds to the replica the row it lacks: the refinement
of `Follower`.

`Pipeline` extends `BlueGreen`, so the first step is that a build does only what
`BlueGreen` allows (`BuildsRunTheScripts`); the theorems about scripts then hold
of builds. For the verdicts `TellInv` adds `Told`, which says for each stage what
Jenkins may rely on: `DeployRun` follows the deploy through its labels (before
the switch users have `before`, from the switch on `sha`), `DeployOver` says what
each exit status means, `RollbackRun` that the rollback's tag differs from `sha`
because the ledger it read names `sha` as last good. That a run works alone is
`BuildAlone`.

In `UrlService` all rests on one lemma, `TableMoves`: a step leaves the table,
creates it, inserts a row where there was none, or adds one click. So a row keeps
its URL and clicks never fall, and what a request, the cache or S3 has once read
stays true. `JobsAgree` and `StoresAgree` say that for the requests and the
stores, `Counted` that nothing was redirected to a key without a row. The
refinement of `LinkBook` follows from the same lemma: an insert is `Shorten`, a
click is `Follow` with a redirect and `CountOnly` without one, and the answer 201
is `Promise`, because by then the job agrees with the table. `Blank`, no clicks
without a row, makes an insert leave the counters alone.

In `Provision` the invariant gives, for each label, what the script has made
(`BucketMade`, `IamMade`, `KeyMade`, `GroupMade`, `InstanceMade`) or what is gone
(`InstancesGone`, `GroupGone`, `KeyGone`, `IamGone`). `Equipped` survives the
teardown because everything an instance needs is touched only where
`InstancesGone` holds, and the launch because everything has been made by then.
`KeyNew` says that no instance lives while a new key pair waits for
its file: the pair is made only where there is none, and an instance that lives
has one. So neither a broken write nor a repeated run touches the key of an
instance that lives. None of this needs an assumption, and none of it says what is in
the file.

The strengthened invariants were checked by TLC on the instances of the runs
before they were proved. Only model-checked are the liveness properties
(`EveryRunEnds`, `EveryBuildEnds`, `SwitchSettles`, `CatchesUp`,
`EveryScriptEnds`): they need `ENABLED`, which the prover does not do, also where
`RunsAdvance` gives the measure. Every
safety invariant, action property and refinement of a passing run is proved,
under the assumption the table gives, and every passing run that checks it lies
within that assumption.

## Plan

Done: all modules above, their runs and their proofs. What would come next:

1. A remote script that goes on after its connection is lost, as a process of its
   own beside the next run.
2. The ports of the colours as state of `.env`, of nginx's file and of the
   caller's environment, refined by `BlueGreen` while nobody changes them.
3. An abstract specification of the AWS scripts (what a provision.py and a
   teardown.py that return 0 promise), refined by `Provision`.

## Not modelled

Configuration and host discovery (read once, no state), downtime measurement and
the local stack (observers and demonstrations), images, `user_data.sh`, tests and
documentation, `replication_status.sh` (it only prints), the ports behind the
colours and detached remote scripts (see the plan). `invalidate` and
`get_record` are never called. A restore does not flush Redis, so the cache may
then know links the table has lost; restores are in `Replication`, which has no
cache, so no property speaks of it.
