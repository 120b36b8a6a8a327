---------------------------- MODULE Replication ----------------------------
(***************************************************************************)
(* The stateful tier: two MySQL servers with GTID replication from         *)
(* mysql-primary to mysql-replica, the scripts in scripts/db that set it    *)
(* up, back it up, restore it and fail over, and the DB_HOST setting that   *)
(* decides which server the application writes to.                         *)
(*                                                                         *)
(* One operator runs one script at a time, one mysql call per step; the     *)
(* backup is a second process (cron); the application writes at any time.   *)
(* Covered: servers that stop and come back, scripts killed between two     *)
(* calls, an SQL thread that stops, a dump that loads only in part, writes  *)
(* during a restore.  Not covered: loss of a server's disk.                 *)
(***************************************************************************)
EXTENDS Integers, Sequences, FiniteSets

CONSTANTS
  Scripts,    \* which of AllScripts are run
  Faults,     \* which of AllFaults can happen
  Rerun,      \* whether replication may be set up again after a failover
  MaxWrites,  \* bound: transactions after the first
  MaxOps,     \* bound: operator scripts that are started
  MaxDumps    \* bound: backups that are uploaded

OperatorScripts == {"setup", "force", "bootstrap", "promote", "restore"}
AllScripts == OperatorScripts \cup {"backup", "sync", "deploy"}
AllFaults == {"down",   \* a server stops, and comes back later
              "kill",   \* an operator's script is killed between two calls
              "sql",    \* the replica's SQL thread stops with an error
              "load",   \* a dump is loaded only in part
              "busy",   \* the application writes while a restore is under way
              "meet"}   \* a deploy and a promotion overlap

ASSUME SettingAssumption ==
  /\ Scripts \subseteq AllScripts
  /\ Faults \subseteq AllFaults
  /\ Rerun \in BOOLEAN
ASSUME LimitsAssumption ==
  /\ MaxWrites \in Nat
  /\ MaxOps \in Nat
  /\ MaxDumps \in Nat

Servers == {"primary", "replica"}

VARIABLES
  rows,        \* what each server holds: its transactions, in their order
  bin,         \* the primary's binary log, and how many GTIDs precede it
  repl,        \* the replica's replication state and settings
  up,          \* which servers run
  env,         \* DB_HOST in the instance's .env
  app,         \* DB_HOST of the live container ("none": there is none)
  fresh,       \* DB_HOST of the container a deploy has started ("none")
  s3,          \* uploaded dumps, and the one latest.json points to
  op,          \* the script the operator runs
  cron,        \* the backup script
  written,     \* transactions so far; number n is the n-th one, a link or the
               \* replication user; number 0 made the user, database and table
  failedOver,  \* promote_replica.sh has reported "failover complete"
  ops          \* bound: scripts started so far

data == <<rows, bin, repl>>
outside == <<s3, cron, written, ops>>
vars == <<data, up, env, app, fresh, outside, op, failedOver>>

-----------------------------------------------------------------------------
(* Types *)

Rows == Seq(0..MaxWrites)
Count == 0..(MaxWrites + 1)
Dumps == [rows : Rows, pos : Count]       \* content and GTID_PURGED of a dump
NoDump == [rows |-> << >>, pos |-> 0]

Labels ==
  {"idle", "bo_up",
   "su_check", "su_user", "su_point", "su_arm", "su_verify",
   "pr_probe", "pr_stop", "pr_drain", "pr_reset", "pr_write", "pr_env", "pr_restart",
   "re_fetch", "re_reset", "re_load", "re_stop", "re_copy"}

Idle ==
  [kind |-> "none", pc |-> "idle", drained |-> FALSE, dump |-> NoDump, result |-> "none"]

DataTypeOK ==
  /\ rows \in [Servers -> Rows]
  /\ bin \in [purged : Count, log : Rows]
  /\ repl \in [source : BOOLEAN,      \* CHANGE REPLICATION SOURCE was done
               io : BOOLEAN,          \* the IO thread runs
               sql : BOOLEAN,         \* the SQL thread runs
               relay : Rows,          \* received and not yet applied
               pos : Count,           \* executed GTIDs of the primary
               ro : BOOLEAN,          \* read_only and super_read_only
               persisted : BOOLEAN]   \* ... in mysqld-auto.cnf

SettingTypeOK ==
  /\ up \in [Servers -> BOOLEAN]
  /\ env \in Servers \cup {"unset"}
  /\ app \in Servers \cup {"none"}
  /\ fresh \in Servers \cup {"none"}
  /\ s3 \in [dumps : Seq(Dumps), latest : Nat]
  /\ failedOver \in BOOLEAN

ScriptTypeOK ==
  /\ op \in [kind : OperatorScripts \cup {"none"}, pc : Labels, drained : BOOLEAN,
             dump : Dumps, result : {"none", "ok", "failed"}]
  /\ cron \in [pc : {"idle", "upload", "pointer"}, dump : Dumps]
  /\ written \in 0..MaxWrites
  /\ ops \in 0..MaxOps

\* The type of every variable.
TypeOK == DataTypeOK /\ SettingTypeOK /\ ScriptTypeOK

\* The two servers after docker compose up, before replication is set up: only
\* the primary has created its user and database, and binlogged that; one
\* container is live.  .env.example has no DB_HOST.
Seed == <<0>>
Init ==
  /\ rows = [s \in Servers |-> IF s = "primary" THEN Seed ELSE << >>]
  /\ bin = [purged |-> 0, log |-> Seed]
  /\ repl = [source |-> FALSE, io |-> FALSE, sql |-> FALSE, relay |-> << >>,
             pos |-> 0, ro |-> FALSE, persisted |-> FALSE]
  /\ up = [s \in Servers |-> TRUE]
  /\ env \in {"unset", "primary"}
  /\ app = "primary"
  /\ fresh = "none"
  /\ s3 = [dumps |-> << >>, latest |-> 0]
  /\ op = Idle
  /\ cron = [pc |-> "idle", dump |-> NoDump]
  /\ written = 0
  /\ failedOver = FALSE
  /\ ops = 0

\* DB_HOST=${DB_HOST:-mysql-primary}
HostOf(setting) == IF setting = "unset" THEN "primary" ELSE setting

\* How far the primary's GTIDs and the replica's received ones go.
Executed == bin.purged + Len(bin.log)
Received == repl.pos + Len(repl.relay)

-----------------------------------------------------------------------------
(* The application and its deployments *)

\* A server that runs and knows the application's user and database.
Usable(s) == up[s] /\ rows[s] # << >>

Restoring == op.pc \in {"re_load", "re_stop", "re_copy"}

\* A transaction commits on server s; the primary's binary log takes it up.
Commit(s) ==
  /\ written < MaxWrites
  /\ written' = written + 1
  /\ rows' = [rows EXCEPT ![s] = Append(@, written + 1)]
  /\ bin' = IF s = "primary" THEN [bin EXCEPT !.log = Append(@, written + 1)] ELSE bin

\* insert_link on the server the container was started with.
AppWrite ==
  /\ app # "none" /\ Usable(app)
  /\ app = "replica" => ~repl.ro
  /\ Restoring => "busy" \in Faults
  /\ Commit(app)
  /\ UNCHANGED <<repl, up, env, app, fresh, s3, cron, op, failedOver, ops>>

\* A deploy starts a container, which keeps the DB_HOST it finds in .env, and
\* makes it live when it reaches its server; or it removes it again.
StartFresh ==
  /\ "deploy" \in Scripts
  /\ op.kind = "promote" => "meet" \in Faults
  /\ fresh = "none"
  /\ fresh' = HostOf(env)
  /\ UNCHANGED <<data, up, env, app, outside, op, failedOver>>

SwitchToFresh ==
  /\ fresh # "none" /\ Usable(fresh)
  /\ app' = fresh
  /\ fresh' = "none"
  /\ UNCHANGED <<data, up, env, outside, op, failedOver>>

RemoveFresh ==
  /\ fresh # "none"
  /\ fresh' = "none"
  /\ UNCHANGED <<data, up, env, app, outside, op, failedOver>>

\* sync_scripts.py replaces .env by the developer's one.
Sync ==
  /\ "sync" \in Scripts
  /\ env' \in {"unset", "primary"}
  /\ UNCHANGED <<data, up, app, fresh, outside, op, failedOver>>

-----------------------------------------------------------------------------
(* MySQL: replication threads, and servers that stop *)

\* The IO thread asks for the first transaction it has not received.
Fetch ==
  /\ up["primary"] /\ up["replica"]
  /\ repl.source /\ repl.io
  /\ bin.purged <= Received /\ Received < Executed
  /\ repl' = [repl EXCEPT !.relay = Append(@, bin.log[Received + 1 - bin.purged])]
  /\ UNCHANGED <<rows, bin, up, env, app, fresh, outside, op, failedOver>>

\* The primary no longer has what the replica asks for, or never had what the
\* replica already executed: the thread stops, sooner or later.
IoStops ==
  /\ repl.io /\ up["primary"]
  /\ Received < bin.purged \/ Executed < Received
  /\ repl' = [repl EXCEPT !.io = FALSE]
  /\ UNCHANGED <<rows, bin, up, env, app, fresh, outside, op, failedOver>>

Apply ==
  /\ up["replica"]
  /\ repl.source /\ repl.sql /\ repl.relay # << >>
  /\ rows' = [rows EXCEPT !["replica"] = Append(@, Head(repl.relay))]
  /\ repl' = [repl EXCEPT !.relay = Tail(@), !.pos = @ + 1]
  /\ UNCHANGED <<bin, up, env, app, fresh, outside, op, failedOver>>

SqlStops ==
  /\ "sql" \in Faults
  /\ repl.sql
  /\ repl' = [repl EXCEPT !.sql = FALSE]
  /\ UNCHANGED <<rows, bin, up, env, app, fresh, outside, op, failedOver>>

\* A stopped replica comes back with --skip-replica-start and with the
\* settings in mysqld-auto.cnf.
ServerStops(s) ==
  /\ "down" \in Faults
  /\ up[s]
  /\ up' = [up EXCEPT ![s] = FALSE]
  /\ repl' = IF s = "primary" THEN repl
             ELSE [repl EXCEPT !.io = FALSE, !.sql = FALSE, !.ro = repl.persisted]
  /\ UNCHANGED <<rows, bin, env, app, fresh, outside, op, failedOver>>

ServerComesBack(s) ==
  /\ ~up[s]
  /\ up' = [up EXCEPT ![s] = TRUE]
  /\ UNCHANGED <<data, env, app, fresh, outside, op, failedOver>>

-----------------------------------------------------------------------------
(* Running a script *)

GoTo(label) == op' = [op EXCEPT !.pc = label]
Done == op' = [Idle EXCEPT !.result = "ok"]
Die == op' = [Idle EXCEPT !.result = "failed"]

FirstLabel(kind) ==
  CASE kind \in {"setup", "force"} -> "su_check"
    [] kind = "bootstrap" -> "bo_up"
    [] kind = "promote" -> "pr_probe"
    [] kind = "restore" -> "re_fetch"

StartScript ==
  /\ op.pc = "idle"
  /\ ops < MaxOps
  /\ \E kind \in OperatorScripts \cap Scripts :
       /\ kind \in {"setup", "force", "bootstrap"} => Rerun \/ env # "replica"
       /\ kind = "promote" => fresh = "none" \/ "meet" \in Faults
       /\ op' = [Idle EXCEPT !.kind = kind, !.pc = FirstLabel(kind)]
  /\ ops' = ops + 1
  /\ UNCHANGED <<data, up, env, app, fresh, s3, cron, written, failedOver>>

\* The server a step talks to; with it down the script dies (set -e).
ServerOf(label) ==
  IF label \in {"su_user", "re_reset", "re_load"} THEN "primary" ELSE "replica"
Calls ==
  {"su_user", "su_point", "su_arm", "su_verify", "pr_probe", "pr_reset", "pr_write",
   "re_reset", "re_load", "re_copy"}

ServerGone ==
  /\ op.pc \in Calls
  /\ ~up[ServerOf(op.pc)]
  /\ Die
  /\ UNCHANGED <<data, up, env, app, fresh, outside, failedOver>>

At(label) == op.pc = label /\ (label \in Calls => up[ServerOf(label)])

Killed ==
  /\ "kill" \in Faults
  /\ op.pc # "idle"
  /\ op' = Idle
  /\ UNCHANGED <<data, up, env, app, fresh, outside, failedOver>>

-----------------------------------------------------------------------------
(* bootstrap_db.sh and setup_replication.sh *)

\* docker compose up -d and wait_healthy, which gives up on a server that does
\* not come up.
ComposeUp ==
  /\ At("bo_up")
  /\ \E started \in SUBSET Servers : up' = [s \in Servers |-> up[s] \/ s \in started]
  /\ \/ (\A s \in Servers : up'[s]) /\ GoTo("su_check")
     \/ (\E s \in Servers : ~up'[s]) /\ Die
  /\ UNCHANGED <<data, env, app, fresh, outside, failedOver>>

\* "Replica_IO_Running: Yes"
IoYes == up["replica"] /\ up["primary"] /\ repl.source /\ repl.io

CheckRunning ==
  /\ At("su_check")
  /\ \/ op.kind # "force" /\ IoYes /\ Done
     \/ (op.kind = "force" \/ ~IoYes) /\ GoTo("su_user")
  /\ UNCHANGED <<data, up, env, app, fresh, outside, failedOver>>

\* CREATE, ALTER USER and GRANT: they are in the binary log and take GTIDs.
CreateReplUser ==
  /\ At("su_user")
  /\ Commit("primary")
  /\ GoTo("su_point")
  /\ UNCHANGED <<repl, up, env, app, fresh, s3, cron, ops, failedOver>>

\* slip: the threads are not started.
PointWithoutStart ==
  /\ At("su_point")
  /\ repl' = [repl EXCEPT !.source = TRUE, !.io = FALSE, !.sql = FALSE, !.relay = << >>]
  /\ GoTo("su_arm")
  /\ UNCHANGED <<rows, bin, up, env, app, fresh, outside, failedOver>>

\* slip: the relay log is kept while its position is taken from the GTIDs.
PointKeepingRelay ==
  /\ At("su_point")
  /\ repl' = [repl EXCEPT !.source = TRUE, !.io = TRUE, !.sql = TRUE, !.pos = Received]
  /\ GoTo("su_arm")
  /\ UNCHANGED <<rows, bin, up, env, app, fresh, outside, failedOver>>

\* STOP, RESET REPLICA ALL, CHANGE REPLICATION SOURCE, START.
PointAtPrimary ==
  /\ At("su_point")
  /\ repl' = [repl EXCEPT !.source = TRUE, !.io = TRUE, !.sql = TRUE, !.relay = << >>]
  /\ GoTo("su_arm")
  /\ UNCHANGED <<rows, bin, up, env, app, fresh, outside, failedOver>>

ArmReadOnly ==
  /\ At("su_arm")
  /\ repl' = [repl EXCEPT !.ro = TRUE, !.persisted = TRUE]
  /\ GoTo("su_verify")
  /\ UNCHANGED <<rows, bin, up, env, app, fresh, outside, failedOver>>

\* Only the SQL thread is looked at; a missing user or database is a warning.
VerifyRunning ==
  /\ At("su_verify")
  /\ \/ repl.sql /\ Done
     \/ ~repl.sql /\ Die
  /\ UNCHANGED <<data, up, env, app, fresh, outside, failedOver>>

-----------------------------------------------------------------------------
(* promote_replica.sh *)

ProbeReplica ==
  /\ At("pr_probe")
  /\ GoTo("pr_stop")
  /\ UNCHANGED <<data, up, env, app, fresh, outside, failedOver>>

\* Best effort: the statement fails (`|| true`) or the IO thread stops.
StopReceiving ==
  /\ At("pr_stop")
  /\ repl' \in {repl, [repl EXCEPT !.io = FALSE]}
  /\ GoTo("pr_drain")
  /\ UNCHANGED <<rows, bin, up, env, app, fresh, outside, failedOver>>

\* "Replica has read all relay log"
Drained == repl.source /\ repl.sql /\ repl.relay = << >>

\* The poll sees the relay log drained, or its 30 attempts are over.
AwaitDrain ==
  /\ At("pr_drain")
  /\ op' = [op EXCEPT !.pc = "pr_reset", !.drained = Drained]
  /\ UNCHANGED <<data, up, env, app, fresh, outside, failedOver>>

IgnoreResetFailure ==   \* slip: `|| true` here too
  /\ At("pr_reset")
  /\ GoTo("pr_write")
  /\ UNCHANGED <<data, up, env, app, fresh, outside, failedOver>>

\* STOP REPLICA; RESET REPLICA ALL
DropSource ==
  /\ At("pr_reset")
  /\ repl' = [repl EXCEPT !.source = FALSE, !.io = FALSE, !.sql = FALSE, !.relay = << >>]
  /\ GoTo("pr_write")
  /\ UNCHANGED <<rows, bin, up, env, app, fresh, outside, failedOver>>

SetGlobalOnly ==   \* slip: SET GLOBAL, forgotten at the next start
  /\ At("pr_write")
  /\ repl' = [repl EXCEPT !.ro = FALSE]
  /\ GoTo("pr_env")
  /\ UNCHANGED <<rows, bin, up, env, app, fresh, outside, failedOver>>

MakeWritable ==
  /\ At("pr_write")
  /\ repl' = [repl EXCEPT !.ro = FALSE, !.persisted = FALSE]
  /\ GoTo("pr_env")
  /\ UNCHANGED <<rows, bin, up, env, app, fresh, outside, failedOver>>

RepointEnv ==
  /\ At("pr_env")
  /\ env' = "replica"
  /\ GoTo("pr_restart")
  /\ UNCHANGED <<data, up, app, fresh, outside, failedOver>>

\* start_container.sh on the live slot.  Without one, or when docker inspect
\* tells no image, there is only a warning, and the failover is "complete"; the
\* script may fail before or after it has removed the old container.
RestartLive ==
  /\ At("pr_restart")
  /\ \/ app # "none" /\ app' = HostOf(env) /\ failedOver' = TRUE /\ Done
     \/ UNCHANGED app /\ failedOver' = TRUE /\ Done
     \/ app # "none" /\ app' \in {app, "none"} /\ UNCHANGED failedOver /\ Die
  /\ UNCHANGED <<data, up, env, fresh, outside>>

-----------------------------------------------------------------------------
(* backup_db.sh *)

Dump(s) == [rows |-> rows[s], pos |-> IF s = "primary" THEN Executed ELSE repl.pos]

\* From the replica, from the primary when the replica is down.  A dump without
\* a table is not uploaded.
PositionOfPrimary == [rows |-> rows["replica"], pos |-> Executed]   \* slip
BackupDump == Dump(IF up["replica"] THEN "replica" ELSE "primary")

TakeDump ==
  /\ "backup" \in Scripts
  /\ cron.pc = "idle"
  /\ Len(s3.dumps) < MaxDumps
  /\ up["replica"] \/ up["primary"]
  /\ BackupDump.rows # << >>
  /\ cron' = [pc |-> "upload", dump |-> BackupDump]
  /\ UNCHANGED <<data, up, env, app, fresh, s3, written, ops, op, failedOver>>

UploadDump ==
  /\ cron.pc = "upload"
  /\ s3' = [s3 EXCEPT !.dumps = Append(@, cron.dump)]
  /\ cron' = [cron EXCEPT !.pc = "pointer"]
  /\ UNCHANGED <<data, up, env, app, fresh, written, ops, op, failedOver>>

PointLatest ==
  /\ cron.pc = "pointer"
  /\ s3' = [s3 EXCEPT !.latest = Len(s3.dumps)]
  /\ cron' = [pc |-> "idle", dump |-> NoDump]
  /\ UNCHANGED <<data, up, env, app, fresh, written, ops, op, failedOver>>

\* mysqldump, the verification or an upload fails.
BackupFails ==
  /\ cron.pc # "idle"
  /\ cron' = [pc |-> "idle", dump |-> NoDump]
  /\ UNCHANGED <<data, up, env, app, fresh, s3, written, ops, op, failedOver>>

-----------------------------------------------------------------------------
(* restore_db.sh *)

\* latest.json, or a key given; without it, or when the download fails, die.
FetchDump ==
  /\ At("re_fetch")
  /\ \/ \E i \in DOMAIN s3.dumps :
          op' = [op EXCEPT !.pc = "re_reset", !.dump = s3.dumps[i]]
     \/ Die
  /\ UNCHANGED <<data, up, env, app, fresh, outside, failedOver>>

\* RESET MASTER: the rows stay, the GTIDs start again at 1.
ResetPrimary ==
  /\ At("re_reset")
  /\ bin' = [purged |-> 0, log |-> << >>]
  /\ GoTo("re_load")
  /\ UNCHANGED <<rows, repl, up, env, app, fresh, outside, failedOver>>

\* GTID_PURGED is refused when it names a transaction the server executed.
PurgedConflict == op.dump.pos > 0 /\ bin.log # << >>

\* What a load that breaks off leaves in a server.
PartlyLoaded(s) == {rows[s]} \cup {SubSeq(op.dump.rows, 1, n) : n \in 1..Len(op.dump.rows)}

LoadPrimary ==
  /\ At("re_load")
  /\ \/ (PurgedConflict \/ "load" \in Faults) /\ Die /\ UNCHANGED <<rows, bin>>
     \/ /\ ~PurgedConflict
        /\ bin' = [bin EXCEPT !.purged = op.dump.pos]
        /\ \/ rows' = [rows EXCEPT !["primary"] = op.dump.rows] /\ GoTo("re_stop")
           \/ /\ "load" \in Faults
              /\ \E part \in PartlyLoaded("primary") : rows' = [rows EXCEPT !["primary"] = part]
              /\ Die
  /\ UNCHANGED <<repl, up, env, app, fresh, outside, failedOver>>

\* slip: restore the primary only.
LeaveReplica ==
  /\ At("re_stop")
  /\ Done
  /\ UNCHANGED <<data, up, env, app, fresh, outside, failedOver>>

\* STOP REPLICA; RESET REPLICA ALL; read_only off; RESET MASTER - or only a
\* warning when the replica does not run.
ResetReplica ==
  /\ At("re_stop")
  /\ \/ /\ up["replica"]
        /\ repl' = [source |-> FALSE, io |-> FALSE, sql |-> FALSE, relay |-> << >>,
                    pos |-> 0, ro |-> FALSE, persisted |-> FALSE]
        /\ GoTo("re_copy")
     \/ ~up["replica"] /\ UNCHANGED repl /\ Done
  /\ UNCHANGED <<rows, bin, up, env, app, fresh, outside, failedOver>>

LoadReplica ==
  /\ At("re_copy")
  /\ \/ /\ repl' = [repl EXCEPT !.pos = op.dump.pos]
        /\ \/ rows' = [rows EXCEPT !["replica"] = op.dump.rows] /\ Done
           \/ /\ "load" \in Faults
              /\ \E part \in PartlyLoaded("replica") : rows' = [rows EXCEPT !["replica"] = part]
              /\ Die
     \/ "load" \in Faults /\ Die /\ UNCHANGED <<rows, repl>>
  /\ UNCHANGED <<bin, up, env, app, fresh, outside, failedOver>>

-----------------------------------------------------------------------------
SetupStep ==
  ComposeUp \/ CheckRunning \/ CreateReplUser \/ PointAtPrimary \/ ArmReadOnly \/ VerifyRunning
PromoteStep ==
  \/ ProbeReplica \/ StopReceiving \/ AwaitDrain \/ DropSource \/ MakeWritable
  \/ RepointEnv \/ RestartLive
RestoreStep == FetchDump \/ ResetPrimary \/ LoadPrimary \/ ResetReplica \/ LoadReplica
BackupStep == TakeDump \/ UploadDump \/ PointLatest \/ BackupFails
ServerStep ==
  \/ Fetch \/ IoStops \/ Apply \/ SqlStops
  \/ \E s \in Servers : ServerStops(s) \/ ServerComesBack(s)

Next ==
  \/ AppWrite \/ StartFresh \/ SwitchToFresh \/ RemoveFresh \/ Sync
  \/ ServerStep
  \/ StartScript \/ ServerGone \/ Killed
  \/ SetupStep \/ PromoteStep \/ RestoreStep
  \/ BackupStep

Spec == Init /\ [][Next]_vars

\* MySQL's replication threads run as long as they are not stopped; nothing is
\* assumed of operators, cron or the application.
Fairness == WF_vars(Fetch) /\ WF_vars(Apply)
FairSpec == Spec /\ Fairness

-----------------------------------------------------------------------------
(* What must hold; the configurations say for which scripts and faults. *)

IsPrefixOf(s, t) == Len(s) <= Len(t) /\ \A i \in 1..Len(s) : s[i] = t[i]

\* A configured replica holds, and has received, a prefix of the primary's
\* rows: never a row the primary does not have, never one out of order and
\* none left out (restore_db.sh:54-60: "leaving a replica that would promote a
\* database containing rows the primary does not have").
ReplicaIsPrefix ==
  repl.source /\ ~Restoring => IsPrefixOf(rows["replica"] \o repl.relay, rows["primary"])

\* latest.json points to an uploaded dump, and a dump holds exactly the
\* transactions its GTID position names (backup_db.sh:8-10 and 62).
BackupSound ==
  /\ s3.latest \in 0..Len(s3.dumps)
  /\ \A i \in DOMAIN s3.dumps :
       /\ s3.dumps[i].pos = Len(s3.dumps[i].rows)
       /\ IsPrefixOf(s3.dumps[i].rows, rows["primary"])

\* After a failover the server the application writes to accepts writes and is
\* nobody's replica, also after it was restarted (promote_replica.sh:49-51, "a
\* failover that quietly undoes itself is worse than one that never happened").
FailoverHolds == app = "replica" => ~repl.ro /\ ~repl.source

\* s and t have a common past, and once they part they share nothing any more.
SharePast(s, t) ==
  \E n \in 0..Len(s) :
    /\ n <= Len(t)
    /\ \A i \in 1..n : s[i] = t[i]
    /\ \A i \in (n + 1)..Len(s), j \in (n + 1)..Len(t) : s[i] # t[j]

\* A failover forks the data once and cleanly: the promoted server holds what
\* the old primary had up to some transaction, none left out, and after that
\* only its own - also when the drain is given up after 30 polls, the IO thread
\* did not stop, the script broke off and was repeated, or the application goes
\* on with the old primary (promote_replica.sh:5-10).
CleanFork == SharePast(rows["replica"], rows["primary"])

\* In a configured pair every row of the primary reaches the replica, also when
\* the set-up is repeated, unless a restore takes the row or the source away.
AwaitedOnReplica(n) ==
  /\ repl.source /\ ~Restoring
  /\ \E i \in DOMAIN rows["primary"] : rows["primary"][i] = n
OnReplica(n) == \E i \in DOMAIN rows["replica"] : rows["replica"][i] = n
CatchesUp ==
  \A n \in 0..MaxWrites : AwaitedOnReplica(n) ~> (OnReplica(n) \/ ~AwaitedOnReplica(n))

-----------------------------------------------------------------------------
(* What the documentation says and the code does not do *)

\* promote_replica.sh:11-13: "the application actually uses the new primary. A
\* failover that no traffic follows is not a failover."
AppFollowsFailover == failedOver => app # "primary"

\* promote_replica.sh:5-6, "finish applying what it has already received": what
\* was seen drained is not added to before it is dropped.
DrainedKeepsReceived ==
  [][At("pr_reset") /\ op.drained /\ op'.pc = "pr_write" => repl.relay = << >>]_vars

\* RUNBOOK.md:154: "The script drains the replica's relay log".
PromotionKeepsReceived ==
  [][At("pr_reset") /\ op'.pc = "pr_write" => repl.relay = << >>]_vars

\* setup_replication.sh:34: "replication already running - nothing to do" - a
\* set-up that reports success leaves both threads running.
SetupMeansRunning ==
  [][(op.pc \in {"su_check", "su_verify"} /\ op'.result = "ok") => IoYes /\ repl.sql]_vars

\* app/db.py:8-9: "a primary failover is picked up on the very next request
\* with no restart".
RequestsFollowEnv ==
  [][AppWrite => app = HostOf(env)]_vars

-----------------------------------------------------------------------------
(* The abstract specification of an undisturbed pair *)

Pair == INSTANCE Follower WITH
  Row <- 1..MaxWrites, Seed <- Seed, log <- rows["primary"], copy <- rows["replica"]

PairSpec == Pair!Spec
=============================================================================
