------------------------- MODULE ReplicationProofs -------------------------
(***************************************************************************)
(* Theorems about Replication, for every value of its constants.           *)
(***************************************************************************)
EXTENDS Replication, SequenceTheorems, TLAPS

-----------------------------------------------------------------------------
(* Types and positions.  A position is typed only because no server can be  *)
(* further than the number of transactions, and that rests on the           *)
(* relay log being empty whenever the replica takes over a dump's position. *)

DataInv ==
  /\ DataTypeOK
  /\ Executed <= written + 1
  /\ Received <= written + 1
  /\ ~repl.source => repl.relay = << >>

ScriptInv ==
  /\ SettingTypeOK /\ ScriptTypeOK
  /\ op.dump.pos <= written + 1
  /\ cron.dump.pos <= written + 1
  /\ \A i \in DOMAIN s3.dumps : s3.dumps[i].pos <= written + 1

CopyInv == op.pc = "re_copy" => ~repl.source

TypeInv == DataInv /\ ScriptInv /\ CopyInv

LEMMA EmptyRows == << >> \in Rows /\ Len(<< >>) = 0
  BY EmptySeq DEF Rows

LEMMA SeedType == Seed \in Rows /\ Len(Seed) = 1
  BY LimitsAssumption DEF Seed, Rows

LEMMA NoDumpType == NoDump \in Dumps /\ NoDump.pos = 0
  BY EmptyRows, LimitsAssumption DEF NoDump, Dumps, Count

LEMMA InitTyped == Init => TypeInv
<1> SUFFICES ASSUME Init PROVE TypeInv
  OBVIOUS
<1>1. DataInv
  <2>1. DataTypeOK
    BY EmptyRows, SeedType, LimitsAssumption DEF Init, DataTypeOK, Count
  <2>2. Executed = 1 /\ Received = 0 /\ written = 0
    BY EmptyRows, SeedType DEF Init, Executed, Received
  <2>3. repl.relay = << >>
    BY DEF Init
  <2> QED
    BY <2>1, <2>2, <2>3 DEF DataInv
<1>2. ScriptInv
  <2>1. s3 = [dumps |-> << >>, latest |-> 0] /\ << >> \in Seq(Dumps)
    BY EmptySeq DEF Init
  <2>2. SettingTypeOK
    <3>1. up \in [Servers -> BOOLEAN] /\ failedOver \in BOOLEAN
      BY Zenon DEF Init
    <3>2. env \in Servers \cup {"unset"} /\ app \in Servers /\ fresh = "none"
      BY DEF Init, Servers
    <3> QED
      BY <2>1, <3>1, <3>2 DEF SettingTypeOK
  <2>3. ScriptTypeOK
    BY NoDumpType, LimitsAssumption DEF Init, ScriptTypeOK, Idle, Labels, OperatorScripts
  <2>4. op.dump.pos = 0 /\ cron.dump.pos = 0 /\ written = 0
    BY NoDumpType DEF Init, Idle
  <2>5. DOMAIN s3.dumps = {}
    BY <2>1
  <2> QED
    BY <2>2, <2>3, <2>4, <2>5 DEF ScriptInv
<1>3. CopyInv
  BY DEF Init, CopyInv, Idle
<1> QED
  BY <1>1, <1>2, <1>3 DEF TypeInv

-----------------------------------------------------------------------------
(* What the moves of a script keep *)

LEMMA GoToKeeps ==
  ASSUME ScriptInv, NEW label \in Labels, GoTo(label),
         UNCHANGED <<up, env, app, fresh, outside, failedOver>>
  PROVE  ScriptInv' /\ op'.pc = label
<1>1. op' \in [kind : OperatorScripts \cup {"none"}, pc : Labels, drained : BOOLEAN,
               dump : Dumps, result : {"none", "ok", "failed"}]
  BY DEF ScriptInv, ScriptTypeOK, GoTo
<1>2. op'.dump = op.dump /\ op'.pc = label
  BY DEF ScriptInv, ScriptTypeOK, GoTo
<1> QED
  BY <1>1, <1>2 DEF ScriptInv, SettingTypeOK, ScriptTypeOK, outside

LEMMA EndKeeps ==
  ASSUME ScriptInv,
         op' = Idle \/ \E r \in {"ok", "failed"} : op' = [Idle EXCEPT !.result = r],
         UNCHANGED <<up, env, fresh, outside>>, app' \in Servers \cup {"none"},
         failedOver' \in BOOLEAN
  PROVE  ScriptInv' /\ op'.pc = "idle"
<1>1. op' \in [kind : OperatorScripts \cup {"none"}, pc : Labels, drained : BOOLEAN,
               dump : Dumps, result : {"none", "ok", "failed"}]
  <2>1. CASE op' = Idle
    BY <2>1, NoDumpType DEF Idle, Labels
  <2>2. CASE \E r \in {"ok", "failed"} : op' = [Idle EXCEPT !.result = r]
    BY <2>2, NoDumpType DEF Idle, Labels
  <2> QED
    BY <2>1, <2>2
<1>2. op'.dump.pos = 0 /\ op'.pc = "idle"
  BY NoDumpType DEF Idle
<1>3. written' = written /\ written \in Nat
  BY LimitsAssumption DEF outside, ScriptInv, ScriptTypeOK
<1> QED
  BY <1>1, <1>2, <1>3 DEF ScriptInv, SettingTypeOK, ScriptTypeOK, outside

LEMMA DoneKeeps ==
  ASSUME ScriptInv, Done \/ Die, UNCHANGED <<up, env, app, fresh, outside, failedOver>>
  PROVE  ScriptInv' /\ op'.pc = "idle"
<1>1. \E r \in {"ok", "failed"} : op' = [Idle EXCEPT !.result = r]
  BY DEF Done, Die
<1> QED
  BY <1>1, EndKeeps DEF ScriptInv, SettingTypeOK

\* Steps that leave the data, or only the position, alone.
LEMMA DataStays ==
  ASSUME DataInv, UNCHANGED <<data, written>>
  PROVE  DataInv'
  BY DEF DataInv, data, DataTypeOK, Executed, Received

LEMMA CopyStays ==
  ASSUME CopyInv, repl' = repl, op'.pc # "re_copy" \/ op'.pc = op.pc
  PROVE  CopyInv'
  BY DEF CopyInv

LEMMA ScriptStays ==
  ASSUME ScriptInv, UNCHANGED <<up, env, app, fresh, outside, op, failedOver>>
  PROVE  ScriptInv' /\ op'.pc = op.pc
  BY DEF ScriptInv, SettingTypeOK, ScriptTypeOK, outside

-----------------------------------------------------------------------------
(* Steps of the application, of deploys and of the servers *)

\* A commit keeps the types of the data, and the positions of the dumps below
\* the number of transactions.
LEMMA CommitKeeps ==
  ASSUME TypeInv, NEW s \in Servers, Commit(s), repl' = repl
  PROVE  /\ DataInv'
         /\ written' = written + 1 /\ written + 1 \in 1..MaxWrites
         /\ \A d \in Dumps : d.pos <= written + 1 => d.pos <= written' + 1
<1>1. written' = written + 1 /\ written + 1 \in 1..MaxWrites
  BY LimitsAssumption DEF Commit, TypeInv, ScriptInv, ScriptTypeOK
<1>2. \A q \in Rows : Append(q, written + 1) \in Rows /\ Len(Append(q, written + 1)) = Len(q) + 1
  <2>1. written + 1 \in 0..MaxWrites
    BY <1>1, LimitsAssumption
  <2> QED
    BY <2>1, AppendProperties DEF Rows
<1>3. bin' \in [purged : Count, log : Rows] /\ Executed' <= Executed + 1
  <2>1. CASE s = "primary"
    <3>1. bin' = [bin EXCEPT !.log = Append(@, written + 1)]
      BY <2>1 DEF Commit
    <3>2. bin.log \in Rows /\ bin.purged \in Nat /\ Len(bin.log) \in Nat
      BY LimitsAssumption DEF TypeInv, DataInv, DataTypeOK, Count, Rows
    <3>3. bin'.purged = bin.purged /\ bin'.log = Append(bin.log, written + 1)
      BY <3>1 DEF TypeInv, DataInv, DataTypeOK
    <3>4. Append(bin.log, written + 1) \in Rows /\ Len(bin'.log) = Len(bin.log) + 1
      BY <3>2, <3>3, <1>2
    <3>5. bin' \in [purged : Count, log : Rows]
      BY <3>1, <3>4 DEF TypeInv, DataInv, DataTypeOK
    <3> QED
      BY <3>2, <3>3, <3>4, <3>5 DEF Executed
  <2>2. CASE s # "primary"
    <3>1. bin' = bin
      BY <2>2 DEF Commit
    <3> QED
      BY <3>1, LimitsAssumption DEF TypeInv, DataInv, DataTypeOK, Executed, Count, Rows
  <2> QED
    BY <2>1, <2>2
<1>4. rows' \in [Servers -> Rows]
  BY <1>1, <1>2 DEF Commit, TypeInv, DataInv, DataTypeOK
<1>5. DataInv'
  <2>1. Received' = Received
    BY DEF Received
  <2>2. Executed \in Int /\ Received \in Int /\ Executed' \in Int
    BY <1>3, LimitsAssumption DEF TypeInv, DataInv, DataTypeOK, Executed, Received, Count, Rows
  <2> QED
    BY <1>1, <1>3, <1>4, <2>1, <2>2 DEF TypeInv, DataInv, DataTypeOK
<1>6. \A d \in Dumps : d.pos <= written + 1 => d.pos <= written' + 1
  BY <1>1, LimitsAssumption DEF Dumps, Count
<1> QED
  BY <1>1, <1>5, <1>6

LEMMA AppWriteKeeps == TypeInv /\ AppWrite => TypeInv'
<1> SUFFICES ASSUME TypeInv, AppWrite PROVE TypeInv'
  OBVIOUS
<1>1. app \in Servers /\ Commit(app) /\ repl' = repl
  BY DEF AppWrite, TypeInv, ScriptInv, SettingTypeOK
<1>2. UNCHANGED <<up, env, app, fresh, s3, op, cron, ops, failedOver>>
  BY DEF AppWrite
<1>3. ScriptInv'
  <2>1. op.dump \in Dumps /\ cron.dump \in Dumps /\ \A i \in DOMAIN s3.dumps : s3.dumps[i] \in Dumps
    BY DEF TypeInv, ScriptInv, ScriptTypeOK, SettingTypeOK
  <2>2. written' \in 0..MaxWrites
    BY <1>1, CommitKeeps
  <2> QED
    BY <1>1, <1>2, <2>1, <2>2, CommitKeeps DEF TypeInv, ScriptInv, ScriptTypeOK, SettingTypeOK
<1>4. CopyInv'
  BY <1>1, <1>2 DEF TypeInv, CopyInv
<1> QED
  BY <1>1, <1>3, <1>4, CommitKeeps DEF TypeInv

\* Creating the replication user is a transaction too.
LEMMA CreateReplUserKeeps == TypeInv /\ CreateReplUser => TypeInv'
<1> SUFFICES ASSUME TypeInv, CreateReplUser PROVE TypeInv'
  OBVIOUS
<1>1. "primary" \in Servers /\ Commit("primary") /\ repl' = repl /\ GoTo("su_point")
  BY DEF CreateReplUser, Servers
<1>2. UNCHANGED <<up, env, app, fresh, s3, cron, ops, failedOver>>
  BY DEF CreateReplUser
<1>3. op' = [op EXCEPT !.pc = "su_point"] /\ "su_point" \in Labels
  BY <1>1 DEF GoTo, Labels
<1>4. /\ op' \in [kind : OperatorScripts \cup {"none"}, pc : Labels, drained : BOOLEAN,
                  dump : Dumps, result : {"none", "ok", "failed"}]
      /\ op'.dump = op.dump /\ op'.pc = "su_point"
  BY <1>3 DEF TypeInv, ScriptInv, ScriptTypeOK
<1>5. ScriptInv'
  <2>1. op.dump \in Dumps /\ cron.dump \in Dumps /\ \A i \in DOMAIN s3.dumps : s3.dumps[i] \in Dumps
    BY DEF TypeInv, ScriptInv, ScriptTypeOK, SettingTypeOK
  <2>2. written' \in 0..MaxWrites
    BY <1>1, CommitKeeps
  <2> QED
    BY <1>1, <1>2, <1>4, <2>1, <2>2, CommitKeeps
       DEF TypeInv, ScriptInv, ScriptTypeOK, SettingTypeOK
<1> QED
  BY <1>1, <1>4, <1>5, CommitKeeps DEF TypeInv, CopyInv

LEMMA DeployKeeps ==
  TypeInv /\ (StartFresh \/ SwitchToFresh \/ RemoveFresh \/ Sync) => TypeInv'
<1> SUFFICES ASSUME TypeInv, StartFresh \/ SwitchToFresh \/ RemoveFresh \/ Sync
             PROVE  TypeInv'
  OBVIOUS
<1>1. UNCHANGED <<data, up, outside, op, failedOver>>
  BY DEF StartFresh, SwitchToFresh, RemoveFresh, Sync
<1>2. /\ env' \in Servers \cup {"unset"}
      /\ app' \in Servers \cup {"none"}
      /\ fresh' \in Servers \cup {"none"}
  BY DEF StartFresh, SwitchToFresh, RemoveFresh, Sync, HostOf, Servers,
         TypeInv, ScriptInv, SettingTypeOK
<1>3. ScriptInv'
  BY <1>1, <1>2 DEF TypeInv, ScriptInv, SettingTypeOK, ScriptTypeOK, outside
<1>4. DataInv' /\ CopyInv'
  BY <1>1, DataStays, CopyStays DEF TypeInv, outside, data
<1> QED
  BY <1>3, <1>4 DEF TypeInv

\* A step that only touches the replication state: it keeps the type when the
\* position does not move past what was written.
LEMMA ReplStepKeeps ==
  ASSUME DataInv, UNCHANGED <<rows, bin, written>>,
         repl' \in [source : BOOLEAN, io : BOOLEAN, sql : BOOLEAN, relay : Rows,
                    pos : Count, ro : BOOLEAN, persisted : BOOLEAN],
         Received' <= written + 1,
         ~repl'.source => repl'.relay = << >>
  PROVE  DataInv'
  BY DEF DataInv, DataTypeOK, Executed

LEMMA FetchKeeps == TypeInv /\ Fetch => TypeInv'
<1> SUFFICES ASSUME TypeInv, Fetch PROVE TypeInv'
  OBVIOUS
<1> DEFINE row == bin.log[Received + 1 - bin.purged]
<1>1. Received \in Nat /\ Executed \in Nat /\ bin.purged \in Nat /\ written \in Nat
  BY LimitsAssumption DEF TypeInv, DataInv, DataTypeOK, ScriptInv, ScriptTypeOK, Received,
                          Executed, Count, Rows
<1>2. row \in 0..MaxWrites
  <2>1. Received + 1 - bin.purged \in 1..Len(bin.log)
    BY <1>1 DEF Fetch, Executed, TypeInv, DataInv, DataTypeOK, Rows
  <2> QED
    BY <2>1, ElementOfSeq DEF TypeInv, DataInv, DataTypeOK, Rows
<1>3. Append(repl.relay, row) \in Rows /\ Len(Append(repl.relay, row)) = Len(repl.relay) + 1
  BY <1>2, AppendProperties DEF TypeInv, DataInv, DataTypeOK, Rows
<1>4. repl' = [repl EXCEPT !.relay = Append(repl.relay, row)] /\ repl.source
  BY DEF Fetch
<1>5. repl' \in [source : BOOLEAN, io : BOOLEAN, sql : BOOLEAN, relay : Rows,
                 pos : Count, ro : BOOLEAN, persisted : BOOLEAN]
  BY <1>3, <1>4 DEF TypeInv, DataInv, DataTypeOK
<1>6. Received' = Received + 1
  BY <1>3, <1>4, LimitsAssumption DEF TypeInv, DataInv, DataTypeOK, Received, Count, Rows
<1>7. Received' <= written + 1
  BY <1>1, <1>6 DEF Fetch, TypeInv, DataInv
<1>8. repl'.source
  BY <1>4 DEF TypeInv, DataInv, DataTypeOK
<1>9. DataInv'
  BY <1>5, <1>7, <1>8, ReplStepKeeps DEF TypeInv, Fetch, outside
<1>10. ScriptInv' /\ CopyInv'
  BY <1>4, ScriptStays DEF Fetch, TypeInv, CopyInv
<1> QED
  BY <1>9, <1>10 DEF TypeInv
LEMMA ApplyKeeps == TypeInv /\ Apply => TypeInv'
<1> SUFFICES ASSUME TypeInv, Apply PROVE TypeInv'
  OBVIOUS
<1>1. /\ repl.relay \in Rows /\ repl.relay # << >> /\ repl.source
      /\ repl.pos \in Nat /\ Len(repl.relay) \in Nat
      /\ written \in 0..MaxWrites /\ Received <= written + 1
  BY LimitsAssumption
     DEF Apply, TypeInv, DataInv, DataTypeOK, ScriptInv, ScriptTypeOK, Count, Rows
<1>2. /\ Head(repl.relay) \in 0..MaxWrites /\ Tail(repl.relay) \in Rows
      /\ Len(Tail(repl.relay)) = Len(repl.relay) - 1
  BY <1>1, HeadTailProperties DEF Rows
<1>3. repl' = [repl EXCEPT !.relay = Tail(repl.relay), !.pos = repl.pos + 1]
  BY DEF Apply
<1>4. repl'.source /\ repl'.relay = Tail(repl.relay) /\ repl'.pos = repl.pos + 1
  BY <1>1, <1>3 DEF TypeInv, DataInv, DataTypeOK
<1>5. Received' = Received
  BY <1>1, <1>2, <1>4 DEF Received
<1>6. repl.pos + 1 \in Count
  BY <1>1, <1>2, LimitsAssumption DEF Count, Received
<1>7. repl' \in [source : BOOLEAN, io : BOOLEAN, sql : BOOLEAN, relay : Rows,
                 pos : Count, ro : BOOLEAN, persisted : BOOLEAN]
  BY <1>2, <1>3, <1>6 DEF TypeInv, DataInv, DataTypeOK
<1>8. rows' \in [Servers -> Rows]
  <2>1. Append(rows["replica"], Head(repl.relay)) \in Rows
    BY <1>2, AppendProperties DEF TypeInv, DataInv, DataTypeOK, Rows, Servers
  <2> QED
    BY <2>1 DEF Apply, TypeInv, DataInv, DataTypeOK
<1>9. DataInv'
  BY <1>1, <1>4, <1>5, <1>7, <1>8 DEF Apply, TypeInv, DataInv, DataTypeOK, Executed, outside
<1>10. ScriptInv' /\ CopyInv'
  BY <1>4, ScriptStays DEF Apply, TypeInv, CopyInv
<1> QED
  BY <1>9, <1>10 DEF TypeInv

LEMMA ThreadStopsKeeps == TypeInv /\ (IoStops \/ SqlStops) => TypeInv'
<1> SUFFICES ASSUME TypeInv, IoStops \/ SqlStops PROVE TypeInv'
  OBVIOUS
<1>1. UNCHANGED <<rows, bin, up, env, app, fresh, outside, op, failedOver>>
  BY DEF IoStops, SqlStops
<1>2. /\ repl'.relay = repl.relay /\ repl'.pos = repl.pos /\ repl'.source = repl.source
      /\ repl' \in [source : BOOLEAN, io : BOOLEAN, sql : BOOLEAN, relay : Rows,
                    pos : Count, ro : BOOLEAN, persisted : BOOLEAN]
  BY DEF IoStops, SqlStops, TypeInv, DataInv, DataTypeOK
<1>3. DataInv'
  BY <1>1, <1>2, ReplStepKeeps DEF TypeInv, DataInv, Received, outside
<1>4. ScriptInv' /\ CopyInv'
  BY <1>1, <1>2, ScriptStays DEF TypeInv, CopyInv
<1> QED
  BY <1>3, <1>4 DEF TypeInv

LEMMA ServerKeeps ==
  ASSUME TypeInv, NEW s \in Servers, ServerStops(s) \/ ServerComesBack(s)
  PROVE  TypeInv'
<1>1. UNCHANGED <<rows, bin, env, app, fresh, outside, op, failedOver>>
  BY DEF ServerStops, ServerComesBack, data
<1>2. /\ repl'.relay = repl.relay /\ repl'.pos = repl.pos /\ repl'.source = repl.source
      /\ repl' \in [source : BOOLEAN, io : BOOLEAN, sql : BOOLEAN, relay : Rows,
                    pos : Count, ro : BOOLEAN, persisted : BOOLEAN]
  <2>1. CASE repl' = repl
    BY <2>1 DEF TypeInv, DataInv, DataTypeOK
  <2>2. CASE repl' = [repl EXCEPT !.io = FALSE, !.sql = FALSE, !.ro = repl.persisted]
    <3>1. repl.persisted \in BOOLEAN
      BY DEF TypeInv, DataInv, DataTypeOK
    <3> QED
      BY <2>2, <3>1 DEF TypeInv, DataInv, DataTypeOK
  <2> QED
    BY <2>1, <2>2 DEF ServerStops, ServerComesBack, data
<1>3. DataInv'
  BY <1>1, <1>2, ReplStepKeeps DEF TypeInv, DataInv, Received, outside
<1>4. up' \in [Servers -> BOOLEAN]
  BY DEF ServerStops, ServerComesBack, TypeInv, ScriptInv, SettingTypeOK
<1>5. ScriptInv' /\ CopyInv'
  BY <1>1, <1>2, <1>4 DEF TypeInv, ScriptInv, SettingTypeOK, ScriptTypeOK, CopyInv, outside
<1> QED
  BY <1>3, <1>5 DEF TypeInv

-----------------------------------------------------------------------------
(* Steps of the scripts that leave the data alone *)

LEMMA StartScriptKeeps == TypeInv /\ StartScript => TypeInv'
<1> SUFFICES ASSUME TypeInv, StartScript PROVE TypeInv'
  OBVIOUS
<1>1. PICK kind \in OperatorScripts :
        op' = [Idle EXCEPT !.kind = kind, !.pc = FirstLabel(kind)]
  BY DEF StartScript
<1>2. FirstLabel(kind) \in Labels \ {"re_copy"}
  BY DEF FirstLabel, OperatorScripts, Labels
<1>3. /\ op' \in [kind : OperatorScripts \cup {"none"}, pc : Labels, drained : BOOLEAN,
                  dump : Dumps, result : {"none", "ok", "failed"}]
      /\ op'.dump.pos = 0
      /\ op'.pc # "re_copy"
  BY <1>1, <1>2, NoDumpType DEF Idle
<1>4. ops' \in 0..MaxOps /\ written \in Nat
  BY LimitsAssumption DEF StartScript, TypeInv, ScriptInv, ScriptTypeOK
<1>5. UNCHANGED <<data, up, env, app, fresh, s3, cron, written, failedOver>>
  BY DEF StartScript
<1>6. ScriptInv'
  BY <1>3, <1>4, <1>5 DEF TypeInv, ScriptInv, SettingTypeOK, ScriptTypeOK
<1>7. DataInv' /\ CopyInv'
  BY <1>3, <1>5, DataStays, CopyStays DEF TypeInv, data
<1> QED
  BY <1>6, <1>7 DEF TypeInv

LEMMA BreakOffKeeps == TypeInv /\ (ServerGone \/ Killed) => TypeInv'
<1> SUFFICES ASSUME TypeInv, ServerGone \/ Killed PROVE TypeInv'
  OBVIOUS
<1>1. UNCHANGED <<data, up, env, app, fresh, outside, failedOver>>
  BY DEF ServerGone, Killed
<1>2. op' = Idle \/ \E r \in {"ok", "failed"} : op' = [Idle EXCEPT !.result = r]
  BY DEF ServerGone, Killed, Die
<1>3. ScriptInv' /\ op'.pc = "idle"
  BY <1>1, <1>2, EndKeeps DEF TypeInv, ScriptInv, SettingTypeOK
<1>4. DataInv' /\ CopyInv'
  BY <1>1, <1>3, DataStays, CopyStays DEF TypeInv, data, outside
<1> QED
  BY <1>3, <1>4 DEF TypeInv
LEMMA SetupChecksKeep ==
  TypeInv /\ (ComposeUp \/ CheckRunning \/ VerifyRunning) => TypeInv'
<1> SUFFICES ASSUME TypeInv, ComposeUp \/ CheckRunning \/ VerifyRunning
             PROVE  TypeInv'
  OBVIOUS
<1>1. UNCHANGED <<data, env, app, fresh, outside, failedOver>>
  BY DEF ComposeUp, CheckRunning, VerifyRunning
<1>2. up' \in [Servers -> BOOLEAN]
  <2>1. CASE up' = up
    BY <2>1 DEF TypeInv, ScriptInv, SettingTypeOK
  <2>2. CASE ComposeUp
    <3>1. PICK started \in SUBSET Servers : up' = [s \in Servers |-> up[s] \/ s \in started]
      BY <2>2 DEF ComposeUp
    <3> QED
      BY <3>1
  <2> QED
    BY <2>1, <2>2 DEF CheckRunning, VerifyRunning
<1>3. \/ GoTo("su_check") \/ GoTo("su_user") \/ Done \/ Die
  BY DEF ComposeUp, CheckRunning, VerifyRunning
<1>4. ScriptTypeOK' /\ op'.pc # "re_copy" /\ op'.dump.pos <= written + 1
  <2>1. CASE Done \/ Die
    <3>1. op' \in {[Idle EXCEPT !.result = "ok"], [Idle EXCEPT !.result = "failed"]}
      BY <2>1 DEF Done, Die
    <3>2. op'.dump = NoDump /\ op'.pc = "idle"
      BY <3>1 DEF Idle
    <3>3. op' \in [kind : OperatorScripts \cup {"none"}, pc : Labels, drained : BOOLEAN,
                  dump : Dumps, result : {"none", "ok", "failed"}]
      BY <3>1, NoDumpType DEF Idle, Labels
    <3> QED
      BY <1>1, <3>2, <3>3, NoDumpType, LimitsAssumption
         DEF TypeInv, ScriptInv, ScriptTypeOK, outside
  <2>2. CASE ~(Done \/ Die)
    <3>1. PICK label \in {"su_check", "su_user"} : GoTo(label)
      BY <1>3, <2>2
    <3>2. label \in Labels \ {"re_copy"}
      BY DEF Labels
    <3> QED
      BY <1>1, <3>1, <3>2 DEF GoTo, TypeInv, ScriptInv, ScriptTypeOK, outside
  <2> QED
    BY <2>1, <2>2
<1>5. ScriptInv'
  BY <1>1, <1>2, <1>4 DEF TypeInv, ScriptInv, SettingTypeOK, outside
<1>6. DataInv' /\ CopyInv'
  BY <1>1, <1>4, DataStays, CopyStays DEF TypeInv, data, outside
<1> QED
  BY <1>5, <1>6 DEF TypeInv

LEMMA PromoteChecksKeep ==
  TypeInv /\ (ProbeReplica \/ AwaitDrain \/ RepointEnv \/ RestartLive) => TypeInv'
<1> SUFFICES ASSUME TypeInv, ProbeReplica \/ AwaitDrain \/ RepointEnv \/ RestartLive
             PROVE  TypeInv'
  OBVIOUS
<1>1. UNCHANGED <<data, up, fresh, outside>>
  BY DEF ProbeReplica, AwaitDrain, RepointEnv, RestartLive
<1>2. ScriptInv' /\ op'.pc # "re_copy"
  <2>1. CASE ProbeReplica
    <3>1. "pr_stop" \in Labels
      BY DEF Labels
    <3> QED
      BY <1>1, <2>1, <3>1, GoToKeeps DEF ProbeReplica, TypeInv
  <2>2. CASE AwaitDrain
    <3>1. op' = [op EXCEPT !.pc = "pr_reset", !.drained = Drained] /\ Drained \in BOOLEAN
      BY <2>2, Zenon DEF AwaitDrain, Drained
    <3>2. "pr_reset" \in Labels
      BY DEF Labels
    <3>3. /\ op' \in [kind : OperatorScripts \cup {"none"}, pc : Labels, drained : BOOLEAN,
                      dump : Dumps, result : {"none", "ok", "failed"}]
          /\ op'.dump = op.dump /\ op'.pc = "pr_reset"
      BY <3>1, <3>2 DEF TypeInv, ScriptInv, ScriptTypeOK
    <3>4. UNCHANGED <<env, app, failedOver>>
      BY <2>2 DEF AwaitDrain
    <3> QED
      BY <1>1, <3>3, <3>4 DEF TypeInv, ScriptInv, SettingTypeOK, ScriptTypeOK, outside
  <2>3. CASE RepointEnv
    <3>1. op' = [op EXCEPT !.pc = "pr_restart"] /\ "pr_restart" \in Labels
      BY <2>3 DEF RepointEnv, GoTo, Labels
    <3>2. env' \in Servers /\ UNCHANGED <<app, failedOver>>
      BY <2>3 DEF RepointEnv, Servers
    <3> QED
      BY <1>1, <3>1, <3>2 DEF TypeInv, ScriptInv, SettingTypeOK, ScriptTypeOK, outside
  <2>4. CASE RestartLive
    <3>1. \E r \in {"ok", "failed"} : op' = [Idle EXCEPT !.result = r]
      BY <2>4 DEF RestartLive, Done, Die
    <3>2. app' \in Servers \cup {"none"}
      BY <2>4 DEF RestartLive, HostOf, Servers, TypeInv, ScriptInv, SettingTypeOK
    <3>3. failedOver' \in BOOLEAN
      BY <2>4 DEF RestartLive, TypeInv, ScriptInv, SettingTypeOK
    <3> QED
      BY <1>1, <2>4, <3>1, <3>2, <3>3, EndKeeps DEF RestartLive, TypeInv
  <2> QED
    BY <2>1, <2>2, <2>3, <2>4
<1>3. DataInv' /\ CopyInv'
  BY <1>1, <1>2, DataStays, CopyStays DEF TypeInv, data, outside
<1> QED
  BY <1>2, <1>3 DEF TypeInv

LEMMA DumpType ==
  ASSUME TypeInv
  PROVE  BackupDump \in Dumps /\ BackupDump.pos <= written + 1
<1> DEFINE s == IF up["replica"] THEN "replica" ELSE "primary"
<1>1. s \in Servers /\ rows[s] \in Rows
  BY DEF Servers, TypeInv, DataInv, DataTypeOK
<1>2. /\ Executed \in Nat /\ Executed <= written + 1
      /\ repl.pos \in Nat /\ repl.pos <= written + 1
      /\ written \in 0..MaxWrites
  BY LimitsAssumption DEF TypeInv, DataInv, DataTypeOK, ScriptInv, ScriptTypeOK, Executed,
                          Received, Count, Rows
<1>3. (IF s = "primary" THEN Executed ELSE repl.pos) \in Count
  BY <1>2, LimitsAssumption DEF Count
<1> QED
  BY <1>1, <1>2, <1>3 DEF BackupDump, Dump, Dumps

LEMMA BackupKeeps == TypeInv /\ BackupStep => TypeInv'
<1> SUFFICES ASSUME TypeInv, BackupStep PROVE TypeInv'
  OBVIOUS
<1>1. UNCHANGED <<data, up, env, app, fresh, written, ops, op, failedOver>>
  BY DEF BackupStep, TakeDump, UploadDump, PointLatest, BackupFails
<1>2. /\ cron' \in [pc : {"idle", "upload", "pointer"}, dump : Dumps]
      /\ cron'.dump.pos <= written + 1
  <2>1. CASE TakeDump
    BY <2>1, DumpType DEF TakeDump
  <2>2. CASE UploadDump
    BY <2>2 DEF UploadDump, TypeInv, ScriptInv, ScriptTypeOK
  <2>3. CASE PointLatest \/ BackupFails
    BY <2>3, NoDumpType, LimitsAssumption
       DEF PointLatest, BackupFails, TypeInv, ScriptInv, ScriptTypeOK
  <2> QED
    BY <2>1, <2>2, <2>3 DEF BackupStep
<1>3. /\ s3' \in [dumps : Seq(Dumps), latest : Nat]
      /\ \A i \in DOMAIN s3'.dumps : s3'.dumps[i].pos <= written + 1
  <2>1. CASE UploadDump
    <3>1. /\ s3' = [s3 EXCEPT !.dumps = Append(s3.dumps, cron.dump)]
          /\ cron.dump \in Dumps /\ cron.dump.pos <= written + 1
          /\ s3.dumps \in Seq(Dumps)
      BY <2>1 DEF UploadDump, TypeInv, ScriptInv, SettingTypeOK, ScriptTypeOK
    <3>2. /\ Append(s3.dumps, cron.dump) \in Seq(Dumps)
          /\ \A i \in DOMAIN Append(s3.dumps, cron.dump) :
               \/ i \in DOMAIN s3.dumps /\ Append(s3.dumps, cron.dump)[i] = s3.dumps[i]
               \/ Append(s3.dumps, cron.dump)[i] = cron.dump
      BY <3>1, AppendProperties
    <3>3. s3'.dumps = Append(s3.dumps, cron.dump)
      BY <3>1 DEF TypeInv, ScriptInv, SettingTypeOK
    <3> QED
      BY <3>1, <3>2, <3>3 DEF TypeInv, ScriptInv, SettingTypeOK
  <2>2. CASE PointLatest
    BY <2>2 DEF PointLatest, TypeInv, ScriptInv, SettingTypeOK
  <2>3. CASE TakeDump \/ BackupFails
    BY <2>3 DEF TakeDump, BackupFails, TypeInv, ScriptInv, SettingTypeOK
  <2> QED
    BY <2>1, <2>2, <2>3 DEF BackupStep
<1>4. ScriptInv'
  BY <1>1, <1>2, <1>3 DEF TypeInv, ScriptInv, SettingTypeOK, ScriptTypeOK
<1>5. DataInv' /\ CopyInv'
  BY <1>1, DataStays, CopyStays DEF TypeInv, data
<1> QED
  BY <1>4, <1>5 DEF TypeInv
-----------------------------------------------------------------------------
(* Steps of the scripts that change the data *)

\* Set-up and promotion change the threads, the flags and the relay log of the
\* replica; they never move its position.
LEMMA ReplicaSettingsKeep ==
  TypeInv /\ (PointAtPrimary \/ ArmReadOnly \/ StopReceiving \/ DropSource \/ MakeWritable)
    => TypeInv'
<1> SUFFICES ASSUME TypeInv,
                    PointAtPrimary \/ ArmReadOnly \/ StopReceiving \/ DropSource \/ MakeWritable
             PROVE  TypeInv'
  OBVIOUS
<1>1. UNCHANGED <<rows, bin, up, env, app, fresh, outside, failedOver>>
  BY DEF PointAtPrimary, ArmReadOnly, StopReceiving, DropSource, MakeWritable
<1>2. /\ repl' \in [source : BOOLEAN, io : BOOLEAN, sql : BOOLEAN, relay : Rows,
                    pos : Count, ro : BOOLEAN, persisted : BOOLEAN]
      /\ repl'.pos = repl.pos
  BY EmptyRows DEF PointAtPrimary, ArmReadOnly, StopReceiving, DropSource, MakeWritable,
                   TypeInv, DataInv, DataTypeOK
<1>3. /\ repl'.relay = repl.relay \/ repl'.relay = << >>
      /\ ~repl'.source => repl'.relay = << >>
  BY DEF PointAtPrimary, ArmReadOnly, StopReceiving, DropSource, MakeWritable,
         TypeInv, DataInv, DataTypeOK
<1>4. Received' <= written + 1
  <2>1. /\ repl.pos \in Nat /\ Len(repl.relay) \in Nat /\ Received <= written + 1
        /\ written \in Nat
    BY LimitsAssumption
       DEF TypeInv, DataInv, DataTypeOK, ScriptInv, ScriptTypeOK, Count, Rows
  <2> QED
    BY <1>2, <1>3, <2>1, EmptyRows DEF Received
<1>5. DataInv'
  BY <1>1, <1>2, <1>3, <1>4, ReplStepKeeps DEF TypeInv, outside
<1>6. PICK label \in {"su_arm", "su_verify", "pr_drain", "pr_write", "pr_env"} : GoTo(label)
  BY DEF PointAtPrimary, ArmReadOnly, StopReceiving, DropSource, MakeWritable
<1>7. label \in Labels \ {"re_copy"}
  BY DEF Labels
<1>8. ScriptInv' /\ op'.pc # "re_copy"
  BY <1>1, <1>6, <1>7, GoToKeeps DEF TypeInv
<1> QED
  BY <1>5, <1>8 DEF TypeInv, CopyInv

LEMMA FetchDumpKeeps == TypeInv /\ FetchDump => TypeInv'
<1> SUFFICES ASSUME TypeInv, FetchDump PROVE TypeInv'
  OBVIOUS
<1>1. UNCHANGED <<data, up, env, app, fresh, outside, failedOver>>
  BY DEF FetchDump
<1>2. ScriptInv' /\ op'.pc # "re_copy"
  <2>1. CASE Die
    BY <1>1, <2>1, DoneKeeps DEF TypeInv
  <2>2. CASE \E i \in DOMAIN s3.dumps :
               op' = [op EXCEPT !.pc = "re_reset", !.dump = s3.dumps[i]]
    <3>1. PICK i \in DOMAIN s3.dumps : op' = [op EXCEPT !.pc = "re_reset", !.dump = s3.dumps[i]]
      BY <2>2
    <3>2. s3.dumps[i] \in Dumps /\ s3.dumps[i].pos <= written + 1 /\ "re_reset" \in Labels
      BY DEF TypeInv, ScriptInv, SettingTypeOK, Labels
    <3>3. /\ op' \in [kind : OperatorScripts \cup {"none"}, pc : Labels, drained : BOOLEAN,
                      dump : Dumps, result : {"none", "ok", "failed"}]
          /\ op'.dump = s3.dumps[i] /\ op'.pc = "re_reset"
      BY <3>1, <3>2 DEF TypeInv, ScriptInv, ScriptTypeOK
    <3> QED
      BY <1>1, <3>2, <3>3 DEF TypeInv, ScriptInv, SettingTypeOK, ScriptTypeOK, outside
  <2> QED
    BY <2>1, <2>2 DEF FetchDump
<1>3. DataInv' /\ CopyInv'
  BY <1>1, <1>2, DataStays, CopyStays DEF TypeInv, data, outside
<1> QED
  BY <1>2, <1>3 DEF TypeInv

LEMMA ResetPrimaryKeeps == TypeInv /\ ResetPrimary => TypeInv'
<1> SUFFICES ASSUME TypeInv, ResetPrimary PROVE TypeInv'
  OBVIOUS
<1>1. UNCHANGED <<rows, repl, up, env, app, fresh, outside, failedOver>>
  BY DEF ResetPrimary
<1>2. bin' \in [purged : Count, log : Rows] /\ Executed' = 0
  BY EmptyRows, LimitsAssumption DEF ResetPrimary, Executed, Count
<1>3. DataInv'
  BY <1>1, <1>2, LimitsAssumption
     DEF TypeInv, DataInv, DataTypeOK, ScriptInv, ScriptTypeOK, Received, outside
<1>4. GoTo("re_load") /\ "re_load" \in Labels
  BY DEF ResetPrimary, Labels
<1>5. ScriptInv' /\ op'.pc = "re_load"
  BY <1>1, <1>4, GoToKeeps DEF TypeInv
<1> QED
  BY <1>3, <1>5 DEF TypeInv, CopyInv

\* What a server holds after a load is typed, whether the load ended or not.
LEMMA PartsType ==
  ASSUME TypeInv, NEW s \in Servers, NEW part \in PartlyLoaded(s)
  PROVE  part \in Rows
<1>1. rows[s] \in Rows /\ op.dump.rows \in Rows
  BY DEF TypeInv, DataInv, DataTypeOK, ScriptInv, ScriptTypeOK, Dumps
<1>2. CASE part = rows[s]
  BY <1>1, <1>2
<1>3. CASE \E n \in 1..Len(op.dump.rows) : part = SubSeq(op.dump.rows, 1, n)
  <2>1. PICK n \in 1..Len(op.dump.rows) : part = SubSeq(op.dump.rows, 1, n)
    BY <1>3
  <2>2. /\ Len(op.dump.rows) \in Nat
        /\ \A i \in 1..Len(op.dump.rows) : op.dump.rows[i] \in 0..MaxWrites
    BY <1>1, ElementOfSeq, LenProperties DEF Rows
  <2> QED
    BY <2>1, <2>2, SubSeqProperties DEF Rows
<1> QED
  BY <1>2, <1>3 DEF PartlyLoaded
LEMMA LoadPrimaryKeeps == TypeInv /\ LoadPrimary => TypeInv'
<1> SUFFICES ASSUME TypeInv, LoadPrimary PROVE TypeInv'
  OBVIOUS
<1>1. UNCHANGED <<repl, up, env, app, fresh, outside, failedOver>>
  BY DEF LoadPrimary
<1>2. /\ bin \in [purged : Count, log : Rows] /\ Len(bin.log) \in Nat /\ bin.purged \in Nat
      /\ op.dump \in Dumps /\ op.dump.pos \in Count /\ op.dump.pos \in Nat
      /\ op.dump.pos <= written + 1 /\ Executed <= written + 1
  BY LimitsAssumption
     DEF TypeInv, DataInv, DataTypeOK, ScriptInv, ScriptTypeOK, Dumps, Count, Rows
<1>3. rows' \in [Servers -> Rows]
  <2>1. CASE rows' = rows
    BY <2>1 DEF TypeInv, DataInv, DataTypeOK
  <2>2. CASE rows' = [rows EXCEPT !["primary"] = op.dump.rows]
    BY <2>2, <1>2 DEF TypeInv, DataInv, DataTypeOK, Dumps
  <2>3. CASE \E part \in PartlyLoaded("primary") : rows' = [rows EXCEPT !["primary"] = part]
    BY <2>3, PartsType DEF TypeInv, DataInv, DataTypeOK, Servers
  <2> QED
    BY <2>1, <2>2, <2>3 DEF LoadPrimary
<1>4. bin' \in [purged : Count, log : Rows] /\ Executed' <= written + 1
  <2>1. CASE bin' = bin
    BY <2>1, <1>2 DEF Executed
  <2>2. CASE ~PurgedConflict /\ bin' = [bin EXCEPT !.purged = op.dump.pos]
    <3>1. bin'.purged = op.dump.pos /\ bin'.log = bin.log
      BY <2>2, <1>2
    <3>2. op.dump.pos = 0 \/ Len(bin.log) = 0
      BY <2>2, <1>2, EmptyRows DEF PurgedConflict
    <3>3. Executed' <= written + 1
      BY <3>1, <3>2, <1>2, LimitsAssumption
         DEF Executed, TypeInv, ScriptInv, ScriptTypeOK
    <3> QED
      BY <2>2, <3>3, <1>2
  <2> QED
    BY <2>1, <2>2 DEF LoadPrimary
<1>5. DataInv'
  BY <1>1, <1>3, <1>4 DEF TypeInv, DataInv, DataTypeOK, Received, outside
<1>6. ScriptInv' /\ op'.pc # "re_copy"
  <2>1. CASE Die
    BY <1>1, <2>1, DoneKeeps DEF TypeInv
  <2>2. CASE GoTo("re_stop")
    <3>1. "re_stop" \in Labels
      BY DEF Labels
    <3> QED
      BY <1>1, <2>2, <3>1, GoToKeeps DEF TypeInv
  <2> QED
    BY <2>1, <2>2 DEF LoadPrimary
<1> QED
  BY <1>5, <1>6 DEF TypeInv, CopyInv

LEMMA ResetReplicaKeeps == TypeInv /\ ResetReplica => TypeInv'
<1> SUFFICES ASSUME TypeInv, ResetReplica PROVE TypeInv'
  OBVIOUS
<1>1. UNCHANGED <<rows, bin, up, env, app, fresh, outside, failedOver>>
  BY DEF ResetReplica
<1>2. CASE UNCHANGED repl /\ Done
  <2>1. ScriptInv' /\ op'.pc # "re_copy"
    BY <1>1, <1>2, DoneKeeps DEF TypeInv
  <2>2. DataInv'
    BY <1>1, <1>2, DataStays DEF TypeInv, data, outside
  <2> QED
    BY <2>1, <2>2 DEF TypeInv, CopyInv
<1>3. CASE /\ repl' = [source |-> FALSE, io |-> FALSE, sql |-> FALSE, relay |-> << >>,
                       pos |-> 0, ro |-> FALSE, persisted |-> FALSE]
           /\ GoTo("re_copy")
  <2>1. ScriptInv'
    <3>1. "re_copy" \in Labels
      BY DEF Labels
    <3> QED
      BY <1>1, <1>3, <3>1, GoToKeeps DEF TypeInv
  <2>2. written \in Nat /\ Received' = 0
    BY <1>3, EmptyRows, LimitsAssumption DEF Received, TypeInv, ScriptInv, ScriptTypeOK
  <2>3. repl' \in [source : BOOLEAN, io : BOOLEAN, sql : BOOLEAN, relay : Rows,
                   pos : Count, ro : BOOLEAN, persisted : BOOLEAN]
    BY <1>3, EmptyRows, LimitsAssumption DEF Count
  <2>4. DataInv'
    BY <1>1, <1>3, <2>2, <2>3, ReplStepKeeps DEF TypeInv, outside
  <2> QED
    BY <1>3, <2>1, <2>4 DEF TypeInv, CopyInv
<1> QED
  BY <1>2, <1>3 DEF ResetReplica

LEMMA LoadReplicaKeeps == TypeInv /\ LoadReplica => TypeInv'
<1> SUFFICES ASSUME TypeInv, LoadReplica PROVE TypeInv'
  OBVIOUS
<1>1. UNCHANGED <<bin, up, env, app, fresh, outside, failedOver>> /\ (Done \/ Die)
  BY DEF LoadReplica
<1>2. ScriptInv' /\ op'.pc # "re_copy"
  BY <1>1, DoneKeeps DEF TypeInv
<1>3. /\ op.dump \in Dumps /\ op.dump.pos \in Count /\ op.dump.pos \in Nat
      /\ op.dump.pos <= written + 1
  BY LimitsAssumption DEF TypeInv, ScriptInv, ScriptTypeOK, Dumps, Count
<1>4. repl.relay = << >>
  BY DEF LoadReplica, At, TypeInv, CopyInv, DataInv
<1>5. /\ repl' \in [source : BOOLEAN, io : BOOLEAN, sql : BOOLEAN, relay : Rows,
                    pos : Count, ro : BOOLEAN, persisted : BOOLEAN]
      /\ repl'.relay = << >>
      /\ repl'.pos \in {op.dump.pos, repl.pos}
  BY <1>3, <1>4 DEF LoadReplica, TypeInv, DataInv, DataTypeOK
<1>6. Received' <= written + 1
  BY <1>3, <1>4, <1>5, EmptyRows, LimitsAssumption
     DEF Received, TypeInv, DataInv, DataTypeOK, Count
<1>7. rows' \in [Servers -> Rows]
  <2>1. CASE rows' = rows
    BY <2>1 DEF TypeInv, DataInv, DataTypeOK
  <2>2. CASE rows' = [rows EXCEPT !["replica"] = op.dump.rows]
    BY <2>2, <1>3 DEF TypeInv, DataInv, DataTypeOK, Dumps
  <2>3. CASE \E part \in PartlyLoaded("replica") : rows' = [rows EXCEPT !["replica"] = part]
    BY <2>3, PartsType DEF TypeInv, DataInv, DataTypeOK, Servers
  <2> QED
    BY <2>1, <2>2, <2>3 DEF LoadReplica
<1>8. DataInv'
  BY <1>1, <1>5, <1>6, <1>7 DEF TypeInv, DataInv, DataTypeOK, Executed, outside
<1> QED
  BY <1>2, <1>8 DEF TypeInv, CopyInv

-----------------------------------------------------------------------------
LEMMA StepTyped == TypeInv /\ [Next]_vars => TypeInv'
<1> SUFFICES ASSUME TypeInv, [Next]_vars PROVE TypeInv'
  OBVIOUS
<1>1. CASE AppWrite \/ StartFresh \/ SwitchToFresh \/ RemoveFresh \/ Sync
  BY <1>1, AppWriteKeeps, DeployKeeps
<1>2. CASE ServerStep
  BY <1>2, FetchKeeps, ApplyKeeps, ThreadStopsKeeps, ServerKeeps DEF ServerStep
<1>3. CASE StartScript \/ ServerGone \/ Killed
  BY <1>3, StartScriptKeeps, BreakOffKeeps
<1>4. CASE SetupStep
  BY <1>4, SetupChecksKeep, CreateReplUserKeeps, ReplicaSettingsKeep DEF SetupStep
<1>5. CASE PromoteStep
  BY <1>5, PromoteChecksKeep, ReplicaSettingsKeep DEF PromoteStep
<1>6. CASE RestoreStep
  BY <1>6, FetchDumpKeeps, ResetPrimaryKeeps, LoadPrimaryKeeps, ResetReplicaKeeps,
     LoadReplicaKeeps DEF RestoreStep
<1>7. CASE BackupStep
  BY <1>7, BackupKeeps
<1>8. CASE UNCHANGED vars
  <2>1. UNCHANGED <<data, written, repl>>
    BY <1>8 DEF vars, data, outside
  <2>2. UNCHANGED <<up, env, app, fresh, outside, op, failedOver>>
    BY <1>8 DEF vars
  <2> QED
    BY <2>1, <2>2, DataStays, CopyStays, ScriptStays DEF TypeInv
<1> QED
  BY <1>1, <1>2, <1>3, <1>4, <1>5, <1>6, <1>7, <1>8 DEF Next

LEMMA Typed == Spec => []TypeInv
  BY InitTyped, StepTyped, PTL DEF Spec

\* Every reachable state is type correct, whichever scripts run and whatever
\* fails: no position outgrows the transactions there were.
THEOREM ReplicationTypeCorrect == Spec => []TypeOK
<1>1. TypeInv => TypeOK
  BY DEF TypeInv, DataInv, ScriptInv, TypeOK
<1> QED
  BY <1>1, Typed, PTL

-----------------------------------------------------------------------------
(* What a step does to the script, and to the settings of the replica *)

SetupLabels == {"bo_up", "su_check", "su_user", "su_point", "su_arm", "su_verify"}
PromoteLabels ==
  {"pr_probe", "pr_stop", "pr_drain", "pr_reset", "pr_write", "pr_env", "pr_restart"}

ReplTyped == repl \in
  [source : BOOLEAN, io : BOOLEAN, sql : BOOLEAN, relay : Rows, pos : Count,
   ro : BOOLEAN, persisted : BOOLEAN]
OpTyped == op \in
  [kind : OperatorScripts \cup {"none"}, pc : Labels, drained : BOOLEAN,
   dump : Dumps, result : {"none", "ok", "failed"}]

LEMMA TypedParts == TypeInv => ReplTyped /\ OpTyped
  BY DEF TypeInv, DataInv, ScriptInv, DataTypeOK, ScriptTypeOK, ReplTyped, OpTyped

LEMMA GoToMoves ==
  ASSUME OpTyped, NEW label, GoTo(label)
  PROVE  op'.pc = label /\ op'.kind = op.kind /\ op'.drained = op.drained
  BY DEF OpTyped, GoTo

LEMMA EndMoves ==
  ASSUME Done \/ Die \/ op' = Idle
  PROVE  op'.pc = "idle" /\ op'.kind = "none"
  BY DEF Done, Die, Idle

\* Steps that leave the script alone, and of the settings of the replica at
\* most forget what is not in mysqld-auto.cnf.
Beside ==
  /\ op' = op /\ UNCHANGED <<env, failedOver>>
  /\ repl'.source = repl.source /\ repl'.persisted = repl.persisted
  /\ repl'.ro \in {repl.ro, repl.persisted}

LEMMA ServerBeside == TypeInv /\ ServerStep => Beside /\ UNCHANGED <<app, fresh>>
<1> SUFFICES ASSUME TypeInv, ServerStep PROVE Beside /\ UNCHANGED <<app, fresh>>
  OBVIOUS
<1>1. ReplTyped
  BY TypedParts
<1>2. CASE Fetch
  BY <1>1, <1>2 DEF Fetch, ReplTyped, Beside
<1>3. CASE IoStops
  BY <1>1, <1>3 DEF IoStops, ReplTyped, Beside
<1>4. CASE Apply
  BY <1>1, <1>4 DEF Apply, ReplTyped, Beside
<1>5. CASE SqlStops
  BY <1>1, <1>5 DEF SqlStops, ReplTyped, Beside
<1>6. ASSUME NEW s \in Servers, ServerStops(s) PROVE Beside /\ UNCHANGED <<app, fresh>>
  BY <1>1, <1>6 DEF ServerStops, ReplTyped, Beside
<1>7. ASSUME NEW s \in Servers, ServerComesBack(s) PROVE Beside /\ UNCHANGED <<app, fresh>>
  BY <1>1, <1>7 DEF ServerComesBack, data, Beside
<1> QED
  BY <1>2, <1>3, <1>4, <1>5, <1>6, <1>7 DEF ServerStep

LEMMA WriteBeside ==
  ASSUME TypeInv, AppWrite \/ BackupStep
  PROVE  Beside /\ UNCHANGED <<app, fresh>>
  BY DEF AppWrite, BackupStep, TakeDump, UploadDump, PointLatest, BackupFails, data, Beside

-----------------------------------------------------------------------------
(* A failover is not undone *)

\* The set-up is not repeated on the promoted server, and no developer's .env
\* comes back.
NotUndone == ~Rerun /\ "sync" \notin Scripts

Promoted == ~repl.ro /\ ~repl.persisted /\ ~repl.source

HoldsInv ==
  /\ env = "replica" => Promoted /\ op.pc \notin SetupLabels
  /\ app = "replica" => env = "replica"
  /\ fresh = "replica" => env = "replica"
  /\ op.pc = "pr_write" => ~repl.source
  /\ op.pc = "pr_env" => Promoted
  /\ op.pc = "pr_restart" => env = "replica"

LEMMA HoldsBeside ==
  ASSUME HoldsInv, Beside,
         app' = app \/ app' = "none" \/ app' = fresh,
         fresh' = fresh \/ fresh' = "none" \/ fresh' = HostOf(env)
  PROVE  HoldsInv'
<1>1. HostOf(env) = "replica" => env = "replica"
  BY DEF HostOf
<1>2. Promoted => Promoted'
  BY DEF Promoted, Beside
<1> QED
  BY <1>1, <1>2 DEF HoldsInv, Beside

\* Steps of a script after which it is at none of the labels above.
LEMMA HoldsElsewhere ==
  ASSUME HoldsInv, UNCHANGED <<env, fresh>>, app' = app \/ app' = "none",
         op'.pc \notin {"pr_write", "pr_env", "pr_restart"},
         env = "replica" => Promoted' /\ op'.pc \notin SetupLabels
  PROVE  HoldsInv'
  BY DEF HoldsInv

LEMMA HoldsDeploy ==
  ASSUME NotUndone, TypeInv, HoldsInv, StartFresh \/ SwitchToFresh \/ RemoveFresh \/ Sync
  PROVE  HoldsInv'
<1>1. ~Sync
  BY DEF NotUndone, Sync
<1>2. Beside
  BY <1>1 DEF StartFresh, SwitchToFresh, RemoveFresh, data, Beside
<1>3. /\ app' = app \/ app' = fresh
      /\ fresh' = fresh \/ fresh' = "none" \/ fresh' = HostOf(env)
  BY <1>1 DEF StartFresh, SwitchToFresh, RemoveFresh
<1> QED
  BY <1>2, <1>3, HoldsBeside

LEMMA StartMoves ==
  ASSUME StartScript
  PROVE  \E kind \in OperatorScripts \cap Scripts :
           /\ op'.kind = kind /\ op'.pc = FirstLabel(kind)
           /\ kind \in {"setup", "force", "bootstrap"} => Rerun \/ env # "replica"
           /\ UNCHANGED <<repl, env, app, fresh, failedOver>>
  BY DEF StartScript, Idle, data

LEMMA FirstLabels ==
  /\ FirstLabel("setup") = "su_check" /\ FirstLabel("force") = "su_check"
  /\ FirstLabel("bootstrap") = "bo_up" /\ FirstLabel("promote") = "pr_probe"
  /\ FirstLabel("restore") = "re_fetch"
  BY DEF FirstLabel

LEMMA HoldsStart ==
  ASSUME NotUndone, HoldsInv, StartScript
  PROVE  HoldsInv'
<1>1. PICK kind \in OperatorScripts \cap Scripts :
           /\ op'.kind = kind /\ op'.pc = FirstLabel(kind)
           /\ kind \in {"setup", "force", "bootstrap"} => Rerun \/ env # "replica"
           /\ UNCHANGED <<repl, env, app, fresh, failedOver>>
  BY StartMoves
<1>2. op'.pc \in {"su_check", "bo_up", "pr_probe", "re_fetch"}
  BY <1>1, FirstLabels DEF OperatorScripts
<1>3. env = "replica" => op'.pc \in {"pr_probe", "re_fetch"}
  BY <1>1, FirstLabels DEF OperatorScripts, NotUndone
<1> QED
  BY <1>1, <1>2, <1>3, HoldsElsewhere DEF HoldsInv, Promoted, SetupLabels

LEMMA HoldsSetup ==
  ASSUME TypeInv, HoldsInv, SetupStep
  PROVE  HoldsInv'
<1>1. op.pc \in SetupLabels /\ UNCHANGED <<env, app, fresh>>
  BY DEF SetupStep, ComposeUp, CheckRunning, CreateReplUser, PointAtPrimary, ArmReadOnly,
     VerifyRunning, At, SetupLabels
<1>2. env # "replica"
  BY <1>1 DEF HoldsInv
<1>3. op'.pc \in SetupLabels \cup {"idle"}
  BY TypedParts, GoToMoves, EndMoves DEF SetupStep, ComposeUp, CheckRunning, CreateReplUser,
     PointAtPrimary, ArmReadOnly, VerifyRunning, SetupLabels
<1> QED
  BY <1>1, <1>2, <1>3, HoldsElsewhere DEF SetupLabels

LEMMA HoldsBreak ==
  ASSUME HoldsInv, ServerGone \/ Killed
  PROVE  HoldsInv'
<1>1. op'.pc = "idle" /\ UNCHANGED <<repl, env, app, fresh>>
  BY EndMoves DEF ServerGone, Killed, data
<1> QED
  BY <1>1, HoldsElsewhere DEF HoldsInv, Promoted, SetupLabels

LEMMA HoldsPromote ==
  ASSUME TypeInv, HoldsInv, PromoteStep
  PROVE  HoldsInv'
<1>1. ReplTyped /\ OpTyped
  BY TypedParts
<1>2. CASE ProbeReplica
  BY <1>1, <1>2, GoToMoves DEF ProbeReplica, HoldsInv, Promoted, SetupLabels, data
<1>3. CASE StopReceiving
  <2>1. op'.pc = "pr_drain" /\ UNCHANGED <<env, app, fresh>>
    BY <1>1, <1>3, GoToMoves DEF StopReceiving
  <2>2. Promoted => Promoted'
    BY <1>1, <1>3 DEF StopReceiving, Promoted, ReplTyped
  <2> QED
    BY <2>1, <2>2, HoldsElsewhere DEF HoldsInv, SetupLabels
<1>4. CASE AwaitDrain
  <2>1. op'.pc = "pr_reset" /\ UNCHANGED <<env, app, fresh, repl>>
    BY <1>1, <1>4 DEF AwaitDrain, OpTyped, data
  <2> QED
    BY <2>1, HoldsElsewhere DEF HoldsInv, Promoted, SetupLabels
<1>5. CASE DropSource
  <2>1. op'.pc = "pr_write" /\ UNCHANGED <<env, app, fresh>>
    BY <1>1, <1>5, GoToMoves DEF DropSource
  <2>2. ~repl'.source /\ (Promoted => Promoted')
    BY <1>1, <1>5 DEF DropSource, Promoted, ReplTyped
  <2> QED
    BY <2>1, <2>2 DEF HoldsInv, SetupLabels
<1>6. CASE MakeWritable
  <2>1. op'.pc = "pr_env" /\ UNCHANGED <<env, app, fresh>> /\ op.pc = "pr_write"
    BY <1>1, <1>6, GoToMoves DEF MakeWritable, At
  <2>2. Promoted'
    BY <1>1, <1>6, <2>1 DEF MakeWritable, Promoted, ReplTyped, HoldsInv
  <2> QED
    BY <2>1, <2>2 DEF HoldsInv, SetupLabels
<1>7. CASE RepointEnv
  <2>1. op'.pc = "pr_restart" /\ UNCHANGED <<repl, app, fresh>> /\ op.pc = "pr_env" /\ env' = "replica"
    BY <1>1, <1>7, GoToMoves DEF RepointEnv, At, data
  <2> QED
    BY <2>1 DEF HoldsInv, Promoted, SetupLabels
<1>8. CASE RestartLive
  <2>1. op'.pc = "idle" /\ UNCHANGED <<repl, env, fresh>> /\ op.pc = "pr_restart"
    BY <1>8, EndMoves DEF RestartLive, At, data
  <2>2. env = "replica"
    BY <2>1 DEF HoldsInv
  <2> QED
    BY <2>1, <2>2 DEF HoldsInv, Promoted, SetupLabels
<1> QED
  BY <1>2, <1>3, <1>4, <1>5, <1>6, <1>7, <1>8 DEF PromoteStep

RestoreLabels == {"re_reset", "re_load", "re_stop", "re_copy", "idle"}

LEMMA RestoreMoves ==
  ASSUME TypeInv, RestoreStep
  PROVE  /\ op'.pc \in RestoreLabels /\ UNCHANGED <<env, app, fresh, failedOver>>
         /\ repl'.source => repl.source
         /\ repl'.ro => repl.ro
         /\ repl'.persisted => repl.persisted
<1>1. ReplTyped /\ OpTyped
  BY TypedParts
<1>2. CASE FetchDump
  BY <1>1, <1>2, EndMoves DEF FetchDump, OpTyped, data, RestoreLabels
<1>3. CASE ResetPrimary
  BY <1>1, <1>3, GoToMoves DEF ResetPrimary, RestoreLabels
<1>4. CASE LoadPrimary
  BY <1>1, <1>4, GoToMoves, EndMoves DEF LoadPrimary, RestoreLabels
<1>5. CASE ResetReplica
  BY <1>1, <1>5, GoToMoves, EndMoves DEF ResetReplica, RestoreLabels
<1>6. CASE LoadReplica
  BY <1>1, <1>6, EndMoves DEF LoadReplica, RestoreLabels, ReplTyped
<1> QED
  BY <1>2, <1>3, <1>4, <1>5, <1>6 DEF RestoreStep

LEMMA HoldsRestore ==
  ASSUME TypeInv, HoldsInv, RestoreStep
  PROVE  HoldsInv'
  BY RestoreMoves, HoldsElsewhere DEF HoldsInv, Promoted, SetupLabels, RestoreLabels

LEMMA HoldsNext == NotUndone => (TypeInv /\ HoldsInv /\ [Next]_vars => HoldsInv')
<1> SUFFICES ASSUME NotUndone, TypeInv, HoldsInv, [Next]_vars PROVE HoldsInv'
  OBVIOUS
<1>1. CASE AppWrite \/ BackupStep
  BY <1>1, WriteBeside, HoldsBeside
<1>2. CASE ServerStep
  BY <1>2, ServerBeside, HoldsBeside
<1>3. CASE StartFresh \/ SwitchToFresh \/ RemoveFresh \/ Sync
  BY <1>3, HoldsDeploy
<1>4. CASE StartScript \/ ServerGone \/ Killed
  BY <1>4, HoldsStart, HoldsBreak
<1>5. CASE SetupStep \/ PromoteStep \/ RestoreStep
  BY <1>5, HoldsSetup, HoldsPromote, HoldsRestore
<1>6. CASE UNCHANGED vars
  BY <1>6 DEF vars, data, HoldsInv, Promoted
<1> QED
  BY <1>1, <1>2, <1>3, <1>4, <1>5, <1>6 DEF Next

\* After a failover the server the application writes to accepts writes and
\* has no source, through restarts, interrupted scripts and restores - as long
\* as nobody repeats the set-up or ships another .env.
THEOREM FailoverStays == NotUndone => (Spec => []FailoverHolds)
<1> SUFFICES ASSUME NotUndone PROVE Spec => []FailoverHolds
  OBVIOUS
<1>1. Init => HoldsInv
  BY DEF Init, HoldsInv, Promoted, Idle
<1>2. TypeInv /\ HoldsInv /\ [Next]_vars => HoldsInv'
  BY HoldsNext
<1>3. HoldsInv => FailoverHolds
  BY DEF HoldsInv, Promoted, FailoverHolds
<1> QED
  BY <1>1, <1>2, <1>3, Typed, PTL DEF Spec

=============================================================================
