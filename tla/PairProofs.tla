----------------------------- MODULE PairProofs -----------------------------
(***************************************************************************)
(* The replica repeats the primary, through set-ups, failovers and          *)
(* restores; while nobody restores or promotes, dumps are sound and         *)
(* Replication implements Follower.                                        *)
(***************************************************************************)
EXTENDS ReplicationProofs

\* A set-up is not repeated on a promoted server, and a restore goes through:
\* both servers run, nobody writes meanwhile and no dump breaks off.
Kept ==
  /\ "promote" \in Scripts => NotUndone
  /\ "restore" \in Scripts => Faults \cap {"down", "kill", "load", "busy"} = {}

Undisturbed == Scripts \cap {"promote", "restore"} = {}

\* Who is written to: without failovers only the primary, and else what
\* FailoverStays rests on.
OneWriter ==
  /\ env # "replica" /\ fresh # "replica" /\ app = "primary"
  /\ op.pc \notin PromoteLabels

Writers == IF "promote" \in Scripts THEN HoldsInv ELSE OneWriter

\* The primary's binary log is the end of its table; the replica's table and
\* then its relay log are the beginning of it, and the two positions are as far
\* from each other as the two tables.
Matched ==
  /\ Len(bin.log) <= Len(rows["primary"])
  /\ \A i \in 1..Len(bin.log) :
       bin.log[i] = rows["primary"][Len(rows["primary"]) - Len(bin.log) + i]
  /\ Len(rows["primary"]) + repl.pos = Len(rows["replica"]) + Executed
  /\ Received <= Executed
  /\ IsPrefixOf(rows["replica"], rows["primary"])
  /\ \A i \in 1..Len(repl.relay) : repl.relay[i] = rows["primary"][Len(rows["replica"]) + i]

\* Until a restore has reached the replica only the primary is what it was.
DuringRestore ==
  /\ "restore" \notin Scripts =>
       op.pc \notin {"re_fetch", "re_reset", "re_load", "re_stop", "re_copy"}
  /\ "restore" \in Scripts => \A s \in Servers : up[s]
  /\ op.pc = "re_load" => bin.purged = 0 /\ bin.log = << >>
  /\ op.pc \in {"re_stop", "re_copy"} =>
       rows["primary"] = op.dump.rows /\ bin.purged = op.dump.pos /\ bin.log = << >>

RepeatInv ==
  /\ TypeInv /\ Writers /\ DuringRestore
  /\ env # "replica" /\ ~Restoring => Matched

-----------------------------------------------------------------------------
(* Rows and numbers *)

LEMMA RowFacts ==
  ASSUME TypeInv
  PROVE  /\ rows \in [Servers -> Rows] /\ rows["primary"] \in Rows /\ rows["replica"] \in Rows
         /\ bin.log \in Rows /\ repl.relay \in Rows
BY DEF TypeInv, DataInv, DataTypeOK, Servers

LEMMA Lengths ==
  ASSUME TypeInv
  PROVE  /\ Len(rows["primary"]) \in Nat /\ Len(rows["replica"]) \in Nat
         /\ Len(bin.log) \in Nat /\ Len(repl.relay) \in Nat
         /\ bin.purged \in Nat /\ repl.pos \in Nat
<1>1. bin.purged \in Count /\ repl.pos \in Count
  BY DEF TypeInv, DataInv, DataTypeOK
<1> QED
  BY <1>1, RowFacts, LimitsAssumption DEF Rows, Count

LEMMA Appended ==
  ASSUME NEW s \in Rows, NEW e \in 0..MaxWrites
  PROVE  /\ Append(s, e) \in Rows
         /\ Len(Append(s, e)) = Len(s) + 1
         /\ \A i \in 1..Len(s) : Append(s, e)[i] = s[i]
         /\ Append(s, e)[Len(s) + 1] = e
BY AppendProperties DEF Rows

\* A prefix stays one when the longer sequence grows.
LEMMA PrefixOfAppend ==
  ASSUME NEW s \in Rows, NEW t \in Rows, NEW e \in 0..MaxWrites, IsPrefixOf(s, t)
  PROVE  IsPrefixOf(s, Append(t, e))
<1>1. /\ Len(Append(t, e)) = Len(t) + 1
      /\ \A i \in 1..Len(t) : Append(t, e)[i] = t[i]
  BY Appended
<1>2. Len(s) \in Nat /\ Len(t) \in Nat
  BY DEF Rows
<1> QED
  BY <1>1, <1>2 DEF IsPrefixOf

LEMMA PrefixOfItself == ASSUME NEW s \in Rows PROVE IsPrefixOf(s, s)
  BY DEF IsPrefixOf, Rows

\* The sums the next lemmas need, for a table of p rows and a log of its last l
\* ones, a copy of r rows with q more to come, and their positions.
Sums(p, l, r, q, purged, pos) ==
  /\ p \in Nat /\ l \in Nat /\ r \in Nat /\ q \in Nat /\ r + q <= p
  /\ \A i \in 1..l : p - l + i \in 1..p
  /\ \A i \in 1..q : r + i \in 1..p
  /\ p - l + (l + 1) = p + 1 /\ (p + 1) - (l + 1) = p - l
  /\ l + 1 <= p + 1 /\ (p + 1) + pos = r + (purged + (l + 1))
  /\ pos + q <= purged + (l + 1)
  /\ purged <= pos + q /\ pos + q < purged + l =>
       /\ (pos + q) + 1 - purged \in 1..l
       /\ p - l + ((pos + q) + 1 - purged) = r + (q + 1)
       /\ pos + (q + 1) <= purged + l
  /\ q >= 1 =>
       /\ 1 \in 1..q /\ r < p /\ r + 1 <= p
       /\ (pos + 1) + (q - 1) <= purged + l
       /\ p + (pos + 1) = (r + 1) + (purged + l)
       /\ \A i \in 1..(q - 1) : i + 1 \in 1..q /\ r + (i + 1) = (r + 1) + i

LEMMA Positions ==
  ASSUME NEW p \in Nat, NEW l \in Nat, NEW r \in Nat, NEW q \in Nat,
         NEW purged \in Nat, NEW pos \in Nat,
         l <= p, p + pos = r + (purged + l), pos + q <= purged + l
  PROVE  Sums(p, l, r, q, purged, pos)
BY DEF Sums

\* The copy as numbers.
LEMMA Counts ==
  ASSUME TypeInv, Matched
  PROVE  /\ Executed = bin.purged + Len(bin.log) /\ Received = repl.pos + Len(repl.relay)
         /\ Sums(Len(rows["primary"]), Len(bin.log), Len(rows["replica"]), Len(repl.relay),
                 bin.purged, repl.pos)
<1>1. Executed = bin.purged + Len(bin.log) /\ Received = repl.pos + Len(repl.relay)
  BY DEF Executed, Received
<1>2. /\ Len(bin.log) <= Len(rows["primary"])
      /\ Len(rows["primary"]) + repl.pos = Len(rows["replica"]) + Executed
      /\ Received <= Executed
  BY DEF Matched
<1> QED
  BY <1>1, <1>2, Lengths, Positions

-----------------------------------------------------------------------------
(* A transaction, and the two replication threads *)

LEMMA MatchedWrite ==
  ASSUME TypeInv, Matched, Commit("primary"), repl' = repl
  PROVE  /\ Matched'
         /\ bin'.purged = bin.purged /\ bin'.log = Append(bin.log, written + 1)
         /\ rows' = [rows EXCEPT !["primary"] = Append(rows["primary"], written + 1)]
         /\ written + 1 \in 1..MaxWrites
<1>1. written + 1 \in 1..MaxWrites /\ written + 1 \in 0..MaxWrites
  BY LimitsAssumption DEF Commit, TypeInv, ScriptInv, ScriptTypeOK
<1>3. /\ bin' = [bin EXCEPT !.log = Append(bin.log, written + 1)]
      /\ rows' = [rows EXCEPT !["primary"] = Append(rows["primary"], written + 1)]
      /\ repl' = repl
  BY DEF Commit
<1>4. /\ bin'.log = Append(bin.log, written + 1) /\ bin'.purged = bin.purged
      /\ rows'["primary"] = Append(rows["primary"], written + 1)
      /\ rows'["replica"] = rows["replica"]
  BY <1>3 DEF TypeInv, DataInv, DataTypeOK, Servers
<1>5. /\ Len(bin'.log) = Len(bin.log) + 1
      /\ \A i \in 1..Len(bin.log) : bin'.log[i] = bin.log[i]
      /\ bin'.log[Len(bin.log) + 1] = written + 1
  BY <1>1, <1>4, RowFacts, Appended
<1>6. /\ Len(rows'["primary"]) = Len(rows["primary"]) + 1
      /\ \A i \in 1..Len(rows["primary"]) : rows'["primary"][i] = rows["primary"][i]
      /\ rows'["primary"][Len(rows["primary"]) + 1] = written + 1
  BY <1>1, <1>4, RowFacts, Appended
<1>7. Len(rows'["primary"]) - Len(bin'.log) = Len(rows["primary"]) - Len(bin.log)
  BY <1>5, <1>6, Lengths
<1>8. \A i \in 1..Len(bin'.log) :
        bin'.log[i] = rows'["primary"][Len(rows'["primary"]) - Len(bin'.log) + i]
  <2> SUFFICES ASSUME NEW i \in 1..Len(bin'.log)
               PROVE  bin'.log[i] = rows'["primary"][Len(rows["primary"]) - Len(bin.log) + i]
    BY <1>7
  <2> DEFINE j == Len(rows["primary"]) - Len(bin.log) + i
  <2>1. CASE i \in 1..Len(bin.log)
    <3>1. j \in 1..Len(rows["primary"])
      BY <2>1, Counts DEF Sums
    <3>2. bin.log[i] = rows["primary"][j]
      BY <2>1 DEF Matched
    <3> QED
      BY <2>1, <3>1, <3>2, <1>5, <1>6
  <2>2. CASE i = Len(bin.log) + 1
    <3>1. j = Len(rows["primary"]) + 1
      BY <2>2, Counts DEF Sums
    <3> QED
      BY <2>2, <3>1, <1>5, <1>6
  <2>3. i \in 1..Len(bin.log) \/ i = Len(bin.log) + 1
    BY <1>5, Lengths
  <2> QED
    BY <2>1, <2>2, <2>3
<1>9. /\ Len(bin'.log) <= Len(rows'["primary"])
      /\ Len(rows'["primary"]) + repl'.pos = Len(rows'["replica"]) + Executed'
      /\ Received' <= Executed'
  <2>1. Executed' = bin.purged + (Len(bin.log) + 1) /\ Received' = Received
    BY <1>3, <1>4, <1>5 DEF Executed, Received
  <2> QED
    BY <2>1, <1>3, <1>4, <1>5, <1>6, Counts DEF Sums
<1>10. IsPrefixOf(rows'["replica"], rows'["primary"])
  BY <1>1, <1>4, RowFacts, PrefixOfAppend DEF Matched
<1>11. \A i \in 1..Len(repl'.relay) :
         repl'.relay[i] = rows'["primary"][Len(rows'["replica"]) + i]
  <2> SUFFICES ASSUME NEW i \in 1..Len(repl.relay)
               PROVE  repl.relay[i] = rows'["primary"][Len(rows["replica"]) + i]
    BY <1>3, <1>4
  <2>1. Len(rows["replica"]) + i \in 1..Len(rows["primary"])
    BY Counts DEF Sums
  <2> QED
    BY <2>1, <1>6 DEF Matched
<1> QED
  BY <1>1, <1>3, <1>4, <1>8, <1>9, <1>10, <1>11 DEF Matched

\* The two steps that commit on the primary of a matched pair.
CommitStep == AppWrite \/ CreateReplUser

LEMMA CommitOfPair ==
  ASSUME TypeInv, app # "replica", CommitStep
  PROVE  Commit("primary") /\ repl' = repl
BY DEF CommitStep, AppWrite, CreateReplUser, TypeInv, ScriptInv, SettingTypeOK, Servers

LEMMA MatchedFetch ==
  ASSUME TypeInv, Matched, Fetch
  PROVE  Matched' /\ UNCHANGED <<rows, bin>>
<1> DEFINE at == Received + 1 - bin.purged
           row == bin.log[at]
<1>1. /\ bin.purged <= Received /\ Received < Executed
      /\ repl' = [repl EXCEPT !.relay = Append(repl.relay, row)] /\ UNCHANGED <<rows, bin>>
  BY DEF Fetch
<1>2. at \in 1..Len(bin.log)
  BY <1>1, Counts DEF Sums
<1>3. row \in 0..MaxWrites
  BY <1>2, RowFacts, ElementOfSeq DEF Rows
<1>4. row = rows["primary"][Len(rows["replica"]) + (Len(repl.relay) + 1)]
  <2>1. Len(rows["primary"]) - Len(bin.log) + at
          = Len(rows["replica"]) + (Len(repl.relay) + 1)
    BY <1>1, Counts DEF Sums
  <2>2. row = rows["primary"][Len(rows["primary"]) - Len(bin.log) + at]
    BY <1>2 DEF Matched
  <2> QED
    BY <2>1, <2>2
<1> HIDE DEF row
<1>5. repl'.relay = Append(repl.relay, row) /\ repl'.pos = repl.pos
  BY <1>1 DEF TypeInv, DataInv, DataTypeOK
<1>6. /\ Len(repl'.relay) = Len(repl.relay) + 1
      /\ \A i \in 1..Len(repl.relay) : repl'.relay[i] = repl.relay[i]
      /\ repl'.relay[Len(repl.relay) + 1] = row
  BY <1>3, <1>5, RowFacts, Appended
<1>7. \A i \in 1..Len(repl'.relay) : repl'.relay[i] = rows["primary"][Len(rows["replica"]) + i]
  <2> SUFFICES ASSUME NEW i \in 1..Len(repl'.relay)
               PROVE  repl'.relay[i] = rows["primary"][Len(rows["replica"]) + i]
    OBVIOUS
  <2>1. CASE i \in 1..Len(repl.relay)
    BY <2>1, <1>6 DEF Matched
  <2>2. CASE i = Len(repl.relay) + 1
    BY <2>2, <1>4, <1>6
  <2>3. i \in 1..Len(repl.relay) \/ i = Len(repl.relay) + 1
    BY <1>6, Lengths
  <2> QED
    BY <2>1, <2>2, <2>3
<1>8. Received' <= Executed' /\ Executed' = Executed
  <2>1. Received' = repl.pos + (Len(repl.relay) + 1) /\ Executed' = Executed
    BY <1>1, <1>5, <1>6 DEF Received, Executed
  <2> QED
    BY <2>1, <1>1, Counts DEF Sums
<1> QED
  BY <1>1, <1>5, <1>7, <1>8 DEF Matched

LEMMA MatchedApply ==
  ASSUME TypeInv, Matched, Apply
  PROVE  /\ Matched' /\ UNCHANGED bin
         /\ Len(rows["replica"]) < Len(rows["primary"])
         /\ rows' = [rows EXCEPT !["replica"] =
                      Append(rows["replica"], rows["primary"][Len(rows["replica"]) + 1])]
<1> DEFINE row == rows["primary"][Len(rows["replica"]) + 1]
<1>1. /\ repl.relay # << >> /\ UNCHANGED bin
      /\ rows' = [rows EXCEPT !["replica"] = Append(rows["replica"], Head(repl.relay))]
      /\ repl'.relay = Tail(repl.relay) /\ repl'.pos = repl.pos + 1
  BY DEF Apply, TypeInv, DataInv, DataTypeOK
<1>2. /\ Head(repl.relay) = repl.relay[1] /\ Head(repl.relay) \in 0..MaxWrites
      /\ Len(Tail(repl.relay)) = Len(repl.relay) - 1 /\ Len(repl.relay) >= 1
      /\ \A i \in 1..Len(Tail(repl.relay)) : Tail(repl.relay)[i] = repl.relay[i + 1]
  <2>1. repl.relay \in Seq(0..MaxWrites)
    BY RowFacts DEF Rows
  <2>2. repl.relay # << >>
    BY <1>1
  <2>3. Tail(repl.relay) \in Seq(0..MaxWrites)
    BY <2>1, <2>2, HeadTailProperties
  <2>4. Head(repl.relay) \in 0..MaxWrites /\ Len(Tail(repl.relay)) = Len(repl.relay) - 1
    BY <2>1, <2>2, HeadTailProperties
  <2>5. \A i \in 1..Len(Tail(repl.relay)) : Tail(repl.relay)[i] = repl.relay[i + 1]
    BY <2>1, <2>2, HeadTailProperties
  <2>6. Head(repl.relay) = repl.relay[1] /\ Len(repl.relay) >= 1
    BY <2>1, <2>2
  <2> QED
    BY <2>4, <2>5, <2>6
<1>3. Head(repl.relay) = row
  <2>1. 1 \in 1..Len(repl.relay)
    BY <1>2, Lengths
  <2> QED
    BY <1>2, <2>1 DEF Matched
<1>4. row \in 0..MaxWrites
  BY <1>2, <1>3
<1> HIDE DEF row
<1>5. rows'["replica"] = Append(rows["replica"], row) /\ rows'["primary"] = rows["primary"]
  BY <1>1, <1>3, RowFacts DEF Servers
<1>6. /\ Len(rows'["replica"]) = Len(rows["replica"]) + 1
      /\ \A i \in 1..Len(rows["replica"]) : rows'["replica"][i] = rows["replica"][i]
      /\ rows'["replica"][Len(rows["replica"]) + 1] = row
  BY <1>4, <1>5, RowFacts, Appended
<1>7. Len(rows["replica"]) < Len(rows["primary"])
  BY <1>2, Counts DEF Sums
<1>8. IsPrefixOf(rows'["replica"], rows["primary"])
  <2>1. Len(rows'["replica"]) <= Len(rows["primary"])
    BY <1>6, <1>7, Lengths
  <2>2. \A i \in 1..Len(rows["replica"]) : rows["replica"][i] = rows["primary"][i]
    BY DEF Matched, IsPrefixOf
  <2>3. \A i \in 1..Len(rows'["replica"]) :
          i \in 1..Len(rows["replica"]) \/ i = Len(rows["replica"]) + 1
    BY <1>6, Lengths
  <2>4. \A i \in 1..Len(rows'["replica"]) : rows'["replica"][i] = rows["primary"][i]
    BY <1>6, <2>2, <2>3 DEF row
  <2> QED
    BY <2>1, <2>4 DEF IsPrefixOf
<1>9. \A i \in 1..Len(repl'.relay) :
        repl'.relay[i] = rows["primary"][Len(rows'["replica"]) + i]
  <2> SUFFICES ASSUME NEW i \in 1..Len(repl'.relay)
               PROVE  repl'.relay[i] = rows["primary"][Len(rows'["replica"]) + i]
    OBVIOUS
  <2>1. /\ i + 1 \in 1..Len(repl.relay)
        /\ Len(rows["replica"]) + (i + 1) = Len(rows'["replica"]) + i
    BY <1>1, <1>2, <1>6, Counts DEF Sums
  <2>2. repl'.relay[i] = repl.relay[i + 1]
    BY <1>1, <1>2
  <2>3. repl.relay[i + 1] = rows["primary"][Len(rows["replica"]) + (i + 1)]
    BY <2>1 DEF Matched
  <2> QED
    BY <2>1, <2>2, <2>3
<1>10. /\ Received' <= Executed' /\ Executed' = Executed
       /\ Len(rows["primary"]) + repl'.pos = Len(rows'["replica"]) + Executed
  <2>1. Received' = (repl.pos + 1) + (Len(repl.relay) - 1) /\ Executed' = Executed
    BY <1>1, <1>2 DEF Received, Executed
  <2>2. Len(rows'["replica"]) = Len(rows["replica"]) + 1 /\ repl'.pos = repl.pos + 1
    BY <1>1, <1>6
  <2>3. Len(repl.relay) >= 1
    BY <1>2
  <2> QED
    BY <2>1, <2>2, <2>3, Counts DEF Sums
<1>11. Matched'
  BY <1>1, <1>5, <1>8, <1>9, <1>10 DEF Matched
<1> QED
  BY <1>1, <1>3, <1>7, <1>11 DEF row

-----------------------------------------------------------------------------
(* Steps that leave both tables and the binary log alone *)

\* At most the relay log is dropped; its position stays with the table.
Quiet ==
  /\ UNCHANGED <<rows, bin>> /\ repl'.pos = repl.pos
  /\ repl'.relay \in {repl.relay, << >>}

LEMMA MatchedQuiet ==
  ASSUME TypeInv, Matched, Quiet
  PROVE  Matched'
<1>1. CASE repl'.relay = repl.relay
  <2>1. Received' = Received /\ Executed' = Executed
    BY <1>1 DEF Quiet, Received, Executed
  <2> QED
    BY <1>1, <2>1 DEF Quiet, Matched
<1>2. CASE repl'.relay = << >>
  <2>1. Len(repl'.relay) = 0 /\ 1..Len(repl'.relay) = {}
    BY <1>2, EmptyRows
  <2>2. Received' = repl.pos /\ Executed' = Executed /\ repl.pos <= Executed
    <3>1. repl.pos \in Nat /\ Len(repl.relay) \in Nat /\ repl.pos + Len(repl.relay) <= Executed
      BY Lengths, Counts DEF Matched
    <3>2. Executed \in Nat
      BY Lengths DEF Executed
    <3>3. \A a, b, c \in Nat : a + b <= c => a + 0 = a /\ a <= c
      OBVIOUS
    <3> QED
      BY <2>1, <3>1, <3>2, <3>3 DEF Quiet, Received, Executed
  <2> QED
    BY <2>1, <2>2 DEF Quiet, Matched
<1> QED
  BY <1>1, <1>2 DEF Quiet

LEMMA QuietSteps ==
  ASSUME TypeInv,
         \/ StartFresh \/ SwitchToFresh \/ RemoveFresh \/ Sync \/ IoStops \/ SqlStops
         \/ \E s \in Servers : ServerStops(s) \/ ServerComesBack(s)
         \/ StartScript \/ ServerGone \/ Killed \/ PromoteStep
         \/ SetupStep /\ ~CreateReplUser
         \/ FetchDump \/ BackupStep \/ UNCHANGED vars
  PROVE  Quiet
<1>1. ReplTyped
  BY TypedParts
<1>2. CASE IoStops \/ SqlStops \/ PointAtPrimary \/ ArmReadOnly
  BY <1>1, <1>2 DEF IoStops, SqlStops, PointAtPrimary, ArmReadOnly, ReplTyped, Quiet
<1>3. CASE StopReceiving \/ DropSource \/ MakeWritable
  BY <1>1, <1>3 DEF StopReceiving, DropSource, MakeWritable, ReplTyped, Quiet
<1>4. CASE \E s \in Servers : ServerStops(s)
  BY <1>1, <1>4 DEF ServerStops, ReplTyped, Quiet
<1>5. CASE \/ StartFresh \/ SwitchToFresh \/ RemoveFresh \/ Sync
           \/ \E s \in Servers : ServerComesBack(s)
  BY <1>5 DEF StartFresh, SwitchToFresh, RemoveFresh, Sync, ServerComesBack, data, Quiet
<1>6. CASE StartScript \/ ServerGone \/ Killed \/ BackupStep \/ UNCHANGED vars
  BY <1>6 DEF StartScript, ServerGone, Killed, BackupStep, TakeDump, UploadDump, PointLatest,
     BackupFails, vars, data, Quiet
<1>7. CASE ComposeUp \/ CheckRunning \/ VerifyRunning \/ FetchDump
  BY <1>7 DEF ComposeUp, CheckRunning, VerifyRunning, FetchDump, data, Quiet
<1>8. CASE ProbeReplica \/ AwaitDrain \/ RepointEnv \/ RestartLive
  BY <1>8 DEF ProbeReplica, AwaitDrain, RepointEnv, RestartLive, data, Quiet
<1> QED
  BY <1>2, <1>3, <1>4, <1>5, <1>6, <1>7, <1>8 DEF SetupStep, PromoteStep

-----------------------------------------------------------------------------
(* Who is written to *)

LEMMA SetupMoves ==
  ASSUME TypeInv, SetupStep
  PROVE  op'.pc \in SetupLabels \cup {"idle"} /\ op.pc \in SetupLabels
         /\ UNCHANGED <<env, app, fresh>>
<1>1. op'.pc \in SetupLabels \cup {"idle"}
  BY TypedParts, GoToMoves, EndMoves DEF SetupStep, ComposeUp, CheckRunning, CreateReplUser,
     PointAtPrimary, ArmReadOnly, VerifyRunning, SetupLabels
<1>2. op.pc \in SetupLabels /\ UNCHANGED <<env, app, fresh>>
  BY DEF SetupStep, ComposeUp, CheckRunning, CreateReplUser, PointAtPrimary, ArmReadOnly,
     VerifyRunning, At, SetupLabels
<1> QED
  BY <1>1, <1>2

LEMMA PromoteMoves ==
  ASSUME TypeInv, PromoteStep
  PROVE  op'.pc \in PromoteLabels \cup {"idle"} /\ op.pc \in PromoteLabels
<1>1. OpTyped
  BY TypedParts
<1>2. CASE AwaitDrain
  BY <1>1, <1>2 DEF AwaitDrain, At, OpTyped, PromoteLabels
<1>3. CASE ~AwaitDrain
  BY <1>1, <1>3, GoToMoves, EndMoves DEF PromoteStep, ProbeReplica, StopReceiving,
     DropSource, MakeWritable, RepointEnv, RestartLive, At, PromoteLabels
<1> QED
  BY <1>2, <1>3

LEMMA OneWriterStep ==
  ASSUME "promote" \notin Scripts, TypeInv, OneWriter, [Next]_vars
  PROVE  OneWriter'
<1>1. CASE AppWrite \/ ServerStep \/ BackupStep \/ UNCHANGED vars
  <2>1. UNCHANGED <<env, app, fresh, op>>
    BY <1>1, ServerBeside, WriteBeside DEF Beside, vars
  <2> QED
    BY <2>1 DEF OneWriter
<1>2. CASE StartFresh
  BY <1>2 DEF StartFresh, OneWriter, HostOf
<1>3. CASE SwitchToFresh
  <2>1. fresh \in {"primary", "none"}
    BY DEF OneWriter, TypeInv, ScriptInv, SettingTypeOK, Servers
  <2> QED
    BY <1>3, <2>1 DEF SwitchToFresh, OneWriter
<1>4. CASE RemoveFresh \/ Sync
  BY <1>4 DEF RemoveFresh, Sync, OneWriter
<1>5. CASE StartScript
  <2>1. PICK kind \in OperatorScripts \cap Scripts :
          op'.pc = FirstLabel(kind) /\ UNCHANGED <<env, app, fresh>>
    BY <1>5, StartMoves
  <2>2. op'.pc \in {"su_check", "bo_up", "re_fetch"}
    BY <2>1, FirstLabels DEF OperatorScripts
  <2> QED
    BY <2>1, <2>2 DEF OneWriter, PromoteLabels
<1>6. CASE ServerGone \/ Killed
  BY <1>6, EndMoves DEF ServerGone, Killed, OneWriter, PromoteLabels
<1>7. CASE SetupStep
  BY <1>7, SetupMoves DEF OneWriter, SetupLabels, PromoteLabels
<1>8. CASE RestoreStep
  BY <1>8, RestoreMoves DEF OneWriter, RestoreLabels, PromoteLabels
<1>9. ~PromoteStep
  BY PromoteMoves DEF OneWriter
<1> QED
  BY <1>1, <1>2, <1>3, <1>4, <1>5, <1>6, <1>7, <1>8, <1>9 DEF Next

LEMMA WritersStep ==
  ASSUME Kept, TypeInv, Writers, [Next]_vars
  PROVE  Writers'
BY OneWriterStep, HoldsNext DEF Writers, Kept

\* What the two cases have in common.
LEMMA WritersFacts ==
  ASSUME Writers
  PROVE  /\ env # "replica" => app # "replica"
         /\ env = "replica" => ~repl.source
BY DEF Writers, OneWriter, HoldsInv, Promoted

\* After a failover nothing else is written into .env.
LEMMA FailoverLasts ==
  ASSUME Kept, TypeInv, Writers, [Next]_vars, env = "replica"
  PROVE  env' = "replica"
<1>1. "promote" \in Scripts /\ "sync" \notin Scripts
  BY DEF Writers, OneWriter, Kept, NotUndone
<1>2. CASE AppWrite \/ ServerStep \/ BackupStep \/ UNCHANGED vars
  BY <1>2, ServerBeside, WriteBeside DEF Beside, vars
<1>3. CASE StartFresh \/ SwitchToFresh \/ RemoveFresh \/ ServerGone \/ Killed \/ StartScript
  BY <1>3 DEF StartFresh, SwitchToFresh, RemoveFresh, ServerGone, Killed, StartScript
<1>4. CASE SetupStep \/ RestoreStep
  BY <1>4, SetupMoves, RestoreMoves
<1>5. CASE PromoteStep
  BY <1>5 DEF PromoteStep, ProbeReplica, StopReceiving, AwaitDrain, DropSource, MakeWritable,
     RepointEnv, RestartLive
<1>6. ~Sync
  BY <1>1 DEF Sync
<1> QED
  BY <1>2, <1>3, <1>4, <1>5, <1>6 DEF Next

-----------------------------------------------------------------------------
(* A restore *)

RestorePcs == {"re_fetch", "re_reset", "re_load", "re_stop", "re_copy"}

\* While a restore is under way, nothing takes it off its course.
LEMMA RestoreGoesOn ==
  ASSUME Kept, DuringRestore, Restoring
  PROVE  /\ "restore" \in Scripts /\ \A s \in Servers : up[s]
         /\ ~AppWrite /\ ~ServerGone /\ ~Killed /\ "load" \notin Faults
         /\ ~StartScript /\ ~SetupStep /\ ~PromoteStep
<1>1. op.pc \in {"re_load", "re_stop", "re_copy"}
  BY DEF Restoring
<1>2. "restore" \in Scripts
  BY <1>1 DEF DuringRestore
<1>3. Faults \cap {"down", "kill", "load", "busy"} = {}
  BY <1>2 DEF Kept
<1>4. \A s \in Servers : up[s]
  BY <1>2 DEF DuringRestore
<1>5. ~AppWrite /\ ~Killed /\ "load" \notin Faults
  BY <1>3 DEF AppWrite, Killed
<1>6. ~ServerGone
  BY <1>4 DEF ServerGone, ServerOf, Servers
<1>7. ~StartScript /\ ~SetupStep /\ ~PromoteStep
  BY <1>1 DEF StartScript, SetupStep, ComposeUp, CheckRunning, CreateReplUser, PointAtPrimary,
     ArmReadOnly, VerifyRunning, PromoteStep, ProbeReplica, StopReceiving, AwaitDrain,
     DropSource, MakeWritable, RepointEnv, RestartLive, At
<1> QED
  BY <1>2, <1>4, <1>5, <1>6, <1>7

\* Steps of others.
LEMMA DuringElsewhere ==
  ASSUME DuringRestore, UNCHANGED <<bin, op>>, rows'["primary"] = rows["primary"],
         "restore" \in Scripts => \A s \in Servers : up'[s]
  PROVE  DuringRestore'
BY DEF DuringRestore

LEMMA DuringOther ==
  ASSUME DuringRestore, op'.pc \notin RestorePcs,
         "restore" \in Scripts => \A s \in Servers : up'[s]
  PROVE  DuringRestore'
BY DEF DuringRestore, RestorePcs

LEMMA DuringServers ==
  ASSUME Kept, TypeInv, DuringRestore, ServerStep
  PROVE  DuringRestore'
<1>1. UNCHANGED <<bin, op>>
  BY DEF ServerStep, Fetch, IoStops, Apply, SqlStops, ServerStops, ServerComesBack, data
<1>2. rows'["primary"] = rows["primary"]
  BY RowFacts DEF ServerStep, Fetch, IoStops, Apply, SqlStops, ServerStops, ServerComesBack,
     data, Servers
<1>3. CASE Fetch \/ IoStops \/ Apply \/ SqlStops
  BY <1>1, <1>2, <1>3, DuringElsewhere DEF Fetch, IoStops, Apply, SqlStops, DuringRestore
<1>4. ASSUME NEW s \in Servers, ServerStops(s) PROVE "restore" \notin Scripts
  BY <1>4 DEF ServerStops, Kept
<1>5. ASSUME NEW s \in Servers, ServerComesBack(s), "restore" \in Scripts PROVE FALSE
  BY <1>5 DEF ServerComesBack, DuringRestore
<1> QED
  BY <1>1, <1>2, <1>3, <1>4, <1>5, DuringElsewhere DEF ServerStep

LEMMA DuringStep ==
  ASSUME Kept, TypeInv, DuringRestore, [Next]_vars
  PROVE  DuringRestore'
<1>0. OpTyped /\ up \in [Servers -> BOOLEAN]
  BY TypedParts DEF TypeInv, ScriptInv, SettingTypeOK
<1>1. CASE AppWrite
  <2>1. ~Restoring /\ UNCHANGED <<op, up>>
    BY <1>1, RestoreGoesOn DEF AppWrite
  <2> QED
    BY <2>1 DEF DuringRestore, Restoring
<1>2. CASE ServerStep
  BY <1>2, DuringServers
<1>3. CASE StartFresh \/ SwitchToFresh \/ RemoveFresh \/ Sync \/ BackupStep \/ UNCHANGED vars
  <2>1. UNCHANGED <<rows, bin, op, up>>
    BY <1>3 DEF StartFresh, SwitchToFresh, RemoveFresh, Sync, BackupStep, TakeDump, UploadDump,
       PointLatest, BackupFails, data, vars
  <2> QED
    BY <2>1 DEF DuringRestore
<1>4. CASE StartScript
  <2>1. PICK kind \in OperatorScripts \cap Scripts : op'.pc = FirstLabel(kind)
    BY <1>4, StartMoves
  <2>2. CASE kind = "restore"
    <3>1. op'.pc = "re_fetch" /\ "restore" \in Scripts
      BY <2>1, <2>2, FirstLabels
    <3> QED
      BY <1>4, <3>1 DEF StartScript, DuringRestore
  <2>3. CASE kind # "restore"
    <3>1. op'.pc \notin RestorePcs
      BY <2>1, <2>3, FirstLabels DEF OperatorScripts, RestorePcs
    <3> QED
      BY <1>4, <3>1, DuringOther DEF StartScript, DuringRestore
  <2> QED
    BY <2>2, <2>3
<1>5. CASE ServerGone \/ Killed
  <2>1. op'.pc = "idle" /\ up' = up
    BY <1>5, EndMoves DEF ServerGone, Killed
  <2> QED
    BY <2>1, DuringOther DEF DuringRestore, RestorePcs
<1>6. CASE SetupStep
  <2>1. op'.pc \notin RestorePcs
    BY <1>6, SetupMoves DEF SetupLabels, RestorePcs
  <2>2. \A s \in Servers : up[s] => up'[s]
    BY <1>6 DEF SetupStep, ComposeUp, CheckRunning, CreateReplUser, PointAtPrimary,
       ArmReadOnly, VerifyRunning
  <2> QED
    BY <2>1, <2>2, DuringOther DEF DuringRestore
<1>7. CASE PromoteStep
  <2>1. op'.pc \notin RestorePcs
    BY <1>7, PromoteMoves DEF PromoteLabels, RestorePcs
  <2>2. up' = up
    BY <1>7 DEF PromoteStep, ProbeReplica, StopReceiving, AwaitDrain, DropSource, MakeWritable,
       RepointEnv, RestartLive
  <2> QED
    BY <2>1, <2>2, DuringOther DEF DuringRestore
<1>8. CASE FetchDump
  <2>1. op'.pc \in {"re_reset", "idle"} /\ UNCHANGED up /\ op.pc = "re_fetch"
    BY <1>0, <1>8, EndMoves DEF FetchDump, At, OpTyped
  <2> QED
    BY <2>1 DEF DuringRestore
<1>9. CASE ResetPrimary
  <2>1. op'.pc = "re_load" /\ UNCHANGED up /\ op.pc = "re_reset"
        /\ bin'.purged = 0 /\ bin'.log = << >>
    BY <1>0, <1>9, GoToMoves DEF ResetPrimary, At
  <2> QED
    BY <2>1 DEF DuringRestore
<1>10. CASE LoadPrimary
  <2>1. op.pc = "re_load" /\ UNCHANGED up /\ bin.log = << >>
    BY <1>10 DEF LoadPrimary, At, DuringRestore
  <2>2. "load" \notin Faults /\ ~PurgedConflict
    BY <2>1, RestoreGoesOn DEF Restoring, PurgedConflict
  <2>3. /\ bin' = [bin EXCEPT !.purged = op.dump.pos] /\ GoTo("re_stop")
        /\ rows' = [rows EXCEPT !["primary"] = op.dump.rows]
    BY <1>10, <2>2 DEF LoadPrimary
  <2>4. /\ bin'.purged = op.dump.pos /\ bin'.log = << >>
        /\ rows'["primary"] = op.dump.rows /\ op'.pc = "re_stop" /\ op'.dump = op.dump
    BY <1>0, <2>1, <2>3, RowFacts DEF TypeInv, DataInv, DataTypeOK, Servers, GoTo, OpTyped
  <2> QED
    BY <2>1, <2>4 DEF DuringRestore
<1>11. CASE ResetReplica
  <2>1. /\ op.pc = "re_stop" /\ UNCHANGED <<rows, bin, up>> /\ op'.pc \in {"re_copy", "idle"}
        /\ op'.pc = "re_copy" => op'.dump = op.dump
    BY <1>0, <1>11, EndMoves DEF ResetReplica, At, GoTo, OpTyped
  <2> QED
    BY <2>1 DEF DuringRestore
<1>12. CASE LoadReplica
  <2>1. op'.pc = "idle" /\ UNCHANGED up
    BY <1>12, EndMoves DEF LoadReplica
  <2> QED
    BY <2>1, DuringOther DEF DuringRestore, RestorePcs
<1> QED
  BY <1>1, <1>2, <1>3, <1>4, <1>5, <1>6, <1>7, <1>8, <1>9, <1>10, <1>11, <1>12 DEF Next,
     RestoreStep

\* The end of a restore: both servers hold the dump, at its position.
LEMMA RestoreMatches ==
  ASSUME Kept, TypeInv, DuringRestore, LoadReplica
  PROVE  Matched'
<1>1. /\ op.pc = "re_copy" /\ rows["primary"] = op.dump.rows /\ bin.purged = op.dump.pos
      /\ bin.log = << >> /\ repl.relay = << >>
  BY DEF LoadReplica, At, DuringRestore, TypeInv, CopyInv, DataInv
<1>2. "load" \notin Faults
  BY <1>1, RestoreGoesOn DEF Restoring
<1>3. /\ repl' = [repl EXCEPT !.pos = op.dump.pos] /\ UNCHANGED bin
      /\ rows' = [rows EXCEPT !["replica"] = op.dump.rows]
  BY <1>2 DEF LoadReplica
<1>4. /\ repl'.pos = op.dump.pos /\ repl'.relay = << >>
      /\ rows'["primary"] = op.dump.rows /\ rows'["replica"] = op.dump.rows
  BY <1>1, <1>3, RowFacts, TypedParts DEF ReplTyped, Servers
<1>5. op.dump.rows \in Rows /\ op.dump.pos \in Nat /\ Len(op.dump.rows) \in Nat
  BY TypedParts, LimitsAssumption DEF OpTyped, Dumps, Count, Rows
<1>6. Len(repl'.relay) = 0 /\ Len(bin'.log) = 0
  BY <1>1, <1>3, <1>4, EmptyRows
<1>7. Executed' = op.dump.pos /\ Received' = op.dump.pos
  BY <1>1, <1>3, <1>4, <1>5, <1>6 DEF Executed, Received
<1>8. 1..Len(repl'.relay) = {} /\ 1..Len(bin'.log) = {}
  BY <1>6
<1> QED
  BY <1>4, <1>5, <1>6, <1>7, <1>8, PrefixOfItself DEF Matched

-----------------------------------------------------------------------------
(* The invariant *)

LEMMA RepeatStep ==
  ASSUME Kept, RepeatInv, [Next]_vars, env' # "replica", ~Restoring'
  PROVE  Matched'
<1>0. TypeInv /\ Writers /\ DuringRestore
  BY DEF RepeatInv
<1>1. env # "replica"
  BY <1>0, FailoverLasts
<1>2. CASE Restoring
  <2>1. ~AppWrite /\ ~ServerGone /\ ~Killed /\ ~StartScript /\ ~SetupStep /\ ~PromoteStep
    BY <1>0, <1>2, RestoreGoesOn
  <2>2. op'.pc # op.pc
    BY <1>2 DEF Restoring
  <2>3. ~(StartFresh \/ SwitchToFresh \/ RemoveFresh \/ Sync \/ UNCHANGED vars)
    BY <2>2 DEF StartFresh, SwitchToFresh, RemoveFresh, Sync, vars
  <2>4. ~ServerStep /\ ~BackupStep
    BY <1>0, <2>2, ServerBeside, WriteBeside DEF Beside
  <2>5. ~FetchDump /\ ~ResetPrimary
    BY <1>2 DEF Restoring, FetchDump, ResetPrimary, At
  <2>6. ~LoadPrimary
    <3> SUFFICES ASSUME LoadPrimary PROVE FALSE
      OBVIOUS
    <3>1. op.pc = "re_load" /\ bin.log = << >>
      BY <1>0 DEF LoadPrimary, At, DuringRestore
    <3>2. "load" \notin Faults /\ ~PurgedConflict
      BY <1>0, <1>2, <3>1, RestoreGoesOn DEF PurgedConflict
    <3>3. op'.pc = "re_stop"
      BY <1>0, <3>2, TypedParts, GoToMoves DEF LoadPrimary
    <3> QED
      BY <3>3 DEF Restoring
  <2>7. ~ResetReplica
    <3> SUFFICES ASSUME ResetReplica PROVE FALSE
      OBVIOUS
    <3>1. up["replica"]
      BY <1>0, <1>2, RestoreGoesOn DEF Servers
    <3>2. op'.pc = "re_copy"
      BY <1>0, <3>1, TypedParts, GoToMoves DEF ResetReplica
    <3> QED
      BY <3>2 DEF Restoring
  <2>8. LoadReplica
    BY <2>1, <2>3, <2>4, <2>5, <2>6, <2>7 DEF Next, RestoreStep
  <2> QED
    BY <1>0, <2>8, RestoreMatches
<1>3. CASE ~Restoring
  <2>1. Matched
    BY <1>1, <1>3 DEF RepeatInv
  <2>2. CASE CommitStep
    BY <1>0, <1>1, <2>1, <2>2, WritersFacts, CommitOfPair, MatchedWrite
  <2>3. CASE Fetch \/ Apply
    BY <1>0, <2>1, <2>3, MatchedFetch, MatchedApply
  <2>4. ~LoadPrimary /\ ~ResetReplica /\ ~LoadReplica
    BY <1>3 DEF Restoring, LoadPrimary, ResetReplica, LoadReplica, At
  <2>5. ~ResetPrimary
    <3> SUFFICES ASSUME ResetPrimary PROVE FALSE
      OBVIOUS
    <3>1. op'.pc = "re_load"
      BY <1>0, TypedParts, GoToMoves DEF ResetPrimary
    <3> QED
      BY <3>1 DEF Restoring
  <2> QED
    BY <1>0, <2>1, <2>2, <2>3, <2>4, <2>5, QuietSteps, MatchedQuiet DEF Next, ServerStep,
       RestoreStep, CommitStep
<1> QED
  BY <1>2, <1>3

LEMMA RepeatInvStep ==
  ASSUME Kept
  PROVE  RepeatInv /\ [Next]_vars => RepeatInv'
<1> SUFFICES ASSUME RepeatInv, [Next]_vars PROVE RepeatInv'
  OBVIOUS
<1>1. TypeInv' /\ Writers' /\ DuringRestore'
  BY StepTyped, WritersStep, DuringStep DEF RepeatInv
<1> QED
  BY <1>1, RepeatStep DEF RepeatInv

LEMMA InitRepeats == Init => RepeatInv
<1> SUFFICES ASSUME Init PROVE RepeatInv
  OBVIOUS
<1>1. op.pc = "idle" /\ env # "replica" /\ app = "primary" /\ fresh = "none"
  BY DEF Init, Idle
<1>2. Writers
  BY <1>1 DEF Writers, OneWriter, HoldsInv, PromoteLabels
<1>3. DuringRestore
  BY <1>1 DEF DuringRestore, Init
<1>4. /\ rows["replica"] = << >> /\ rows["primary"] = Seed /\ bin = [purged |-> 0, log |-> Seed]
      /\ repl.relay = << >> /\ repl.pos = 0
  BY DEF Init, Servers
<1>5. IsPrefixOf(<< >>, Seed)
  BY EmptyRows, SeedType DEF IsPrefixOf
<1>6. Executed = 1 /\ Received = 0
  BY <1>4, EmptyRows, SeedType DEF Executed, Received
<1>7. \A i \in 1..Len(Seed) : Len(Seed) - Len(Seed) + i = i
  BY SeedType
<1>8. 1..Len(repl.relay) = {}
  BY <1>4, EmptyRows
<1>9. Matched
  <2>1. /\ Len(rows["primary"]) = 1 /\ Len(bin.log) = 1 /\ Len(rows["replica"]) = 0
        /\ bin.log = rows["primary"] /\ bin.log = Seed
    BY <1>4, EmptyRows, SeedType
  <2>2. Len(rows["primary"]) + repl.pos = Len(rows["replica"]) + Executed
    BY <1>4, <1>6, <2>1
  <2>3. IsPrefixOf(rows["replica"], rows["primary"])
    BY <1>4, <1>5
  <2> QED
    BY <1>6, <1>7, <1>8, <2>1, <2>2, <2>3 DEF Matched
<1> QED
  BY <1>2, <1>3, <1>9, InitTyped DEF RepeatInv

-----------------------------------------------------------------------------
(* The replica is a prefix *)

LEMMA Concatenated ==
  ASSUME NEW s \in Rows, NEW t \in Rows
  PROVE  /\ Len(s \o t) = Len(s) + Len(t)
         /\ \A i \in 1..Len(s) : (s \o t)[i] = s[i]
         /\ \A i \in 1..Len(t) : (s \o t)[Len(s) + i] = t[i]
<1>1. Len(s) \in Nat /\ Len(t) \in Nat /\ Len(s \o t) = Len(s) + Len(t)
  BY ConcatProperties DEF Rows
<1>2. \A i \in 1..(Len(s) + Len(t)) :
        (s \o t)[i] = IF i <= Len(s) THEN s[i] ELSE t[i - Len(s)]
  BY ConcatProperties DEF Rows
<1>3. ASSUME NEW i \in 1..Len(s)
      PROVE  (s \o t)[i] = s[i]
  BY <1>1, <1>2
<1>4. ASSUME NEW i \in 1..Len(t)
      PROVE  (s \o t)[Len(s) + i] = t[i]
  <2>1. Len(s) + i \in 1..(Len(s) + Len(t)) /\ ~(Len(s) + i <= Len(s))
        /\ (Len(s) + i) - Len(s) = i
    BY <1>1
  <2> QED
    BY <2>1, <1>2
<1> QED
  BY <1>1, <1>3, <1>4

\* What a configured replica holds and has received is a prefix of the primary's
\* rows: with any servers stopping and any scripts breaking off, before and
\* after a failover, and through restores that go through (setup_replication.sh,
\* promote_replica.sh, restore_db.sh:54-60).
THEOREM ReplicaRepeats == Kept => (Spec => []ReplicaIsPrefix)
<1> SUFFICES ASSUME Kept PROVE Spec => []ReplicaIsPrefix
  OBVIOUS
<1>1. RepeatInv => ReplicaIsPrefix
  <2> SUFFICES ASSUME RepeatInv, repl.source, ~Restoring
               PROVE  IsPrefixOf(rows["replica"] \o repl.relay, rows["primary"])
    BY DEF ReplicaIsPrefix
  <2> DEFINE both == rows["replica"] \o repl.relay
  <2>1. TypeInv /\ Matched
    BY WritersFacts DEF RepeatInv
  <2>2. /\ Len(both) = Len(rows["replica"]) + Len(repl.relay)
        /\ \A i \in 1..Len(rows["replica"]) : both[i] = rows["replica"][i]
        /\ \A i \in 1..Len(repl.relay) : both[Len(rows["replica"]) + i] = repl.relay[i]
    BY <2>1, RowFacts, Concatenated
  <2>3. Len(both) <= Len(rows["primary"])
    BY <2>1, <2>2, Counts DEF Sums
  <2>4. \A i \in 1..Len(both) : both[i] = rows["primary"][i]
    <3> SUFFICES ASSUME NEW i \in 1..Len(both) PROVE both[i] = rows["primary"][i]
      OBVIOUS
    <3>1. CASE i \in 1..Len(rows["replica"])
      BY <3>1, <2>1, <2>2 DEF Matched, IsPrefixOf
    <3>2. ASSUME NEW j \in 1..Len(repl.relay), i = Len(rows["replica"]) + j
          PROVE  both[i] = rows["primary"][i]
      BY <3>2, <2>1, <2>2 DEF Matched
    <3>3. \A a, b \in Nat : \A n \in 1..(a + b) : n \in 1..a \/ \E m \in 1..b : n = a + m
      <4> SUFFICES ASSUME NEW a \in Nat, NEW b \in Nat, NEW n \in 1..(a + b), n \notin 1..a
                   PROVE  \E m \in 1..b : n = a + m
        OBVIOUS
      <4>1. n - a \in 1..b /\ n = a + (n - a)
        OBVIOUS
      <4> QED
        BY <4>1
    <3>4. i \in 1..(Len(rows["replica"]) + Len(repl.relay))
      BY <2>2
    <3>5. Len(rows["replica"]) \in Nat /\ Len(repl.relay) \in Nat
      BY <2>1, Lengths
    <3>6. \/ i \in 1..Len(rows["replica"])
          \/ \E j \in 1..Len(repl.relay) : i = Len(rows["replica"]) + j
      BY <3>3, <3>4, <3>5
    <3> QED
      BY <3>1, <3>2, <3>6
  <2> QED
    BY <2>3, <2>4 DEF IsPrefixOf
<1> QED
  BY InitRepeats, RepeatInvStep, <1>1, PTL DEF Spec

-----------------------------------------------------------------------------
(* A failover forks the data once *)

Forks == NotUndone /\ "restore" \notin Scripts

\* Transactions are numbered in the order in which they commit.
Numbered == \A s \in Servers : \A i \in 1..Len(rows[s]) : rows[s][i] <= written

ForkInv == RepeatInv /\ Numbered /\ CleanFork

LEMMA PrefixSharesPast ==
  ASSUME NEW s \in Rows, NEW t \in Rows, IsPrefixOf(s, t)
  PROVE  SharePast(s, t)
<1>1. Len(s) \in 0..Len(s) /\ (Len(s) + 1)..Len(s) = {}
  BY DEF Rows
<1>2. Len(s) <= Len(t) /\ \A i \in 1..Len(s) : s[i] = t[i]
  BY DEF IsPrefixOf
<1> QED
  BY <1>1, <1>2 DEF SharePast

\* Two servers that share a past still do when one of them commits something
\* the other does not have.
LEMMA FreshSharesPast ==
  ASSUME NEW s \in Rows, NEW t \in Rows, NEW e \in 0..MaxWrites, SharePast(s, t)
  PROVE  /\ (\A j \in 1..Len(t) : t[j] # e) => SharePast(Append(s, e), t)
         /\ (\A i \in 1..Len(s) : s[i] # e) => SharePast(s, Append(t, e))
<1>1. PICK n \in 0..Len(s) :
        /\ n <= Len(t)
        /\ \A i \in 1..n : s[i] = t[i]
        /\ \A i \in (n + 1)..Len(s), j \in (n + 1)..Len(t) : s[i] # t[j]
  BY DEF SharePast
<1>2. Len(s) \in Nat /\ Len(t) \in Nat
  BY DEF Rows
<1>3. /\ Len(Append(s, e)) = Len(s) + 1 /\ Append(s, e)[Len(s) + 1] = e
      /\ \A i \in 1..Len(s) : Append(s, e)[i] = s[i]
      /\ Len(Append(t, e)) = Len(t) + 1 /\ Append(t, e)[Len(t) + 1] = e
      /\ \A i \in 1..Len(t) : Append(t, e)[i] = t[i]
  BY Appended
<1>4. ASSUME \A j \in 1..Len(t) : t[j] # e
      PROVE  SharePast(Append(s, e), t)
  <2>1. n \in 0..Len(Append(s, e)) /\ n <= Len(t)
    BY <1>1, <1>2, <1>3
  <2>2. \A i \in 1..n : Append(s, e)[i] = t[i]
    BY <1>1, <1>2, <1>3
  <2>3. ASSUME NEW i \in (n + 1)..Len(Append(s, e)), NEW j \in (n + 1)..Len(t)
        PROVE  Append(s, e)[i] # t[j]
    <3>1. i \in (n + 1)..Len(s) \/ i = Len(s) + 1
      BY <1>2, <1>3
    <3>2. j \in 1..Len(t) /\ (i \in (n + 1)..Len(s) => i \in 1..Len(s))
      BY <1>1, <1>2
    <3> QED
      BY <1>1, <1>3, <1>4, <3>1, <3>2
  <2> QED
    BY <2>1, <2>2, <2>3 DEF SharePast
<1>5. ASSUME \A i \in 1..Len(s) : s[i] # e
      PROVE  SharePast(s, Append(t, e))
  <2>1. n <= Len(Append(t, e))
    BY <1>1, <1>2, <1>3
  <2>2. \A i \in 1..n : s[i] = Append(t, e)[i]
    BY <1>1, <1>2, <1>3
  <2>3. ASSUME NEW i \in (n + 1)..Len(s), NEW j \in (n + 1)..Len(Append(t, e))
        PROVE  s[i] # Append(t, e)[j]
    <3>1. j \in (n + 1)..Len(t) \/ j = Len(t) + 1
      BY <1>2, <1>3
    <3>2. i \in 1..Len(s) /\ (j \in (n + 1)..Len(t) => j \in 1..Len(t))
      BY <1>1, <1>2
    <3> QED
      BY <1>1, <1>3, <1>5, <3>1, <3>2
  <2> QED
    BY <1>1, <2>1, <2>2, <2>3 DEF SharePast
<1> QED
  BY <1>4, <1>5

\* What the assumption leaves of the invariant of the pair.
LEMMA ForkFacts ==
  ASSUME Forks, RepeatInv
  PROVE  /\ Kept /\ TypeInv /\ Writers /\ ~Restoring /\ ~RestoreStep
         /\ env # "replica" => Matched
         /\ env = "replica" => ~repl.source /\ op.pc \notin SetupLabels
<1>1. Kept
  BY DEF Forks, Kept
<1>2. op.pc \notin RestorePcs
  BY DEF Forks, RepeatInv, DuringRestore, RestorePcs
<1>3. ~Restoring /\ ~RestoreStep
  BY <1>2 DEF Restoring, RestoreStep, FetchDump, ResetPrimary, LoadPrimary, ResetReplica,
     LoadReplica, At, RestorePcs
<1>4. env = "replica" => ~repl.source /\ op.pc \notin SetupLabels
  BY DEF RepeatInv, Writers, OneWriter, HoldsInv, Promoted
<1> QED
  BY <1>1, <1>3, <1>4 DEF RepeatInv

\* Rows are only added by a commit, or by the replica repeating the primary.
LEMMA ForkRows ==
  ASSUME Forks, RepeatInv, [Next]_vars
  PROVE  \/ UNCHANGED rows /\ written' \in {written, written + 1}
         \/ \E s \in Servers : Commit(s) /\ (s = "primary" \/ env = "replica")
         \/ /\ Len(rows["replica"]) < Len(rows["primary"])
            /\ rows' = [rows EXCEPT !["replica"] =
                         Append(rows["replica"], rows["primary"][Len(rows["replica"]) + 1])]
            /\ UNCHANGED <<written, env>> /\ env # "replica"
<1>1. TypeInv /\ Writers /\ ~RestoreStep
  BY ForkFacts
<1>2. CASE AppWrite
  <2>1. app \in Servers /\ Commit(app) /\ (app = "primary" \/ env = "replica")
    BY <1>1, <1>2, WritersFacts DEF AppWrite, TypeInv, ScriptInv, SettingTypeOK, Servers
  <2> QED
    BY <2>1
<1>3. CASE CreateReplUser
  BY <1>3 DEF CreateReplUser, Servers
<1>4. CASE Apply
  <2>1. repl.source /\ UNCHANGED <<written, env>>
    BY <1>4 DEF Apply, outside
  <2>2. env # "replica" /\ Matched
    BY <2>1, ForkFacts
  <2> QED
    BY <1>1, <1>4, <2>1, <2>2, MatchedApply
<1>5. CASE Fetch
  BY <1>5 DEF Fetch, outside
<1>6. CASE ~AppWrite /\ ~CreateReplUser /\ ~Apply /\ ~Fetch
  <2>1. Quiet
    BY <1>1, <1>6, QuietSteps DEF Next, ServerStep
  <2>2. UNCHANGED written
    <3>1. CASE StartFresh \/ SwitchToFresh \/ RemoveFresh \/ Sync \/ UNCHANGED vars
      BY <3>1 DEF StartFresh, SwitchToFresh, RemoveFresh, Sync, outside, vars
    <3>2. CASE ServerStep
      BY <1>6, <3>2 DEF ServerStep, IoStops, SqlStops, ServerStops, ServerComesBack, outside
    <3>3. CASE StartScript \/ ServerGone \/ Killed \/ BackupStep
      BY <3>3 DEF StartScript, ServerGone, Killed, BackupStep, TakeDump, UploadDump,
         PointLatest, BackupFails, outside
    <3>4. CASE SetupStep
      BY <1>6, <3>4 DEF SetupStep, ComposeUp, CheckRunning, PointAtPrimary, ArmReadOnly,
         VerifyRunning, outside
    <3>5. CASE PromoteStep
      BY <3>5 DEF PromoteStep, ProbeReplica, StopReceiving, AwaitDrain, DropSource,
         MakeWritable, RepointEnv, RestartLive, outside
    <3> QED
      BY <1>1, <1>6, <3>1, <3>2, <3>3, <3>4, <3>5 DEF Next
  <2> QED
    BY <2>1, <2>2 DEF Quiet
<1> QED
  BY <1>2, <1>3, <1>4, <1>5, <1>6

LEMMA ForkStep ==
  ASSUME Forks, ForkInv, [Next]_vars
  PROVE  Numbered' /\ CleanFork'
<1>1. TypeInv /\ RepeatInv /\ Numbered /\ CleanFork
  BY ForkFacts DEF ForkInv
<1>2. /\ rows \in [Servers -> Rows] /\ rows["primary"] \in Rows /\ rows["replica"] \in Rows
      /\ written \in Nat /\ "primary" \in Servers /\ "replica" \in Servers
  BY <1>1, RowFacts, LimitsAssumption DEF TypeInv, ScriptInv, ScriptTypeOK, Servers
<1>3. \A s \in Servers : \A i \in 1..Len(rows[s]) : rows[s][i] \in Nat /\ rows[s][i] <= written
  <2> SUFFICES ASSUME NEW s \in Servers, NEW i \in 1..Len(rows[s])
               PROVE  rows[s][i] \in Nat /\ rows[s][i] <= written
    OBVIOUS
  <2>1. rows[s] \in Seq(0..MaxWrites)
    BY <1>2 DEF Rows
  <2>2. rows[s][i] \in 0..MaxWrites
    BY <2>1, ElementOfSeq
  <2> QED
    BY <2>2, <1>1, LimitsAssumption DEF Numbered
<1>4. CASE UNCHANGED rows /\ written' \in {written, written + 1}
  <2>1. CleanFork'
    BY <1>1, <1>4 DEF CleanFork
  <2>2. \A s \in Servers : \A i \in 1..Len(rows[s]) : rows[s][i] <= written'
    BY <1>2, <1>3, <1>4
  <2> QED
    BY <1>4, <2>1, <2>2 DEF Numbered
<1>5. ASSUME NEW s \in Servers, Commit(s)
      PROVE  Numbered' /\ CleanFork'
  <2> DEFINE e == written + 1
  <2>1. /\ e \in 0..MaxWrites /\ written' = e
        /\ rows' = [rows EXCEPT ![s] = Append(rows[s], e)]
    BY <1>1, <1>2, <1>5, LimitsAssumption DEF Commit, TypeInv, ScriptInv, ScriptTypeOK
  <2>2. \A q \in Servers : \A i \in 1..Len(rows[q]) : rows[q][i] # e /\ rows[q][i] <= e
    BY <1>2, <1>3
  <2>3. rows[s] \in Rows
    BY <1>2
  <2>4. /\ Len(Append(rows[s], e)) = Len(rows[s]) + 1 /\ Append(rows[s], e)[Len(rows[s]) + 1] = e
        /\ \A i \in 1..Len(rows[s]) : Append(rows[s], e)[i] = rows[s][i]
    BY <2>1, <2>3, Appended
  <2>5. ASSUME NEW q \in Servers, NEW i \in 1..Len(rows'[q])
        PROVE  rows'[q][i] <= e
    <3>1. CASE q = s
      <4>1. rows'[q] = Append(rows[s], e)
        BY <1>2, <2>1, <3>1
      <4>2. i \in 1..Len(rows[s]) \/ i = Len(rows[s]) + 1
        BY <2>3, <2>4, <4>1 DEF Rows
      <4> QED
        BY <1>2, <2>2, <2>4, <4>1, <4>2
    <3>2. CASE q # s
      BY <1>2, <2>1, <2>2, <3>2
    <3> QED
      BY <3>1, <3>2
  <2>6. CleanFork'
    <3>1. SharePast(rows["replica"], rows["primary"])
      BY <1>1 DEF CleanFork
    <3>2. CASE s = "primary"
      <4>1. /\ rows'["primary"] = Append(rows["primary"], e) /\ rows'["replica"] = rows["replica"]
        BY <1>2, <2>1, <3>2
      <4>2. SharePast(rows["replica"], Append(rows["primary"], e))
        BY <1>2, <2>1, <2>2, <3>1, FreshSharesPast
      <4> QED
        BY <4>1, <4>2 DEF CleanFork
    <3>3. CASE s = "replica"
      <4>1. /\ rows'["replica"] = Append(rows["replica"], e) /\ rows'["primary"] = rows["primary"]
        BY <1>2, <2>1, <3>3
      <4>2. SharePast(Append(rows["replica"], e), rows["primary"])
        BY <1>2, <2>1, <2>2, <3>1, FreshSharesPast
      <4> QED
        BY <4>1, <4>2 DEF CleanFork
    <3> QED
      BY <3>2, <3>3 DEF Servers
  <2> QED
    BY <2>1, <2>5, <2>6 DEF Numbered
<1>6. CASE /\ Len(rows["replica"]) < Len(rows["primary"])
           /\ rows' = [rows EXCEPT !["replica"] =
                        Append(rows["replica"], rows["primary"][Len(rows["replica"]) + 1])]
           /\ UNCHANGED <<written, env>> /\ env # "replica"
  <2> DEFINE row == rows["primary"][Len(rows["replica"]) + 1]
  <2>1. Len(rows["replica"]) + 1 \in 1..Len(rows["primary"])
    BY <1>2, <1>6 DEF Rows
  <2>2. row <= written /\ row \in 0..MaxWrites
    BY <1>2, <1>3, <2>1, ElementOfSeq DEF Rows
  <2>3. /\ rows'["replica"] = Append(rows["replica"], row) /\ rows'["primary"] = rows["primary"]
    BY <1>2, <1>6
  <2> HIDE DEF row
  <2>4. /\ Len(rows'["replica"]) = Len(rows["replica"]) + 1
        /\ rows'["replica"][Len(rows["replica"]) + 1] = row
        /\ \A i \in 1..Len(rows["replica"]) : rows'["replica"][i] = rows["replica"][i]
    BY <1>2, <2>2, <2>3, Appended
  <2>5. \A i \in 1..Len(rows'["replica"]) :
          i \in 1..Len(rows["replica"]) \/ i = Len(rows["replica"]) + 1
    BY <1>2, <2>4 DEF Rows
  <2>6. Numbered'
    BY <1>2, <1>3, <1>6, <2>2, <2>3, <2>4, <2>5 DEF Numbered, Servers
  <2>7. RepeatInv'
    BY <1>1, ForkFacts, RepeatInvStep
  <2>8. Matched' /\ TypeInv'
    BY <1>6, <2>7 DEF RepeatInv, Restoring, DuringRestore, Forks
  <2>9. rows'["replica"] \in Rows /\ rows'["primary"] \in Rows
    BY <1>2, <2>8 DEF TypeInv, DataInv, DataTypeOK
  <2>10. CleanFork'
    BY <2>8, <2>9, PrefixSharesPast DEF Matched, CleanFork
  <2> QED
    BY <2>6, <2>10
<1> QED
  BY <1>1, <1>4, <1>5, <1>6, ForkRows

\* After any failover the two servers share everything up to one transaction
\* and nothing after it: with servers stopping, scripts breaking off and being
\* repeated, deploys beside them and an application that stays behind, as long
\* as nobody sets the pair up again, ships a .env or restores a dump
\* (promote_replica.sh).
THEOREM ForkStaysClean == Forks => (Spec => []CleanFork)
<1> SUFFICES ASSUME Forks PROVE Spec => []CleanFork
  OBVIOUS
<1>1. Init => ForkInv
  <2> SUFFICES ASSUME Init PROVE ForkInv
    OBVIOUS
  <2>1. RepeatInv /\ Matched /\ TypeInv
    BY InitRepeats, ForkFacts DEF Init
  <2>2. CleanFork
    BY <2>1, RowFacts, PrefixSharesPast DEF Matched, CleanFork
  <2>3. written = 0 /\ rows["primary"] = <<0>> /\ rows["replica"] = << >>
    BY DEF Init, Seed, Servers
  <2>4. Numbered
    BY <2>3 DEF Numbered, Servers
  <2> QED
    BY <2>1, <2>2, <2>4 DEF ForkInv
<1>2. ForkInv /\ [Next]_vars => ForkInv'
  <2> SUFFICES ASSUME ForkInv, [Next]_vars PROVE ForkInv'
    OBVIOUS
  <2>1. RepeatInv'
    BY ForkFacts, RepeatInvStep DEF ForkInv
  <2> QED
    BY <2>1, ForkStep DEF ForkInv
<1>3. ForkInv => CleanFork
  BY DEF ForkInv
<1> QED
  BY <1>1, <1>2, <1>3, PTL DEF Spec

-----------------------------------------------------------------------------
(* While nobody promotes or restores *)

\* The binary log is all the primary ever did.
Whole == bin.purged = 0 /\ Len(bin.log) = Len(rows["primary"])

SoundDump(d) == d.pos = Len(d.rows) /\ IsPrefixOf(d.rows, rows["primary"])

SoundDumps ==
  /\ SoundDump(cron.dump)
  /\ s3.latest <= Len(s3.dumps)
  /\ \A i \in DOMAIN s3.dumps : SoundDump(s3.dumps[i])

PairInv == RepeatInv /\ Whole /\ SoundDumps

LEMMA PairFacts ==
  ASSUME Undisturbed, RepeatInv, Whole
  PROVE  /\ Kept /\ TypeInv /\ Matched /\ app = "primary"
         /\ ~PromoteStep /\ ~RestoreStep
         /\ Executed = Len(rows["primary"]) /\ repl.pos = Len(rows["replica"])
<1>1. Kept /\ "promote" \notin Scripts /\ "restore" \notin Scripts
  BY DEF Undisturbed, Kept
<1>2. TypeInv /\ OneWriter /\ DuringRestore
  BY <1>1 DEF RepeatInv, Writers
<1>3. op.pc \notin PromoteLabels /\ op.pc \notin RestorePcs
  BY <1>1, <1>2 DEF OneWriter, DuringRestore, RestorePcs
<1>4. Matched
  BY <1>2, <1>3 DEF RepeatInv, OneWriter, Restoring, RestorePcs
<1>5. ~PromoteStep
  BY <1>2, <1>3, PromoteMoves
<1>6. ~RestoreStep
  BY <1>3 DEF RestoreStep, FetchDump, ResetPrimary, LoadPrimary, ResetReplica, LoadReplica, At,
     RestorePcs
<1>7. Executed = Len(rows["primary"]) /\ repl.pos = Len(rows["replica"])
  <2>1. \A a, b, c \in Nat : 0 + a = a /\ (a + b = c + a => b = c)
    OBVIOUS
  <2>2. Executed = Len(rows["primary"])
    BY <1>2, <2>1, Lengths DEF Whole, Executed
  <2>3. Len(rows["primary"]) + repl.pos = Len(rows["replica"]) + Len(rows["primary"])
    BY <1>4, <2>2 DEF Matched
  <2>4. /\ Len(rows["primary"]) \in Nat /\ repl.pos \in Nat
        /\ Len(rows["replica"]) \in Nat
    BY <1>2, Lengths
  <2>5. repl.pos = Len(rows["replica"])
    BY <2>1, <2>3, <2>4
  <2> QED
    BY <2>2, <2>5
<1> QED
  BY <1>1, <1>2, <1>4, <1>5, <1>6, <1>7 DEF OneWriter

\* Every step of an undisturbed pair is a commit, an application or no change.
LEMMA PairStep ==
  ASSUME Undisturbed, RepeatInv, Whole, [Next]_vars
  PROVE  /\ Whole'
         /\ \/ UNCHANGED rows
            \/ /\ written + 1 \in 1..MaxWrites
               /\ rows' = [rows EXCEPT !["primary"] = Append(rows["primary"], written + 1)]
            \/ /\ Len(rows["replica"]) < Len(rows["primary"])
               /\ rows' = [rows EXCEPT !["replica"] =
                            Append(rows["replica"], rows["primary"][Len(rows["replica"]) + 1])]
<1>1. /\ TypeInv /\ Matched /\ app = "primary" /\ ~PromoteStep /\ ~RestoreStep
  BY PairFacts
<1>2. CASE CommitStep
  <2>1. /\ bin'.purged = bin.purged /\ bin'.log = Append(bin.log, written + 1)
        /\ rows' = [rows EXCEPT !["primary"] = Append(rows["primary"], written + 1)]
        /\ written + 1 \in 1..MaxWrites
    BY <1>1, <1>2, CommitOfPair, MatchedWrite
  <2>2. rows'["primary"] = Append(rows["primary"], written + 1)
    BY <1>1, <2>1, RowFacts DEF Servers
  <2>3. written + 1 \in 0..MaxWrites
    BY <2>1, LimitsAssumption
  <2>4. /\ Len(bin'.log) = Len(bin.log) + 1
        /\ Len(rows'["primary"]) = Len(rows["primary"]) + 1
    BY <1>1, <2>1, <2>2, <2>3, RowFacts, Appended
  <2> QED
    BY <2>1, <2>4 DEF Whole
<1>3. CASE Fetch
  BY <1>1, <1>3, MatchedFetch DEF Whole
<1>4. CASE Apply
  <2>1. /\ UNCHANGED bin /\ Len(rows["replica"]) < Len(rows["primary"])
        /\ rows' = [rows EXCEPT !["replica"] =
                      Append(rows["replica"], rows["primary"][Len(rows["replica"]) + 1])]
    BY <1>1, <1>4, MatchedApply
  <2>2. rows'["primary"] = rows["primary"]
    BY <1>1, <2>1, RowFacts DEF Servers
  <2> QED
    BY <2>1, <2>2 DEF Whole
<1>5. CASE ~CommitStep /\ ~Fetch /\ ~Apply
  <2>1. Quiet
    BY <1>1, <1>5, QuietSteps DEF Next, ServerStep, CommitStep
  <2> QED
    BY <2>1 DEF Quiet, Whole
<1> QED
  BY <1>2, <1>3, <1>4, <1>5

\* What a backup dumps now is sound, wherever it is taken.
LEMMA DumpNow ==
  ASSUME Undisturbed, RepeatInv, Whole, NEW s \in Servers
  PROVE  SoundDump(Dump(s))
<1>1. CASE s = "primary"
  BY <1>1, PairFacts, RowFacts, PrefixOfItself DEF SoundDump, Dump
<1>2. CASE s = "replica"
  BY <1>2, PairFacts DEF SoundDump, Dump, Matched
<1> QED
  BY <1>1, <1>2 DEF Servers

\* A sound dump stays sound: the primary only grows.
LEMMA DumpKept ==
  ASSUME Undisturbed, PairInv, [Next]_vars, NEW d \in Dumps, SoundDump(d)
  PROVE  SoundDump(d)'
<1>0. TypeInv /\ RepeatInv /\ Whole
  BY DEF PairInv, RepeatInv
<1>1. CASE rows'["primary"] = rows["primary"]
  BY <1>1 DEF SoundDump
<1>2. CASE /\ written + 1 \in 1..MaxWrites
           /\ rows'["primary"] = Append(rows["primary"], written + 1)
  <2>1. d.rows \in Rows /\ written + 1 \in 0..MaxWrites
    BY <1>2, LimitsAssumption DEF Dumps
  <2>2. IsPrefixOf(d.rows, Append(rows["primary"], written + 1))
    BY <1>0, <2>1, RowFacts, PrefixOfAppend DEF SoundDump
  <2> QED
    BY <1>2, <2>2 DEF SoundDump
<1> QED
  <2>1. rows \in [Servers -> Rows] /\ "primary" \in Servers /\ "replica" \in Servers
    BY <1>0, RowFacts DEF Servers
  <2> QED
    BY <1>0, <1>1, <1>2, <2>1, PairStep

LEMMA SoundDumpsStep ==
  ASSUME Undisturbed, PairInv, [Next]_vars
  PROVE  SoundDumps'
<1>0. TypeInv /\ SoundDumps
  BY DEF PairInv, RepeatInv
<1>1. cron.dump \in Dumps /\ s3.dumps \in Seq(Dumps) /\ s3.latest \in Nat
      /\ s3 \in [dumps : Seq(Dumps), latest : Nat]
      /\ cron \in [pc : {"idle", "upload", "pointer"}, dump : Dumps]
  BY <1>0 DEF TypeInv, ScriptInv, SettingTypeOK, ScriptTypeOK
<1>2. cron.dump.pos = Len(cron.dump.rows) /\ IsPrefixOf(cron.dump.rows, rows'["primary"])
  BY <1>0, <1>1, DumpKept DEF SoundDumps, SoundDump
<1>3. \A i \in DOMAIN s3.dumps : s3.dumps[i].pos = Len(s3.dumps[i].rows)
                              /\ IsPrefixOf(s3.dumps[i].rows, rows'["primary"])
  BY <1>0, <1>1, DumpKept DEF SoundDumps, SoundDump
<1>4. NoDump.pos = Len(NoDump.rows) /\ IsPrefixOf(NoDump.rows, rows'["primary"])
  <2>1. SoundDump(NoDump)
    BY <1>0, EmptyRows, Lengths DEF SoundDump, NoDump, IsPrefixOf
  <2> QED
    BY <2>1, NoDumpType, DumpKept DEF SoundDump
<1>5. CASE TakeDump
  <2>1. UNCHANGED <<rows, s3>> /\ cron'.dump = BackupDump
    BY <1>5 DEF TakeDump, data
  <2>2. SoundDump(BackupDump)
    BY DumpNow DEF PairInv, BackupDump, Servers
  <2> QED
    BY <1>0, <1>3, <2>1, <2>2 DEF SoundDumps, SoundDump
<1>6. CASE UploadDump
  <2>1. cron'.dump = cron.dump /\ s3'.dumps = Append(s3.dumps, cron.dump)
        /\ s3'.latest = s3.latest
    BY <1>1, <1>6 DEF UploadDump
  <2>2. /\ Len(s3'.dumps) = Len(s3.dumps) + 1 /\ DOMAIN s3'.dumps = 1..(Len(s3.dumps) + 1)
        /\ \A i \in 1..Len(s3.dumps) : s3'.dumps[i] = s3.dumps[i]
        /\ s3'.dumps[Len(s3.dumps) + 1] = cron.dump
    BY <1>1, <2>1, AppendProperties
  <2>3. DOMAIN s3.dumps = 1..Len(s3.dumps) /\ Len(s3.dumps) \in Nat
    BY <1>1
  <2>4. \A i \in DOMAIN s3'.dumps : s3'.dumps[i].pos = Len(s3'.dumps[i].rows)
                                 /\ IsPrefixOf(s3'.dumps[i].rows, rows'["primary"])
    <3> SUFFICES ASSUME NEW i \in DOMAIN s3'.dumps
                 PROVE  s3'.dumps[i].pos = Len(s3'.dumps[i].rows)
                        /\ IsPrefixOf(s3'.dumps[i].rows, rows'["primary"])
      OBVIOUS
    <3>1. i \in 1..Len(s3.dumps) \/ i = Len(s3.dumps) + 1
      BY <2>2, <2>3
    <3>2. CASE i \in 1..Len(s3.dumps)
      BY <3>2, <2>2, <2>3, <1>3
    <3>3. CASE i = Len(s3.dumps) + 1
      BY <3>3, <2>2, <1>2
    <3> QED
      BY <3>1, <3>2, <3>3
  <2>5. s3'.latest <= Len(s3'.dumps)
    BY <1>0, <1>1, <2>1, <2>2, <2>3 DEF SoundDumps
  <2> QED
    BY <1>2, <2>1, <2>4, <2>5 DEF SoundDumps, SoundDump
<1>7. CASE PointLatest
  <2>1. cron'.dump = NoDump /\ s3'.dumps = s3.dumps /\ s3'.latest = Len(s3'.dumps)
    BY <1>1, <1>7 DEF PointLatest
  <2>2. s3'.latest <= Len(s3'.dumps)
    BY <1>1, <2>1
  <2> QED
    BY <1>3, <1>4, <2>1, <2>2 DEF SoundDumps, SoundDump
<1>8. CASE BackupFails
  <2>1. cron'.dump = NoDump /\ s3' = s3
    BY <1>8 DEF BackupFails
  <2> QED
    BY <1>0, <1>3, <1>4, <2>1 DEF SoundDumps, SoundDump
<1>9. CASE UNCHANGED <<cron, s3>>
  BY <1>0, <1>2, <1>3, <1>9 DEF SoundDumps, SoundDump
<1>10. BackupStep \/ UNCHANGED <<cron, s3>>
  <2>1. CASE AppWrite \/ StartFresh \/ SwitchToFresh \/ RemoveFresh \/ Sync \/ UNCHANGED vars
    BY <2>1 DEF AppWrite, StartFresh, SwitchToFresh, RemoveFresh, Sync, outside, vars
  <2>2. CASE ServerStep
    BY <2>2 DEF ServerStep, Fetch, IoStops, Apply, SqlStops, ServerStops, ServerComesBack,
                outside
  <2>3. CASE StartScript \/ ServerGone \/ Killed
    BY <2>3 DEF StartScript, ServerGone, Killed, outside
  <2>4. CASE SetupStep
    BY <2>4 DEF SetupStep, ComposeUp, CheckRunning, CreateReplUser, PointAtPrimary,
                ArmReadOnly, VerifyRunning, outside
  <2> QED
    BY <2>1, <2>2, <2>3, <2>4, PairFacts DEF PairInv, Next
<1> QED
  BY <1>5, <1>6, <1>7, <1>8, <1>9, <1>10 DEF BackupStep

LEMMA InitPaired == Init => PairInv
<1> SUFFICES ASSUME Init PROVE PairInv
  OBVIOUS
<1>1. rows["primary"] = Seed /\ bin = [purged |-> 0, log |-> Seed]
  BY DEF Init, Servers
<1>2. Whole
  BY <1>1 DEF Whole
<1>3. SoundDump(NoDump)
  BY <1>1, EmptyRows, SeedType DEF SoundDump, NoDump, IsPrefixOf
<1>4. SoundDumps
  BY <1>3, EmptySeq DEF Init, SoundDumps
<1> QED
  BY <1>2, <1>4, InitRepeats DEF PairInv

LEMMA PairInvStep ==
  ASSUME Undisturbed
  PROVE  PairInv /\ [Next]_vars => PairInv'
<1> SUFFICES ASSUME PairInv, [Next]_vars PROVE PairInv'
  OBVIOUS
<1>1. Kept
  BY DEF Undisturbed, Kept
<1> QED
  BY <1>1, RepeatInvStep, PairStep, SoundDumpsStep DEF PairInv

\* While nobody promotes or restores, every uploaded dump holds exactly the
\* rows its GTID position names, and latest.json points to an uploaded one
\* (backup_db.sh).
THEOREM BackupsAreSound ==
  ASSUME Undisturbed
  PROVE  Spec => []BackupSound
<1>1. PairInv => BackupSound
  <2> SUFFICES ASSUME PairInv PROVE BackupSound
    OBVIOUS
  <2>1. s3.latest \in Nat /\ s3.dumps \in Seq(Dumps)
    BY DEF PairInv, RepeatInv, TypeInv, ScriptInv, SettingTypeOK
  <2>2. s3.latest \in 0..Len(s3.dumps)
    BY <2>1 DEF PairInv, SoundDumps
  <2> QED
    BY <2>2 DEF PairInv, SoundDumps, SoundDump, BackupSound
<1> QED
  BY InitPaired, PairInvStep, <1>1, PTL DEF Spec

\* While nobody promotes or restores, the pair implements Follower: rows are
\* only added to the primary, and the replica repeats them one by one.
THEOREM ImplementsFollower ==
  ASSUME Undisturbed
  PROVE  Spec => PairSpec
<1>1. Init => Pair!Init
  BY DEF Init, Pair!Init, Servers
<1>2. PairInv /\ [Next]_vars => [Pair!Next]_<<rows["primary"], rows["replica"]>>
  <2> SUFFICES ASSUME PairInv, [Next]_vars
               PROVE  [Pair!Next]_<<rows["primary"], rows["replica"]>>
    OBVIOUS
  <2>1. TypeInv
    BY DEF PairInv, RepeatInv
  <2>2. rows \in [Servers -> Rows]
    BY <2>1, RowFacts
  <2>3. CASE UNCHANGED rows
    BY <2>3
  <2>4. CASE /\ written + 1 \in 1..MaxWrites
             /\ rows' = [rows EXCEPT !["primary"] = Append(rows["primary"], written + 1)]
    <3>1. /\ rows'["primary"] = Append(rows["primary"], written + 1)
          /\ rows'["replica"] = rows["replica"]
      BY <2>2, <2>4 DEF Servers
    <3> QED
      BY <3>1, <2>4 DEF Pair!Next, Pair!Commit
  <2>5. CASE /\ Len(rows["replica"]) < Len(rows["primary"])
             /\ rows' = [rows EXCEPT !["replica"] =
                          Append(rows["replica"], rows["primary"][Len(rows["replica"]) + 1])]
    <3>1. /\ rows'["primary"] = rows["primary"]
          /\ rows'["replica"] =
               Append(rows["replica"], rows["primary"][Len(rows["replica"]) + 1])
      BY <2>2, <2>5 DEF Servers
    <3> QED
      BY <3>1, <2>5 DEF Pair!Next, Pair!Catch
  <2> QED
    BY <2>3, <2>4, <2>5, PairStep DEF PairInv
<1> QED
  BY InitPaired, PairInvStep, <1>1, <1>2, PTL DEF Spec, PairSpec, Pair!Spec
=============================================================================
