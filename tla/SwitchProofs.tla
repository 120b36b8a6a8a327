--------------------------- MODULE SwitchProofs ---------------------------
(***************************************************************************)
(* What users are served when runs do not overlap.  Without failovers      *)
(* nginx's file names a healthy container, under every fault.  When no     *)
(* run is cut between the new file and the reload, the reload does not     *)
(* fail and nginx is not restarted from outside, nginx follows its file:   *)
(* no user meets an unhealthy build, failovers or not; and without them    *)
(* users are served at every step and the pipeline implements TrafficGate. *)
(***************************************************************************)
EXTENDS RunProofs

Orderly == Exclusive /\ "failover" \notin Kinds
Calm == Exclusive /\ Faults = {}
Clean == Orderly /\ Faults = {}

-----------------------------------------------------------------------------
(* The steps of a run and the slot that nginx's file names *)

\* Only a failover works in the slot the file names; only switch_traffic.sh
\* changes the file.
LEMMA StepTouches ==
  ASSUME TypeInv, PlaceInv, NEW o \in Operators, Step(o)
  PROVE  \/ /\ UNCHANGED <<conf, bak>>
            /\ conf \in Colors => slot'[conf] = slot[conf]
            /\ pc'[o] \in Switching => ConfigAccepted(o)
         \/ Install(o) \/ ConfigRejected(o)
         \/ /\ RemoveStale(o) \/ Create(o) \/ CreateFails(o)
            /\ job[o].kind = "failover"
<1> USE DEF Switching
<1>1. pc'[o] \in Switching => Install(o) \/ ConfigAccepted(o)
  BY DEF Step, ReadLive, CheckLedger, ReadPast, PickPrevious, InspectActive, InspectImage,
     ReadActive, ReadInactive, Pull, RemoveStale, Create, CreateFails, GatePass, GateMiss,
     GateUnhealthy, GateLost, Teardown, StillLive, ConfigRejected, Reload, ReloadFails,
     Drain, RecordLastGood, LedgerError, ReadHistory, WriteHistory, Exit, Continue,
     ContinueWith, Goto, Return, ScriptFailed, AfterSwitch, TypeInv, TypeOK, RunTypeOK
<1>2. CASE RemoveStale(o) \/ Create(o) \/ CreateFails(o) \/ Teardown(o)
  <2>1. UNCHANGED <<conf, bak>> /\ pc[o] \in Preparing
        /\ (slot' = slot \/ \E v : SetSlot(job[o].target, v))
    BY <1>2 DEF RemoveStale, Create, CreateFails, Teardown, Stop, Preparing
  <2>2. job[o].kind # "failover" => (conf \in Colors => slot'[conf] = slot[conf])
    BY <2>1, SlotWork
  <2>3. Teardown(o) => job[o].kind # "failover"
    BY NotFailover DEF Teardown, Restarting
  <2>4. ~Install(o) /\ ~ConfigAccepted(o)
    BY <1>2 DEF RemoveStale, Create, CreateFails, Teardown, Install, ConfigAccepted
  <2> QED
    BY <1>1, <1>2, <2>1, <2>2, <2>3, <2>4
<1>3. CASE Drain(o)
  <2>1. UNCHANGED <<conf, bak>> /\ pc[o] = "drain" /\ \E v : SetSlot(job[o].current, v)
    BY <1>3 DEF Drain, Stop
  <2>2. conf # job[o].current
    BY <2>1, NotFailover DEF DeployPlaced, Switched, Restarting
  <2>3. conf \in Colors => slot'[conf] = slot[conf]
    BY <2>1, <2>2 DEF SetSlot, TypeInv, TypeOK, HostTypeOK
  <2>4. ~Install(o) /\ ~ConfigAccepted(o)
    BY <2>1 DEF Install, ConfigAccepted
  <2> QED
    BY <1>1, <2>1, <2>3, <2>4
<1>4. CASE ~(RemoveStale(o) \/ Create(o) \/ CreateFails(o) \/ Teardown(o) \/ Drain(o)
             \/ Install(o) \/ ConfigRejected(o))
  <2>1. UNCHANGED <<conf, bak, slot>>
    BY <1>4 DEF Step, ReadLive, CheckLedger, ReadPast, PickPrevious, InspectActive,
       InspectImage, ReadActive, ReadInactive, Pull, GatePass, GateMiss, GateUnhealthy,
       GateLost, StillLive, ConfigAccepted, Reload, ReloadFails, RecordLastGood,
       LedgerError, ReadHistory, WriteHistory, host
  <2> QED
    BY <1>1, <1>4, <2>1
<1> QED
  BY <1>2, <1>3, <1>4

\* The run between the new file and its reload, and what it would go back to.
LEMMA StepInstalls ==
  ASSUME TypeInv, PlaceInv, NEW o \in Operators, Install(o)
  PROVE  /\ pc[o] = "install" /\ Moves(o) /\ slot' = slot
         /\ conf' = job[o].target /\ Serving(conf') /\ job[o].kind # "failover"
         /\ job'[o].kind # "failover"
         /\ job'[o].backup => conf # NoColor /\ bak' = conf
<1>1. pc[o] = "install" /\ job[o] \in Jobs
  BY DEF Install, TypeInv, TypeOK, RunTypeOK
<1>2. job[o].kind # "failover" /\ Serving(job[o].target)
  BY <1>1, NotFailover DEF DeployPlaced, Restarting
<1>3. Moves(o) /\ job'[o] = [job[o] EXCEPT !.backup = conf # NoColor]
  BY DEF Install, ContinueWith, Goto, Moves, TypeInv, TypeOK, RunTypeOK
<1>4. job'[o].kind = job[o].kind /\ job'[o].backup = (conf # NoColor)
  BY <1>1, <1>3 DEF Jobs
<1> QED
  BY <1>1, <1>2, <1>3, <1>4 DEF Install

LEMMA OthersIdle ==
  ASSUME TypeInv, PlaceInv, NEW o \in Operators, Step(o) \/ BreakOff(o)
  PROVE  pc[o] # "idle" /\ Moves(o)
         /\ \A p \in Operators \ {o} : pc[p] = "idle" /\ pc'[p] = "idle"
<1>1. pc[o] # "idle"
  BY DEF Step, ReadLive, CheckLedger, ReadPast, PickPrevious, InspectActive, InspectImage,
     ReadActive, ReadInactive, Pull, RemoveStale, Create, CreateFails, GatePass, GateMiss,
     GateUnhealthy, GateLost, Teardown, StillLive, Install, ConfigAccepted, ConfigRejected,
     Reload, ReloadFails, Drain, RecordLastGood, LedgerError, ReadHistory, WriteHistory,
     BreakOff, S3Raises, SshFails, Killed, S3Reads, RemoteSteps
<1>2. (\E code : Exit(o, code)) \/ (\E label, j : ContinueWith(o, label, j))
      \/ (\E label : Continue(o, label))
  BY DEF Step, ReadLive, CheckLedger, ReadPast, PickPrevious, InspectActive, InspectImage,
     ReadActive, ReadInactive, Pull, RemoveStale, Create, CreateFails, GatePass, GateMiss,
     GateUnhealthy, GateLost, Teardown, StillLive, Install, ConfigAccepted, ConfigRejected,
     Reload, ReloadFails, Drain, RecordLastGood, LedgerError, ReadHistory, WriteHistory,
     BreakOff, S3Raises, SshFails, Killed, ScriptFailed, Return
<1>3. Moves(o)
  BY <1>2 DEF Exit, Continue, ContinueWith, Goto, Moves, TypeInv, TypeOK, RunTypeOK
<1> QED
  BY <1>1, <1>3 DEF PlaceInv, Alone, Moves

\* What a step leaves of the kind of its run.
LEMMA StepKind ==
  ASSUME TypeInv, NEW o \in Operators, Step(o) \/ BreakOff(o), job[o].kind # "failover"
  PROVE  job'[o].kind # "failover"
<1>1. job[o] \in Jobs
  BY DEF TypeInv, TypeOK, RunTypeOK
<1>2. ASSUME NEW code, Exit(o, code) PROVE job'[o].kind # "failover"
  BY <1>2 DEF Exit, NoJob, TypeInv, TypeOK, RunTypeOK
<1>3. ASSUME NEW label, Continue(o, label) PROVE job'[o].kind # "failover"
  BY <1>3 DEF Continue
<1>4. ASSUME NEW label, NEW j, ContinueWith(o, label, j), j.kind = job[o].kind
      PROVE job'[o].kind # "failover"
  BY <1>4 DEF ContinueWith, TypeInv, TypeOK, RunTypeOK
<1> DEFINE same(j) == j.kind = job[o].kind
<1>5. /\ \A v : same([job[o] EXCEPT !.live = v]) /\ same([job[o] EXCEPT !.seen = v])
             /\ same([job[o] EXCEPT !.tag = v]) /\ same([job[o] EXCEPT !.current = v])
             /\ same([job[o] EXCEPT !.target = v]) /\ same([job[o] EXCEPT !.backup = v])
             /\ same([job[o] EXCEPT !.tag = v, !.seen = << >>])
             /\ same([job[o] EXCEPT !.current = v, !.target = v])
      /\ same([job[o] EXCEPT !.status = "success", !.attempt = 1])
      /\ same([job[o] EXCEPT !.attempt = @ + 1])
  BY <1>1 DEF Jobs
<1>6. CASE \/ ReadLive(o) \/ CheckLedger(o) \/ ReadPast(o) \/ PickPrevious(o)
           \/ InspectActive(o) \/ InspectImage(o) \/ ReadActive(o) \/ ReadInactive(o)
  BY <1>2, <1>3, <1>4, <1>5, <1>6 DEF ReadLive, CheckLedger, ReadPast, PickPrevious,
     InspectActive, InspectImage, ReadActive, ReadInactive
<1>7. CASE \/ Pull(o) \/ RemoveStale(o) \/ Create(o) \/ CreateFails(o)
           \/ GatePass(o) \/ GateMiss(o) \/ GateUnhealthy(o) \/ GateLost(o)
  BY <1>2, <1>3, <1>4, <1>5, <1>7 DEF Pull, RemoveStale, Create, CreateFails, GatePass,
     GateMiss, GateUnhealthy, GateLost, ScriptFailed, Return
<1>8. CASE \/ Teardown(o) \/ StillLive(o) \/ Install(o) \/ ConfigAccepted(o)
           \/ ConfigRejected(o) \/ Reload(o) \/ ReloadFails(o) \/ Drain(o)
  BY <1>2, <1>3, <1>4, <1>5, <1>8 DEF Teardown, StillLive, Install, ConfigAccepted,
     ConfigRejected, Reload, ReloadFails, Drain, Return
<1>9. CASE RecordLastGood(o) \/ LedgerError(o) \/ ReadHistory(o) \/ WriteHistory(o)
  BY <1>2, <1>3, <1>4, <1>5, <1>9 DEF RecordLastGood, LedgerError, ReadHistory, WriteHistory
<1>10. CASE BreakOff(o)
  BY <1>2, <1>10 DEF BreakOff, S3Raises, SshFails, Killed
<1> QED
  BY <1>6, <1>7, <1>8, <1>9, <1>10 DEF Step

-----------------------------------------------------------------------------
(* Without failovers nginx's file names a service *)

\* The file names a container that answers, and so does the file a run would
\* put back.
ServeInv ==
  /\ ConfServes
  /\ \A o \in Operators :
       /\ job[o].kind # "failover"
       /\ pc[o] \in Switching /\ job[o].backup => Serving(bak)

LEMMA StepServes ==
  ASSUME TypeInv, PlaceInv, ServeInv, NEW o \in Operators, Step(o)
  PROVE  ServeInv'
<1>1. \A p \in Operators : job'[p].kind # "failover"
  BY OthersIdle, StepKind DEF ServeInv, Moves
<1>2. \A p \in Operators \ {o} : pc'[p] \notin Switching
  BY OthersIdle DEF Switching
<1>3. conf \in Colors \cup {NoColor}
  BY DEF TypeInv, TypeOK, HostTypeOK
<1>4. CASE /\ UNCHANGED <<conf, bak>>
           /\ conf \in Colors => slot'[conf] = slot[conf]
           /\ pc'[o] \in Switching => ConfigAccepted(o)
  <2>1. ConfServes'
    BY <1>3, <1>4 DEF ServeInv, ConfServes, Serving
  <2>2. ConfigAccepted(o) => pc[o] \in Switching /\ slot' = slot /\ job' = job
    BY DEF ConfigAccepted, Continue, host, Switching
  <2>3. pc'[o] \in Switching /\ job'[o].backup => Serving(bak)'
    BY <1>4, <2>2 DEF ServeInv, Serving
  <2> QED
    BY <1>1, <1>2, <2>1, <2>3 DEF ServeInv
<1>5. CASE Install(o)
  <2>1. /\ slot' = slot /\ Serving(conf')
        /\ job'[o].backup => conf # NoColor /\ bak' = conf
    BY <1>5, StepInstalls
  <2> QED
    BY <1>1, <1>2, <2>1 DEF ServeInv, ConfServes, Serving
<1>6. CASE ConfigRejected(o)
  <2>1. /\ pc[o] \in Switching /\ pc'[o] = "idle" /\ slot' = slot
        /\ conf' = Restored(o)
    BY <1>6 DEF ConfigRejected, Exit, Switching, TypeInv, TypeOK, RunTypeOK
  <2> QED
    BY <1>1, <1>2, <2>1 DEF ServeInv, ConfServes, Serving, Restored, Switching
<1> QED
  BY <1>4, <1>5, <1>6, StepTouches DEF ServeInv

LEMMA StartedKind ==
  ASSUME TypeInv, Exclusive, NEW o \in Operators, StartRun(o)
  PROVE  /\ UNCHANGED <<host, ledger>>
         /\ \A p \in Operators : pc[p] = "idle" /\ pc'[p] \notin Switching
         /\ \A p \in Operators \ {o} : job'[p] = job[p]
         /\ job'[o].kind \in Kinds /\ pc'[o] \in {"active", "live", "fo_active"}
<1>1. PICK k \in Kinds, t \in Tags \cup {NoTag}, label \in {"active", "live", "fo_active"} :
         Start(o, k, t, label)
  BY DEF StartRun, StartDeploy, StartRollback, StartFailover, Start, MayStart
<1>2. job'[o] = [NoJob EXCEPT !.kind = k, !.tag = t]
  BY <1>1 DEF Start, TypeInv, TypeOK, RunTypeOK
<1>3. job'[o].kind = k
  BY <1>2 DEF NoJob
<1> QED
  BY <1>1, <1>3 DEF Start, MayStart, Goto, Switching, TypeInv, TypeOK, RunTypeOK

LEMMA BrokenOffHost ==
  ASSUME TypeInv, NEW o \in Operators, BreakOff(o)
  PROVE  UNCHANGED <<host, ledger>> /\ pc'[o] = "idle" /\ job'[o] = NoJob
  BY DEF BreakOff, S3Raises, SshFails, Killed, Exit, TypeInv, TypeOK, RunTypeOK

LEMMA NextServes ==
  ASSUME TypeInv, PlaceInv, ServeInv, Orderly, [Next]_vars
  PROVE  ServeInv'
<1>1. ASSUME NEW o \in Operators, StartRun(o) PROVE ServeInv'
  BY <1>1, StartedKind DEF Orderly, ServeInv, ConfServes, Serving, host
<1>2. ASSUME NEW o \in Operators, Step(o) PROVE ServeInv'
  BY <1>2, StepServes
<1>3. ASSUME NEW o \in Operators, BreakOff(o) PROVE ServeInv'
  <2>1. UNCHANGED host /\ \A p \in Operators : pc'[p] = "idle"
    BY <1>3, BrokenOffHost, OthersIdle
  <2>2. \A p \in Operators : job'[p].kind # "failover"
    BY <1>3, OthersIdle, StepKind DEF ServeInv, Moves
  <2> QED
    BY <2>1, <2>2 DEF ServeInv, ConfServes, Serving, host, Switching
<1>4. CASE NginxRestart \/ UNCHANGED vars
  BY <1>4 DEF NginxRestart, vars, host, ServeInv, ConfServes, Serving
<1> QED
  BY <1>1, <1>2, <1>3, <1>4 DEF Next

LEMMA InitServes == Init => ServeInv
  BY DEF Init, ServeInv, ConfServes, NoJob, Switching

\* When runs do not overlap and none is a failover, nginx's file names a
\* healthy container at every step, whatever is killed, lost or restarted: the
\* slot a run works in is not the one the file names, and the file it puts
\* back names a container nobody has touched.
THEOREM FileNamesAService == Orderly => (Spec => []ConfServes)
<1> SUFFICES ASSUME Orderly PROVE Spec => []ConfServes
  OBVIOUS
<1> DEFINE Inv == TypeInv /\ PlaceInv /\ ServeInv
<1>1. Init => Inv
  BY InitTypeInv, InitPlaced, InitServes
<1>2. Inv /\ [Next]_vars => Inv'
  BY NextTypeInv, NextPlaced, NextServes DEF Orderly
<1>3. Inv => ConfServes
  BY DEF ServeInv
<1> QED
  BY <1>1, <1>2, <1>3, PTL DEF Spec

-----------------------------------------------------------------------------
(* Runs that are not cut: nginx follows its file *)

\* nginx follows its file, except while a run is between file and reload.
Followed ==
  /\ \A o \in Operators : pc[o] \in Switching => proxy = job[o].current
  /\ (\A o \in Operators : pc[o] \notin Switching) => proxy = conf

\* Outside switch_traffic.sh no step changes nginx's file or what it serves.
LEMMA StepOutside ==
  ASSUME TypeInv, NEW o \in Operators, Step(o), pc[o] \notin {"install", "test", "reload"}
  PROVE  /\ UNCHANGED <<conf, proxy>> /\ Moves(o)
         /\ pc[o] # "idle" /\ pc'[o] \notin Switching
<1> USE DEF host, TypeInv, TypeOK, RunTypeOK, Moves, Continue, ContinueWith, Goto,
            Exit, Return, ScriptFailed, Switching
<1>1. CASE ReadLive(o)
  BY <1>1 DEF ReadLive
<1>2. CASE CheckLedger(o)
  BY <1>2 DEF CheckLedger
<1>3. CASE ReadPast(o)
  BY <1>3 DEF ReadPast
<1>4. CASE PickPrevious(o)
  BY <1>4 DEF PickPrevious
<1>5. CASE InspectActive(o)
  BY <1>5 DEF InspectActive
<1>6. CASE InspectImage(o)
  BY <1>6 DEF InspectImage
<1>7. CASE ReadActive(o)
  BY <1>7 DEF ReadActive
<1>8. CASE ReadInactive(o)
  BY <1>8 DEF ReadInactive
<1>9. CASE Pull(o)
  BY <1>9 DEF Pull
<1>10. CASE RemoveStale(o)
  BY <1>10 DEF RemoveStale
<1>11. CASE Create(o)
  BY <1>11 DEF Create
<1>12. CASE CreateFails(o)
  BY <1>12 DEF CreateFails
<1>13. CASE GatePass(o)
  BY <1>13 DEF GatePass
<1>14. CASE GateMiss(o)
  BY <1>14 DEF GateMiss
<1>15. CASE GateUnhealthy(o)
  BY <1>15 DEF GateUnhealthy
<1>16. CASE GateLost(o)
  BY <1>16 DEF GateLost
<1>17. CASE Teardown(o)
  BY <1>17 DEF Teardown
<1>18. CASE StillLive(o)
  BY <1>18 DEF StillLive
<1>19. CASE Drain(o)
  BY <1>19 DEF Drain
<1>20. CASE RecordLastGood(o)
  BY <1>20 DEF RecordLastGood
<1>21. CASE LedgerError(o)
  BY <1>21 DEF LedgerError
<1>22. CASE ReadHistory(o)
  BY <1>22 DEF ReadHistory
<1>23. CASE WriteHistory(o)
  BY <1>23 DEF WriteHistory
<1>24. CASE \/ Install(o) \/ ConfigAccepted(o) \/ ConfigRejected(o)
           \/ Reload(o) \/ ReloadFails(o)
  BY <1>24 DEF Install, ConfigAccepted, ConfigRejected, Reload, ReloadFails
<1> QED
  BY <1>1, <1>2, <1>3, <1>4, <1>5, <1>6, <1>7, <1>8, <1>9, <1>10, <1>11, <1>12, <1>13, <1>14,
     <1>15, <1>16, <1>17, <1>18, <1>19, <1>20, <1>21, <1>22, <1>23, <1>24 DEF Step

\* While o is under way outside switch_traffic.sh, nginx serves what its file says.
LEMMA OutsideFollowed ==
  ASSUME PlaceInv, Followed, NEW o \in Operators, pc[o] # "idle", pc[o] \notin Switching
  PROVE  proxy = conf
  BY DEF PlaceInv, Alone, Followed, Switching

LEMMA StepFollowed ==
  ASSUME TypeInv, PlaceInv, Followed, Calm, NEW o \in Operators, Step(o)
  PROVE  Followed'
<1>1. CASE pc[o] \notin {"install", "test", "reload"}
  <2>1. UNCHANGED <<conf, proxy>> /\ Moves(o) /\ pc[o] # "idle" /\ pc'[o] \notin Switching
    BY <1>1, StepOutside
  <2>2. proxy = conf
    BY <1>1, <2>1, OutsideFollowed DEF Switching
  <2>3. \A p \in Operators \ {o} : pc'[p] = "idle"
    BY <2>1 DEF PlaceInv, Alone, Moves
  <2> QED
    BY <2>1, <2>2, <2>3 DEF Followed, Switching
<1>2. CASE Install(o)
  <2>1. pc[o] = "install" /\ proxy' = proxy /\ pc'[o] = "test"
    BY <1>2 DEF Install, ContinueWith, Goto, TypeInv, TypeOK, RunTypeOK
  <2>2. proxy = conf
    BY <2>1, OutsideFollowed DEF Switching
  <2>3. job[o].current = conf
    BY <2>1, NotFailover DEF DeployPlaced, Preparing, Restarting
  <2>4. job'[o].current = job[o].current
    BY <1>2 DEF Install, ContinueWith, TypeInv, TypeOK, RunTypeOK, Jobs
  <2>5. \A p \in Operators : pc'[p] \in Switching => p = o
    BY <1>2, OthersIdle DEF Switching
  <2> QED
    BY <2>1, <2>2, <2>3, <2>4, <2>5 DEF Followed, Switching
<1>3. CASE ConfigAccepted(o)
  <2>1. pc[o] = "test" /\ proxy' = proxy /\ pc'[o] = "reload" /\ job' = job
    BY <1>3 DEF ConfigAccepted, Continue, Goto, host, TypeInv, TypeOK, RunTypeOK
  <2>2. \A p \in Operators : pc'[p] \in Switching => p = o
    BY <1>3, OthersIdle DEF Switching
  <2> QED
    BY <2>1, <2>2 DEF Followed, Switching
<1>4. CASE ConfigRejected(o)
  <2>1. pc[o] = "test" /\ conf' = Restored(o) /\ (proxy' = proxy \/ proxy' = conf')
    BY <1>4 DEF ConfigRejected
  <2>2. proxy = job[o].current
    BY <2>1 DEF Followed, Switching
  <2>3. conf' = job[o].current
    BY <2>1, NotFailover DEF DeployPlaced, Switching, Restored, Restarting
  <2>4. pc'[o] = "idle" /\ Moves(o)
    BY <1>4 DEF ConfigRejected, Exit, Moves, TypeInv, TypeOK, RunTypeOK
  <2>5. \A p \in Operators : pc'[p] \notin Switching
    BY <2>1, <2>4 DEF PlaceInv, Alone, Moves, Switching
  <2> QED
    BY <2>1, <2>2, <2>3, <2>5 DEF Followed
<1>5. CASE Reload(o)
  <2>1. pc[o] = "reload" /\ proxy' = conf /\ conf' = conf
    BY <1>5 DEF Reload
  <2>2. pc'[o] \notin Switching /\ Moves(o)
    BY <1>5 DEF Reload, Return, Exit, Continue, Goto, AfterSwitch, Moves, Switching,
                TypeInv, TypeOK, RunTypeOK
  <2>3. \A p \in Operators : pc'[p] \notin Switching
    BY <2>1, <2>2 DEF PlaceInv, Alone, Moves, Switching
  <2> QED
    BY <2>1, <2>3 DEF Followed
<1>6. CASE pc[o] \in {"install", "test", "reload"}
  BY <1>2, <1>3, <1>4, <1>5, <1>6
  DEF Step, Calm, ReadLive, CheckLedger, ReadPast, PickPrevious, InspectActive, InspectImage,
      ReadActive, ReadInactive, Pull, RemoveStale, Create, CreateFails, GatePass, GateMiss,
      GateUnhealthy, GateLost, Teardown, StillLive, ReloadFails, Drain, RecordLastGood,
      LedgerError, ReadHistory, WriteHistory
<1> QED
  BY <1>1, <1>6

LEMMA BreakOffOutside ==
  ASSUME TypeInv, Calm, NEW o \in Operators, BreakOff(o)
  PROVE  /\ UNCHANGED <<host, ledger>> /\ Moves(o) /\ pc'[o] = "idle"
         /\ pc[o] # "idle" /\ pc[o] \notin Switching
  BY DEF BreakOff, S3Raises, SshFails, Killed, S3Reads, RemoteSteps, MayBreakOff, Calm,
         Exit, Moves, Switching, TypeInv, TypeOK, RunTypeOK

LEMMA NextFollowed ==
  ASSUME TypeInv, PlaceInv, Followed, Calm, [Next]_vars
  PROVE  Followed'
<1>1. CASE \E o \in Operators : StartRun(o)
  BY <1>1, StartedKind DEF Calm, Followed, host, Switching
<1>2. CASE \E o \in Operators : Step(o)
  BY <1>2, StepFollowed
<1>3. CASE \E o \in Operators : BreakOff(o)
  <2>1. PICK o \in Operators : BreakOff(o)
    BY <1>3
  <2>2. UNCHANGED host /\ Moves(o) /\ pc'[o] = "idle" /\ proxy = conf
    BY <2>1, BreakOffOutside, OutsideFollowed
  <2>3. \A p \in Operators : pc'[p] \notin Switching
    BY <2>1, <2>2, BreakOffOutside DEF PlaceInv, Alone, Moves, Switching
  <2> QED
    BY <2>2, <2>3 DEF Followed, host
<1>4. CASE NginxRestart
  BY <1>4 DEF NginxRestart, Calm
<1>5. CASE UNCHANGED vars
  BY <1>5 DEF vars, host, Followed
<1> QED
  BY <1>1, <1>2, <1>3, <1>4, <1>5 DEF Next

-----------------------------------------------------------------------------
(* A container that runs under the colour of nginx's file is a good build  *)

\* Whatever runs in the slot is healthy, and restarting its tag is safe.
Fit(c) ==
  c # NoColor => (slot[c].up => slot[c].ok) /\ slot[c].tag \notin BadTags

\* The file names a fit slot, so does the file a run would put back, and a
\* failover restarts a good build.
FitInv ==
  /\ Fit(conf)
  /\ \A o \in Operators :
       /\ pc[o] \in Switching /\ job[o].backup => Fit(bak)
       /\ job[o].kind = "failover" /\ pc[o] \in {"pull", "remove", "create"}
            => job[o].tag \notin BadTags

LEMMA NoTagIsGood == NoTag \notin BadTags
  BY TagsAssumption

\* What a failover puts under the colour of the file.
LEMMA RestartFits ==
  ASSUME TypeInv, PlaceInv, FitInv, NEW o \in Operators, job[o].kind = "failover",
         RemoveStale(o) \/ Create(o) \/ CreateFails(o)
  PROVE  Fit(conf)' /\ conf' = conf
<1>1. /\ conf' = conf /\ job[o].target = conf /\ job[o].tag \notin BadTags
      /\ job[o].target \in Colors
  BY DEF RemoveStale, Create, CreateFails, PlaceInv, Placed, FailoverPlaced, FitInv,
     TypeInv, Chosen, SlotLabels
<1>2. \/ slot' = slot \/ SetSlot(conf, Vacant) \/ SetSlot(conf, NewContainer(o))
      \/ SetSlot(conf, [NewContainer(o) EXCEPT !.up = FALSE])
  BY <1>1 DEF RemoveStale, Create, CreateFails
<1>3. \A v : SetSlot(conf, v) => slot'[conf] = v
  BY <1>1 DEF SetSlot, TypeInv, TypeOK, HostTypeOK
<1>4. NewContainer(o).ok /\ NewContainer(o).tag = job[o].tag
  BY <1>1 DEF NewContainer, Broken
<1>5. /\ ~[NewContainer(o) EXCEPT !.up = FALSE].up
      /\ [NewContainer(o) EXCEPT !.up = FALSE].tag = job[o].tag
  BY DEF NewContainer
<1>6. CASE slot' = slot
  BY <1>1, <1>6 DEF FitInv, Fit
<1>7. CASE slot'[conf] \in {Vacant, NewContainer(o), [NewContainer(o) EXCEPT !.up = FALSE]}
  <2>1. CASE slot'[conf] = Vacant
    BY <1>1, <2>1, NoTagIsGood DEF Fit, Vacant
  <2>2. CASE slot'[conf] = NewContainer(o)
    BY <1>1, <1>4, <2>2 DEF Fit
  <2>3. CASE slot'[conf] = [NewContainer(o) EXCEPT !.up = FALSE]
    BY <1>1, <1>5, <2>3 DEF Fit
  <2> QED
    BY <1>7, <2>1, <2>2, <2>3
<1> QED
  BY <1>1, <1>2, <1>3, <1>6, <1>7

\* A failover that is under way has the tag it found under the file's colour.
LEMMA RestartTag ==
  ASSUME TypeInv, PlaceInv, FitInv, NEW o \in Operators, Step(o),
         job'[o].kind = "failover", pc'[o] \in {"pull", "remove", "create"}
  PROVE  job'[o].tag \notin BadTags
<1>1. job[o].kind = "failover"
  BY StepKind
<1>2. pc[o] \in Restarting /\ FailoverPlaced(o) /\ job[o] \in Jobs
  BY <1>1 DEF PlaceInv, Placed, FailoverPlaced, TypeInv, TypeOK, RunTypeOK
<1>3. ~\E code : Exit(o, code)
  BY DEF Exit, TypeInv, TypeOK, RunTypeOK
<1>4. CASE InspectImage(o)
  <2>1. job'[o] = [job[o] EXCEPT !.tag = slot[job[o].current].tag]
        /\ pc[o] = "fo_inspect"
    BY <1>3, <1>4 DEF InspectImage, ContinueWith, TypeInv, TypeOK, RunTypeOK
  <2>2. job'[o].tag = slot[conf].tag /\ conf \in Colors
    BY <1>2, <2>1 DEF FailoverPlaced, Jobs, TypeInv, Chosen
  <2> QED
    BY <2>2 DEF FitInv, Fit, Colors, NoColor
<1>5. CASE Pull(o) \/ RemoveStale(o)
  <2>1. job' = job /\ pc[o] \in {"pull", "remove"}
    BY <1>3, <1>5 DEF Pull, RemoveStale, ScriptFailed, Continue
  <2> QED
    BY <1>1, <2>1 DEF FitInv
<1>6. CASE InspectActive(o)
  BY <1>3, <1>6 DEF InspectActive, ContinueWith, Goto, TypeInv, TypeOK, RunTypeOK
<1>7. CASE Create(o) \/ CreateFails(o)
  BY <1>1, <1>3, <1>7 DEF Create, CreateFails, ScriptFailed
<1>8. CASE ~(InspectImage(o) \/ Pull(o) \/ RemoveStale(o) \/ InspectActive(o) \/ Create(o)
             \/ CreateFails(o))
  <2>1. pc[o] \notin Restarting
    BY <1>8 DEF Step, ReadLive, CheckLedger, ReadPast, PickPrevious, ReadActive,
       ReadInactive, GatePass, GateMiss, GateUnhealthy, GateLost, Teardown, StillLive,
       Install, ConfigAccepted, ConfigRejected, Reload, ReloadFails, Drain,
       RecordLastGood, LedgerError, ReadHistory, WriteHistory, Restarting
  <2> QED
    BY <1>2, <2>1
<1> QED
  BY <1>4, <1>5, <1>6, <1>7, <1>8

LEMMA StepFit ==
  ASSUME TypeInv, SoundInv, PlaceInv, FitInv, NEW o \in Operators, Step(o)
  PROVE  FitInv'
<1>1. \A p \in Operators \ {o} : pc'[p] \notin Switching \cup {"pull", "remove", "create"}
  BY OthersIdle DEF Switching
<1>2. job'[o].kind = "failover" /\ pc'[o] \in {"pull", "remove", "create"}
        => job'[o].tag \notin BadTags
  BY RestartTag
<1>3. conf \in Colors \cup {NoColor}
  BY DEF TypeInv, TypeOK, HostTypeOK
<1>4. CASE /\ UNCHANGED <<conf, bak>>
           /\ conf \in Colors => slot'[conf] = slot[conf]
           /\ pc'[o] \in Switching => ConfigAccepted(o)
  <2>1. Fit(conf)'
    BY <1>3, <1>4 DEF FitInv, Fit
  <2>2. ConfigAccepted(o) => pc[o] \in Switching /\ slot' = slot /\ job' = job
    BY DEF ConfigAccepted, Continue, host, Switching
  <2>3. pc'[o] \in Switching /\ job'[o].backup => Fit(bak)'
    BY <1>4, <2>2 DEF FitInv, Fit
  <2> QED
    BY <1>1, <1>2, <2>1, <2>3 DEF FitInv
<1>5. CASE Install(o)
  <2>1. /\ slot' = slot /\ conf' = job[o].target /\ Serving(conf')
        /\ job'[o].backup => conf # NoColor /\ bak' = conf
        /\ pc[o] = "install"
    BY <1>5, StepInstalls
  <2>2. job[o].target \in Colors
    BY <2>1 DEF TypeInv, Chosen, SlotLabels
  <2>3. Fit(conf)'
    BY <2>1, <2>2 DEF Fit, Serving, SoundInv, SlotsSound
  <2>4. job'[o].backup => Fit(bak)'
    BY <2>1 DEF FitInv, Fit
  <2> QED
    BY <1>1, <1>2, <2>3, <2>4 DEF FitInv
<1>6. CASE ConfigRejected(o)
  <2>1. /\ pc[o] \in Switching /\ pc'[o] = "idle" /\ slot' = slot
        /\ conf' = Restored(o)
    BY <1>6 DEF ConfigRejected, Exit, Switching, TypeInv, TypeOK, RunTypeOK
  <2>2. Fit(conf)'
    BY <2>1 DEF FitInv, Fit, Restored
  <2> QED
    BY <1>1, <2>1, <2>2 DEF FitInv, Switching
<1>7. CASE (RemoveStale(o) \/ Create(o) \/ CreateFails(o)) /\ job[o].kind = "failover"
  <2>1. Fit(conf)'
    BY <1>7, RestartFits
  <2>2. pc'[o] \notin Switching
    BY <1>7 DEF RemoveStale, Create, CreateFails, ScriptFailed, Exit, Continue, Goto,
       Switching, TypeInv, TypeOK, RunTypeOK
  <2> QED
    BY <1>1, <1>2, <2>1, <2>2 DEF FitInv
<1> QED
  BY <1>4, <1>5, <1>6, <1>7, StepTouches

LEMMA NextFit ==
  ASSUME TypeInv, SoundInv, PlaceInv, FitInv, Exclusive, [Next]_vars
  PROVE  FitInv'
<1>1. ASSUME NEW o \in Operators, StartRun(o) PROVE FitInv'
  <2>1. /\ UNCHANGED host
        /\ \A p \in Operators : pc'[p] \notin Switching \cup {"pull", "remove", "create"}
    BY <1>1, StartedKind DEF StartRun, StartDeploy, StartRollback, StartFailover, Start,
       Goto, TypeInv, TypeOK, RunTypeOK
  <2> QED
    BY <2>1 DEF FitInv, Fit, host
<1>2. ASSUME NEW o \in Operators, Step(o) PROVE FitInv'
  BY <1>2, StepFit
<1>3. ASSUME NEW o \in Operators, BreakOff(o) PROVE FitInv'
  <2>1. UNCHANGED host /\ \A p \in Operators : pc'[p] = "idle"
    BY <1>3, BrokenOffHost, OthersIdle
  <2> QED
    BY <2>1 DEF FitInv, Fit, host, Switching
<1>4. CASE NginxRestart \/ UNCHANGED vars
  BY <1>4 DEF NginxRestart, vars, host, FitInv, Fit
<1> QED
  BY <1>1, <1>2, <1>3, <1>4 DEF Next

LEMMA InitFit == Init => FitInv
  BY DEF Init, FitInv, Fit, NoJob, Switching

\* What holds of every behaviour in which nothing breaks the switch.
CalmInv == TypeInv /\ SoundInv /\ PlaceInv /\ Followed /\ FitInv

LEMMA InitCalm == Init => CalmInv
<1>1. Init => Followed
  BY DEF Init, Followed, Switching
<1> QED
  BY <1>1, InitTypeInv, InitSound, InitPlaced, InitFit DEF CalmInv

LEMMA NextCalm == Calm => (CalmInv /\ [Next]_vars => CalmInv')
  BY NextTypeInv, NextSound, NextPlaced, NextFollowed, NextFit DEF Calm, CalmInv

\* What nginx serves is what its file names, or what the file of a run in
\* between would go back to.
LEMMA ServedColour ==
  ASSUME TypeInv, PlaceInv, Followed, proxy # NoColor
  PROVE  \/ proxy = conf
         \/ \E o \in Operators : pc[o] \in Switching /\ job[o].backup /\ bak = proxy
<1>1. ASSUME NEW o \in Operators, pc[o] \in Switching PROVE job[o].backup /\ bak = proxy
  BY <1>1, NotFailover DEF Followed, DeployPlaced, Switching, Restarting
<1> QED
  BY <1>1 DEF Followed

\* When runs do not overlap and none is cut short between nginx's file and its
\* reload, no user meets a build that fails its health check - failovers, which
\* restart the live container, included.
THEOREM UsersMeetGoodBuilds == Calm => (Spec => []LiveBuildIsGood)
<1> SUFFICES ASSUME Calm PROVE Spec => []LiveBuildIsGood
  OBVIOUS
<1>1. CalmInv /\ [Next]_vars => CalmInv'
  BY NextCalm
<1>2. CalmInv => LiveBuildIsGood
  BY ServedColour DEF CalmInv, FitInv, Fit, LiveBuildIsGood
<1> QED
  BY InitCalm, <1>1, <1>2, PTL DEF Spec

CleanInv == CalmInv /\ ServeInv

LEMMA InitClean == Init => CleanInv
  BY InitCalm, InitServes DEF CleanInv

LEMMA NextClean == Clean => (CleanInv /\ [Next]_vars => CleanInv')
  BY NextCalm, NextServes DEF Clean, Orderly, Calm, CleanInv, CalmInv

\* When moreover none is a failover, users are answered by a healthy container
\* at every step, from the first deploy on.
THEOREM UsersAreServed == Clean => (Spec => []TrafficServed)
<1> SUFFICES ASSUME Clean PROVE Spec => []TrafficServed
  OBVIOUS
<1>1. CleanInv /\ [Next]_vars => CleanInv'
  BY NextClean
<1>2. CleanInv => TrafficServed
  BY ServedColour DEF CleanInv, CalmInv, ServeInv, ConfServes, TrafficServed
<1> QED
  BY InitClean, <1>1, <1>2, PTL DEF Spec

-----------------------------------------------------------------------------
(* The pipeline implements TrafficGate *)

LEMMA SameVersion ==
  ASSUME proxy' = proxy, proxy \in Colors => slot'[proxy] = slot[proxy]
  PROVE  VersionServed' = VersionServed
  BY DEF VersionServed, Serving

\* The container in the slot a preparing run works in, or the one a run
\* drains, is not the one users reach - unless the run is a failover.
LEMMA WorkIsElsewhere ==
  ASSUME CalmInv, NEW o \in Operators, job[o].kind # "failover",
         \/ pc[o] \in Preparing /\ \E v : SetSlot(job[o].target, v)
         \/ pc[o] = "drain" /\ \E v : SetSlot(job[o].current, v)
  PROVE  proxy \in Colors => slot'[proxy] = slot[proxy]
<1>1. proxy = conf
  BY OutsideFollowed DEF CalmInv, Preparing, Switching
<1>2. CASE pc[o] \in Preparing /\ \E v : SetSlot(job[o].target, v)
  <2>1. job[o].target # conf
    BY <1>2 DEF CalmInv, PlaceInv, Placed, DeployPlaced, InactiveColor
  <2> QED
    BY <1>1, <1>2, <2>1 DEF SetSlot, CalmInv, TypeInv, TypeOK, HostTypeOK
<1>3. CASE pc[o] = "drain" /\ \E v : SetSlot(job[o].current, v)
  <2>1. job[o].current # conf
    BY <1>3 DEF CalmInv, PlaceInv, Placed, DeployPlaced, Switched
  <2> QED
    BY <1>1, <1>3, <2>1 DEF SetSlot, CalmInv, TypeInv, TypeOK, HostTypeOK
<1> QED
  BY <1>2, <1>3

\* After the switch users are answered with the run's version, a good one.
LEMMA SwitchedVersion ==
  ASSUME CalmInv, NEW o \in Operators, pc[o] = "last_good"
  PROVE  VersionServed = job[o].tag /\ job[o].tag # NoTag
<1>1. proxy = conf /\ conf = job[o].target /\ job[o].target \in Colors
  BY OutsideFollowed, NotFailover
  DEF CalmInv, DeployPlaced, Restarting, Switching, Switched, TypeInv, Chosen, SlotLabels
<1>2. Serving(job[o].target) /\ slot[job[o].target].tag = job[o].tag /\ job[o].tag \in Tags
  BY NotFailover DEF CalmInv, DeployPlaced, Restarting, Switched, TypeInv, Chosen, SlotLabels
<1> QED
  BY <1>1, <1>2, TagsAssumption DEF VersionServed

\* Each step of a run is a promotion, a record of it, or invisible.
LEMMA StepImplementsGate ==
  ASSUME CleanInv, Clean, NEW o \in Operators, Step(o)
  PROVE  [Gate!Next]_<<VersionServed, lastGood>>
<1>0. CalmInv /\ job[o].kind # "failover" /\ DeployPlaced(o)
  BY DEF CleanInv, CalmInv, ServeInv, PlaceInv, Placed
<1>1. CASE \/ ReadLive(o) \/ CheckLedger(o) \/ ReadPast(o) \/ PickPrevious(o)
           \/ InspectActive(o) \/ InspectImage(o) \/ ReadActive(o) \/ ReadInactive(o)
           \/ Pull(o) \/ GatePass(o)
  <2>1. UNCHANGED <<proxy, slot, lastGood>>
    BY <1>1 DEF ReadLive, CheckLedger, ReadPast, PickPrevious, InspectActive, InspectImage, ReadActive, ReadInactive, Pull, GatePass,
              host, ledger
  <2> QED
    BY <2>1, SameVersion
<1>2. CASE \/ GateMiss(o) \/ GateUnhealthy(o) \/ GateLost(o) \/ StillLive(o)
           \/ Install(o) \/ ConfigAccepted(o) \/ ReloadFails(o) \/ ReadHistory(o)
           \/ WriteHistory(o)
  <2>1. UNCHANGED <<proxy, slot, lastGood>>
    BY <1>2 DEF GateMiss, GateUnhealthy, GateLost, StillLive, Install, ConfigAccepted, ReloadFails, ReadHistory, WriteHistory,
              host, ledger
  <2> QED
    BY <2>1, SameVersion
<1>3. CASE RemoveStale(o)
  <2>1. proxy' = proxy /\ lastGood' = lastGood
    BY <1>3 DEF RemoveStale, ledger
  <2>2. proxy \in Colors => slot'[proxy] = slot[proxy]
    BY <1>3, <1>0, WorkIsElsewhere DEF RemoveStale, Stop, Preparing
  <2> QED
    BY <2>1, <2>2, SameVersion
<1>4. CASE Create(o)
  <2>1. proxy' = proxy /\ lastGood' = lastGood
    BY <1>4 DEF Create, ledger
  <2>2. proxy \in Colors => slot'[proxy] = slot[proxy]
    BY <1>4, <1>0, WorkIsElsewhere DEF Create, Stop, Preparing
  <2> QED
    BY <2>1, <2>2, SameVersion
<1>5. CASE CreateFails(o)
  <2>1. proxy' = proxy /\ lastGood' = lastGood
    BY <1>5 DEF CreateFails, ledger
  <2>2. proxy \in Colors => slot'[proxy] = slot[proxy]
    BY <1>5, <1>0, WorkIsElsewhere DEF CreateFails, Stop, Preparing
  <2> QED
    BY <2>1, <2>2, SameVersion
<1>6. CASE Teardown(o)
  <2>1. proxy' = proxy /\ lastGood' = lastGood
    BY <1>6 DEF Teardown, ledger
  <2>2. proxy \in Colors => slot'[proxy] = slot[proxy]
    BY <1>6, <1>0, WorkIsElsewhere DEF Teardown, Stop, Preparing
  <2> QED
    BY <2>1, <2>2, SameVersion
<1>7. CASE Drain(o)
  <2>1. proxy' = proxy /\ lastGood' = lastGood
    BY <1>7 DEF Drain, ledger
  <2>2. proxy \in Colors => slot'[proxy] = slot[proxy]
    BY <1>7, <1>0, WorkIsElsewhere DEF Drain, Stop, Preparing
  <2> QED
    BY <2>1, <2>2, SameVersion
<1>8. CASE ConfigRejected(o)
  <2>1. pc[o] = "test" /\ conf' = Restored(o) /\ (proxy' = proxy \/ (job[o].backup /\ proxy' = conf'))
        /\ slot' = slot /\ lastGood' = lastGood
    BY <1>8 DEF ConfigRejected, ledger
  <2>2. proxy = job[o].current
    BY <1>0, <2>1 DEF CalmInv, Followed, Switching
  <2>3. conf' = job[o].current
    BY <1>0, <2>1 DEF DeployPlaced, Switching, Restored
  <2> QED
    BY <2>1, <2>2, <2>3, SameVersion
<1>9. CASE Reload(o)
  <2>1. pc[o] = "reload" /\ proxy' = conf /\ slot' = slot /\ lastGood' = lastGood
    BY <1>9 DEF Reload, ledger
  <2>2. conf = job[o].target /\ conf \in Colors /\ Serving(conf)
        /\ slot[conf].tag = job[o].tag /\ job[o].tag \in Tags
    BY <1>0, <2>1 DEF CalmInv, DeployPlaced, Switching, TypeInv, Chosen, SlotLabels
  <2>3. job[o].tag \notin BadTags
    BY <1>0, <2>2 DEF CalmInv, SoundInv, SlotsSound, Serving
  <2>4. VersionServed' = job[o].tag
    BY <2>1, <2>2 DEF VersionServed, Serving
  <2> QED
    BY <2>1, <2>2, <2>3, <2>4 DEF Gate!Next, Gate!Promote
<1>10. CASE RecordLastGood(o)
  <2>1. pc[o] = "last_good" /\ proxy' = proxy /\ slot' = slot
        /\ lastGood' \in {lastGood, job[o].tag}
    BY <1>10 DEF RecordLastGood, host
  <2>2. VersionServed' = VersionServed
    BY <2>1, SameVersion
  <2>3. VersionServed = job[o].tag /\ job[o].tag # NoTag
    BY <2>1, <1>0, SwitchedVersion
  <2> QED
    BY <2>1, <2>2, <2>3 DEF Gate!Next, Gate!Record
<1>11. CASE LedgerError(o)
  <2>1. pc[o] = "last_good" /\ proxy' = proxy /\ slot' = slot
        /\ lastGood' \in {lastGood, job[o].tag}
    BY <1>11 DEF LedgerError, host
  <2>2. VersionServed' = VersionServed
    BY <2>1, SameVersion
  <2>3. VersionServed = job[o].tag /\ job[o].tag # NoTag
    BY <2>1, <1>0, SwitchedVersion
  <2> QED
    BY <2>1, <2>2, <2>3 DEF Gate!Next, Gate!Record
<1> QED
  BY <1>1, <1>2, <1>3, <1>4, <1>5, <1>6, <1>7, <1>8, <1>9, <1>10, <1>11 DEF Step

LEMMA NextImplementsGate ==
  ASSUME CleanInv, Clean, [Next]_vars
  PROVE  [Gate!Next]_<<VersionServed, lastGood>>
<1>1. CASE \E o \in Operators : StartRun(o)
  BY <1>1, StartedKind, SameVersion DEF Clean, Orderly, CleanInv, CalmInv, host, ledger
<1>2. CASE \E o \in Operators : Step(o)
  BY <1>2, StepImplementsGate
<1>3. CASE \E o \in Operators : BreakOff(o)
  BY <1>3, BrokenOffHost, SameVersion DEF CleanInv, CalmInv, host, ledger
<1>4. CASE NginxRestart
  BY <1>4 DEF NginxRestart, Clean
<1>5. CASE UNCHANGED vars
  BY <1>5, SameVersion DEF vars, host, ledger
<1> QED
  BY <1>1, <1>2, <1>3, <1>4, <1>5 DEF Next

\* Under the same conditions the whole pipeline is the abstract gate: the
\* version users see changes only to a good one and never goes away, and
\* last-good.json only ever records the version users see at that moment.
THEOREM ImplementsGate == Clean => (Spec => GateSpec)
<1> SUFFICES ASSUME Clean PROVE Spec => GateSpec
  OBVIOUS
<1>1. Init => Gate!Init
  BY DEF Init, Gate!Init, VersionServed, Colors, NoColor
<1>2. CleanInv /\ [Next]_vars => CleanInv'
  BY NextClean
<1>3. CleanInv /\ [Next]_vars => [Gate!Next]_<<VersionServed, lastGood>>
  BY NextImplementsGate
<1> QED
  BY InitClean, <1>1, <1>2, <1>3, PTL DEF Spec, GateSpec, Gate!Spec
=============================================================================
