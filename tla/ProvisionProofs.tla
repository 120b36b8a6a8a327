-------------------------- MODULE ProvisionProofs --------------------------
(***************************************************************************)
(* Theorems about Provision, for every number of scripts, whatever is done *)
(* in the console and wherever a script broke off: what it leaves behind   *)
(* is enough for the next one.  Of the local key file they say that it is  *)
(* there and that it is left alone, not that it fits (KeyFileFits).        *)
(***************************************************************************)
EXTENDS Provision, FiniteSetTheorems, TLAPS

-----------------------------------------------------------------------------
(* The invariant, by how far the running script has come *)

ProvisionLabels ==
  {"made", "versioned", "private", "pruned", "tagged", "role", "policy", "profile",
   "attached", "key", "pem", "group", "ssh", "http", "launch", "wait", "outputs"}
TeardownLabels ==
  {"load", "terminate", "gone", "del_group", "del_key", "del_pem", "detach",
   "del_profile", "del_policy", "del_role", "data", "unlink"}

\* The script that runs, and its status.
Control ==
  /\ pc = "idle" => job = NoJob
  /\ pc # "idle" => exit = "none"
  /\ pc \in ProvisionLabels => job.script = "provision"
  /\ pc \in TeardownLabels => job.script = "teardown"

\* What provision.py has made so far, in this run or an earlier one.
BucketMade ==
  /\ pc \in ProvisionLabels \ {"made"} => "made" \in bucket
  /\ pc \in ProvisionLabels \ {"made", "versioned"} => "versioned" \in bucket
  /\ pc \in ProvisionLabels \ {"made", "versioned", "private"} => "private" \in bucket
  /\ pc \in ProvisionLabels \ {"made", "versioned", "private", "pruned"} => "pruned" \in bucket
  /\ pc \in {"role", "policy", "profile", "attached", "key", "pem", "group", "ssh", "http",
             "launch", "wait", "outputs"} => "tagged" \in bucket

IamMade ==
  /\ pc \in {"policy", "profile", "attached"} => "role" \in iam
  /\ pc \in {"profile", "attached"} => "policy" \in iam
  /\ pc = "attached" => "profile" \in iam
  /\ pc \in {"key", "pem", "group", "ssh", "http", "launch", "wait", "outputs"} => iam = IamParts

KeyMade ==
  /\ pc \in {"pem", "group", "ssh", "http", "launch", "wait", "outputs"} => keypair # Nothing
  /\ pc \in {"group", "ssh", "http", "launch", "wait", "outputs"} => pem # Nothing

\* The private half of a new key pair is written before anything is launched.
KeyNew == pc = "pem" => \A n \in Numbers : instance[n].state \notin Alive

GroupMade ==
  /\ pc \in {"ssh", "http", "launch", "wait", "outputs"} => group # Nothing
  /\ pc = "http" => "ssh" \in rules
  /\ pc \in {"launch", "wait", "outputs"} => rules = Rules

InstanceMade ==
  pc = "wait" \/ (pc = "outputs" /\ job.launch) =>
    \E n \in Numbers : job.awaited = {n} /\ instance[n].state \in Alive

\* What teardown.py has unmade so far; `data` and `unlink` are also reached
\* without --all.
Unmade(labels) == pc \in labels \/ (pc \in {"data", "unlink"} /\ job.all)

InstancesGone ==
  pc \in TeardownLabels \ {"load", "terminate"} =>
    \A n \in Numbers : instance[n].state \notin Alive

GroupGone ==
  /\ pc \in TeardownLabels \ {"load"} => job.group = outputs.group
  /\ Unmade({"del_key", "del_pem", "detach", "del_profile", "del_policy", "del_role"})
       => group # outputs.group \/ group = Nothing

KeyGone ==
  /\ Unmade({"del_pem", "detach", "del_profile", "del_policy", "del_role"})
       => keypair = Nothing
  /\ Unmade({"detach", "del_profile", "del_policy", "del_role"}) => pem = Nothing

IamGone ==
  /\ Unmade({"del_profile", "del_policy", "del_role"}) => "attached" \notin iam
  /\ Unmade({"del_policy", "del_role"}) => "profile" \notin iam
  /\ Unmade({"del_role"}) => "policy" \notin iam
  /\ Unmade({}) => "role" \notin iam

\* An instance that runs, or can be started again, has what it needs.
Equipped ==
  \A n \in Numbers : instance[n].state \in Alive =>
    /\ instance[n].key = keypair /\ keypair # Nothing /\ pem # Nothing
    /\ instance[n].group = group /\ group # Nothing
    /\ rules = Rules /\ iam = IamParts

Up(n) == instance[n].state \in {"pending", "running"} /\ ~instance[n].halted

OneUp ==
  /\ \A n \in Numbers : instance[n].state = "stopped" => instance[n].halted
  /\ \A m, n \in Numbers : Up(m) /\ Up(n) => m = n

Inv ==
  /\ TypeOK /\ Control
  /\ BucketMade /\ IamMade /\ KeyMade /\ KeyNew /\ GroupMade /\ InstanceMade
  /\ InstancesGone /\ GroupGone /\ KeyGone /\ IamGone
  /\ Equipped /\ OneUp

-----------------------------------------------------------------------------
(* Each part is kept *)

LEMMA RunTyped ==
  ASSUME TypeOK, pc # "idle"
  PROVE  runs \in Numbers /\ runs # Nothing
  BY ProvisionAssumption DEF TypeOK, Numbers, Nothing

LEMMA InstanceTyped ==
  ASSUME TypeOK
  PROVE  instance \in [Numbers -> [state : States, key : 0..MaxRuns, group : 0..MaxRuns,
                                   halted : BOOLEAN]]
  BY DEF TypeOK, Instances

\* A script that goes on keeps what it was called with.
LEMMA JobStays ==
  ASSUME TypeOK, ProvisionStep \/ TeardownStep, pc' # "idle"
  PROVE  /\ job'.script = job.script /\ job'.launch = job.launch /\ job'.all = job.all
         /\ pc # "load" => job'.group = job.group
<1>1. job \in Jobs
  BY DEF TypeOK
<1>2. ASSUME NEW S, job' = [job EXCEPT !.awaited = S]
      PROVE  /\ job'.script = job.script /\ job'.launch = job.launch
             /\ job'.all = job.all /\ job'.group = job.group
  BY <1>1, <1>2 DEF Jobs
<1>3. ASSUME NEW g, job' = [job EXCEPT !.group = g]
      PROVE  job'.script = job.script /\ job'.launch = job.launch /\ job'.all = job.all
  BY <1>1, <1>3 DEF Jobs
<1>4. ASSUME NEW a, job' = [job EXCEPT !.attempt = a]
      PROVE  /\ job'.script = job.script /\ job'.launch = job.launch
             /\ job'.all = job.all /\ job'.group = job.group
  BY <1>1, <1>4 DEF Jobs
<1>5. CASE ProvisionStep
  <2>1. job' = job \/ (pc = "launch" /\ \E S : job' = [job EXCEPT !.awaited = S])
    BY <1>5 DEF ProvisionStep, EnsureBucket, EnsureIam, EnsureKey, WriteKey,
       EnsureGroup, EnsureRule, Skip, AlreadyRunning, Launch, WaitRunning, WriteOutputs,
       Goto, GotoWith, Exit
  <2> QED
    BY <1>2, <2>1
<1>6. CASE TeardownStep
  <2>1. \/ job' = job
        \/ pc = "load" /\ \E g : job' = [job EXCEPT !.group = g]
        \/ \E S : job' = [job EXCEPT !.awaited = S]
        \/ \E a : job' = [job EXCEPT !.attempt = a]
    BY <1>6 DEF TeardownStep, LoadOutputs, Terminate, WaitTerminated, DeleteGroup,
       GroupStillUsed, DeleteKey, DeleteKeyFile, DeleteIam, DeleteBucket, UnlinkOutputs,
       Goto, GotoWith, Exit
  <2> QED
    BY <1>2, <1>3, <1>4, <2>1
<1> QED
  BY <1>5, <1>6

\* Where an instance is after a step of AWS.
Moved(n, state, halted) ==
  instance'[n] = [state |-> state, key |-> instance[n].key, group |-> instance[n].group,
                  halted |-> halted]

LEMMA BecomesEffect ==
  ASSUME TypeOK, NEW before, NEW after, Becomes(before, after), NEW n \in Numbers
  PROVE  \/ instance'[n] = instance[n]
         \/ instance[n].state = before /\ Moved(n, after, instance[n].halted)
  BY InstanceTyped DEF Becomes, InState, Moved

LEMMA StopEffect ==
  ASSUME TypeOK, IsStopped, NEW n \in Numbers
  PROVE  \/ instance'[n] = instance[n]
         \/ instance[n].state = "running" /\ Moved(n, "stopped", TRUE)
<1> PICK m \in InState({"running"}) :
           instance' = [instance EXCEPT ![m].state = "stopped", ![m].halted = TRUE]
  BY DEF IsStopped
<1>1. instance[m] \in [state : States, key : 0..MaxRuns, group : 0..MaxRuns, halted : BOOLEAN]
  BY InstanceTyped DEF InState
<1>2. instance'[m] = [[instance[m] EXCEPT !.state = "stopped"] EXCEPT !.halted = TRUE]
  BY InstanceTyped DEF InState
<1>3. CASE n = m
  <2>1. instance[m].state = "running"
    BY DEF InState
  <2>2. instance'[m] = [state |-> "stopped", key |-> instance[m].key,
                        group |-> instance[m].group, halted |-> TRUE]
    BY <1>1, <1>2
  <2> QED
    BY <1>3, <2>1, <2>2 DEF Moved
<1>4. CASE n # m
  BY <1>4, InstanceTyped DEF InState
<1> QED
  BY <1>3, <1>4

\* AWS leaves an instance alone, or moves it to a state that goes with its old one.
LEMMA AwsEffect ==
  ASSUME TypeOK, OneUp, AwsStep, NEW n \in Numbers
  PROVE  \/ instance'[n] = instance[n]
         \/ \E state \in States, halted \in BOOLEAN :
              /\ Moved(n, state, halted)
              /\ state \in Alive <=> instance[n].state \in Alive
              /\ state = "stopped" => halted
              /\ state \in {"pending", "running"} /\ ~halted => Up(n)
<1>1. instance[n].state = "stopped" => instance[n].halted
  BY DEF OneUp
<1>2. instance[n].halted \in BOOLEAN
  BY InstanceTyped
<1>3. CASE Boots
  BY <1>2, <1>3, BecomesEffect DEF Boots, States, Alive, Up
<1>4. CASE ShutsDown
  BY <1>2, <1>4, BecomesEffect DEF ShutsDown, States, Alive
<1>5. CASE IsStopped
  BY <1>5, StopEffect DEF States, Alive
<1>6. CASE IsStarted
  BY <1>1, <1>2, <1>6, BecomesEffect DEF IsStarted, States, Alive
<1>7. CASE KeyDeleted
  BY <1>7 DEF KeyDeleted
<1> QED
  BY <1>3, <1>4, <1>5, <1>6, <1>7 DEF AwsStep

LEMMA AwsKeeps ==
  ASSUME TypeOK, OneUp, AwsStep, NEW n \in Numbers
  PROVE  /\ instance'[n].key = instance[n].key /\ instance'[n].group = instance[n].group
         /\ instance'[n].state \in Alive <=> instance[n].state \in Alive
         /\ instance'[n].state = "stopped" => instance'[n].halted
         /\ instance'[n].state \in {"pending", "running"} /\ ~instance'[n].halted => Up(n)
<1>1. CASE instance'[n] = instance[n]
  BY <1>1 DEF OneUp, Up
<1>2. ASSUME NEW state, NEW halted, Moved(n, state, halted),
             state \in Alive <=> instance[n].state \in Alive,
             state = "stopped" => halted,
             state \in {"pending", "running"} /\ ~halted => Up(n)
      PROVE  /\ instance'[n].key = instance[n].key /\ instance'[n].group = instance[n].group
             /\ instance'[n].state \in Alive <=> instance[n].state \in Alive
             /\ instance'[n].state = "stopped" => instance'[n].halted
             /\ instance'[n].state \in {"pending", "running"} /\ ~instance'[n].halted => Up(n)
  <2>1. /\ instance'[n].key = instance[n].key /\ instance'[n].group = instance[n].group
        /\ instance'[n].state = state /\ instance'[n].halted = halted
    BY <1>2 DEF Moved
  <2> QED
    BY <1>2, <2>1
<1> QED
  BY <1>1, <1>2, AwsEffect

LEMMA KeepsControl ==
  ASSUME Inv, Next
  PROVE  Control'
<1>0. TypeOK
  BY DEF Inv
<1>1. CASE StartProvision \/ StartTeardown \/ Fails
  BY <1>0, <1>1 DEF Inv, Control, ProvisionLabels, TeardownLabels, StartProvision,
     StartTeardown, Start, Fails, Exit, NoJob, cloud, files
<1>2. CASE \/ EnsureBucket("made", "versioned") \/ EnsureBucket("versioned", "private")
           \/ EnsureBucket("private", "pruned") \/ EnsureBucket("pruned", "tagged")
           \/ EnsureBucket("tagged", "role")
  BY <1>0, <1>2 DEF Inv, Control, ProvisionLabels, TeardownLabels, EnsureBucket, Goto,
     files
<1>3. CASE \/ EnsureIam("role", "policy") \/ EnsureIam("policy", "profile")
           \/ EnsureIam("profile", "attached") \/ EnsureIam("attached", "key")
  BY <1>0, <1>3 DEF Inv, Control, ProvisionLabels, TeardownLabels, EnsureIam, Goto,
     files
<1>4. CASE EnsureKey \/ WriteKey
  BY <1>0, <1>4 DEF Inv, Control, ProvisionLabels, TeardownLabels, EnsureKey, FindsKey,
     LostKey, WriteKey, Goto, Exit, NoJob, cloud, files
<1>5. CASE EnsureGroup \/ EnsureRule("ssh", "http") \/ EnsureRule("http", "launch")
  BY <1>0, <1>5 DEF Inv, Control, ProvisionLabels, TeardownLabels, EnsureGroup,
     EnsureRule, Goto, files
<1>6. CASE Skip \/ AlreadyRunning \/ Launch \/ WaitRunning
  <2>1. pc' # "idle" => /\ job'.script = job.script /\ job'.launch = job.launch
                        /\ job'.all = job.all /\ (pc # "load" => job'.group = job.group)
    BY <1>0, <1>6, JobStays DEF ProvisionStep, TeardownStep
  <2> QED
    BY <1>0, <1>6, <2>1 DEF Inv, Control, ProvisionLabels, TeardownLabels, Skip,
       AlreadyRunning, Launch, WaitRunning, Running, InState, Goto, GotoWith, Exit,
       NoJob, cloud, files
<1>7. CASE WriteOutputs \/ UnlinkOutputs \/ DeleteBucket
  BY <1>0, <1>7 DEF Inv, Control, ProvisionLabels, TeardownLabels, WriteOutputs,
     UnlinkOutputs, DeleteBucket, NoOutputs, Goto, Exit, NoJob, cloud, files
<1>8. CASE LoadOutputs \/ Terminate \/ WaitTerminated
  <2>1. pc' # "idle" => /\ job'.script = job.script /\ job'.launch = job.launch
                        /\ job'.all = job.all /\ (pc # "load" => job'.group = job.group)
    BY <1>0, <1>8, JobStays DEF ProvisionStep, TeardownStep
  <2> QED
    BY <1>0, <1>8, <2>1 DEF Inv, Control, ProvisionLabels, TeardownLabels, LoadOutputs,
       Terminate, WaitTerminated, Terminable, InState, AfterInstances, Goto, GotoWith,
       Exit, NoJob, cloud, files
<1>9. CASE DeleteGroup \/ GroupStillUsed
  <2>1. pc' # "idle" => /\ job'.script = job.script /\ job'.launch = job.launch
                        /\ job'.all = job.all /\ (pc # "load" => job'.group = job.group)
    BY <1>0, <1>9, JobStays DEF ProvisionStep, TeardownStep
  <2> QED
    BY <1>0, <1>9, <2>1 DEF Inv, Control, ProvisionLabels, TeardownLabels, DeleteGroup,
       GroupStillUsed, Goto, GotoWith, Exit, NoJob, cloud, files
<1>10. CASE DeleteKey \/ DeleteKeyFile
  BY <1>0, <1>10 DEF Inv, Control, ProvisionLabels, TeardownLabels, DeleteKey,
     DeleteKeyFile, Goto, cloud, files
<1>11. CASE \/ DeleteIam("detach", "attached", "del_profile")
           \/ DeleteIam("del_profile", "profile", "del_policy")
           \/ DeleteIam("del_policy", "policy", "del_role")
           \/ DeleteIam("del_role", "role", "data")
  BY <1>0, <1>11 DEF Inv, Control, ProvisionLabels, TeardownLabels, DeleteIam, Goto,
     files
<1>12. CASE AwsStep
  BY <1>0, <1>12 DEF Inv, Control, ProvisionLabels, TeardownLabels, AwsStep, Boots,
     ShutsDown, IsStopped, IsStarted, Becomes, InState, KeyDeleted, LostKey, files
<1> QED
  BY <1>1, <1>2, <1>3, <1>4, <1>5, <1>6, <1>7, <1>8, <1>9, <1>10, <1>11, <1>12 DEF Next,
     ProvisionStep, TeardownStep


LEMMA KeepsBucketMade ==
  ASSUME Inv, Next
  PROVE  BucketMade'
<1>0. TypeOK
  BY DEF Inv
<1>1. CASE StartProvision \/ StartTeardown \/ Fails
  BY <1>0, <1>1 DEF Inv, BucketMade, ProvisionLabels, StartProvision, StartTeardown,
     Start, Fails, Exit, NoJob, cloud, files
<1>2. CASE \/ EnsureBucket("made", "versioned") \/ EnsureBucket("versioned", "private")
           \/ EnsureBucket("private", "pruned") \/ EnsureBucket("pruned", "tagged")
           \/ EnsureBucket("tagged", "role")
  BY <1>0, <1>2 DEF Inv, BucketMade, ProvisionLabels, EnsureBucket, Goto, files
<1>3. CASE \/ EnsureIam("role", "policy") \/ EnsureIam("policy", "profile")
           \/ EnsureIam("profile", "attached") \/ EnsureIam("attached", "key")
  BY <1>0, <1>3 DEF Inv, BucketMade, ProvisionLabels, EnsureIam, Goto, files
<1>4. CASE EnsureKey \/ WriteKey
  BY <1>0, <1>4 DEF Inv, BucketMade, ProvisionLabels, EnsureKey, FindsKey, LostKey,
     WriteKey, Goto, Exit, NoJob, cloud, files
<1>5. CASE EnsureGroup \/ EnsureRule("ssh", "http") \/ EnsureRule("http", "launch")
  BY <1>0, <1>5 DEF Inv, BucketMade, ProvisionLabels, EnsureGroup, EnsureRule, Goto,
     files
<1>6. CASE Skip \/ AlreadyRunning \/ Launch \/ WaitRunning
  BY <1>0, <1>6 DEF Inv, BucketMade, ProvisionLabels, Skip, AlreadyRunning, Launch,
     WaitRunning, Running, InState, Goto, GotoWith, Exit, NoJob, cloud, files
<1>7. CASE WriteOutputs \/ UnlinkOutputs \/ DeleteBucket
  BY <1>0, <1>7 DEF Inv, BucketMade, ProvisionLabels, WriteOutputs, UnlinkOutputs,
     DeleteBucket, NoOutputs, Goto, Exit, NoJob, cloud, files
<1>8. CASE LoadOutputs \/ Terminate \/ WaitTerminated
  BY <1>0, <1>8 DEF Inv, BucketMade, ProvisionLabels, LoadOutputs, Terminate,
     WaitTerminated, Terminable, InState, AfterInstances, Goto, GotoWith, Exit, NoJob,
     cloud, files
<1>9. CASE DeleteGroup \/ GroupStillUsed
  BY <1>0, <1>9 DEF Inv, BucketMade, ProvisionLabels, DeleteGroup, GroupStillUsed, Goto,
     GotoWith, Exit, NoJob, cloud, files
<1>10. CASE DeleteKey \/ DeleteKeyFile
  BY <1>0, <1>10 DEF Inv, BucketMade, ProvisionLabels, DeleteKey, DeleteKeyFile, Goto,
     cloud, files
<1>11. CASE \/ DeleteIam("detach", "attached", "del_profile")
           \/ DeleteIam("del_profile", "profile", "del_policy")
           \/ DeleteIam("del_policy", "policy", "del_role")
           \/ DeleteIam("del_role", "role", "data")
  BY <1>0, <1>11 DEF Inv, BucketMade, ProvisionLabels, DeleteIam, Goto, files
<1>12. CASE AwsStep
  BY <1>0, <1>12 DEF Inv, BucketMade, ProvisionLabels, AwsStep, Boots, ShutsDown,
     IsStopped, IsStarted, Becomes, InState, KeyDeleted, LostKey, files
<1> QED
  BY <1>1, <1>2, <1>3, <1>4, <1>5, <1>6, <1>7, <1>8, <1>9, <1>10, <1>11, <1>12 DEF Next,
     ProvisionStep, TeardownStep


LEMMA KeepsIamMade ==
  ASSUME Inv, Next
  PROVE  IamMade'
<1>0. TypeOK
  BY DEF Inv
<1>1. CASE StartProvision \/ StartTeardown \/ Fails
  BY <1>0, <1>1 DEF Inv, IamMade, StartProvision, StartTeardown, Start, Fails, Exit,
     NoJob, cloud, files
<1>2. CASE \/ EnsureBucket("made", "versioned") \/ EnsureBucket("versioned", "private")
           \/ EnsureBucket("private", "pruned") \/ EnsureBucket("pruned", "tagged")
           \/ EnsureBucket("tagged", "role")
  BY <1>0, <1>2 DEF Inv, IamMade, EnsureBucket, Goto, files
<1>3. CASE \/ EnsureIam("role", "policy") \/ EnsureIam("policy", "profile")
           \/ EnsureIam("profile", "attached") \/ EnsureIam("attached", "key")
  BY <1>0, <1>3 DEF Inv, IamMade, TypeOK, IamParts, EnsureIam, Goto, files
<1>4. CASE EnsureKey \/ WriteKey
  BY <1>0, <1>4 DEF Inv, IamMade, EnsureKey, FindsKey, LostKey, WriteKey, Goto, Exit,
     NoJob, cloud, files
<1>5. CASE EnsureGroup \/ EnsureRule("ssh", "http") \/ EnsureRule("http", "launch")
  BY <1>0, <1>5 DEF Inv, IamMade, EnsureGroup, EnsureRule, Goto, files
<1>6. CASE Skip \/ AlreadyRunning \/ Launch \/ WaitRunning
  BY <1>0, <1>6 DEF Inv, IamMade, Skip, AlreadyRunning, Launch, WaitRunning, Running,
     InState, Goto, GotoWith, Exit, NoJob, cloud, files
<1>7. CASE WriteOutputs \/ UnlinkOutputs \/ DeleteBucket
  BY <1>0, <1>7 DEF Inv, IamMade, WriteOutputs, UnlinkOutputs, DeleteBucket, NoOutputs,
     Goto, Exit, NoJob, cloud, files
<1>8. CASE LoadOutputs \/ Terminate \/ WaitTerminated
  BY <1>0, <1>8 DEF Inv, IamMade, LoadOutputs, Terminate, WaitTerminated, Terminable,
     InState, AfterInstances, Goto, GotoWith, Exit, NoJob, cloud, files
<1>9. CASE DeleteGroup \/ GroupStillUsed
  BY <1>0, <1>9 DEF Inv, IamMade, DeleteGroup, GroupStillUsed, Goto, GotoWith, Exit,
     NoJob, cloud, files
<1>10. CASE DeleteKey \/ DeleteKeyFile
  BY <1>0, <1>10 DEF Inv, IamMade, DeleteKey, DeleteKeyFile, Goto, cloud, files
<1>11. CASE \/ DeleteIam("detach", "attached", "del_profile")
           \/ DeleteIam("del_profile", "profile", "del_policy")
           \/ DeleteIam("del_policy", "policy", "del_role")
           \/ DeleteIam("del_role", "role", "data")
  BY <1>0, <1>11 DEF Inv, IamMade, DeleteIam, Goto, files
<1>12. CASE AwsStep
  BY <1>0, <1>12 DEF Inv, IamMade, AwsStep, Boots, ShutsDown, IsStopped, IsStarted,
     Becomes, InState, KeyDeleted, LostKey, files
<1> QED
  BY <1>1, <1>2, <1>3, <1>4, <1>5, <1>6, <1>7, <1>8, <1>9, <1>10, <1>11, <1>12 DEF Next,
     ProvisionStep, TeardownStep


LEMMA KeepsKeyMade ==
  ASSUME Inv, Next
  PROVE  KeyMade'
<1>0. TypeOK
  BY DEF Inv
<1>1. CASE StartProvision \/ StartTeardown \/ Fails
  BY <1>0, <1>1 DEF Inv, KeyMade, StartProvision, StartTeardown, Start,
     Fails, Exit, NoJob, cloud, files
<1>2. CASE \/ EnsureBucket("made", "versioned") \/ EnsureBucket("versioned", "private")
           \/ EnsureBucket("private", "pruned") \/ EnsureBucket("pruned", "tagged")
           \/ EnsureBucket("tagged", "role")
  BY <1>0, <1>2 DEF Inv, KeyMade, EnsureBucket, Goto, files
<1>3. CASE \/ EnsureIam("role", "policy") \/ EnsureIam("policy", "profile")
           \/ EnsureIam("profile", "attached") \/ EnsureIam("attached", "key")
  BY <1>0, <1>3 DEF Inv, KeyMade, EnsureIam, Goto, files
<1>4. CASE EnsureKey \/ WriteKey
  BY <1>0, <1>4, RunTyped DEF Inv, KeyMade, EnsureKey, FindsKey, LostKey, WriteKey,
     Torn, Nothing, Goto, Exit, NoJob, cloud, files
<1>5. CASE EnsureGroup \/ EnsureRule("ssh", "http") \/ EnsureRule("http", "launch")
  BY <1>0, <1>5 DEF Inv, KeyMade, EnsureGroup, EnsureRule, Goto, files
<1>6. CASE Skip \/ AlreadyRunning \/ Launch \/ WaitRunning
  BY <1>0, <1>6 DEF Inv, KeyMade, Skip, AlreadyRunning, Launch, WaitRunning, Running,
     InState, Goto, GotoWith, Exit, NoJob, cloud, files
<1>7. CASE WriteOutputs \/ UnlinkOutputs \/ DeleteBucket
  BY <1>0, <1>7 DEF Inv, KeyMade, WriteOutputs, UnlinkOutputs, DeleteBucket, NoOutputs,
     Goto, Exit, NoJob, cloud, files
<1>8. CASE LoadOutputs \/ Terminate \/ WaitTerminated
  BY <1>0, <1>8 DEF Inv, KeyMade, LoadOutputs, Terminate, WaitTerminated, Terminable,
     InState, AfterInstances, Goto, GotoWith, Exit, NoJob, cloud, files
<1>9. CASE DeleteGroup \/ GroupStillUsed
  BY <1>0, <1>9 DEF Inv, KeyMade, DeleteGroup, GroupStillUsed, Goto, GotoWith, Exit,
     NoJob, cloud, files
<1>10. CASE DeleteKey \/ DeleteKeyFile
  BY <1>0, <1>10 DEF Inv, KeyMade, DeleteKey, DeleteKeyFile, Goto, cloud, files
<1>11. CASE \/ DeleteIam("detach", "attached", "del_profile")
           \/ DeleteIam("del_profile", "profile", "del_policy")
           \/ DeleteIam("del_policy", "policy", "del_role")
           \/ DeleteIam("del_role", "role", "data")
  BY <1>0, <1>11 DEF Inv, KeyMade, DeleteIam, Goto, files
<1>12. CASE AwsStep
  BY <1>0, <1>12 DEF Inv, KeyMade, AwsStep, Boots, ShutsDown, IsStopped, IsStarted,
     Becomes, InState, KeyDeleted, LostKey, files
<1> QED
  BY <1>1, <1>2, <1>3, <1>4, <1>5, <1>6, <1>7, <1>8, <1>9, <1>10, <1>11, <1>12 DEF Next,
     ProvisionStep, TeardownStep


LEMMA KeepsKeyNew ==
  ASSUME Inv, Next
  PROVE  KeyNew'
<1> SUFFICES ASSUME pc' = "pem" PROVE \A n \in Numbers : instance'[n].state \notin Alive
  BY DEF KeyNew
<1>1. CASE EnsureKey
  <2>1. keypair = Nothing /\ instance' = instance
    BY <1>1 DEF EnsureKey, Goto, Exit
  <2> QED
    BY <2>1 DEF Inv, Equipped
<1>2. CASE AwsStep
  <2>1. pc' = pc
    BY <1>2 DEF AwsStep, Boots, ShutsDown, IsStopped, IsStarted, Becomes, KeyDeleted
  <2> QED
    BY <1>2, <2>1, AwsKeeps DEF Inv, KeyNew
<1>3. CASE ~EnsureKey /\ ~AwsStep
  BY <1>3 DEF Next, StartProvision, StartTeardown, Start, Fails, ProvisionStep,
     TeardownStep, EnsureBucket, EnsureIam, WriteKey, EnsureGroup, EnsureRule, Skip,
     AlreadyRunning, Launch, WaitRunning, WriteOutputs, LoadOutputs, Terminate,
     WaitTerminated, DeleteGroup, GroupStillUsed, DeleteKey, DeleteKeyFile, DeleteIam,
     DeleteBucket, UnlinkOutputs, AfterInstances, Goto, GotoWith, Exit
<1> QED
  BY <1>1, <1>2, <1>3


LEMMA KeepsGroupMade ==
  ASSUME Inv, Next
  PROVE  GroupMade'
<1>0. TypeOK
  BY DEF Inv
<1>1. CASE StartProvision \/ StartTeardown \/ Fails
  BY <1>0, <1>1 DEF Inv, GroupMade, StartProvision, StartTeardown, Start, Fails, Exit,
     NoJob, cloud, files
<1>2. CASE \/ EnsureBucket("made", "versioned") \/ EnsureBucket("versioned", "private")
           \/ EnsureBucket("private", "pruned") \/ EnsureBucket("pruned", "tagged")
           \/ EnsureBucket("tagged", "role")
  BY <1>0, <1>2 DEF Inv, GroupMade, EnsureBucket, Goto, files
<1>3. CASE \/ EnsureIam("role", "policy") \/ EnsureIam("policy", "profile")
           \/ EnsureIam("profile", "attached") \/ EnsureIam("attached", "key")
  BY <1>0, <1>3 DEF Inv, GroupMade, EnsureIam, Goto, files
<1>4. CASE EnsureKey \/ WriteKey
  BY <1>0, <1>4 DEF Inv, GroupMade, EnsureKey, FindsKey, LostKey, WriteKey, Goto, Exit,
     NoJob, cloud, files
<1>5. CASE EnsureGroup \/ EnsureRule("ssh", "http") \/ EnsureRule("http", "launch")
  BY <1>0, <1>5, RunTyped DEF Inv, GroupMade, TypeOK, Rules, EnsureGroup, EnsureRule,
     Goto, files
<1>6. CASE Skip \/ AlreadyRunning \/ Launch \/ WaitRunning
  BY <1>0, <1>6 DEF Inv, GroupMade, Skip, AlreadyRunning, Launch, WaitRunning, Running,
     InState, Goto, GotoWith, Exit, NoJob, cloud, files
<1>7. CASE WriteOutputs \/ UnlinkOutputs \/ DeleteBucket
  BY <1>0, <1>7 DEF Inv, GroupMade, WriteOutputs, UnlinkOutputs, DeleteBucket,
     NoOutputs, Goto, Exit, NoJob, cloud, files
<1>8. CASE LoadOutputs \/ Terminate \/ WaitTerminated
  BY <1>0, <1>8 DEF Inv, GroupMade, LoadOutputs, Terminate, WaitTerminated, Terminable,
     InState, AfterInstances, Goto, GotoWith, Exit, NoJob, cloud, files
<1>9. CASE DeleteGroup \/ GroupStillUsed
  BY <1>0, <1>9 DEF Inv, GroupMade, DeleteGroup, GroupStillUsed, Goto, GotoWith, Exit,
     NoJob, cloud, files
<1>10. CASE DeleteKey \/ DeleteKeyFile
  BY <1>0, <1>10 DEF Inv, GroupMade, DeleteKey, DeleteKeyFile, Goto, cloud, files
<1>11. CASE \/ DeleteIam("detach", "attached", "del_profile")
           \/ DeleteIam("del_profile", "profile", "del_policy")
           \/ DeleteIam("del_policy", "policy", "del_role")
           \/ DeleteIam("del_role", "role", "data")
  BY <1>0, <1>11 DEF Inv, GroupMade, DeleteIam, Goto, files
<1>12. CASE AwsStep
  BY <1>0, <1>12 DEF Inv, GroupMade, AwsStep, Boots, ShutsDown, IsStopped, IsStarted,
     Becomes, InState, KeyDeleted, LostKey, files
<1> QED
  BY <1>1, <1>2, <1>3, <1>4, <1>5, <1>6, <1>7, <1>8, <1>9, <1>10, <1>11, <1>12 DEF Next,
     ProvisionStep, TeardownStep


LEMMA KeepsInstancesGone ==
  ASSUME Inv, Next
  PROVE  InstancesGone'
<1>0. TypeOK
  BY DEF Inv
<1>1. CASE StartProvision \/ StartTeardown \/ Fails
  BY <1>0, <1>1 DEF Inv, InstancesGone, TeardownLabels, Alive, StartProvision,
     StartTeardown, Start, Fails, Exit, NoJob, cloud, files
<1>2. CASE \/ EnsureBucket("made", "versioned") \/ EnsureBucket("versioned", "private")
           \/ EnsureBucket("private", "pruned") \/ EnsureBucket("pruned", "tagged")
           \/ EnsureBucket("tagged", "role")
  BY <1>0, <1>2 DEF Inv, InstancesGone, TeardownLabels, Alive, EnsureBucket, Goto, files
<1>3. CASE \/ EnsureIam("role", "policy") \/ EnsureIam("policy", "profile")
           \/ EnsureIam("profile", "attached") \/ EnsureIam("attached", "key")
  BY <1>0, <1>3 DEF Inv, InstancesGone, TeardownLabels, Alive, EnsureIam, Goto, files
<1>4. CASE EnsureKey \/ WriteKey
  BY <1>0, <1>4 DEF Inv, InstancesGone, TeardownLabels, Alive, EnsureKey, FindsKey,
     LostKey, WriteKey, Goto, Exit, NoJob, cloud, files
<1>5. CASE EnsureGroup \/ EnsureRule("ssh", "http") \/ EnsureRule("http", "launch")
  BY <1>0, <1>5 DEF Inv, InstancesGone, TeardownLabels, Alive, EnsureGroup, EnsureRule,
     Goto, files
<1>6. CASE Skip \/ AlreadyRunning \/ Launch \/ WaitRunning
  BY <1>0, <1>6 DEF Inv, InstancesGone, TeardownLabels, Alive, Skip, AlreadyRunning,
     Launch, WaitRunning, Running, InState, Goto, GotoWith, Exit, NoJob, cloud, files
<1>7. CASE WriteOutputs \/ UnlinkOutputs \/ DeleteBucket
  BY <1>0, <1>7 DEF Inv, InstancesGone, TeardownLabels, Alive, WriteOutputs,
     UnlinkOutputs, DeleteBucket, NoOutputs, Goto, Exit, NoJob, cloud, files
<1>8. CASE LoadOutputs \/ Terminate \/ WaitTerminated
  BY <1>0, <1>8, InstanceTyped DEF Inv, InstancesGone, TeardownLabels, Alive,
     LoadOutputs, Terminate, WaitTerminated, Terminable, InState, AfterInstances, Goto,
     GotoWith, Exit, NoJob, cloud, files
<1>9. CASE DeleteGroup \/ GroupStillUsed
  BY <1>0, <1>9 DEF Inv, InstancesGone, TeardownLabels, Alive, DeleteGroup,
     GroupStillUsed, Goto, GotoWith, Exit, NoJob, cloud, files
<1>10. CASE DeleteKey \/ DeleteKeyFile
  BY <1>0, <1>10 DEF Inv, InstancesGone, TeardownLabels, Alive, DeleteKey,
     DeleteKeyFile, Goto, cloud, files
<1>11. CASE \/ DeleteIam("detach", "attached", "del_profile")
           \/ DeleteIam("del_profile", "profile", "del_policy")
           \/ DeleteIam("del_policy", "policy", "del_role")
           \/ DeleteIam("del_role", "role", "data")
  BY <1>0, <1>11 DEF Inv, InstancesGone, TeardownLabels, Alive, DeleteIam, Goto, files
<1>12. CASE AwsStep
  <2>1. UNCHANGED <<iam, pem, group, rules, pc, job>>
    BY <1>12 DEF AwsStep, Boots, ShutsDown, IsStopped, IsStarted, Becomes, KeyDeleted,
       files
  <2>2. keypair' = keypair \/ (pem = Nothing /\ keypair # Nothing)
    BY <1>12 DEF AwsStep, Boots, ShutsDown, IsStopped, IsStarted, Becomes, KeyDeleted,
       LostKey
  <2> QED
    BY <1>0, <1>12, <2>1, <2>2, AwsKeeps DEF Inv, InstancesGone, TeardownLabels, Alive
<1> QED
  BY <1>1, <1>2, <1>3, <1>4, <1>5, <1>6, <1>7, <1>8, <1>9, <1>10, <1>11, <1>12 DEF Next,
     ProvisionStep, TeardownStep


LEMMA KeepsGroupGone ==
  ASSUME Inv, Next
  PROVE  GroupGone'
<1>0. TypeOK
  BY DEF Inv
<1>1. CASE StartProvision \/ StartTeardown \/ Fails
  BY <1>0, <1>1 DEF Inv, GroupGone, Unmade, TeardownLabels, StartProvision,
     StartTeardown, Start, Fails, Exit, NoJob, cloud, files
<1>2. CASE \/ EnsureBucket("made", "versioned") \/ EnsureBucket("versioned", "private")
           \/ EnsureBucket("private", "pruned") \/ EnsureBucket("pruned", "tagged")
           \/ EnsureBucket("tagged", "role")
  BY <1>0, <1>2 DEF Inv, GroupGone, Unmade, TeardownLabels, EnsureBucket, Goto, files
<1>3. CASE \/ EnsureIam("role", "policy") \/ EnsureIam("policy", "profile")
           \/ EnsureIam("profile", "attached") \/ EnsureIam("attached", "key")
  BY <1>0, <1>3 DEF Inv, GroupGone, Unmade, TeardownLabels, EnsureIam, Goto, files
<1>4. CASE EnsureKey \/ WriteKey
  BY <1>0, <1>4 DEF Inv, GroupGone, Unmade, TeardownLabels, EnsureKey, FindsKey,
     LostKey, WriteKey, Goto, Exit, NoJob, cloud, files
<1>5. CASE EnsureGroup \/ EnsureRule("ssh", "http") \/ EnsureRule("http", "launch")
  BY <1>0, <1>5 DEF Inv, GroupGone, Unmade, TeardownLabels, EnsureGroup, EnsureRule,
     Goto, files
<1>6. CASE Skip \/ AlreadyRunning \/ Launch \/ WaitRunning
  <2>1. pc' # "idle" => /\ job'.script = job.script /\ job'.launch = job.launch
                        /\ job'.all = job.all /\ (pc # "load" => job'.group = job.group)
    BY <1>0, <1>6, JobStays DEF ProvisionStep, TeardownStep
  <2> QED
    BY <1>0, <1>6, <2>1 DEF Inv, GroupGone, Unmade, TeardownLabels, Skip,
       AlreadyRunning, Launch, WaitRunning, Running, InState, Goto, GotoWith, Exit,
       NoJob, cloud, files
<1>7. CASE WriteOutputs \/ UnlinkOutputs \/ DeleteBucket
  BY <1>0, <1>7 DEF Inv, GroupGone, Unmade, TeardownLabels, WriteOutputs, UnlinkOutputs,
     DeleteBucket, NoOutputs, Goto, Exit, NoJob, cloud, files
<1>8. CASE LoadOutputs \/ Terminate \/ WaitTerminated
  <2>1. CASE LoadOutputs
    <3>1. job \in Jobs /\ outputs' = outputs
      BY <1>0, <2>1 DEF TypeOK, LoadOutputs, files
    <3>2. CASE pc' = "idle"
      BY <3>2 DEF GroupGone, Unmade, TeardownLabels
    <3>3. CASE job' = [job EXCEPT !.group = outputs.group] /\ pc' = "terminate"
      <4>1. job'.group = outputs.group
        BY <3>1, <3>3 DEF Jobs
      <4> QED
        BY <3>1, <3>3, <4>1 DEF GroupGone, Unmade
    <3> QED
      BY <2>1, <3>2, <3>3 DEF LoadOutputs, Exit, GotoWith
  <2>2. CASE Terminate \/ WaitTerminated
    <3>1. pc' # "idle" => job'.all = job.all /\ job'.group = job.group
      BY <1>0, <2>2, JobStays DEF TeardownStep, Terminate, WaitTerminated
    <3> QED
      BY <2>2, <3>1 DEF Inv, GroupGone, Unmade, TeardownLabels, Terminate,
         WaitTerminated, AfterInstances, Goto, GotoWith, Exit, NoJob, cloud, files
  <2> QED
    BY <1>8, <2>1, <2>2
<1>9. CASE DeleteGroup \/ GroupStillUsed
  <2>1. pc' # "idle" => /\ job'.script = job.script /\ job'.launch = job.launch
                        /\ job'.all = job.all /\ (pc # "load" => job'.group = job.group)
    BY <1>0, <1>9, JobStays DEF ProvisionStep, TeardownStep
  <2> QED
    BY <1>0, <1>9, <2>1 DEF Inv, GroupGone, Unmade, TeardownLabels, DeleteGroup,
       GroupStillUsed, Goto, GotoWith, Exit, NoJob, cloud, files
<1>10. CASE DeleteKey \/ DeleteKeyFile
  BY <1>0, <1>10 DEF Inv, GroupGone, Unmade, TeardownLabels, DeleteKey, DeleteKeyFile,
     Goto, cloud, files
<1>11. CASE \/ DeleteIam("detach", "attached", "del_profile")
           \/ DeleteIam("del_profile", "profile", "del_policy")
           \/ DeleteIam("del_policy", "policy", "del_role")
           \/ DeleteIam("del_role", "role", "data")
  BY <1>0, <1>11 DEF Inv, GroupGone, Unmade, TeardownLabels, DeleteIam, Goto, files
<1>12. CASE AwsStep
  BY <1>0, <1>12 DEF Inv, GroupGone, Unmade, TeardownLabels, AwsStep, Boots, ShutsDown,
     IsStopped, IsStarted, Becomes, InState, KeyDeleted, LostKey, files
<1> QED
  BY <1>1, <1>2, <1>3, <1>4, <1>5, <1>6, <1>7, <1>8, <1>9, <1>10, <1>11, <1>12 DEF Next,
     ProvisionStep, TeardownStep


LEMMA KeepsKeyGone ==
  ASSUME Inv, Next
  PROVE  KeyGone'
<1>0. TypeOK
  BY DEF Inv
<1>1. CASE StartProvision \/ StartTeardown \/ Fails
  BY <1>0, <1>1 DEF Inv, KeyGone, Unmade, StartProvision, StartTeardown, Start, Fails,
     Exit, NoJob, cloud, files
<1>2. CASE \/ EnsureBucket("made", "versioned") \/ EnsureBucket("versioned", "private")
           \/ EnsureBucket("private", "pruned") \/ EnsureBucket("pruned", "tagged")
           \/ EnsureBucket("tagged", "role")
  BY <1>0, <1>2 DEF Inv, KeyGone, Unmade, EnsureBucket, Goto, files
<1>3. CASE \/ EnsureIam("role", "policy") \/ EnsureIam("policy", "profile")
           \/ EnsureIam("profile", "attached") \/ EnsureIam("attached", "key")
  BY <1>0, <1>3 DEF Inv, KeyGone, Unmade, EnsureIam, Goto, files
<1>4. CASE EnsureKey \/ WriteKey
  BY <1>0, <1>4 DEF Inv, KeyGone, Unmade, EnsureKey, FindsKey, LostKey, WriteKey, Goto,
     Exit, NoJob, cloud, files
<1>5. CASE EnsureGroup \/ EnsureRule("ssh", "http") \/ EnsureRule("http", "launch")
  BY <1>0, <1>5 DEF Inv, KeyGone, Unmade, EnsureGroup, EnsureRule, Goto, files
<1>6. CASE Skip \/ AlreadyRunning \/ Launch \/ WaitRunning
  <2>1. pc' # "idle" => /\ job'.script = job.script /\ job'.launch = job.launch
                        /\ job'.all = job.all /\ (pc # "load" => job'.group = job.group)
    BY <1>0, <1>6, JobStays DEF ProvisionStep, TeardownStep
  <2> QED
    BY <1>0, <1>6, <2>1 DEF Inv, KeyGone, Unmade, Skip, AlreadyRunning, Launch,
       WaitRunning, Running, InState, Goto, GotoWith, Exit, NoJob, cloud, files
<1>7. CASE WriteOutputs \/ UnlinkOutputs \/ DeleteBucket
  BY <1>0, <1>7 DEF Inv, KeyGone, Unmade, WriteOutputs, UnlinkOutputs, DeleteBucket,
     NoOutputs, Goto, Exit, NoJob, cloud, files
<1>8. CASE LoadOutputs \/ Terminate \/ WaitTerminated
  <2>1. pc' # "idle" => /\ job'.script = job.script /\ job'.launch = job.launch
                        /\ job'.all = job.all /\ (pc # "load" => job'.group = job.group)
    BY <1>0, <1>8, JobStays DEF ProvisionStep, TeardownStep
  <2> QED
    BY <1>0, <1>8, <2>1 DEF Inv, KeyGone, Unmade, LoadOutputs, Terminate,
       WaitTerminated, Terminable, InState, AfterInstances, Goto, GotoWith, Exit, NoJob,
       cloud, files
<1>9. CASE DeleteGroup \/ GroupStillUsed
  <2>1. pc' # "idle" => /\ job'.script = job.script /\ job'.launch = job.launch
                        /\ job'.all = job.all /\ (pc # "load" => job'.group = job.group)
    BY <1>0, <1>9, JobStays DEF ProvisionStep, TeardownStep
  <2> QED
    BY <1>0, <1>9, <2>1 DEF Inv, KeyGone, Unmade, DeleteGroup, GroupStillUsed, Goto,
       GotoWith, Exit, NoJob, cloud, files
<1>10. CASE DeleteKey \/ DeleteKeyFile
  BY <1>0, <1>10 DEF Inv, KeyGone, Unmade, DeleteKey, DeleteKeyFile, Goto,
     cloud, files
<1>11. CASE \/ DeleteIam("detach", "attached", "del_profile")
           \/ DeleteIam("del_profile", "profile", "del_policy")
           \/ DeleteIam("del_policy", "policy", "del_role")
           \/ DeleteIam("del_role", "role", "data")
  BY <1>0, <1>11 DEF Inv, KeyGone, Unmade, DeleteIam, Goto, files
<1>12. CASE AwsStep
  BY <1>0, <1>12 DEF Inv, KeyGone, Unmade, AwsStep, Boots, ShutsDown, IsStopped,
     IsStarted, Becomes, InState, KeyDeleted, LostKey, files
<1> QED
  BY <1>1, <1>2, <1>3, <1>4, <1>5, <1>6, <1>7, <1>8, <1>9, <1>10, <1>11, <1>12 DEF Next,
     ProvisionStep, TeardownStep


LEMMA KeepsIamGone ==
  ASSUME Inv, Next
  PROVE  IamGone'
<1>0. TypeOK
  BY DEF Inv
<1>1. CASE StartProvision \/ StartTeardown \/ Fails
  BY <1>0, <1>1 DEF Inv, IamGone, Unmade, StartProvision, StartTeardown, Start, Fails,
     Exit, NoJob, cloud, files
<1>2. CASE \/ EnsureBucket("made", "versioned") \/ EnsureBucket("versioned", "private")
           \/ EnsureBucket("private", "pruned") \/ EnsureBucket("pruned", "tagged")
           \/ EnsureBucket("tagged", "role")
  BY <1>0, <1>2 DEF Inv, IamGone, Unmade, EnsureBucket, Goto, files
<1>3. CASE \/ EnsureIam("role", "policy") \/ EnsureIam("policy", "profile")
           \/ EnsureIam("profile", "attached") \/ EnsureIam("attached", "key")
  BY <1>0, <1>3 DEF Inv, IamGone, Unmade, EnsureIam, Goto, files
<1>4. CASE EnsureKey \/ WriteKey
  BY <1>0, <1>4 DEF Inv, IamGone, Unmade, EnsureKey, FindsKey, LostKey, WriteKey, Goto,
     Exit, NoJob, cloud, files
<1>5. CASE EnsureGroup \/ EnsureRule("ssh", "http") \/ EnsureRule("http", "launch")
  BY <1>0, <1>5 DEF Inv, IamGone, Unmade, EnsureGroup, EnsureRule, Goto, files
<1>6. CASE Skip \/ AlreadyRunning \/ Launch \/ WaitRunning
  <2>1. pc' # "idle" => /\ job'.script = job.script /\ job'.launch = job.launch
                        /\ job'.all = job.all /\ (pc # "load" => job'.group = job.group)
    BY <1>0, <1>6, JobStays DEF ProvisionStep, TeardownStep
  <2> QED
    BY <1>0, <1>6, <2>1 DEF Inv, IamGone, Unmade, Skip, AlreadyRunning, Launch,
       WaitRunning, Running, InState, Goto, GotoWith, Exit, NoJob, cloud, files
<1>7. CASE WriteOutputs \/ UnlinkOutputs \/ DeleteBucket
  BY <1>0, <1>7 DEF Inv, IamGone, Unmade, WriteOutputs, UnlinkOutputs, DeleteBucket,
     NoOutputs, Goto, Exit, NoJob, cloud, files
<1>8. CASE LoadOutputs \/ Terminate \/ WaitTerminated
  <2>1. pc' # "idle" => /\ job'.script = job.script /\ job'.launch = job.launch
                        /\ job'.all = job.all /\ (pc # "load" => job'.group = job.group)
    BY <1>0, <1>8, JobStays DEF ProvisionStep, TeardownStep
  <2> QED
    BY <1>0, <1>8, <2>1 DEF Inv, IamGone, Unmade, LoadOutputs, Terminate,
       WaitTerminated, Terminable, InState, AfterInstances, Goto, GotoWith, Exit, NoJob,
       cloud, files
<1>9. CASE DeleteGroup \/ GroupStillUsed
  <2>1. pc' # "idle" => /\ job'.script = job.script /\ job'.launch = job.launch
                        /\ job'.all = job.all /\ (pc # "load" => job'.group = job.group)
    BY <1>0, <1>9, JobStays DEF ProvisionStep, TeardownStep
  <2> QED
    BY <1>0, <1>9, <2>1 DEF Inv, IamGone, Unmade, DeleteGroup, GroupStillUsed, Goto,
       GotoWith, Exit, NoJob, cloud, files
<1>10. CASE DeleteKey \/ DeleteKeyFile
  BY <1>0, <1>10 DEF Inv, IamGone, Unmade, DeleteKey, DeleteKeyFile, Goto, cloud, files
<1>11. CASE \/ DeleteIam("detach", "attached", "del_profile")
           \/ DeleteIam("del_profile", "profile", "del_policy")
           \/ DeleteIam("del_policy", "policy", "del_role")
           \/ DeleteIam("del_role", "role", "data")
  BY <1>0, <1>11 DEF Inv, IamGone, Unmade, TypeOK, IamParts, DeleteIam, Goto, files
<1>12. CASE AwsStep
  BY <1>0, <1>12 DEF Inv, IamGone, Unmade, AwsStep, Boots, ShutsDown, IsStopped,
     IsStarted, Becomes, InState, KeyDeleted, LostKey, files
<1> QED
  BY <1>1, <1>2, <1>3, <1>4, <1>5, <1>6, <1>7, <1>8, <1>9, <1>10, <1>11, <1>12 DEF Next,
     ProvisionStep, TeardownStep


LEMMA KeepsEquipped ==
  ASSUME Inv, Next
  PROVE  Equipped'
<1>0. TypeOK
  BY DEF Inv
<1>1. CASE StartProvision \/ StartTeardown \/ Fails
  BY <1>0, <1>1 DEF Inv, Equipped, Alive, StartProvision, StartTeardown, Start, Fails,
     Exit, NoJob, cloud, files
<1>2. CASE \/ EnsureBucket("made", "versioned") \/ EnsureBucket("versioned", "private")
           \/ EnsureBucket("private", "pruned") \/ EnsureBucket("pruned", "tagged")
           \/ EnsureBucket("tagged", "role")
  BY <1>0, <1>2 DEF Inv, Equipped, Alive, EnsureBucket, Goto, files
<1>3. CASE \/ EnsureIam("role", "policy") \/ EnsureIam("policy", "profile")
           \/ EnsureIam("profile", "attached") \/ EnsureIam("attached", "key")
  BY <1>0, <1>3 DEF Inv, Equipped, Alive, IamParts, EnsureIam, Goto, files
<1>4. CASE EnsureKey \/ WriteKey
  BY <1>0, <1>4 DEF Inv, Equipped, KeyMade, KeyNew, EnsureKey, FindsKey, LostKey,
     WriteKey, Goto, Exit, NoJob, cloud, files
<1>5. CASE EnsureGroup \/ EnsureRule("ssh", "http") \/ EnsureRule("http", "launch")
  BY <1>0, <1>5 DEF Inv, Equipped, Alive, Rules, EnsureGroup, EnsureRule, Goto, files
<1>6. CASE Skip \/ AlreadyRunning \/ Launch \/ WaitRunning
  BY <1>0, <1>6, InstanceTyped, RunTyped DEF Inv, Equipped, Alive, KeyMade, IamMade,
     GroupMade, Skip, AlreadyRunning, Launch, WaitRunning, Running, InState, Goto,
     GotoWith, Exit, NoJob, cloud, files
<1>7. CASE WriteOutputs \/ UnlinkOutputs \/ DeleteBucket
  BY <1>0, <1>7 DEF Inv, Equipped, Alive, WriteOutputs, UnlinkOutputs, DeleteBucket,
     NoOutputs, Goto, Exit, NoJob, cloud, files
<1>8. CASE LoadOutputs \/ Terminate \/ WaitTerminated
  BY <1>0, <1>8, InstanceTyped DEF Inv, Equipped, Alive, LoadOutputs, Terminate,
     WaitTerminated, Terminable, InState, AfterInstances, Goto, GotoWith, Exit, NoJob,
     cloud, files
<1>9. CASE DeleteGroup \/ GroupStillUsed
  BY <1>0, <1>9 DEF Inv, Equipped, Alive, InstancesGone, TeardownLabels, DeleteGroup,
     GroupStillUsed, Goto, GotoWith, Exit, NoJob, cloud, files
<1>10. CASE DeleteKey \/ DeleteKeyFile
  BY <1>0, <1>10 DEF Inv, Equipped, Alive, InstancesGone, TeardownLabels, DeleteKey,
     DeleteKeyFile, Goto, cloud, files
<1>11. CASE \/ DeleteIam("detach", "attached", "del_profile")
           \/ DeleteIam("del_profile", "profile", "del_policy")
           \/ DeleteIam("del_policy", "policy", "del_role")
           \/ DeleteIam("del_role", "role", "data")
  BY <1>0, <1>11 DEF Inv, Equipped, Alive, InstancesGone, TeardownLabels, DeleteIam,
     Goto, files
<1>12. CASE AwsStep
  <2>1. UNCHANGED <<iam, pem, group, rules, pc, job>>
    BY <1>12 DEF AwsStep, Boots, ShutsDown, IsStopped, IsStarted, Becomes, KeyDeleted,
       files
  <2>2. keypair' = keypair \/ (pem = Nothing /\ keypair # Nothing)
    BY <1>12 DEF AwsStep, Boots, ShutsDown, IsStopped, IsStarted, Becomes, KeyDeleted,
       LostKey
  <2> QED
    BY <1>0, <1>12, <2>1, <2>2, AwsKeeps DEF Inv, Equipped, Alive
<1> QED
  BY <1>1, <1>2, <1>3, <1>4, <1>5, <1>6, <1>7, <1>8, <1>9, <1>10, <1>11, <1>12 DEF Next,
     ProvisionStep, TeardownStep


LEMMA KeepsInstanceMade ==
  ASSUME Inv, Next
  PROVE  InstanceMade'
<1>0. TypeOK
  BY DEF Inv
<1>1. CASE StartProvision \/ StartTeardown \/ Fails
  BY <1>0, <1>1 DEF Inv, InstanceMade, Alive, StartProvision, StartTeardown, Start,
     Fails, Exit, NoJob, cloud, files
<1>2. CASE \/ EnsureBucket("made", "versioned") \/ EnsureBucket("versioned", "private")
           \/ EnsureBucket("private", "pruned") \/ EnsureBucket("pruned", "tagged")
           \/ EnsureBucket("tagged", "role")
  BY <1>0, <1>2 DEF Inv, InstanceMade, Alive, EnsureBucket, Goto, files
<1>3. CASE \/ EnsureIam("role", "policy") \/ EnsureIam("policy", "profile")
           \/ EnsureIam("profile", "attached") \/ EnsureIam("attached", "key")
  BY <1>0, <1>3 DEF Inv, InstanceMade, Alive, EnsureIam, Goto, files
<1>4. CASE EnsureKey \/ WriteKey
  BY <1>0, <1>4 DEF Inv, InstanceMade, Alive, EnsureKey, FindsKey, LostKey, WriteKey,
     Goto, Exit, NoJob, cloud, files
<1>5. CASE EnsureGroup \/ EnsureRule("ssh", "http") \/ EnsureRule("http", "launch")
  BY <1>0, <1>5 DEF Inv, InstanceMade, Alive, EnsureGroup, EnsureRule, Goto, files
<1>6. CASE Skip \/ AlreadyRunning \/ Launch \/ WaitRunning
  <2>1. job \in Jobs
    BY <1>0 DEF TypeOK
  <2>2. ASSUME NEW n \in Numbers, job' = [job EXCEPT !.awaited = {n}],
               instance'[n].state \in Alive
        PROVE  InstanceMade'
    BY <2>1, <2>2 DEF InstanceMade, Jobs
  <2>3. CASE AlreadyRunning
    BY <2>2, <2>3 DEF AlreadyRunning, Running, InState, GotoWith, cloud, Alive
  <2>4. CASE Launch
    BY <1>0, <2>2, <2>4, InstanceTyped, RunTyped DEF Launch, GotoWith, Alive
  <2>5. CASE Skip \/ WaitRunning
    BY <2>5 DEF Inv, InstanceMade, Skip, WaitRunning, Goto, Exit, cloud
  <2> QED
    BY <1>6, <2>3, <2>4, <2>5
<1>7. CASE WriteOutputs \/ UnlinkOutputs \/ DeleteBucket
  BY <1>0, <1>7 DEF Inv, InstanceMade, Alive, WriteOutputs, UnlinkOutputs, DeleteBucket,
     NoOutputs, Goto, Exit, NoJob, cloud, files
<1>8. CASE LoadOutputs \/ Terminate \/ WaitTerminated
  <2>1. pc' # "idle" => /\ job'.script = job.script /\ job'.launch = job.launch
                        /\ job'.all = job.all /\ (pc # "load" => job'.group = job.group)
    BY <1>0, <1>8, JobStays DEF ProvisionStep, TeardownStep
  <2> QED
    BY <1>0, <1>8, <2>1 DEF Inv, InstanceMade, Alive, LoadOutputs, Terminate,
       WaitTerminated, Terminable, InState, AfterInstances, Goto, GotoWith, Exit, NoJob,
       cloud, files
<1>9. CASE DeleteGroup \/ GroupStillUsed
  <2>1. pc' # "idle" => /\ job'.script = job.script /\ job'.launch = job.launch
                        /\ job'.all = job.all /\ (pc # "load" => job'.group = job.group)
    BY <1>0, <1>9, JobStays DEF ProvisionStep, TeardownStep
  <2> QED
    BY <1>0, <1>9, <2>1 DEF Inv, InstanceMade, Alive, DeleteGroup, GroupStillUsed, Goto,
       GotoWith, Exit, NoJob, cloud, files
<1>10. CASE DeleteKey \/ DeleteKeyFile
  BY <1>0, <1>10 DEF Inv, InstanceMade, Alive, DeleteKey, DeleteKeyFile, Goto, cloud,
     files
<1>11. CASE \/ DeleteIam("detach", "attached", "del_profile")
           \/ DeleteIam("del_profile", "profile", "del_policy")
           \/ DeleteIam("del_policy", "policy", "del_role")
           \/ DeleteIam("del_role", "role", "data")
  BY <1>0, <1>11 DEF Inv, InstanceMade, Alive, DeleteIam, Goto, files
<1>12. CASE AwsStep
  <2>1. UNCHANGED <<iam, pem, group, rules, pc, job>>
    BY <1>12 DEF AwsStep, Boots, ShutsDown, IsStopped, IsStarted, Becomes, KeyDeleted,
       files
  <2>2. keypair' = keypair \/ (pem = Nothing /\ keypair # Nothing)
    BY <1>12 DEF AwsStep, Boots, ShutsDown, IsStopped, IsStarted, Becomes, KeyDeleted,
       LostKey
  <2> QED
    BY <1>0, <1>12, <2>1, <2>2, AwsKeeps DEF Inv, InstanceMade, Alive
<1> QED
  BY <1>1, <1>2, <1>3, <1>4, <1>5, <1>6, <1>7, <1>8, <1>9, <1>10, <1>11, <1>12 DEF Next,
     ProvisionStep, TeardownStep


LEMMA KeepsOneUp ==
  ASSUME Inv, Next
  PROVE  OneUp'
<1>0. TypeOK
  BY DEF Inv
<1>1. CASE StartProvision \/ StartTeardown \/ Fails
  BY <1>0, <1>1 DEF Inv, OneUp, Up, StartProvision, StartTeardown, Start, Fails, Exit,
     NoJob, cloud, files
<1>2. CASE \/ EnsureBucket("made", "versioned") \/ EnsureBucket("versioned", "private")
           \/ EnsureBucket("private", "pruned") \/ EnsureBucket("pruned", "tagged")
           \/ EnsureBucket("tagged", "role")
  BY <1>0, <1>2 DEF Inv, OneUp, Up, EnsureBucket, Goto, files
<1>3. CASE \/ EnsureIam("role", "policy") \/ EnsureIam("policy", "profile")
           \/ EnsureIam("profile", "attached") \/ EnsureIam("attached", "key")
  BY <1>0, <1>3 DEF Inv, OneUp, Up, EnsureIam, Goto, files
<1>4. CASE EnsureKey \/ WriteKey
  BY <1>0, <1>4 DEF Inv, OneUp, Up, EnsureKey, FindsKey, LostKey, WriteKey, Goto, Exit,
     NoJob, cloud, files
<1>5. CASE EnsureGroup \/ EnsureRule("ssh", "http") \/ EnsureRule("http", "launch")
  BY <1>0, <1>5 DEF Inv, OneUp, Up, EnsureGroup, EnsureRule, Goto, files
<1>6. CASE Skip \/ AlreadyRunning \/ Launch \/ WaitRunning
  BY <1>0, <1>6, InstanceTyped, RunTyped DEF Inv, OneUp, Up, Skip, AlreadyRunning,
     Launch, WaitRunning, Running, InState, Goto, GotoWith, Exit, NoJob, cloud, files
<1>7. CASE WriteOutputs \/ UnlinkOutputs \/ DeleteBucket
  BY <1>0, <1>7 DEF Inv, OneUp, Up, WriteOutputs, UnlinkOutputs, DeleteBucket,
     NoOutputs, Goto, Exit, NoJob, cloud, files
<1>8. CASE LoadOutputs \/ Terminate \/ WaitTerminated
  BY <1>0, <1>8, InstanceTyped DEF Inv, OneUp, Up, LoadOutputs, Terminate,
     WaitTerminated, Terminable, InState, AfterInstances, Goto, GotoWith, Exit, NoJob,
     cloud, files
<1>9. CASE DeleteGroup \/ GroupStillUsed
  BY <1>0, <1>9 DEF Inv, OneUp, Up, DeleteGroup, GroupStillUsed, Goto, GotoWith, Exit,
     NoJob, cloud, files
<1>10. CASE DeleteKey \/ DeleteKeyFile
  BY <1>0, <1>10 DEF Inv, OneUp, Up, DeleteKey, DeleteKeyFile, Goto, cloud, files
<1>11. CASE \/ DeleteIam("detach", "attached", "del_profile")
           \/ DeleteIam("del_profile", "profile", "del_policy")
           \/ DeleteIam("del_policy", "policy", "del_role")
           \/ DeleteIam("del_role", "role", "data")
  BY <1>0, <1>11 DEF Inv, OneUp, Up, DeleteIam, Goto, files
<1>12. CASE AwsStep
  <2>1. UNCHANGED <<iam, pem, group, rules, pc, job>>
    BY <1>12 DEF AwsStep, Boots, ShutsDown, IsStopped, IsStarted, Becomes, KeyDeleted,
       files
  <2>2. keypair' = keypair \/ (pem = Nothing /\ keypair # Nothing)
    BY <1>12 DEF AwsStep, Boots, ShutsDown, IsStopped, IsStarted, Becomes, KeyDeleted,
       LostKey
  <2> QED
    BY <1>0, <1>12, <2>1, <2>2, AwsKeeps DEF Inv, OneUp, Up
<1> QED
  BY <1>1, <1>2, <1>3, <1>4, <1>5, <1>6, <1>7, <1>8, <1>9, <1>10, <1>11, <1>12 DEF Next,
     ProvisionStep, TeardownStep

-----------------------------------------------------------------------------
(* The types *)

LEMMA LabelsTyped == {"idle"} \cup ProvisionLabels \cup TeardownLabels = Labels
  BY DEF ProvisionLabels, TeardownLabels, Labels

LEMMA NoJobTyped == NoJob \in Jobs
  BY ProvisionAssumption DEF NoJob, Jobs, GroupAttempts, Nothing

\* Of a script that starts.
LEMMA StartTyped ==
  ASSUME TypeOK, StartProvision \/ StartTeardown
  PROVE  TypeOK'
<1>1. MaxRuns \in Nat /\ runs \in 0..MaxRuns /\ runs < MaxRuns
  BY ProvisionAssumption DEF TypeOK, StartProvision, StartTeardown, Start
<1>2. runs' = runs + 1
  BY DEF StartProvision, StartTeardown, Start
<1>4. runs' \in 0..MaxRuns /\ runs' \in Numbers
  BY <1>1, <1>2 DEF Numbers
<1>3. job' \in Jobs
  BY NoJobTyped DEF StartProvision, StartTeardown, Start, Jobs
<1> QED
  BY <1>4, <1>3 DEF TypeOK, StartProvision, StartTeardown, Start, Labels, cloud, files

LEMMA ControlTyped ==
  ASSUME TypeOK, Fails \/ ProvisionStep \/ TeardownStep
  PROVE  /\ pc' \in Labels /\ job' \in Jobs /\ exit' \in {"none", "ok", "failed"}
         /\ runs' \in 0..MaxRuns /\ (pc' # "idle" => runs' \in Numbers)
<1>1. job \in Jobs /\ pc # "idle" /\ runs' = runs
  BY DEF TypeOK, Fails, ProvisionStep, TeardownStep, EnsureBucket, EnsureIam, EnsureKey,
     WriteKey, EnsureGroup, EnsureRule, Skip, AlreadyRunning, Launch, WaitRunning,
     WriteOutputs, LoadOutputs, Terminate, WaitTerminated, DeleteGroup, GroupStillUsed,
     DeleteKey, DeleteKeyFile, DeleteIam, DeleteBucket, UnlinkOutputs, Goto, GotoWith, Exit
<1>2. runs' \in 0..MaxRuns /\ runs' \in Numbers
  BY <1>1 DEF TypeOK
<1>3. pc' \in Labels /\ exit' \in {"none", "ok", "failed"}
  BY DEF TypeOK, Labels, Fails, ProvisionStep, TeardownStep, EnsureBucket, EnsureIam, EnsureKey,
     WriteKey, EnsureGroup, EnsureRule, Skip, AlreadyRunning, Launch, WaitRunning,
     WriteOutputs, LoadOutputs, Terminate, WaitTerminated, DeleteGroup, GroupStillUsed,
     DeleteKey, DeleteKeyFile, DeleteIam, DeleteBucket, UnlinkOutputs, Goto, GotoWith, Exit,
     AfterInstances
<1>4. ASSUME NEW S \in SUBSET Numbers PROVE [job EXCEPT !.awaited = S] \in Jobs
  BY <1>1 DEF Jobs
<1>5. ASSUME AlreadyRunning \/ Launch
      PROVE  job' \in Jobs
  BY <1>2, <1>4, <1>5 DEF AlreadyRunning, Launch, GotoWith, Running, InState
<1>6. ASSUME Terminate
      PROVE  job' \in Jobs
  BY <1>4, <1>6 DEF Terminate, GotoWith, Terminable, InState
<1>7. ASSUME LoadOutputs
      PROVE  job' \in Jobs
  BY <1>1, <1>7, NoJobTyped DEF LoadOutputs, GotoWith, Exit, TypeOK, Outputs, Jobs
<1>8. ASSUME GroupStillUsed
      PROVE  job' \in Jobs
  <2>1. job.attempt < GroupAttempts => job.attempt + 1 \in 1..GroupAttempts
    BY <1>1 DEF Jobs, GroupAttempts
  <2> QED
    BY <1>1, <1>8, <2>1, NoJobTyped DEF GroupStillUsed, GotoWith, Exit, Jobs
<1>9. ASSUME ~(AlreadyRunning \/ Launch \/ Terminate \/ LoadOutputs \/ GroupStillUsed)
      PROVE  job' \in Jobs
  <2>1. job' \in {job, NoJob}
    BY <1>9 DEF Fails, ProvisionStep, TeardownStep, EnsureBucket, EnsureIam, EnsureKey,
       WriteKey, EnsureGroup, EnsureRule, Skip, WaitRunning, WriteOutputs, WaitTerminated,
       DeleteGroup, DeleteKey, DeleteKeyFile, DeleteIam, DeleteBucket, UnlinkOutputs, Goto,
       Exit
  <2> QED
    BY <1>1, <2>1, NoJobTyped
<1>10. job' \in Jobs
  BY <1>5, <1>6, <1>7, <1>8, <1>9
<1> QED
  BY <1>2, <1>3, <1>10

\* What is made and unmade stays of its type.
LEMMA ResourcesTyped ==
  ASSUME TypeOK, ProvisionStep \/ TeardownStep
  PROVE  /\ bucket' \subseteq BucketParts /\ iam' \subseteq IamParts /\ rules' \subseteq Rules
         /\ keypair' \in 0..MaxRuns /\ pem' \in Torn..MaxRuns /\ group' \in 0..MaxRuns
<1>1. /\ bucket \subseteq BucketParts /\ iam \subseteq IamParts /\ rules \subseteq Rules
      /\ keypair \in 0..MaxRuns /\ pem \in Torn..MaxRuns /\ group \in 0..MaxRuns
      /\ runs \in 0..MaxRuns /\ Nothing \in 0..MaxRuns
      /\ 0..MaxRuns \subseteq Torn..MaxRuns /\ Torn \in Torn..MaxRuns
  BY ProvisionAssumption DEF TypeOK, Nothing, Torn
<1>2. CASE ProvisionStep
  BY <1>1, <1>2 DEF ProvisionStep, EnsureBucket, EnsureIam, EnsureKey, WriteKey, EnsureGroup,
     EnsureRule, Skip, AlreadyRunning, Launch, WaitRunning, WriteOutputs, cloud, files,
     BucketParts, IamParts, Rules
<1>3. CASE TeardownStep
  BY <1>1, <1>3 DEF TeardownStep, LoadOutputs, Terminate, WaitTerminated, DeleteGroup,
     GroupStillUsed, DeleteKey, DeleteKeyFile, DeleteIam, DeleteBucket, UnlinkOutputs,
     cloud, files
<1> QED
  BY <1>2, <1>3

LEMMA InstancesTyped ==
  ASSUME TypeOK, ProvisionStep \/ TeardownStep
  PROVE  instance' \in [Numbers -> Instances]
<1>1. CASE Launch
  <2>1. runs \in Numbers
    BY <1>1, RunTyped DEF Launch
  <2>2. [state |-> "pending", key |-> keypair, group |-> group, halted |-> FALSE] \in Instances
    BY DEF TypeOK, Instances, States
  <2> QED
    BY <1>1, <2>1, <2>2 DEF TypeOK, Launch
<1>2. CASE Terminate
  <2>1. ASSUME NEW n \in Numbers
        PROVE  [instance[n] EXCEPT !.state = "shutting"] \in Instances
    BY DEF TypeOK, Instances, States
  <2> QED
    BY <1>2, <2>1 DEF TypeOK, Terminate
<1>3. CASE ~Launch /\ ~Terminate
  BY <1>3 DEF TypeOK, ProvisionStep, TeardownStep, EnsureBucket, EnsureIam, EnsureKey,
     WriteKey, EnsureGroup, EnsureRule, Skip, AlreadyRunning, WaitRunning, WriteOutputs,
     LoadOutputs, WaitTerminated, DeleteGroup, GroupStillUsed, DeleteKey, DeleteKeyFile,
     DeleteIam, DeleteBucket, UnlinkOutputs, cloud, files
<1> QED
  BY <1>1, <1>2, <1>3

LEMMA OutputsTyped ==
  ASSUME TypeOK, ProvisionStep \/ TeardownStep
  PROVE  outputs' \in Outputs
<1>1. outputs \in Outputs /\ NoOutputs \in Outputs /\ [NoOutputs EXCEPT !.file = "bad"] \in Outputs
  BY ProvisionAssumption DEF TypeOK, NoOutputs, Outputs, Nothing
<1>2. InstanceRecorded \in 0..MaxRuns
  <2>1. job.awaited \subseteq Numbers /\ outputs.instance \in 0..MaxRuns /\ Nothing \in 0..MaxRuns
    BY ProvisionAssumption DEF TypeOK, Jobs, Outputs, Nothing
  <2>2. Numbers \subseteq 0..MaxRuns
    BY ProvisionAssumption DEF Numbers
  <2>3. ASSUME job.awaited # {} PROVE (CHOOSE n \in Numbers : n \in job.awaited) \in Numbers
    BY <2>1, <2>3
  <2> QED
    BY <2>1, <2>2, <2>3 DEF InstanceRecorded
<1>3. [file |-> "ok", group |-> group, instance |-> InstanceRecorded] \in Outputs
  BY <1>2 DEF TypeOK, Outputs
<1> QED
  BY <1>1, <1>3 DEF ProvisionStep, TeardownStep, EnsureBucket, EnsureIam, EnsureKey,
     WriteKey, EnsureGroup, EnsureRule, Skip, AlreadyRunning, Launch, WaitRunning,
     WriteOutputs, LoadOutputs, Terminate, WaitTerminated, DeleteGroup, GroupStillUsed,
     DeleteKey, DeleteKeyFile, DeleteIam, DeleteBucket, UnlinkOutputs, cloud, files

LEMMA AwsTyped ==
  ASSUME TypeOK, OneUp, AwsStep
  PROVE  TypeOK'
<1>1. Nothing \in 0..MaxRuns
  BY ProvisionAssumption DEF Nothing
<1>2. /\ keypair' \in {keypair, Nothing}
      /\ UNCHANGED <<bucket, iam, group, rules, files, pc, job, exit, runs>>
  BY DEF AwsStep, Boots, ShutsDown, IsStopped, IsStarted, Becomes, KeyDeleted
<1>3. instance' \in [Numbers -> Instances]
  <2>1. ASSUME NEW n \in Numbers, NEW state \in States, NEW halted \in BOOLEAN,
               Moved(n, state, halted)
        PROVE  instance'[n] \in Instances
    BY <2>1, InstanceTyped DEF Moved, Instances
  <2>2. ASSUME NEW n \in Numbers PROVE instance'[n] \in Instances
    BY <2>1, AwsEffect DEF TypeOK
  <2>3. DOMAIN instance' = Numbers /\ instance' = [n \in Numbers |-> instance'[n]]
    BY DEF TypeOK, AwsStep, Boots, ShutsDown, IsStopped, IsStarted, Becomes, KeyDeleted
  <2> QED
    BY <2>2, <2>3
<1> QED
  BY <1>1, <1>2, <1>3 DEF TypeOK, files

LEMMA KeepsTypes ==
  ASSUME TypeOK, OneUp, Next
  PROVE  TypeOK'
<1>1. CASE ProvisionStep \/ TeardownStep
  BY <1>1, ControlTyped, ResourcesTyped, InstancesTyped, OutputsTyped DEF TypeOK
<1>2. CASE Fails
  <2>1. UNCHANGED <<cloud, files>>
    BY <1>2 DEF Fails
  <2> QED
    BY <1>2, <2>1, ControlTyped DEF TypeOK, cloud, files
<1> QED
  BY <1>1, <1>2, StartTyped, AwsTyped DEF Next

-----------------------------------------------------------------------------
(* The invariant *)

LEMMA InitInv == Init => Inv
<1> SUFFICES ASSUME Init PROVE Inv
  OBVIOUS
<1>1. NotLaunched \in Instances /\ NoOutputs \in Outputs /\ 0 \in 0..MaxRuns
      /\ 0 \in Torn..MaxRuns
  BY ProvisionAssumption DEF NotLaunched, Instances, States, NoOutputs, Outputs, Nothing, Torn
<1>2. TypeOK
  BY <1>1, NoJobTyped DEF Init, TypeOK, Labels, Nothing
<1>3. \A n \in Numbers : instance[n].state = "none"
  BY DEF Init, NotLaunched
<1>4. Control /\ BucketMade /\ IamMade /\ KeyMade /\ KeyNew /\ GroupMade /\ InstanceMade
  BY DEF Init, Control, BucketMade, IamMade, KeyMade, KeyNew, GroupMade, InstanceMade,
     ProvisionLabels, TeardownLabels
<1>5. InstancesGone /\ GroupGone /\ KeyGone /\ IamGone
  BY DEF Init, InstancesGone, GroupGone, KeyGone, IamGone, Unmade, TeardownLabels
<1>6. Equipped /\ OneUp
  BY <1>3 DEF Equipped, OneUp, Up, Alive
<1> QED
  BY <1>2, <1>4, <1>5, <1>6 DEF Inv

LEMMA IdleInv ==
  ASSUME Inv, UNCHANGED vars
  PROVE  Inv'
  BY DEF Inv, TypeOK, Control, BucketMade, IamMade, KeyMade, KeyNew, GroupMade,
     InstanceMade, InstancesGone, GroupGone, KeyGone, IamGone, Unmade, Equipped, OneUp, Up, vars, cloud, files

LEMMA NextInv ==
  ASSUME Inv, Next
  PROVE  Inv'
<1>1. TypeOK'
  BY KeepsTypes DEF Inv
<1>2. /\ Control' /\ BucketMade' /\ IamMade' /\ KeyMade' /\ KeyNew' /\ GroupMade'
      /\ InstanceMade'
  BY KeepsControl, KeepsBucketMade, KeepsIamMade, KeepsKeyMade, KeepsKeyNew, KeepsGroupMade,
     KeepsInstanceMade
<1>3. InstancesGone' /\ GroupGone' /\ KeyGone' /\ IamGone'
  BY KeepsInstancesGone, KeepsGroupGone, KeepsKeyGone, KeepsIamGone
<1> QED
  BY <1>1, <1>2, <1>3, KeepsEquipped, KeepsOneUp DEF Inv

\* The invariant holds in every state that is reached.
THEOREM ProvisionInvariant ==
  Spec => []Inv
<1>1. Inv /\ [Next]_vars => Inv'
  BY NextInv, IdleInv
<1> QED
  BY <1>1, InitInv, PTL DEF Spec

-----------------------------------------------------------------------------
(* What follows from it *)

\* Every variable keeps its type.
THEOREM ProvisionTypeCorrect ==
  Spec => []TypeOK
  BY ProvisionInvariant, PTL DEF Inv

\* No second instance is launched beside one that runs.
THEOREM NoSecondInstance ==
  Spec => []OneRunning
<1>1. ASSUME OneUp PROVE OneRunning
  <2> DEFINE S == {n \in InState({"pending", "running"}) : ~instance[n].halted}
  <2>1. \A m, n \in S : m = n
    BY <1>1 DEF OneUp, Up, InState
  <2>2. CASE S = {}
    <3>1. Cardinality(S) = 0
      BY <2>2, FS_EmptySet
    <3> QED
      BY <3>1 DEF OneRunning
  <2>3. CASE S # {}
    <3>1. PICK n : n \in S
      BY <2>3
    <3>2. S = {n}
      BY <2>1, <3>1
    <3>3. Cardinality(S) = 1
      BY <3>2, FS_Singleton
    <3> QED
      BY <3>3 DEF OneRunning
  <2> QED
    BY <2>2, <2>3
<1>2. Inv => OneRunning
  BY <1>1 DEF Inv
<1> QED
  BY <1>2, ProvisionInvariant, PTL

\* A teardown.py --all that returns 0 has left nothing but the bucket.
THEOREM TeardownCompletes ==
  Spec => TornDown
<1> DEFINE P == (job.script = "teardown" /\ job.all /\ exit' = "ok")
       => /\ InState(Alive) = {} /\ iam = {}
          /\ keypair = Nothing /\ pem = Nothing
          /\ group # outputs.group \/ group = Nothing
<1>1. ASSUME Inv, Next, job.script = "teardown", exit' = "ok"
      PROVE  UnlinkOutputs
  <2>1. pc # "idle" /\ exit # "ok" /\ pc \notin ProvisionLabels
    BY <1>1 DEF Inv, Control, NoJob
  <2> QED
    BY <1>1, <2>1 DEF Next, StartProvision, StartTeardown, Start, Fails, ProvisionStep,
       TeardownStep, EnsureBucket, EnsureIam, EnsureKey, WriteKey, EnsureGroup, EnsureRule,
       Skip, AlreadyRunning, Launch, WaitRunning, WriteOutputs, LoadOutputs, Terminate,
       WaitTerminated, DeleteGroup, GroupStillUsed, DeleteKey, DeleteKeyFile, DeleteIam,
       DeleteBucket, AwsStep, Boots, ShutsDown, IsStopped, IsStarted, Becomes, KeyDeleted,
       Goto, GotoWith, Exit, ProvisionLabels
<1>2. ASSUME Inv, Next PROVE P
  <2> SUFFICES ASSUME job.script = "teardown", job.all, exit' = "ok" PROVE P
    OBVIOUS
  <2>1. pc = "unlink"
    BY <1>1, <1>2 DEF UnlinkOutputs
  <2>2. InState(Alive) = {}
    BY <1>2, <2>1 DEF Inv, InstancesGone, TeardownLabels, InState
  <2>3. iam = {}
    BY <1>2, <2>1 DEF Inv, TypeOK, IamGone, Unmade, IamParts
  <2> QED
    BY <1>2, <2>1, <2>2, <2>3 DEF Inv, KeyGone, GroupGone, Unmade
<1>3. Inv /\ [Next]_vars => [P]_vars
  BY <1>2
<1> QED
  BY <1>3, ProvisionInvariant, PTL DEF Spec, TornDown

\* No run of either script touches the key pair or its file while there is an
\* instance they may be needed for.
THEOREM KeyStays ==
  Spec => KeyIsKept
<1>1. ASSUME Inv, Next, InState(Alive) # {} PROVE UNCHANGED <<keypair, pem>>
  <2>1. PICK n \in Numbers : instance[n].state \in Alive
    BY <1>1 DEF InState
  <2>2. keypair # Nothing /\ pem # Nothing
    BY <1>1, <2>1 DEF Inv, Equipped
  <2>3. ~WriteKey /\ ~DeleteKey /\ ~DeleteKeyFile
    BY <1>1, <2>1 DEF Inv, KeyNew, InstancesGone, TeardownLabels, WriteKey, DeleteKey,
       DeleteKeyFile
  <2>4. ~KeyDeleted /\ (EnsureKey => UNCHANGED <<keypair, pem>>)
    BY <2>2 DEF KeyDeleted, LostKey, EnsureKey, files
  <2> QED
    BY <1>1, <2>3, <2>4 DEF Next, StartProvision, StartTeardown, Start, Fails, ProvisionStep,
       TeardownStep, EnsureBucket, EnsureIam, EnsureGroup, EnsureRule, Skip, AlreadyRunning,
       Launch, WaitRunning, WriteOutputs, LoadOutputs, Terminate, WaitTerminated,
       DeleteGroup, GroupStillUsed, DeleteIam, DeleteBucket, UnlinkOutputs, AwsStep, Boots,
       ShutsDown, IsStopped, IsStarted, Becomes, cloud, files
<1>2. Inv /\ [Next]_vars => [InState(Alive) # {} => UNCHANGED <<keypair, pem>>]_vars
  BY <1>1
<1> QED
  BY <1>2, ProvisionInvariant, PTL DEF Spec, KeyIsKept

\* An instance that runs or can be started again has its key pair and a key
\* file, its security group with both rules and its profile.
THEOREM EveryInstanceEquipped ==
  Spec => []InstanceEquipped
<1>1. Inv => InstanceEquipped
  BY DEF Inv, Equipped, InstanceEquipped, InState
<1> QED
  BY <1>1, ProvisionInvariant, PTL

\* A provision.py that returns 0 has left everything in place and recorded; of
\* the key file only that there is one.
THEOREM ProvisionCompletes ==
  Spec => FinishedIsComplete
<1> DEFINE P == (job.script = "provision" /\ exit' = "ok")
       => /\ bucket = BucketParts /\ iam = IamParts /\ rules = Rules
          /\ keypair # Nothing /\ pem # Nothing
          /\ group # Nothing /\ outputs'.group = group
          /\ job.launch => /\ outputs'.instance \in Numbers
                           /\ instance[outputs'.instance].state \in Alive
<1>1. ASSUME Inv, Next, job.script = "provision", exit' = "ok"
      PROVE  WriteOutputs
  <2>1. pc # "idle" /\ exit # "ok" /\ pc \notin TeardownLabels
    BY <1>1 DEF Inv, Control, NoJob
  <2> QED
    BY <1>1, <2>1 DEF Next, StartProvision, StartTeardown, Start, Fails, ProvisionStep,
       TeardownStep, EnsureBucket, EnsureIam, EnsureKey, WriteKey, EnsureGroup, EnsureRule,
       Skip, AlreadyRunning, Launch, WaitRunning, LoadOutputs, Terminate, WaitTerminated,
       DeleteGroup, GroupStillUsed, DeleteKey, DeleteKeyFile, DeleteIam, DeleteBucket,
       UnlinkOutputs, AwsStep, Boots, ShutsDown, IsStopped, IsStarted, Becomes, KeyDeleted,
       Goto, GotoWith, Exit, TeardownLabels
<1>2. ASSUME Inv, Next PROVE P
  <2> SUFFICES ASSUME job.script = "provision", exit' = "ok" PROVE P
    OBVIOUS
  <2>1. /\ pc = "outputs"
        /\ outputs' = [file |-> "ok", group |-> group, instance |-> InstanceRecorded]
    BY <1>1, <1>2 DEF WriteOutputs, Exit
  <2>2. bucket = BucketParts
    BY <1>2, <2>1 DEF Inv, TypeOK, BucketMade, BucketParts, ProvisionLabels
  <2>3. /\ iam = IamParts /\ rules = Rules /\ keypair # Nothing /\ pem # Nothing
        /\ group # Nothing
    BY <1>2, <2>1 DEF Inv, IamMade, KeyMade, GroupMade
  <2>4. ASSUME job.launch
        PROVE  outputs'.instance \in Numbers /\ instance[outputs'.instance].state \in Alive
    <3>1. PICK n \in Numbers : job.awaited = {n} /\ instance[n].state \in Alive
      BY <1>2, <2>1, <2>4 DEF Inv, InstanceMade
    <3>2. InstanceRecorded = n
      BY <3>1 DEF InstanceRecorded
    <3> QED
      BY <2>1, <3>1, <3>2
  <2> QED
    BY <2>1, <2>2, <2>3, <2>4
<1>3. Inv /\ [Next]_vars => [P]_vars
  BY <1>2
<1> QED
  BY <1>3, ProvisionInvariant, PTL DEF Spec, FinishedIsComplete
=============================================================================
