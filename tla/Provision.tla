----------------------------- MODULE Provision -----------------------------
(***************************************************************************)
(* The AWS resources of the project and the two scripts that make and      *)
(* destroy them: infra/provision.py and infra/teardown.py.  Every API call *)
(* and every write of a local file is a step; a script may raise or be     *)
(* killed before any of them, so also after the call before it took effect *)
(* and before its answer was used.  One person runs one script at a time   *)
(* (the scripts share two local files), so "look, then create what is      *)
(* missing" is one step.                                                   *)
(*                                                                         *)
(* AWS is modelled by what the scripts ask of it: instances boot and shut  *)
(* down on their own, somebody may stop and start them in the console, a   *)
(* security group in use cannot be deleted.                                *)
(***************************************************************************)
EXTENDS Integers, FiniteSets

CONSTANTS
  MaxRuns,  \* bound: how many scripts are started in a behaviour
  Console   \* what somebody does in the AWS console, of {"stop", "start"}

ASSUME ProvisionAssumption ==
  /\ MaxRuns \in Nat
  /\ Console \subseteq {"stop", "start"}

\* What a script makes is named by the number of that script: each makes at
\* most one key pair, one security group and one instance.
Numbers == 1..MaxRuns
Nothing == 0
Torn == -1          \* a key file that was written in part
GroupAttempts == 6  \* range(1, 7) around delete_security_group

VARIABLES
  bucket,    \* what has been done to the S3 bucket
  iam,       \* the parts of the instance profile that exist
  keypair,   \* the key pair in AWS
  pem,       \* whose private half the local key file holds
  group,     \* the security group
  rules,     \* its ingress rules
  instance,  \* the instances ever launched
  outputs,   \* infra/outputs.json
  pc, job,   \* where the running script is, and its local state
  exit,      \* how the last script ended
  runs       \* bound: scripts started so far

cloud == <<bucket, iam, keypair, group, rules, instance>>
files == <<pem, outputs>>
vars == <<cloud, files, pc, job, exit, runs>>

BucketParts == {"made", "versioned", "private", "pruned", "tagged"}
IamParts == {"role", "policy", "profile", "attached"}
Rules == {"ssh", "http"}

States == {"none", "pending", "running", "stopped", "shutting", "terminated"}
NotLaunched ==
  [state |-> "none", key |-> Nothing, group |-> Nothing, halted |-> FALSE]
Instances ==
  [state : States, key : 0..MaxRuns, group : 0..MaxRuns,
   halted : BOOLEAN]   \* it has been stopped in the console

NoOutputs == [file |-> "none", group |-> Nothing, instance |-> Nothing]
Outputs == [file : {"none", "bad", "ok"}, group : 0..MaxRuns, instance : 0..MaxRuns]

Jobs ==
  [script  : {"none", "provision", "teardown"},
   launch  : BOOLEAN,           \* not --skip-instance
   all     : BOOLEAN,           \* --all
   data    : BOOLEAN,           \* --delete-bucket
   confirm : BOOLEAN,           \* --confirm
   group   : 0..MaxRuns,        \* security_group_id as read from outputs.json
   awaited : SUBSET Numbers,    \* instances the script waits for
   attempt : 1..GroupAttempts]

NoJob ==
  [script |-> "none", launch |-> FALSE, all |-> FALSE, data |-> FALSE,
   confirm |-> FALSE, group |-> Nothing, awaited |-> {}, attempt |-> 1]

Labels ==
  {"idle", "made", "versioned", "private", "pruned", "tagged",
   "role", "policy", "profile", "attached", "key", "pem", "group", "ssh", "http",
   "launch", "wait", "outputs", "load", "terminate", "gone", "del_group",
   "del_key", "del_pem", "detach", "del_profile", "del_policy", "del_role",
   "data", "unlink"}

\* The type of every variable.
TypeOK ==
  /\ bucket \subseteq BucketParts /\ iam \subseteq IamParts /\ rules \subseteq Rules
  /\ keypair \in 0..MaxRuns /\ pem \in Torn..MaxRuns /\ group \in 0..MaxRuns
  /\ instance \in [Numbers -> Instances]
  /\ outputs \in Outputs
  /\ pc \in Labels /\ job \in Jobs
  /\ exit \in {"none", "ok", "failed"}
  /\ runs \in 0..MaxRuns /\ (pc # "idle" => runs \in Numbers)

Init ==
  /\ bucket = {} /\ iam = {} /\ rules = {}
  /\ keypair = Nothing /\ pem = Nothing /\ group = Nothing
  /\ instance = [n \in Numbers |-> NotLaunched]
  /\ outputs = NoOutputs
  /\ pc = "idle" /\ job = NoJob /\ exit = "none" /\ runs = 0

-----------------------------------------------------------------------------
(* Control of a script *)

Goto(label) == pc' = label /\ UNCHANGED <<job, exit, runs>>
GotoWith(label, j) == pc' = label /\ job' = j /\ UNCHANGED <<exit, runs>>
Exit(status) == pc' = "idle" /\ job' = NoJob /\ exit' = status /\ UNCHANGED runs

Start(label, j) ==
  /\ pc = "idle" /\ runs < MaxRuns
  /\ pc' = label /\ job' = j /\ exit' = "none" /\ runs' = runs + 1
  /\ UNCHANGED <<cloud, files>>

StartProvision ==
  \E launch \in BOOLEAN :
    Start("made", [NoJob EXCEPT !.script = "provision", !.launch = launch])

StartTeardown ==
  \E all, data, confirm \in BOOLEAN :
    Start("load", [NoJob EXCEPT !.script = "teardown", !.all = all,
                                !.data = data, !.confirm = confirm])

\* An API call raises, a waiter gives up, a file cannot be written, the bucket
\* name is taken, there is no default VPC, or the script is interrupted.
Fails ==
  /\ pc # "idle"
  /\ Exit("failed")
  /\ UNCHANGED <<cloud, files>>

-----------------------------------------------------------------------------
(* provision.py: bucket and instance profile *)

EnsureBucketOnce(part, next) ==   \* slip: the settings only for a new bucket
  /\ pc = part
  /\ bucket' = bucket \cup {part}
  /\ Goto(IF part = "made" /\ part \in bucket THEN "role" ELSE next)
  /\ UNCHANGED <<iam, keypair, group, rules, instance, files>>

EnsureBucket(part, next) ==
  /\ pc = part
  /\ bucket' = bucket \cup {part}
  /\ Goto(next)
  /\ UNCHANGED <<iam, keypair, group, rules, instance, files>>

EnsureIamOnce(part, next) ==   \* slip: the role is added to a new profile only
  /\ pc = part
  /\ iam' = iam \cup {part}
  /\ Goto(IF part = "profile" /\ part \in iam THEN "key" ELSE next)
  /\ UNCHANGED <<bucket, keypair, group, rules, instance, files>>

EnsureIam(part, next) ==
  /\ pc = part
  /\ iam' = iam \cup {part}
  /\ Goto(next)
  /\ UNCHANGED <<bucket, keypair, group, rules, instance, files>>

-----------------------------------------------------------------------------
(* provision.py: key pair *)

\* Whether the file that is there fits is not asked.
FindsKey == keypair # Nothing /\ pem # Nothing
LostKey == keypair # Nothing /\ pem = Nothing

EnsureKey ==
  /\ pc = "key"
  /\ \/ FindsKey /\ Goto("group") /\ UNCHANGED keypair
     \/ LostKey /\ Exit("failed") /\ UNCHANGED keypair
     \/ keypair = Nothing /\ keypair' = runs /\ Goto("pem")
  /\ UNCHANGED <<bucket, iam, group, rules, instance, files>>

\* The answer of create_key_pair is the only copy of the private key; the write
\* may break off and leave a part of it.
WriteKey ==
  /\ pc = "pem"
  /\ \/ pem' = keypair /\ Goto("group")
     \/ pem' = Torn /\ Exit("failed")
  /\ UNCHANGED <<cloud, outputs>>

-----------------------------------------------------------------------------
(* provision.py: security group and instance *)

EnsureGroup ==
  /\ pc = "group"
  /\ \/ group # Nothing /\ UNCHANGED <<group, rules>>
     \/ group = Nothing /\ group' = runs /\ rules' = {}
  /\ Goto("ssh")
  /\ UNCHANGED <<bucket, iam, keypair, instance, files>>

\* A rule that is there already is an InvalidPermission.Duplicate, and fine.
EnsureRule(rule, next) ==
  /\ pc = rule
  /\ rules' = rules \cup {rule}
  /\ Goto(next)
  /\ UNCHANGED <<bucket, iam, keypair, group, instance, files>>

InState(states) == {n \in Numbers : instance[n].state \in states}

UpOnly == InState({"running"})   \* slip: an instance that boots is not found
Running == InState({"pending", "running"})

Skip ==
  /\ pc = "launch" /\ ~job.launch
  /\ Goto("outputs")
  /\ UNCHANGED <<cloud, files>>

AlreadyRunning ==
  /\ pc = "launch" /\ job.launch
  /\ \E n \in Running : GotoWith("wait", [job EXCEPT !.awaited = {n}])
  /\ UNCHANGED <<cloud, files>>

Launch ==
  /\ pc = "launch" /\ job.launch
  /\ Running = {}
  /\ instance' = [instance EXCEPT ![runs] =
                    [state |-> "pending", key |-> keypair, group |-> group,
                     halted |-> FALSE]]
  /\ GotoWith("wait", [job EXCEPT !.awaited = {runs}])
  /\ UNCHANGED <<bucket, iam, keypair, group, rules, files>>

WaitRunning ==
  /\ pc = "wait"
  /\ \/ job.awaited \subseteq InState({"running"}) /\ Goto("outputs")
     \/ Exit("failed")   \* the waiter gives up
  /\ UNCHANGED <<cloud, files>>

\* What is recorded already is kept, unless the file cannot be read.
InstanceRecorded ==
  IF job.awaited # {} THEN CHOOSE n \in Numbers : n \in job.awaited
  ELSE IF outputs.file = "ok" THEN outputs.instance ELSE Nothing

WriteOutputs ==
  /\ pc = "outputs"
  /\ \/ /\ outputs' = [file |-> "ok", group |-> group, instance |-> InstanceRecorded]
        /\ Exit("ok")
     \/ outputs' = [NoOutputs EXCEPT !.file = "bad"] /\ Exit("failed")   \* it breaks off
  /\ UNCHANGED <<cloud, pem>>

-----------------------------------------------------------------------------
(* teardown.py: the instances first *)

LoadOutputs ==
  /\ pc = "load"
  /\ \/ outputs.file # "ok" /\ Exit("failed")
     \/ outputs.file = "ok" /\ GotoWith("terminate", [job EXCEPT !.group = outputs.group])
  /\ UNCHANGED <<cloud, files>>

RunningOnly == InState({"pending", "running"})   \* slip: a stopped one is left out
Terminable == InState({"pending", "running", "stopped"})

AfterInstances == IF job.all THEN "del_group" ELSE "data"

Terminate ==
  /\ pc = "terminate"
  /\ instance' = [n \in Numbers |->
       IF n \in Terminable THEN [instance[n] EXCEPT !.state = "shutting"] ELSE instance[n]]
  /\ GotoWith(IF Terminable = {} THEN AfterInstances ELSE "gone",
              [job EXCEPT !.awaited = Terminable])
  /\ UNCHANGED <<bucket, iam, keypair, group, rules, files>>

WaitTerminated ==
  /\ pc = "gone"
  /\ \/ job.awaited \subseteq InState({"terminated"}) /\ Goto(AfterInstances)
     \/ Exit("failed")   \* the waiter gives up
  /\ UNCHANGED <<cloud, files>>

-----------------------------------------------------------------------------
(* teardown.py --all: security group, key pair, instance profile *)

\* Only an instance that is gone for good has released its interface.
InUse(g) == \E n \in InState(States \ {"none", "terminated"}) : instance[n].group = g

DeleteGroup ==
  /\ pc = "del_group"
  /\ \/ job.group # group /\ UNCHANGED <<group, rules>>      \* NotFound: already gone
     \/ job.group = group /\ ~InUse(group) /\ group' = Nothing /\ rules' = {}
  /\ Goto("del_key")
  /\ UNCHANGED <<bucket, iam, keypair, instance, files>>

GroupUsedOnceMore ==   \* slip: off by one
  /\ pc = "del_group" /\ job.group = group /\ InUse(group)
  /\ \/ job.attempt <= GroupAttempts
        /\ GotoWith("del_group", [job EXCEPT !.attempt = @ + 1])
     \/ job.attempt > GroupAttempts /\ Exit("failed")
  /\ UNCHANGED <<cloud, files>>

GroupAwaited ==   \* slip: `while True`
  /\ pc = "del_group" /\ job.group = group /\ InUse(group)
  /\ UNCHANGED vars

GroupStillUsed ==
  /\ pc = "del_group" /\ job.group = group /\ InUse(group)
  /\ \/ job.attempt < GroupAttempts
        /\ GotoWith("del_group", [job EXCEPT !.attempt = @ + 1])
     \/ job.attempt = GroupAttempts /\ Exit("failed")
  /\ UNCHANGED <<cloud, files>>

DeleteKey ==
  /\ pc = "del_key"
  /\ keypair' = Nothing
  /\ Goto("del_pem")
  /\ UNCHANGED <<bucket, iam, group, rules, instance, files>>

DeleteKeyFile ==
  /\ pc = "del_pem"
  /\ pem' = Nothing
  /\ Goto("detach")
  /\ UNCHANGED <<cloud, outputs>>

DeleteIamUntilMissing(label, part, next) ==   \* slip: NoSuchEntity ends delete_iam
  /\ pc = label
  /\ iam' = iam \ {part}
  /\ Goto(IF part \in iam THEN next ELSE "data")
  /\ UNCHANGED <<bucket, keypair, group, rules, instance, files>>

\* Whatever does not exist any more is a NoSuchEntity, and fine.
DeleteIam(label, part, next) ==
  /\ pc = label
  /\ iam' = iam \ {part}
  /\ Goto(next)
  /\ UNCHANGED <<bucket, keypair, group, rules, instance, files>>

-----------------------------------------------------------------------------
(* teardown.py --delete-bucket *)

\* Without --confirm it is refused; a bucket that is gone is a NoSuchBucket.
DeleteBucket ==
  /\ pc = "data"
  /\ \/ job.data /\ (~job.confirm \/ bucket = {}) /\ Exit("failed") /\ UNCHANGED bucket
     \/ job.data /\ job.confirm /\ bucket # {} /\ bucket' = {} /\ Goto("unlink")
     \/ ~job.data /\ Goto("unlink") /\ UNCHANGED bucket
  /\ UNCHANGED <<iam, keypair, group, rules, instance, files>>

UnlinkOutputs ==
  /\ pc = "unlink"
  /\ outputs' = IF job.all /\ job.data THEN NoOutputs ELSE outputs
  /\ Exit("ok")
  /\ UNCHANGED <<cloud, pem>>

-----------------------------------------------------------------------------
(* AWS and its console *)

Becomes(before, after) ==
  /\ \E n \in InState({before}) : instance' = [instance EXCEPT ![n].state = after]
  /\ UNCHANGED <<bucket, iam, keypair, group, rules, files, pc, job, exit, runs>>

Boots == Becomes("pending", "running")
ShutsDown == Becomes("shutting", "terminated")

IsStopped ==
  /\ "stop" \in Console
  /\ \E n \in InState({"running"}) :
       instance' = [instance EXCEPT ![n].state = "stopped", ![n].halted = TRUE]
  /\ UNCHANGED <<bucket, iam, keypair, group, rules, files, pc, job, exit, runs>>

IsStarted == "start" \in Console /\ Becomes("stopped", "pending")

\* What provision.py asks for when the key file is lost: the key pair is
\* deleted in the console.
KeyDeleted ==
  /\ pc = "idle" /\ LostKey
  /\ keypair' = Nothing
  /\ UNCHANGED <<bucket, iam, group, rules, instance, files, pc, job, exit, runs>>

-----------------------------------------------------------------------------
ProvisionStep ==
  \/ EnsureBucket("made", "versioned") \/ EnsureBucket("versioned", "private")
  \/ EnsureBucket("private", "pruned") \/ EnsureBucket("pruned", "tagged")
  \/ EnsureBucket("tagged", "role")
  \/ EnsureIam("role", "policy") \/ EnsureIam("policy", "profile")
  \/ EnsureIam("profile", "attached") \/ EnsureIam("attached", "key")
  \/ EnsureKey \/ WriteKey \/ EnsureGroup
  \/ EnsureRule("ssh", "http") \/ EnsureRule("http", "launch")
  \/ Skip \/ AlreadyRunning \/ Launch \/ WaitRunning \/ WriteOutputs

TeardownStep ==
  \/ LoadOutputs \/ Terminate \/ WaitTerminated
  \/ DeleteGroup \/ GroupStillUsed \/ DeleteKey \/ DeleteKeyFile
  \/ DeleteIam("detach", "attached", "del_profile")
  \/ DeleteIam("del_profile", "profile", "del_policy")
  \/ DeleteIam("del_policy", "policy", "del_role")
  \/ DeleteIam("del_role", "role", "data")
  \/ DeleteBucket \/ UnlinkOutputs

AwsStep == Boots \/ ShutsDown \/ IsStopped \/ IsStarted \/ KeyDeleted

Next ==
  \/ StartProvision \/ StartTeardown \/ Fails
  \/ ProvisionStep \/ TeardownStep
  \/ AwsStep

Spec == Init /\ [][Next]_vars

\* A script goes on: API calls return or raise, waiters give up in the end.
\* Nothing is assumed of AWS, so an instance may stay in a state for ever.
FairSpec == Spec /\ WF_vars(ProvisionStep \/ TeardownStep)

-----------------------------------------------------------------------------
(* What must hold *)

Alive == {"pending", "running", "stopped"}

\* An instance that runs or may be started again has what it was launched with:
\* its key pair and a file for it, its security group with both rules, its
\* profile with role and policy.  It rests on the order of both scripts
\* (provision.py:459-480, teardown.py:8-10).  Whether the file fits the key pair
\* is another matter, see KeyFileFits.
InstanceEquipped ==
  \A n \in InState(Alive) :
    /\ instance[n].key = keypair /\ keypair # Nothing /\ pem # Nothing
    /\ instance[n].group = group /\ rules = Rules
    /\ iam = IamParts

\* As long as an instance runs or may be started again, no run of either script
\* replaces or removes its key pair or the local key file, the only copy of the
\* private half (provision.py:263-280, teardown.py:46-68 and 91-100).
KeyIsKept == [][InState(Alive) # {} => UNCHANGED <<keypair, pem>>]_vars

\* Scripts that broke off after run_instances and before outputs.json was
\* written lead to no second instance: apart from those somebody has stopped
\* and started, at most one is running (provision.py:4-6).
OneRunning == Cardinality({n \in InState({"pending", "running"}) : ~instance[n].halted}) <= 1

\* provision.py that returns 0 has left everything in place, also what an
\* earlier run broke off in the middle of - of the local key file only that
\* there is one - and has recorded the group and an instance that exists.
FinishedIsComplete ==
  [][(job.script = "provision" /\ exit' = "ok")
       => /\ bucket = BucketParts /\ iam = IamParts /\ rules = Rules
          /\ keypair # Nothing /\ pem # Nothing
          /\ group # Nothing /\ outputs'.group = group
          /\ job.launch => /\ outputs'.instance \in Numbers
                           /\ instance[outputs'.instance].state \in Alive]_vars

\* teardown.py --all that returns 0 has left nothing behind but the bucket:
\* no instance that could run, no key and no part of the profile, and not the
\* security group outputs.json names.
TornDown ==
  [][(job.script = "teardown" /\ job.all /\ exit' = "ok")
       => /\ InState(Alive) = {} /\ iam = {}
          /\ keypair = Nothing /\ pem = Nothing
          /\ group # outputs.group \/ group = Nothing]_vars

\* Every script ends: no waiter and no retry goes on for ever, even if AWS
\* never gets an instance out of the state it is in.
EveryScriptEnds == pc # "idle" ~> pc = "idle"

-----------------------------------------------------------------------------
(* What the code's documentation says and the code does not do *)

\* provision.py:4-6: "a second run reports what already exists instead of
\* failing or making duplicates".
NoDuplicates == Cardinality(InState(Alive)) <= 1

\* provision.py:263-275: a key pair whose .pem is missing is refused, "You cannot
\* re-download a private key" - but a .pem that was cut, or that belongs to an
\* earlier key pair, is taken for the key.
KeyFileFits == \A n \in InState(Alive) : instance[n].key = pem

\* teardown.py:14: "--all  # also delete IAM role, SG, key".
GroupIsDeleted ==
  [][(job.script = "teardown" /\ job.all /\ exit' = "ok") => group = Nothing]_vars
=============================================================================
