-------------------------- MODULE MCLivenessProofs --------------------------
(***************************************************************************)
(* What is proved of the components of MCLiveness: that the reservations   *)
(* of Beaker jobs and of OpenStack nodes implement Lease and what else     *)
(* keeps their resources sound, for any number of jobs, recipes, machines, *)
(* signals, nodes of other jobs and teardowns; that the search of          *)
(* test_match is right, for names and patterns of any length; and that the *)
(* specification that runs the components side by side keeps leases and    *)
(* resources.                                                              *)
(***************************************************************************)
EXTENDS MCLiveness, SequenceTheorems, FiniteSetTheorems, TLAPS

\* The components count as this module does.
LEMMA SameCardinality ==
    ASSUME NEW S
    PROVE  Machine!Cardinality(S) = Cardinality(S) /\ Cloud!Cardinality(S) = Cardinality(S)
  BY DEF Machine!Cardinality, Cloud!Cardinality, Cardinality

-----------------------------------------------------------------------------
(* Jobs of Beaker. *)

\* Where a job that was submitted is not yet given up or handed over.
Holding == {"submitted", "polling", "cancel", "quit", "reserved"}

\* The types the argument needs.
MachineType ==
    /\ prov \in {"repos", "target", "upload", "submitted", "polling", "cancel",
                 "quit", "reserved", "hosts", "again", "playbook",
                 "ok", "failed", "killed"}
    /\ job \in 0..MaxJobs /\ envjob \in 0..MaxJobs
    /\ jobs \in [1..MaxJobs -> {"none", "live", "stopped"}]

\* Jobs are submitted in order, and all but the last are stopped; before another
\* one is submitted the last is stopped too.
InOrder ==
    /\ \A j \in 1..MaxJobs : j > job => jobs[j] = "none"
    /\ \A j \in 1..MaxJobs : j < job => jobs[j] = "stopped"
    /\ prov \in {"repos", "target"} => job = 0
    /\ prov = "upload" /\ job > 0 => jobs[job] = "stopped"
    /\ prov \in Holding => job > 0 /\ jobs[job] = "live"

\* The recorded job is the last one, and nothing but the teardown stops it.
RecordedIsLast ==
    /\ envjob # 0 => /\ envjob = job
                      /\ prov \in {"hosts", "again", "playbook"} \cup {"ok", "failed", "killed"}
    /\ envjob # 0 /\ teardown = "none" => jobs[envjob] = "live"
    /\ ~Machine!Over => teardown = "none"
    /\ teardown = "cleaning" => envjob # 0 /\ jobs[envjob] = "live"

MachineInv == MachineType /\ InOrder /\ RecordedIsLast

\* The invariant holds in every initial state.
LEMMA MachineInvInit ==
    ASSUME Machine!MachineLeaseAssumption, Machine!Init
    PROVE  MachineInv
  BY DEF Machine!MachineLeaseAssumption, Machine!Init, MachineInv, MachineType, InOrder,
         RecordedIsLast,
         Holding, Machine!Over

\* No step of the command, of Beaker or of the teardown breaks it.
LEMMA MachineInvNext ==
    ASSUME Machine!MachineLeaseAssumption, MachineInv, [Machine!Next]_(Machine!vars)
    PROVE  MachineInv'
  <1> USE DEF Machine!MachineLeaseAssumption, MachineInv, MachineType, InOrder,
              RecordedIsLast,
              Holding, Machine!Over
  <1>1. CASE Machine!GenRepos
    BY <1>1 DEF Machine!GenRepos, Machine!given, Machine!server, Machine!files
  <1>2. CASE Machine!LookAt
    BY <1>2 DEF Machine!LookAt, Machine!given, Machine!server, Machine!files
  <1>3. CASE \/ Machine!EnterTry \/ Machine!Poll \/ Machine!PollFails
             \/ Machine!WriteHosts \/ Machine!Prepare
    BY <1>3 DEF Machine!EnterTry, Machine!Poll, Machine!PollFails, Machine!WriteHosts,
                Machine!Prepare, Machine!given, Machine!server, Machine!files
  <1>4. CASE Machine!Upload
    BY <1>4 DEF Machine!Upload, Machine!given, Machine!files
  <1>5. CASE Machine!Cancel
    BY <1>5 DEF Machine!Cancel, Machine!given, Machine!files
  <1>6. CASE Machine!Record
    BY <1>6 DEF Machine!Record, Machine!given, Machine!server
  <1>7. CASE Machine!SigTerm
    BY <1>7 DEF Machine!SigTerm, Machine!given, Machine!server, Machine!files
  <1>8. CASE \E r \in Recipe : Machine!Progress(r)
    BY <1>8 DEF Machine!Progress, Machine!given, Machine!files
  <1>9. CASE Machine!Teardown \/ Machine!TeardownStops
    BY <1>9 DEF Machine!Teardown, Machine!TeardownStops, Machine!given, Machine!server,
                Machine!files
  <1>10. CASE UNCHANGED Machine!vars
    BY <1>10 DEF Machine!vars, Machine!given, Machine!server, Machine!files
  <1> QED
    BY <1>1, <1>2, <1>3, <1>4, <1>5, <1>6, <1>7, <1>8, <1>9, <1>10
       DEF Machine!Next, Machine!Provision

\* Reachable states satisfy the invariant.
LEMMA MachineInvHolds ==
    ASSUME Machine!MachineLeaseAssumption
    PROVE  Machine!Spec => []MachineInv
  <1>1. Machine!Init => MachineInv
    BY MachineInvInit
  <1>2. MachineInv /\ [Machine!Next]_(Machine!vars) => MachineInv'
    BY MachineInvNext
  <1> QED
    BY <1>1, <1>2, PTL DEF Machine!Spec

\* What becomes of one job is what becomes of its lease.
LEMMA HeldFollows ==
    ASSUME MachineType, NEW k \in 1..MaxJobs, NEW status,
           jobs' = [jobs EXCEPT ![k] = status]
    PROVE  Machine!HeldJobs' = [Machine!HeldJobs EXCEPT ![k] = Machine!Held(status)]
  <1>1. \A j \in 1..MaxJobs : jobs'[j] = IF j = k THEN status ELSE jobs[j]
    BY DEF MachineType
  <1>2. \A j \in 1..MaxJobs :
          Machine!Held(jobs'[j]) = IF j = k THEN Machine!Held(status) ELSE Machine!Held(jobs[j])
    BY <1>1
  <1>3. Machine!HeldJobs' = [j \in 1..MaxJobs |-> Machine!Held(jobs'[j])]
    BY DEF Machine!HeldJobs
  <1> QED
    BY <1>2, <1>3 DEF Machine!HeldJobs

\* Initially nothing is taken.
LEMMA MachineInitIsLease ==
    ASSUME Machine!MachineLeaseAssumption, Machine!Init
    PROVE  Machine!Taken!Init
  BY DEF Machine!MachineLeaseAssumption, Machine!Init, Machine!Over, Machine!HeldJobs,
         Machine!Held, Machine!Taken!Init

\* Every step takes, hands over or gives back a job, or ends the provisioning, or
\* changes nothing of the lease.
LEMMA MachineNextIsLease ==
    ASSUME Machine!MachineLeaseAssumption, MachineInv, [Machine!Next]_(Machine!vars)
    PROVE  [Machine!Taken!Next]_(Machine!Taken!vars)
  <1> USE DEF Machine!MachineLeaseAssumption, MachineInv, MachineType, InOrder,
              RecordedIsLast,
              Holding, Machine!Over
  <1>1. ASSUME UNCHANGED <<jobs, envjob>>, Machine!Over => Machine!Over'
        PROVE  Machine!Taken!End \/ UNCHANGED Machine!Taken!vars
    <2>1. UNCHANGED Machine!HeldJobs
      BY <1>1 DEF Machine!HeldJobs
    <2> QED
      BY <1>1, <2>1 DEF Machine!Taken!End, Machine!Taken!vars
  <1>2. CASE \/ Machine!GenRepos \/ Machine!EnterTry \/ Machine!Poll \/ Machine!PollFails
             \/ Machine!WriteHosts \/ Machine!Prepare
    BY <1>1, <1>2 DEF Machine!GenRepos, Machine!EnterTry, Machine!Poll, Machine!PollFails,
                      Machine!WriteHosts, Machine!Prepare,
                      Machine!given, Machine!server, Machine!files, Machine!Taken!Next
  <1>3. CASE Machine!LookAt
    BY <1>1, <1>3 DEF Machine!LookAt, Machine!given, Machine!server, Machine!files,
                      Machine!Taken!Next
  <1>4. CASE Machine!Upload
    <2>1. CASE job' = job + 1
      <3>1. job + 1 \in 1..MaxJobs /\ jobs' = [jobs EXCEPT ![job + 1] = "live"]
        BY <1>4, <2>1 DEF Machine!Upload
      <3>2. \A j \in 1..MaxJobs : jobs[j] # "live"
        BY <1>4 DEF Machine!Upload
      <3>3. Machine!HeldJobs' = [Machine!HeldJobs EXCEPT ![job + 1] = "held"]
        <4>1. Machine!HeldJobs' = [Machine!HeldJobs EXCEPT ![job + 1] = Machine!Held("live")]
          BY <3>1, HeldFollows
        <4> QED
          BY <4>1 DEF Machine!Held
      <3>4. /\ Machine!HeldJobs[job + 1] = "unused"
            /\ \A j \in 1..MaxJobs : Machine!HeldJobs[j] # "held"
        BY <1>4, <3>1, <3>2 DEF Machine!Upload, Machine!HeldJobs, Machine!Held
      <3>5. ~Machine!Over /\ ~Machine!Over' /\ UNCHANGED envjob
        BY <1>4, <2>1 DEF Machine!Upload, Machine!files
      <3>6. Machine!Taken!Take(job + 1)
        BY <3>3, <3>4, <3>5 DEF Machine!Taken!Take
      <3>7. \E j \in 1..MaxJobs : Machine!Taken!Take(j)
        BY <3>1, <3>6, Zenon
      <3> QED
        BY <3>7 DEF Machine!Taken!Next
    <2>2. CASE job' # job + 1
      BY <1>1, <1>4, <2>2 DEF Machine!Upload, Machine!files, Machine!Taken!Next
    <2> QED
      BY <2>1, <2>2
  <1>5. CASE Machine!Cancel
    <2>1. CASE jobs' = [jobs EXCEPT ![job] = "stopped"]
      <3>1. job \in 1..MaxJobs /\ jobs[job] = "live" /\ envjob = 0 /\ UNCHANGED envjob
        BY <1>5 DEF Machine!Cancel, Machine!files
      <3>2. Machine!HeldJobs' = [Machine!HeldJobs EXCEPT ![job] = "freed"]
        <4>1. Machine!HeldJobs' = [Machine!HeldJobs EXCEPT ![job] = Machine!Held("stopped")]
          BY <2>1, <3>1, HeldFollows
        <4> QED
          BY <4>1 DEF Machine!Held
      <3>3. ~Machine!Over
        BY <1>5 DEF Machine!Cancel
      <3>4. Machine!HeldJobs[job] = "held"
        BY <3>1 DEF Machine!HeldJobs, Machine!Held
      <3>5. Machine!Taken!Give(job)
        BY <3>1, <3>2, <3>3, <3>4 DEF Machine!Taken!Give, Machine!Taken!MayEnd
      <3> QED
        BY <3>1, <3>5 DEF Machine!Taken!Next
    <2>2. CASE UNCHANGED jobs
      BY <1>1, <1>5, <2>2 DEF Machine!Cancel, Machine!files, Machine!Taken!Next
    <2> QED
      BY <1>5, <2>1, <2>2 DEF Machine!Cancel
  <1>6. CASE Machine!Record
    <2>1. CASE target = <<>>
      <3>1. job \in 1..MaxJobs /\ Machine!Taken!Note(job)
        BY <1>6, <2>1 DEF Machine!Record, Machine!server, Machine!HeldJobs, Machine!Held,
                          Machine!Taken!Note, Machine!Taken!MayEnd
      <3> QED
        BY <3>1 DEF Machine!Taken!Next
    <2>2. CASE target # <<>>
      BY <1>1, <1>6, <2>2 DEF Machine!Record, Machine!server, Machine!Taken!Next
    <2> QED
      BY <2>1, <2>2
  <1>7. CASE Machine!SigTerm
    BY <1>1, <1>7 DEF Machine!SigTerm, Machine!given, Machine!server, Machine!files,
                      Machine!Taken!Next
  <1>8. CASE \E r \in Recipe : Machine!Progress(r)
    BY <1>1, <1>8 DEF Machine!Progress, Machine!given, Machine!files, Machine!Taken!Next
  <1>9. CASE Machine!Teardown
    BY <1>1, <1>9 DEF Machine!Teardown, Machine!given, Machine!server, Machine!files,
                      Machine!Taken!Next
  <1>10. CASE Machine!TeardownStops
    <2>1. /\ envjob \in 1..MaxJobs /\ jobs[envjob] = "live" /\ Machine!Over
          /\ UNCHANGED <<envjob, prov>>
      BY <1>10 DEF Machine!TeardownStops, Machine!files
    <2>2. Machine!HeldJobs' = [Machine!HeldJobs EXCEPT ![envjob] = "freed"]
      <3>1. Machine!HeldJobs' = [Machine!HeldJobs EXCEPT ![envjob] = Machine!Held("stopped")]
        BY <1>10, <2>1, HeldFollows DEF Machine!TeardownStops
      <3> QED
        BY <3>1 DEF Machine!Held
    <2>3. Machine!HeldJobs[envjob] = "held"
      BY <2>1 DEF Machine!HeldJobs, Machine!Held
    <2>4. Machine!Taken!Give(envjob)
      BY <2>1, <2>2, <2>3 DEF Machine!Taken!Give, Machine!Taken!MayEnd
    <2> QED
      BY <2>1, <2>4 DEF Machine!Taken!Next
  <1>11. CASE UNCHANGED Machine!vars
    BY <1>1, <1>11 DEF Machine!vars, Machine!given, Machine!server, Machine!files,
                       Machine!Taken!Next
  <1> QED
    BY <1>2, <1>3, <1>4, <1>5, <1>6, <1>7, <1>8, <1>9, <1>10, <1>11
       DEF Machine!Next, Machine!Provision

\* However often jobs are given up and submitted again, interrupted and torn
\* down, the provisioning and the teardown keep what Lease promises.
THEOREM MachineKeepsLease ==
    ASSUME Machine!MachineLeaseAssumption
    PROVE  Machine!Spec => Machine!KeepsLease
  <1>1. Machine!Init => Machine!Taken!Init
    BY MachineInitIsLease
  <1>2. MachineInv /\ [Machine!Next]_(Machine!vars) => [Machine!Taken!Next]_(Machine!Taken!vars)
    BY MachineNextIsLease
  <1>3. Machine!Spec => []MachineInv
    BY MachineInvHolds
  <1> QED
    BY <1>1, <1>2, <1>3, PTL DEF Machine!Spec, Machine!KeepsLease, Machine!Taken!Spec

\* A job is stopped before the next one is submitted, for any number of jobs.
THEOREM OneLiveJobAlways ==
    ASSUME Machine!MachineLeaseAssumption
    PROVE  Machine!Spec => []Machine!OneLiveJob
  <1>1. ASSUME MachineInv PROVE Machine!OneLiveJob
    <2>1. Machine!LiveJobs \subseteq {job}
      BY <1>1 DEF Machine!MachineLeaseAssumption, MachineInv, MachineType, InOrder,
                  Machine!LiveJobs
    <2>2. IsFiniteSet({job}) /\ Cardinality({job}) = 1
      BY FS_Singleton
    <2>3. Cardinality(Machine!LiveJobs) <= Cardinality({job})
      BY <2>1, <2>2, FS_Subset
    <2> QED
      BY <2>2, <2>3, SameCardinality DEF Machine!OneLiveJob
  <1>2. MachineInv => Machine!OneLiveJob
    BY <1>1
  <1> QED
    BY <1>2, MachineInvHolds, PTL

\* Behind the env file a live job is recorded, or was reserved for a machine that
\* was given by name.
HandedOver ==
    /\ job > 0 => guarded
    /\ prov \in {"hosts", "again", "playbook"} =>
          target # <<>> \/ \A j \in 1..MaxJobs : jobs[j] = "live" => j = envjob

\* No step breaks it, or lets a job get lost at a place that has no name.
LEMMA NoLeakNext ==
    ASSUME Machine!MachineLeaseAssumption, MachineInv, HandedOver, Machine!NoLeak,
           [Machine!Next]_(Machine!vars)
    PROVE  HandedOver' /\ Machine!NoLeak'
  <1> USE DEF Machine!MachineLeaseAssumption, MachineInv, MachineType, InOrder,
              RecordedIsLast,
              Holding, Machine!Over, HandedOver, Machine!NoLeak, Machine!LiveJobs,
              Machine!given
  <1>1. CASE Machine!GenRepos
    BY <1>1 DEF Machine!GenRepos, Machine!server, Machine!files
  <1>2. CASE Machine!LookAt
    BY <1>2 DEF Machine!LookAt, Machine!server, Machine!files
  <1>3. CASE \/ Machine!EnterTry \/ Machine!Poll \/ Machine!PollFails
             \/ Machine!WriteHosts \/ Machine!Prepare
    BY <1>3 DEF Machine!EnterTry, Machine!Poll, Machine!PollFails, Machine!WriteHosts,
                Machine!Prepare, Machine!server, Machine!files
  <1>4. CASE Machine!Upload
    BY <1>4 DEF Machine!Upload, Machine!files
  <1>5. CASE Machine!Cancel
    BY <1>5 DEF Machine!Cancel, Machine!files
  <1>6. CASE Machine!Record
    BY <1>6 DEF Machine!Record, Machine!server
  <1>7. CASE Machine!SigTerm
    <2>1. CASE prov \in {"repos", "target", "upload"}
      BY <1>7, <2>1 DEF Machine!SigTerm, Machine!server, Machine!files
    <2>2. CASE prov \in {"hosts", "again", "playbook"}
      BY <1>7, <2>2 DEF Machine!SigTerm, Machine!server, Machine!files
    <2>3. CASE prov \in Holding
      BY <1>7, <2>3 DEF Machine!SigTerm, Machine!server, Machine!files
    <2> QED
      BY <1>7, <2>1, <2>2, <2>3 DEF Machine!SigTerm
  <1>8. CASE \E r \in Recipe : Machine!Progress(r)
    BY <1>8 DEF Machine!Progress, Machine!files
  <1>9. CASE Machine!Teardown \/ Machine!TeardownStops
    BY <1>9 DEF Machine!Teardown, Machine!TeardownStops, Machine!server, Machine!files
  <1>10. CASE UNCHANGED Machine!vars
    BY <1>10 DEF Machine!vars, Machine!server, Machine!files
  <1> QED
    BY <1>1, <1>2, <1>3, <1>4, <1>5, <1>6, <1>7, <1>8, <1>9, <1>10
       DEF Machine!Next, Machine!Provision

\* A live job of a provisioning that is over is recorded, or was given up at one
\* of the named places, for any number of jobs and signals.
THEOREM NoLeakHolds ==
    ASSUME Machine!MachineLeaseAssumption
    PROVE  Machine!Spec => []Machine!NoLeak
  <1>1. Machine!Init => HandedOver /\ Machine!NoLeak
    BY DEF Machine!Init, HandedOver, Machine!NoLeak, Machine!Over
  <1>2. MachineInv /\ HandedOver /\ Machine!NoLeak /\ [Machine!Next]_(Machine!vars) =>
            HandedOver' /\ Machine!NoLeak'
    BY NoLeakNext
  <1> QED
    BY <1>1, <1>2, MachineInvHolds, PTL DEF Machine!Spec

\* From the return of the loop on, no recipe goes back.
PastInstall ==
    /\ rec \in [Recipe -> Machine!RecipeStates]
    /\ prov = "reserved" => \A r \in Recipe : rec[r] \in {"ready", "completed"}

\* No step breaks that, or takes it from the job that is recorded.
LEMMA ReservedNext ==
    ASSUME Machine!MachineLeaseAssumption, MachineInv, PastInstall, Machine!RecordedIsReserved,
           [Machine!Next]_(Machine!vars)
    PROVE  PastInstall' /\ Machine!RecordedIsReserved'
  <1> USE DEF Machine!MachineLeaseAssumption, MachineInv, MachineType, InOrder,
              RecordedIsLast,
              Holding, PastInstall, Machine!RecordedIsReserved, Machine!RecipeStates
  <1>1. CASE Machine!GenRepos \/ Machine!LookAt
    BY <1>1 DEF Machine!GenRepos, Machine!LookAt, Machine!server, Machine!files
  <1>2. CASE Machine!EnterTry \/ Machine!PollFails \/ Machine!WriteHosts \/ Machine!Prepare
    BY <1>2 DEF Machine!EnterTry, Machine!PollFails, Machine!WriteHosts, Machine!Prepare,
                Machine!server, Machine!files
  <1>3. CASE Machine!Poll
    BY <1>3 DEF Machine!Poll, Machine!server, Machine!files
  <1>4. CASE Machine!Upload
    BY <1>4 DEF Machine!Upload, Machine!files
  <1>5. CASE Machine!Cancel
    BY <1>5 DEF Machine!Cancel, Machine!files
  <1>6. CASE Machine!Record
    BY <1>6 DEF Machine!Record, Machine!server
  <1>7. CASE Machine!SigTerm
    BY <1>7 DEF Machine!SigTerm, Machine!server, Machine!files
  <1>8. ASSUME NEW r \in Recipe, Machine!Progress(r)
        PROVE  PastInstall' /\ Machine!RecordedIsReserved'
    <2>1. PICK s \in Machine!Becomes(rec[r]) : rec' = [rec EXCEPT ![r] = s]
      BY <1>8 DEF Machine!Progress
    <2>2. s \in Machine!RecipeStates /\ (rec[r] \in {"ready", "completed"} => s = "completed")
      <3>1. CASE rec[r] = "queued"
        BY <3>1, <2>1 DEF Machine!Becomes
      <3>2. CASE rec[r] = "running"
        BY <3>2, <2>1 DEF Machine!Becomes
      <3>3. CASE rec[r] = "ready"
        BY <3>3, <2>1 DEF Machine!Becomes
      <3>4. CASE rec[r] \notin {"queued", "running", "ready"}
        BY <3>4, <2>1 DEF Machine!Becomes
      <3> QED
        BY <3>1, <3>2, <3>3, <3>4
    <2> QED
      BY <1>8, <2>1, <2>2 DEF Machine!Progress, Machine!files
  <1>9. CASE Machine!Teardown \/ Machine!TeardownStops
    BY <1>9 DEF Machine!Teardown, Machine!TeardownStops, Machine!server, Machine!files
  <1>10. CASE UNCHANGED Machine!vars
    BY <1>10 DEF Machine!vars, Machine!server, Machine!files
  <1> QED
    BY <1>1, <1>2, <1>3, <1>4, <1>5, <1>6, <1>7, <1>8, <1>9, <1>10
       DEF Machine!Next, Machine!Provision

\* The job in the env file has all its recipes past the installation, for any
\* number of recipes.
THEOREM RecordedIsReservedHolds ==
    ASSUME Machine!MachineLeaseAssumption
    PROVE  Machine!Spec => []Machine!RecordedIsReserved
  <1>1. Machine!Init => PastInstall /\ Machine!RecordedIsReserved
    BY DEF Machine!Init, PastInstall, Machine!RecordedIsReserved, Machine!RecipeStates
  <1>2. MachineInv /\ PastInstall /\ Machine!RecordedIsReserved /\ [Machine!Next]_(Machine!vars)
          => PastInstall' /\ Machine!RecordedIsReserved'
    BY ReservedNext
  <1> QED
    BY <1>1, <1>2, MachineInvHolds, PTL DEF Machine!Spec

-----------------------------------------------------------------------------
(* Nodes of OpenStack. *)

CloudType ==
    /\ lease \in {"create", "wait", "active", "port", "reserved", "ok", "failed"}
    /\ server \in [Cloud!Node -> {"none", "BUILD", "ACTIVE", "ERROR", "deleting", "deleted"}]
    /\ ip \in [Cloud!Node -> BOOLEAN] /\ leaked \subseteq Cloud!Node
    /\ recorded \in BOOLEAN /\ chosen \subseteq Cloud!Node /\ tears \in Nat

\* Where the node of this job is while its provisioning goes on.
NodeFollows ==
    /\ lease = "create" => server[Mine] = "none"
    /\ lease = "wait" => server[Mine] \in {"BUILD", "ACTIVE", "ERROR"}
    /\ lease = "active" => server[Mine] = "ACTIVE"
    /\ lease = "reserved" => server[Mine] = "ACTIVE" /\ ip[Mine]
    /\ recorded => lease = "ok"

\* No teardown, and so no deletion, before the provisioning is over.
TearsLater ==
    /\ ~Cloud!Over => tears = 0
    /\ tears = 0 => tearpc = "none" /\ picked = {}
    /\ tears = 0 => \A n \in Cloud!Node : server[n] \notin {"deleting", "deleted"}

\* What a teardown works on is there, or was.
WorksOnNodes ==
    /\ \A n \in chosen : server[n] # "none"
    /\ tearpc \in {"delete", "wait", "free"} => victim \in Cloud!Node /\ server[victim] # "none"

CloudInv == CloudType /\ NodeFollows /\ TearsLater /\ WorksOnNodes

\* The invariant holds in every initial state.
LEMMA CloudInvInit ==
    ASSUME Cloud!CloudLeaseAssumption, Cloud!Init
    PROVE  CloudInv
  BY DEF Cloud!CloudLeaseAssumption, Cloud!Init, CloudInv, CloudType, NodeFollows,
         TearsLater,
         WorksOnNodes, Cloud!Over, Cloud!Node

\* No step of the command, of nova or of a teardown breaks it.
LEMMA CloudInvNext ==
    ASSUME Cloud!CloudLeaseAssumption, CloudInv, [Cloud!Next]_(Cloud!vars)
    PROVE  CloudInv'
  <1> USE DEF Cloud!CloudLeaseAssumption, CloudInv, CloudType, NodeFollows, TearsLater,
              WorksOnNodes, Cloud!Over
  <1> Mine \in Cloud!Node
    BY DEF Cloud!Node
  <1>1. CASE Cloud!Create
    BY <1>1 DEF Cloud!Create, Cloud!args, Cloud!tear
  <1>2. CASE Cloud!Built
    BY <1>2 DEF Cloud!Built, Cloud!args, Cloud!cloud, Cloud!tear
  <1>3. CASE Cloud!Associate
    BY <1>3 DEF Cloud!Associate, Cloud!args, Cloud!tear
  <1>4. CASE Cloud!Record
    BY <1>4 DEF Cloud!Record, Cloud!args, Cloud!cloud, Cloud!tear
  <1>5. CASE Cloud!Builds
    BY <1>5 DEF Cloud!Builds, Cloud!args, Cloud!tear
  <1>6. CASE \E n \in Cloud!Node : Cloud!Deletes(n)
    BY <1>6 DEF Cloud!Deletes, Cloud!args, Cloud!tear
  <1>7. CASE Cloud!Choose
    BY <1>7 DEF Cloud!Choose, Cloud!Selected, Cloud!Listed, Cloud!args, Cloud!cloud
  <1>8. CASE Cloud!Look
    BY <1>8 DEF Cloud!Look, Cloud!args, Cloud!cloud
  <1>9. CASE Cloud!Delete
    BY <1>9 DEF Cloud!Delete, Cloud!args
  <1>10. CASE Cloud!Wait
    BY <1>10 DEF Cloud!Wait, Cloud!args, Cloud!cloud
  <1>11. CASE Cloud!Free
    BY <1>11 DEF Cloud!Free, Cloud!args
  <1>12. CASE UNCHANGED Cloud!vars
    BY <1>12 DEF Cloud!vars, Cloud!args, Cloud!cloud, Cloud!tear
  <1> QED
    BY <1>1, <1>2, <1>3, <1>4, <1>5, <1>6, <1>7, <1>8, <1>9, <1>10, <1>11, <1>12
       DEF Cloud!Next, Cloud!Reserve, Cloud!TearStep

\* Reachable states satisfy the invariant.
LEMMA CloudInvHolds ==
    ASSUME Cloud!CloudLeaseAssumption
    PROVE  Cloud!Spec => []CloudInv
  <1>1. Cloud!Init => CloudInv
    BY CloudInvInit
  <1>2. CloudInv /\ [Cloud!Next]_(Cloud!vars) => CloudInv'
    BY CloudInvNext
  <1> QED
    BY <1>1, <1>2, PTL DEF Cloud!Spec

-----------------------------------------------------------------------------
(* The refinement. *)

\* Every step takes, hands over or gives back the node, or ends the
\* provisioning, or changes nothing of the lease.
LEMMA CloudNextIsLease ==
    ASSUME Cloud!CloudLeaseAssumption, CloudInv, [Cloud!Next]_(Cloud!vars)
    PROVE  [Cloud!Taken!Next]_(Cloud!Taken!vars)
  <1> USE DEF Cloud!CloudLeaseAssumption, CloudInv, CloudType, NodeFollows, TearsLater,
              WorksOnNodes, Cloud!Over, Cloud!Held
  <1> Mine \in Cloud!Node
    BY DEF Cloud!Node
  <1>1. ASSUME UNCHANGED <<Cloud!Held, recorded>>, Cloud!Over => Cloud!Over'
        PROVE  Cloud!Taken!End \/ UNCHANGED Cloud!Taken!vars
    BY <1>1 DEF Cloud!Taken!End, Cloud!Taken!vars
  <1>2. CASE Cloud!Create
    BY <1>1, <1>2 DEF Cloud!Create, Cloud!Taken!Next, Cloud!Taken!Take
  <1>3. CASE Cloud!Built \/ Cloud!Associate
    BY <1>1, <1>3 DEF Cloud!Built, Cloud!Associate, Cloud!cloud, Cloud!Taken!Next
  <1>4. CASE Cloud!Record
    BY <1>4 DEF Cloud!Record, Cloud!cloud, Cloud!Taken!Next, Cloud!Taken!Note,
                Cloud!Taken!MayEnd
  <1>5. CASE Cloud!Builds
    BY <1>1, <1>5 DEF Cloud!Builds, Cloud!Taken!Next
  <1>6. ASSUME NEW n \in Cloud!Node, Cloud!Deletes(n) PROVE [Cloud!Taken!Next]_(Cloud!Taken!vars)
    <2>1. CASE n = Mine
      BY <1>6, <2>1 DEF Cloud!Deletes, Cloud!Taken!Next, Cloud!Taken!Give,
                        Cloud!Taken!MayEnd
    <2>2. CASE n # Mine
      BY <1>1, <1>6, <2>2 DEF Cloud!Deletes, Cloud!Taken!Next
    <2> QED
      BY <2>1, <2>2
  <1>7. CASE Cloud!Choose \/ Cloud!Look \/ Cloud!Wait
    BY <1>1, <1>7 DEF Cloud!Choose, Cloud!Look, Cloud!Wait, Cloud!cloud, Cloud!Taken!Next
  <1>8. CASE Cloud!Delete
    BY <1>1, <1>8 DEF Cloud!Delete, Cloud!Taken!Next
  <1>9. CASE Cloud!Free
    BY <1>1, <1>9 DEF Cloud!Free, Cloud!Taken!Next
  <1>10. CASE UNCHANGED Cloud!vars
    BY <1>1, <1>10 DEF Cloud!vars, Cloud!cloud, Cloud!Taken!Next
  <1> QED
    BY <1>2, <1>3, <1>4, <1>5, <1>6, <1>7, <1>8, <1>9, <1>10
       DEF Cloud!Next, Cloud!Reserve, Cloud!TearStep

\* However teardowns fail and are repeated, the provisioning and the teardowns
\* keep what Lease promises.
THEOREM CloudKeepsLease ==
    ASSUME Cloud!CloudLeaseAssumption
    PROVE  Cloud!Spec => Cloud!KeepsLease
  <1>1. Cloud!Init => Cloud!Taken!Init
    BY DEF Cloud!CloudLeaseAssumption, Cloud!Init, Cloud!Over, Cloud!Held, Cloud!Taken!Init,
           Cloud!Node
  <1>2. CloudInv /\ [Cloud!Next]_(Cloud!vars) => [Cloud!Taken!Next]_(Cloud!Taken!vars)
    BY CloudNextIsLease
  <1> QED
    BY <1>1, <1>2, CloudInvHolds, PTL DEF Cloud!Spec, Cloud!KeepsLease, Cloud!Taken!Spec

-----------------------------------------------------------------------------
(* Safety. *)

\* The recorded node was active and had its address when it was recorded, and
\* nothing but a teardown changes that, for any number of other nodes.
THEOREM RecordedIsUsableHolds ==
    ASSUME Cloud!CloudLeaseAssumption
    PROVE  Cloud!Spec => []Cloud!RecordedIsUsable
  <1>1. Cloud!Init => Cloud!RecordedIsUsable
    BY DEF Cloud!Init, Cloud!RecordedIsUsable
  <1>2. ASSUME CloudInv, Cloud!RecordedIsUsable, [Cloud!Next]_(Cloud!vars)
        PROVE  Cloud!RecordedIsUsable'
    <2> USE <1>2 DEF Cloud!CloudLeaseAssumption, CloudInv, CloudType, NodeFollows,
                     TearsLater,
                     Cloud!RecordedIsUsable, Cloud!Over
    <2> Mine \in Cloud!Node
      BY DEF Cloud!Node
    <2>1. CASE Cloud!Reserve
      BY <2>1 DEF Cloud!Reserve, Cloud!Create, Cloud!Built, Cloud!Associate, Cloud!Record,
                  Cloud!cloud, Cloud!tear
    <2>2. CASE Cloud!Builds \/ \E n \in Cloud!Node : Cloud!Deletes(n)
      BY <2>2 DEF Cloud!Builds, Cloud!Deletes, Cloud!tear
    <2>3. CASE Cloud!Choose
      BY <2>3 DEF Cloud!Choose, Cloud!cloud
    <2>4. CASE Cloud!Look \/ Cloud!Delete \/ Cloud!Wait \/ Cloud!Free
      BY <2>4 DEF Cloud!Look, Cloud!Delete, Cloud!Wait, Cloud!Free, Cloud!cloud
    <2>5. CASE UNCHANGED Cloud!vars
      BY <2>5 DEF Cloud!vars, Cloud!cloud, Cloud!tear
    <2> QED
      BY <2>1, <2>2, <2>3, <2>4, <2>5 DEF Cloud!Next, Cloud!TearStep
  <1>3. CloudInv /\ Cloud!RecordedIsUsable /\ [Cloud!Next]_(Cloud!vars) => Cloud!RecordedIsUsable'
    BY <1>2
  <1> QED
    BY <1>1, <1>3, CloudInvHolds, PTL DEF Cloud!Spec

\* A finite set of at most one element has no other one.
LEMMA OnlyElement ==
    ASSUME NEW S, IsFiniteSet(S), Cardinality(S) <= 1, NEW e \in S
    PROVE  S = {e}
  <1> SUFFICES ASSUME NEW d \in S, d # e PROVE FALSE
    OBVIOUS
  <1>1. IsFiniteSet({d, e}) /\ Cardinality({d, e}) = 2
    <2>1. IsFiniteSet({e}) /\ Cardinality({e}) = 1
      BY FS_Singleton
    <2>2. IsFiniteSet({e} \cup {d}) /\ Cardinality({e} \cup {d}) = Cardinality({e}) + 1
      BY <2>1, FS_AddElement
    <2>3. {d, e} = {e} \cup {d}
      OBVIOUS
    <2> QED
      BY <2>1, <2>2, <2>3
  <1>2. Cardinality({d, e}) <= Cardinality(S)
    BY FS_Subset, {d, e} \subseteq S
  <1>3. Cardinality(S) \in Nat
    BY FS_CardinalityType
  <1> QED
    BY <1>1, <1>2, <1>3

\* What the filters leave of the tenant's nodes is finite.
LEMMA SelectedIsFinite ==
    ASSUME IsFiniteSet(Other)
    PROVE  IsFiniteSet(Cloud!Selected)
  <1>1. IsFiniteSet(Cloud!Node)
    BY FS_AddElement DEF Cloud!Node
  <1>2. Cloud!Selected \subseteq Cloud!Node
    BY DEF Cloud!Selected, Cloud!Listed
  <1> QED
    BY <1>1, <1>2, FS_Subset

\* A teardown deletes a node of another job only if this one's is not recorded,
\* and more than one only with --bulk, for any number of other nodes.
THEOREM OthersAreSparedHolds ==
    ASSUME Cloud!CloudLeaseAssumption, IsFiniteSet(Other)
    PROVE  Cloud!Spec => []Cloud!OthersAreSpared
  <1>1. Cloud!Init => Cloud!OthersAreSpared
    BY DEF Cloud!Init, Cloud!OthersAreSpared
  <1>2. ASSUME CloudInv, Cloud!OthersAreSpared, [Cloud!Next]_(Cloud!vars)
        PROVE  Cloud!OthersAreSpared'
    <2> USE <1>2 DEF Cloud!CloudLeaseAssumption, CloudInv, CloudType, NodeFollows,
                     TearsLater,
                     Cloud!OthersAreSpared, Cloud!Over
    <2>1. CASE picked = {} /\ UNCHANGED picked
      BY <2>1
    <2>2. CASE UNCHANGED <<picked, recorded, bulk>>
      BY <2>2
    <2>3. CASE Cloud!Reserve
      <3>1. picked = {} \/ tears # 0
        OBVIOUS
      <3> QED
        BY <3>1, <2>1, <2>2, <2>3 DEF Cloud!Reserve, Cloud!Create, Cloud!Built,
                                      Cloud!Associate, Cloud!Record, Cloud!args, Cloud!tear
    <2>4. CASE \/ Cloud!Builds \/ \E n \in Cloud!Node : Cloud!Deletes(n)
               \/ Cloud!Look \/ Cloud!Delete \/ Cloud!Wait \/ Cloud!Free
      BY <2>2, <2>4 DEF Cloud!Builds, Cloud!Deletes, Cloud!Look, Cloud!Delete, Cloud!Wait,
                        Cloud!Free, Cloud!args, Cloud!tear
    <2>5. CASE Cloud!Choose
      <3>1. CASE picked' = {}
        BY <3>1
      <3>2. CASE picked' = Cloud!Selected /\ (Cardinality(Cloud!Selected) <= 1 \/ bulk)
        <4>1. IsFiniteSet(Cloud!Selected)
          BY SelectedIsFinite
        <4>2. UNCHANGED <<recorded, bulk>>
          BY <2>5 DEF Cloud!Choose, Cloud!args
        <4> SUFFICES ASSUME NEW n \in Cloud!Selected \cap Other
                     PROVE  ~recorded /\ (bulk \/ Cloud!Selected = {n})
          BY <3>2, <4>2
        <4>3. ~recorded
          BY DEF Cloud!Selected
        <4>4. bulk \/ Cloud!Selected = {n}
          BY <3>2, <4>1, OnlyElement
        <4> QED
          BY <4>3, <4>4
      <3>3. Cardinality(Cloud!Selected) <= 1 \/ Cardinality(Cloud!Selected) > 1
        <4>1. IsFiniteSet(Cloud!Selected)
          BY SelectedIsFinite
        <4> QED
          BY <4>1, FS_CardinalityType
      <3> QED
        BY <2>5, <3>1, <3>2, <3>3, SameCardinality DEF Cloud!Choose
    <2>6. CASE UNCHANGED Cloud!vars
      BY <2>2, <2>6 DEF Cloud!vars, Cloud!args, Cloud!tear
    <2> QED
      BY <2>3, <2>4, <2>5, <2>6 DEF Cloud!Next, Cloud!TearStep
  <1>3. CloudInv /\ Cloud!OthersAreSpared /\ [Cloud!Next]_(Cloud!vars) => Cloud!OthersAreSpared'
    BY <1>2
  <1> QED
    BY <1>1, <1>3, CloudInvHolds, PTL DEF Cloud!Spec

\* What a teardown has worked off: the nodes it chose, but for those that are
\* left and the one it is at.
Behind ==
    {n \in picked \ chosen : tearpc \in {"delete", "wait", "free"} => n # victim}

\* Behind the teardown no node has an address or left one, and each is gone or
\* was waited for in vain.
GivenBack ==
    /\ chosen \subseteq picked /\ picked \subseteq Cloud!Node /\ unsure \in BOOLEAN
    /\ tearpc \in {"none", "look", "delete", "wait", "free", "done", "failed"}
    /\ tearpc \in {"look", "delete", "wait", "free", "done"} =>
          \A n \in Behind : ~ip[n] /\ n \notin leaked /\ (server[n] = "deleted" \/ unsure)
    /\ tearpc \in {"delete", "wait", "free"} => victim \notin chosen
    /\ tearpc = "free" => server[victim] = "deleted" \/ unsure
    /\ tearpc = "done" => chosen = {}

\* No step breaks that: an address that is gone does not come back, and a node
\* that is deleted late has none to leave behind.
LEMMA GivenBackNext ==
    ASSUME Cloud!CloudLeaseAssumption, CloudInv, GivenBack, [Cloud!Next]_(Cloud!vars)
    PROVE  GivenBack'
  <1> USE DEF Cloud!CloudLeaseAssumption, CloudInv, CloudType, NodeFollows, TearsLater,
              WorksOnNodes, Cloud!Over, GivenBack, Behind
  <1> Mine \in Cloud!Node
    BY DEF Cloud!Node
  <1>1. CASE Cloud!Reserve
    <2>1. tearpc = "none"
      BY <1>1 DEF Cloud!Reserve, Cloud!Create, Cloud!Built, Cloud!Associate, Cloud!Record
    <2>2. UNCHANGED <<tearpc, chosen, picked, unsure, victim>>
      BY <1>1 DEF Cloud!Reserve, Cloud!Create, Cloud!Built, Cloud!Associate, Cloud!Record,
                  Cloud!tear
    <2> QED
      BY <2>1, <2>2
  <1>2. CASE Cloud!Builds
    BY <1>2 DEF Cloud!Builds, Cloud!tear
  <1>3. CASE \E n \in Cloud!Node : Cloud!Deletes(n)
    BY <1>3 DEF Cloud!Deletes, Cloud!tear
  <1>4. CASE Cloud!Choose
    BY <1>4 DEF Cloud!Choose, Cloud!Selected, Cloud!Listed
  <1>5. CASE Cloud!Look
    <2>1. CASE chosen = {}
      BY <1>5, <2>1 DEF Cloud!Look, Cloud!cloud
    <2>2. ASSUME NEW n \in chosen, chosen' = chosen \ {n}, victim' = n,
                 tearpc' \in {"delete", "failed"}
          PROVE  GivenBack'
      <3>1. UNCHANGED <<server, ip, leaked, unsure, picked>>
        BY <1>5 DEF Cloud!Look, Cloud!cloud
      <3>2. tearpc' = "delete" => Behind' = Behind
        BY <1>5, <2>2, <3>1 DEF Cloud!Look
      <3> QED
        BY <1>5, <2>2, <3>1, <3>2 DEF Cloud!Look
    <2> QED
      BY <1>5, <2>1, <2>2 DEF Cloud!Look
  <1>6. CASE Cloud!Delete
    <2>1. CASE tearpc' = "failed"
      BY <1>6, <2>1 DEF Cloud!Delete
    <2>2. CASE tearpc' = "wait"
      <3>1. /\ server' = [server EXCEPT ![victim] = "deleting"]
            /\ UNCHANGED <<ip, leaked, chosen, unsure, picked, victim>>
            /\ tearpc = "delete"
        BY <1>6, <2>2 DEF Cloud!Delete
      <3>2. Behind' = Behind /\ \A n \in Behind : n # victim
        BY <2>2, <3>1
      <3>3. \A n \in Behind : n \in Cloud!Node => server'[n] = server[n]
        BY <3>1, <3>2
      <3>4. \A n \in Behind : n \in Cloud!Node
        BY <3>1
      <3> QED
        BY <2>2, <3>1, <3>2, <3>3, <3>4
    <2> QED
      BY <1>6, <2>1, <2>2 DEF Cloud!Delete
  <1>7. CASE Cloud!Wait
    BY <1>7 DEF Cloud!Wait, Cloud!cloud
  <1>8. CASE Cloud!Free
    <2>1. /\ UNCHANGED <<server, chosen, unsure, picked, victim>> /\ tearpc' = "look"
          /\ ip' = [ip EXCEPT ![victim] = FALSE] /\ leaked' = leaked \ {victim}
          /\ tearpc = "free" /\ victim \in Cloud!Node
      BY <1>8 DEF Cloud!Free
    <2>2. Behind' \subseteq Behind \cup {victim}
      BY <2>1
    <2>3. \A n \in Behind' : ~ip'[n] /\ n \notin leaked' /\ (server'[n] = "deleted" \/ unsure')
      <3> SUFFICES ASSUME NEW n \in Behind'
                   PROVE  ~ip'[n] /\ n \notin leaked' /\ (server'[n] = "deleted" \/ unsure')
        OBVIOUS
      <3>1. CASE n = victim
        BY <2>1, <3>1
      <3>2. CASE n # victim
        BY <2>1, <2>2, <3>2
      <3> QED
        BY <3>1, <3>2
    <2> QED
      BY <2>1, <2>3
  <1>9. CASE UNCHANGED Cloud!vars
    BY <1>9 DEF Cloud!vars, Cloud!cloud, Cloud!tear
  <1> QED
    BY <1>1, <1>2, <1>3, <1>4, <1>5, <1>6, <1>7, <1>8, <1>9 DEF Cloud!Next, Cloud!TearStep

\* The same for a run from its start.
LEMMA GivenBackHolds ==
    ASSUME Cloud!CloudLeaseAssumption
    PROVE  Cloud!Spec => []GivenBack
  <1>1. Cloud!Init => GivenBack
    BY DEF Cloud!Init, GivenBack, Behind
  <1>2. CloudInv /\ GivenBack /\ [Cloud!Next]_(Cloud!vars) => GivenBack'
    BY GivenBackNext
  <1> QED
    BY <1>1, <1>2, CloudInvHolds, PTL DEF Cloud!Spec

\* A teardown that ends well leaves none of its nodes, or gave up waiting for one.
THEOREM DoneIsDoneHolds ==
    ASSUME Cloud!CloudLeaseAssumption
    PROVE  Cloud!Spec => []Cloud!DoneIsDone
  <1>1. GivenBack => Cloud!DoneIsDone
    BY DEF GivenBack, Behind, Cloud!DoneIsDone
  <1> QED
    BY <1>1, GivenBackHolds, PTL

\* A teardown that ends well leaves no address behind, however late nodes go.
THEOREM AddressIsFreedHolds ==
    ASSUME Cloud!CloudLeaseAssumption
    PROVE  Cloud!Spec => []Cloud!AddressIsFreed
  <1>1. GivenBack => Cloud!AddressIsFreed
    BY DEF GivenBack, Behind, Cloud!AddressIsFreed
  <1> QED
    BY <1>1, GivenBackHolds, PTL

-----------------------------------------------------------------------------
(* The search of test_match. *)

Segment == Seq(Name) \ {<<>>}

\* Dropping the first n items.
LEMMA DropProperties ==
    ASSUME NEW S, NEW s \in Seq(S), NEW n \in 0..Len(s)
    PROVE  /\ Drop(s, n) \in Seq(S)
           /\ Len(Drop(s, n)) = Len(s) - n
           /\ \A k \in 1..(Len(s) - n) : Drop(s, n)[k] = s[n + k]
<1>1. n + 1 \in Int /\ Len(s) \in Int /\ Len(s) \in Nat
  BY LenProperties
<1>2. \A i \in (n + 1)..Len(s) : s[i] \in S
  BY <1>1, ElementOfSeq
<1>3. /\ Drop(s, n) \in Seq(S)
      /\ Len(Drop(s, n)) = IF n + 1 <= Len(s) THEN Len(s) - (n + 1) + 1 ELSE 0
      /\ \A i \in 1..(Len(s) - (n + 1) + 1) : Drop(s, n)[i] = s[(n + 1) + i - 1]
  BY <1>1, <1>2, SubSeqProperties DEF Drop
<1>4. QED
  BY <1>1, <1>3

\* A pattern without segments fits every name.
LEMMA EmptyFits ==
    ASSUME NEW name \in Seq(Name)
    PROVE  Fits(<<>>, name)
<1>1. Len(<<>>) = 0 /\ 1..0 = {}
  BY EmptySeq
<1>2. [k \in 1..0 |-> 0] \in [1..Len(<<>>) -> 0..Len(name)]
  BY <1>1
<1>3. QED
  BY <1>1, <1>2 DEF Fits

\* A name without the first item of the first segment does not fit.
LEMMA NoHeadNoFit ==
    ASSUME NEW segs \in Seq(Segment), segs # <<>>, NEW name \in Seq(Name),
           ~Occurs(segs[1][1], name)
    PROVE  ~Fits(segs, name)
<1>1. 1 \in 1..Len(segs) /\ segs[1] \in Segment
  BY LenProperties, ElementOfSeq, EmptySeq
<1>2. Len(segs[1]) \in Nat /\ Len(segs[1]) >= 1
  BY <1>1, LenProperties, EmptySeq DEF Segment
<1>3. ASSUME NEW n \in 0..Len(name), StandsAt(segs[1], name, n)
      PROVE  FALSE
  <2>1. 1 \in 1..Len(segs[1]) /\ name[n + 1] = segs[1][1] /\ n + 1 \in 1..Len(name)
    BY <1>2, <1>3, LenProperties DEF StandsAt
  <2>2. QED
    BY <2>1 DEF Occurs
<1>4. QED
  BY <1>1, <1>3 DEF Fits

\* If the first segment does not stand at the head, the first item is of no use.
LEMMA MoveKeepsFit ==
    ASSUME NEW segs \in Seq(Segment), segs # <<>>, NEW name \in Seq(Name), name # <<>>,
           ~StandsAt(segs[1], name, 0)
    PROVE  Fits(segs, name) <=> Fits(segs, Drop(name, 1))
<1> DEFINE rest == Drop(name, 1)
<1>1. Len(name) \in Nat /\ Len(name) >= 1 /\ 1 \in 0..Len(name)
  BY LenProperties, EmptySeq
<1>2. /\ rest \in Seq(Name) /\ Len(rest) = Len(name) - 1
      /\ \A k \in 1..(Len(name) - 1) : rest[k] = name[1 + k]
  BY <1>1, DropProperties
<1>3. /\ 1 \in 1..Len(segs) /\ Len(segs) \in Nat
      /\ \A k \in 1..Len(segs) : segs[k] \in Segment /\ Len(segs[k]) \in Nat /\ Len(segs[k]) >= 1
  BY LenProperties, ElementOfSeq, EmptySeq DEF Segment
<1> HIDE DEF rest
<1>4. ASSUME NEW k \in 1..Len(segs), NEW n \in 1..Len(name)
      PROVE  StandsAt(segs[k], name, n) <=> StandsAt(segs[k], rest, n - 1)
  <2>1. n + Len(segs[k]) <= Len(name) <=> (n - 1) + Len(segs[k]) <= Len(rest)
    BY <1>1, <1>2, <1>3
  <2>2. ASSUME n + Len(segs[k]) <= Len(name), NEW i \in 1..Len(segs[k])
        PROVE  rest[(n - 1) + i] = name[n + i]
    <3>1. (n - 1) + i \in 1..(Len(name) - 1) /\ 1 + ((n - 1) + i) = n + i
      BY <1>1, <1>3, <2>2
    <3>2. rest[(n - 1) + i] = name[1 + ((n - 1) + i)]
      BY <1>2, <3>1
    <3>3. QED
      BY <3>1, <3>2
  <2>3. QED
    BY <2>1, <2>2 DEF StandsAt
<1>5. ASSUME Fits(segs, name)
      PROVE  Fits(segs, rest)
  <2>1. PICK at \in [1..Len(segs) -> 0..Len(name)] :
            \A k \in 1..Len(segs) :
                /\ StandsAt(segs[k], name, at[k])
                /\ \A j \in 1..(k - 1) : at[j] + Len(segs[j]) <= at[k]
    BY <1>5 DEF Fits
  <2>2. at[1] \in 0..Len(name) /\ at[1] # 0
    BY <1>3, <2>1
  <2>3. ASSUME NEW k \in 1..Len(segs)
        PROVE  at[k] \in 1..Len(name)
    <3>1. CASE k = 1
      BY <2>2, <3>1, <1>1
    <3>2. CASE k # 1
      <4>1. 1 \in 1..(k - 1) /\ at[1] + Len(segs[1]) <= at[k]
        BY <2>1, <3>2, <1>3
      <4>2. QED
        BY <4>1, <2>2, <1>3, <1>1, SMTT(30)
    <3>3. QED
      BY <3>1, <3>2
  <2> DEFINE bt == [k \in 1..Len(segs) |-> at[k] - 1]
  <2>4. bt \in [1..Len(segs) -> 0..Len(rest)]
    BY <2>3, <1>2, <1>1
  <2>5. ASSUME NEW k \in 1..Len(segs)
        PROVE  /\ StandsAt(segs[k], rest, bt[k])
               /\ \A j \in 1..(k - 1) : bt[j] + Len(segs[j]) <= bt[k]
    <3>1. StandsAt(segs[k], rest, bt[k])
      BY <2>1, <2>3, <1>4
    <3>2. ASSUME NEW j \in 1..(k - 1)
          PROVE  bt[j] + Len(segs[j]) <= bt[k]
      <4>1. j \in 1..Len(segs) /\ at[j] + Len(segs[j]) <= at[k] /\ at[j] \in Int /\ at[k] \in Int
        BY <2>1, <2>3, <1>3
      <4>2. QED
        BY <4>1, <1>3
    <3>3. QED
      BY <3>1, <3>2
  <2> HIDE DEF bt
  <2>6. QED
    BY <2>4, <2>5 DEF Fits
<1>6. ASSUME Fits(segs, rest)
      PROVE  Fits(segs, name)
  <2>1. PICK bt \in [1..Len(segs) -> 0..Len(rest)] :
            \A k \in 1..Len(segs) :
                /\ StandsAt(segs[k], rest, bt[k])
                /\ \A j \in 1..(k - 1) : bt[j] + Len(segs[j]) <= bt[k]
    BY <1>6 DEF Fits
  <2> DEFINE at == [k \in 1..Len(segs) |-> bt[k] + 1]
  <2>2. ASSUME NEW k \in 1..Len(segs)
        PROVE  at[k] \in 1..Len(name) /\ at[k] - 1 = bt[k] /\ bt[k] \in Int
    <3>1. bt[k] \in 0..Len(rest) /\ at[k] = bt[k] + 1
      BY <2>1
    <3>2. QED
      BY <3>1, <1>1, <1>2
  <2>3. at \in [1..Len(segs) -> 0..Len(name)]
    BY <2>2, <1>1
  <2>4. ASSUME NEW k \in 1..Len(segs)
        PROVE  /\ StandsAt(segs[k], name, at[k])
               /\ \A j \in 1..(k - 1) : at[j] + Len(segs[j]) <= at[k]
    <3>1. StandsAt(segs[k], name, at[k])
      <4>1. StandsAt(segs[k], rest, at[k] - 1) /\ at[k] \in 1..Len(name)
        BY <2>1, <2>2
      <4>2. QED
        BY <4>1, <1>4
    <3>2. ASSUME NEW j \in 1..(k - 1)
          PROVE  at[j] + Len(segs[j]) <= at[k]
      <4>1. j \in 1..Len(segs) /\ bt[j] + Len(segs[j]) <= bt[k]
        BY <2>1, <1>3
      <4>2. QED
        <5>1. at[j] = bt[j] + 1 /\ at[k] = bt[k] + 1 /\ bt[j] \in Int /\ bt[k] \in Int
          BY <4>1, <2>2
        <5>2. Len(segs[j]) \in Nat
          BY <4>1, <1>3
        <5>3. QED
          BY <4>1, <5>1, <5>2
    <3>3. QED
      BY <3>1, <3>2
  <2> HIDE DEF at
  <2>5. QED
    BY <2>3, <2>4 DEF Fits
<1>7. QED
  BY <1>5, <1>6 DEF rest

\* Places move together.
LEMMA Shifted ==
    ASSUME NEW a \in Int, NEW b \in Int, NEW n \in Int, NEW d \in Int, a + n <= b
    PROVE  (a - d) + n <= b - d /\ (a + d) + n <= b + d
OBVIOUS

\* The first segment may as well be taken where it is found first.
LEMMA CutKeepsFit ==
    ASSUME NEW segs \in Seq(Segment), segs # <<>>, NEW name \in Seq(Name),
           StandsAt(segs[1], name, 0)
    PROVE  Fits(segs, name) <=> Fits(Tail(segs), Drop(name, Len(segs[1])))
<1> DEFINE len == Len(segs[1])
           rest == Drop(name, len)
           tail == Tail(segs)
<1>1. /\ 1 \in 1..Len(segs) /\ Len(segs) \in Nat
      /\ \A k \in 1..Len(segs) : segs[k] \in Segment /\ Len(segs[k]) \in Nat /\ Len(segs[k]) >= 1
  BY LenProperties, ElementOfSeq, EmptySeq DEF Segment
<1>2. Len(name) \in Nat /\ len \in Nat /\ len <= Len(name) /\ len \in 0..Len(name)
  BY <1>1, LenProperties DEF StandsAt
<1>3. /\ rest \in Seq(Name) /\ Len(rest) = Len(name) - len
      /\ \A k \in 1..(Len(name) - len) : rest[k] = name[len + k]
  BY <1>2, DropProperties
<1>4. /\ Len(tail) = Len(segs) - 1
      /\ \A k \in 1..Len(tail) : tail[k] = segs[k + 1]
  BY HeadTailProperties
<1>5. \A k \in 1..Len(tail) : k + 1 \in 1..Len(segs)
  BY <1>1, <1>4
<1> HIDE DEF len, rest, tail
<1>6. ASSUME NEW k \in 1..Len(tail), NEW n \in len..Len(name)
      PROVE  StandsAt(segs[k + 1], name, n) <=> StandsAt(tail[k], rest, n - len)
  <2>1. tail[k] = segs[k + 1] /\ Len(tail[k]) \in Nat
    BY <1>1, <1>4, <1>5
  <2>2. n + Len(tail[k]) <= Len(name) <=> (n - len) + Len(tail[k]) <= Len(rest)
    BY <1>2, <1>3, <2>1, SMTT(30)
  <2>3. ASSUME n + Len(tail[k]) <= Len(name), NEW i \in 1..Len(tail[k])
        PROVE  rest[(n - len) + i] = name[n + i]
    <3>1. (n - len) + i \in 1..(Len(name) - len) /\ len + ((n - len) + i) = n + i
      BY <1>2, <2>1, <2>3
    <3>2. rest[(n - len) + i] = name[len + ((n - len) + i)]
      BY <1>3, <3>1
    <3>3. QED
      BY <3>1, <3>2
  <2>4. QED
    BY <2>1, <2>2, <2>3 DEF StandsAt
<1>7. ASSUME Fits(segs, name)
      PROVE  Fits(tail, rest)
  <2>1. PICK at \in [1..Len(segs) -> 0..Len(name)] :
            \A k \in 1..Len(segs) :
                /\ StandsAt(segs[k], name, at[k])
                /\ \A j \in 1..(k - 1) : at[j] + Len(segs[j]) <= at[k]
    BY <1>7 DEF Fits
  <2>2. ASSUME NEW k \in 1..Len(tail)
        PROVE  at[k + 1] \in len..Len(name)
    <3>1. /\ k + 1 \in 1..Len(segs) /\ 1 \in 1..((k + 1) - 1)
          /\ at[1] \in 0..Len(name) /\ at[k + 1] \in 0..Len(name)
      BY <1>1, <1>4, <1>5, <2>1
    <3>2. at[1] + Len(segs[1]) <= at[k + 1]
      BY <2>1, <3>1
    <3>3. QED
      BY <1>2, <3>1, <3>2 DEF len
  <2> DEFINE bt == [k \in 1..Len(tail) |-> at[k + 1] - len]
  <2>3. ASSUME NEW k \in 1..Len(tail)
        PROVE  bt[k] \in 0..Len(rest) /\ bt[k] = at[k + 1] - len /\ at[k + 1] \in Int
    <3>1. at[k + 1] \in len..Len(name) /\ bt[k] = at[k + 1] - len
      BY <2>2
    <3>2. QED
      BY <3>1, <1>2, <1>3
  <2>4. bt \in [1..Len(tail) -> 0..Len(rest)]
    BY <2>3
  <2> HIDE DEF bt
  <2>5. ASSUME NEW k \in 1..Len(tail)
        PROVE  /\ StandsAt(tail[k], rest, bt[k])
               /\ \A j \in 1..(k - 1) : bt[j] + Len(tail[j]) <= bt[k]
    <3>1. StandsAt(tail[k], rest, bt[k])
      <4>1. StandsAt(segs[k + 1], name, at[k + 1])
        BY <1>5, <2>1
      <4>2. StandsAt(tail[k], rest, at[k + 1] - len)
        BY <4>1, <2>2, <1>6
      <4>3. QED
        BY <4>2, <2>3
    <3>2. ASSUME NEW j \in 1..(k - 1)
          PROVE  bt[j] + Len(tail[j]) <= bt[k]
      <4>1. j \in 1..Len(tail) /\ j + 1 \in 1..((k + 1) - 1) /\ k + 1 \in 1..Len(segs)
        BY <1>1, <1>4, <1>5
      <4>2. at[j + 1] + Len(segs[j + 1]) <= at[k + 1]
        BY <2>1, <4>1
      <4>3. /\ bt[j] = at[j + 1] - len /\ bt[k] = at[k + 1] - len
            /\ at[j + 1] \in Int /\ at[k + 1] \in Int
        BY <2>3, <4>1
      <4>4. tail[j] = segs[j + 1] /\ Len(tail[j]) \in Nat
        BY <1>1, <1>4, <1>5, <4>1
      <4>5. at[j + 1] + Len(tail[j]) <= at[k + 1] /\ Len(tail[j]) \in Int /\ len \in Int
        BY <4>2, <4>4, <1>2
      <4>6. (at[j + 1] - len) + Len(tail[j]) <= at[k + 1] - len
        BY <4>3, <4>5, Shifted
      <4>7. QED
        BY <4>3, <4>6
    <3>3. QED
      BY <3>1, <3>2
  <2>6. QED
    BY <2>4, <2>5 DEF Fits
<1>8. ASSUME Fits(tail, rest)
      PROVE  Fits(segs, name)
  <2>1. PICK bt \in [1..Len(tail) -> 0..Len(rest)] :
            \A k \in 1..Len(tail) :
                /\ StandsAt(tail[k], rest, bt[k])
                /\ \A j \in 1..(k - 1) : bt[j] + Len(tail[j]) <= bt[k]
    BY <1>8 DEF Fits
  <2> DEFINE at == [k \in 1..Len(segs) |-> IF k = 1 THEN 0 ELSE bt[k - 1] + len]
  <2>2. ASSUME NEW k \in 1..Len(segs), k # 1
        PROVE  /\ k - 1 \in 1..Len(tail) /\ (k - 1) + 1 = k
               /\ at[k] \in len..Len(name) /\ at[k] - len = bt[k - 1] /\ bt[k - 1] \in Nat
               /\ at[k] = bt[k - 1] + len
    <3>1. k - 1 \in 1..Len(tail) /\ (k - 1) + 1 = k
      BY <1>1, <1>4, <2>2
    <3>2. bt[k - 1] \in 0..Len(rest) /\ at[k] = bt[k - 1] + len
      BY <2>1, <2>2, <3>1
    <3>3. QED
      BY <3>1, <3>2, <1>2, <1>3
  <2>3. at[1] = 0
    BY <1>1
  <2>4. ASSUME NEW k \in 1..Len(segs)
        PROVE  at[k] \in 0..Len(name)
    <3>1. CASE k = 1
      BY <2>3, <3>1, <1>2
    <3>2. CASE k # 1
      BY <2>2, <3>2, <1>2
    <3>3. QED
      BY <3>1, <3>2
  <2>5. at \in [1..Len(segs) -> 0..Len(name)]
    BY <2>4
  <2> HIDE DEF at
  <2>6. ASSUME NEW k \in 1..Len(segs)
        PROVE  /\ StandsAt(segs[k], name, at[k])
               /\ \A j \in 1..(k - 1) : at[j] + Len(segs[j]) <= at[k]
    <3>1. CASE k = 1
      <4>1. 1..(k - 1) = {}
        BY <3>1
      <4>2. QED
        BY <3>1, <4>1, <2>3
    <3>2. CASE k # 1
      <4>1. StandsAt(segs[k], name, at[k])
        <5>1. StandsAt(tail[k - 1], rest, at[k] - len) /\ at[k] \in len..Len(name)
          BY <2>1, <2>2, <3>2
        <5>2. StandsAt(segs[(k - 1) + 1], name, at[k])
          BY <5>1, <1>6, <2>2, <3>2
        <5>3. QED
          BY <5>2, <2>2, <3>2
      <4>2. ASSUME NEW j \in 1..(k - 1)
            PROVE  at[j] + Len(segs[j]) <= at[k]
        <5>1. CASE j = 1
          BY <5>1, <2>2, <2>3, <3>2, <1>2 DEF len
        <5>2. CASE j # 1
          <6>1. j \in 1..Len(segs) /\ j - 1 \in 1..((k - 1) - 1)
            BY <5>2, <1>1
          <6>2. bt[j - 1] + Len(tail[j - 1]) <= bt[k - 1]
            BY <6>1, <2>1, <2>2, <3>2
          <6>3. tail[j - 1] = segs[j] /\ Len(segs[j]) \in Nat
            BY <6>1, <5>2, <2>2, <1>1, <1>4
          <6>4. len \in Int /\ bt[j - 1] \in Int /\ bt[k - 1] \in Int /\ Len(segs[j]) \in Int
            BY <6>1, <6>3, <5>2, <3>2, <2>2, <1>2
          <6>5. bt[j - 1] + Len(segs[j]) <= bt[k - 1]
            BY <6>2, <6>3
          <6>6. (bt[j - 1] + len) + Len(segs[j]) <= bt[k - 1] + len
            BY <6>4, <6>5, Shifted
          <6>7. at[j] = bt[j - 1] + len /\ at[k] = bt[k - 1] + len
            BY <6>1, <5>2, <3>2, <2>2
          <6>8. QED
            BY <6>6, <6>7
        <5>3. QED
          BY <5>1, <5>2
      <4>3. QED
        BY <4>1, <4>2
    <3>3. QED
      BY <3>1, <3>2
  <2>7. QED
    BY <2>5, <2>6 DEF Fits
<1>9. QED
  BY <1>7, <1>8 DEF rest, len, tail

\* A list of patterns matches if the first one fits or the rest matches.
LEMMA MatchesFirstOrRest ==
    ASSUME NEW list \in Seq(Seq(Segment)), NEW name \in Seq(Name)
    PROVE  /\ list = <<>> => ~Matches(list, name)
           /\ list # <<>> => (Matches(list, name) <=>
                                Fits(Head(list), name) \/ Matches(Tail(list), name))
<1>1. list = <<>> => ~Matches(list, name)
  <2>1. list = <<>> => 1..Len(list) = {}
    BY EmptySeq
  <2>2. QED
    BY <2>1 DEF Matches
<1>2. ASSUME list # <<>>
      PROVE  Matches(list, name) <=> Fits(Head(list), name) \/ Matches(Tail(list), name)
  <2>1. /\ Len(list) \in Nat /\ Len(list) >= 1 /\ Head(list) = list[1]
        /\ Len(Tail(list)) = Len(list) - 1
        /\ \A i \in 1..Len(Tail(list)) : Tail(list)[i] = list[i + 1]
    BY <1>2, LenProperties, EmptySeq, HeadTailProperties
  <2>2. ASSUME Matches(list, name)
        PROVE  Fits(Head(list), name) \/ Matches(Tail(list), name)
    <3>1. PICK p \in 1..Len(list) : Fits(list[p], name)
      BY <2>2 DEF Matches
    <3>2. CASE p = 1
      BY <3>1, <3>2, <2>1
    <3>3. CASE p # 1
      <4>1. p - 1 \in 1..Len(Tail(list)) /\ Tail(list)[p - 1] = list[p]
        BY <3>3, <2>1
      <4>2. QED
        BY <3>1, <4>1 DEF Matches
    <3>4. QED
      BY <3>2, <3>3
  <2>3. ASSUME Fits(Head(list), name)
        PROVE  Matches(list, name)
    BY <2>1, <2>3 DEF Matches
  <2>4. ASSUME Matches(Tail(list), name)
        PROVE  Matches(list, name)
    <3>1. PICK p \in 1..Len(Tail(list)) : Fits(Tail(list)[p], name)
      BY <2>4 DEF Matches
    <3>2. p + 1 \in 1..Len(list) /\ Fits(list[p + 1], name)
      BY <3>1, <2>1
    <3>3. QED
      BY <3>2 DEF Matches
  <2>5. QED
    BY <2>2, <2>3, <2>4
<1>3. QED
  BY <1>1, <1>2

-----------------------------------------------------------------------------
(* What is still to be found out is always what was query. *)

Found == Matches(query[1], query[2])

MatchInv ==
    /\ TypeOK
    /\ point = "pattern" => (Found <=> Matches(patts, query[2]))
    /\ point \in {"segment", "find"} =>
           (Found <=> Fits(segments, items) \/ Matches(patts, query[2]))
    /\ point = "find" => segments # <<>>
    /\ point = "done" => (found <=> Found)

\* The search begins with what is asked.
LEMMA InitMatchInv == Init => MatchInv
<1> SUFFICES ASSUME Init PROVE MatchInv
  OBVIOUS
<1>1. /\ query[1] \in Patterns /\ query[2] \in Test
      /\ query[1] \in Seq(Seq(Segment)) /\ query[2] \in Seq(Name)
  BY MatchAssumption DEF Init, Segment
<1>2. <<>> \in Seq(Segment)
  BY EmptySeq
<1>3. TypeOK
  BY <1>1, <1>2 DEF Init, TypeOK, Segment
<1>4. QED
  BY <1>3 DEF Init, MatchInv, Found

\* No step of the search changes whether the rest matches.
LEMMA NextMatchInv == MatchInv /\ [Next]_vars => MatchInv'
<1> SUFFICES ASSUME MatchInv, [Next]_vars PROVE MatchInv'
  OBVIOUS
<1>1. /\ query \in Patterns \X Test /\ query[1] \in Seq(Seq(Segment)) /\ query[2] \in Seq(Name)
      /\ patts \in Seq(Seq(Segment)) /\ segments \in Seq(Segment) /\ items \in Seq(Name)
  BY MatchAssumption DEF MatchInv, TypeOK, Segment
<1>2. CASE NextPattern
  <2>1. Head(patts) \in Seq(Segment) /\ Tail(patts) \in Seq(Seq(Segment))
    BY <1>1, <1>2, HeadTailProperties DEF NextPattern
  <2>2. TypeOK'
    BY <1>1, <1>2, <2>1 DEF MatchInv, TypeOK, NextPattern, Segment
  <2>3. Found <=> Fits(segments', items') \/ Matches(patts', query[2])
    BY <1>1, <1>2, MatchesFirstOrRest DEF MatchInv, NextPattern
  <2>4. point' = "segment" /\ Found' = Found /\ query' = query
    BY <1>2 DEF NextPattern, Found
  <2>5. QED
    BY <2>2, <2>3, <2>4 DEF MatchInv
<1>3. CASE NoMatch
  <2>1. TypeOK'
    BY <1>1, <1>3 DEF MatchInv, TypeOK, NoMatch
  <2>2. ~Found
    BY <1>1, <1>3, MatchesFirstOrRest DEF MatchInv, NoMatch
  <2>3. QED
    BY <1>3, <2>1, <2>2 DEF MatchInv, NoMatch, Found
<1>4. CASE NextSegment
  <2>1. TypeOK'
    BY <1>1, <1>4 DEF MatchInv, TypeOK, NextSegment
  <2>2. QED
    BY <1>4, <2>1 DEF MatchInv, NextSegment, Found
<1>5. CASE AllFound
  <2>1. TypeOK'
    BY <1>1, <1>5 DEF MatchInv, TypeOK, AllFound
  <2>2. Found
    BY <1>1, <1>5, EmptyFits DEF MatchInv, AllFound
  <2>3. QED
    BY <1>5, <2>1, <2>2 DEF MatchInv, AllFound, Found
<1>6. CASE GiveUp
  <2>1. TypeOK'
    BY <1>1, <1>6 DEF MatchInv, TypeOK, GiveUp
  <2>2. ~Fits(segments, items)
    BY <1>1, <1>6, NoHeadNoFit DEF MatchInv, GiveUp
  <2>3. QED
    BY <1>6, <2>1, <2>2 DEF MatchInv, GiveUp, Found
<1>7. CASE Cut
  <2>1. segments # <<>> /\ StandsAt(segments[1], items, 0)
    BY <1>7 DEF Cut, AtHead, MatchInv
  <2>2. segments[1] \in Segment /\ Len(segments[1]) \in 0..Len(items)
    <3>1. 1 \in 1..Len(segments)
      BY <1>1, <2>1, LenProperties, EmptySeq
    <3>2. segments[1] \in Segment
      BY <1>1, <3>1, ElementOfSeq
    <3>3. Len(segments[1]) \in Nat /\ Len(items) \in Nat
      BY <1>1, <3>2, LenProperties DEF Segment
    <3>4. QED
      BY <2>1, <3>2, <3>3 DEF StandsAt
  <2>3. items' \in Seq(Name) /\ segments' \in Seq(Segment)
    BY <1>1, <1>7, <2>1, <2>2, DropProperties, HeadTailProperties DEF Cut
  <2>4. TypeOK'
    BY <1>1, <1>7, <2>3 DEF MatchInv, TypeOK, Cut, Segment
  <2>5. Fits(segments, items) <=> Fits(segments', items')
    BY <1>1, <1>7, <2>1, CutKeepsFit DEF Cut
  <2>6. QED
    BY <1>7, <2>4, <2>5 DEF MatchInv, Cut, Found
<1>8. CASE Move
  <2>1. segments # <<>> /\ ~StandsAt(segments[1], items, 0) /\ items # <<>>
    <3>1. PICK k \in 1..Len(items) : items[k] = segments[1][1]
      BY <1>8 DEF Move, Occurs
    <3>2. items # <<>>
      BY <3>1, EmptySeq
    <3>3. QED
      BY <1>8, <3>2 DEF Move, AtHead, MatchInv
  <2>2. 1 \in 0..Len(items)
    BY <1>1, <2>1, LenProperties, EmptySeq
  <2>3. items' \in Seq(Name)
    BY <1>1, <1>8, <2>2, DropProperties DEF Move
  <2>4. TypeOK'
    BY <1>1, <1>8, <2>3 DEF MatchInv, TypeOK, Move, Segment
  <2>5. Fits(segments, items) <=> Fits(segments, items')
    BY <1>1, <1>8, <2>1, MoveKeepsFit DEF Move
  <2>6. QED
    BY <1>8, <2>4, <2>5 DEF MatchInv, Move, Found
<1>9. CASE UNCHANGED vars
  BY <1>9 DEF MatchInv, TypeOK, Found, vars
<1>10. QED
  BY <1>2, <1>3, <1>4, <1>5, <1>6, <1>7, <1>8, <1>9 DEF Next

\* test_match (utils.py:399) returns True exactly for the names that match one of
\* the patterns, however long both are: the greedy search misses no match.
THEOREM SearchIsRight == Spec => []AnswerIsRight
<1>1. MatchInv => AnswerIsRight
  BY DEF MatchInv, AnswerIsRight, Found
<1>2. QED
  BY InitMatchInv, NextMatchInv, <1>1, PTL DEF Spec

-----------------------------------------------------------------------------
(* Side by side.  Whatever part moves, each component does what its own    *)
(* specification allows: one of its steps if it is the one that moves, and *)
(* nothing otherwise.  What its specification implies it keeps in          *)
(* UnionSpec.  The pool and the balancing are proved about in modules of   *)
(* their own, which are instantiated as MCLiveness instantiates the        *)
(* components; the other parts of ClusterProofs have nothing to say here.  *)

PoolFacts == INSTANCE SshPoolProofs WITH
    NoConn <- -1, Main <- "main", Nobody <- "nobody"
ClusterFacts == INSTANCE ClusterProofs WITH
    Node <- Hosts, FailureDomain <- Domain, StrictPool <- TRUE, Fails <- TRUE, Nobody <- "nobody",
    Host <- {}, Console <- {}, User <- {}, Group <- {}, Default <- "", System <- {},
    Domain <- {}, Pw <- {}, MaxCalls <- 0, etc <- 0, smb <- 0, archive <- 0, call <- 0,
    answer <- 0, alone <- 0, deaf <- 0, left <- 0,
    Unpacks <- {}, MaxLines <- 0, Copies <- FALSE, sn <- 0, cached <- 0, late <- 0,
    sncall <- 0, unread <- 0, serials <- 0, error <- 0, ret <- 0, roll <- 0, retcode <- 0,
    staged <- 0, installed <- 0

\* A step of UnionNext is a step of each component, or leaves it alone.
LEMMA OneMoves ==
    ASSUME [UnionNext]_unionVars
    PROVE  /\ [Next]_vars
           /\ [Stop!Next]_(Stop!vars)
           /\ [Machine!Next]_(Machine!vars)
           /\ [Cloud!Next]_(Cloud!vars)
           /\ [Strict!Next]_(Strict!vars)
<1>1. /\ (part = "match" /\ Next) \/ UNCHANGED vars
      /\ (part = "stop" /\ Stop!Next) \/ UNCHANGED poolVars
      /\ (part = "machine" /\ Machine!Next) \/ UNCHANGED machineVars
      /\ (part = "cloud" /\ Cloud!Next) \/ UNCHANGED cloudVars
      /\ (part = "strict" /\ Strict!Next) \/ UNCHANGED balanceVars
  BY DEF UnionNext, Rests, unionVars
<1>2. UNCHANGED poolVars => UNCHANGED Stop!vars
  BY DEF poolVars, Stop!vars, Stop!conns, Stop!pools, Stop!workers, Stop!main
<1>3. UNCHANGED machineVars => UNCHANGED Machine!vars
  BY DEF machineVars, Machine!vars, Machine!given, Machine!server, Machine!files
<1>4. UNCHANGED cloudVars => UNCHANGED Cloud!vars
  BY DEF cloudVars, Cloud!vars, Cloud!args, Cloud!cloud, Cloud!tear
<1>5. UNCHANGED balanceVars => UNCHANGED Strict!vars
  BY DEF balanceVars, Strict!vars, Strict!cluster, Strict!locals, Strict!effects
<1> QED
  BY <1>1, <1>2, <1>3, <1>4, <1>5

\* So each behaviour of UnionSpec is one of each component.
LEMMA EachBehaves ==
    UnionSpec => Spec /\ Stop!Spec /\ Machine!Spec /\ Cloud!Spec /\ Strict!Spec
<1>1. UnionInit => Init /\ Stop!Init /\ Machine!Init /\ Cloud!Init /\ Strict!Init
  BY DEF UnionInit
<1>2. [UnionNext]_unionVars =>
          /\ [Next]_vars
          /\ [Stop!Next]_(Stop!vars)
          /\ [Machine!Next]_(Machine!vars)
          /\ [Cloud!Next]_(Cloud!vars)
          /\ [Strict!Next]_(Strict!vars)
  BY OneMoves
<1> QED
  BY <1>1, <1>2, PTL DEF UnionSpec, Spec, Stop!Spec, Machine!Spec, Cloud!Spec, Strict!Spec

\* The pool that SshPoolProofs is about is that of this specification.
LEMMA StopIsPool ==
    /\ Stop!SshPoolAssumption => PoolFacts!SshPoolAssumption
    /\ Stop!Spec => PoolFacts!Spec
    /\ PoolFacts!PoolBounded => Stop!PoolBounded
<1>1. Stop!SshPoolAssumption => PoolFacts!SshPoolAssumption
  BY DEF Stop!SshPoolAssumption, PoolFacts!SshPoolAssumption
<1>2. Stop!Init => PoolFacts!Init
  BY DEF Stop!Init, PoolFacts!Init, Stop!conns, PoolFacts!conns, Stop!pools, PoolFacts!pools,
         Stop!workers, PoolFacts!workers, Stop!main, PoolFacts!main, Stop!Closed,
         PoolFacts!Closed, Stop!Chan, PoolFacts!Chan, Stop!Conn, PoolFacts!Conn, Stop!Pools,
         PoolFacts!Pools
<1>3. [Stop!Next]_(Stop!vars) => [PoolFacts!Next]_(PoolFacts!vars)
  BY DEF Stop!Cardinality, PoolFacts!Cardinality, Stop!IsFiniteSet, PoolFacts!IsFiniteSet,
         Stop!conns, PoolFacts!conns, Stop!pools, PoolFacts!pools, Stop!workers,
         PoolFacts!workers, Stop!main, PoolFacts!main, Stop!vars, PoolFacts!vars, Stop!Closed,
         PoolFacts!Closed, Stop!Chan, PoolFacts!Chan, Stop!Conn, PoolFacts!Conn, Stop!Pools,
         PoolFacts!Pools, Stop!Goto, PoolFacts!Goto, Stop!Finish, PoolFacts!Finish,
         Stop!Available, PoolFacts!Available, Stop!Lookup, PoolFacts!Lookup, Stop!Ask,
         PoolFacts!Ask, Stop!IsNext, PoolFacts!IsNext, Stop!Connected, PoolFacts!Connected,
         Stop!FailedConnect, PoolFacts!FailedConnect, Stop!ConnectFails, PoolFacts!ConnectFails,
         Stop!TakeChan, PoolFacts!TakeChan, Stop!Answer, PoolFacts!Answer, Stop!Count,
         PoolFacts!Count, Stop!Drop, PoolFacts!Drop, Stop!CreatePool, PoolFacts!CreatePool,
         Stop!Walk, PoolFacts!Walk, Stop!BeginInitLoop, PoolFacts!BeginInitLoop,
         Stop!AcquirePool, PoolFacts!AcquirePool, Stop!EnterTry, PoolFacts!EnterTry,
         Stop!LeaveCluster, PoolFacts!LeaveCluster, Stop!SigTerm, PoolFacts!SigTerm,
         Stop!Handle, PoolFacts!Handle, Stop!Proceeds, PoolFacts!Proceeds, Stop!AtEnd,
         PoolFacts!AtEnd, Stop!Skip, PoolFacts!Skip, Stop!BeginClose, PoolFacts!BeginClose,
         Stop!EndClose, PoolFacts!EndClose, Stop!EndCheck, PoolFacts!EndCheck, Stop!Add,
         PoolFacts!Add, Stop!ReleasePool, PoolFacts!ReleasePool, Stop!EndClosing,
         PoolFacts!EndClosing, Stop!Clear, PoolFacts!Clear, Stop!WorkerStep,
         PoolFacts!WorkerStep, Stop!MainStep, PoolFacts!MainStep, Stop!Next, PoolFacts!Next
<1>4. PoolFacts!PoolBounded => Stop!PoolBounded
  BY DEF Stop!PoolBounded, PoolFacts!PoolBounded, Stop!Pools, PoolFacts!Pools
<1> QED
  BY <1>1, <1>2, <1>3, <1>4, PTL DEF Stop!Spec, PoolFacts!Spec

\* And so is the balancing of ClusterProofs.
LEMMA StrictIsBalance ==
    /\ Strict!BalanceAssumption => ClusterFacts!Balance!BalanceAssumption
    /\ Strict!Spec => ClusterFacts!Balance!Spec
    /\ ClusterFacts!Balance!StrictHasDisks => Strict!StrictHasDisks
<1>1. Strict!BalanceAssumption => ClusterFacts!Balance!BalanceAssumption
  BY DEF Strict!BalanceAssumption, ClusterFacts!Balance!BalanceAssumption, Strict!Task,
         ClusterFacts!Balance!Task, Strict!IsFiniteSet, ClusterFacts!Balance!IsFiniteSet
<1>2. Strict!Init => ClusterFacts!Balance!Init
  BY DEF Strict!Init, ClusterFacts!Balance!Init, Strict!Task, ClusterFacts!Balance!Task
<1>3. [Strict!Next]_(Strict!vars) => [ClusterFacts!Balance!Next]_(ClusterFacts!Balance!vars)
  BY DEF Strict!Cardinality, ClusterFacts!Balance!Cardinality, Strict!IsFiniteSet,
         ClusterFacts!Balance!IsFiniteSet, Strict!Task, ClusterFacts!Balance!Task,
         Strict!BalanceAssumption, ClusterFacts!Balance!BalanceAssumption, Strict!cluster,
         ClusterFacts!Balance!cluster, Strict!locals, ClusterFacts!Balance!locals,
         Strict!effects, ClusterFacts!Balance!effects, Strict!vars, ClusterFacts!Balance!vars,
         Strict!AllSame, ClusterFacts!Balance!AllSame, Strict!Least, ClusterFacts!Balance!Least,
         Strict!Works, ClusterFacts!Balance!Works, Strict!Ended, ClusterFacts!Balance!Ended,
         Strict!Go, ClusterFacts!Balance!Go, Strict!AskDisks, ClusterFacts!Balance!AskDisks,
         Strict!CountDisks, ClusterFacts!Balance!CountDisks, Strict!Query,
         ClusterFacts!Balance!Query, Strict!CompareDisks, ClusterFacts!Balance!CompareDisks,
         Strict!CompareWeights, ClusterFacts!Balance!CompareWeights, Strict!Lock,
         ClusterFacts!Balance!Lock, Strict!Start, ClusterFacts!Balance!Start, Strict!Commit,
         ClusterFacts!Balance!Commit, Strict!Enable, ClusterFacts!Balance!Enable,
         Strict!Reweight, ClusterFacts!Balance!Reweight, Strict!Twice,
         ClusterFacts!Balance!Twice, Strict!Script, ClusterFacts!Balance!Script, Strict!Again,
         ClusterFacts!Balance!Again, Strict!DiskChanges, ClusterFacts!Balance!DiskChanges,
         Strict!Step, ClusterFacts!Balance!Step, Strict!Next, ClusterFacts!Balance!Next
<1>4. ClusterFacts!Balance!StrictHasDisks => Strict!StrictHasDisks
  BY DEF Strict!StrictHasDisks, ClusterFacts!Balance!StrictHasDisks
<1> QED
  BY <1>1, <1>2, <1>3, <1>4, PTL DEF Strict!Spec, ClusterFacts!Balance!Spec

\* What is taken from a shared stock stays within its limits and is given back,
\* whichever component moves and whatever its constants are: connections, disks,
\* beaker systems, nodes and addresses of OpenStack.
THEOREM ResourcesAreSoundAlways == UnionSpec => []ResourcesAreSound
<1>1. UnionSpec => []Stop!PoolBounded
  <2>1. PoolFacts!SshPoolAssumption
    BY StopIsPool, LivenessAssumption
  <2> QED
    BY <2>1, PoolFacts!PoolBoundedHolds, StopIsPool, EachBehaves, PTL
<1>2. Machine!MachineLeaseAssumption /\ Cloud!CloudLeaseAssumption /\ IsFiniteSet(Other)
  BY LivenessAssumption
<1>3. UnionSpec => [](Machine!OneLiveJob /\ Machine!NoLeak /\ Machine!RecordedIsReserved)
  BY <1>2, OneLiveJobAlways, NoLeakHolds, RecordedIsReservedHolds, EachBehaves, PTL
<1>4. UnionSpec => [](/\ Cloud!OthersAreSpared /\ Cloud!RecordedIsUsable
                      /\ Cloud!DoneIsDone /\ Cloud!AddressIsFreed)
  BY <1>2, OthersAreSparedHolds, RecordedIsUsableHolds, DoneIsDoneHolds, AddressIsFreedHolds,
     EachBehaves, PTL
<1>5. UnionSpec => []Strict!StrictHasDisks
  <2>1. ClusterFacts!Balance!BalanceAssumption
    BY StrictIsBalance, LivenessAssumption
  <2> QED
    BY <2>1, ClusterFacts!StrictHasDisksHolds, StrictIsBalance, EachBehaves, PTL
<1> QED
  BY <1>1, <1>3, <1>4, <1>5, PTL DEF ResourcesAreSound

\* Beaker jobs and OpenStack nodes are leased as Lease says, in every behaviour of
\* the composed specification.
THEOREM LeasesAreKeptAlways == UnionSpec => LeasesAreKept
<1>1. Machine!MachineLeaseAssumption /\ Cloud!CloudLeaseAssumption
  BY LivenessAssumption
<1> QED
  BY <1>1, MachineKeepsLease, CloudKeepsLease, EachBehaves, PTL DEF LeasesAreKept

\* The search of test_match is right beside the other components too.
THEOREM AnswerIsRightAlways == UnionSpec => []AnswerIsRight
  BY SearchIsRight, EachBehaves, PTL
=============================================================================
