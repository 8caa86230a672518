--------------------------- MODULE CapacityBalance ---------------------------
(***************************************************************************)
(* osd_capacity_balance_erasure and osd_capacity_balance_replicate         *)
(* (cli/fedora_util.py): a task that created a directory balances the      *)
(* weights of the disks (OSDs) below the pool.  It asks the cluster for    *)
(* its nodes, disks and weights, one command after the other, decides      *)
(* whether it may go on, notes its progress in tasks.db under a file lock  *)
(* and runs a script that changes the weights.                             *)
(*                                                                         *)
(* Several tasks run at a time; disks come and go in between; every        *)
(* command may fail.                                                       *)
(***************************************************************************)
EXTENDS Integers, FiniteSets

CONSTANTS
    Erasure,    \* tasks on an erasure coded pool
    Replicated, \* tasks on a replicated pool
    Node,       \* nodes of the cluster
    Parts,      \* k + m, or the number of replicas
    Domain,     \* n: 0, or 1 with two virtual hosts on a node
    Strict,     \* whether this is 4+2:1, which asks for many disks
    MinDisks,   \* the 24 of 4+2:1
    MaxDisks,   \* disks of a node (bound)
    Version,    \* "old" < 3.5.0.0 <= "mid" <= 3.5.2.0 < "new"
    Fails,      \* whether a command may fail
    MaxChange,  \* disks that come and go (bound)
    None        \* nobody, nothing

Task == Erasure \cup Replicated

BalanceAssumption ==
    /\ Erasure \cap Replicated = {} /\ None \notin Task
    /\ IsFiniteSet(Node) /\ Node # {} /\ Parts \in Nat /\ Domain \in {0, 1}
    /\ Strict \in BOOLEAN /\ MinDisks \in Nat /\ MaxDisks \in Nat /\ MaxChange \in Nat
    /\ Version \in {"old", "mid", "new"} /\ Fails \in BOOLEAN

VARIABLES
    disks,    \* node -> its disks
    weight,   \* node -> its weight in the crush map
    changes,  \* disks that came or went
    task,     \* where a task is
    same,     \* what if_osd_num_same told it: "same", "differ" or "failed"
    least,    \* and the least number of disks of a node
    holder,   \* who has the lock of the commit
    progress, \* task -> whether tasks.db has its progress
    reweighs, \* task -> how often it ran the reweight script
    passed    \* task -> comparisons it has passed (history)

cluster == <<disks, weight, changes>>
locals  == <<same, least, passed>>
effects == <<holder, progress, reweighs>>
vars    == <<cluster, task, locals, effects>>

AllSame(f) == Cardinality({f[n] : n \in Node}) = 1
Least      == CHOOSE d \in {disks[n] : n \in Node} : \A n \in Node : d <= disks[n]
Works      == {TRUE} \cup (IF Fails THEN {FALSE} ELSE {})
Ended(t)   == task[t] \in {"ok", "refused", "failed", "died"}

TypeOK ==
    /\ disks \in [Node -> 0..MaxDisks] /\ weight \in [Node -> 0..1] /\ changes \in 0..MaxChange
    /\ task \in [Task -> {"count", "query", "compare", "weigh", "lock", "commit", "enable",
                        "script", "again", "ok", "refused", "failed", "died"}]
    /\ same \in [Task -> {"same", "differ", "failed"}] /\ least \in [Task -> 0..MaxDisks]
    /\ holder \in Task \cup {None} /\ progress \in [Task -> BOOLEAN]
    /\ reweighs \in [Task -> 0..2] /\ passed \in [Task -> SUBSET {"disks", "weights"}]

Init ==
    /\ disks \in [Node -> 1..MaxDisks] /\ weight \in [Node -> 0..1] /\ changes = 0
    /\ task = [t \in Task |-> IF t \in Erasure THEN "count" ELSE "query"]
    /\ same = [t \in Task |-> "failed"] /\ least = [t \in Task |-> 0]
    /\ holder = None /\ progress = [t \in Task |-> FALSE]
    /\ reweighs = [t \in Task |-> 0] /\ passed = [t \in Task |-> {}]

Go(t, l) == task' = [task EXCEPT ![t] = l]

\* if_osd_num_same: the disks of each node are counted.
AskDisks(t) ==
    \E ok \in Works :
        /\ same' = [same EXCEPT ![t] = IF ~ok THEN "failed"
                                       ELSE IF AllSame(disks) THEN "same" ELSE "differ"]
        /\ least' = [least EXCEPT ![t] = IF ok THEN Least ELSE 0]

\* (Mutant of CountDisks: 4+2:1 is not treated specially.)
BugCountDisks(t) ==
    /\ task[t] = "count"
    /\ AskDisks(t) /\ Go(t, "query")
    /\ UNCHANGED <<cluster, passed, effects>>
\* The erasure coded pool counts first, and 4+2:1 needs many disks.
CountDisks(t) ==
    /\ task[t] = "count"
    /\ AskDisks(t)
    /\ Go(t, IF Strict /\ (same'[t] = "failed" \/ least'[t] < MinDisks) THEN "refused" ELSE "query")
    /\ UNCHANGED <<cluster, passed, effects>>

\* The placement groups of the pool and the number of nodes.  Only if there are
\* just as many hosts as parts are the nodes compared.
Query(t) ==
    /\ task[t] = "query"
    /\ \E ok \in Works :
           Go(t, IF ~ok THEN "refused"
                 ELSE IF Parts = Cardinality(Node) * (IF t \in Erasure THEN Domain + 1 ELSE 1)
                 THEN "compare" ELSE "lock")
    /\ UNCHANGED <<cluster, locals, effects>>

\* (Mutant of CompareDisks: nodes that differ are let through.)
BugCompareDisks(t) ==
    /\ task[t] = "compare"
    /\ IF t \in Erasure THEN UNCHANGED <<same, least>> ELSE AskDisks(t)
    /\ Go(t, IF same'[t] # "failed" THEN "weigh" ELSE "refused")
    /\ UNCHANGED <<cluster, passed, effects>>
\* The erasure coded pool uses what it asked for at the start, and goes on if
\* that call had failed; the replicated one asks now, and does not.
CompareDisks(t) ==
    /\ task[t] = "compare"
    /\ IF t \in Erasure THEN UNCHANGED <<same, least>> ELSE AskDisks(t)
    /\ \/ same'[t] = "same" /\ Go(t, "weigh") /\ passed' = [passed EXCEPT ![t] = @ \cup {"disks"}]
       \/ same'[t] = "differ" /\ Go(t, "refused") /\ UNCHANGED passed
       \/ /\ same'[t] = "failed" /\ UNCHANGED passed
          /\ Go(t, IF t \in Erasure THEN "weigh" ELSE "refused")
    /\ UNCHANGED <<cluster, effects>>

\* if_crush_weight_same.
CompareWeights(t) ==
    /\ task[t] = "weigh"
    /\ \/ /\ AllSame(weight)
          /\ Go(t, "lock") /\ passed' = [passed EXCEPT ![t] = @ \cup {"weights"}]
       \/ /\ ~AllSame(weight) \/ Fails
          /\ Go(t, "refused") /\ UNCHANGED passed
    /\ UNCHANGED <<cluster, same, least, effects>>

\* flock(LOCK_EX): waits.
Lock(t) ==
    /\ task[t] = "lock" /\ holder = None
    /\ holder' = t
    /\ Go(t, "commit")
    /\ UNCHANGED <<cluster, locals, progress, reweighs>>

Start == IF Version = "old" THEN "enable" ELSE "script"

\* (Mutant of Commit: an exception leaves the lock behind.)
BugCommit(t) ==
    /\ task[t] = "commit"
    /\ \E ok \in Works :
           /\ progress' = [progress EXCEPT ![t] = ok]
           /\ Go(t, IF ok THEN Start ELSE "died")
           /\ holder' = IF ok THEN None ELSE holder
    /\ UNCHANGED <<cluster, locals, reweighs>>
\* The row of the task is updated and the lock released; an exception of sqlite
\* ends the process, and with it the lock.
Commit(t) ==
    /\ task[t] = "commit"
    /\ \E ok \in Works :
           /\ progress' = [progress EXCEPT ![t] = ok]
           /\ Go(t, IF ok THEN Start ELSE "died")
    /\ holder' = None
    /\ UNCHANGED <<cluster, locals, reweighs>>

\* icfs osd pool set .. canbalance 1
Enable(t) ==
    /\ task[t] = "enable"
    /\ \E ok \in Works : Go(t, IF ok THEN "script" ELSE "failed")
    /\ UNCHANGED <<cluster, locals, effects>>

\* The script gives the nodes new weights.  On a replicated pool the new one is
\* run a first time with its result thrown away.
Reweight(t) == weight' \in [Node -> 0..1] /\ reweighs' = [reweighs EXCEPT ![t] = @ + 1]
Twice(t)    == t \in Replicated /\ Version = "new"

\* (Mutant of Script: it is run twice on any pool.)
BugScript(t) ==
    /\ task[t] = "script"
    /\ Reweight(t)
    /\ Go(t, "again")
    /\ UNCHANGED <<disks, changes, locals, holder, progress>>
Script(t) ==
    /\ task[t] = "script"
    /\ Reweight(t)
    /\ \E ok \in Works : Go(t, IF Twice(t) THEN "again" ELSE IF ok THEN "ok" ELSE "failed")
    /\ UNCHANGED <<disks, changes, locals, holder, progress>>

\* (Mutant of Again: it is run until it succeeds.)
BugAgain(t) ==
    /\ task[t] = "again"
    /\ Reweight(t)
    /\ \E ok \in Works : Go(t, IF ok THEN "ok" ELSE "again")
    /\ UNCHANGED <<disks, changes, locals, holder, progress>>
Again(t) ==
    /\ task[t] = "again"
    /\ Reweight(t)
    /\ \E ok \in Works : Go(t, IF ok THEN "ok" ELSE "failed")
    /\ UNCHANGED <<disks, changes, locals, holder, progress>>

\* A disk is added to a node or taken from it.
DiskChanges(n) ==
    /\ changes < MaxChange /\ changes' = changes + 1
    /\ \E d \in {disks[n] - 1, disks[n] + 1} \cap 1..MaxDisks : disks' = [disks EXCEPT ![n] = d]
    /\ UNCHANGED <<weight, task, locals, effects>>

Step(t) == CountDisks(t) \/ Query(t) \/ CompareDisks(t) \/ CompareWeights(t) \/ Lock(t)
           \/ Commit(t) \/ Enable(t) \/ Script(t) \/ Again(t)

Next == (\E t \in Task : Step(t)) \/ (\E n \in Node : DiskChanges(n))

Spec == Init /\ [][Next]_vars

\* Every command returns; whoever waits for the lock gets it again and again
\* offered, and the kernel does not pass over one waiter for ever.
Fairness == \A t \in Task : WF_vars(Step(t)) /\ SF_vars(Lock(t))
FairSpec == Spec /\ Fairness

-----------------------------------------------------------------------------
(* What the code keeps. *)

\* A task on a replicated pool with a part on every node changes no weight
\* before both comparisons were passed, whichever of them failed to run.
ReplicatedIsCompared ==
    \A t \in Replicated : reweighs[t] > 0 /\ Parts = Cardinality(Node) => passed[t] = {"disks", "weights"}

\* 4+2:1 balances only with the disks it asks for.
StrictHasDisks == \A t \in Erasure : Strict /\ reweighs[t] > 0 => least[t] >= MinDisks

\* The weights of an erasure coded pool are computed once.
ErasureRunsOnce == \A t \in Erasure : reweighs[t] <= 1

\* Whoever ended, in whatever way, does not hold the lock.
LockIsReturned == holder # None => ~Ended(holder)

\* Every task ends, with the others contending for the lock.
TasksEnd == \A t \in Task : <>Ended(t)

=============================================================================
