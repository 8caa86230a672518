---------------------------- MODULE DaemonGuardian ----------------------------
(***************************************************************************)
(* metadash/async/daemon.py: a "daemon" is a celery task that runs for     *)
(* ever, and should run exactly once among all workers.  A periodic task,  *)
(* the guardian, spawns it when the workers report no active instance; a   *)
(* new instance first asks the workers whether another one is active and   *)
(* gives up if so; a stopper thread beside a running instance keeps asking *)
(* and stops it when it finds another one.  Guardians exclude one another  *)
(* by a redis lock that has no expiry.                                     *)
(*                                                                         *)
(* Workers answer one after the other (celery's inspect is a broadcast),   *)
(* so what an instance learns of the others is not a snapshot; an answer   *)
(* may also not arrive in time, which looks like an idle worker.           *)
(***************************************************************************)
EXTENDS Naturals, FiniteSets

CONSTANTS
    Guardian,   \* concurrent executions of the guardian task
    Nobody,     \* holder of the free lock
    Instance,   \* bound: executions of the daemon task at a time; an ended
                \* one may be used again
    MaxLost,    \* bound: answers of workers that do not arrive
    MaxCrash    \* bound: guardians killed

ASSUME GuardianAssumption ==
    Nobody \notin Guardian /\ MaxLost \in Nat /\ MaxCrash \in Nat

VARIABLES
    mutex,    \* holder of metadash_daemon_spawner
    guard,    \* where each guardian is
    task,     \* where each instance is
    asked,    \* whom a starting instance has asked about, itself included
    heard,    \* ... and of whom it was told that they are active
    lost,     \* number of lost answers so far
    crashes,  \* number of killed guardians so far
    misled    \* ghost: instances that started with a lost answer

guardianVars == <<mutex, guard, task, asked, heard, lost, crashes, misled>>

GuardianTypeOK ==
    /\ mutex \in Guardian \cup {Nobody}
    /\ guard \in [Guardian -> {"off", "sleep", "spawn", "release", "dead"}]
    /\ task \in [Instance -> {"none", "queued", "starting", "running", "stopping"}]
    /\ asked \in [Instance -> SUBSET Instance]
    /\ heard \in [Instance -> SUBSET Instance]
    /\ lost \in 0..MaxLost
    /\ crashes \in 0..MaxCrash
    /\ misled \subseteq Instance

\* (Mutant of Active: an instance is listed only once it is admitted.)
BugActive(d) == task[d] \in {"running", "stopping"}

\* What celery's inspect().active() lists.
Active(d) == task[d] \in {"starting", "running", "stopping"}

GuardianInit ==
    /\ mutex = Nobody
    /\ guard = [g \in Guardian |-> "off"]
    /\ task = [d \in Instance |-> "none"]
    /\ asked = [d \in Instance |-> {}]
    /\ heard = [d \in Instance |-> {}]
    /\ lost = 0 /\ crashes = 0
    /\ misled = {}

Guard(g, label) == guard' = [guard EXCEPT ![g] = label]
Task(d, label)  == task' = [task EXCEPT ![d] = label]

-----------------------------------------------------------------------------
\* (Mutant of Acquire: the result of mutex.acquire is ignored.)
BugAcquire(g) ==
    /\ guard[g] = "off"
    /\ mutex' = g
    /\ Guard(g, "sleep")
    /\ UNCHANGED <<task, asked, heard, lost, crashes, misled>>

\* The guardian's turn: acquire without waiting, or exit at once.
Acquire(g) ==
    /\ guard[g] = "off" /\ mutex = Nobody
    /\ mutex' = g
    /\ Guard(g, "sleep")
    /\ UNCHANGED <<task, asked, heard, lost, crashes, misled>>

\* 30 seconds later it asks the workers for their active tasks; answers may
\* be lost, or the question raises.
Inspect(g) ==
    /\ guard[g] = "sleep"
    /\ \/ \E d \in Instance : Active(d) /\ Guard(g, "release") /\ UNCHANGED lost
       \/ (\A d \in Instance : ~Active(d)) /\ Guard(g, "spawn") /\ UNCHANGED lost
       \/ /\ lost < MaxLost /\ lost' = lost + 1
          /\ Guard(g, "spawn") \/ Guard(g, "release")
    /\ UNCHANGED <<mutex, task, asked, heard, crashes, misled>>

\* Daemons[daemon].run(): one more instance is queued.
Spawn(g) ==
    /\ guard[g] = "spawn"
    /\ \/ \E d \in Instance : task[d] = "none" /\ Task(d, "queued")
       \/ (\A d \in Instance : task[d] # "none") /\ UNCHANGED task
    /\ Guard(g, "release")
    /\ UNCHANGED <<mutex, asked, heard, lost, crashes, misled>>

\* The finally clause.
Release(g) ==
    /\ guard[g] = "release"
    /\ mutex' = Nobody
    /\ Guard(g, "off")
    /\ UNCHANGED <<task, asked, heard, lost, crashes, misled>>

\* The worker process of a guardian is killed; what it holds stays held.
Crash(g) ==
    /\ guard[g] \notin {"off", "dead"} /\ crashes < MaxCrash
    /\ crashes' = crashes + 1
    /\ Guard(g, "dead")
    /\ UNCHANGED <<mutex, task, asked, heard, lost, misled>>

-----------------------------------------------------------------------------
\* A worker takes the task from the queue: it is active from now on.
Start(d) ==
    /\ task[d] = "queued"
    /\ Task(d, "starting")
    /\ UNCHANGED <<mutex, guard, asked, heard, lost, crashes, misled>>

\* another_running: the worker that may run e answers, or fails to.  The
\* instance's own worker is asked like the others.
Ask(d, e) ==
    /\ task[d] = "starting" /\ e \notin asked[d]
    /\ asked' = [asked EXCEPT ![d] = @ \cup {e}]
    /\ \/ /\ heard' = [heard EXCEPT ![d] = IF Active(e) THEN @ \cup {e} ELSE @]
          /\ UNCHANGED <<lost, misled>>
       \/ /\ Active(e) /\ lost < MaxLost
          /\ lost' = lost + 1
          /\ misled' = misled \cup {d}
          /\ UNCHANGED heard
    /\ UNCHANGED <<mutex, guard, task, crashes>>

AskedAll(d) == task[d] = "starting" /\ Instance \subseteq asked[d]

\* running_tasks.count(daemon.daemon_name) > 1
AnotherRunning(d) == \E e, f \in heard[d] : e # f

\* The task ends; what it knew goes with it.
Leave(d) ==
    /\ Task(d, "none")
    /\ asked' = [asked EXCEPT ![d] = {}]
    /\ heard' = [heard EXCEPT ![d] = {}]
    /\ misled' = misled \ {d}
    /\ UNCHANGED <<mutex, guard, lost, crashes>>

\* DaemonFnWrapper: give up, or start the stopper and call the function.
GiveUp(d) ==
    /\ AskedAll(d) /\ AnotherRunning(d)
    /\ Leave(d)

Admit(d) ==
    /\ AskedAll(d) /\ ~AnotherRunning(d)
    /\ Task(d, "running")
    /\ UNCHANGED <<mutex, guard, asked, heard, lost, crashes, misled>>

\* (Mutant of StopDuplicate: the count is compared with 2 instead of 1.)
BugStopDuplicate(d) ==
    /\ task[d] = "running"
    /\ Cardinality({e \in Instance : Active(e)}) > 2
    /\ Task(d, "stopping")
    /\ UNCHANGED <<mutex, guard, asked, heard, lost, crashes, misled>>

\* DaemonStopper sees another active instance ...
StopDuplicate(d) ==
    /\ task[d] = "running"
    /\ \E e \in Instance \ {d} : Active(e)
    /\ Task(d, "stopping")
    /\ UNCHANGED <<mutex, guard, asked, heard, lost, crashes, misled>>

\* ... or its worker is shutting down.
StopShutdown(d) ==
    /\ task[d] = "running"
    /\ Task(d, "stopping")
    /\ UNCHANGED <<mutex, guard, asked, heard, lost, crashes, misled>>

\* (Mutant of End: the instance is never taken off the list.)
BugEnd(d) ==
    /\ task[d] \in {"running", "stopping"}
    /\ Task(d, "ended")
    /\ UNCHANGED <<mutex, guard, asked, heard, lost, crashes, misled>>

\* The function returns after its exit handler was called, or fails.
End(d) ==
    /\ task[d] \in {"running", "stopping"}
    /\ Leave(d)

GuardianStep(g) == Acquire(g) \/ Inspect(g) \/ Spawn(g) \/ Release(g)
StartStep(d) == Start(d) \/ (\E e \in Instance : Ask(d, e)) \/ GiveUp(d) \/ Admit(d)
EndStopped(d) == task[d] = "stopping" /\ End(d)

GuardianNext ==
    \/ \E g \in Guardian : GuardianStep(g) \/ Crash(g)
    \/ \E d \in Instance : StartStep(d) \/ StopDuplicate(d) \/ StopShutdown(d) \/ End(d)

GuardianSpec == GuardianInit /\ [][GuardianNext]_guardianVars

\* Guardians are scheduled periodically and workers take tasks from their
\* queues; a stopper repeats its question every 30 seconds.
GuardianFairness ==
    /\ WF_guardianVars(\E g \in Guardian : GuardianStep(g))
    /\ \A d \in Instance :
          /\ WF_guardianVars(StartStep(d))
          /\ WF_guardianVars(StopDuplicate(d))
          /\ WF_guardianVars(EndStopped(d))

FairGuardianSpec == GuardianSpec /\ GuardianFairness

-----------------------------------------------------------------------------
\* Of two instances that run at the same time at least one was admitted on a
\* lost answer: because an instance is active before it asks, two of them
\* cannot overlook each other, in whatever order the workers answer
\* (DaemonFnWrapper, another_running).
OnlyOneRuns ==
    \A d, e \in Instance :
        (d # e /\ task[d] = "running" /\ task[e] = "running")
        => (d \in misled \/ e \in misled)

\* Spawning is exclusive: the guardian between its question and the spawn is
\* the one that holds the lock.
SpawnerHoldsMutex ==
    \A g \in Guardian : guard[g] \in {"sleep", "spawn", "release"} => mutex = g

\* Several active instances do not stay so: they give up or are stopped.
Busy == {d \in Instance : Active(d)}
DuplicatesEnd == Cardinality(Busy) > 1 ~> Cardinality(Busy) <= 1

-----------------------------------------------------------------------------
\* What daemon() says of the function it decorates: "A always running task".
\* However often it ends, it runs again.
AlwaysRunning == []<>(\E d \in Instance : task[d] = "running")
=============================================================================
