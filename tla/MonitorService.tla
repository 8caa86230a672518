--------------------------- MODULE MonitorService ---------------------------
(***************************************************************************)
(* MonitorService of cli/cluster_performance_handler.py: the main thread,  *)
(* which starts a record thread (ClusterMonitor) every round while the     *)
(* node is the master, counts the rounds each one lives, keeps the node    *)
(* monitor process running, leaves the cluster mode when the node is no    *)
(* longer the master, and handles SIGTERM and SIGHUP.                      *)
(* A count of a record thread is written by the thread and by the main     *)
(* thread without a lock.  The pool of connections is in SshPool; the      *)
(* cleaning of abandoned sessions touches nothing of this.                 *)
(***************************************************************************)
EXTENDS Integers, FiniteSets

CONSTANTS
    Slot,      \* entries cluster_monitor_dict may have at once (bound)
    MaxExist,  \* ClusterMonitor.max_exist_num
    TestFrom,  \* rounds after which the mastership is tested (4)
    MaxFailed, \* tests that must fail to leave the cluster mode (4)
    NoSlot     \* no entry

MonitorServiceAssumption ==
    /\ IsFiniteSet(Slot) /\ NoSlot \notin Slot
    /\ MaxExist \in Nat \ {0} /\ TestFrom \in Nat \ {0} /\ MaxFailed \in Nat \ {0}

VARIABLES
    main,      \* where the main thread is
    visits,    \* entries its current loop has still to look at
    counted,   \* the entry whose count it found to be other than -1
    mon,       \* slot -> its ClusterMonitor: "none", "fresh", "starting",
               \*         "running", "ending" (count is -1) or "ended"
    how,       \* slot -> how its thread ended
    cnt,       \* slot -> ClusterMonitor.count
    node,      \* the NodeMonitor process, started by start(): "alive" or "dead"
    count,     \* MonitorService.count
    notmaster, \* is_not_master_count
    failing,   \* tests that failed since the last one that succeeded (history)
    alarms,    \* entries reported as 'exits abnormally' when they were popped
    signal     \* the signal that arrived

loop    == <<main, visits, counted>>
records == <<mon, how, cnt, alarms>>
tests   == <<count, notmaster, failing>>
vars    == <<loop, records, node, tests, signal>>

Dict  == {s \in Slot : mon[s] # "none"}
Alive == {s \in Slot : mon[s] \in {"starting", "running", "ending"}}
Over  == main \in {"crashed", "exited"}

TypeOK ==
    /\ main \in {"outer", "round", "visit", "increase", "sweep", "assert",
                "nodecheck", "crashed", "exited"}
    /\ visits \subseteq Slot /\ counted \in Slot \cup {NoSlot}
    /\ mon \in [Slot -> {"none", "fresh", "starting", "running", "ending", "ended"}]
    /\ how \in [Slot -> {"none", "normal", "failed", "killed"}]
    /\ cnt \in [Slot -> -1..MaxExist]
    /\ alarms \subseteq Slot
    /\ node \in {"alive", "dead"}
    /\ count \in 0..(TestFrom + MaxFailed) /\ notmaster \in 0..(MaxFailed - 1)
    /\ failing \in 0..MaxFailed
    /\ signal \in {"none", "term", "hup"}

Init ==
    /\ main = "outer" /\ visits = {} /\ counted = NoSlot
    /\ mon = [s \in Slot |-> "none"]
    /\ how = [s \in Slot |-> "none"]
    /\ cnt = [s \in Slot |-> 0]
    /\ alarms = {}
    /\ node = "alive"
    /\ count = 0 /\ notmaster = 0 /\ failing = 0
    /\ signal = "none"

-----------------------------------------------------------------------------
(* The record threads. *)

\* (Mutant of Run: the thread does not count itself.)
BugRun(s) ==
    /\ mon[s] = "starting"
    /\ mon' = [mon EXCEPT ![s] = "running"]
    /\ UNCHANGED <<loop, how, cnt, alarms, node, tests, signal>>

\* The thread gets going: its own count_increase.
Run(s) ==
    /\ mon[s] = "starting"
    /\ mon' = [mon EXCEPT ![s] = "running"]
    /\ cnt' = [cnt EXCEPT ![s] = IF @ # -1 THEN @ + 1 ELSE @]
    /\ UNCHANGED <<loop, how, alarms, node, tests, signal>>

\* The collection is through, however many of its threads were given up after
\* 15 s: count = -1, and the thread is about to end.
Normal(s) ==
    /\ mon[s] = "running"
    /\ mon' = [mon EXCEPT ![s] = "ending"]
    /\ how' = [how EXCEPT ![s] = "normal"]
    /\ cnt' = [cnt EXCEPT ![s] = -1]
    /\ UNCHANGED <<loop, alarms, node, tests, signal>>

\* cluster_collect_and_write_data ends the thread by sys.exit.
Fails(s) ==
    /\ mon[s] = "running"
    /\ mon' = [mon EXCEPT ![s] = "ended"]
    /\ how' = [how EXCEPT ![s] = "failed"]
    /\ UNCHANGED <<loop, cnt, alarms, node, tests, signal>>

End(s) ==
    /\ mon[s] = "ending"
    /\ mon' = [mon EXCEPT ![s] = "ended"]
    /\ UNCHANGED <<loop, how, cnt, alarms, node, tests, signal>>

NodeMonitorDies ==
    /\ node = "alive"
    /\ node' = "dead"
    /\ UNCHANGED <<loop, records, tests, signal>>

-----------------------------------------------------------------------------
(* The main thread. *)

\* One turn of start(): the node is the master, or the monitor is looked at.
\* Process.start refuses an object that was started before.
Outer ==
    /\ main = "outer" /\ signal = "none"
    /\ \/ main' = "round" /\ failing' = 0
       \/ main' = (IF node = "dead" THEN "crashed" ELSE "outer") /\ UNCHANGED failing
    /\ UNCHANGED <<visits, counted, records, node, count, notmaster, signal>>

\* A round begins: a new ClusterMonitor enters the dict (unless it is full,
\* which is the bound of the model).
NewRecord ==
    /\ main = "round" /\ signal = "none"
    /\ \/ \E s \in Slot \ Dict :
             mon' = [mon EXCEPT ![s] = "fresh"] /\ visits' = Dict \cup {s}
       \/ Dict = Slot /\ visits' = Dict /\ UNCHANGED mon
    /\ main' = "visit"
    /\ UNCHANGED <<counted, how, cnt, alarms, node, tests, signal>>

\* _async_raise takes a success for a failure and takes the exception back; it
\* is delivered only if the thread runs in between.
StopThread(s) ==
    \/ UNCHANGED <<mon, how>>
    \/ /\ mon[s] \in {"running", "ending"}
       /\ mon' = [mon EXCEPT ![s] = "ended"]
       /\ how' = [how EXCEPT ![s] = IF @ = "none" THEN "killed" ELSE @]

\* is_still_not_run, is_need_to_be_stopped or count_increase, in this order.
\* Thread.start refuses a thread that was started before.  A thread started
\* in one round runs before the next.
Visit ==
    /\ main = "visit" /\ signal = "none"
    /\ \E s \in visits :
          /\ mon[s] # "starting"
          /\ visits' = visits \ {s}
          /\ \/ /\ cnt[s] = 0
                /\ mon' = IF mon[s] = "fresh" THEN [mon EXCEPT ![s] = "starting"] ELSE mon
                /\ main' = IF mon[s] = "fresh" THEN main ELSE "crashed"
                /\ UNCHANGED <<how, counted>>
             \/ cnt[s] >= MaxExist /\ StopThread(s) /\ UNCHANGED <<main, counted>>
             \/ cnt[s] = -1 /\ UNCHANGED <<mon, how, main, counted>>
             \/ /\ cnt[s] \in 1..(MaxExist - 1)
                /\ counted' = s /\ main' = "increase"
                /\ UNCHANGED <<mon, how>>
    /\ UNCHANGED <<cnt, alarms, node, tests, signal>>

\* The second half of count_increase, after its test of -1.
Increase ==
    /\ main = "increase" /\ signal = "none"
    /\ cnt' = [cnt EXCEPT ![counted] = @ + 1]
    /\ main' = "visit" /\ counted' = NoSlot
    /\ UNCHANGED <<visits, mon, how, alarms, node, tests, signal>>

BeginSweep ==
    /\ main = "visit" /\ visits = {} /\ signal = "none"
    /\ visits' = Dict /\ main' = "sweep"
    /\ alarms' = {}
    /\ UNCHANGED <<counted, mon, how, cnt, node, tests, signal>>

\* (Mutant of Sweep: the verdict looks at whether the thread ever ran.)
BugSweep ==
    /\ main = "sweep" /\ signal = "none"
    /\ \E s \in visits :
          /\ visits' = visits \ {s}
          /\ IF s \in Alive THEN UNCHANGED records
             ELSE /\ mon' = [mon EXCEPT ![s] = "none"]
                  /\ how' = [how EXCEPT ![s] = "none"]
                  /\ cnt' = [cnt EXCEPT ![s] = 0]
                  /\ alarms' = IF cnt[s] = 0 THEN alarms \cup {s} ELSE alarms
    /\ UNCHANGED <<main, counted, node, tests, signal>>

\* A thread that is no longer alive leaves the dict, with an error in the log
\* unless its count is -1.
Sweep ==
    /\ main = "sweep" /\ signal = "none"
    /\ \E s \in visits :
          /\ visits' = visits \ {s}
          /\ IF s \in Alive THEN UNCHANGED records
             ELSE /\ mon' = [mon EXCEPT ![s] = "none"]
                  /\ how' = [how EXCEPT ![s] = "none"]
                  /\ cnt' = [cnt EXCEPT ![s] = 0]
                  /\ alarms' = IF cnt[s] # -1 THEN alarms \cup {s} ELSE alarms
    /\ UNCHANGED <<main, counted, node, tests, signal>>

\* share.init_loop comes next (SshPool).
EndSweep ==
    /\ main = "sweep" /\ visits = {} /\ signal = "none"
    /\ main' = "assert"
    /\ UNCHANGED <<visits, counted, records, node, tests, signal>>

\* stop(is_stop_node=False): the exception for a thread comes from stop_thread.
StopThreads ==
    \E K \in SUBSET {s \in Slot : mon[s] \in {"running", "ending"}} :
        /\ mon' = [s \in Slot |-> IF s \in K THEN "ended" ELSE mon[s]]
        /\ how' = [s \in Slot |-> IF s \in K /\ how[s] = "none" THEN "killed" ELSE how[s]]

\* (Mutant of LoopAssert: a success does not reset is_not_master_count.)
BugLoopAssert ==
    /\ main = "assert" /\ signal = "none"
    /\ \/ /\ count < TestFrom
          /\ count' = count + 1 /\ main' = "nodecheck"
          /\ UNCHANGED <<notmaster, failing, mon, how>>
       \/ /\ count >= TestFrom
          /\ count' = 1 /\ failing' = 0 /\ main' = "nodecheck"
          /\ UNCHANGED <<notmaster, mon, how>>
       \/ /\ count >= TestFrom /\ notmaster + 1 < MaxFailed
          /\ count' = count + 1 /\ notmaster' = notmaster + 1
          /\ failing' = failing + 1
          /\ main' = "nodecheck"
          /\ UNCHANGED <<mon, how>>
       \/ /\ count >= TestFrom /\ notmaster + 1 >= MaxFailed
          /\ count' = 1 /\ notmaster' = 0
          /\ failing' = failing + 1
          /\ StopThreads
          /\ main' = "outer"
    /\ UNCHANGED <<visits, counted, cnt, alarms, node, signal>>

\* (Mutant of LoopAssert: the count of lost tests starts again every time.)
BugLoopAssertForgets ==
    /\ main = "assert" /\ signal = "none"
    /\ IF count < TestFrom THEN count' = count + 1 /\ UNCHANGED failing
       ELSE count' = 1 /\ failing' \in {0, IF failing < MaxFailed THEN failing + 1 ELSE failing}
    /\ main' = "nodecheck"
    /\ UNCHANGED <<notmaster, mon, how, visits, counted, cnt, alarms, node, signal>>

\* (Mutant of LoopAssert: leaving the cluster mode does not reset the count.)
BugLoopAssertKeeps ==
    /\ main = "assert" /\ signal = "none"
    /\ \/ count < TestFrom /\ count' = count + 1 /\ UNCHANGED <<notmaster, failing>> /\ main' = "nodecheck"
       \/ /\ count >= TestFrom
          /\ count' = 1 /\ notmaster' = notmaster + 1 /\ failing' = failing + 1
          /\ main' = IF notmaster + 1 < MaxFailed THEN "nodecheck" ELSE "outer"
    /\ UNCHANGED <<visits, counted, cnt, mon, how, alarms, node, signal>>

\* loop_assert: after some rounds the mastership is tested, in every round
\* until a test succeeds; enough failures in a row end the cluster mode.
LoopAssert ==
    /\ main = "assert" /\ signal = "none"
    /\ \/ /\ count < TestFrom
          /\ count' = count + 1 /\ main' = "nodecheck"
          /\ UNCHANGED <<notmaster, failing, mon, how>>
       \/ /\ count >= TestFrom
          /\ count' = 1 /\ notmaster' = 0 /\ failing' = 0 /\ main' = "nodecheck"
          /\ UNCHANGED <<mon, how>>
       \/ /\ count >= TestFrom /\ notmaster + 1 < MaxFailed
          /\ count' = count + 1 /\ notmaster' = notmaster + 1 /\ failing' = failing + 1
          /\ main' = "nodecheck"
          /\ UNCHANGED <<mon, how>>
       \/ /\ count >= TestFrom /\ notmaster + 1 >= MaxFailed
          /\ count' = 1 /\ notmaster' = 0 /\ failing' = failing + 1
          /\ StopThreads
          /\ main' = "outer"
    /\ UNCHANGED <<visits, counted, cnt, alarms, node, signal>>

\* The last step of a round: the node monitor is started again if it died.
NodeCheck ==
    /\ main = "nodecheck" /\ signal = "none"
    /\ main' = IF node = "dead" THEN "crashed" ELSE "round"
    /\ UNCHANGED <<visits, counted, records, node, tests, signal>>

Signal(g) ==
    /\ signal = "none" /\ ~Over
    /\ signal' = g
    /\ UNCHANGED <<loop, records, node, tests>>

\* (Mutant of Stop: the node monitor is left alone.)
BugStop ==
    /\ signal # "none" /\ ~Over
    /\ StopThreads
    /\ main' = "exited"
    /\ UNCHANGED <<node, visits, counted, cnt, alarms, tests, signal>>

\* stop() and restart(), which begins with stop() and its sys.exit.
Stop ==
    /\ signal # "none" /\ ~Over
    /\ node' = IF node = "alive" THEN "dead" ELSE node
    /\ StopThreads
    /\ main' = "exited"
    /\ UNCHANGED <<visits, counted, cnt, alarms, tests, signal>>

-----------------------------------------------------------------------------
ThreadStep(s) == Run(s) \/ Normal(s) \/ Fails(s) \/ End(s)

MainStep ==
    \/ Outer \/ NewRecord \/ Visit \/ Increase \/ BeginSweep \/ Sweep \/ EndSweep
    \/ LoopAssert \/ NodeCheck \/ Stop

Next ==
    \/ \E s \in Slot : ThreadStep(s)
    \/ NodeMonitorDies
    \/ MainStep
    \/ \E g \in {"term", "hup"} : Signal(g)

Spec == Init /\ [][Next]_vars

\* Threads run; a collection ends, as it waits at most 15 s for each of its
\* items.
FairSpec ==
    /\ Spec
    /\ WF_vars(MainStep)
    /\ \A s \in Slot : WF_vars(ThreadStep(s))

-----------------------------------------------------------------------------
(* Properties. *)

\* The cluster mode is left only after the tests of the mastership failed four
\* times in a row ('no longer the master node after four tests'), although
\* count and is_not_master_count live on across rounds and mode changes.
LeavesAfterTests ==
    [][main = "assert" /\ main' = "outer" => failing' >= MaxFailed]_vars

\* A node that loses the mastership for good leaves the cluster mode, unless
\* its service ends before.
LosesCluster ==
    (failing > 0 /\ main = "round") ~> (failing = 0 \/ main = "outer" \/ Over)

\* A record is reported as abnormal exactly if its thread did not end as it
\* should, or if it ended between the two halves of count_increase: the main
\* thread then overwrote its -1 by 0.
Verdict ==
    [][\A s \in Slot : mon[s] = "ended" /\ mon'[s] = "none" =>
          (s \in alarms' <=> how[s] # "normal" \/ cnt[s] = 0)]_vars

\* The service dies of an exception only if the node monitor died before, or if
\* the overwritten -1 makes it start a thread a second time.
CrashCauses ==
    main = "crashed" =>
        \/ node = "dead"
        \/ \E s \in Dict : how[s] = "normal" /\ cnt[s] = 0

\* A stopped service leaves no node monitor behind, and its record threads end.
StopsAll == (signal # "none") ~> (Over /\ Alive = {} /\ (main = "exited" => node # "alive"))

=============================================================================
