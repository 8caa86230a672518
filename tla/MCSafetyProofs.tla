--------------------------- MODULE MCSafetyProofs ---------------------------
(***************************************************************************)
(* What is proved of the components of MCSafety side by side: that the     *)
(* threads of the cluster monitor share connections as they should and the *)
(* service dies for two reasons only (ConnectionsAreShared), and that what *)
(* is done on all nodes of a cluster is done whole or not at all           *)
(* (ClusterIsAgreed).  The argument for the service itself is here; those  *)
(* for the pool and for the cluster are in SshPoolProofs and ClusterProofs,*)
(* which are instantiated as MCSafety instantiates their components.  The  *)
(* other properties of MCSafety that are proved are in MCRecordsProofs.    *)
(***************************************************************************)
EXTENDS MCSafety, TLAPS

-----------------------------------------------------------------------------
(* The service of the cluster monitor. *)


\* What the count of a record thread and the way it ended say of each other: only
\* a thread that ended well has a count of -1, or of 0 if the main thread
\* overwrote it.
Marked ==
    \A s \in Slot :
        /\ mon[s] \in {"none", "fresh", "starting"} => cnt[s] = 0 /\ how[s] = "none"
        /\ mon[s] = "running" => how[s] = "none"
        /\ mon[s] = "ending" => how[s] = "normal"
        /\ mon[s] = "ended" => how[s] # "none"
        /\ how[s] = "normal" => cnt[s] \in {-1, 0}
        /\ mon[s] \in {"running", "ended"} /\ how[s] # "normal" => cnt[s] \in 1..MaxExist

\* Where the main thread is in its loops.
Looping ==
    /\ visits \subseteq Monitor!Dict
    /\ main = "increase" => /\ counted \in Slot /\ mon[counted] \in {"running", "ending", "ended"}
                            /\ cnt[counted] \in {-1} \cup 1..(MaxExist - 1)
    /\ main = "sweep" => visits \cap alarms = {}

\* The tests that failed in a row are those is_not_master_count counts.
Tested ==
    /\ main = "outer" => notmaster = 0
    /\ main \notin {"outer", "crashed", "exited"} => failing = notmaster
    /\ count <= TestFrom + notmaster

MonitorInv == Monitor!TypeOK /\ Marked /\ Looping /\ Tested /\ Monitor!CrashCauses

\* The invariant holds initially ...
LEMMA MonitorInvInit == Monitor!MonitorServiceAssumption /\ Monitor!Init => MonitorInv
  BY DEF Monitor!MonitorServiceAssumption, Monitor!Init, MonitorInv, Monitor!TypeOK, Marked,
         Looping, Tested, Monitor!CrashCauses,
         Monitor!Dict

\* ... and each step of a thread or a signal keeps it.
LEMMA MonitorInvNext ==
    ASSUME Monitor!MonitorServiceAssumption, MonitorInv, [Monitor!Next]_(Monitor!vars)
    PROVE  MonitorInv'
<1> USE DEF Monitor!MonitorServiceAssumption, MonitorInv, Monitor!TypeOK, Marked, Looping,
            Tested, Monitor!CrashCauses, Monitor!Dict,
           Monitor!loop, Monitor!records, Monitor!tests
<1>1. ASSUME NEW s \in Slot, Monitor!Run(s) PROVE MonitorInv'
  BY <1>1 DEF Monitor!Run
<1>2. ASSUME NEW s \in Slot, Monitor!Normal(s) PROVE MonitorInv'
  BY <1>2 DEF Monitor!Normal
<1>3. ASSUME NEW s \in Slot, Monitor!Fails(s) PROVE MonitorInv'
  BY <1>3 DEF Monitor!Fails
<1>4. ASSUME NEW s \in Slot, Monitor!End(s) PROVE MonitorInv'
  BY <1>4 DEF Monitor!End
<1>5. CASE Monitor!NodeMonitorDies
  BY <1>5 DEF Monitor!NodeMonitorDies
<1>6. CASE Monitor!Outer
  BY <1>6 DEF Monitor!Outer
<1>7. CASE Monitor!NewRecord
  BY <1>7 DEF Monitor!NewRecord
<1>8. CASE Monitor!Visit
  BY <1>8 DEF Monitor!Visit, Monitor!StopThread
<1>9. CASE Monitor!Increase
  BY <1>9 DEF Monitor!Increase
<1>10. CASE Monitor!BeginSweep
  BY <1>10 DEF Monitor!BeginSweep
<1>11. CASE Monitor!Sweep
  BY <1>11 DEF Monitor!Sweep, Monitor!Alive
<1>12. CASE Monitor!EndSweep
  BY <1>12 DEF Monitor!EndSweep
<1>13. CASE Monitor!LoopAssert
  BY <1>13 DEF Monitor!LoopAssert, Monitor!StopThreads
<1>14. CASE Monitor!NodeCheck
  BY <1>14 DEF Monitor!NodeCheck
<1>15. CASE Monitor!Stop
  BY <1>15 DEF Monitor!Stop, Monitor!StopThreads, Monitor!Over
<1>16. ASSUME NEW g \in {"term", "hup"}, Monitor!Signal(g) PROVE MonitorInv'
  BY <1>16 DEF Monitor!Signal, Monitor!Over
<1>17. CASE UNCHANGED Monitor!vars
  BY <1>17 DEF Monitor!vars
<1> HIDE DEF MonitorInv, Monitor!loop, Monitor!records, Monitor!tests
<1> QED
  BY <1>1, <1>2, <1>3, <1>4, <1>5, <1>6, <1>7, <1>8, <1>9, <1>10, <1>11, <1>12,
     <1>13, <1>14, <1>15, <1>16, <1>17
     DEF Monitor!Next, Monitor!ThreadStep, Monitor!MainStep

\* The invariant holds throughout.
LEMMA MonitorInvHolds ==
    ASSUME Monitor!MonitorServiceAssumption
    PROVE  Monitor!Spec => []MonitorInv
<1>1. Monitor!Init => MonitorInv
  BY MonitorInvInit
<1>2. MonitorInv /\ [Monitor!Next]_(Monitor!vars) => MonitorInv'
  BY MonitorInvNext
<1> QED
  BY <1>1, <1>2, PTL DEF Monitor!Spec

\* The variables of the service have their types: no count outgrows its limit.
THEOREM MonitorTypeHolds ==
    ASSUME Monitor!MonitorServiceAssumption
    PROVE  Monitor!Spec => []Monitor!TypeOK
<1>1. MonitorInv => Monitor!TypeOK
  BY DEF MonitorInv
<1> QED
  BY <1>1, MonitorInvHolds, PTL

\* The service dies of an exception for two reasons only.
THEOREM CrashCausesHold ==
    ASSUME Monitor!MonitorServiceAssumption
    PROVE  Monitor!Spec => []Monitor!CrashCauses
<1>1. MonitorInv => Monitor!CrashCauses
  BY DEF MonitorInv
<1> QED
  BY <1>1, MonitorInvHolds, PTL

\* The cluster mode is left only after enough failed tests in a row.
THEOREM LeavesAfterTestsHolds ==
    ASSUME Monitor!MonitorServiceAssumption
    PROVE  Monitor!Spec => Monitor!LeavesAfterTests
<1> DEFINE Lawful == main = "assert" /\ main' = "outer" => failing' >= MaxFailed
<1>1. MonitorInv /\ [Monitor!Next]_(Monitor!vars) => [Lawful]_(Monitor!vars)
  <2> SUFFICES ASSUME MonitorInv, Monitor!Next PROVE Lawful
    OBVIOUS
  <2> USE DEF MonitorInv, Tested, Monitor!TypeOK, Monitor!MonitorServiceAssumption
  <2>1. ASSUME NEW s \in Slot, Monitor!ThreadStep(s) PROVE Lawful
    BY <2>1 DEF Monitor!ThreadStep, Monitor!Run, Monitor!Normal, Monitor!Fails, Monitor!End,
                Monitor!loop
  <2>2. CASE Monitor!MainStep
    BY <2>2 DEF Monitor!MainStep, Monitor!Outer, Monitor!NewRecord, Monitor!Visit,
                Monitor!Increase, Monitor!BeginSweep, Monitor!Sweep, Monitor!EndSweep,
                Monitor!LoopAssert,
           Monitor!NodeCheck, Monitor!Stop
  <2>3. CASE Monitor!NodeMonitorDies \/ \E g \in {"term", "hup"} : Monitor!Signal(g)
    BY <2>3 DEF Monitor!NodeMonitorDies, Monitor!Signal, Monitor!loop
  <2> QED
    BY <2>1, <2>2, <2>3 DEF Monitor!Next
<1> QED
  BY <1>1, MonitorInvHolds, PTL DEF Monitor!Spec, Monitor!LeavesAfterTests

\* A record is reported as abnormal exactly if its thread did not end as it
\* should, or its count was overwritten.
THEOREM VerdictHolds ==
    ASSUME Monitor!MonitorServiceAssumption
    PROVE  Monitor!Spec => Monitor!Verdict
<1> DEFINE Lawful == \A s \in Slot : mon[s] = "ended" /\ mon'[s] = "none" =>
                         (s \in alarms' <=> how[s] # "normal" \/ cnt[s] = 0)
<1>1. MonitorInv /\ [Monitor!Next]_(Monitor!vars) => [Lawful]_(Monitor!vars)
  <2> SUFFICES ASSUME MonitorInv, Monitor!Next PROVE Lawful
    OBVIOUS
  <2> USE DEF MonitorInv, Marked, Looping, Monitor!TypeOK
  <2>1. CASE Monitor!Sweep
    BY <2>1 DEF Monitor!Sweep, Monitor!Alive, Monitor!records
  <2>2. ASSUME NEW s \in Slot, Monitor!ThreadStep(s) PROVE Lawful
    BY <2>2 DEF Monitor!ThreadStep, Monitor!Run, Monitor!Normal, Monitor!Fails, Monitor!End
  <2>3. CASE \/ Monitor!Outer \/ Monitor!NewRecord \/ Monitor!Increase
             \/ Monitor!BeginSweep \/ Monitor!EndSweep \/ Monitor!NodeCheck
    BY <2>3 DEF Monitor!Outer, Monitor!NewRecord, Monitor!Increase, Monitor!BeginSweep,
                Monitor!EndSweep, Monitor!NodeCheck, Monitor!Dict, Monitor!records
  <2>4. CASE Monitor!Visit
    BY <2>4 DEF Monitor!Visit, Monitor!StopThread, Monitor!Dict
  <2>5. CASE Monitor!LoopAssert \/ Monitor!Stop
    BY <2>5 DEF Monitor!LoopAssert, Monitor!Stop, Monitor!StopThreads
  <2>6. CASE Monitor!NodeMonitorDies \/ \E g \in {"term", "hup"} : Monitor!Signal(g)
    BY <2>6 DEF Monitor!NodeMonitorDies, Monitor!Signal, Monitor!records
  <2> QED
    BY <2>1, <2>2, <2>3, <2>4, <2>5, <2>6 DEF Monitor!Next, Monitor!MainStep
<1> QED
  BY <1>1, MonitorInvHolds, PTL DEF Monitor!Spec, Monitor!Verdict

-----------------------------------------------------------------------------
(* Side by side. *)

\* A step of UnionNext leaves `part` alone; it is a step of the component that moves,
\* if any, and leaves the variables of the others alone.
LEMMA OneMoves ==
    ASSUME [UnionNext]_unionVars
    PROVE  /\ part' = part
           /\ (part = "pool" /\ Pool!Next) \/ UNCHANGED poolVars
           /\ (part = "monitor" /\ Monitor!Next) \/ UNCHANGED monitorVars
           /\ (part = "balance" /\ Balance!Next) \/ UNCHANGED balanceVars
           /\ \/ part = "serials" /\ Serials!Next
              \/ part = "again" /\ Again!Next
              \/ part = "rollback" /\ Rollback!Next
              \/ UNCHANGED fileVars
           /\ \/ part = "admin" /\ Admin!Next
              \/ part = "console" /\ Single!Next
              \/ UNCHANGED userCallVars
  BY DEF UnionNext, Rests, unionVars

\* Three components have variables of their own: whatever moves, they do what their
\* specifications allow.
LEMMA EachBehaves == UnionSpec => Pool!Spec /\ Monitor!Spec /\ Balance!Spec
<1>1. UnionInit => Pool!Init /\ Monitor!Init /\ Balance!Init
  BY DEF UnionInit
<1>2. [UnionNext]_unionVars =>
          /\ [Pool!Next]_(Pool!vars) /\ [Monitor!Next]_(Monitor!vars)
          /\ [Balance!Next]_(Balance!vars)
  <2>1. UNCHANGED poolVars => UNCHANGED Pool!vars
    BY DEF poolVars, Pool!vars, Pool!conns, Pool!pools, Pool!workers, Pool!main
  <2>2. UNCHANGED monitorVars => UNCHANGED Monitor!vars
    BY DEF monitorVars, Monitor!vars, Monitor!loop, Monitor!records, Monitor!tests
  <2>3. UNCHANGED balanceVars => UNCHANGED Balance!vars
    BY DEF balanceVars, Balance!vars, Balance!cluster, Balance!locals, Balance!effects
  <2> QED
    BY <2>1, <2>2, <2>3, OneMoves
<1> QED
  BY <1>1, <1>2, PTL DEF UnionSpec, Pool!Spec, Monitor!Spec, Balance!Spec

\* The others share variables with other instances of their component: a behaviour is
\* one of theirs if it is they that move, which never changes.
LEMMA SerialsBehave == part = "serials" /\ UnionSpec => Serials!Spec /\ [](part = "serials")
<1>1. part = "serials" /\ UnionInit => Serials!Init
  BY DEF UnionInit
<1>2. part = "serials" /\ [UnionNext]_unionVars =>
          (part = "serials")' /\ [Serials!Next]_(Serials!vars)
  <2>1. UNCHANGED fileVars => UNCHANGED Serials!vars
    BY DEF fileVars, Serials!vars, Serials!record, Serials!copy
  <2> QED
    BY <2>1, OneMoves
<1> QED
  BY <1>1, <1>2, PTL DEF UnionSpec, Serials!Spec

\* The same of the calls of a single console.
LEMMA AgainBehaves == part = "again" /\ UnionSpec => Again!Spec /\ [](part = "again")
<1>1. part = "again" /\ UnionInit => Again!Init
  BY DEF UnionInit
<1>2. part = "again" /\ [UnionNext]_unionVars =>
          (part = "again")' /\ [Again!Next]_(Again!vars)
  <2>1. UNCHANGED fileVars => UNCHANGED Again!vars
    BY DEF fileVars, Again!vars, Again!record, Again!copy
  <2> QED
    BY <2>1, OneMoves
<1> QED
  BY <1>1, <1>2, PTL DEF UnionSpec, Again!Spec

\* The same of the copies that are rolled back.
LEMMA RollbackBehaves == part = "rollback" /\ UnionSpec => Rollback!Spec /\ [](part = "rollback")
<1>1. part = "rollback" /\ UnionInit => Rollback!Init
  BY DEF UnionInit
<1>2. part = "rollback" /\ [UnionNext]_unionVars =>
          (part = "rollback")' /\ [Rollback!Next]_(Rollback!vars)
  <2>1. UNCHANGED fileVars => UNCHANGED Rollback!vars
    BY DEF fileVars, Rollback!vars, Rollback!record, Rollback!copy
  <2> QED
    BY <2>1, OneMoves
<1> QED
  BY <1>1, <1>2, PTL DEF UnionSpec, Rollback!Spec

\* The same of the calls for local users, where they meet ...
LEMMA AdminBehaves == part = "admin" /\ UnionSpec => Admin!Spec /\ [](part = "admin")
<1>1. part = "admin" /\ UnionInit => Admin!Init
  BY DEF UnionInit
<1>2. part = "admin" /\ [UnionNext]_unionVars =>
          (part = "admin")' /\ [Admin!Next]_(Admin!vars)
  <2>1. UNCHANGED userCallVars => UNCHANGED Admin!vars
    BY DEF userCallVars, Admin!vars
  <2> QED
    BY <2>1, OneMoves
<1> QED
  BY <1>1, <1>2, PTL DEF UnionSpec, Admin!Spec

\* ... and where a single console makes them.
LEMMA SingleBehaves == part = "console" /\ UnionSpec => Single!Spec /\ [](part = "console")
<1>1. part = "console" /\ UnionInit => Single!Init
  BY DEF UnionInit
<1>2. part = "console" /\ [UnionNext]_unionVars =>
          (part = "console")' /\ [Single!Next]_(Single!vars)
  <2>1. UNCHANGED userCallVars => UNCHANGED Single!vars
    BY DEF userCallVars, Single!vars
  <2> QED
    BY <2>1, OneMoves
<1> QED
  BY <1>1, <1>2, PTL DEF UnionSpec, Single!Spec

-----------------------------------------------------------------------------
(* What the threads of the cluster monitor share. *)

PoolFacts == INSTANCE SshPoolProofs WITH
    NoConn <- -1, Main <- "main", Nobody <- "nobody"

\* The pool that SshPoolProofs is about is that of this specification.
LEMMA PoolIsPool ==
    /\ Pool!SshPoolAssumption => PoolFacts!SshPoolAssumption
    /\ Pool!Spec => PoolFacts!Spec
    /\ PoolFacts!CountedUsers => Pool!CountedUsers
    /\ PoolFacts!ChannelExclusive => Pool!ChannelExclusive
    /\ PoolFacts!RemovedStaysEmpty => Pool!RemovedStaysEmpty
    /\ PoolFacts!OrphansAreOnDemand => Pool!OrphansAreOnDemand
<1>1. Pool!SshPoolAssumption => PoolFacts!SshPoolAssumption
  BY ZenonT(30) DEF Pool!SshPoolAssumption, PoolFacts!SshPoolAssumption
<1>2. Pool!Init => PoolFacts!Init
  BY ZenonT(30) DEF Pool!Init, PoolFacts!Init, Pool!conns, PoolFacts!conns, Pool!pools,
         PoolFacts!pools, Pool!workers, PoolFacts!workers, Pool!main, PoolFacts!main, Pool!Closed,
         PoolFacts!Closed, Pool!Chan, PoolFacts!Chan, Pool!Conn, PoolFacts!Conn, Pool!Pools,
         PoolFacts!Pools
<1>3. [Pool!Next]_(Pool!vars) => [PoolFacts!Next]_(PoolFacts!vars)
  BY ZenonT(60) DEF Pool!Cardinality, PoolFacts!Cardinality, Pool!IsFiniteSet,
         PoolFacts!IsFiniteSet,
         Pool!conns, PoolFacts!conns, Pool!pools, PoolFacts!pools, Pool!workers,
         PoolFacts!workers, Pool!main, PoolFacts!main, Pool!vars, PoolFacts!vars, Pool!Closed,
         PoolFacts!Closed, Pool!Chan, PoolFacts!Chan, Pool!Conn, PoolFacts!Conn, Pool!Pools,
         PoolFacts!Pools, Pool!Goto, PoolFacts!Goto, Pool!Finish, PoolFacts!Finish,
         Pool!Available, PoolFacts!Available, Pool!Lookup, PoolFacts!Lookup, Pool!Ask,
         PoolFacts!Ask, Pool!IsNext, PoolFacts!IsNext, Pool!Connected, PoolFacts!Connected,
         Pool!FailedConnect, PoolFacts!FailedConnect, Pool!ConnectFails, PoolFacts!ConnectFails,
         Pool!TakeChan, PoolFacts!TakeChan, Pool!Answer, PoolFacts!Answer, Pool!Count,
         PoolFacts!Count, Pool!Drop, PoolFacts!Drop, Pool!CreatePool, PoolFacts!CreatePool,
         Pool!Walk, PoolFacts!Walk, Pool!BeginInitLoop, PoolFacts!BeginInitLoop,
         Pool!AcquirePool, PoolFacts!AcquirePool, Pool!EnterTry, PoolFacts!EnterTry,
         Pool!LeaveCluster, PoolFacts!LeaveCluster, Pool!SigTerm, PoolFacts!SigTerm,
         Pool!Handle, PoolFacts!Handle, Pool!Proceeds, PoolFacts!Proceeds, Pool!AtEnd,
         PoolFacts!AtEnd, Pool!Skip, PoolFacts!Skip, Pool!BeginClose, PoolFacts!BeginClose,
         Pool!EndClose, PoolFacts!EndClose, Pool!EndCheck, PoolFacts!EndCheck, Pool!Add,
         PoolFacts!Add, Pool!ReleasePool, PoolFacts!ReleasePool, Pool!EndClosing,
         PoolFacts!EndClosing, Pool!Clear, PoolFacts!Clear, Pool!WorkerStep,
         PoolFacts!WorkerStep, Pool!MainStep, PoolFacts!MainStep, Pool!Next, PoolFacts!Next
<1>4. PoolFacts!CountedUsers => Pool!CountedUsers
  BY ZenonT(30) DEF Pool!CountedUsers, PoolFacts!CountedUsers, Pool!Cardinality,
         PoolFacts!Cardinality, Pool!IsFiniteSet, PoolFacts!IsFiniteSet, Pool!Users,
         PoolFacts!Users, Pool!Conn, PoolFacts!Conn
<1>5. PoolFacts!ChannelExclusive => Pool!ChannelExclusive
  BY ZenonT(30) DEF Pool!ChannelExclusive, PoolFacts!ChannelExclusive
<1>6. PoolFacts!RemovedStaysEmpty => Pool!RemovedStaysEmpty
  BY ZenonT(30) DEF Pool!RemovedStaysEmpty, PoolFacts!RemovedStaysEmpty
<1>7. PoolFacts!OrphansAreOnDemand => Pool!OrphansAreOnDemand
  BY ZenonT(30) DEF Pool!OrphansAreOnDemand, PoolFacts!OrphansAreOnDemand, Pool!Pooled,
         PoolFacts!Pooled, Pool!Conn, PoolFacts!Conn
<1> QED
  BY <1>1, <1>2, <1>3, <1>4, <1>5, <1>6, <1>7, PTL DEF Pool!Spec, PoolFacts!Spec

\* Whichever component moves and whatever its constants are, connections and channels
\* are used by those they were given to, pools that were given up stay empty, and the
\* service dies of an exception for two reasons only.
THEOREM ConnectionsAreSharedAlways == UnionSpec => []ConnectionsAreShared
<1>1. PoolFacts!SshPoolAssumption /\ Monitor!MonitorServiceAssumption
  BY PoolIsPool, SafetyAssumption
<1>2. UnionSpec => [](Pool!CountedUsers /\ Pool!ChannelExclusive)
  BY <1>1, EachBehaves, PoolIsPool, PoolFacts!CountedUsersHolds,
     PoolFacts!ChannelExclusiveHolds, PTL
<1>3. UnionSpec => [](Pool!RemovedStaysEmpty /\ Pool!OrphansAreOnDemand)
  BY <1>1, EachBehaves, PoolIsPool, PoolFacts!RemovedStaysEmptyHolds,
     PoolFacts!OrphansHold, PTL
<1>4. UnionSpec => []Monitor!CrashCauses
  BY <1>1, EachBehaves, CrashCausesHold, PTL
<1> QED
  BY <1>2, <1>3, <1>4, PTL DEF ConnectionsAreShared

-----------------------------------------------------------------------------
(* What is done on all nodes of a cluster. *)

\* The balancing, and the calls on a cluster where they meet ...
ClusterFacts == INSTANCE ClusterProofs WITH
    Node <- Nodes, StrictPool <- Strict, Fails <- TRUE, Nobody <- "nobody",
    Host <- Hosts, Console <- Consoles,
    User <- LoginName, Group <- GroupName, Pw <- Password, MaxCalls <- MaxAdmin, Copies <- FALSE
\* ... on one that may have a single console ...
SoloFacts == INSTANCE ClusterProofs WITH
    Node <- Nodes, StrictPool <- Strict, Fails <- TRUE, Nobody <- "nobody",
    Host <- Solo, Console <- SoloConsoles,
    User <- LoginName, Group <- GroupName, Pw <- Password, MaxCalls <- MaxSolo,
    MaxLines <- SoloLines, Copies <- FALSE
\* ... and the copies that are rolled back.
RollbackFacts == INSTANCE ClusterProofs WITH
    Node <- Nodes, StrictPool <- Strict, Fails <- TRUE, Nobody <- "nobody",
    Host <- Hosts, Console <- {},
    User <- LoginName, Group <- GroupName, Pw <- Password, MaxCalls <- MaxAdmin, Copies <- TRUE

\* The balancing is the one of ClusterProofs.
LEMMA BalanceIsBalance ==
    /\ Balance!BalanceAssumption => ClusterFacts!Balance!BalanceAssumption
    /\ Balance!Spec => ClusterFacts!Balance!Spec
    /\ ClusterFacts!Balance!ReplicatedIsCompared => Balance!ReplicatedIsCompared
    /\ ClusterFacts!Balance!ErasureRunsOnce => Balance!ErasureRunsOnce
    /\ ClusterFacts!Balance!LockIsReturned => Balance!LockIsReturned
<1>1. Balance!BalanceAssumption => ClusterFacts!Balance!BalanceAssumption
  BY ZenonT(30) DEF Balance!BalanceAssumption, ClusterFacts!Balance!BalanceAssumption,
         Balance!Task, ClusterFacts!Balance!Task, Balance!IsFiniteSet,
         ClusterFacts!Balance!IsFiniteSet
<1>2. Balance!Init => ClusterFacts!Balance!Init
  BY ZenonT(30) DEF Balance!Init, ClusterFacts!Balance!Init, Balance!Task,
         ClusterFacts!Balance!Task
<1>3. [Balance!Next]_(Balance!vars) => [ClusterFacts!Balance!Next]_(ClusterFacts!Balance!vars)
  BY ZenonT(30) DEF Balance!Cardinality, ClusterFacts!Balance!Cardinality, Balance!IsFiniteSet,
         ClusterFacts!Balance!IsFiniteSet, Balance!Task, ClusterFacts!Balance!Task,
         Balance!cluster, ClusterFacts!Balance!cluster, Balance!locals,
         ClusterFacts!Balance!locals, Balance!effects, ClusterFacts!Balance!effects, Balance!vars,
         ClusterFacts!Balance!vars, Balance!AllSame, ClusterFacts!Balance!AllSame, Balance!Least,
         ClusterFacts!Balance!Least, Balance!Works, ClusterFacts!Balance!Works, Balance!Ended,
         ClusterFacts!Balance!Ended, Balance!Go, ClusterFacts!Balance!Go, Balance!AskDisks,
         ClusterFacts!Balance!AskDisks, Balance!CountDisks, ClusterFacts!Balance!CountDisks,
         Balance!Query, ClusterFacts!Balance!Query, Balance!CompareDisks,
         ClusterFacts!Balance!CompareDisks, Balance!CompareWeights,
         ClusterFacts!Balance!CompareWeights, Balance!Lock, ClusterFacts!Balance!Lock,
         Balance!Start, ClusterFacts!Balance!Start, Balance!Commit, ClusterFacts!Balance!Commit,
         Balance!Enable, ClusterFacts!Balance!Enable, Balance!Reweight,
         ClusterFacts!Balance!Reweight, Balance!Twice, ClusterFacts!Balance!Twice, Balance!Script,
         ClusterFacts!Balance!Script, Balance!Again, ClusterFacts!Balance!Again,
         Balance!DiskChanges, ClusterFacts!Balance!DiskChanges, Balance!Step,
         ClusterFacts!Balance!Step, Balance!Next, ClusterFacts!Balance!Next
<1>4. ClusterFacts!Balance!ReplicatedIsCompared => Balance!ReplicatedIsCompared
  BY ZenonT(30) DEF Balance!ReplicatedIsCompared, ClusterFacts!Balance!ReplicatedIsCompared,
         Balance!Cardinality, ClusterFacts!Balance!Cardinality, Balance!IsFiniteSet,
         ClusterFacts!Balance!IsFiniteSet, Balance!Ended, ClusterFacts!Balance!Ended, Balance!Task,
         ClusterFacts!Balance!Task
<1>5. ClusterFacts!Balance!ErasureRunsOnce => Balance!ErasureRunsOnce
  BY ZenonT(30) DEF Balance!ErasureRunsOnce, ClusterFacts!Balance!ErasureRunsOnce, Balance!Ended,
         ClusterFacts!Balance!Ended, Balance!Task, ClusterFacts!Balance!Task
<1>6. ClusterFacts!Balance!LockIsReturned => Balance!LockIsReturned
  BY ZenonT(30) DEF Balance!LockIsReturned, ClusterFacts!Balance!LockIsReturned, Balance!Ended,
         ClusterFacts!Balance!Ended, Balance!Task, ClusterFacts!Balance!Task
<1> QED
  BY <1>1, <1>2, <1>3, <1>4, <1>5, <1>6, PTL DEF Balance!Spec, ClusterFacts!Balance!Spec

\* So are the files that salt copies, ...
LEMMA SerialsAreRemote ==
    /\ Serials!RemoteAssumption => ClusterFacts!Remote!RemoteAssumption
    /\ Serials!Spec => ClusterFacts!Remote!Spec
    /\ ClusterFacts!Remote!CallsAreWhole => Serials!CallsAreWhole
    /\ ClusterFacts!Remote!OkIsComplete => Serials!OkIsComplete
<1>1. Serials!RemoteAssumption => ClusterFacts!Remote!RemoteAssumption
  BY ZenonT(30) DEF Serials!RemoteAssumption, ClusterFacts!Remote!RemoteAssumption,
         Serials!IsFiniteSet, ClusterFacts!Remote!IsFiniteSet
<1>2. Serials!Init => ClusterFacts!Remote!Init
  BY ZenonT(30) DEF Serials!Init, ClusterFacts!Remote!Init, Serials!Empty,
         ClusterFacts!Remote!Empty
<1>3. [Serials!Next]_(Serials!vars) => [ClusterFacts!Remote!Next]_(ClusterFacts!Remote!vars)
  BY ZenonT(30) DEF Serials!Cardinality, ClusterFacts!Remote!Cardinality, Serials!IsFiniteSet,
         ClusterFacts!Remote!IsFiniteSet, Serials!record, ClusterFacts!Remote!record, Serials!copy,
         ClusterFacts!Remote!copy, Serials!vars, ClusterFacts!Remote!vars, Serials!File,
         ClusterFacts!Remote!File, Serials!Empty, ClusterFacts!Remote!Empty, Serials!Call,
         ClusterFacts!Remote!Call, Serials!Serial, ClusterFacts!Remote!Serial, Serials!Look,
         ClusterFacts!Remote!Look, Serials!Decide, ClusterFacts!Remote!Decide, Serials!AppendLines,
         ClusterFacts!Remote!AppendLines, Serials!CopyOut, ClusterFacts!Remote!CopyOut,
         Serials!CopyLate, ClusterFacts!Remote!CopyLate, Serials!CopyFile,
         ClusterFacts!Remote!CopyFile, Serials!Evaluate, ClusterFacts!Remote!Evaluate,
         Serials!Next, ClusterFacts!Remote!Next
<1>4. ClusterFacts!Remote!CallsAreWhole => Serials!CallsAreWhole
  BY ZenonT(30) DEF Serials!CallsAreWhole, ClusterFacts!Remote!CallsAreWhole
<1>5. ClusterFacts!Remote!OkIsComplete => Serials!OkIsComplete
  BY ZenonT(30) DEF Serials!OkIsComplete, ClusterFacts!Remote!OkIsComplete
<1> QED
  BY <1>1, <1>2, <1>3, <1>4, <1>5, PTL DEF Serials!Spec, ClusterFacts!Remote!Spec

\* ... those of a single console ...
LEMMA AgainIsRemote ==
    /\ Again!RemoteAssumption => SoloFacts!Remote!RemoteAssumption
    /\ Again!Spec => SoloFacts!Remote!Spec
    /\ SoloFacts!Remote!CallsAreWhole => Again!CallsAreWhole
    /\ SoloFacts!Remote!OkIsComplete => Again!OkIsComplete
<1>1. Again!RemoteAssumption => SoloFacts!Remote!RemoteAssumption
  BY ZenonT(30) DEF Again!RemoteAssumption, SoloFacts!Remote!RemoteAssumption, Again!IsFiniteSet,
         SoloFacts!Remote!IsFiniteSet
<1>2. Again!Init => SoloFacts!Remote!Init
  BY ZenonT(30) DEF Again!Init, SoloFacts!Remote!Init, Again!Empty, SoloFacts!Remote!Empty
<1>3. [Again!Next]_(Again!vars) => [SoloFacts!Remote!Next]_(SoloFacts!Remote!vars)
  BY ZenonT(30) DEF Again!Cardinality, SoloFacts!Remote!Cardinality, Again!IsFiniteSet,
         SoloFacts!Remote!IsFiniteSet, Again!record, SoloFacts!Remote!record, Again!copy,
         SoloFacts!Remote!copy, Again!vars, SoloFacts!Remote!vars, Again!File,
         SoloFacts!Remote!File, Again!Empty, SoloFacts!Remote!Empty, Again!Call,
         SoloFacts!Remote!Call, Again!Serial, SoloFacts!Remote!Serial, Again!Look,
         SoloFacts!Remote!Look, Again!Decide, SoloFacts!Remote!Decide, Again!AppendLines,
         SoloFacts!Remote!AppendLines, Again!CopyOut, SoloFacts!Remote!CopyOut, Again!CopyLate,
         SoloFacts!Remote!CopyLate, Again!CopyFile, SoloFacts!Remote!CopyFile, Again!Evaluate,
         SoloFacts!Remote!Evaluate, Again!Next, SoloFacts!Remote!Next
<1>4. SoloFacts!Remote!CallsAreWhole => Again!CallsAreWhole
  BY ZenonT(30) DEF Again!CallsAreWhole, SoloFacts!Remote!CallsAreWhole
<1>5. SoloFacts!Remote!OkIsComplete => Again!OkIsComplete
  BY ZenonT(30) DEF Again!OkIsComplete, SoloFacts!Remote!OkIsComplete
<1> QED
  BY <1>1, <1>2, <1>3, <1>4, <1>5, PTL DEF Again!Spec, SoloFacts!Remote!Spec

\* ... and those that are rolled back.
LEMMA RollbackIsRemote ==
    /\ Rollback!RemoteAssumption => RollbackFacts!Remote!RemoteAssumption
    /\ Rollback!Spec => RollbackFacts!Remote!Spec
    /\ RollbackFacts!Remote!FailureInstallsNothing => Rollback!FailureInstallsNothing
<1>1. Rollback!RemoteAssumption => RollbackFacts!Remote!RemoteAssumption
  BY ZenonT(30) DEF Rollback!RemoteAssumption, RollbackFacts!Remote!RemoteAssumption,
         Rollback!IsFiniteSet, RollbackFacts!Remote!IsFiniteSet
<1>2. Rollback!Init => RollbackFacts!Remote!Init
  BY ZenonT(30) DEF Rollback!Init, RollbackFacts!Remote!Init, Rollback!Empty,
         RollbackFacts!Remote!Empty
<1>3. [Rollback!Next]_(Rollback!vars) => [RollbackFacts!Remote!Next]_(RollbackFacts!Remote!vars)
  BY ZenonT(30) DEF Rollback!Cardinality, RollbackFacts!Remote!Cardinality, Rollback!IsFiniteSet,
         RollbackFacts!Remote!IsFiniteSet, Rollback!record, RollbackFacts!Remote!record,
         Rollback!copy, RollbackFacts!Remote!copy, Rollback!vars, RollbackFacts!Remote!vars,
         Rollback!File, RollbackFacts!Remote!File, Rollback!Empty, RollbackFacts!Remote!Empty,
         Rollback!Call, RollbackFacts!Remote!Call, Rollback!Serial, RollbackFacts!Remote!Serial,
         Rollback!Look, RollbackFacts!Remote!Look, Rollback!Decide, RollbackFacts!Remote!Decide,
         Rollback!AppendLines, RollbackFacts!Remote!AppendLines, Rollback!CopyOut,
         RollbackFacts!Remote!CopyOut, Rollback!CopyLate, RollbackFacts!Remote!CopyLate,
         Rollback!CopyFile, RollbackFacts!Remote!CopyFile, Rollback!Evaluate,
         RollbackFacts!Remote!Evaluate, Rollback!Next, RollbackFacts!Remote!Next
<1>4. RollbackFacts!Remote!FailureInstallsNothing => Rollback!FailureInstallsNothing
  BY ZenonT(30) DEF Rollback!FailureInstallsNothing, RollbackFacts!Remote!FailureInstallsNothing
<1> QED
  BY <1>1, <1>2, <1>3, <1>4, PTL DEF Rollback!Spec, RollbackFacts!Remote!Spec

\* Local users and groups are those of ClusterProofs, where calls meet ...
LEMMA AdminIsUsers ==
    /\ Admin!ClusterUsersAssumption => ClusterFacts!ClusterUsersAssumption
    /\ Admin!Spec => ClusterFacts!Spec
    /\ ClusterFacts!OkIsEverywhere => Admin!OkIsEverywhere
    /\ ClusterFacts!SambaFollows => Admin!SambaFollows
<1>1. Admin!ClusterUsersAssumption => ClusterFacts!ClusterUsersAssumption
  BY ZenonT(30) DEF Admin!ClusterUsersAssumption, ClusterFacts!ClusterUsersAssumption,
         Admin!IsFiniteSet, ClusterFacts!IsFiniteSet
<1>2. Admin!Init => ClusterFacts!Init
  BY ZenonT(30) DEF Admin!Init, ClusterFacts!Init, Admin!None, ClusterFacts!None, Admin!Locked,
         ClusterFacts!Locked, Admin!Files, ClusterFacts!Files, Admin!Ops, ClusterFacts!Ops,
         Admin!Steps, ClusterFacts!Steps, Admin!Calls, ClusterFacts!Calls
<1>3. [Admin!Next]_(Admin!vars) => [ClusterFacts!Next]_(ClusterFacts!vars)
  BY ZenonT(30) DEF Admin!Cardinality, ClusterFacts!Cardinality, Admin!IsFiniteSet,
         ClusterFacts!IsFiniteSet, Admin!vars, ClusterFacts!vars, Admin!None, ClusterFacts!None,
         Admin!Locked, ClusterFacts!Locked, Admin!Files, ClusterFacts!Files, Admin!Ops,
         ClusterFacts!Ops, Admin!Steps, ClusterFacts!Steps, Admin!Calls, ClusterFacts!Calls,
         Admin!At, ClusterFacts!At, Admin!Goto, ClusterFacts!Goto, Admin!Busy, ClusterFacts!Busy,
         Admin!Has, ClusterFacts!Has, Admin!HasGroup, ClusterFacts!HasGroup, Admin!Accepted,
         ClusterFacts!Accepted, Admin!Begin, ClusterFacts!Begin, Admin!End, ClusterFacts!End,
         Admin!Local, ClusterFacts!Local, Admin!UserAdd, ClusterFacts!UserAdd, Admin!UserDel,
         ClusterFacts!UserDel, Admin!Passwd, ClusterFacts!Passwd, Admin!UserMod,
         ClusterFacts!UserMod, Admin!GroupAdd, ClusterFacts!GroupAdd, Admin!Primary,
         ClusterFacts!Primary, Admin!GroupDel, ClusterFacts!GroupDel, Admin!Pack,
         ClusterFacts!Pack, Admin!Reached, ClusterFacts!Reached, Admin!Stage, ClusterFacts!Stage,
         Admin!Unpack, ClusterFacts!Unpack, Admin!Samba, ClusterFacts!Samba, Admin!Sent,
         ClusterFacts!Sent, Admin!Send, ClusterFacts!Send, Admin!LocalStep, ClusterFacts!LocalStep,
         Admin!Next, ClusterFacts!Next
<1>4. ClusterFacts!OkIsEverywhere => Admin!OkIsEverywhere
  BY ZenonT(30) DEF Admin!OkIsEverywhere, ClusterFacts!OkIsEverywhere, Admin!At, ClusterFacts!At,
         Admin!Busy, ClusterFacts!Busy, Admin!Has, ClusterFacts!Has, Admin!HasGroup,
         ClusterFacts!HasGroup, Admin!About, ClusterFacts!About, Admin!Sent, ClusterFacts!Sent,
         Admin!None, ClusterFacts!None
<1>5. ClusterFacts!SambaFollows => Admin!SambaFollows
  BY ZenonT(30) DEF Admin!SambaFollows, ClusterFacts!SambaFollows, Admin!At, ClusterFacts!At,
         Admin!Busy, ClusterFacts!Busy, Admin!Has, ClusterFacts!Has, Admin!HasGroup,
         ClusterFacts!HasGroup, Admin!About, ClusterFacts!About, Admin!Sent, ClusterFacts!Sent,
         Admin!None, ClusterFacts!None
<1> QED
  BY <1>1, <1>2, <1>3, <1>4, <1>5, PTL DEF Admin!Spec, ClusterFacts!Spec

\* ... and where a single console makes them.
LEMMA SingleIsUsers ==
    /\ Single!ClusterUsersAssumption => SoloFacts!ClusterUsersAssumption
    /\ Single!Spec => SoloFacts!Spec
    /\ SoloFacts!GroupsAreThere => Single!GroupsAreThere
<1>1. Single!ClusterUsersAssumption => SoloFacts!ClusterUsersAssumption
  BY ZenonT(30) DEF Single!ClusterUsersAssumption, SoloFacts!ClusterUsersAssumption,
         Single!IsFiniteSet, SoloFacts!IsFiniteSet
<1>2. Single!Init => SoloFacts!Init
  BY ZenonT(30) DEF Single!Init, SoloFacts!Init, Single!None, SoloFacts!None, Single!Locked,
         SoloFacts!Locked, Single!Files, SoloFacts!Files, Single!Ops, SoloFacts!Ops, Single!Steps,
         SoloFacts!Steps, Single!Calls, SoloFacts!Calls
<1>3. [Single!Next]_(Single!vars) => [SoloFacts!Next]_(SoloFacts!vars)
  BY ZenonT(30) DEF Single!Cardinality, SoloFacts!Cardinality, Single!IsFiniteSet,
         SoloFacts!IsFiniteSet, Single!vars, SoloFacts!vars, Single!None, SoloFacts!None,
         Single!Locked, SoloFacts!Locked, Single!Files, SoloFacts!Files, Single!Ops, SoloFacts!Ops,
         Single!Steps, SoloFacts!Steps, Single!Calls, SoloFacts!Calls, Single!At, SoloFacts!At,
         Single!Goto, SoloFacts!Goto, Single!Busy, SoloFacts!Busy, Single!Has, SoloFacts!Has,
         Single!HasGroup, SoloFacts!HasGroup, Single!Accepted, SoloFacts!Accepted, Single!Begin,
         SoloFacts!Begin, Single!End, SoloFacts!End, Single!Local, SoloFacts!Local, Single!UserAdd,
         SoloFacts!UserAdd, Single!UserDel, SoloFacts!UserDel, Single!Passwd, SoloFacts!Passwd,
         Single!UserMod, SoloFacts!UserMod, Single!GroupAdd, SoloFacts!GroupAdd, Single!Primary,
         SoloFacts!Primary, Single!GroupDel, SoloFacts!GroupDel, Single!Pack, SoloFacts!Pack,
         Single!Reached, SoloFacts!Reached, Single!Stage, SoloFacts!Stage, Single!Unpack,
         SoloFacts!Unpack, Single!Samba, SoloFacts!Samba, Single!Sent, SoloFacts!Sent, Single!Send,
         SoloFacts!Send, Single!LocalStep, SoloFacts!LocalStep, Single!Next, SoloFacts!Next
<1>4. SoloFacts!GroupsAreThere => Single!GroupsAreThere
  BY ZenonT(30) DEF Single!GroupsAreThere, SoloFacts!GroupsAreThere, Single!Cardinality,
         SoloFacts!Cardinality, Single!IsFiniteSet, SoloFacts!IsFiniteSet, Single!At, SoloFacts!At,
         Single!Busy, SoloFacts!Busy, Single!Has, SoloFacts!Has, Single!HasGroup,
         SoloFacts!HasGroup, Single!About, SoloFacts!About, Single!Sent, SoloFacts!Sent,
         Single!None, SoloFacts!None, Single!Busy, SoloFacts!Busy
<1> QED
  BY <1>1, <1>2, <1>3, <1>4, PTL DEF Single!Spec, SoloFacts!Spec

\* What is done on all nodes of a cluster is done under the same conditions, whole or
\* not at all: weights, serial numbers, copied files, users and groups, for any hosts,
\* consoles and failures.
THEOREM ClusterIsAgreedAlways == UnionSpec => []ClusterIsAgreed
<1>1. /\ ClusterFacts!Balance!BalanceAssumption /\ ClusterFacts!Remote!RemoteAssumption
      /\ SoloFacts!Remote!RemoteAssumption /\ RollbackFacts!Remote!RemoteAssumption
      /\ ClusterFacts!ClusterUsersAssumption /\ SoloFacts!ClusterUsersAssumption
  BY BalanceIsBalance, SerialsAreRemote, AgainIsRemote, RollbackIsRemote, AdminIsUsers,
     SingleIsUsers, SafetyAssumption
<1>2. UnionSpec => [](/\ Balance!ReplicatedIsCompared /\ Balance!ErasureRunsOnce
                      /\ Balance!LockIsReturned)
  BY <1>1, EachBehaves, BalanceIsBalance, ClusterFacts!ReplicatedIsComparedHolds,
     ClusterFacts!ErasureRunsOnceHolds, ClusterFacts!LockIsReturnedHolds, PTL
<1>3. UnionSpec => [](part = "serials" => Serials!CallsAreWhole /\ Serials!OkIsComplete)
  <2>1. part = "serials" /\ UnionSpec => [](Serials!CallsAreWhole /\ Serials!OkIsComplete)
    BY <1>1, SerialsBehave, SerialsAreRemote, ClusterFacts!CallsAreWholeHolds,
       ClusterFacts!OkIsCompleteHolds, PTL
  <2>2. ~(part = "serials") /\ [UnionNext]_unionVars => ~(part = "serials")'
    BY OneMoves
  <2> QED
    BY <2>1, <2>2, PTL DEF UnionSpec
<1>4. UnionSpec => [](part = "again" => Again!CallsAreWhole /\ Again!OkIsComplete)
  <2>1. part = "again" /\ UnionSpec => [](Again!CallsAreWhole /\ Again!OkIsComplete)
    BY <1>1, AgainBehaves, AgainIsRemote, SoloFacts!CallsAreWholeHolds,
       SoloFacts!OkIsCompleteHolds, PTL
  <2>2. ~(part = "again") /\ [UnionNext]_unionVars => ~(part = "again")'
    BY OneMoves
  <2> QED
    BY <2>1, <2>2, PTL DEF UnionSpec
<1>5. UnionSpec => [](part = "rollback" => Rollback!FailureInstallsNothing)
  <2>1. part = "rollback" /\ UnionSpec => [](Rollback!FailureInstallsNothing)
    BY <1>1, RollbackBehaves, RollbackIsRemote, RollbackFacts!FailureInstallsNothingHolds, PTL
  <2>2. ~(part = "rollback") /\ [UnionNext]_unionVars => ~(part = "rollback")'
    BY OneMoves
  <2> QED
    BY <2>1, <2>2, PTL DEF UnionSpec
<1>6. UnionSpec => [](part = "admin" => Admin!OkIsEverywhere /\ Admin!SambaFollows)
  <2>1. part = "admin" /\ UnionSpec => [](Admin!OkIsEverywhere /\ Admin!SambaFollows)
    BY <1>1, AdminBehaves, AdminIsUsers, ClusterFacts!OkIsEverywhereHolds,
       ClusterFacts!SambaFollowsHolds, PTL
  <2>2. ~(part = "admin") /\ [UnionNext]_unionVars => ~(part = "admin")'
    BY OneMoves
  <2> QED
    BY <2>1, <2>2, PTL DEF UnionSpec
<1>7. UnionSpec => [](part = "console" => Single!GroupsAreThere)
  <2>1. part = "console" /\ UnionSpec => [](Single!GroupsAreThere)
    BY <1>1, SingleBehaves, SingleIsUsers, SoloFacts!GroupsAreThereHolds, PTL
  <2>2. ~(part = "console") /\ [UnionNext]_unionVars => ~(part = "console")'
    BY OneMoves
  <2> QED
    BY <2>1, <2>2, PTL DEF UnionSpec
<1> QED
  BY <1>2, <1>3, <1>4, <1>5, <1>6, <1>7, PTL DEF ClusterIsAgreed
=============================================================================
