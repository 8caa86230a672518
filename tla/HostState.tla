------------------------------ MODULE HostState ------------------------------
(***************************************************************************)
(* libvirt_ci/state.py: the resources of a test host (libvirt objects,     *)
(* mounts, exports, services, files, volume groups, iSCSI sessions and     *)
(* targets), the snapshot States.backup() takes of them before the first   *)
(* test, and States.check(), which after each test reads them again,       *)
(* reports every difference and undoes it, class after class.              *)
(*                                                                         *)
(* The condition of an item is abstracted to how it compares with what it  *)
(* was when the snapshot was taken:                                        *)
(*   "absent"  it does not exist                                           *)
(*   "base"    as it was                                                   *)
(*   "drift"   differs only in what permit_keys/permit_re let pass         *)
(*   "grown"   has additional parts (luns, logical volumes, files)         *)
(*   "other"   differs in any other way; also: created since               *)
(* Exceptions of remove and restore are caught by State.check and only     *)
(* become text of the report, which lists the item anyway, so they are not *)
(* distinguished from results that are ignored.                            *)
(***************************************************************************)
EXTENDS Naturals, Sequences, StateClasses

CONSTANTS
    Orders,      \* the lists encapsulate_states may deliver (StateOrder)
    Item,        \* the resources that occur
    ClassOf,     \* the class of each of them
    PermitNames, \* items named in permit_names (the pool 'images')
    Libvirtd,    \* the item that is the libvirtd service
    Needs,       \* <<u, p>>: u can be created or started only while p exists
    Pins,        \* <<u, p>>: p cannot be removed while u exists
    Recover,     \* not params.no_recover
    MaxShocks,   \* bound: changes made to the host by tests
    MaxFaults    \* bound: commands that fail for no reason of the model

ASSUME HostAssumption ==
    /\ Class \subseteq AllClasses
    /\ ClassOf \in [Item -> Class]
    /\ Libvirtd \in Item /\ ClassOf[Libvirtd] = "ServiceState"
    /\ PermitNames \subseteq Item \ {Libvirtd}
    /\ Needs \subseteq Item \X Item
    /\ Pins \subseteq Item \X Item
    /\ Recover \in BOOLEAN
    /\ MaxShocks \in Nat /\ MaxFaults \in Nat

\* What StateOrder shows of them: complete, dependencies first.
ASSUME OrdersAssumption ==
    \A o \in Orders :
        /\ o \in Seq(Class)
        /\ \A c \in Class : \E k \in DOMAIN o : o[k] = c
        /\ \A j, k \in DOMAIN o : o[j] \in DependsOn(o[k]) => j < k

VARIABLES
    host,     \* the condition of each item, now
    origin,   \* its condition when the snapshot was taken
    backup,   \* backup_state: what the snapshot saw
    current,  \* current_state: what the last read of its class saw
    served,   \* libvirtd was running when the snapshot was taken
    order,    \* self.states
    pos,      \* class of the loop that is read next
    work,     \* items of the class read last that still have to be handled
    msg,      \* items named in the report of this check
    phase,    \* "start", "test", "check", "report" or "raised"
    flaky,    \* a command failed, or a class was misread, in this check
    faults,   \* number of spontaneous failures so far
    shocks    \* number of changes made by tests so far

memory == <<origin, backup, served, order>>
check  == <<current, pos, work, msg, flaky>>
vars   == <<host, memory, check, phase, faults, shocks>>

Condition == {"absent", "base", "drift", "grown", "other"}

\* The conditions a resource of a class can be in.
Conditions(c) ==
    CASE c = "ServiceState" -> {"base", "other"}
      [] c = "FileState"    -> {"absent", "base", "other"}
      [] c = "DirState"     -> {"absent", "base", "grown", "other"}
      [] c \in {"DomainState", "PoolState", "ISCSIState"} ->
            {"absent", "base", "drift", "other"}
      [] c \in {"LVMState", "LIOISCSIState", "TgtState"} ->
            {"absent", "base", "grown", "other"}
      [] OTHER -> {"absent", "base", "other"}

Present(i) == host[i] # "absent"

\* (Mutant of Permissible: permit_keys and permit_re are ignored.)
BugPermissible(a, b) == a = b

\* States.check treats two conditions as the same.
Permissible(a, b) == a = b \/ {a, b} \subseteq {"base", "drift"}

\* virsh answers while libvirtd runs.
Up == (host[Libvirtd] = "base") = served

Reachable(c) == c \in VirshClasses => Up
Provided(i) == \A p \in Item : <<i, p>> \in Needs => Present(p)
Pinned(i)   == \E u \in Item : <<u, i>> \in Pins /\ Present(u)

OfClass(c) == {i \in Item : ClassOf[i] = c}

-----------------------------------------------------------------------------
\* A command may fail for reasons outside the model, MaxFaults times.
Fault == faults < MaxFaults /\ faults' = faults + 1 /\ flaky' = TRUE
Sound == UNCHANGED <<faults, flaky>>

TypeOK ==
    /\ host \in [Item -> Condition]
    /\ origin \in [Item -> {"absent", "base"}]
    /\ backup \in [Item -> {"absent", "base"}]
    /\ current \in [Item -> Condition]
    /\ served \in BOOLEAN
    /\ order \in Orders
    /\ pos \in 1..(Len(order) + 1)
    /\ work \subseteq Item
    /\ msg \subseteq Item
    /\ phase \in {"start", "test", "check", "report", "raised"}
    /\ flaky \in BOOLEAN
    /\ faults \in 0..MaxFaults
    /\ shocks \in 0..MaxShocks

\* What the class constants of the code fix: services, the image directory
\* and the configuration files are there when a run starts.
Fixed(i) == ClassOf[i] \in RefusesRemove

Init ==
    /\ origin \in [Item -> {"absent", "base"}]
    /\ \A i \in Item : Fixed(i) => origin[i] = "base"
    /\ \A i \in Item : origin[i] = "base" =>
          \A p \in Item : <<i, p>> \in Needs \cup Pins => origin[p] = "base"
    /\ host = origin
    /\ backup = [i \in Item |-> "absent"]
    /\ current = [i \in Item |-> "absent"]
    /\ served \in BOOLEAN
    /\ order \in Orders
    /\ pos = 1
    /\ work = {} /\ msg = {}
    /\ phase = "start"
    /\ flaky = FALSE /\ faults = 0 /\ shocks = 0

\* What reading class c shows of item i: its condition, or nothing if the
\* tool cannot answer.
Seen(i, blind) == IF ClassOf[i] \in blind THEN "absent" ELSE host[i]

\* The classes that a read cannot see because libvirtd does not answer.
Unreachable == {c \in Class : ~Reachable(c)}

\* States.backup.  The fault is one class whose command fails unnoticed.
Backup ==
    /\ phase = "start"
    /\ \/ /\ Sound
          /\ backup' = [i \in Item |-> Seen(i, Unreachable)]
       \/ /\ Fault
          /\ \E c \in ToolClasses \cap Class :
                backup' = [i \in Item |-> Seen(i, Unreachable \cup {c})]
    /\ phase' = "test"
    /\ UNCHANGED <<host, origin, served, order, current, pos, work, msg, shocks>>

\* A test changes one resource and leaves it so.
Disturb(i, v) ==
    /\ phase = "test" /\ shocks < MaxShocks
    /\ v \in Conditions(ClassOf[i]) \ {host[i]}
    /\ origin[i] = "absent" => v \in {"absent", "other"}
    /\ Reachable(ClassOf[i])
    /\ IF v = "absent" THEN ~Pinned(i) ELSE Provided(i)
    /\ host' = [host EXCEPT ![i] = v]
    /\ shocks' = shocks + 1
    /\ UNCHANGED <<memory, check, phase, faults>>

\* (Mutant of BeginCheck: the loop starts one before the first class.)
BugBeginCheck ==
    /\ phase = "test"
    /\ phase' = "check"
    /\ pos' = 0 /\ msg' = {} /\ flaky' = FALSE
    /\ UNCHANGED <<host, memory, current, work, faults, shocks>>

\* process_result calls States.check.
BeginCheck ==
    /\ phase = "test"
    /\ phase' = "check"
    /\ pos' = 1 /\ msg' = {} /\ flaky' = FALSE
    /\ UNCHANGED <<host, memory, current, work, faults, shocks>>

-----------------------------------------------------------------------------
\* State.get_state raises: a directory or file of the class is gone.
Unreadable(c) == c \in PathClasses /\ \E i \in OfClass(c) : ~Present(i)

\* (Mutant of Compare: permit_names is not subtracted.)
BugCompare(c, blind) ==
    LET diff == {i \in OfClass(c) : ~Permissible(backup[i], Seen(i, blind))}
    IN /\ current' = [i \in Item |-> IF ClassOf[i] = c THEN Seen(i, blind)
                                                       ELSE current[i]]
       /\ msg' = msg \cup diff
       /\ work' = IF Recover THEN diff ELSE {}

\* The comparison at the head of State.check: what differs is reported, and
\* handled if recovery is on.
Compare(c, blind) ==
    LET diff == {i \in OfClass(c) \ PermitNames :
                    ~Permissible(backup[i], Seen(i, blind))}
    IN /\ current' = [i \in Item |-> IF ClassOf[i] = c THEN Seen(i, blind)
                                                       ELSE current[i]]
       /\ msg' = msg \cup diff
       /\ work' = IF Recover THEN diff ELSE {}

\* (Mutant of ReadClass: the classes are taken in reverse order.)
BugReadClass ==
    /\ phase = "check" /\ work = {} /\ pos <= Len(order)
    /\ LET c == order[Len(order) + 1 - pos] IN
        /\ ~Unreadable(c)
        /\ \/ Sound /\ Compare(c, Unreachable)
           \/ c \in ToolClasses /\ Fault /\ Compare(c, Unreachable \cup {c})
    /\ pos' = pos + 1
    /\ UNCHANGED <<host, memory, phase, shocks>>

\* The loop of States.check reaches the next class and reads it.
ReadClass ==
    /\ phase = "check" /\ work = {} /\ pos <= Len(order)
    /\ LET c == order[pos] IN
        /\ ~Unreadable(c)
        /\ \/ Sound /\ Compare(c, Unreachable)
           \/ c \in ToolClasses /\ Fault /\ Compare(c, Unreachable \cup {c})
    /\ pos' = pos + 1
    /\ UNCHANGED <<host, memory, phase, shocks>>

\* The exception of an unreadable class leaves States.check: the classes
\* behind it are neither compared nor restored, and what was found is lost.
ReadRaises ==
    /\ phase = "check" /\ work = {} /\ pos <= Len(order)
    /\ Unreadable(order[pos])
    /\ phase' = "raised"
    /\ UNCHANGED <<host, memory, check, faults, shocks>>

\* The three loops over what differs, in the order of State.check.
Created == {i \in work : backup[i] = "absent"}
Deleted == {i \in work : backup[i] # "absent" /\ current[i] = "absent"}
Changed == work \ (Created \cup Deleted)

\* remove(current_state[item]) succeeds.
Removable(i) ==
    /\ ClassOf[i] \notin RefusesRemove
    /\ Reachable(ClassOf[i])
    /\ ~Pinned(i)

\* DomainState, NetworkState and PoolState remove in two commands (destroy,
\* undefine); if one fails the object is left in between.
Rebuilds == {"DomainState", "NetworkState", "PoolState"}
HalfRemoved(i) == IF ClassOf[i] \in Rebuilds THEN {host[i], "other"} ELSE {host[i]}

Become(i, outcomes) == \E v \in outcomes : host' = [host EXCEPT ![i] = v]

\* Done with item i of the class read last.
Handled(i) ==
    /\ work' = work \ {i}
    /\ UNCHANGED <<memory, current, pos, msg, phase, shocks>>

\* ExportfsState.remove fails on every export that is not to the world.
RemoveCreated(i) ==
    /\ phase = "check" /\ i \in Created
    /\ \/ Sound /\ Become(i, IF Removable(i) THEN {"absent"} ELSE {host[i]})
       \/ ClassOf[i] = "ExportfsState" /\ Sound /\ UNCHANGED host
       \/ Fault /\ Become(i, HalfRemoved(i))
    /\ Handled(i)

\* The object is there but the read did not show it.
Misread(i) == Present(i) /\ current[i] = "absent"

CanRebuild(i) ==
    /\ Reachable(ClassOf[i])
    /\ Provided(i)
    /\ Present(i) => ~Pinned(i)

\* restore() of an object that seems deleted but is there.  Only DomainState
\* touches it: clean_vm_with_pid kills the guest before it is redefined.
RestoredMisread(i) ==
    CASE ClassOf[i] = "DomainState" ->
            IF CanRebuild(i) THEN {"base"} ELSE {host[i], "absent", "other"}
      [] ClassOf[i] \in Rebuilds /\ CanRebuild(i) -> {host[i], "base"}
      [] OTHER -> {host[i]}

\* Domains, networks and pools: removed if there, then created anew.
RestoredRebuilt(i) ==
    IF ~Reachable(ClassOf[i]) THEN {host[i]}
    ELSE IF CanRebuild(i) THEN {"base"} ELSE {host[i], "absent", "other"}

\* A mount comes back without its options; one under /run/user does not.
RestoredMount(i) ==
    IF Provided(i) THEN {host[i], "base", "other"} ELSE {host[i]}

\* An iscsi session logs in again; with a session there the login fails.
RestoredSession(i) ==
    IF host[i] = "absent" /\ Provided(i) THEN {"base"} ELSE {host[i]}

\* Of a target only the luns that are new are deleted.
RestoredLuns(i) == IF host[i] = "grown" THEN {"base"} ELSE {host[i]}

\* Files named in permit_keys are kept in the directory, though new.
RestoredDir(i) ==
    IF host[i] = "base" THEN {host[i]} ELSE {"base", "grown"}

\* What restore() leaves of item i when no command fails spontaneously.
\* That of the other classes does nothing (exports, lio backstores) or
\* raises a TypeError before its first command (secrets, volume groups).
Restored(i) ==
    LET c == ClassOf[i]
    IN CASE Misread(i)                        -> RestoredMisread(i)
         [] c \in Rebuilds                    -> RestoredRebuilt(i)
         [] c = "MountState"                  -> RestoredMount(i)
         [] c = "ISCSIState"                  -> RestoredSession(i)
         [] c \in {"LIOISCSIState", "TgtState"} -> RestoredLuns(i)
         [] c \in {"ServiceState", "FileState"} -> {"base"}
         [] c = "DirState"                    -> RestoredDir(i)
         [] OTHER                             -> {host[i]}

\* ... and when one does.
HalfRestored(i) ==
    IF ClassOf[i] = "DomainState" \/ (ClassOf[i] \in Rebuilds /\ ~Misread(i))
      THEN {host[i], "absent", "other"}
      ELSE {host[i]}

RestoreDeleted(i) ==
    /\ phase = "check" /\ Created = {} /\ i \in Deleted
    /\ \/ Sound /\ Become(i, Restored(i))
       \/ Fault /\ Become(i, HalfRestored(i))
    /\ Handled(i)

\* (Mutant of RestoreChanged: a changed item is reported and not restored.)
BugRestoreChanged(i) ==
    /\ phase = "check" /\ Created = {} /\ Deleted = {} /\ i \in Changed
    /\ Sound /\ UNCHANGED host
    /\ Handled(i)

RestoreChanged(i) ==
    /\ phase = "check" /\ Created = {} /\ Deleted = {} /\ i \in Changed
    /\ \/ Sound /\ Become(i, Restored(i))
       \/ Fault /\ Become(i, HalfRestored(i))
    /\ Handled(i)

\* (Mutant of EndCheck: the loop ends before the last class.)
BugEndCheck ==
    /\ phase = "check" /\ work = {} /\ pos >= Len(order)
    /\ phase' = "report"
    /\ UNCHANGED <<host, memory, check, faults, shocks>>

\* States.check returns its messages.
EndCheck ==
    /\ phase = "check" /\ work = {} /\ pos > Len(order)
    /\ phase' = "report"
    /\ UNCHANGED <<host, memory, check, faults, shocks>>

\* The runner goes on to the next test; the snapshot is not taken again.
NextTest ==
    /\ phase = "report"
    /\ phase' = "test"
    /\ UNCHANGED <<host, memory, check, faults, shocks>>

Handle ==
    \E i \in Item : RemoveCreated(i) \/ RestoreDeleted(i) \/ RestoreChanged(i)

CheckStep == BeginCheck \/ ReadClass \/ ReadRaises \/ Handle \/ EndCheck

Next ==
    \/ Backup
    \/ \E i \in Item, v \in Condition : Disturb(i, v)
    \/ CheckStep
    \/ NextTest

Spec == Init /\ [][Next]_vars

\* Tests end and the runner's loop goes on by itself.
Fairness == WF_vars(Backup) /\ WF_vars(CheckStep) /\ WF_vars(NextTest)

FairSpec == Spec /\ Fairness

-----------------------------------------------------------------------------
\* An empty report means the host is as it was snapshotted: nothing that
\* differs escapes the class-by-class comparison, although the host is
\* changed between the reads of two classes and a class cannot be seen while
\* libvirtd is down (States.check, State.check).
CleanReportIsClean ==
    (phase = "report" /\ msg = {} /\ ~flaky /\ served) =>
        \A i \in Item \ PermitNames : Permissible(host[i], backup[i])

\* One check removes everything tests created, in whatever order they
\* created it: what is left is held by something of the snapshot.  This
\* rests on depend_states putting the users of a resource before it, and on
\* ServiceState reviving libvirtd before the classes read through it.
UsersFirst(i) ==
    \A u \in Item : <<u, i>> \in Pins => ClassOf[u] \in DependsOn(ClassOf[i])

CreatedIsRemoved ==
    (phase = "report" /\ ~flaky /\ served /\ Recover) =>
        \A i \in Item \ PermitNames :
            (/\ backup[i] = "absent" /\ Present(i) /\ UsersFirst(i)
             /\ ClassOf[i] \notin RefusesRemove \cup {"ExportfsState"})
            => Pinned(i)

\* Recovery does no harm: a step of the check changes a resource that is as
\* it was when the run began only if the snapshot missed it or the check
\* failed to see it (the loops of State.check over stale current_state).
IntactIsLeftAlone ==
    [][\A i \in Item :
          (/\ phase = "check"
           /\ host[i] \in {"base", "drift"} /\ host'[i] # host[i])
          => (backup[i] = "absent" \/ current[i] = "absent")]_vars

\* An item of permit_names is neither removed, restored nor reported.
PermittedIsLeftAlone ==
    [][\A i \in PermitNames :
          phase = "check" => host'[i] = host[i] /\ i \notin msg']_vars

\* The classes whose restore undoes every difference.
Healing == Rebuilds \cup {"ServiceState", "FileState"}

\* What the snapshot shows of i can be built from what else it shows.
Rebuildable(i) ==
    backup[i] # "absent" =>
        \A p \in Item : <<i, p>> \in Needs => backup[p] # "absent"

\* Once tests leave the host alone and commands stop failing, the checks
\* bring every resource of a healing class back to the snapshot and keep it
\* there, also when restoring it needs another one restored later in the
\* same pass (a domain on a deleted network) - unless the run was aborted by
\* an unreadable class, or the snapshot missed what the resource needs, in
\* which case every check removes that again.
EventuallyRecovered ==
    \/ <>(phase = "raised")
    \/ <>[](served => \A i \in Item \ PermitNames :
                (ClassOf[i] \in Healing /\ Rebuildable(i))
                => Permissible(host[i], backup[i]))
=============================================================================
