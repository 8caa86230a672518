----------------------------- MODULE MCLiveness -----------------------------
(***************************************************************************)
(* The components whose progress depends on fairness, side by side: a      *)
(* behaviour belongs to one of them, named by `part`, and the others stay  *)
(* where they start. Each has an instance small enough for its liveness    *)
(* properties; larger ones are in MCSafety.                                *)
(***************************************************************************)
EXTENDS TestMatch, FiniteSets, TLC

CONSTANTS s1, pr1, fix

(* The constants of the pool of connections, of the leases and of the balancing. *)
CONSTANTS
    Worker, MaxConn, MaxPool, PoolMin, PoolMax, ParMax, Patience,
    Recipe, Machines, MaxJobs, MaxSigs,
    Other, Mine, MaxTear, NoNode,
    Erasure, Replicated, Hosts, Parts, Domain, MinDisks, MaxDisks, Version, MaxChange

(* Names of up to four items over two, up to two patterns of short segments. *)
Names     == {"a", "b"}
Words(n)  == UNION {[1..k -> Names] : k \in 1..n}
Tests     == Words(4)
Pats(n,S) == UNION {[1..k -> S] : k \in 1..n}
Lists     == {<<>>} \cup {<<p>> : p \in Pats(2, Words(2))}
             \cup {<<p, q>> : p, q \in Pats(1, Words(1))}

(* Two builds of a package and one of another one, that brew tags for two products. *)
Builds       == {"a1", "a2", "b1"}
BuildName    == [b \in Builds |-> IF b = "b1" THEN "b" ELSE "a"]
BuildVersion == [b \in Builds |->
                    CASE b = "a1" -> <<3, 9>> [] b = "a2" -> <<3, 10>> [] b = "b1" -> <<2>>]
FirstBuilds  == [p \in {"p", "q"} |-> IF p = "p" THEN {"a1", "b1"} ELSE {"b1"}]
LateBuilds   == [p \in {"p", "q"} |-> IF p = "p" THEN {"a2"} ELSE {}]

Branches == {"master", "rhel", "patch_pr1", "patch_fix"}
BranchOf == [i \in {pr1, fix} |-> IF i = pr1 THEN "patch_pr1" ELSE "patch_fix"]
Inside   == [b \in Branches |-> {b}]

VARIABLES
    part,  \* the component that moves; the others stay in an initial state
    st, par, busy, active, made, lock, dict, closed, wpc, wpool, wconn, wchan, mpc,
    goal, mi, intry, held, toadd, normal, sig, extra,
    main, visits, counted, mon, how, cnt, node, count, notmaster, failing, alarms,
    signal,
    prov, target, unseen, handled, sys, tree, job, jobs, rec, envjob, hosts, guarded,
    sigs, cut, teardown,
    lease, server, ip, leaked, recorded, named, byname, bulk, tearpc, chosen, victim,
    unsure, tears, picked,
    disks, weight, changes, task, same, least, holder, progress, reweighs, passed,
    patching, item, requested, result, cache, attempts, data, on, head, loose,
    session, current, files, saved,
    tagged, sheet, stale, updater, update, crossed,
    runner, limited, shell, back, wrote, inpipe, queued, expired, calling, collected

poolVars == <<st, par, busy, active, made, lock, dict, closed, wpc, wpool, wconn,
              wchan, mpc, goal, mi, intry, held, toadd, normal, sig, extra>>
monitorVars == <<main, visits, counted, mon, how, cnt, node, count, notmaster,
                 failing, alarms, signal>>
machineVars == <<prov, target, unseen, handled, sys, tree, job, jobs, rec, envjob,
                 hosts, guarded, sigs, cut, teardown>>
cloudVars == <<lease, server, ip, leaked, recorded, named, byname, bulk, tearpc,
               chosen, victim, unsure, tears, picked>>
balanceVars == <<disks, weight, changes, task, same, least, holder, progress,
                 reweighs, passed>>
repoVars == <<patching, item, requested, result, cache, attempts, data, on, head,
              loose, session, current, files, saved>>
feedVars == <<tagged, sheet, stale, updater, update, crossed>>
commandVars == <<runner, limited, shell, back, wrote, inpipe, queued, expired,
                 calling, collected>>
unionVars == <<part, vars, poolVars, monitorVars, machineVars, cloudVars, balanceVars,
              repoVars, feedVars, commandVars>>

Stop == INSTANCE SshPool WITH
    NoConn <- -1, Main <- "main", Nobody <- "nobody"
Monitor == INSTANCE MonitorService WITH
    Slot <- {s1}, MaxExist <- 2, TestFrom <- 2, MaxFailed <- 2, NoSlot <- "no slot"
Machine == INSTANCE MachineLease WITH Machine <- Machines
Cloud == INSTANCE CloudLease
Strict == INSTANCE CapacityBalance WITH
    Node <- Hosts, Strict <- TRUE, Fails <- TRUE, None <- "nobody"
Repos == INSTANCE PatchRepos WITH
    PRs <- {pr1}, Patches <- {fix}, Changes <- {}, Good <- {pr1}, Missing <- {},
    Branch <- Branches, Start <- "rhel", Master <- "master", Clones <- 2,
    Retries <- 1, Polls <- 1, MayFail <- TRUE
Feed == INSTANCE PackageFeed WITH
    Product <- {"p", "q"}, Name <- {"a", "b"}, Build <- Builds, NameOf <- BuildName,
    VersionOf <- BuildVersion, Watched <- {"a", "b"}, First <- FirstBuilds,
    Late <- LateBuilds, Fails <- FALSE
Command == INSTANCE LocalCommand WITH
    Runner <- {"run_local", "run_local_cmd", "function"}, Limited <- BOOLEAN,
    MaxOut <- 1

ASSUME LivenessAssumption ==
    /\ Stop!SshPoolAssumption /\ Monitor!MonitorServiceAssumption
    /\ Machine!MachineLeaseAssumption /\ Cloud!CloudLeaseAssumption /\ IsFiniteSet(Other)
    /\ Strict!BalanceAssumption /\ Repos!PatchAssumption
    /\ Feed!FeedAssumption /\ Command!CommandAssumption

Part == {"match", "stop", "monitor", "machine", "cloud", "strict", "repos", "feed",
         "command"}

UnionInit ==
    /\ part \in Part
    /\ Init
    /\ part # "match" => query \in {<<<<>>, <<"a">>>>}
    /\ Stop!Init
    /\ Monitor!Init
    /\ Machine!Init
    /\ part # "machine" => target = <<>> /\ tree = "main" /\ sys = [m \in Machines |-> "mine"]
    /\ Cloud!Init
    /\ part # "cloud" => server = [n \in Other \cup {Mine} |-> "none"] /\ named = {} /\ ~byname /\ ~bulk
    /\ Strict!Init
    /\ part # "strict" => disks = [n \in Hosts |-> 1] /\ weight = [n \in Hosts |-> 0]
    /\ Repos!Init
    /\ part # "repos" => cache = "none"
    /\ Feed!Init
    /\ part # "feed" => sheet = <<>>
    /\ Command!Init
    /\ part # "command" => runner = "run_local" /\ limited

\* The variables of the components that do not move.
Rests(moving, v) == IF moving THEN TRUE ELSE UNCHANGED v

UnionNext ==
    /\ \/ part = "match" /\ Next
       \/ part = "stop" /\ Stop!Next
       \/ part = "monitor" /\ Monitor!Next
       \/ part = "machine" /\ Machine!Next
       \/ part = "cloud" /\ Cloud!Next
       \/ part = "strict" /\ Strict!Next
       \/ part = "repos" /\ Repos!Next
       \/ part = "feed" /\ Feed!Next
       \/ part = "command" /\ Command!Next
    /\ UNCHANGED part
    /\ Rests(part = "match", vars)
    /\ Rests(part = "stop", poolVars)
    /\ Rests(part = "monitor", monitorVars)
    /\ Rests(part = "machine", machineVars)
    /\ Rests(part = "cloud", cloudVars)
    /\ Rests(part = "strict", balanceVars)
    /\ Rests(part = "repos", repoVars)
    /\ Rests(part = "feed", feedVars)
    /\ Rests(part = "command", commandVars)

\* The fairness of each component, while it is the one that moves.
UnionSpec ==
    /\ UnionInit /\ [][UnionNext]_unionVars
    /\ WF_vars(part = "match" /\ Next)
    /\ WF_poolVars(part = "stop" /\ Stop!MainStep) /\ SF_poolVars(part = "stop" /\ Stop!AcquirePool)
    /\ \A w \in Worker :
          /\ SF_poolVars(part = "stop" /\ Stop!Ask(w))
          /\ WF_poolVars(part = "stop" /\ (Stop!Connected(w) \/ Stop!ConnectFails(w)))
          /\ WF_poolVars(part = "stop" /\ Stop!TakeChan(w))
          /\ WF_poolVars(part = "stop" /\ Stop!Count(w))
          /\ WF_poolVars(part = "stop" /\ wpc[w] = "running" /\ st[wconn[w]] # "open"
                                        /\ Stop!Answer(w))
    /\ WF_monitorVars(part = "monitor" /\ Monitor!MainStep)
    /\ WF_monitorVars(part = "monitor" /\ Monitor!ThreadStep(s1))
    /\ WF_machineVars(part = "machine" /\ Machine!Provision)
    /\ WF_machineVars(part = "machine" /\ (Machine!Teardown \/ Machine!TeardownStops))
    /\ \A r \in Recipe :
          WF_machineVars(part = "machine" /\ rec[r] # "ready" /\ Machine!Progress(r))
    /\ WF_cloudVars(part = "cloud" /\ Cloud!Reserve) /\ WF_cloudVars(part = "cloud" /\ Cloud!Builds)
    /\ WF_cloudVars(part = "cloud" /\ Cloud!TearStep)
    /\ \A n \in Other \cup {Mine} : WF_cloudVars(part = "cloud" /\ Cloud!Deletes(n))
    /\ \A t \in Erasure \cup Replicated :
          /\ WF_balanceVars(part = "strict" /\ Strict!Step(t))
          /\ SF_balanceVars(part = "strict" /\ Strict!Lock(t))
    /\ WF_repoVars(part = "repos" /\ Repos!Next)
    /\ WF_feedVars(part = "feed" /\ Feed!Begin) /\ WF_feedVars(part = "feed" /\ Feed!Run)
    /\ \A b \in Builds :
          WF_feedVars(part = "feed" /\ Feed!Start(b)) /\ WF_feedVars(part = "feed" /\ Feed!Thread(b))
    /\ WF_commandVars(part = "command" /\ Command!TimeIsUp) /\ WF_commandVars(part = "command" /\ Command!Caller)
    /\ WF_commandVars(part = "command" /\ Command!Reader)

-----------------------------------------------------------------------------
(* What is checked, by the names it has in the components. *)

\* Every component's variables have their types.
TypesOK ==
    /\ part = "match" => TypeOK
    /\ part = "stop" => Stop!TypeOK
    /\ part = "monitor" => Monitor!TypeOK
    /\ part = "machine" => Machine!TypeOK
    /\ part = "cloud" => Cloud!TypeOK
    /\ part = "strict" => Strict!TypeOK
    /\ part = "repos" => Repos!TypeOK
    /\ part = "feed" => Feed!TypeOK
    /\ part = "command" => Command!TypeOK

\* What is taken from a shared stock is within its limits and is given back:
\* connections, disks, beaker systems, nodes and addresses of OpenStack.
ResourcesAreSound ==
    /\ part = "stop" =>
        \* The pool never holds more connections than ssh_pool_max.
        /\ Stop!PoolBounded
    /\ part = "machine" =>
        \* A job is stopped before the next one is submitted.
        /\ Machine!OneLiveJob
        \* What ends without being stopped or recorded was cut off at a named
        \* place.
        /\ Machine!NoLeak
        \* The recorded job has all its recipes past the installation.
        /\ Machine!RecordedIsReserved
    /\ part = "cloud" =>
        \* A teardown deletes a node of another job only as the options allow.
        /\ Cloud!OthersAreSpared
        \* The recorded node is active and has its address until a teardown
        \* begins.
        /\ Cloud!RecordedIsUsable
        \* A teardown that ends well leaves no node, unless it gave up waiting.
        /\ Cloud!DoneIsDone
        \* A teardown that ends well leaves no address behind.
        /\ Cloud!AddressIsFreed
    /\ part = "strict" =>
        \* 4+2:1 balances only with the disks it asks for.
        /\ Strict!StrictHasDisks

\* The cluster monitor, its threads and its processes come to an end.
ServicesStop ==
    \* SIGTERM ends the process, except in three named situations.
    /\ Stop!StopEnds
    \* Who loses the mastership for good leaves the cluster mode.
    /\ Monitor!LosesCluster
    \* A stopped service leaves no node monitor and no record thread behind.
    /\ Monitor!StopsAll

\* Reservations and teardowns come to an end, and what they held is free.
LeasesEnd ==
    \* An undisturbed reservation comes to an end, unless a recipe completed
    \* before the others were ready.
    /\ Machine!ReserveEnds
    \* What was recorded is given back by the teardown.
    /\ Machine!TeardownFrees
    \* A teardown of the recorded node gets rid of it, unless a request failed.
    /\ Cloud!TeardownDeletes

\* Calls that loop, wait or try again come to an end.
CallsEnd ==
    \* The search for a match returns.
    /\ part = "match" => Returns
    \* Every balancing task ends.
    /\ part = "strict" => Strict!TasksEnd
    \* Every call of the repository's preparation ends.
    /\ part = "repos" => Repos!CallsEnd
    \* Without failures the latest build of each watched package is recorded in
    \* the end.
    /\ part = "feed" => Feed!CatchesUp
    \* A call with a time limit ends, whatever the command does.
    /\ part = "command" => Command!CallsReturn

\* The abstract specification of a lease is implemented: one at a time, handed
\* over and given back once, and what was handed over only by the teardown.
LeasesAreKept ==
    \* Beaker jobs.
    /\ Machine!KeepsLease
    \* Nodes of OpenStack.
    /\ Cloud!KeepsLease
=============================================================================
