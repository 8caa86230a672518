---------------------------- MODULE MachineLease ----------------------------
(***************************************************************************)
(* Machines of Beaker leased by `ci provision` (commands/provision.py,     *)
(* provision/beaker.py) and given back by `ci teardown`                    *)
(* (commands/teardown.py): the job that is submitted, polled, cancelled    *)
(* and submitted again, the reprovisioning of given machines, the env file *)
(* that hands the job to the teardown, and SIGTERM, which Jenkins sends    *)
(* when a build is aborted.  The recipes of a job live on the server.      *)
(***************************************************************************)
EXTENDS Integers, Sequences, FiniteSets

CONSTANTS
    Recipe,  \* recipes of a job (a worker and perhaps a resource host)
    Machine, \* machines of Beaker that may be given as --target
    MaxJobs, \* jobs that may be submitted (bound)
    MaxSigs  \* SIGTERMs that arrive (bound)

MachineLeaseAssumption ==
    Recipe # {} /\ MaxJobs \in Nat \ {0} /\ MaxSigs \in Nat

VARIABLES
    prov,    \* where the provisioning is
    target,  \* <<>> for 'bkr', or the given machines (--reprovision)
    unseen,  \* those it has not looked at yet
    handled, \* those it reserved or reprovisioned
    sys,     \* machine -> what its status says (fixed)
    tree,    \* which tree repos answer: "main", "fallback" or "neither"
    job,     \* task_id, 0 before the first
    jobs,    \* job -> "none", "live" or "stopped", on the server
    rec,     \* state of the recipes of the last job
    envjob,  \* BEAKER_JOBID in the env file, 0 if it is not there
    hosts,   \* the hosts file is written
    guarded, \* _sigterm_handler is installed
    sigs,    \* SIGTERMs so far
    cut,     \* where one struck, or what else went wrong (history)
    teardown \* the teardown

given  == <<target, sys, tree>>
server == <<jobs, rec>>
files  == <<envjob, hosts>>
vars   == <<prov, unseen, handled, given, job, server, files, guarded, sigs, cut, teardown>>

RecipeStates == {"queued", "running", "ready", "bad", "aborted", "completed"}
Over == prov \in {"ok", "failed", "killed"}

TypeOK ==
    /\ prov \in {"repos", "target", "upload", "submitted", "polling", "cancel",
               "quit", "reserved", "hosts", "again", "playbook",
               "ok", "failed", "killed"}
    /\ target \in Seq(Machine) /\ unseen \in Seq(Machine)
    /\ handled \subseteq Machine
    /\ sys \in [Machine -> {"mine", "idle", "foreign", "unmanaged", "unknown"}]
    /\ tree \in {"main", "fallback", "neither"}
    /\ job \in 0..MaxJobs
    /\ jobs \in [1..MaxJobs -> {"none", "live", "stopped"}]
    /\ rec \in [Recipe -> RecipeStates]
    /\ envjob \in 0..MaxJobs /\ hosts \in BOOLEAN /\ guarded \in BOOLEAN
    /\ sigs \in 0..MaxSigs
    /\ cut \in {"none", "early", "submitted", "cancel", "reserved", "late"}
    /\ teardown \in {"none", "cleaning", "done", "failed"}

Init ==
    /\ prov = "repos"
    /\ target \in {<<>>} \cup {<<m>> : m \in Machine}
                    \cup {s \in Machine \X Machine : s[1] # s[2]}
    /\ unseen = target /\ handled = {}
    /\ sys \in [Machine -> {"mine", "idle", "foreign", "unmanaged", "unknown"}]
    /\ tree \in {"main", "fallback", "neither"}
    /\ job = 0 /\ jobs = [j \in 1..MaxJobs |-> "none"]
    /\ rec = [r \in Recipe |-> "queued"]
    /\ envjob = 0 /\ hosts = FALSE /\ guarded = FALSE
    /\ sigs = 0 /\ cut = "none" /\ teardown = "none"

-----------------------------------------------------------------------------
(* The provisioning. *)

\* gen_recipeset_repos: _gen_tree_repos raises although the fallback distro
\* answers, since it drops what the call for the fallback returns.
GenRepos ==
    /\ prov = "repos"
    /\ prov' = IF tree # "main" THEN "failed"
             ELSE IF target = <<>> THEN "upload" ELSE "target"
    /\ UNCHANGED <<unseen, handled, given, job, server, files, guarded, sigs, cut, teardown>>

\* The head of reprovisoin_beaker_systems' loop: what the status of the next
\* machine says.  A failed request other than 404 raises.
LookAt ==
    /\ prov = "target"
    /\ unseen' = Tail(unseen)
    /\ LET m == Head(unseen)
       IN \/ \* provision_system, then `return` inside the loop
             /\ sys[m] = "mine"
             /\ \/ handled' = handled \cup {m} /\ prov' = "hosts"
                \/ UNCHANGED handled /\ prov' = "failed"
          \/ /\ sys[m] # "mine"
             /\ prov' = IF sys[m] = "idle" THEN "upload" ELSE "failed"
             /\ UNCHANGED handled
    /\ UNCHANGED <<given, job, server, files, guarded, sigs, cut, teardown>>

\* hub.jobs.upload; the handler is installed at the head of the function.
Upload ==
    /\ prov = "upload"
    /\ guarded' = TRUE
    /\ \/ /\ job < MaxJobs
          /\ job' = job + 1
          /\ jobs' = [jobs EXCEPT ![job + 1] = "live"]
          /\ rec' = [r \in Recipe |-> "queued"]
          /\ prov' = "submitted"
       \/ prov' = "failed" /\ UNCHANGED <<job, jobs, rec>>
    /\ UNCHANGED <<unseen, handled, given, files, sigs, cut, teardown>>

EnterTry ==
    /\ prov = "submitted"
    /\ prov' = "polling"
    /\ UNCHANGED <<unseen, handled, given, job, server, files, guarded, sigs, cut, teardown>>

\* (Mutant of Poll: one recipe that is ready is enough to return.)
BugPoll ==
    /\ prov = "polling"
    /\ \/ \E r \in Recipe : rec[r] = "ready" /\ prov' = "reserved"
       \/ \E r \in Recipe : rec[r] \in {"bad", "aborted"} /\ prov' = "cancel"
    /\ UNCHANGED <<unseen, handled, given, job, server, files, guarded, sigs, cut, teardown>>

\* (Mutant of Poll: a job that ended badly is polled on.)
BugPollOn ==
    /\ prov = "polling"
    /\ prov' = IF \A r \in Recipe : rec[r] = "ready" THEN "reserved" ELSE "polling"
    /\ UNCHANGED <<unseen, handled, given, job, server, files, guarded, sigs, cut, teardown>>

\* (Mutant of Poll: `break` out of both loops, not through the finally.)
BugPollResubmits ==
    /\ prov = "polling"
    /\ \/ (\A r \in Recipe : rec[r] = "ready") /\ prov' = "reserved"
       \/ (\E r \in Recipe : rec[r] \in {"bad", "aborted"}) /\ prov' = "upload"
    /\ UNCHANGED <<unseen, handled, given, job, server, files, guarded, sigs, cut, teardown>>

\* One look at the recipes: return, give up this job, or sleep and look again.
Poll ==
    /\ prov = "polling"
    /\ \/ /\ \A r \in Recipe : rec[r] = "ready"
          /\ prov' = "reserved"
       \/ /\ \E r \in Recipe : rec[r] # "ready"
          /\ prov' = IF \E r \in Recipe : rec[r] \in {"bad", "aborted"}
                     THEN "cancel" ELSE "polling"
    /\ UNCHANGED <<unseen, handled, given, job, server, files, guarded, sigs, cut, teardown>>

\* The request fails; this leaves through the finally as well.
PollFails ==
    /\ prov = "polling"
    /\ prov' = "quit"
    /\ UNCHANGED <<unseen, handled, given, job, server, files, guarded, sigs, cut, teardown>>

\* (Mutant of Cancel: done is taken for set.)
BugCancel ==
    /\ prov \in {"cancel", "quit"}
    /\ prov' = IF prov = "cancel" THEN "upload" ELSE "failed"
    /\ jobs' = IF prov = "quit" THEN jobs ELSE [jobs EXCEPT ![job] = "stopped"]
    /\ UNCHANGED <<cut, unseen, handled, given, job, rec, files, guarded, sigs, teardown>>

\* The finally: hub.taskactions.stop, then the next job or the exception goes
\* on.
Cancel ==
    /\ prov \in {"cancel", "quit"}
    /\ \/ /\ jobs' = [jobs EXCEPT ![job] = "stopped"]
          /\ prov' = IF prov = "cancel" THEN "upload" ELSE "failed"
          /\ UNCHANGED cut
       \/ /\ prov' = "failed" /\ cut' = "cancel"
          /\ UNCHANGED jobs
    /\ UNCHANGED <<unseen, handled, given, job, rec, files, guarded, sigs, teardown>>

\* Back in run(): the job goes to the env file.  A job reserved for a given
\* machine does not.
Record ==
    /\ prov = "reserved"
    /\ IF target = <<>> THEN envjob' = job /\ UNCHANGED handled
                        ELSE handled' = handled \cup {target[1]} /\ UNCHANGED envjob
    /\ prov' = "hosts"
    /\ UNCHANGED <<unseen, given, job, server, hosts, guarded, sigs, cut, teardown>>

WriteHosts ==
    /\ prov = "hosts"
    /\ hosts' = TRUE
    /\ prov' = "again"
    /\ UNCHANGED <<unseen, handled, given, job, server, envjob, guarded, sigs, cut, teardown>>

\* The repos are generated again for the location of the hosts, and the
\* playbooks run; either may raise.
Prepare ==
    /\ prov \in {"again", "playbook"}
    /\ prov' \in {"failed", IF prov = "again" THEN "playbook" ELSE "ok"}
    /\ UNCHANGED <<unseen, handled, given, job, server, files, guarded, sigs, cut, teardown>>

\* SIGTERM: without the handler the process is gone; with it, SystemExit is
\* raised wherever the process is.
SigTerm ==
    /\ ~Over /\ sigs < MaxSigs
    /\ sigs' = sigs + 1
    /\ \/ ~guarded /\ prov' = "killed" /\ cut' = "early"
       \/ guarded /\ prov = "polling" /\ prov' = "quit" /\ UNCHANGED cut
       \/ /\ guarded /\ prov # "polling"
          /\ prov' = "failed"
          /\ cut' = IF prov \in {"cancel", "quit"} THEN "cancel"
                    ELSE IF prov \in {"submitted", "reserved"} THEN prov ELSE "late"
    /\ UNCHANGED <<unseen, handled, given, job, server, files, guarded, teardown>>

-----------------------------------------------------------------------------
(* The server. *)

\* (Mutant of Becomes: recipes have a further state.)
BugBecomes(s) ==
    CASE s = "queued"  -> {"running", "bad", "aborted", "cancelled"}
      [] s = "running" -> {"ready", "bad", "aborted", "completed"}
      [] s = "ready"   -> {"completed"}
      [] OTHER         -> {}

\* What a recipe may become.  "ready" is Running with the result Pass; it
\* completes when the reservation ends.  The bound lets the last job succeed.
Becomes(s) ==
    CASE s = "queued"  -> {"running", "bad", "aborted"}
      [] s = "running" -> {"ready", "bad", "aborted", "completed"}
      [] s = "ready"   -> {"completed"}
      [] OTHER         -> {}

Progress(r) ==
    /\ job > 0 /\ jobs[job] = "live"
    /\ \E s \in Becomes(rec[r]) :
          /\ job = MaxJobs => s \notin {"bad", "aborted"}
          /\ rec' = [rec EXCEPT ![r] = s]
    /\ UNCHANGED <<prov, unseen, handled, given, job, jobs, files, guarded, sigs, cut, teardown>>

-----------------------------------------------------------------------------
(* The teardown, in a later Jenkins job. *)

\* It knows the job from the env file only.
Teardown ==
    /\ Over /\ teardown = "none"
    /\ teardown' = IF envjob = 0 THEN "failed" ELSE "cleaning"
    /\ UNCHANGED <<prov, unseen, handled, given, job, server, files, guarded, sigs, cut>>

\* (Mutant of TeardownStops: the playbook's failure ends the teardown.)
BugTeardownStops ==
    /\ teardown = "cleaning"
    /\ \/ jobs' = [jobs EXCEPT ![envjob] = "stopped"] /\ teardown' = "done"
       \/ teardown' = "failed" /\ UNCHANGED jobs
    /\ UNCHANGED <<prov, unseen, handled, given, job, rec, files, guarded, sigs, cut>>

\* The hosts are cleaned, whatever comes of it, and the job is stopped.
TeardownStops ==
    /\ teardown = "cleaning"
    /\ jobs' = [jobs EXCEPT ![envjob] = "stopped"]
    /\ teardown' = "done"
    /\ UNCHANGED <<prov, unseen, handled, given, job, rec, files, guarded, sigs, cut>>

-----------------------------------------------------------------------------
Provision ==
    \/ GenRepos \/ LookAt \/ Upload \/ EnterTry \/ Poll \/ Cancel
    \/ Record \/ WriteHosts \/ Prepare

Next ==
    \/ Provision \/ PollFails \/ SigTerm
    \/ \E r \in Recipe : Progress(r)
    \/ Teardown \/ TeardownStops

Spec == Init /\ [][Next]_vars

\* The commands go on, and so do recipes.
FairSpec ==
    /\ Spec
    /\ WF_vars(Provision) /\ WF_vars(Teardown \/ TeardownStops)
    /\ \A r \in Recipe : WF_vars(rec[r] # "ready" /\ Progress(r))

-----------------------------------------------------------------------------
(* Properties. *)

\* Jobs are what is taken and given back.
Held(status) ==
    IF status = "none" THEN "unused" ELSE IF status = "live" THEN "held" ELSE "freed"

HeldJobs == [j \in 1..MaxJobs |-> Held(jobs[j])]

Taken == INSTANCE Lease WITH
    Resource <- 1..MaxJobs, holding <- HeldJobs, noted <- {envjob} \ {0}, over <- Over

\* The provisioning and the teardown keep their promise: one job at a time, each
\* stopped once, the recorded one not before the teardown.
KeepsLease == Taken!Spec

LiveJobs == {j \in 1..MaxJobs : jobs[j] = "live"}

\* A job is stopped before the next one is submitted: at most one holds
\* machines.
OneLiveJob == Cardinality(LiveJobs) <= 1

\* Only what is given up ends without being stopped or recorded for the
\* teardown: SIGTERM struck between upload and try or between the return and
\* the env file, or stopping failed, or the machine was given by name.
NoLeak ==
    Over => \A j \in LiveJobs :
        \/ j = envjob
        \/ target # <<>>
        \/ cut \in {"submitted", "cancel", "reserved"}

\* The recorded job has all its recipes past the installation, none of them in
\* trouble: the hosts file names machines that are or were there.
RecordedIsReserved ==
    envjob # 0 => \A r \in Recipe : rec[r] \in {"ready", "completed"}

\* While nobody interrupts it, the reservation comes to an end, unless one
\* recipe was over before the other was ready: no case of the loop is meant
\* for that, and it polls for ever.
ReserveEnds ==
    (prov = "polling") ~>
        (prov = "reserved" \/ Over \/ \E r \in Recipe : rec[r] = "completed")

\* What was recorded is given back by the teardown.
TeardownFrees ==
    \A j \in 1..MaxJobs : (teardown = "cleaning" /\ envjob = j) ~> (jobs[j] = "stopped")

=============================================================================
