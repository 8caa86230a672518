--------------------------- MODULE DashboardUpload ---------------------------
(***************************************************************************)
(* report_to_dashboard.py: a finished report becomes a run on the          *)
(* dashboard, its cases are posted one by one, and the run is submitted to *)
(* Polarion.  A request is answered with success or with an error, or it   *)
(* raises; a Jenkins job that failed is started again.                     *)
(***************************************************************************)
EXTENDS Integers, FiniteSets

CONSTANTS
    TestCase, \* cases of the report
    Force,    \* --force
    Dated,    \* --date is given
    Submit,   \* --auto-submit-to-polarion
    MaxTries  \* times the command is started (bound)

DashboardAssumption ==
    /\ IsFiniteSet(TestCase) /\ MaxTries \in Nat
    /\ Force \in BOOLEAN /\ Dated \in BOOLEAN /\ Submit \in BOOLEAN

VARIABLES
    upload,   \* where the command is
    starts,   \* how often it was started
    unposted, \* cases it has still to post
    run,      \* the run exists on the dashboard
    posted,   \* case -> how often the dashboard has it
    refused,  \* cases the dashboard answered with an error
    erring,   \* some request raised, or the creation was answered with an error
    broken,   \* that happened after the run existed
    submitted \* the run was submitted to Polarion

vars == <<upload, starts, unposted, run, posted, refused, erring, broken, submitted>>

TypeOK ==
    /\ upload \in {"idle", "create", "cases", "submit", "done", "exists", "raised"}
    /\ starts \in 0..MaxTries /\ unposted \subseteq TestCase /\ refused \subseteq TestCase
    /\ posted \in [TestCase -> 0..MaxTries]
    /\ run \in BOOLEAN /\ erring \in BOOLEAN
    /\ broken \in BOOLEAN /\ submitted \in BOOLEAN

Init ==
    /\ upload = "idle" /\ starts = 0 /\ unposted = {} /\ run = FALSE
    /\ posted = [c \in TestCase |-> 0] /\ refused = {} /\ erring = FALSE /\ broken = FALSE
    /\ submitted = FALSE

\* The report is loaded.  start_time is a string already: without --date its
\* isoformat raises.
Start ==
    /\ upload \in {"idle", "done", "exists", "raised"} /\ starts < MaxTries
    /\ starts' = starts + 1
    /\ upload' = IF Dated THEN "create" ELSE "raised"
    /\ UNCHANGED <<unposted, run, posted, refused, erring, broken, submitted>>

\* A run that exists is answered with 400, which ends the command; with --force
\* it goes on with the id of the answer, if there is one.
\* (Mutant: the answer of an existing run is not looked at.)
BugCreated ==
    /\ upload = "create"
    /\ run' = TRUE /\ unposted' = TestCase /\ upload' = "cases"
    /\ UNCHANGED <<starts, posted, refused, erring, broken, submitted>>
Created ==
    /\ upload = "create" /\ (run => Force)
    /\ run' = TRUE /\ unposted' = TestCase /\ upload' = "cases"
    /\ UNCHANGED <<starts, posted, refused, erring, broken, submitted>>
Exists ==
    /\ upload = "create" /\ run /\ ~Force
    /\ upload' = "exists"
    /\ UNCHANGED <<starts, unposted, run, posted, refused, erring, broken, submitted>>

\* The answer of an error has no id.  A request that raises may have been served.
CreateFails ==
    /\ upload = "create"
    /\ run' \in {run, TRUE} /\ broken' = run' /\ erring' = TRUE /\ upload' = "raised"
    /\ UNCHANGED <<starts, unposted, posted, refused, submitted>>

\* (Mutant of PostCase: a case that was stored is posted again.)
BugPostCase(c) ==
    /\ upload = "cases" /\ c \in unposted
    /\ unposted' = unposted \ (IF posted[c] > 2 THEN {c} ELSE {})
    /\ posted' = [posted EXCEPT ![c] = @ + 1]
    /\ UNCHANGED <<upload, starts, run, refused, erring, broken, submitted>>
PostCase(c) ==
    /\ upload = "cases" /\ c \in unposted
    /\ unposted' = unposted \ {c}
    /\ \/ posted' = [posted EXCEPT ![c] = @ + 1] /\ UNCHANGED <<upload, refused, erring, broken>>
       \/ refused' = refused \cup {c} /\ UNCHANGED <<upload, posted, erring, broken>>
       \/ /\ posted' \in {posted, [posted EXCEPT ![c] = @ + 1]}
          /\ upload' = "raised" /\ erring' = TRUE /\ broken' = TRUE /\ UNCHANGED refused
    /\ UNCHANGED <<starts, run, submitted>>

\* (Mutant: the run is submitted as soon as it exists.)
BugPosted == upload = "cases"
Posted == upload = "cases" /\ unposted = {}

SubmitRun ==
    /\ Posted
    /\ upload' = "done" /\ submitted' \in {submitted, Submit}
    /\ UNCHANGED <<starts, unposted, run, posted, refused, erring, broken>>

Next ==
    \/ Start \/ Created \/ Exists \/ CreateFails \/ SubmitRun
    \/ \E c \in TestCase : PostCase(c)

Spec == Init /\ [][Next]_vars

-----------------------------------------------------------------------------
(* What the code keeps. *)

\* However often a job that failed is started again, no case is on the dashboard
\* twice unless the upload is forced.
CaseOnce == Force \/ \A c \in TestCase : posted[c] <= 1

\* A run is submitted only after each of its cases was answered: the cases that
\* are missing from what Polarion gets are those the dashboard refused.
SubmittedIsAnswered == submitted => \A c \in TestCase : posted[c] > 0 \/ c \in refused

\* A repeated upload completes nothing: once a job failed half way, the cases it
\* did not post stay away, and the run is never submitted.
NeverCompleted ==
    [][~Force /\ broken => posted' = posted /\ submitted' = submitted]_vars

=============================================================================
