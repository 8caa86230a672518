----------------------------- MODULE IssueReport -----------------------------
(***************************************************************************)
(* report_to_jira.py: after a run, each message that failed or skipped     *)
(* cases gave becomes a Jira issue, or a comment in the issue that has it. *)
(* Jobs report at the same time, people close issues, and Jira answers     *)
(* any request with an error.                                              *)
(*                                                                         *)
(* A message stands for a class of the classifier, which groups similar    *)
(* texts; the ones of an issue and of a case are taken from the same set.  *)
(***************************************************************************)
EXTENDS Integers, Sequences, FiniteSets

CONSTANTS
    Job,       \* jobs that report
    Message,   \* messages
    Passed,    \* cases of a report without a message
    Threshold, \* --fail-threshold, in percent
    MaxRuns,   \* reports of a job (bound)
    People     \* whether people close and reject issues

IssueAssumption ==
    /\ IsFiniteSet(Job) /\ IsFiniteSet(Message) /\ Passed \in Nat /\ Threshold \in 0..100
    /\ MaxRuns \in Nat /\ People \in BOOLEAN

VARIABLES
    report,  \* job -> where its command is
    reports, \* job -> reports it made
    cases,   \* job -> what its report has for a message
    known,   \* job -> message -> issues found and their status then
    pending, \* job -> messages left
    issues,  \* sequence of issues, the earliest first
    erred    \* job -> messages with a JIRAError in this run

vars == <<report, reports, cases, known, pending, issues, erred>>

\* For each message one case; "ignored" is blacklisted or an ignored failure.
Kind   == {"failed", "skipped", "ignored", "none"}
Status == {"To Do", "Done", "Rejected"}
Issue  == [message : Message, status : Status, comments : 0..(Cardinality(Job) * MaxRuns),
           labels : SUBSET {"failed", "skipped"}]

Quiet == [m \in Message |-> "none"]
Blank == [m \in Message |-> [n \in {} |-> "To Do"]]

TypeOK ==
    /\ report \in [Job -> {"idle", "search", "report", "exit", "raised"}]
    /\ reports \in [Job -> 0..MaxRuns] /\ cases \in [Job -> [Message -> Kind]]
    /\ issues \in Seq(Issue)
    /\ \A j \in Job, m \in Message : DOMAIN known[j][m] \subseteq DOMAIN issues
    /\ pending \in [Job -> SUBSET Message] /\ erred \in [Job -> SUBSET Message]

Init ==
    /\ report = [j \in Job |-> "idle"] /\ reports = [j \in Job |-> 0]
    /\ cases = [j \in Job |-> Quiet] /\ known = [j \in Job |-> Blank]
    /\ pending = [j \in Job |-> {}] /\ issues = <<>> /\ erred = [j \in Job |-> {}]

\* parse_valid_test_cases.  The ratio is a quotient of integers.
Failures(c)   == Cardinality({m \in Message : c[m] = "failed"})
Total(c)      == Passed + Cardinality({m \in Message : c[m] # "none"})
\* (Mutant: ignored cases are reported.)
BugReportable(c) == {m \in Message : c[m] # "none"}
Reportable(c) == {m \in Message : c[m] \in {"failed", "skipped"}}
Exceeds(c)    == (Failures(c) \div Total(c)) * 100 > Threshold

Start(j) ==
    /\ report[j] \in {"idle", "exit", "raised"} /\ reports[j] < MaxRuns
    /\ reports' = [reports EXCEPT ![j] = @ + 1]
    /\ \E c \in [Message -> Kind] :
           /\ Total(c) > 0
           /\ cases' = [cases EXCEPT ![j] = c]
           /\ report' = [report EXCEPT ![j] = IF Exceeds(c) THEN "exit" ELSE "search"]
    /\ UNCHANGED <<known, pending, issues, erred>>

\* _get_classifier: one search, whose issues keep the status they have now.  An
\* error of it ends the command.
Search(j) ==
    /\ report[j] = "search"
    /\ \/ /\ known' = [known EXCEPT ![j] = [m \in Message |->
                 [k \in {n \in DOMAIN issues : issues[n].message = m} |-> issues[k].status]]]
          /\ pending' = [pending EXCEPT ![j] = Reportable(cases[j])]
          /\ erred' = [erred EXCEPT ![j] = {}]
          /\ report' = [report EXCEPT ![j] = "report"]
       \/ report' = [report EXCEPT ![j] = "raised"] /\ UNCHANGED <<known, pending, erred>>
    /\ UNCHANGED <<reports, cases, issues>>

\* The search has the earliest issue last, and the last one is taken.
\* (Mutant: the first one is taken.)
BugEarliest(S) == CHOOSE k \in S : \A l \in S : k >= l
Earliest(S) == CHOOSE k \in S : \A l \in S : k <= l

\* (Mutant: the results are no labels.)
BugResults(j, m) == {}
Results(j, m) == {cases[j][m]}

\* _create_new_issue; adding its watchers is a request of its own.
\* (Mutant: an issue is created for every message.)
BugUnknown(j, m) == m \in pending[j]
IsUnknown(j, m) == DOMAIN known[j][m] = {}
NewIssue(j, m) ==
    /\ report[j] = "report" /\ m \in pending[j] /\ IsUnknown(j, m)
    /\ pending' = [pending EXCEPT ![j] = @ \ {m}]
    /\ \/ /\ issues' = Append(issues, [message |-> m, status |-> "To Do", comments |-> 0,
                                       labels |-> Results(j, m)])
          /\ \/ UNCHANGED erred
             \/ erred' = [erred EXCEPT ![j] = @ \cup {m}]
       \/ erred' = [erred EXCEPT ![j] = @ \cup {m}] /\ UNCHANGED issues
    /\ UNCHANGED <<report, reports, cases, known>>

\* _update_issue_info: the comment, then (the comparison of the status object
\* with 'Rejected' is never true) a closed issue is opened, then the labels.  A
\* JIRAError at any of them leaves out the rest.
\* (Mutant: closed issues stay closed.)
BugReopened(issue, was) == issue.status
Reopened(issue, was) == IF was = "Done" THEN "To Do" ELSE issue.status

UpdateIssue(j, m) ==
    /\ report[j] = "report" /\ m \in pending[j] /\ ~IsUnknown(j, m)
    /\ pending' = [pending EXCEPT ![j] = @ \ {m}]
    /\ LET k == Earliest(DOMAIN known[j][m])
           commented == [issues[k] EXCEPT !.comments = @ + 1]
           opened    == [commented EXCEPT !.status = Reopened(issues[k], known[j][m][k])]
           labelled  == [opened EXCEPT !.labels = @ \cup Results(j, m)]
       IN \/ issues' = [issues EXCEPT ![k] = labelled] /\ UNCHANGED erred
          \/ /\ \E i \in {issues[k], commented, opened} : issues' = [issues EXCEPT ![k] = i]
             /\ erred' = [erred EXCEPT ![j] = @ \cup {m}]
    /\ UNCHANGED <<report, reports, cases, known>>

Finish(j) ==
    /\ report[j] = "report" /\ pending[j] = {}
    /\ report' = [report EXCEPT ![j] = "idle"]
    /\ UNCHANGED <<reports, cases, known, pending, issues, erred>>

\* People close and reject issues.
Transition(k, s) ==
    /\ People /\ k \in DOMAIN issues /\ issues[k].status = "To Do" /\ s # "To Do"
    /\ issues' = [issues EXCEPT ![k].status = s]
    /\ UNCHANGED <<report, reports, cases, known, pending, erred>>

Next ==
    \/ \E j \in Job : Start(j) \/ Search(j) \/ Finish(j)
    \/ \E j \in Job, m \in Message : NewIssue(j, m) \/ UpdateIssue(j, m)
    \/ \E k \in DOMAIN issues, s \in Status : Transition(k, s)

Spec == Init /\ [][Next]_vars

-----------------------------------------------------------------------------
(* What the code keeps. *)

Of(m) == {k \in DOMAIN issues : issues[k].message = m}

\* Searching and creating are apart, so two jobs may create an issue each for one
\* message; but no job ever makes a second one.
BoundedDuplicates == \A m \in Message : Cardinality(Of(m)) <= Cardinality(Job)

\* Of several issues for a message only the earliest is ever commented.
OneIsKept ==
    \A k \in DOMAIN issues : issues[k].comments > 0 => k = Earliest(Of(issues[k].message))

\* A message a job is done with, without an error, has an issue with its result
\* among the labels.
ReportIsThere ==
    \A j \in Job, m \in Message :
        /\ report[j] = "report" /\ m \notin pending[j] \cup erred[j] /\ m \in Reportable(cases[j])
        => \E k \in Of(m) : cases[j][m] \in issues[k].labels

\* An issue that was closed when the job searched is open once it is done with it.
ClosedIsReopened ==
    [][\A j \in Job, m \in Message :
          (m \in pending[j] /\ m \notin pending'[j] \cup erred'[j] /\ DOMAIN known[j][m] # {}
           /\ known[j][m][Earliest(DOMAIN known[j][m])] = "Done")
          => issues'[Earliest(DOMAIN known[j][m])].status = "To Do"]_vars

=============================================================================
