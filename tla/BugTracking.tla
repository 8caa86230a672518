---------------------------- MODULE BugTracking ----------------------------
(***************************************************************************)
(* x86_bug_report.py, and bug_report.py with its predecessor               *)
(* ppc_bug_report.py: every day the bugs that Bugzilla lists get an issue  *)
(* in Jira, or what they have is brought up to date.  An issue belongs to  *)
(* a bug if the bug's number is somewhere in its summary, which has the    *)
(* description of the bug too.  Between the runs, and during them, bugs    *)
(* change and people close issues.                                         *)
(***************************************************************************)
EXTENDS Integers, Sequences, FiniteSets, SequencesExt

CONSTANTS
    Bug,
    NumbersIn, \* bug -> bugs whose numbers its summary has
    Flag,     \* flags of bugs: the releases they are wanted for
    ParentOf, \* those in PRODUCTS -> the issue above theirs
    QA,       \* contacts
    LeadOf,   \* contact -> lead of its group, or Nobody
    Nobody,
    First,    \* the bugs at first
    Commands, \* the commands that run: x86, arch
    MaxRuns, MaxChanges, MaxFaults \* runs, changes by people, failed requests (bounds)

Statuses == {"on_qa", "other", "closed"}
Entry    == [status : Statuses, flags : SUBSET Flag, qa : QA, rpl : BOOLEAN]

BugAssumption ==
    /\ NumbersIn \in [Bug -> SUBSET Bug] /\ \A b \in Bug : b \in NumbersIn[b]
    /\ DOMAIN ParentOf \subseteq Flag /\ LeadOf \in [QA -> QA \cup {Nobody}] /\ Nobody \notin QA
    /\ First \in [Bug -> Entry] /\ Commands \subseteq {"x86", "arch"}
    /\ MaxRuns \in Nat /\ MaxChanges \in Nat /\ MaxFaults \in Nat

VARIABLES
    bugs,    \* Bugzilla: bug -> status, flags, contact, whether the RPL bug depends on it
    tracker, \* Jira: its issues
    sync,    \* the run
    upset    \* changes by people so far

vars == <<bugs, tracker, sync, upset>>

\* The stages of a command and the parents their issues are searched under.
Parents(c) == IF c = "x86" THEN <<{ParentOf[f] : f \in DOMAIN ParentOf}>>
                           ELSE <<{"onqa"}, {"other"}>>
Unlisted   == "unlisted"
AllParents == UNION {UNION Range(Parents(c)) : c \in {"x86", "arch"}}

\* What an issue of a bug in the dependencies of the RPL bug is given.
Marks == <<"summary", "priority", "description">>

Issue == [about : Bug, parent : AllParents, open : BOOLEAN, assignee : QA \cup {Nobody},
          watchers : SUBSET QA, marks : SUBSET Range(Marks)]

TypeOK ==
    /\ bugs \in [Bug -> Entry] /\ tracker \in Seq(Issue) /\ upset \in 0..MaxChanges
    /\ sync.at \in {"idle", "search", "rows", "done", "raised"} /\ sync.runs \in 0..MaxRuns
    /\ DOMAIN sync.found \subseteq DOMAIN tracker /\ sync.base <= Len(tracker)
    /\ sync.faults \in 0..MaxFaults

\* The assignees of the issues found, as they were then.
NoIssues == [k \in {} |-> Nobody]

Init ==
    /\ bugs = First /\ tracker = <<>> /\ upset = 0
    /\ sync = [at |-> "idle", cmd |-> "x86", stage |-> 1, broken |-> {}, read |-> bugs,
               left |-> {}, found |-> NoIssues, faults |-> 0,
               base |-> 0, runs |-> 0, ok |-> FALSE]

-----------------------------------------------------------------------------
(* The rows a query gives.  For x86 a bug has one per flag. *)

ParentFor(f) == IF f \in DOMAIN ParentOf THEN ParentOf[f] ELSE Unlisted

Rows(c, stage, read) ==
    IF c = "x86"
    THEN UNION {{[bug |-> b, parent |-> ParentFor(f)] : f \in read[b].flags} :
                b \in {d \in Bug : read[d].status = "on_qa"}}
    ELSE LET of == <<"on_qa", "other">>
         IN {[bug |-> b, parent |-> CHOOSE p \in Parents(c)[stage] : TRUE] :
             b \in {d \in Bug : read[d].status = of[stage]}}

\* run.  A query with an OperationalError gives None, which is a TypeError where
\* it is used: for the third one at once, else at its stage.
Begin(c) ==
    /\ sync.at \in {"idle", "done", "raised"} /\ sync.runs < MaxRuns
    /\ \E broken \in {S \in SUBSET DOMAIN Parents(c) : sync.faults + Cardinality(S) <= MaxFaults} :
           sync' = [sync EXCEPT !.at = "search", !.cmd = c, !.stage = 1, !.broken = broken,
                                !.faults = @ + Cardinality(broken),
                                !.read = bugs, !.runs = @ + 1, !.ok = TRUE]
    /\ UNCHANGED <<bugs, tracker, upset>>

Raise(n) == sync' = [sync EXCEPT !.at = "raised", !.faults = n, !.broken = {},
                                 !.found = NoIssues, !.left = {}]

\* get_issues, and the beginning of update_issue: the open issues under the
\* parents of the stage.
Below(stage) == {k \in DOMAIN tracker : tracker[k].open /\ tracker[k].parent \in stage}

Search ==
    /\ sync.at = "search"
    /\ IF sync.stage \in sync.broken
       THEN Raise(sync.faults)
       ELSE \/ LET below == Below(Parents(sync.cmd)[sync.stage])
               IN sync' = [sync EXCEPT !.at = "rows",
                                       !.found = [k \in below |-> tracker[k].assignee],
                                       !.left = Rows(sync.cmd, sync.stage, sync.read),
                                       !.base = Len(tracker)]
            \/ sync.faults < MaxFaults /\ Raise(sync.faults + 1)
    /\ UNCHANGED <<bugs, tracker, upset>>

\* find_or_create_issue: the first one, which is the newest, whose summary has
\* the number.
\* (Mutant: only the oldest issue is looked at.)
BugMatches(b) == {k \in DOMAIN sync.found \cap {1} : b \in NumbersIn[tracker[k].about]}
Matches(b) == {k \in DOMAIN sync.found : b \in NumbersIn[tracker[k].about]}
Match(b)   == CHOOSE k \in Matches(b) : \A l \in Matches(b) : k >= l

\* prepare_issue_dict.
NewIssue(row) ==
    [about |-> row.bug, parent |-> row.parent, open |-> TRUE, watchers |-> {},
     assignee |-> sync.read[row.bug].qa,
     marks    |-> IF sync.cmd = "arch" /\ sync.read[row.bug].rpl THEN Range(Marks) ELSE {}]

\* The watcher of update_issue: nobody, if the assignee is in no group.
\* (Mutant: it is added to new issues only.)
BugWatched(i) == i
Watched(i) == [i EXCEPT !.watchers = @ \cup ({LeadOf[i.assignee]} \ {Nobody})]

\* The request that brings an issue of x86 up to date, and the first n of those for
\* the marks, of which one that the issue has is not sent.
\* (Mutant: the assignee stays.)
BugTaken(i, b)   == [i EXCEPT !.about = b]
Taken(i, b)      == [i EXCEPT !.about = b, !.assignee = sync.read[b].qa]
\* (Mutant: an issue with the mark in its summary is left as it is.)
BugMarked(i, b, n) ==
    IF "summary" \in i.marks THEN i
    ELSE [i EXCEPT !.about = b, !.marks = @ \cup {Marks[m] : m \in 1..n}]
Marked(i, b, n) ==
    [i EXCEPT !.about = IF n > 0 /\ "summary" \notin i.marks THEN b ELSE @,
              !.marks = @ \cup {Marks[m] : m \in 1..n}]

\* A run goes on without the rest of a row of x86, and ends in one of the others.
Fail(row) ==
    /\ sync.faults < MaxFaults
    /\ IF sync.cmd = "arch" THEN Raise(sync.faults + 1)
       ELSE sync' = [sync EXCEPT !.left = @ \ {row}, !.ok = FALSE, !.faults = @ + 1]

Done(row, found) ==
    sync' = [sync EXCEPT !.left = @ \ {row}, !.found = found]

IsRow(row) == sync.at = "rows" /\ row \in sync.left

\* A flag of no product is a KeyError.
SkipRow(row) ==
    /\ IsRow(row) /\ row.parent = Unlisted /\ Done(row, sync.found)
    /\ UNCHANGED <<bugs, tracker, upset>>

Create(row) ==
    /\ IsRow(row) /\ row.parent # Unlisted /\ Matches(row.bug) = {}
    /\ LET new == NewIssue(row)
       IN \/ /\ tracker' = Append(tracker, IF sync.cmd = "x86" THEN Watched(new) ELSE new)
             /\ Done(row, sync.found)
          \/ Fail(row) /\ tracker' \in {tracker}
                       \cup {Append(tracker, new) : c \in {sync.cmd} \cap {"x86"}}
    /\ UNCHANGED <<bugs, upset>>

\* update_issue of x86.  What was read of an issue is what it is compared with;
\* without an assignee that is an AttributeError.
Update(row) ==
    /\ sync.cmd = "x86" /\ IsRow(row) /\ row.parent # Unlisted /\ Matches(row.bug) # {}
    /\ LET k      == Match(row.bug)
           taken  == IF \/ tracker[k].about # row.bug
                        \/ sync.found[k] # sync.read[row.bug].qa
                     THEN Taken(tracker[k], row.bug) ELSE tracker[k]
           looked == [taken EXCEPT !.assignee = sync.read[row.bug].qa]
           lead   == Watched(looked).watchers
       IN \/ sync.found[k] = Nobody /\ Done(row, sync.found) /\ UNCHANGED tracker
          \/ /\ sync.found[k] # Nobody
             /\ \/ /\ tracker' = [tracker EXCEPT ![k] = [taken EXCEPT !.watchers = lead]]
                   /\ Done(row, [sync.found EXCEPT ![k] = sync.read[row.bug].qa])
                \/ /\ \E i \in {tracker[k], taken} : tracker' = [tracker EXCEPT ![k] = i]
                   /\ Fail(row)
    /\ UNCHANGED <<bugs, upset>>

\* update_issue of the others: what exists is left alone, but for the marks.
Mark(row) ==
    /\ sync.cmd = "arch" /\ IsRow(row) /\ Matches(row.bug) # {}
    /\ LET k == Match(row.bug)
       IN IF sync.read[row.bug].rpl
          THEN \/ /\ tracker' = [tracker EXCEPT ![k] = Marked(@, row.bug, Len(Marks))]
                  /\ Done(row, sync.found)
               \/ /\ \E m \in DOMAIN Marks :
                         /\ Marks[m] \notin tracker[k].marks
                         /\ tracker' = [tracker EXCEPT ![k] = Marked(@, row.bug, m - 1)]
                  /\ Fail(row)
          ELSE UNCHANGED tracker /\ Done(row, sync.found)
    /\ UNCHANGED <<bugs, upset>>

EndStage ==
    /\ sync.at = "rows" /\ sync.left = {}
    /\ IF sync.stage < Len(Parents(sync.cmd))
       THEN sync' = [sync EXCEPT !.at = "search", !.stage = @ + 1]
       ELSE sync' = [sync EXCEPT !.at = "done", !.found = NoIssues]
    /\ UNCHANGED <<bugs, tracker, upset>>

-----------------------------------------------------------------------------
(* People. *)

Disturb == /\ upset < MaxChanges /\ upset' = upset + 1
           /\ sync' = [sync EXCEPT !.ok = FALSE]

\* A bug moves on, gets another contact, is wanted by the RPL bug, or for another
\* release.
Change(b) ==
    /\ Disturb
    /\ \/ \E s \in Statuses \ {bugs[b].status} : bugs' = [bugs EXCEPT ![b].status = s]
       \/ \E q \in QA \ {bugs[b].qa} : bugs' = [bugs EXCEPT ![b].qa = q]
       \/ ~bugs[b].rpl /\ bugs' = [bugs EXCEPT ![b].rpl = TRUE]
       \/ \E f \in Flag \ bugs[b].flags : bugs' = [bugs EXCEPT ![b].flags = @ \cup {f}]
    /\ UNCHANGED tracker

Close(k) ==
    /\ Disturb /\ k \in DOMAIN tracker /\ tracker[k].open
    /\ tracker' = [tracker EXCEPT ![k].open = FALSE]
    /\ UNCHANGED bugs

Unassign(k) ==
    /\ Disturb /\ k \in DOMAIN tracker /\ tracker[k].assignee # Nobody
    /\ tracker' = [tracker EXCEPT ![k].assignee = Nobody]
    /\ UNCHANGED bugs

Next ==
    \/ \E c \in Commands : Begin(c)
    \/ Search \/ EndStage
    \/ \E row \in sync.left : SkipRow(row) \/ Create(row) \/ Update(row) \/ Mark(row)
    \/ \E b \in Bug : Change(b)
    \/ \E k \in DOMAIN tracker : Close(k) \/ Unassign(k)

Spec == Init /\ [][Next]_vars

-----------------------------------------------------------------------------
(* What the code keeps. *)

Clean     == sync.at = "done" /\ sync.ok
Stages    == DOMAIN Parents(sync.cmd)
Listed    == {r \in UNION {Rows(sync.cmd, s, sync.read) : s \in Stages} : r.parent # Unlisted}
Of(b)     == {k \in DOMAIN tracker : tracker[k].open /\ tracker[k].about = b}

\* Another listed bug takes over an issue that has the bug's number: on x86 one
\* whose number is in the text of the bug; else one that the RPL bug depends on, if
\* both numbers are in the text of some bug.
TakenOver(b) ==
    \E other \in Listed :
        /\ other.bug # b
        /\ IF sync.cmd = "x86" THEN other.bug \in NumbersIn[b]
           ELSE /\ sync.read[other.bug].rpl /\ b \notin NumbersIn[other.bug]
                /\ \E c \in Bug : {b, other.bug} \subseteq NumbersIn[c]

\* After a run without errors that nobody came between, a bug that is wanted for
\* a known release is tracked, unless its issue was taken over: on x86 by one that
\* is about it and has its contact, or has no assignee at all; else by one that
\* has its number, under the parent of its list.
BugIsTracked ==
    Clean =>
    \A row \in Listed :
        \/ TakenOver(row.bug)
        \/ /\ sync.cmd = "x86"
           /\ \/ \E k \in Of(row.bug) : tracker[k].assignee = sync.read[row.bug].qa
              \/ \E k \in DOMAIN tracker : /\ row.bug \in NumbersIn[tracker[k].about]
                                           /\ tracker[k].open /\ tracker[k].assignee = Nobody
        \/ /\ sync.cmd = "arch"
           /\ \E k \in Below({row.parent}) : row.bug \in NumbersIn[tracker[k].about]

\* The lead of the contact watches it then, even if an earlier run failed to add
\* him to the issue it had created.
LeadWatches ==
    (Clean /\ sync.cmd = "x86") =>
    \A row \in Listed :
        \/ TakenOver(row.bug) \/ LeadOf[sync.read[row.bug].qa] = Nobody
        \/ \E k \in DOMAIN tracker :
               /\ tracker[k].open /\ row.bug \in NumbersIn[tracker[k].about]
               /\ \/ LeadOf[sync.read[row.bug].qa] \in tracker[k].watchers
                  \/ tracker[k].assignee = Nobody

\* And a bug that the RPL bug depends on has an issue with all the marks, though
\* each of them is a request of its own.
RplIsMarked ==
    (Clean /\ sync.cmd = "arch") =>
    \A row \in Listed :
        sync.read[row.bug].rpl /\ ~TakenOver(row.bug) =>
        \E k \in Below({row.parent}) : /\ row.bug \in NumbersIn[tracker[k].about]
                                       /\ tracker[k].marks = Range(Marks)

\* No run creates an issue for a bug that has one of an earlier run, open, where
\* the run searched; within a run that happens if the bug is listed twice.
NoSecondIssue ==
    [][Len(tracker') > Len(tracker) =>
       \A k \in Below(Parents(sync.cmd)[sync.stage]) \cap 1..sync.base :
           tracker[k].about # tracker'[Len(tracker')].about]_vars

=============================================================================
