----------------------------- MODULE ReportFile -----------------------------
(***************************************************************************)
(* libvirt_ci/report.py: the report a runner fills and saves after every   *)
(* result, as JUnit XML, and the commands that load that file later.       *)
(*                                                                         *)
(* A case is what its result, message and log become in the XML: one       *)
(* element (failure, error, skipped) that junit_xml leaves out if its      *)
(* message is empty, and system-out, left out if the log is empty.         *)
(***************************************************************************)
EXTENDS Integers, Sequences, Functions

CONSTANTS
    Suite,    \* names of test suites
    Outcome,  \* results the runner reports, of AllResults
    FailDiff, \* params.fail_diff
    MaxCases  \* cases of a run (bound)

AllResults == {"PASS", "FAIL", "SKIP", "ERROR", "DIFF", "TIMEOUT", "CANCEL",
               "INVALID", "NOTESTS", "WARN", "INTERRUPTED"}

ReportAssumption ==
    /\ Outcome \subseteq AllResults
    /\ FailDiff \in BOOLEAN /\ MaxCases \in Nat

VARIABLES
    suites,  \* suite -> its test_cases
    history, \* results in the order update was called
    disk,    \* what is on disk: "absent", "torn" or the saved XML
    saving,  \* save has truncated the file
    loaded   \* what load of another process returned: "none", "raised", suites

vars == <<suites, history, disk, saving, loaded>>

\* create_testcase: the element of a result, with or without a message of its
\* own.  For the results of fail_list an empty message is replaced.
FailList == {"FAIL", "TIMEOUT", "ERROR", "SKIP", "CANCEL", "DIFF"}
ElementOf(result, told) ==
    LET message == told \/ result \in FailList
    IN CASE ~message -> "none"
         [] result = "FAIL" -> "failure"
         [] result \in {"TIMEOUT", "ERROR", "INVALID"} -> "error"
         [] result \in {"SKIP", "CANCEL"} -> "skipped"
         [] result = "DIFF" /\ FailDiff -> "error"
         [] OTHER -> "none"

Element == {"none", "failure", "error", "skipped"}
Case    == [result : AllResults, element : Element, log : BOOLEAN]
Entry(result, told, log) ==
    [result |-> result, element |-> ElementOf(result, told), log |-> log]

\* TestCase.result, of the case in memory.
Shown(c) == CASE c.element = "skipped" -> "SKIP"
              [] c.element \in {"failure", "error"} -> "FAIL"
              [] OTHER -> "PASS"

\* load: what a testcase of the file is taken for.
Readable(c) == c.element # "none" \/ c.log
\* (Mutants: the name of the element is taken; the log is looked at first.)
BugFailed(c) == IF c.element = "failure" THEN "FAILURE" ELSE "PASS"
BugLogFirst(c) == CASE c.log -> "PASS"
                    [] c.element = "failure" -> "FAIL"
                    [] c.element = "error" -> "ERROR"
                    [] OTHER -> "SKIP"
ResultOf(c) == CASE c.element = "failure" -> "FAIL"
                 [] c.element = "error" -> "ERROR"
                 [] c.element = "skipped" -> "SKIP"
                 [] OTHER -> "PASS"
Reload(s) == [k \in DOMAIN s |-> Entry(ResultOf(s[k]), s[k].element # "none", s[k].log)]

IsFile(f) == \A s \in Suite : f[s] \in Seq(Case)

TypeOK ==
    /\ \A s \in Suite : suites[s] \in Seq(Case)
    /\ history \in Seq(AllResults)
    /\ disk \in {<<"absent">>, <<"torn">>} \/ (disk[1] = "xml" /\ IsFile(disk[2]))
    /\ saving \in BOOLEAN
    /\ loaded \in {<<"none">>, <<"raised">>} \/ (loaded[1] = "report" /\ IsFile(loaded[2]))

Init ==
    /\ suites = [s \in Suite |-> <<>>] /\ history = <<>>
    /\ disk = <<"absent">> /\ saving = FALSE
    /\ loaded = <<"none">>

\* (Mutants of Update: an empty message stays empty; a result of which the
\* file would say nothing is not added.)
BugElement(s, result, told, log) ==
    /\ Len(history) < MaxCases /\ ~saving
    /\ history' = Append(history, result)
    /\ suites' = [suites EXCEPT ![s] = Append(@,
           [result |-> result, log |-> log,
            element |-> IF told THEN ElementOf(result, told) ELSE "none"])]
    /\ UNCHANGED <<disk, saving, loaded>>
BugUpdate(s, result, told, log) ==
    /\ Len(history) < MaxCases /\ ~saving
    /\ history' = Append(history, result)
    /\ suites' = IF Readable(Entry(result, told, log))
                   THEN [suites EXCEPT ![s] = Append(@, Entry(result, told, log))]
                   ELSE suites
    /\ UNCHANGED <<disk, saving, loaded>>
Update(s, result, told, log) ==
    /\ Len(history) < MaxCases /\ ~saving
    /\ history' = Append(history, result)
    /\ suites' = [suites EXCEPT ![s] = Append(@, Entry(result, told, log))]
    /\ UNCHANGED <<disk, saving, loaded>>

\* save: open truncates, the XML is generated and written after that.
SaveOpens ==
    /\ ~saving /\ history # <<>>
    /\ saving' = TRUE /\ disk' = <<"torn">>
    /\ UNCHANGED <<suites, history, loaded>>

SaveWrites ==
    /\ saving
    /\ saving' = FALSE /\ disk' = <<"xml", suites>>
    /\ UNCHANGED <<suites, history, loaded>>

\* load, in another process and at any moment.  No file, an empty one and a case
\* of which nothing is known raise; a suite without a case is not in the file.
\* (Mutant of Load: a case with no element and no log is left out.)
BugLoad ==
    /\ loaded = <<"none">>
    /\ IF disk[1] # "xml"
         THEN loaded' = <<"raised">>
         ELSE loaded' = <<"report", [s \in Suite |-> Reload(SelectSeq(disk[2][s], Readable))]>>
    /\ UNCHANGED <<suites, history, disk, saving>>
Load ==
    /\ loaded = <<"none">>
    /\ IF disk[1] = "xml" /\ \A s \in Suite : \A k \in DOMAIN disk[2][s] : Readable(disk[2][s][k])
         THEN loaded' = <<"report", [s \in Suite |-> Reload(disk[2][s])]>>
         ELSE loaded' = <<"raised">>
    /\ UNCHANGED <<suites, history, disk, saving>>

Next ==
    \/ \E s \in Suite, r \in Outcome, told, log \in BOOLEAN : Update(s, r, told, log)
    \/ SaveOpens \/ SaveWrites
    \/ Load

Spec == Init /\ [][Next]_vars

-----------------------------------------------------------------------------
(* What the code keeps. *)

Cases(f) == {<<s, k>> : s \in Suite, k \in 1..MaxCases}
Has(f, p) == p[2] \in DOMAIN f[p[1]]
At(f, p)  == f[p[1]][p[2]]

\* A failing result is never loaded as a pass, with a message or without.
Failing == {"FAIL", "ERROR", "TIMEOUT"} \cup (IF FailDiff THEN {"DIFF"} ELSE {})
FailuresSurvive ==
    loaded[1] = "report" =>
        \A p \in Cases(suites) :
            Has(loaded[2], p) /\ At(suites, p).result \in Failing => Shown(At(loaded[2], p)) = "FAIL"

\* What was skipped and what passed is loaded as such.
Agreed(c, d) == Shown(c) = Shown(d)
ReadersAgree ==
    loaded[1] = "report" =>
        \A p \in Cases(suites) : Has(loaded[2], p) => Agreed(At(suites, p), At(loaded[2], p))

\* A load gives every case of a complete save, or raises: it never returns a
\* part of the report, and never what a save is still writing.
Count(f) == FoldFunction(LAMBDA s, n : Len(s) + n, 0, f)
NothingHalf ==
    [][loaded = <<"none">> /\ loaded'[1] = "report" =>
          ~saving /\ disk[1] = "xml" /\ Count(loaded'[2]) = Count(disk[2])]_vars

\* ALL of result_counter: every result the runner got is in some suite.
AllCounted == Count(suites) = Len(history)

=============================================================================
