------------------------------- MODULE TestRun -------------------------------
(***************************************************************************)
(* RunnerBase.run() of libvirt_ci/runner/__init__.py with the hooks of the *)
(* avocado-vt runner: the loop that prepares a test, runs it (again, if    *)
(* its log shows a corrupted image), records its result in the report,     *)
(* saves the report and lets States.check clean the host.                  *)
(*                                                                         *)
(* The host and its states are those of HostState, whose actions this      *)
(* module schedules; a step of the runner that does not touch them leaves  *)
(* HostState's variables alone.                                            *)
(***************************************************************************)
EXTENDS HostState, SequencesExt

CONSTANTS
    Listed,     \* sequence of the tests that --only and --no leave
    Blacked,    \* sequence of the tests blacklist entries skip, entry by entry
    Ignored,    \* tests whose name occurs in a key of ignore_failures
    MaxRerun,   \* the max_rerun argument of run()
    NoCheck,    \* params.no_check
    FailDiff    \* params.fail_diff

ASSUME RunAssumption ==
    /\ Listed \in Seq(Range(Listed)) /\ IsInjective(Listed)
    /\ Blacked \in Seq(Range(Listed))
    /\ Ignored \subseteq Range(Listed)
    /\ MaxRerun \in Nat \ {0}
    /\ NoCheck \in BOOLEAN /\ FailDiff \in BOOLEAN

VARIABLES
    stage,    \* where run() is
    tests,    \* self.tests
    idx,      \* cur_test_idx + 1
    rerun,    \* attempts of the current test that asked for a rerun
    result,   \* the last attempt: its status and what its log shows
    image,    \* the guest image: "clean" or "corrupt"
    report,   \* the report in memory, one entry per recorded result
    file,     \* the report file as written by the last complete save
    torn,     \* the file is truncated by a save that has not written yet
    checked,  \* tests after which States.check returned
    dirty     \* tests after which it returned a non-empty report

run     == <<stage, tests, idx, rerun, result, image, report, file, torn,
             checked, dirty>>
allvars == <<vars, run>>

\* The statuses that matter: FAIL stands for FAIL, ERROR and TIMEOUT, PASS
\* for PASS and WARN; ODD is any word that is no status of the report.
Status == {"PASS", "FAIL", "SKIP", "INVALID", "ODD"}
Failed == {"FAIL", "INVALID"}

\* corrupt: the log names an image corruption; known: it matches a regex of
\* the test's ignore_failures entries; broken: a failed migration that may
\* have broken the image.
Result == [status : Status, corrupt : BOOLEAN, known : BOOLEAN, broken : BOOLEAN]
NoResult == [status |-> "PASS", corrupt |-> FALSE, known |-> FALSE, broken |-> FALSE]

Entry(t, status, was) == [test |-> t, status |-> status, was |-> was]

RunInit ==
    /\ Init
    /\ stage = "prepare"
    /\ tests = <<>> /\ idx = 1 /\ rerun = 0
    /\ result = NoResult
    /\ image = "clean"
    /\ report = <<>> /\ file = <<>> /\ torn = FALSE
    /\ checked = {} /\ dirty = {}

\* prepare_tests: every blacklist entry that hits a test and does not say
\* skip-test: false adds a SKIP result, entry by entry and for every test it
\* hits; the tests that none hits stay on the list, in their order.
Skips == [k \in DOMAIN Blacked |-> Entry(Blacked[k], "SKIP", "SKIP")]

Unblacked[n \in 0..Len(Listed)] ==
    IF n = 0 THEN <<>>
    ELSE IF Listed[n] \in Range(Blacked) THEN Unblacked[n - 1]
    ELSE Append(Unblacked[n - 1], Listed[n])

PrepareTests ==
    /\ stage = "prepare"
    /\ tests' = Unblacked[Len(Listed)]
    /\ IF tests' = <<>>          \* RunnerError, outside run()'s try
         THEN /\ report' = Append(Skips, Entry("no_test", "NOTESTS", "NOTESTS"))
              /\ stage' = "refused"
         ELSE /\ report' = Skips
              /\ stage' = "snapshot"
    /\ UNCHANGED <<vars, idx, rerun, result, image, file, torn, checked, dirty>>

\* prepare_state.
PrepareState ==
    /\ stage = "snapshot"
    /\ Backup
    /\ stage' = "loop"
    /\ UNCHANGED <<tests, idx, rerun, result, image, report, file, torn,
                   checked, dirty>>

\* prepare_test of the next test.  It raises when the avocado process of an
\* earlier test is still alive or the main guest cannot be redefined.
StartTest ==
    /\ stage = "loop" /\ idx <= Len(tests)
    /\ rerun' = 0
    /\ stage' \in {"attempt", "finally"}
    /\ UNCHANGED <<vars, tests, idx, result, image, report, file, torn,
                   checked, dirty>>

\* The test runs and changes the host.
TestDisturbs(i, v) ==
    /\ stage = "attempt"
    /\ Disturb(i, v)
    /\ UNCHANGED run

\* run_a_test returns, or raises because the log cannot be read.  The test
\* may have corrupted the image; only what the log says is known of it.
EndAttempt ==
    /\ stage = "attempt"
    /\ result' \in Result
    /\ image' \in {image, "corrupt"}
    /\ result'.corrupt => image' = "corrupt"
    /\ result'.broken => result'.status # "PASS"
    /\ stage' \in {"decide", "finally"}
    /\ UNCHANGED <<vars, tests, idx, rerun, report, file, torn, checked, dirty>>

\* check_need_rerun restores the image of a failed attempt whose log shows
\* a corruption; run() then tries again until rerun reaches max_rerun.
NeedRerun == result.status \in Failed /\ result.corrupt

Accept ==
    /\ stage = "decide" /\ ~NeedRerun
    /\ stage' = "update"
    /\ UNCHANGED <<vars, tests, idx, rerun, result, image, report, file, torn,
                   checked, dirty>>

\* (Mutants of Rerun: a test that keeps failing is given up unrecorded; the
\* image is restored only if there is another attempt; attempts are not
\* counted.)
BugRerunUnrecorded ==
    /\ stage = "decide" /\ NeedRerun
    /\ image' = "clean"
    /\ rerun' = rerun + 1
    /\ stage' = IF rerun + 1 = MaxRerun THEN "truncate" ELSE "attempt"
    /\ UNCHANGED <<vars, tests, idx, result, report, file, torn, checked, dirty>>

BugRerunUnrestored ==
    /\ stage = "decide" /\ NeedRerun
    /\ rerun' = rerun + 1
    /\ IF rerun + 1 = MaxRerun
         THEN stage' = "update" /\ UNCHANGED image
         ELSE stage' = "attempt" /\ image' = "clean"
    /\ UNCHANGED <<vars, tests, idx, result, report, file, torn, checked, dirty>>

BugRerunUncounted ==
    /\ stage = "decide" /\ NeedRerun
    /\ image' = "clean" /\ stage' = "attempt"
    /\ UNCHANGED <<vars, tests, idx, rerun, result, report, file, torn, checked,
                   dirty>>

Rerun ==
    /\ stage = "decide" /\ NeedRerun
    /\ image' = "clean"
    /\ rerun' = rerun + 1
    /\ stage' = IF rerun + 1 = MaxRerun THEN "update" ELSE "attempt"
    /\ UNCHANGED <<vars, tests, idx, result, report, file, torn, checked, dirty>>

\* restore_image copies a file and may raise (here and in update_report).
RestoreFails ==
    /\ \/ stage = "decide" /\ NeedRerun
       \/ stage = "update" /\ result.broken
    /\ stage' = "finally"
    /\ UNCHANGED <<vars, tests, idx, rerun, result, image, report, file, torn,
                   checked, dirty>>

\* _ignore_failures looks at the message, not at the status.
Reported(t) ==
    IF t \in Ignored /\ result.known THEN "SKIP" ELSE result.status

\* update_report; create_testcase raises on an unknown status.
UpdateReport ==
    /\ stage = "update"
    /\ image' = IF result.broken THEN "clean" ELSE image
    /\ LET t == tests[idx] IN
        IF Reported(t) = "ODD"
          THEN /\ stage' = "finally"
               /\ UNCHANGED report
          ELSE /\ stage' = "truncate"
               /\ report' = Append(report, Entry(t, Reported(t), result.status))
    /\ UNCHANGED <<vars, tests, idx, rerun, result, file, torn, checked, dirty>>

\* Report.save opens the file for writing, which empties it, and only then
\* generates and writes the XML.
SaveOpens ==
    /\ stage \in {"truncate", "finally"} /\ ~torn
    /\ torn' = TRUE
    /\ UNCHANGED <<vars, stage, tests, idx, rerun, result, image, report, file,
                   checked, dirty>>

\* (Mutant of Unchecked: every failed test returns early.)
BugUnchecked == result.status \in Failed \/ NoCheck

\* process_result returns early for INVALID, and skips the check if told to.
Unchecked == result.status = "INVALID" \/ NoCheck

SaveWrites ==
    /\ stage = "truncate" /\ torn
    /\ torn' = FALSE /\ file' = report
    /\ IF Unchecked
         THEN /\ stage' = "loop" /\ idx' = idx + 1
              /\ UNCHANGED vars
         ELSE /\ stage' = "checking"
              /\ BeginCheck
              /\ UNCHANGED idx
    /\ UNCHANGED <<tests, rerun, result, image, report, checked, dirty>>

\* States.check at work.
Checking ==
    /\ stage = "checking"
    /\ ReadClass \/ Handle \/ EndCheck
    /\ UNCHANGED run

\* (Mutant of ProcessDiff: the snapshot is taken anew after each test.)
BugProcessDiff ==
    /\ stage = "checking" /\ phase = "report"
    /\ phase' = "test"
    /\ backup' = [i \in Item |-> IF Present(i) THEN "base" ELSE "absent"]
    /\ checked' = checked \cup {idx}
    /\ dirty' = IF msg # {} THEN dirty \cup {idx} ELSE dirty
    /\ stage' = "loop" /\ idx' = idx + 1
    /\ UNCHANGED <<host, origin, served, order, check, faults, shocks,
                   tests, rerun, result, image, report, file, torn>>

\* process_result logs the messages of the check; they go nowhere else.
ProcessDiff ==
    /\ stage = "checking"
    /\ NextTest
    /\ checked' = checked \cup {idx}
    /\ dirty' = IF msg # {} THEN dirty \cup {idx} ELSE dirty
    /\ stage' = "loop" /\ idx' = idx + 1
    /\ UNCHANGED <<tests, rerun, result, image, report, file, torn>>

\* An exception of the check ends the loop like any other.
CheckRaises ==
    /\ stage = "checking"
    /\ ReadRaises
    /\ stage' = "finally"
    /\ UNCHANGED <<tests, idx, rerun, result, image, report, file, torn,
                   checked, dirty>>

EndLoop ==
    /\ stage = "loop" /\ idx > Len(tests)
    /\ stage' = "finally"
    /\ UNCHANGED <<vars, tests, idx, rerun, result, image, report, file, torn,
                   checked, dirty>>

\* (Mutant of Finish: the finally clause does not save.)
BugFinish ==
    /\ stage = "finally" /\ torn
    /\ torn' = FALSE
    /\ stage' = "done"
    /\ UNCHANGED <<vars, tests, idx, rerun, result, image, report, file, checked,
                   dirty>>

\* The finally clause saves once more.
Finish ==
    /\ stage = "finally" /\ torn
    /\ torn' = FALSE /\ file' = report
    /\ stage' = "done"
    /\ UNCHANGED <<vars, tests, idx, rerun, result, image, report, checked, dirty>>

\* Jenkins kills the job: no finally clause runs.
Kill ==
    /\ stage \notin {"done", "refused", "killed"}
    /\ stage' = "killed"
    /\ UNCHANGED <<vars, tests, idx, rerun, result, image, report, file, torn,
                   checked, dirty>>

RunStep ==
    \/ PrepareTests \/ PrepareState
    \/ StartTest \/ EndAttempt
    \/ Accept \/ Rerun \/ RestoreFails
    \/ UpdateReport \/ SaveOpens \/ SaveWrites
    \/ Checking \/ ProcessDiff \/ CheckRaises
    \/ EndLoop \/ Finish

RunNext ==
    \/ RunStep
    \/ \E i \in Item, v \in Condition : TestDisturbs(i, v)
    \/ Kill

RunSpec == RunInit /\ [][RunNext]_allvars

\* run_local gives every attempt a timeout, so an attempt ends; everything
\* else is the program's own progress.
RunFairSpec == RunSpec /\ WF_allvars(RunStep)

-----------------------------------------------------------------------------
Ended == {"done", "refused", "killed"}

\* Tests whose result process_result has recorded.
Recorded ==
    IF stage \in {"truncate", "checking"} THEN idx ELSE idx - 1

TestsOf(r) == [k \in DOMAIN r |-> r[k].test]

\* Where the result of the n-th test to run is, behind the skipped ones.
Place(n) == Len(Blacked) + n

\* Every test that ran is reported exactly once and in the order of the run,
\* behind the skipped ones, however often it was repeated; also if an
\* exception or a kill ends the run: then a prefix of the tests is reported
\* (run, process_result).
ReportedOnceInOrder ==
    /\ stage \notin Ended \cup {"prepare", "finally"} =>
          TestsOf(report) = Blacked \o SubSeq(tests, 1, Recorded)
    /\ tests # <<>> =>
          \E n \in 0..Len(tests) : TestsOf(report) = Blacked \o SubSeq(tests, 1, n)
    /\ (stage = "done" /\ idx > Len(tests)) =>
          report # <<>> /\ ToSet(TestsOf(report)) = ToSet(Listed)

\* Whatever ends the run, the file holds every result recorded before the
\* current test, unless the process was killed inside a save; and a run that
\* ends by itself, after an exception too, leaves the whole report.
ResultsAreSaved ==
    /\ (~torn /\ idx > 1) => IsPrefix(SubSeq(report, 1, Place(idx - 1)), file)
    /\ stage = "done" => file = report /\ ~torn

\* An image corruption that a failing attempt shows is repaired before the
\* next attempt and before the result is recorded, also when the attempts
\* are used up (check_need_rerun restores before run() counts).
SeenCorruptionIsRepaired ==
    (/\ stage \in {"attempt", "update", "truncate", "checking", "loop"}
     /\ result.status \in Failed /\ result.corrupt)
    => image = "clean"

\* A test starts on the host that was snapshotted if the check after its
\* predecessor found nothing, and the check is left out only after an
\* INVALID result or with --no-check.
PreviousEntry == report[Place(idx - 1)]

StartsOnCheckedHost ==
    (stage = "loop" /\ idx > 1) =>
        /\ (idx - 1 \notin checked) =>
               NoCheck \/ PreviousEntry.was = "INVALID"
        /\ (idx - 1 \in checked \ dirty /\ ~flaky /\ served) =>
               \A i \in Item \ PermitNames : Permissible(host[i], backup[i])

\* The run drives the host through behaviours of HostState only: States is
\* snapshotted once, before the first test, and no test runs during a check.
HostSpec == Spec

\* Every run ends, with the file written if nobody killed it.
RunEnds == <>(stage \in Ended)

-----------------------------------------------------------------------------
\* What the option's help says: "Report tests who do not clean up
\* environment as a failure" (commands/run.py, --fail-diff).
Failure(e) == e.status \in Failed

FailDiffReported ==
    (FailDiff /\ stage = "done") =>
        \A k \in dirty : Failure(report[Place(k)])

\* What _ignore_failures says of itself: "Change failed test result to SKIP
\* if pattern matched"; and docs/source/runner.rst: "if bug fixed and test
\* case run success now, no need mark in the report".
OnlyFailuresAreIgnored ==
    \A k \in DOMAIN report : report[k].was = "PASS" => report[k].status = "PASS"
=============================================================================
