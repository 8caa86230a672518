--------------------------- MODULE FrameworkRunners ---------------------------
(***************************************************************************)
(* The runners of the frameworks other than avocado-vt: libvirt's own unit *)
(* tests, libvirt-test-API with its installation tests, python-virtinst,   *)
(* cimtest and libvirt-tck.  RunnerBase.run() calls what is modelled here  *)
(* for each test: prepare_test, run_test, parse_result and update_report.  *)
(* An exception in one of them ends the run; the loop itself, the report's *)
(* file and the checks of the host are those of TestRun.                   *)
(*                                                                         *)
(* The directory of the unit tests is there for the next run: what their   *)
(* `make check` left is read by every later update_report.                 *)
(***************************************************************************)
EXTENDS Integers, FiniteSets, SequencesExt, FiniteSetsExt

CONSTANTS
    Kind,     \* frameworks, of "unit", "api", "install", "virtinst", "cim", "tck"
    Dots,     \* test of virtinst, cimtest or tck -> dots in its name (directories)
    Sub,      \* unit tests of libvirt
    Day,      \* ticks of a day: a log shows the time of day
    MaxPieces, MaxRuns, MaxMinor   \* bounds: pieces of a log, runs, minor releases

RunnersAssumption ==
    /\ Kind \subseteq {"unit", "api", "install", "virtinst", "cim", "tck"}
    /\ \A t \in DOMAIN Dots : Dots[t] \in Nat
    /\ IsFiniteSet(Sub) /\ {Day, MaxRuns, MaxMinor} \subseteq Nat \ {0} /\ MaxPieces \in Nat

VARIABLES
    kind,    \* params.test_framework
    round,   \* number of the run on this host
    queue,   \* tests to run, the first is the current one
    at,      \* where the loop is
    out,     \* what the current test printed, and how it ended
    logdir,  \* sub-test -> the round of its .log (0: none) and of its .trs, and what that says
    summary, \* whether tests/test-suite.log is there
    rows,    \* the report: test -> its results, with the time of each
    seen,    \* history: tests that were run, with what they were and what was in the tree
    cause,   \* why the run ended
    newest,  \* the newest minor release in the metadata
    product, \* the one in PRODUCT_DATA of the environment, 0 if none
    installs \* history: minors the tests of this run installed

runnerVars == <<kind, round, queue, at, out, logdir, summary, rows, seen, cause, newest, product, installs>>
tree       == <<logdir, summary>>
trees      == <<newest, product, installs>>

\* list_tests, in any order; the tests of a framework do not depend on each other but as modelled here.
Tests == CASE kind = "unit"    -> {"check", "syntax-check"}
           [] kind = "api"     -> {"conf"}
           [] kind = "install" -> {"guest", "latest", "matrix"}
           [] OTHER            -> DOMAIN Dots

Word == {"PASS", "FAIL"}
Stop == {"success", "failure", "timeout"}

\* A log of test-API: heads and tails of steps, lines that begin with the time, in such pieces.
Head0     == [is |-> "head"]
Tail0(w)  == [is |-> "tail", word |-> w]
At(t)     == [is |-> "time", t |-> t]
Piece == {<<Head0>>, <<At(1)>>, <<Tail0("FAIL")>>, <<Head0, Tail0("PASS")>>,
          <<Head0, At(0), At(1), Tail0("PASS")>>, <<Head0, At(1), At(0), Tail0("FAIL")>>}
Text  == IF kind = "api" THEN {FlattenSeq(x) : x \in SeqOf(Piece, MaxPieces)}
         ELSE {<<Head0, At(0), Tail0("PASS")>>}

NoFile == [log |-> 0, trs |-> 0, word |-> "PASS"]
Quiet  == [stop |-> "success", words |-> <<>>, logged |-> TRUE, text |-> <<>>]
Took   == Day   \* what every test takes

TypeOK ==
    /\ kind \in Kind /\ round \in 1..MaxRuns /\ queue \in Seq(Tests)
    /\ at \in {"start", "prepare", "run", "parse", "report", "ended"}
    /\ logdir \in [Sub -> [log : 0..MaxRuns, trs : 0..MaxRuns, word : Word \cup {"XFAIL"}]]
    /\ DOMAIN rows \subseteq Tests /\ summary \in BOOLEAN
    /\ newest \in 1..MaxMinor /\ product \in 0..MaxMinor

---------------------------------------------------------------------------
(* What the runners make of an output.  A step that raises has no result.  *)

\* The word of a result: the one of the lines that counts, or what stands for none.
InTime(o, word) == IF o.stop = "timeout" THEN "TIMEOUT" ELSE word
LastOr(none, o) == InTime(o, IF o.words = <<>> THEN none ELSE Last(o.words))

ApiStatus(o)      == LastOr("INVALID", o)
VirtinstStatus(o) == LastOr("ERROR", o)
TckStatus(o)      == LastOr("ERROR", o)
CimStatus(o)      == InTime(o, IF o.words = <<>> THEN "INVALID" ELSE Head(o.words))
UnitStatus(o)     == InTime(o, IF o.stop = "success" THEN "PASS" ELSE "FAIL")

Status(o) == CASE kind = "unit"               -> UnitStatus(o)
               [] kind \in {"api", "install"} -> ApiStatus(o)
               [] kind = "virtinst"           -> VirtinstStatus(o)
               [] kind = "cim"                -> CimStatus(o)
               [] kind = "tck"                -> TckStatus(o)

\* The log file is named on a line of the output, or is there, or parse_result raises.
ParseFails(o) == kind \in {"api", "install", "virtinst", "cim"} /\ ~o.logged

\* The name of a test is split at its dots.
RunFails(t)    == kind = "cim" /\ Dots[t] # 1
UpdateFails(t) == kind \in {"virtinst", "tck"} /\ Dots[t] = 0

\* TestApiRunner.update_report over the lines of a log: the steps that ended, or an exception
\* when a time or a tail comes without a head.
Step0 == [headed |-> FALSE, from |-> -1, to |-> -1]
Time(x) == IF x = -1 THEN 0 ELSE x

ReadLine(acc, l) ==
    LET s == acc.step IN
    CASE acc.raised -> acc
      [] l.is = "head" -> [acc EXCEPT !.step = [headed |-> TRUE, from |-> -1, to |-> -1]]
      [] ~s.headed -> [acc EXCEPT !.raised = TRUE]
      [] l.is = "time" -> [acc EXCEPT !.step = [s EXCEPT !.from = IF @ = -1 THEN l.t ELSE @, !.to = l.t]]
      [] l.is = "tail" ->
           LET d == (Time(s.to) - Time(s.from)) % Day
           IN [acc EXCEPT !.steps = Append(@, [word |-> l.word, took |-> d]), !.step = Step0]

ReadLog(text) == FoldLeft(ReadLine, [steps |-> <<>>, step |-> Step0, raised |-> FALSE], text)

---------------------------------------------------------------------------
(* update_report: the results of a test, each with its share of the time   *)
(* (time / share), and whether it raises on the way.                       *)

Result(n, w, of, t, share) == [name |-> n, word |-> w, of |-> of, time |-> t, share |-> share]

\* Of libvirt-test-API: one result for each step that ended.
ApiResults(text, took) ==
    LET st == ReadLog(text).steps  n == Len(st)
        logged == FoldLeft(LAMBDA a, x : a + x.took, 0, st)
    IN {Result(i, st[i].word, round, took - logged + n * st[i].took, n) : i \in DOMAIN st}

\* Of make check: what tests/ holds of logs, whoever wrote them; test-suite.log is no test.  A
\* .log without .trs raises, as does a word the report does not know, wherever the list has it.
Logs   == {s \in Sub : logdir[s].log # 0}
Files  == Cardinality(Logs) + (IF summary THEN 1 ELSE 0)
Unread == {s \in Logs : logdir[s].trs = 0 \/ logdir[s].word = "XFAIL"}

Outcome(res, raises) == [res |-> res, raises |-> raises]
One(t, status, took) == {Result(t, status, round, took, 1)}

\* (Mutant: the time is divided among all the files.)
BugLogResults(took) ==
    LET res(S) == {Result(s, logdir[s].word, logdir[s].trs, took, Files) : s \in S}
    IN IF Unread = {} THEN {Outcome(res(Logs), "no")}
       ELSE {Outcome(res(S), "unread") : S \in SUBSET (Logs \ Unread)}

LogResults(took) ==
    LET res(S) == {Result(s, logdir[s].word, logdir[s].trs, took, Files - 1) : s \in S}
    IN IF Unread = {} THEN {Outcome(res(Logs), "no")}
       ELSE {Outcome(res(S), "unread") : S \in SUBSET (Logs \ Unread)}

\* (Mutant: no log is no result.)
BugUnitUpdate(t, status, took) ==
    IF t # "check"   THEN {Outcome(One(t, status, took), "no")}
    ELSE IF Files = 0 THEN {Outcome({}, "no")}
    ELSE IF Files = 1 THEN {Outcome({}, "division")}
    ELSE LogResults(took)

UnitUpdate(t, status, took) ==
    IF t # "check" THEN {Outcome(One(t, status, took), "no")}
    ELSE IF Files = 0
      THEN {Outcome(IF status = "FAIL" THEN One("tests_compile", status, took) ELSE {}, "no")}
    ELSE IF Files = 1 THEN {Outcome({}, "division")}
    ELSE LogResults(took)

Update(t, status, text, took) ==
    CASE kind = "unit" -> UnitUpdate(t, status, took)
      [] kind \in {"api", "install"} ->
           {IF ReadLog(text).raised THEN Outcome({}, "log") ELSE Outcome(ApiResults(text, took), "no")}
      [] OTHER -> {IF UpdateFails(t) THEN Outcome({}, "name") ELSE Outcome(One(t, status, took), "no")}

---------------------------------------------------------------------------
Init ==
    /\ kind \in Kind /\ round = 1 /\ queue = <<>> /\ at = "start" /\ out = Quiet
    /\ logdir = [s \in Sub |-> NoFile] /\ summary = FALSE
    /\ rows = <<>> /\ seen = <<>> /\ cause = "no"
    /\ newest = 1 /\ product = 0 /\ installs = {}

Ends(why) == at' = "ended" /\ cause' = why

\* prepare_tests: update_report says SKIP of what the blacklist names, outside the try of run().
PrepareTests ==
    /\ at = "start"
    /\ \E b \in SUBSET Tests : \E f \in [b -> UNION {Update(t, "SKIP", <<>>, 0) : t \in b}] :
         /\ \A t \in b : f[t] \in Update(t, "SKIP", <<>>, 0)
         /\ rows' = [t \in b |-> f[t].res]
         /\ queue' \in SetToSeqs(Tests \ b)
         /\ IF \E t \in b : f[t].raises # "no" THEN Ends("blacklist")
            ELSE IF b = Tests THEN Ends("no tests")
            ELSE at' = "prepare" /\ cause' = "no"
    /\ UNCHANGED <<kind, round, out, tree, seen, trees>>

\* prepare_test of the installation tests: product data are fetched once and kept in the
\* environment; the template of the guest's product gets the tree of its newest minor.
\* (Mutant: they are fetched for each test.)
BugPrepareInstall(t) ==
    /\ product' = newest
    /\ installs' = IF t = "guest" THEN installs ELSE installs \cup {product'}
    /\ UNCHANGED newest

PrepareInstall(t) ==
    /\ product' = IF product = 0 THEN newest ELSE product
    /\ installs' = IF t = "guest" THEN installs ELSE installs \cup {product'}
    /\ UNCHANGED newest

\* A placeholder of the template that has no parameter raises.
PrepareTest ==
    /\ at = "prepare" /\ queue # <<>>
    /\ IF kind = "install" THEN PrepareInstall(Head(queue)) ELSE UNCHANGED trees
    /\ \/ at' = "run" /\ UNCHANGED cause
       \/ kind \in {"api", "install"} /\ Ends("template")
    /\ UNCHANGED <<kind, round, queue, out, tree, rows, seen>>

\* make check: it may stop before the tests, else it removes their logs, and runs them one after
\* the other until it is killed; test-suite.log comes last.
MakeCheck ==
    \/ /\ \E stop \in {"failure", "timeout"} : out' = [Quiet EXCEPT !.stop = stop]
       /\ UNCHANGED tree
    \/ \E done \in SUBSET Sub : \E word \in [done -> Word \cup {"XFAIL"}], open \in SUBSET (Sub \ done) :
         /\ Cardinality(open) <= 1 /\ done = Sub => open = {}
         /\ logdir' = [s \in Sub |-> [log |-> IF s \in done \cup open THEN round ELSE 0,
                                    trs |-> IF s \in done THEN round ELSE 0,
                                    word |-> IF s \in done THEN word[s] ELSE "PASS"]]
         /\ summary' = (done = Sub)
         /\ out' = [Quiet EXCEPT !.stop = IF done # Sub THEN "timeout"
                                         ELSE IF \E s \in Sub : word[s] = "FAIL" THEN "failure"
                                         ELSE "success"]

\* run_test.
RunTest ==
    /\ at = "run"
    /\ IF RunFails(Head(queue)) THEN Ends("name") /\ UNCHANGED <<out, tree>>
       ELSE /\ at' = "parse" /\ UNCHANGED cause
            /\ IF kind = "unit" /\ Head(queue) = "check" THEN MakeCheck
               ELSE IF kind = "unit"
                 THEN UNCHANGED tree /\ \E stop \in Stop : out' = [Quiet EXCEPT !.stop = stop]
               ELSE /\ UNCHANGED tree
                    /\ \E stop \in Stop, words \in SeqOf(Word, IF kind \in {"virtinst", "cim"} THEN 2 ELSE 1),
                          logged \in BOOLEAN :
                       \E text \in IF logged THEN Text ELSE {<<>>} :
                         out' = [stop |-> stop, words |-> words, logged |-> logged, text |-> text]
    /\ UNCHANGED <<kind, round, queue, rows, seen, trees>>

ParseResult ==
    /\ at = "parse"
    /\ IF ParseFails(out) THEN Ends("log file") ELSE at' = "report" /\ UNCHANGED cause
    /\ UNCHANGED <<kind, round, queue, out, tree, rows, seen, trees>>

\* update_report; what it was told is remembered.
UpdateReport ==
    /\ at = "report"
    /\ LET t == Head(queue) IN
       \E u \in Update(t, Status(out), out.text, Took) :
         /\ rows' = (t :> u.res) @@ rows
         /\ seen' = (t :> [status |-> Status(out), whole |-> out.stop # "timeout",
                           steps |-> ReadLog(out.text).steps,
                           fresh |-> \A s \in Logs : logdir[s].log = round]) @@ seen
         /\ IF u.raises # "no" THEN Ends(u.raises) ELSE at' = "prepare" /\ UNCHANGED cause
    /\ queue' = Tail(queue) /\ out' = Quiet
    /\ UNCHANGED <<kind, round, tree, trees>>

Finish ==
    /\ at = "prepare" /\ queue = <<>>
    /\ Ends("done")
    /\ UNCHANGED <<kind, round, queue, out, tree, rows, seen, trees>>

\* The next run on this host is another process; of what is left only tests/ is read again.
NextRun ==
    /\ kind = "unit" /\ at = "ended" /\ round < MaxRuns
    /\ round' = round + 1 /\ at' = "start" /\ cause' = "no" /\ queue' = <<>> /\ out' = Quiet
    /\ rows' = <<>> /\ seen' = <<>> /\ product' = 0 /\ installs' = {}
    /\ UNCHANGED <<kind, tree, newest>>

NewMinor ==
    /\ kind = "install" /\ newest < MaxMinor
    /\ newest' = newest + 1
    /\ UNCHANGED <<kind, round, queue, at, out, tree, rows, seen, cause, product, installs>>

Next == PrepareTests \/ PrepareTest \/ RunTest \/ ParseResult \/ UpdateReport \/ Finish \/ NextRun \/ NewMinor

Spec == Init /\ [][Next]_runnerVars

---------------------------------------------------------------------------
Api == kind \in {"api", "install"}

\* A check that came to its end, and found no logs but its own.
Complete(t) == seen[t].whole /\ seen[t].fresh

\* A run that came to its end has a result of every test, skipped or run; but libvirt-test-API has
\* none of a test that was skipped or ended no step, nor has a check without logs that did not fail.
EveryTestIsReported ==
    cause = "done" =>
        \A t \in Tests : \/ rows[t] # {}
                         \/ Api /\ (t \in DOMAIN seen => seen[t].steps = <<>>)
                         \/ t = "check" /\ (t \in DOMAIN seen => seen[t].status # "FAIL")

\* A test that did not pass has a result that says so; but libvirt-test-API reports the steps that
\* ended, and a check that was cut off, or not compiled, the logs that are there.
FailureIsShown ==
    cause \in {"no", "done"} =>
        \A t \in DOMAIN seen :
            \/ seen[t].status = "PASS" \/ \E r \in rows[t] : r.word # "PASS"
            \/ Api /\ \A i \in DOMAIN seen[t].steps : seen[t].steps[i].word = "PASS"
            \/ t = "check" /\ ~Complete(t)

\* The results of a test take as long together as the test did, also past midnight, with the same
\* exception for checks.
TimesAddUp ==
    cause \in {"no", "done"} =>
        \A t \in DOMAIN seen :
            \/ rows[t] = {} \/ (t = "check" /\ ~Complete(t))
            \/ LET share == (CHOOSE r \in rows[t] : TRUE).share
               IN share > 0 /\ FoldSet(LAMBDA r, a : a + r.time, 0, rows[t]) = Took * share

\* The guests that one run installs are of the same product data, whatever is released meanwhile.
OneTree == Cardinality(installs) <= 1
=============================================================================
