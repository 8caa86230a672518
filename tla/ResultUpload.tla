----------------------------- MODULE ResultUpload -----------------------------
(***************************************************************************)
(* How a xunit report becomes a test run of metadash, and where the run    *)
(* goes from there: process_xml (plugin test-results) creates the run,     *)
(* adds its results and finishes it in three transactions; the hooks that  *)
(* run inside the last one mail its verdict (ci-notification) and submit   *)
(* its results to Polarion (polarion-matrix), whose answer comes back as a *)
(* message.  Uploads run at the same time in several web workers, beside   *)
(* users who finish or submit a run by hand; a worker may die at any step. *)
(*                                                                         *)
(* Of the database the unique columns matter (TestRun.ref_url,             *)
(* TestCase.name, TestResult.ref_url), and that a session whose flush      *)
(* failed refuses everything until it is rolled back.                      *)
(***************************************************************************)
EXTENDS Naturals, Sequences, SequencesExt

CONSTANTS
    Worker,   \* web workers (threads or processes)
    Xunit,    \* the reports
    Due,      \* due dates of the product's plans
    MaxCalls, MaxDeaths, MaxFaults   \* bounds: requests, deaths, services that fail

\* A report is the ref_url of its run, the suites with their cases, and what the hooks look at:
\* built: it names its Jenkins build; matrix and typed: its job and its test type are submitted;
\* brew: it names a brew task; date: when it began.  A case may have a failure or error message,
\* a skip message and output; link is the page its name leads to (two names may share one) and
\* item its work item, or "none".
ResultUploadAssumption ==
    /\ \A r \in Xunit :
         /\ {r.built, r.matrix, r.typed, r.brew} \subseteq BOOLEAN /\ r.date \in Nat
         /\ \A i \in DOMAIN r.suites : \A j \in DOMAIN r.suites[i].cases :
              DOMAIN r.suites[i].cases[j] = {"name", "link", "fail", "skip", "out", "item"}
    /\ Due \subseteq Nat /\ {MaxCalls, MaxDeaths, MaxFaults} \subseteq Nat

VARIABLES
    testrun,  \* committed test runs by ref_url: state, report, results
    status,   \* their polarion-matrix-submit-status: its rows, usually one
    published,     \* ci-notification-published of the run: a row or none
    testcase, \* committed names of test cases
    request,  \* what each worker is doing
    outbox,   \* by ref_url: verdicts mailed, contents submitted, answers on the way or lost
    raced,    \* runs whose answer came before its submission was saved
    spent     \* numbers of calls, deaths and faults

resultVars == <<testrun, status, published, testcase, request, outbox, raced, spent>>
sent       == <<outbox, raced>>
database   == <<testrun, status, published, testcase>>

Url    == {r.url : r \in Xunit}
NoRun  == [state |-> "none", rows |-> {}]
Known  == {u \in Url : testrun[u].state # "none"}
Idle   == [at |-> "idle"]
Busy(u) == {w \in Worker : request[w].at # "idle" /\ request[w].url = u}

---------------------------------------------------------------------------
(* The report *)

\* Report.loads: a suite replaces an earlier one of its name, in its place.
Loaded(r) ==
    LET s == r.suites
        first == SetToSortSeq({i \in DOMAIN s : \A j \in 1..(i - 1) : s[j].name # s[i].name}, <)
        last(n) == CHOOSE i \in DOMAIN s : s[i].name = n /\ \A j \in DOMAIN s : s[j].name = n => j <= i
    IN FlattenSeq([k \in DOMAIN first |-> s[last(s[first[k]].name)].cases])

\* A case with no message and no output makes loads() raise.
Loads(r) == \A i \in DOMAIN r.suites : \A j \in DOMAIN r.suites[i].cases :
                LET c == r.suites[i].cases[j] IN c.fail \/ c.skip \/ c.out

\* TestSuite.create_testcase, then process_xml.
Verdict(c) == IF c.fail THEN "FAILED" ELSE IF c.skip THEN "SKIPPED" ELSE "PASSED"

Row(r, c) == [name |-> c.name, result |-> Verdict(c), item |-> c.item,
              link |-> IF r.built THEN c.link ELSE "none"]

\* What the run of a report should hold: the first case of each name.
Whole(r) == LET l == Loaded(r)
            IN {Row(r, l[i]) : i \in {i \in DOMAIN l : \A j \in 1..(i - 1) : l[j].name # l[i].name}}

---------------------------------------------------------------------------
(* What leaves: the mail and the submission *)

Some(rows, v) == \E x \in rows : x.result = v

\* publish_notification.
MailVerdict(rows) == IF Some(rows, "FAILED") THEN "FAILED"
                     ELSE IF Some(rows, "PASSED") THEN "PASSED" ELSE "none"

\* get_nearest_plan: raises if no plan is due later.
Plans(r)     == {d \in Due : r.date < d}
Plan(r)      == CHOOSE d \in Plans(r) : \A e \in Plans(r) : d <= e
WorkItems(rows) == {x \in rows : x.result # "SKIPPED"}

\* gen_polarion_testrun, which its callers do not guard.
Generates(r) == Plans(r) # {}

\* submit_testrun gives up before the request.
Unfit(r, rows) == ~r.typed \/ \E x \in WorkItems(rows) : x.item = "none"

\* The status of a run that was not submitted, and of one that was.  (Mutant: submit() says
\* nothing of a request that was refused.)
BugRefused == "Waiting"
Refused    == "Failed"
Posted     == "Waiting"

\* A test case as its xml shows it.
Record(x) == [item |-> x.item, name |-> x.name, failed |-> x.result = "FAILED"]

\* (Mutant: skipped cases are submitted, as passed ones.)
BugContent(r, rows) == [plan |-> Plan(r), cases |-> {Record(x) : x \in rows}]

\* TestRunRecord.add_testcase.
Content(r, rows) == [plan |-> Plan(r), cases |-> {Record(x) : x \in WorkItems(rows)}]

---------------------------------------------------------------------------
TypeOK ==
    /\ \A u \in Url :
         /\ testrun[u].state \in {"none", "RUNNING", "FINISHED"}
         /\ status[u] \in Seq({"Waiting", "Failed", "success", "failed"})
         /\ published[u] \in {"none", "true", "failed"}
         /\ outbox[u].mails \subseteq {"PASSED", "FAILED"}
    /\ \A w \in Worker : request[w].at \in {"idle", "create", "cases", "finish", "hooks",
                                         "submit", "save"}
    /\ raced \subseteq Url

Init ==
    /\ testrun = [u \in Url |-> NoRun] /\ status = [u \in Url |-> <<>>]
    /\ published = [u \in Url |-> "none"] /\ testcase = {}
    /\ request = [w \in Worker |-> Idle]
    /\ outbox = [u \in Url |-> [mails |-> {}, posts |-> {}, coming |-> {}, lost |-> {}]]
    /\ raced = {} /\ spent = [calls |-> 0, deaths |-> 0, faults |-> 0]

Fails  == spent.faults < MaxFaults /\ spent' = [spent EXCEPT !.faults = @ + 1]
Begin(w, c) ==
    /\ request[w].at = "idle" /\ spent.calls < MaxCalls
    /\ spent' = [spent EXCEPT !.calls = @ + 1]
    /\ request' = [request EXCEPT ![w] = c @@ [id |-> spent.calls]]
Go(w, c) == request' = [request EXCEPT ![w] = c @@ @]
\* The request ends, its session is rolled back.
Abort(w) == request' = [request EXCEPT ![w] = Idle]

---------------------------------------------------------------------------
(* process_xml *)

Upload(w, r) ==
    /\ Loads(r)
    /\ Begin(w, [at |-> "create", url |-> r.url, report |-> r])
    /\ UNCHANGED <<database, sent>>

\* The run is committed as RUNNING, unless its ref_url exists already.
CreateRun(w) ==
    LET c == request[w] IN
    /\ c.at = "create"
    /\ IF c.url \in Known
         THEN Abort(w) /\ UNCHANGED testrun
         ELSE /\ testrun' = [testrun EXCEPT ![c.url] =
                                [state |-> "RUNNING", rows |-> {}, report |-> c.report]]
              /\ Go(w, [at |-> "cases", todo |-> Loaded(c.report), seen |-> {}, broken |-> FALSE,
                        flushed |-> {}, pending |-> {}, created |-> {}, fresh |-> {}])
    /\ UNCHANGED <<status, published, testcase, sent, spent>>

\* Flushing the pending rows of w: fresh is the name of a new test case among them.  A name that
\* another open transaction holds is waited for, which may end in a deadlock or a timeout.
Clash(w) == LET c == request[w] IN
    \/ c.fresh \cap testcase # {}
    \/ \E x \in c.pending, y \in c.flushed : x.link = y.link /\ x.link # "none"
Held(w)  == \E v \in Worker \ {w} : request[v].at = "cases" /\ request[v].created \cap request[w].fresh # {}
FlushOK(w)    == ~Clash(w) /\ ~Held(w)
FlushFails(w) == Clash(w) \/ Held(w)

Flushed(c) == [c EXCEPT !.flushed = @ \cup c.pending, !.created = @ \cup c.fresh,
                        !.pending = {}, !.fresh = {}]

\* (Mutant: a failed flush is rolled back and the upload goes on with what is left.)
BugAddCase(w) ==
    LET c == request[w] IN
    /\ c.at = "cases" /\ c.todo # <<>>
    /\ LET x    == Head(c.todo)
           done == [c EXCEPT !.todo = Tail(@), !.seen = @ \cup {x.name}]
           add  == [Flushed(done) EXCEPT !.pending = {Row(c.report, x)},
                                         !.fresh = {x.name} \ (testcase \cup c.created)]
       IN IF x.name \in c.seen \/ c.broken
            THEN Go(w, done)
            ELSE \/ FlushOK(w) /\ Go(w, add)
                 \/ FlushFails(w) /\ Go(w, [done EXCEPT !.pending = {}, !.fresh = {}])
    /\ UNCHANGED <<database, sent, spent>>

\* One case: get_or_create flushes what is pending and looks the test case up.  A failure is
\* logged, and from then on the session refuses everything.
AddCase(w) ==
    LET c == request[w] IN
    /\ c.at = "cases" /\ c.todo # <<>>
    /\ LET x    == Head(c.todo)
           done == [c EXCEPT !.todo = Tail(@), !.seen = @ \cup {x.name}]
           add  == [Flushed(done) EXCEPT !.pending = {Row(c.report, x)},
                                         !.fresh = {x.name} \ (testcase \cup c.created \cup c.fresh)]
       IN IF x.name \in c.seen \/ c.broken
            THEN Go(w, done)
            ELSE \/ FlushOK(w) /\ Go(w, add)
                 \/ FlushFails(w) /\ Go(w, [done EXCEPT !.broken = TRUE])
    /\ UNCHANGED <<database, sent, spent>>

CommitCases(w) ==
    LET c == request[w] IN
    /\ c.at = "cases" /\ c.todo = <<>>
    /\ \/ /\ c.broken \/ FlushFails(w)
          /\ Abort(w) /\ UNCHANGED <<testrun, testcase>>
       \/ /\ ~c.broken /\ FlushOK(w)
          /\ testrun' = [testrun EXCEPT ![c.url].rows = Flushed(c).flushed]
          /\ testcase' = testcase \cup Flushed(c).created
          /\ Go(w, [at |-> "finish"])
    /\ UNCHANGED <<status, published, sent, spent>>

---------------------------------------------------------------------------
(* Finishing a run: by process_xml, or by TestRunDetail.put *)

PutRun(w, u) ==
    /\ u \in Known
    /\ Begin(w, [at |-> "finish", url |-> u])
    /\ UNCHANGED <<database, sent>>

\* The flush updates the row, which locks it, and runs the hooks in the order the plugins load.
FinishRun(w) ==
    LET c == request[w] IN
    /\ c.at = "finish"
    /\ \A v \in Busy(c.url) : request[v].at # "hooks"
    /\ Go(w, [at |-> "hooks", hooks |-> {"mail", "polarion"}, published |-> published[c.url],
              read |-> status[c.url], value |-> "none"])
    /\ UNCHANGED <<database, sent, spent>>

Ran(w, h, more) == Go(w, more @@ [hooks |-> request[w].hooks \ {h}])

\* send() says whether it reached the server; what sendmail raises goes through the hook.
SendMail(w, u, v) ==
    \/ /\ Ran(w, "mail", [published |-> "true"])
       /\ outbox' = [outbox EXCEPT ![u].mails = @ \cup {v}] /\ UNCHANGED spent
    \/ Fails /\ Ran(w, "mail", [published |-> "failed"]) /\ UNCHANGED outbox
    \/ Fails /\ Abort(w) /\ UNCHANGED outbox

\* publish_notification.
MailHook(w) ==
    LET u == request[w].url  v == MailVerdict(testrun[u].rows) IN
    /\ request[w].at = "hooks" /\ "mail" \in request[w].hooks
    /\ IF published[u] # "none" \/ ~testrun[u].report.brew \/ v = "none"
         THEN Ran(w, "mail", <<>>) /\ UNCHANGED <<outbox, spent>>
         ELSE SendMail(w, u, v)
    /\ UNCHANGED <<database, raced>>

\* TestRunRecord.submit: Polarion will answer.
Post(c, content) == outbox' = [outbox EXCEPT ![c.url].posts = @ \cup {content},
                                             ![c.url].coming = @ \cup {c.id}]

\* submit_testrun from the hook: only for a run without a status.
PolarionHook(w) ==
    LET c == request[w]  r == testrun[c.url].report  rows == testrun[c.url].rows IN
    /\ c.at = "hooks" /\ "polarion" \in c.hooks
    /\ IF ~r.matrix \/ c.read # <<>>
         THEN Ran(w, "polarion", <<>>) /\ UNCHANGED <<outbox, spent>>
       ELSE IF ~Generates(r)
         THEN Abort(w) /\ UNCHANGED <<outbox, spent>>
       ELSE IF Unfit(r, rows)
         THEN Ran(w, "polarion", [value |-> "Failed"]) /\ UNCHANGED <<outbox, spent>>
       ELSE \/ Fails /\ Ran(w, "polarion", [value |-> Refused]) /\ UNCHANGED outbox
            \/ Post(c, Content(r, rows)) /\ Ran(w, "polarion", [value |-> Posted]) /\ UNCHANGED spent
    /\ UNCHANGED <<database, raced>>

\* properties[key] = value in a session that has loaded the rows old: no row makes a new one, one
\* is changed in place if it differs, and with two the value is set on a list and lost.
Assign(rows, old, value) ==
    CASE Len(old) = 0                    -> Append(rows, value)
      [] Len(old) = 1 /\ old[1] # value  -> [rows EXCEPT ![1] = value]
      [] OTHER                           -> rows

\* (Mutant: what the hook set during the flush is not written.)
BugCommitFinish(w) ==
    LET c == request[w] IN
    /\ c.at = "hooks" /\ c.hooks = {}
    /\ testrun' = [testrun EXCEPT ![c.url].state = "FINISHED"]
    /\ published' = [published EXCEPT ![c.url] = c.published]
    /\ Abort(w)
    /\ UNCHANGED <<status, testcase, sent, spent>>

CommitFinish(w) ==
    LET c == request[w] IN
    /\ c.at = "hooks" /\ c.hooks = {}
    /\ testrun' = [testrun EXCEPT ![c.url].state = "FINISHED"]
    /\ published' = [published EXCEPT ![c.url] = c.published]
    /\ status' = [status EXCEPT ![c.url] = IF c.value = "none" THEN @ ELSE Assign(@, c.read, c.value)]
    /\ Abort(w)
    /\ UNCHANGED <<testcase, sent, spent>>

---------------------------------------------------------------------------
(* A user submits the run again, and Polarion answers *)

SubmitRun(w, u) ==
    /\ u \in Known /\ Generates(testrun[u].report)
    /\ Begin(w, [at |-> "submit", url |-> u, read |-> status[u], value |-> "none"])
    /\ UNCHANGED <<database, sent>>

PostRun(w) ==
    LET c == request[w]  r == testrun[c.url].report  rows == testrun[c.url].rows IN
    /\ c.at = "submit"
    /\ \/ /\ Unfit(r, rows)
          /\ Go(w, [at |-> "save", value |-> "Failed"]) /\ UNCHANGED <<outbox, spent>>
       \/ ~Unfit(r, rows) /\ Fails /\ Go(w, [at |-> "save", value |-> Refused]) /\ UNCHANGED outbox
       \/ /\ ~Unfit(r, rows)
          /\ Post(c, Content(r, rows)) /\ Go(w, [at |-> "save", value |-> Posted]) /\ UNCHANGED spent
    /\ UNCHANGED <<database, raced>>

SaveStatus(w) ==
    LET c == request[w] IN
    /\ c.at = "save"
    /\ status' = [status EXCEPT ![c.url] = Assign(@, c.read, c.value)]
    /\ Abort(w)
    /\ UNCHANGED <<testrun, published, testcase, sent, spent>>

\* on_message.  An answer that comes while its submission is not saved yet is a race.
OnMessage(u, id) ==
    /\ id \in outbox[u].coming
    /\ \E answer \in {"success", "failed"} :
         status' = [status EXCEPT ![u] = Assign(@, @, answer)]
    /\ outbox' = [outbox EXCEPT ![u].coming = @ \ {id}]
    /\ raced' = IF \E w \in Busy(u) : request[w].id = id THEN raced \cup {u} ELSE raced
    /\ UNCHANGED <<testrun, published, testcase, request, spent>>

\* The message was acknowledged when it came; the handler dies, or there is none.
LoseMessage(u, id) ==
    /\ id \in outbox[u].coming /\ Fails
    /\ outbox' = [outbox EXCEPT ![u].coming = @ \ {id}, ![u].lost = @ \cup {id}]
    /\ UNCHANGED <<database, request, raced>>

\* The worker dies; the database rolls its transaction back.
Die(w) ==
    /\ request[w].at # "idle" /\ spent.deaths < MaxDeaths
    /\ Abort(w)
    /\ spent' = [spent EXCEPT !.deaths = @ + 1]
    /\ UNCHANGED <<database, sent>>

Next ==
    \/ \E w \in Worker, r \in Xunit : Upload(w, r)
    \/ \E w \in Worker, u \in Url : PutRun(w, u) \/ SubmitRun(w, u)
    \/ \E w \in Worker : \/ CreateRun(w) \/ AddCase(w) \/ CommitCases(w)
                         \/ FinishRun(w) \/ MailHook(w) \/ PolarionHook(w) \/ CommitFinish(w)
                         \/ PostRun(w) \/ SaveStatus(w) \/ Die(w)
    \/ \E u \in Url, id \in 0..MaxCalls : OnMessage(u, id) \/ LoseMessage(u, id)

Spec == Init /\ [][Next]_resultVars

---------------------------------------------------------------------------
\* A run holds all the results of its report, the first of each name, or none: a race for a
\* new test case, two cases of one page or a death lose the upload as a whole.
AllOrNothing == \A u \in Known : testrun[u].rows \in {{}, Whole(testrun[u].report)}

\* What is mailed and submitted is what the report says, never a part of it: failures as
\* failures, nothing that was skipped, under the next plan.  (A user may submit a run that
\* has no results yet.)
SentAsReported ==
    \A u \in Known :
        LET r == testrun[u].report IN
        /\ outbox[u].mails \subseteq {MailVerdict(Whole(r))}
        /\ \A p \in outbox[u].posts :
             /\ r.date < p.plan
             /\ p.cases = {} \/ /\ {c.name : c \in p.cases} =
                                     {x.name : x \in {x \in Whole(r) : x.result # "SKIPPED"}}
                                /\ {c.name : c \in {c \in p.cases : c.failed}} =
                                     {x.name : x \in {x \in Whole(r) : x.result = "FAILED"}}

\* A finished matrix run is known to have been submitted or to have failed to be, so that no
\* later update of the run submits it again.
FinishedIsSubmitted ==
    \A u \in Known : testrun[u].state = "FINISHED" /\ testrun[u].report.matrix => status[u] # <<>>

\* A run that waits for feedback will get it, unless the message was lost or the answer
\* overtook the request that saves the status.
WaitsForAnAnswer ==
    \A u \in Known \ raced :
        status[u] = <<"Waiting">> /\ Busy(u) = {} =>
            outbox[u].coming \cup outbox[u].lost # {}
=============================================================================
