------------------------------ MODULE MCSafety ------------------------------
(***************************************************************************)
(* The components checked for what they must never do, side by side: a     *)
(* behaviour belongs to one of them, named by `part`, and the others stay  *)
(* where they start. `users` and `unlock` are two instances of one         *)
(* component, `serials`, `again` and `rollback` of another, as are `admin` *)
(* and `console`, `links` and `linked`, `sizes` and `counts`, `bugs` and   *)
(* `arches`, `setup` and `slave`.                                          *)
(***************************************************************************)
EXTENDS CardAccounts, FiniteSets, TLC

CONSTANTS o1, o2, c1, c2, w1, w2, s1, s2, n1, n2, pr1, pr12, fix, chg, u1, u2,
          u3, h1, h2, j1, j2, t1, t2, t3, t4, virsh, dump, list, vol, rep1,
          rep2, noonly, new1, new2, mvm, xvm, vvm

(* The constants of the pool of connections and of the service that uses it, of the
   balancing, of the files that salt copies and of local users: on a cluster where
   calls meet, and on one (Solo) that may have a single console; and those of the jobs
   that report to the dashboard, to ResultsDB and to Jira. *)
CONSTANTS
    Worker, MaxConn, MaxPool, PoolMin, PoolMax, ParMax, Patience,
    Slot, MaxExist, TestFrom, MaxFailed, NoSlot,
    Erasure, Replicated, Nodes, Parts, FailureDomain, Strict, MinDisks, MaxDisks, Version,
    MaxChange,
    Hosts, Consoles, Solo, SoloConsoles, Unpacks, MaxLines, SoloLines,
    LoginName, GroupName, Default, System, Domain, Password, MaxAdmin, MaxSolo,
    UploadCase, Forced, Dated, Submit, MaxUploads,
    ReportJob, ResultCase, ResultTag, MaxGroupings,
    Message, Passed, Threshold, MaxReports, People

(* The name of one branch is part of another. *)
Branches == {"master", "rhel", "patch_pr1", "patch_pr12", "patch_fix", "patch_chg"}
BranchOf == [i \in {pr1, pr12, fix, chg} |->
                CASE i = pr1 -> "patch_pr1"  [] i = pr12 -> "patch_pr12"
                  [] i = fix -> "patch_fix"  [] i = chg  -> "patch_chg"]
Inside   == [b \in Branches |-> IF b = "patch_pr12" THEN {b, "patch_pr1"} ELSE {b}]

(* Six tests, of which new1 and new2 come with a change; patterns, slices, a blacklist. *)
Matched  == [p \in {virsh, dump, list, vol} |->
                CASE p = virsh -> {t1, t2, t3, new1} [] p = dump -> {t1, t2, new1}
                  [] p = list  -> {t2, t3}           [] p = vol  -> {t4, new2}]
Added    == [r \in {rep1, rep2} |-> IF r = rep1 THEN {new1} ELSE {new2}]
Slices   == [s \in {"a", "b"} |-> IF s = "a" THEN {dump} ELSE {list}]
Black    == {[test |-> {t2, new1}, skip |-> FALSE], [test |-> {t3}, skip |-> TRUE],
             [test |-> {t3, t4}, skip |-> TRUE]}
(* Two builds of a package and one of another one, that brew tags for two products. *)
Builds       == {"a1", "a2", "b1"}
BuildName    == [b \in Builds |-> IF b = "b1" THEN "b" ELSE "a"]
BuildVersion == [b \in Builds |->
                    CASE b = "a1" -> <<3, 9>> [] b = "a2" -> <<3, 10>> [] b = "b1" -> <<2>>]
FirstBuilds  == [p \in {"p", "q"} |-> IF p = "p" THEN {"a1", "b1"} ELSE {"b1"}]
LateBuilds   == [p \in {"p", "q"} |-> IF p = "p" THEN {"a2"} ELSE {}]

(* Two pull requests that add the same case, of which one deletes another. *)
LinkPR   == [i \in {"one", "two"} |-> IF i = "one" THEN "p" ELSE "q"]
LinkAdds == [p \in {"p", "q"} |-> {"c"}]
LinkDels == [p \in {"p", "q"} |-> IF p = "p" THEN {"a"} ELSE {}]
(* Runs: a new image, its network and a clone; listed guests of v2v; kept guests; a function job. *)
PrepRun(u, r, n, e, v) == [url |-> u, retain |-> r, net |-> n, extra |-> e, v2v |-> v]
PrepRuns == {PrepRun(TRUE, FALSE, TRUE, TRUE, "no"), PrepRun(FALSE, FALSE, FALSE, TRUE, "listed"),
             PrepRun(FALSE, TRUE, FALSE, FALSE, "no"), PrepRun(FALSE, FALSE, TRUE, FALSE, "function")}
(* Reports: one as it should be, one by hand of suites of the same name, one whose cases share a page. *)
XunitCase(n, l, f, s, i) == [name |-> n, link |-> l, fail |-> f, skip |-> s, out |-> TRUE, item |-> i]
XunitSuite(n, c) == [name |-> n, cases |-> c]
XunitReports == {
    [url |-> "x1", built |-> TRUE, matrix |-> TRUE, typed |-> TRUE, brew |-> TRUE, date |-> 0,
     suites |-> <<XunitSuite("s", <<XunitCase("a", "l1", FALSE, FALSE, "i"), XunitCase("b", "l2", TRUE, FALSE, "j"),
                                     XunitCase("c", "l3", FALSE, TRUE, "k")>>)>>],
    [url |-> "x2", built |-> FALSE, matrix |-> FALSE, typed |-> TRUE, brew |-> FALSE, date |-> 3,
     suites |-> <<XunitSuite("s", <<XunitCase("c", "l", FALSE, FALSE, "i")>>),
                  XunitSuite("t", <<XunitCase("b", "l", FALSE, FALSE, "i"), XunitCase("b", "l", TRUE, FALSE, "i")>>),
                  XunitSuite("s", <<XunitCase("a", "l", FALSE, FALSE, "none")>>)>>],
    [url |-> "x3", built |-> TRUE, matrix |-> TRUE, typed |-> TRUE, brew |-> FALSE, date |-> 1,
     suites |-> <<XunitSuite("s", <<XunitCase("a", "l1", FALSE, FALSE, "none"), XunitCase("a1", "l1", TRUE, FALSE, "i")>>)>>]}

(* The text of one bug has the number of another. *)
FirstBugs  == [b \in {"a", "b"} |->
                  [status |-> "on_qa", flags |-> IF b = "a" THEN {"f", "g"} ELSE {"f"}, qa |-> "r", rpl |-> b = "a"]]
BugNumbers == [b \in {"a", "b"} |-> IF b = "a" THEN {"a"} ELSE {"a", "b"}]

(* Jobs: those that repeat a build, and those with lines of replacements. *)
SetupStart(env, build, remote, lines) ==
    [args |-> [p \in {"flag", "opt", "report"} |-> IF p = "flag" THEN FALSE ELSE "arg"],
     environ |-> env, build |-> build, remote |-> remote, lines |-> lines]
Values(a, b, c) == [p \in {"flag", "opt", "report"} |-> CASE p = "flag" -> a [] p = "opt" -> b [] p = "report" -> c]
NoValues == Values("", "", "")
Reruns   == {SetupStart(env, build, FALSE, <<>>) :
                env   \in {Values(a, b, "own") : a \in {"", "true", "false"}, b \in {"", "word"}},
                build \in {{}} \cup {{Values(a, b, "other")} : a \in {"", "absent", "true", "false"},
                                  b \in {"", "absent", "hidden", "more", "%(name)s", "word ;more", "lines\n\nof"}}}
Section(S)  == [kind |-> "files", files |-> S]
Pair(a, b)  == [kind |-> "pair", from |-> a, to |-> b]
Replaces == {<<>>, <<Pair("a", "b")>>, <<Section({"f"}), Pair("a", "b"), [kind |-> "junk"]>>, <<Section({})>>,
             <<Section({"f", "g"}), Pair("a", "b"), Section({"g"}), [kind |-> "comment"], Pair("b", "a")>>}
Edits    == {SetupStart(NoValues, {}, r, l) : r \in BOOLEAN, l \in Replaces}

AllOptions ==
    [only : {noonly, {virsh}, {dump, vol}}, no : {{}, {list}},
     slice : {{}, {"a"}, {"other"}, {"b", "other"}}, only_change : BOOLEAN]

VARIABLES
    part,  \* the component that moves; the others stay in an initial state
    st, par, busy, active, made, lock, dict, closed, wpc, wpool, wconn, wchan, mpc,
    goal, mi, intry, held, toadd, normal, sig, extra,
    main, visits, counted, mon, how, cnt, node, count, notmaster, failing, alarms,
    signal,
    disks, weight, changes, task, same, least, holder, progress, reweighs, passed,
    patching, item, requested, result, cache, attempts, data, on, head, loose,
    session, current, files, saved,
    now, bill, booked, statements, ran, missed, read, killed,
    table, clients, looping, stores, fails, locking,
    sn, cached, late, sncall, unread, serials, error, ret, roll, retcode, staged,
    installed,
    suites, history, disk, saving, loaded,
    upload, starts, unposted, run, posted, refused, erring, broken, submitted,
    grouping, begun, described, told, mine, unstored, groups, results,
    report, reports, cases, known, pending, issues, erred,
    planning, params, onlys, nos, branches, stuck, with, without, tests, skips,
    ignores,
    etc, smb, archive, call, answer, alone, deaf, left,
    linked, code, pull, edits, job, undisturbed, lost, runs,
    tagged, sheet, stale, updater, update, crossed,
    clock, recorder, perfTable, hasTable, dbLock, shown, overdue,
    format, text, conf, items, wasread,
    runner, limited, shell, back, wrote, inpipe, queued, expired, calling, collected,
    image, imgcopy, guest, network, mounted, snapshot, prep, mishaps,
    testrun, status, published, testcase, request, outbox, raced, spent,
    kind, round, queue, at, out, logdir, summary, rows, seen, cause, newest, product,
    installs,
    bugs, tracker, sync, upset,
    phase, start, environ, settings, facts, overlaps, contents, section

poolVars == <<st, par, busy, active, made, lock, dict, closed, wpc, wpool, wconn,
              wchan, mpc, goal, mi, intry, held, toadd, normal, sig, extra>>
monitorVars == <<main, visits, counted, mon, how, cnt, node, count, notmaster,
                 failing, alarms, signal>>
balanceVars == <<disks, weight, changes, task, same, least, holder, progress,
                 reweighs, passed>>
repoVars == <<patching, item, requested, result, cache, attempts, data, on, head,
              loose, session, current, files, saved>>
statementVars == <<now, bill, booked, statements, ran, missed, read, killed>>
userVars == <<table, clients, looping, stores, fails, locking>>
fileVars == <<sn, cached, late, sncall, unread, serials, error, ret, roll, retcode,
              staged, installed>>
reportVars == <<suites, history, disk, saving, loaded>>
uploadVars == <<upload, starts, unposted, run, posted, refused, erring, broken,
                submitted>>
groupVars == <<grouping, begun, described, told, mine, unstored, groups, results>>
issueVars == <<report, reports, cases, known, pending, issues, erred>>
planVars == <<planning, params, onlys, nos, branches, stuck, with, without, tests,
              skips, ignores>>
userCallVars == <<etc, smb, archive, call, answer, alone, deaf, left>>
linkVars == <<linked, code, pull, edits, job, undisturbed, lost, runs>>
feedVars == <<tagged, sheet, stale, updater, update, crossed>>
perfVars == <<clock, recorder, perfTable, hasTable, dbLock, shown, overdue>>
configVars == <<format, text, conf, items, wasread>>
commandVars == <<runner, limited, shell, back, wrote, inpipe, queued, expired,
                 calling, collected>>
gvars == <<image, imgcopy, guest, network, mounted, snapshot, prep, mishaps>>
resultVars == <<testrun, status, published, testcase, request, outbox, raced, spent>>
runnerVars == <<kind, round, queue, at, out, logdir, summary, rows, seen, cause,
                newest, product, installs>>
bugVars == <<bugs, tracker, sync, upset>>
setupVars == <<phase, start, environ, settings, facts, overlaps, contents, section>>
unionVars == <<part, vars, poolVars, monitorVars, balanceVars, repoVars, statementVars,
              userVars, fileVars, reportVars, uploadVars, groupVars, issueVars,
              planVars, userCallVars, linkVars, feedVars, perfVars, configVars,
              commandVars, gvars, resultVars, runnerVars, bugVars, setupVars>>

Pool == INSTANCE SshPool WITH
    NoConn <- -1, Main <- "main", Nobody <- "nobody"
Monitor == INSTANCE MonitorService
Balance == INSTANCE CapacityBalance WITH
    Node <- Nodes, Domain <- FailureDomain, Fails <- TRUE, None <- "nobody"
Repos == INSTANCE PatchRepos WITH
    PRs <- {pr1, pr12}, Patches <- {fix}, Changes <- {chg}, Good <- {pr1, pr12, chg},
    Missing <- {}, Branch <- Branches, Start <- "rhel", Master <- "master",
    Clones <- 1, Retries <- 1, Polls <- 1, MayFail <- TRUE
Statements == INSTANCE CardStatements WITH
    StatementDay <- 22, Days <- 30, PayDay <- 10, Rate <- 1, LastDay <- 85,
    MaxRuns <- 2
Users == INSTANCE UserAccounts WITH
    User <- {u1, u2}, Known <- {u1}, Obj <- {o1, o2}, NoUser <- "", MaxTries <- 2,
    MaxCalls <- 2
Unlock == INSTANCE UserAccounts WITH
    User <- {u1, u2}, Known <- {u1, u2}, Obj <- {o1}, NoUser <- "", MaxTries <- 2,
    MaxCalls <- 3
Serials == INSTANCE RemoteFiles WITH
    Host <- Hosts, Console <- Consoles, Node <- Nodes, Copies <- FALSE
Again == INSTANCE RemoteFiles WITH
    Host <- Solo, Console <- SoloConsoles, Node <- Nodes, MaxLines <- SoloLines,
    Copies <- FALSE
Rollback == INSTANCE RemoteFiles WITH
    Host <- Hosts, Console <- {}, Node <- Nodes, Copies <- TRUE
Report == INSTANCE ReportFile WITH
    Suite <- {"s1", "s2"},
    Outcome <- {"PASS", "FAIL", "TIMEOUT", "INVALID", "SKIP", "DIFF", "WARN"},
    FailDiff <- TRUE, MaxCases <- 2
Upload == INSTANCE DashboardUpload WITH
    TestCase <- UploadCase, Force <- Forced, MaxTries <- MaxUploads
Groups == INSTANCE ResultGroups WITH
    Job <- ReportJob, TestCase <- ResultCase, Tag <- ResultTag,
    MaxTries <- MaxGroupings
Issues == INSTANCE IssueReport WITH Job <- ReportJob, MaxRuns <- MaxReports
Plan == INSTANCE TestPlan WITH
    Test <- {t1, t2, t3, t4, new1, new2}, Pattern <- {virsh, dump, list, vol},
    Hits <- Matched, Base <- {t1, t2, t3, t4}, Repo <- {rep1, rep2}, Adds <- Added,
    ChangedOnly <- {dump, vol}, Slice <- Slices, Options <- AllOptions,
    Additional <- 1, MayFail <- TRUE, Blacklist <- Black, NoOnly <- noonly
Admin == INSTANCE ClusterUsers WITH
    Host <- Hosts, Console <- Consoles, User <- LoginName, Group <- GroupName,
    Pw <- Password, Fails <- TRUE, MaxCalls <- MaxAdmin
Single == INSTANCE ClusterUsers WITH
    Host <- Solo, Console <- SoloConsoles, User <- LoginName, Group <- GroupName,
    Pw <- Password, Fails <- TRUE, MaxCalls <- MaxSolo
Links == INSTANCE CaseLinks WITH
    Case <- {"a", "b", "c"}, Job <- {"one", "two"}, PR <- {"p", "q"},
    Desc <- {"d", "e"}, Selected <- {"d"}, PrOf <- LinkPR, Adds <- LinkAdds,
    Dels <- LinkDels, NoPR <- "none", Fails <- TRUE, MaxRuns <- 1, MaxChanges <- 1
Linked == INSTANCE CaseLinks WITH
    Case <- {"a", "b", "c"}, Job <- {"one"}, PR <- {"p", "q"}, Desc <- {"d", "e"},
    Selected <- {"d"}, PrOf <- [i \in {"one"} |-> "p"], Adds <- LinkAdds,
    Dels <- LinkDels, NoPR <- "none", Fails <- TRUE, MaxRuns <- 2, MaxChanges <- 1
Feed == INSTANCE PackageFeed WITH
    Product <- {"p", "q"}, Name <- {"a", "b"}, Build <- Builds, NameOf <- BuildName,
    VersionOf <- BuildVersion, Watched <- {"a", "b"}, First <- FirstBuilds,
    Late <- LateBuilds, Fails <- TRUE
Sizes == INSTANCE PerfRecords WITH
    Item <- {"bw"}, Counts <- {}, Hosts <- 2,
    Told <- [i \in {"bw"} |-> {[n |-> 3, unit |-> "B"], [n |-> 15, unit |-> "KB"]}],
    Kilo <- 4, Hour <- 1, LastTick <- 3, Starts <- {0, 1}
Numbers == INSTANCE PerfRecords WITH
    Item <- {"bw"}, Counts <- {"bw"}, Hosts <- 2,
    Told <- [i \in {"bw"} |-> {[n |-> 2, unit |-> "num"]}], Kilo <- 4, Hour <- 1,
    LastTick <- 3, Starts <- {0, 1}
Config == INSTANCE ConfigFiles WITH
    Formats <- {"apache", "ganesha", "linux"}, Name <- {"a", "b"}, NestLimit <- 2,
    Key <- {"k"}, Val <- {[word |-> "x", hash |-> h] : h \in BOOLEAN},
    MaxText <- [apache |-> 4, ganesha |-> 5, linux |-> 2]
Command == INSTANCE LocalCommand WITH
    Runner <- {"run_local", "run_local_cmd", "function"}, Limited <- BOOLEAN,
    MaxOut <- 2
Guests == INSTANCE GuestPrep WITH
    Main <- mvm, Extra <- {xvm}, V2v <- {vvm}, Options <- PrepRuns, MaxRuns <- 2,
    MaxKills <- 1, MaxFaults <- 1
Results == INSTANCE ResultUpload WITH
    Worker <- {w1, w2}, Xunit <- XunitReports, Due <- {1}, MaxCalls <- 2,
    MaxDeaths <- 1, MaxFaults <- 1
Others == INSTANCE FrameworkRunners WITH
    Kind <- {"unit", "api", "install", "virtinst", "cim", "tck"},
    Dots <- [a |-> 1, b |-> 2, c |-> 0], Sub <- {"s1", "s2"}, Day <- 2,
    MaxPieces <- 3, MaxRuns <- 2, MaxMinor <- 2
Bugs == INSTANCE BugTracking WITH
    Bug <- {"a", "b"}, NumbersIn <- BugNumbers, Flag <- {"f", "g", "h"},
    ParentOf <- [f \in {"f", "g"} |-> f], QA <- {"q", "r"},
    LeadOf <- [q \in {"q", "r"} |-> IF q = "q" THEN "q" ELSE "nobody"],
    Nobody <- "nobody", First <- FirstBugs, Commands <- {"x86"}, MaxRuns <- 2,
    MaxChanges <- 1, MaxFaults <- 1
Arches == INSTANCE BugTracking WITH
    Bug <- {"a", "b"}, NumbersIn <- BugNumbers, Flag <- {"f", "g"},
    ParentOf <- [f \in {"f", "g"} |-> f], QA <- {"q", "r"},
    LeadOf <- [q \in {"q", "r"} |-> IF q = "q" THEN "q" ELSE "nobody"],
    Nobody <- "nobody", First <- FirstBugs, Commands <- {"arch"}, MaxRuns <- 3,
    MaxChanges <- 1, MaxFaults <- 1
Setup == INSTANCE RunSetup WITH
    Job <- {j1}, Flag <- {"flag"}, Text <- {"opt", "report"}, Wiped <- {"report"},
    Starts <- Reruns \cup Edits, File <- {"f", "g"}, Word <- {"a", "b", "v", "w"},
    Own <- <<[files |-> {"f"}, from |-> "v", to |-> "w"]>>
Slave == INSTANCE RunSetup WITH
    Job <- {j1, j2}, Flag <- {"flag"}, Text <- {"opt", "report"}, Wiped <- {"report"},
    Starts <- Edits, File <- {"f", "g"}, Word <- {"a", "b", "v", "w"},
    Own <- <<[files |-> {"f"}, from |-> "v", to |-> "w"]>>

ASSUME SafetyAssumption ==
    /\ Pool!SshPoolAssumption /\ Monitor!MonitorServiceAssumption
    /\ Balance!BalanceAssumption /\ Repos!PatchAssumption
    /\ Statements!StatementAssumption /\ Users!UserAssumption /\ Unlock!UserAssumption
    /\ Serials!RemoteAssumption /\ Again!RemoteAssumption /\ Rollback!RemoteAssumption /\ Report!ReportAssumption
    /\ Upload!DashboardAssumption /\ Groups!GroupsAssumption /\ Issues!IssueAssumption
    /\ Plan!PlanAssumption /\ Admin!ClusterUsersAssumption /\ Single!ClusterUsersAssumption
    /\ Links!CaselinkAssumption /\ Linked!CaselinkAssumption /\ Feed!FeedAssumption
    /\ Sizes!PerfAssumption /\ Numbers!PerfAssumption /\ Config!ConfigAssumption
    /\ Command!CommandAssumption /\ Guests!GuestPrepAssumption
    /\ Results!ResultUploadAssumption /\ Others!RunnersAssumption
    /\ Bugs!BugAssumption /\ Arches!BugAssumption
    /\ Setup!SetupAssumption /\ Slave!SetupAssumption

Part == {"card", "pool", "monitor", "balance", "repos", "statements", "users",
         "unlock", "serials", "again", "rollback", "report", "upload", "groups",
         "issues", "plan", "admin", "console", "links", "linked", "feed", "sizes",
         "counts", "config", "command", "guests", "results", "runners", "bugs",
         "arches", "setup", "slave"}

UnionInit ==
    /\ part \in Part
    /\ Init
    /\ Pool!Init
    /\ Monitor!Init
    /\ Balance!Init
    /\ part # "balance" => disks = [n \in Nodes |-> 1] /\ weight = [n \in Nodes |-> 0]
    /\ Repos!Init
    /\ part # "repos" => cache = "none"
    /\ Statements!Init
    /\ part # "statements" => bill = 30
    /\ IF part = "unlock" THEN Unlock!Init ELSE Users!Init
    /\ IF part = "again" THEN Again!Init ELSE IF part = "rollback" THEN Rollback!Init ELSE Serials!Init
    /\ part # "serials" => part = "again" \/ cached = {}
    /\ Report!Init
    /\ Upload!Init
    /\ Groups!Init
    /\ Issues!Init
    /\ Plan!Init
    /\ part # "plan" => params = [only |-> noonly, no |-> {}, slice |-> {}, only_change |-> FALSE]
    /\ IF part = "console" THEN Single!Init ELSE Admin!Init
    /\ IF part = "linked" THEN Linked!Init ELSE Links!Init
    /\ part # "links" => part = "linked" \/ code = [c \in {"a", "b", "c"} |-> IF c = "a" THEN "d" ELSE "none"]
    /\ Feed!Init
    /\ part # "feed" => sheet = <<>>
    /\ IF part = "counts" THEN Numbers!Init ELSE Sizes!Init
    /\ Config!Init
    /\ part # "config" => format = "apache"
    /\ Command!Init
    /\ part # "command" => runner = "run_local" /\ limited
    /\ Guests!Init
    /\ Results!Init
    /\ Others!Init
    /\ part # "runners" => kind = "unit"
    /\ IF part = "arches" THEN Arches!Init ELSE Bugs!Init
    /\ IF part = "slave" THEN Slave!Init ELSE Setup!Init
    /\ part # "setup" => part = "slave" \/ start = [j \in {j1} |-> SetupStart(NoValues, {}, FALSE, <<>>)]

\* The variables of the components that do not move.
Rests(moving, v) == IF moving THEN TRUE ELSE UNCHANGED v

UnionNext ==
    /\ \/ part = "card" /\ Next
       \/ part = "pool" /\ Pool!Next
       \/ part = "monitor" /\ Monitor!Next
       \/ part = "balance" /\ Balance!Next
       \/ part = "repos" /\ Repos!Next
       \/ part = "statements" /\ Statements!Next
       \/ part = "users" /\ Users!Next
       \/ part = "unlock" /\ Unlock!Next
       \/ part = "serials" /\ Serials!Next
       \/ part = "again" /\ Again!Next
       \/ part = "rollback" /\ Rollback!Next
       \/ part = "report" /\ Report!Next
       \/ part = "upload" /\ Upload!Next
       \/ part = "groups" /\ Groups!Next
       \/ part = "issues" /\ Issues!Next
       \/ part = "plan" /\ Plan!Next
       \/ part = "admin" /\ Admin!Next
       \/ part = "console" /\ Single!Next
       \/ part = "links" /\ Links!Next
       \/ part = "linked" /\ Linked!Next
       \/ part = "feed" /\ Feed!Next
       \/ part = "sizes" /\ Sizes!Next
       \/ part = "counts" /\ Numbers!Next
       \/ part = "config" /\ Config!Next
       \/ part = "command" /\ Command!Next
       \/ part = "guests" /\ Guests!Next
       \/ part = "results" /\ Results!Next
       \/ part = "runners" /\ Others!Next
       \/ part = "bugs" /\ Bugs!Next
       \/ part = "arches" /\ Arches!Next
       \/ part = "setup" /\ Setup!Next
       \/ part = "slave" /\ Slave!Next
    /\ UNCHANGED part
    /\ Rests(part = "card", vars)
    /\ Rests(part = "pool", poolVars)
    /\ Rests(part = "monitor", monitorVars)
    /\ Rests(part = "balance", balanceVars)
    /\ Rests(part = "repos", repoVars)
    /\ Rests(part = "statements", statementVars)
    /\ Rests(part \in {"users", "unlock"}, userVars)
    /\ Rests(part \in {"serials", "again", "rollback"}, fileVars)
    /\ Rests(part = "report", reportVars)
    /\ Rests(part = "upload", uploadVars)
    /\ Rests(part = "groups", groupVars)
    /\ Rests(part = "issues", issueVars)
    /\ Rests(part = "plan", planVars)
    /\ Rests(part \in {"admin", "console"}, userCallVars)
    /\ Rests(part \in {"links", "linked"}, linkVars)
    /\ Rests(part = "feed", feedVars)
    /\ Rests(part \in {"sizes", "counts"}, perfVars)
    /\ Rests(part = "config", configVars)
    /\ Rests(part = "command", commandVars)
    /\ Rests(part = "guests", gvars)
    /\ Rests(part = "results", resultVars)
    /\ Rests(part = "runners", runnerVars)
    /\ Rests(part \in {"bugs", "arches"}, bugVars)
    /\ Rests(part \in {"setup", "slave"}, setupVars)

UnionSpec == UnionInit /\ [][UnionNext]_unionVars

-----------------------------------------------------------------------------
(* What is checked, by the names it has in the components. *)

\* Every component's variables have their types.
TypesOK ==
    /\ part = "card" => TypeOK
    /\ part = "pool" => Pool!TypeOK
    /\ part = "monitor" => Monitor!TypeOK
    /\ part = "balance" => Balance!TypeOK
    /\ part = "repos" => Repos!TypeOK
    /\ part = "statements" => Statements!TypeOK
    /\ part = "users" => Users!TypeOK
    /\ part = "unlock" => Unlock!TypeOK
    /\ part = "serials" => Serials!TypeOK
    /\ part = "again" => Again!TypeOK
    /\ part = "rollback" => Rollback!TypeOK
    /\ part = "report" => Report!TypeOK
    /\ part = "upload" => Upload!TypeOK
    /\ part = "groups" => Groups!TypeOK
    /\ part = "issues" => Issues!TypeOK
    /\ part = "plan" => Plan!TypeOK
    /\ part = "admin" => Admin!TypeOK
    /\ part = "console" => Single!TypeOK
    /\ part = "links" => Links!TypeOK
    /\ part = "linked" => Linked!TypeOK
    /\ part = "feed" => Feed!TypeOK
    /\ part = "sizes" => Sizes!TypeOK
    /\ part = "counts" => Numbers!TypeOK
    /\ part = "config" => Config!TypeOK
    /\ part = "command" => Command!TypeOK
    /\ part = "guests" => Guests!TypeOK
    /\ part = "results" => Results!TypeOK
    /\ part = "runners" => Others!TypeOK
    /\ part = "bugs" => Bugs!TypeOK
    /\ part = "arches" => Arches!TypeOK
    /\ part = "setup" => Setup!TypeOK
    /\ part = "slave" => Slave!TypeOK

\* What the threads of the cluster monitor share is consistent.
ConnectionsAreShared ==
    /\ part = "pool" =>
        \* parallel_number counts the users of a connection, but for the one that
        \* opened it on demand.
        /\ Pool!CountedUsers
        \* Two commands never share a channel of a connection.
        /\ Pool!ChannelExclusive
        \* A pool that was closed stays empty.
        /\ Pool!RemovedStaysEmpty
        \* Only connections opened on demand are left to nobody.
        /\ Pool!OrphansAreOnDemand
    /\ part = "monitor" =>
        \* The service dies of an exception for two reasons only.
        /\ Monitor!CrashCauses

\* What is done on all nodes of a cluster is done under the same conditions,
\* whole or not at all.
ClusterIsAgreed ==
    /\ part = "balance" =>
        \* A task on a replicated pool changes no weight before both comparisons
        \* passed.
        /\ Balance!ReplicatedIsCompared
        \* The weights of an erasure coded pool are computed once.
        /\ Balance!ErasureRunsOnce
        \* Whoever ended does not hold the lock of the commit.
        /\ Balance!LockIsReturned
    /\ part = "serials" =>
        \* The nodes of a call get their lines together or not at all, on every
        \* host.
        /\ Serials!CallsAreWhole
        \* A call that returned success had a serial number of every node.
        /\ Serials!OkIsComplete
    /\ part = "again" =>
        \* The same for calls of one host that follow each other.
        /\ Again!CallsAreWhole
        \* The same for calls of one host that follow each other.
        /\ Again!OkIsComplete
    /\ part = "rollback" =>
        \* Nothing was moved to its destination by a call that did not return
        \* True.
        /\ Rollback!FailureInstallsNothing
    /\ part = "admin" =>
        \* A call that succeeded, and that no other one met, left the console's
        \* files on every host that did what it was told.
        /\ Admin!OkIsEverywhere
        \* It gave the user the same password for samba there, or none.
        /\ Admin!SambaFollows
    /\ part = "console" =>
        \* A user's group is there on the host where commands run one at a time.
        /\ Single!GroupsAreThere

\* What several calls keep in tables and files is consistent: cards, cases,
\* packages, performance data.
RecordsAreRight ==
    /\ part = "card" =>
        \* What left a card is in its bills, though a kill or a stale copy came
        \* between.
        /\ ChargesAreBilled
        \* A purchase is in the history only after it was billed.
        /\ PurchasesAreBilled
        \* On a sound disk no call returns with the table half written.
        /\ ReturnsWhole
    /\ part = "statements" =>
        \* A bill is on a statement once the next statement day is over.
        /\ Statements!BilledIsStated
        \* Interest is that of the days a statement is late, however often the
        \* file was rewritten.
        /\ Statements!InterestIsSimple
        \* Nobody has less than seventeen days to pay before interest runs.
        /\ Statements!TimeToPay
    /\ part = "users" =>
        \* An account is locked only by a login call with the maximum of counted
        \* failures.
        /\ Users!LockTakesMax
        \* Who is logged in was not locked in the copy of the object.
        /\ Users!LockedStayOut
        \* No stored user has a card of somebody else.
        /\ Users!BoundIsOwned
    /\ part = "links" =>
        \* After a run that nothing came between, the list of caselink is that of
        \* the repositories.
        /\ Links!InSync
        \* After a run that nothing came between, the cases of its pull request
        \* are those that it adds.
        /\ Links!PullIsListed
    /\ part = "linked" =>
        \* The same for runs of one job that follow each other.
        /\ Linked!InSync
        \* The same for runs of one job that follow each other.
        /\ Linked!PullIsListed
    /\ part = "feed" =>
        \* A build is recorded once for a product, though rows get lost.
        /\ Feed!NoRowTwice
        \* The rows of a thread are there, unless one that had read the sheet
        \* before wrote after it.
        /\ Feed!LostWhenCrossed
        \* The builds of a package follow each other as their versions do.
        /\ Feed!NoDowngrade
        \* A run that ended has listed what its threads stored, where they were
        \* an odd number.
        /\ Feed!OddIsListed
    /\ part = "sizes" =>
        \* A row is the sum of what the hosts told, less the digits that were cut
        \* off.
        /\ Sizes!SumsAreClose
        \* What a thread saved stays for an hour, whatever the threads of other
        \* rounds write.
        /\ Sizes!SavedStays
    /\ part = "counts" =>
        \* A count that is recorded as bytes is nobody's answer.
        /\ Numbers!BytesAreNothing
    /\ part = "bugs" =>
        \* After an undisturbed run each listed bug has its issue, unless that of
        \* another one took it over.
        /\ Bugs!BugIsTracked
        \* The lead of the contact watches it.
        /\ Bugs!LeadWatches
    /\ part = "arches" =>
        \* The same for the bugs of an architecture.
        /\ Arches!BugIsTracked
        \* A bug that the RPL bug depends on has an issue with all the marks.
        /\ Arches!RplIsMarked

\* The tests that run are those asked for, on the repositories, the image and the
\* guests as prepared.
TestsAreChosen ==
    /\ part = "repos" =>
        \* Nothing that was applied to a repository gets lost by what is applied
        \* later.
        /\ Repos!PileUp
        \* The branch that --only-change comes back to is the one checked out.
        /\ Repos!BranchIsRecorded
        \* A repository that is back has what it had.
        /\ Repos!BackWithAll
        \* A change that cannot be picked leaves nothing behind.
        /\ Repos!PickIsWhole
    /\ part = "plan" =>
        \* Without --only-change every test asked for is run or reported as
        \* skipped, and none is both.
        /\ Plan!RunOrSkipped
        \* A test is reported once for each entry that skips it.
        /\ Plan!ReportedPerEntry
        \* With --only-change the cases that exist with the change alone are all
        \* run.
        /\ Plan!NewCasesAreRun
        \* No more than the additional cases come with them.
        /\ Plan!FewOldCases
    /\ part = "guests" =>
        \* Tests start on a restored image, unless a guest that ran on wrote to
        \* it, or the backup is not whole.
        /\ Guests!ImageIsFresh
        \* Only a kill leaves half a backup.
        /\ Guests!BackupIsWhole
        \* The guests and the network are those asked for, but for clones and v2v
        \* guests that failed.
        /\ Guests!ReadyAsAsked
    /\ part = "setup" =>
        \* A run that repeats a build has the parameters of the build, where a
        \* file can hold them.
        /\ Setup!RerunIsSame
        \* Any other run has those of its environment before those of its command
        \* line.
        /\ Setup!OwnParams
        \* Once all lines are read, each replacement was made in each file of its
        \* section, and nothing else.
        /\ Setup!PairsAreApplied

\* What jobs report to the dashboard, to ResultsDB and to Jira is there once, however
\* many report at the same time and however often they are started again.
ReportsArriveOnce ==
    /\ part = "upload" =>
        \* No case is on the dashboard twice unless the upload is forced.
        /\ Upload!CaseOnce
        \* A run is submitted only after each of its cases was answered.
        /\ Upload!SubmittedIsAnswered
    /\ part = "groups" =>
        \* A result is in one group of each description its job wants and in no
        \* other.
        /\ Groups!ResultsAreGrouped
        \* A job that is started again has one group of its own.
        /\ Groups!OwnGroupOnce
    /\ part = "issues" =>
        \* Two jobs may create an issue each for a message, but no job a second
        \* one.
        /\ Issues!BoundedDuplicates
        \* Of several issues for a message only the earliest is commented.
        /\ Issues!OneIsKept
        \* A message a job is done with has an issue with its result among the
        \* labels.
        /\ Issues!ReportIsThere

\* What a run found arrives where it is reported, and what a file of settings says
\* where it is read, whole and as it was.
ReportsAreWhole ==
    /\ part = "report" =>
        \* A failing result is never loaded as a pass.
        /\ Report!FailuresSurvive
        \* What was skipped and what passed is loaded as such.
        /\ Report!ReadersAgree
        \* Every result the runner got is in some suite.
        /\ Report!AllCounted
    /\ part = "command" =>
        \* A call that reports the end of a command has all that it wrote, and
        \* its verdict.
        /\ Command!EndIsReported
        \* A timeout leaves nothing of a command running but what had left its
        \* group, or its parents.
        /\ Command!NothingRunsOn
        \* After the end of a command nothing has its pipes.
        /\ Command!PipesAreClosed
        \* The value of a function is its result, or None if it ended its process
        \* without an error.
        /\ Command!ValueIsResult
    /\ part = "results" =>
        \* A run of metadash holds all the results of its report or none.
        /\ Results!AllOrNothing
        \* What is mailed and submitted is what the report says, never a part of
        \* it.
        /\ Results!SentAsReported
        \* A finished run of the matrix was submitted, or is known not to be.
        /\ Results!FinishedIsSubmitted
        \* A run that waits for feedback will get it, unless the message was lost
        \* or came too early.
        /\ Results!WaitsForAnAnswer
    /\ part = "runners" =>
        \* A run of another framework has a result of every test, with named
        \* exceptions.
        /\ Others!EveryTestIsReported
        \* A test that did not pass has a result that says so, with named
        \* exceptions.
        /\ Others!FailureIsShown
        \* The results of a test take as long together as the test did.
        /\ Others!TimesAddUp
        \* The guests one run installs are of the same product data.
        /\ Others!OneTree
    /\ part = "config" =>
        \* Directives of a file that is accepted are nested; one that is refused
        \* has a line out of place or too many levels.
        /\ Config!ApacheIsNested
        \* What was read from a file of ganesha is read again from what is
        \* written.
        /\ Config!WrittenIsRead
        \* A comment where a key may begin has no effect, unless it holds a
        \* brace.
        /\ Config!CommentsAreSkipped

\* What no step of a component may do.
StepsAreLawful ==
    \* The payment of a cart takes back nothing that was stored for another card.
    /\ ShopSparesOthers
    \* A command finds a channel, but for connections opened on demand.
    /\ Pool!ChannelFound
    \* The cluster mode is left only after enough failed tests in a row.
    /\ Monitor!LeavesAfterTests
    \* A record is reported as abnormal exactly if its thread did not end as it
    \* should, or its count was overwritten.
    /\ Monitor!Verdict
    \* With one object, a lock is lifted only by unlock_user of that name.
    /\ [][part = "unlock" => Unlock!KeepsLocks]_userVars
    \* A load gives every case of a complete save, or raises.
    /\ Report!NothingHalf
    \* A repeated upload completes nothing.
    /\ Upload!NeverCompleted
    \* An issue that was closed when the job searched is open once it is done
    \* with it.
    /\ Issues!ClosedIsReopened
    \* A run that nothing came between leaves alone what another open pull
    \* request adds.
    /\ Links!OthersStay
    \* No row is written over but those that were crossed in the same run.
    /\ Feed!RowsStay
    \* Current data never go back, but to a round that was saved when it was
    \* older than an hour.
    /\ Sizes!ShownGoesOn
    \* Whatever keys are set or removed, the other lines of a file stay as long
    \* as what is written was read.
    /\ Config!OthersStay
    \* No check takes the guests of v2v for something a test left.
    /\ Guests!V2vStays
    \* No run creates an issue for a bug that has an open one of an earlier run.
    /\ Bugs!NoSecondIssue
    \* The same for the bugs of an architecture.
    /\ Arches!NoSecondIssue
    \* A job gets the facts of its host, unless another one of the slave collects
    \* some at the same time.
    /\ [][part = "slave" => Slave!InformedStep]_setupVars

(* Workers, slots, machines, nodes, hosts and jobs are alike: one component
   moves, so exchanging all the pairs at once is one symmetry. *)
Swap == {(w1 :> w2) @@ (w2 :> w1) @@ (s1 :> s2) @@ (s2 :> s1)
         @@ (n1 :> n2) @@ (n2 :> n1) @@ (h1 :> h2) @@ (h2 :> h1) @@ (j1 :> j2) @@ (j2 :> j1)}
=============================================================================
