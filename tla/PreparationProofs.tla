-------------------------- MODULE PreparationProofs --------------------------
(***************************************************************************)
(* What jobs are prepared from, for any number of them.  A run has the     *)
(* parameters and the replacements it was given (RunSetup), its tests are  *)
(* patched as asked (PatchRepos), the ones asked for are run (TestPlan),   *)
(* and they find the guests and the image as asked (GuestPrep).  The       *)
(* packages of the repositories are recorded once and in the order of      *)
(* their versions (PackageFeed), and the list of cases follows the         *)
(* repositories (CaseLinks).                                               *)
(***************************************************************************)
EXTENDS Integers, Sequences, FiniteSets, TLAPS, SequenceTheorems, FiniteSetTheorems,
        WellFoundedInduction

(* The constants and variables of the parameters and replacements of a run; *)
CONSTANTS RunJob, FlagParam, TextParam, WipedParam, RunStarts, TestFile, Word, OwnReplaces
VARIABLES phase, start, environ, settings, facts, overlaps, contents, section

Setup == INSTANCE RunSetup WITH
    Job <- RunJob, Flag <- FlagParam, Text <- TextParam, Wiped <- WipedParam,
    Starts <- RunStarts, File <- TestFile, Own <- OwnReplaces

(* those of the repositories of the tests; *)
CONSTANTS PRs, Patches, Changes, Good, Missing, Branch, BranchOf, Inside, StartBranch,
          MasterBranch, Clones, Retries, Polls, GitFails
VARIABLES patching, item, requested, result, cache, attempts, data, on, head, loose, session,
          current, changed, saved

Repos == INSTANCE PatchRepos WITH
    Start <- StartBranch, Master <- MasterBranch, MayFail <- GitFails, files <- changed

(* those of the choice of tests; *)
CONSTANTS Test, Pattern, Hits, Base, Repo, RepoAdds, ChangedOnly, Slice, PlanOptions,
          Additional, BootFails, Blacklist, NoOnly
VARIABLES planning, params, onlys, nos, branches, stuck, with, without, tests, skips, ignores

Plan == INSTANCE TestPlan WITH
    Adds <- RepoAdds, Options <- PlanOptions, MayFail <- BootFails

(* those of the host of the tests; *)
CONSTANTS MainVM, ExtraVMs, V2vVMs, PrepOptions, MaxPreps, PrepKills, PrepFaults
VARIABLES image, imgcopy, guest, network, mounted, snapshot, prep, mishaps

Guests == INSTANCE GuestPrep WITH
    Main <- MainVM, Extra <- ExtraVMs, V2v <- V2vVMs, Options <- PrepOptions,
    MaxRuns <- MaxPreps, MaxKills <- PrepKills, MaxFaults <- PrepFaults

(* those of the sheet of packages; *)
CONSTANTS Product, PackageName, Build, NameOf, VersionOf, Watched, FirstTagged, LateTagged,
    FeedFails
VARIABLES tagged, sheet, stale, updater, update, crossed

Feed == INSTANCE PackageFeed WITH
    Name <- PackageName, First <- FirstTagged, Late <- LateTagged, Fails <- FeedFails

(* and those of the list of cases. *)
CONSTANTS LinkCase, LinkJob, PR, Desc, Selected, PrOf, Adds, Dels, NoPR, LinkFails, MaxSyncs,
          MaxEdits
VARIABLES linked, code, pull, edits, job, undisturbed, lost, runs

Links == INSTANCE CaseLinks WITH
    Case <- LinkCase, Job <- LinkJob, Fails <- LinkFails, MaxRuns <- MaxSyncs,
    MaxChanges <- MaxEdits

-----------------------------------------------------------------------------
(* How a run gets its parameters and its replacements.  The parameters are *)
(* those of the command line, to which the environment was added once or   *)
(* twice; what the lines of replacements did is said of the lines that     *)
(* were read, by induction over them.                                      *)

\* The environment a job goes on with: its own, or that of the build it repeats, which
\* could be read.
Readable(build) ==
    \A p \in Setup!Param :
        build[p] # "hidden" /\ (p \notin WipedParam /\ build[p] # "absent" =>
                                    Setup!Loaded(build[p]) # "lost")
Settled(j) ==
    IF start[j].build = {} THEN environ[j] = start[j].environ
    ELSE /\ Readable(Setup!Of(start[j].build))
         /\ environ[j] = Setup!FromBuild(start[j].environ, Setup!Of(start[j].build))

FirstMerge(j) == Setup!Merged(start[j].args, start[j].environ)

ParamsOf(j) ==
    /\ phase[j] = "new" => environ[j] = start[j].environ /\ settings[j] = start[j].args
    /\ phase[j] = "rerun" => /\ environ[j] = start[j].environ /\ settings[j] = FirstMerge(j)
                             /\ start[j].build # {}
    /\ phase[j] = "params" => Settled(j) /\ settings[j] = FirstMerge(j)
    /\ Setup!Processed(j) => Settled(j) /\ settings[j] = Setup!Merged(FirstMerge(j), environ[j])

ParamsInv ==
    /\ phase \in [RunJob -> Setup!Phases] /\ start \in [RunJob -> RunStarts]
    /\ DOMAIN environ = RunJob /\ DOMAIN settings = RunJob
    /\ \A j \in RunJob : ParamsOf(j)

\* The parameters are as ParamsInv has them, initially ...
LEMMA ParamsInit == Setup!Init => ParamsInv
BY DEF Setup!Init, ParamsInv, ParamsOf, Setup!Processed, Setup!Phases

\* ... and after each step.
LEMMA ParamsNext ==
    ASSUME ParamsInv, [Setup!Next]_(Setup!vars) PROVE ParamsInv'
<1> USE DEF ParamsInv, Setup!Goto, Setup!Processed, Setup!Phases, Settled, FirstMerge
<1>1. ASSUME NEW j \in RunJob, Setup!GetParams(j) PROVE ParamsInv'
  BY <1>1 DEF Setup!GetParams, ParamsOf
<1>2. ASSUME NEW j \in RunJob, Setup!Rerun(j) PROVE ParamsInv'
  <2> DEFINE build == Setup!Of(start[j].build)
  <2>1. CASE /\ phase' = [phase EXCEPT ![j] = "raised"]
             /\ UNCHANGED <<start, environ, settings>>
    BY <2>1 DEF ParamsOf
  <2>2. CASE /\ environ' = [environ EXCEPT ![j] = Setup!FromBuild(environ[j], build)]
             /\ phase' = [phase EXCEPT ![j] = "params"]
             /\ UNCHANGED <<start, settings>> /\ phase[j] = "rerun"
             /\ Readable(build)
    BY <2>2 DEF ParamsOf
  <2> QED
    BY <1>2, <2>1, <2>2 DEF Setup!Rerun, Readable, Setup!Hidden, Setup!Absent, Setup!Lost
<1>3. ASSUME NEW j \in RunJob, Setup!Process(j) PROVE ParamsInv'
  BY <1>3 DEF Setup!Process, ParamsOf
<1>4. ASSUME NEW j \in RunJob,
             \/ Setup!Collect(j) \/ Setup!Look(j) \/ Setup!Open(j) \/ Setup!Remove(j)
      PROVE  ParamsInv'
  BY <1>4 DEF Setup!Collect, Setup!Look, Setup!Open, Setup!Remove, ParamsOf
<1>5. ASSUME NEW j \in RunJob,
             \/ Setup!Framework(j) \/ Setup!FirstLine(j) \/ Setup!Section(j)
             \/ Setup!Replace(j) \/ Setup!Other(j)
      PROVE  ParamsInv'
  BY <1>5, SMTT(60) DEF Setup!Framework, Setup!FirstLine, Setup!Section, Setup!Replace, Setup!Other,
              Setup!Refuse, Setup!NextLine, Setup!IsLine, Setup!Step, ParamsOf
<1>6. CASE UNCHANGED Setup!vars
  BY <1>6 DEF Setup!vars, ParamsOf
<1> QED
  BY <1>1, <1>2, <1>3, <1>4, <1>5, <1>6 DEF Setup!Next

\* A second merge with the same environment changes nothing, one with that of a build
\* replaces what the build has.
LEMMA ParamsAreRight ==
    ASSUME ParamsInv PROVE Setup!RerunIsSame /\ Setup!OwnParams
<1>1. Setup!OwnParams
  <2>1. ASSUME NEW j \in RunJob, Setup!Processed(j), start[j].build = {}, NEW p \in Setup!Param
        PROVE  IF start[j].environ[p] = "" THEN settings[j][p] = start[j].args[p]
               ELSE settings[j][p] = IF p \in FlagParam THEN start[j].environ[p] = "true"
                                     ELSE start[j].environ[p]
    <3>1. settings[j] = Setup!Merged(FirstMerge(j), start[j].environ)
      BY <2>1 DEF ParamsInv, ParamsOf, Settled
    <3>2. start[j].environ[p] = "" => settings[j][p] = start[j].args[p]
      BY <3>1 DEF FirstMerge, Setup!Merged
    <3>3. /\ start[j].environ[p] # "" /\ p \in FlagParam =>
                  settings[j][p] = (start[j].environ[p] = "true")
          /\ start[j].environ[p] # "" /\ p \notin FlagParam =>
                  settings[j][p] = start[j].environ[p]
      BY <3>1 DEF Setup!Merged
    <3> QED BY <3>2, <3>3
  <2> QED BY <2>1, Zenon DEF Setup!OwnParams
<1>2. ASSUME NEW j \in RunJob, Setup!Processed(j), start[j].build # {},
             NEW p \in Setup!Param
      PROVE  IF p \in WipedParam \/ Setup!Of(start[j].build)[p] \in {"absent", ""}
             THEN settings[j][p] = FirstMerge(j)[p]
             ELSE settings[j][p] = IF p \in FlagParam
                                   THEN Setup!Of(start[j].build)[p] = "true"
                                   ELSE Setup!Loaded(Setup!Of(start[j].build)[p])
  <2> DEFINE build == Setup!Of(start[j].build)
             env   == start[j].environ
  <2>1. /\ environ[j] = Setup!FromBuild(env, build) /\ Readable(build)
        /\ settings[j] = Setup!Merged(FirstMerge(j), environ[j])
    BY <1>2 DEF ParamsInv, ParamsOf, Settled
  <2>2. environ[j][p] = IF build[p] = "absent" THEN env[p]
                        ELSE Setup!Loaded(Setup!Saved(p, build[p]))
    BY <2>1 DEF Setup!FromBuild, Setup!Absent
  <2>3. /\ environ[j][p] = "" => settings[j][p] = FirstMerge(j)[p]
        /\ environ[j][p] # "" /\ p \in FlagParam => settings[j][p] = (environ[j][p] = "true")
        /\ environ[j][p] # "" /\ p \notin FlagParam => settings[j][p] = environ[j][p]
    BY <2>1 DEF Setup!Merged
  <2>4. /\ env[p] # "" /\ p \in FlagParam => FirstMerge(j)[p] = (env[p] = "true")
        /\ env[p] # "" /\ p \notin FlagParam => FirstMerge(j)[p] = env[p]
    BY DEF FirstMerge, Setup!Merged
  <2> HIDE DEF build, env
  <2>5. CASE build[p] = "absent"
    BY <2>2, <2>3, <2>4, <2>5 DEF build
  <2>6. CASE build[p] # "absent" /\ p \in WipedParam
    <3>1. environ[j][p] = ""
      BY <2>2, <2>6 DEF Setup!Saved, Setup!Loaded
    <3> QED BY <2>3, <2>6, <3>1
  <2>7. CASE build[p] # "absent" /\ p \notin WipedParam
    <3>1. environ[j][p] = Setup!Loaded(build[p])
      BY <2>2, <2>7 DEF Setup!Saved
    <3>2. CASE build[p] = ""
      BY <2>3, <3>1, <3>2 DEF Setup!Loaded, build
    <3>3. CASE build[p] # ""
      <4>1. /\ Setup!Loaded(build[p]) # ""
            /\ (Setup!Loaded(build[p]) = "true") = (build[p] = "true")
        BY <3>3 DEF Setup!Loaded, Setup!Lost
      <4> QED BY <2>3, <2>7, <3>1, <3>3, <4>1 DEF build
    <3> QED BY <3>2, <3>3
  <2> QED BY <2>5, <2>6, <2>7
<1>3. Setup!RerunIsSame
  BY <1>2, Zenon DEF Setup!RerunIsSame, FirstMerge, Setup!Absent
<1> QED BY <1>1, <1>3

-----------------------------------------------------------------------------
(* The facts of hosts. *)

\* Jobs that collect at the same time are known; a job that met none finds its facts
\* until it has removed them.
FactsInv ==
    /\ phase \in [RunJob -> Setup!Phases] /\ overlaps \subseteq RunJob
    /\ facts \in [there : BOOLEAN, hosts : SUBSET RunJob] /\ (~facts.there => facts.hosts = {})
    /\ \A j, k \in RunJob : j # k /\ Setup!Collecting(j) /\ Setup!Collecting(k) => j \in overlaps
    /\ \A j \in RunJob \ overlaps :
           /\ phase[j] = "open" => j \in facts.hosts
           /\ phase[j] \in {"open", "remove"} => facts.there

\* The invariant holds initially ...
LEMMA FactsInit == Setup!Init => FactsInv
BY DEF Setup!Init, FactsInv, Setup!Collecting, Setup!Phases

\* ... and after each step.
LEMMA FactsNext ==
    ASSUME FactsInv, [Setup!Next]_(Setup!vars) PROVE FactsInv'
<1> USE DEF FactsInv, Setup!Goto, Setup!Collecting, Setup!Phases
<1>1. ASSUME NEW j \in RunJob, Setup!GetParams(j) \/ Setup!Rerun(j) \/ Setup!Process(j)
      PROVE  FactsInv'
  BY <1>1 DEF Setup!GetParams, Setup!Rerun, Setup!Process
<1>2. ASSUME NEW j \in RunJob, Setup!Collect(j) PROVE FactsInv'
  <2>1. /\ phase' = [phase EXCEPT ![j] = "look"] /\ facts'.there
        /\ facts' \in [there : BOOLEAN, hosts : SUBSET RunJob]
        /\ facts.hosts \subseteq facts'.hosts
    BY <1>2 DEF Setup!Collect
  <2>2. /\ overlaps \subseteq overlaps' /\ overlaps' \subseteq RunJob
        /\ \A k \in RunJob \ {j} : Setup!Collecting(k) => k \in overlaps' /\ j \in overlaps'
    BY <1>2 DEF Setup!Collect
  <2> QED BY <2>1, <2>2
<1>3. ASSUME NEW j \in RunJob, Setup!Look(j) \/ Setup!Open(j) \/ Setup!Remove(j)
      PROVE  FactsInv'
  <2>1. CASE Setup!Look(j)
    <3>1. CASE j \in facts.hosts
      <4>1. phase' = [phase EXCEPT ![j] = "open"] /\ UNCHANGED <<facts, overlaps>> /\ facts.there
        BY <2>1, <3>1 DEF Setup!Look
      <4> QED BY <2>1, <3>1, <4>1 DEF Setup!Look
    <3>2. CASE j \notin facts.hosts
      <4>1. /\ phase' = [phase EXCEPT ![j] = "raised"] /\ UNCHANGED overlaps
            /\ facts' = [there |-> FALSE, hosts |-> {}] /\ phase[j] = "look"
        BY <2>1, <3>2 DEF Setup!Look
      <4> QED BY <4>1
    <3> QED BY <3>1, <3>2
  <2>2. CASE Setup!Open(j)
    BY <1>3, <2>2 DEF Setup!Open
  <2>3. CASE Setup!Remove(j)
    BY <1>3, <2>3 DEF Setup!Remove
  <2> QED BY <1>3, <2>1, <2>2, <2>3
<1>4. ASSUME NEW j \in RunJob,
             \/ Setup!Framework(j) \/ Setup!FirstLine(j) \/ Setup!Section(j)
             \/ Setup!Replace(j) \/ Setup!Other(j)
      PROVE  FactsInv'
  BY <1>4 DEF Setup!Framework, Setup!FirstLine, Setup!Section, Setup!Replace, Setup!Other,
              Setup!Refuse, Setup!NextLine, Setup!IsLine, Setup!Step
<1>5. CASE UNCHANGED Setup!vars
  BY <1>5 DEF Setup!vars
<1> QED
  BY <1>1, <1>2, <1>3, <1>4, <1>5 DEF Setup!Next

\* A job whose host answered gets its facts, unless another one collected some at the
\* same time.
THEOREM InformedHolds == Setup!Spec => Setup!AloneIsInformed
<1>1. FactsInv /\ [Setup!Next]_(Setup!vars) => [Setup!InformedStep]_(Setup!vars)
  <2> SUFFICES ASSUME FactsInv, Setup!Next PROVE Setup!InformedStep
    OBVIOUS
  <2> USE DEF FactsInv, Setup!InformedStep, Setup!Goto, Setup!Phases
  <2>1. ASSUME NEW j \in RunJob, Setup!GetParams(j) \/ Setup!Rerun(j) \/ Setup!Process(j)
        PROVE  Setup!InformedStep
    BY <2>1 DEF Setup!GetParams, Setup!Rerun, Setup!Process
  <2>2. ASSUME NEW j \in RunJob,
               Setup!Collect(j) \/ Setup!Look(j) \/ Setup!Open(j) \/ Setup!Remove(j)
        PROVE  Setup!InformedStep
    BY <2>2 DEF Setup!Collect, Setup!Look, Setup!Open, Setup!Remove
  <2>3. ASSUME NEW j \in RunJob,
               \/ Setup!Framework(j) \/ Setup!FirstLine(j) \/ Setup!Section(j)
               \/ Setup!Replace(j) \/ Setup!Other(j)
        PROVE  Setup!InformedStep
    BY <2>3 DEF Setup!Framework, Setup!FirstLine, Setup!Section, Setup!Replace, Setup!Other,
                Setup!Refuse, Setup!NextLine, Setup!IsLine, Setup!Step
  <2> QED BY <2>1, <2>2, <2>3 DEF Setup!Next
<1> QED
  BY <1>1, FactsInit, FactsNext, PTL DEF Setup!Spec, Setup!AloneIsInformed

-----------------------------------------------------------------------------
(* The replacements. *)

\* The line that begins the section of line i, what line i replaces, and the lines of
\* the first n that replace something in f.
HeadOf(lines, i) == CHOOSE k \in 1..i : /\ lines[k].kind = "files"
                                        /\ \A l \in (k + 1)..i : lines[l].kind # "files"
IsHead(lines, k, i) == /\ k \in 1..i /\ lines[k].kind = "files"
                       /\ \A l \in (k + 1)..i : lines[l].kind # "files"
PairsIn(lines, f, n) ==
    {i \in 1..n : lines[i].kind = "pair" /\ f \in lines[HeadOf(lines, i)].files}

\* A section has one beginning.
LEMMA HeadIsOne ==
    ASSUME NEW lines, NEW i \in Nat, NEW k, IsHead(lines, k, i)
    PROVE  HeadOf(lines, i) = k
<1>1. \A l : IsHead(lines, l, i) => l = k
  BY DEF IsHead
<1> QED BY <1>1 DEF IsHead, HeadOf

\* What holds once n lines were read: the files of the section, and that each pair was
\* in one; ...
Sectioned(lines, n, files) ==
    /\ IF files = {} THEN \A i \in 1..n : lines[i].kind # "files"
       ELSE \E k \in 1..n : IsHead(lines, k, n) /\ lines[k].files = files
    /\ \A i \in 1..n : lines[i].kind = "pair" => \E k \in 1..i : IsHead(lines, k, i)

\* ... what was taken out is gone unless it was brought back later, and nothing else is.
OwnWords == {OwnReplaces[k].from : k \in DOMAIN OwnReplaces}
Gone(lines, n, t, f) ==
    \A i \in PairsIn(lines, f, n) :
        lines[i].from \in t[f] =>
          \E k \in PairsIn(lines, f, n) : k >= i /\ lines[k].to = lines[i].from
Spared(lines, n, t, f) ==
    \A w \in Word \ OwnWords :
        w \notin t[f] => \E i \in PairsIn(lines, f, n) : lines[i].from = w
Applied(lines, n, t) ==
    /\ DOMAIN t = TestFile
    /\ \A f \in TestFile : Gone(lines, n, t, f) /\ Spared(lines, n, t, f)

Done(j) == IF phase[j] = "ready" THEN Len(start[j].lines)
           ELSE IF section[j].line = 0 THEN 0 ELSE section[j].line - 1
FirstPhases == {"new", "rerun", "params", "collect", "look", "open", "remove"}

LinesOf(j) ==
    /\ section[j].line \in 0..Len(start[j].lines) /\ section[j].own \in 0..Len(OwnReplaces)
    /\ section[j].line > 0 => section[j].own = Len(OwnReplaces)
    /\ phase[j] \in FirstPhases => /\ section[j] = [own |-> 0, line |-> 0, files |-> {}]
                                   /\ contents[j] = [f \in TestFile |-> Word]
    /\ phase[j] \in {"replace", "ready"} => /\ Sectioned(start[j].lines, Done(j), section[j].files)
                                            /\ Applied(start[j].lines, Done(j), contents[j])

LinesInv ==
    /\ phase \in [RunJob -> Setup!Phases] /\ start \in [RunJob -> RunStarts]
    /\ section \in [RunJob -> [own : Nat, line : Nat, files : SUBSET TestFile]]
    /\ DOMAIN contents = RunJob
    /\ \A j \in RunJob : LinesOf(j)

\* A line that begins a section.
LEMMA SectionBegins ==
    ASSUME NEW lines, NEW n \in Nat, NEW files, Sectioned(lines, n, files),
           lines[n + 1].kind = "files", lines[n + 1].files # {}
    PROVE  Sectioned(lines, n + 1, lines[n + 1].files)
<1>1. n + 1 \in 1..(n + 1) /\ IsHead(lines, n + 1, n + 1)
  BY DEF IsHead
<1>2. \A i \in 1..(n + 1) : i \in 1..n \/ i = n + 1
  OBVIOUS
<1>3. \A i \in 1..(n + 1) : lines[i].kind = "pair" => \E k \in 1..i : IsHead(lines, k, i)
  BY <1>2 DEF Sectioned
<1> QED BY <1>1, <1>3 DEF Sectioned

\* Any other line, which is in the section as it is.
LEMMA SectionGoesOn ==
    ASSUME NEW lines, NEW n \in Nat, NEW files, Sectioned(lines, n, files),
           lines[n + 1].kind # "files", lines[n + 1].kind = "pair" => files # {}
    PROVE  Sectioned(lines, n + 1, files)
<1>1. \A i \in 1..(n + 1) : i \in 1..n \/ i = n + 1
  OBVIOUS
<1>2. ASSUME NEW k \in 1..n, IsHead(lines, k, n) PROVE k \in 1..(n + 1) /\ IsHead(lines, k, n + 1)
  BY <1>2 DEF IsHead
<1>3. CASE files = {}
  BY <1>1, <1>3 DEF Sectioned
<1>4. CASE files # {}
  <2>1. PICK k \in 1..n : IsHead(lines, k, n) /\ lines[k].files = files
    BY <1>4 DEF Sectioned
  <2>2. k \in 1..(n + 1) /\ IsHead(lines, k, n + 1)
    BY <1>2, <2>1
  <2>3. \A i \in 1..(n + 1) : lines[i].kind = "pair" => \E h \in 1..i : IsHead(lines, h, i)
    BY <1>1, <2>2 DEF Sectioned
  <2> QED BY <1>4, <2>1, <2>2, <2>3 DEF Sectioned
<1> QED BY <1>3, <1>4

\* A line more that replaces nothing: the pairs are the same.
LEMMA NoPairMore ==
    ASSUME NEW lines, NEW n \in Nat, NEW t, Applied(lines, n, t), lines[n + 1].kind # "pair"
    PROVE  Applied(lines, n + 1, t)
<1>1. \A f : PairsIn(lines, f, n + 1) = PairsIn(lines, f, n)
  <2>1. 1..(n + 1) = 1..n \cup {n + 1}
    OBVIOUS
  <2> QED BY <2>1 DEF PairsIn
<1> QED BY <1>1 DEF Applied, Gone, Spared

\* A pair more, in the files of its section.
LEMMA PairMore ==
    ASSUME NEW lines, NEW n \in Nat, NEW t, NEW files, NEW k, Applied(lines, n, t),
           lines[n + 1].kind = "pair", IsHead(lines, k, n + 1), lines[k].files = files
    PROVE  Applied(lines, n + 1, Setup!Replaced(t, files, lines[n + 1].from, lines[n + 1].to))
<1> DEFINE p == lines[n + 1]
           u == Setup!Replaced(t, files, p.from, p.to)
<1>1. HeadOf(lines, n + 1) = k
  BY HeadIsOne
<1>2. \A f : PairsIn(lines, f, n + 1)
                 = PairsIn(lines, f, n) \cup (IF f \in files THEN {n + 1} ELSE {})
  <2>1. 1..(n + 1) = 1..n \cup {n + 1}
    OBVIOUS
  <2> QED BY <2>1, <1>1 DEF PairsIn
<1>3. /\ DOMAIN u = TestFile
      /\ \A f \in TestFile : u[f] = IF f \in files /\ p.from \in t[f]
                                    THEN (t[f] \ {p.from}) \cup {p.to} ELSE t[f]
  BY DEF Setup!Replaced
<1> HIDE DEF u
<1>4. ASSUME NEW f \in TestFile PROVE Gone(lines, n + 1, u, f)
  <2>0. PairsIn(lines, f, n) \subseteq 1..n /\ Gone(lines, n, t, f)
    BY DEF PairsIn, Applied
  <2>1. CASE f \in files
    <3> SUFFICES ASSUME NEW i \in PairsIn(lines, f, n + 1), lines[i].from \in u[f]
                 PROVE  \E l \in PairsIn(lines, f, n + 1) : l >= i /\ lines[l].to = lines[i].from
      BY DEF Gone
    <3>1. n + 1 \in PairsIn(lines, f, n + 1) /\ i \in 1..(n + 1)
      BY <1>2, <2>0, <2>1
    <3>2. lines[i].from = p.to \/ (lines[i].from \in t[f] /\ lines[i].from # p.from)
      BY <1>3, <2>1
    <3>3. CASE lines[i].from = p.to
      BY <3>1, <3>3
    <3>4. CASE lines[i].from \in t[f] /\ lines[i].from # p.from
      <4>1. i \in PairsIn(lines, f, n)
        BY <1>2, <2>1, <3>4
      <4> QED BY <4>1, <3>4, <2>0, <1>2 DEF Gone
    <3> QED BY <3>2, <3>3, <3>4
  <2>2. CASE f \notin files
    BY <1>2, <1>3, <2>0, <2>2 DEF Gone
  <2> QED BY <2>1, <2>2
<1>5. ASSUME NEW f \in TestFile PROVE Spared(lines, n + 1, u, f)
  <2>1. Spared(lines, n, t, f)
    BY DEF Applied
  <2>2. ASSUME NEW w \in Word \ OwnWords, w \notin u[f], w \in t[f]
        PROVE  f \in files /\ p.from = w
    BY <1>3, <2>2
  <2> QED BY <1>2, <2>1, <2>2 DEF Spared
<1> QED BY <1>3, <1>4, <1>5 DEF Applied, u

\* The invariant holds initially ...
LEMMA LinesInit == Setup!SetupAssumption /\ Setup!Init => LinesInv
<1> SUFFICES ASSUME Setup!SetupAssumption, Setup!Init PROVE LinesInv
  OBVIOUS
<1>1. \A j \in RunJob : Len(start[j].lines) \in Nat /\ Len(OwnReplaces) \in Nat
  BY DEF Setup!SetupAssumption, Setup!Started, Setup!Init
<1> QED BY <1>1 DEF Setup!Init, LinesInv, LinesOf, Setup!Phases, FirstPhases

\* A step that leaves the file and the section of a job alone, or those of all but one.
LEMMA LinesOfOthers ==
    ASSUME NEW j, LinesOf(j), start' = start, phase'[j] = phase[j],
           section'[j] = section[j], contents'[j] = contents[j]
    PROVE  LinesOf(j)'
BY Zenon DEF LinesOf, Done

\* ... and after each step.
LEMMA LinesNext ==
    ASSUME Setup!SetupAssumption, LinesInv, [Setup!Next]_(Setup!vars) PROVE LinesInv'
<1> USE DEF Setup!Goto
<1> DEFINE Others(j) == /\ start' = start
                        /\ \A k \in RunJob \ {j} : /\ phase'[k] = phase[k]
                                                   /\ section'[k] = section[k]
                                                   /\ contents'[k] = contents[k]
           Types == /\ phase' \in [RunJob -> Setup!Phases] /\ DOMAIN contents' = RunJob
                    /\ section' \in [RunJob -> [own : Nat, line : Nat, files : SUBSET TestFile]]
<1>1. ASSUME NEW j \in RunJob, Others(j), Types, LinesOf(j)' PROVE LinesInv'
  BY <1>1, LinesOfOthers DEF LinesInv
<1> HIDE DEF Others, Types
<1>2. ASSUME NEW j \in RunJob PROVE LinesOf(j) /\ start[j] \in RunStarts
  BY <1>2 DEF LinesInv
<1>3. ASSUME NEW j \in RunJob
      PROVE  LET lines == start[j].lines
             IN  /\ Len(lines) \in Nat /\ DOMAIN lines = 1..Len(lines)
                 /\ \A i \in 1..Len(lines) :
                        lines[i].kind = "files" => lines[i].files \subseteq TestFile
  BY <1>2 DEF Setup!SetupAssumption, Setup!Started
<1>4. /\ Len(OwnReplaces) \in Nat
      /\ \A k \in DOMAIN OwnReplaces : OwnReplaces[k].files \subseteq TestFile
      /\ DOMAIN OwnReplaces = 1..Len(OwnReplaces)
  BY DEF Setup!SetupAssumption
\* Until it begins to replace, a job has its files as they were.
<1>5. ASSUME NEW j \in RunJob, phase[j] \in FirstPhases, UNCHANGED <<start, contents, section>>,
             NEW p \in FirstPhases \cup {"replace", "raised"}, phase' = [phase EXCEPT ![j] = p]
      PROVE  LinesInv'
  <2>1. Others(j) /\ Types /\ phase'[j] = p
    BY <1>5 DEF Others, Types, LinesInv, FirstPhases, Setup!Phases
  <2>2. CASE p # "replace"
    BY <1>1, <1>2, <1>5, <2>1, <2>2 DEF LinesOf, FirstPhases
  <2>3. CASE p = "replace"
    <3>1. /\ section'[j].line = 0 /\ section'[j].files = {} /\ section'[j].own = section[j].own
          /\ contents'[j] = [f \in TestFile |-> Word] /\ section'[j].line = section[j].line
      BY <1>2, <1>5 DEF LinesOf
    <3>2. Done(j)' = 0
      BY <2>1, <2>3, <3>1 DEF Done
    <3>3. Sectioned(start'[j].lines, 0, {}) /\ Applied(start'[j].lines, 0, contents'[j])
      BY <3>1 DEF Sectioned, Applied, Gone, Spared, PairsIn
    <3> QED BY <1>1, <1>2, <1>5, <2>1, <2>3, <3>1, <3>2, <3>3 DEF LinesOf, FirstPhases
  <2> QED BY <1>1, <2>1, <2>2, <2>3
\* A job that ends here need not have its files in any state.
<1>6. ASSUME NEW j \in RunJob, phase' = [phase EXCEPT ![j] = "raised"],
             UNCHANGED <<start, contents, section>>
      PROVE  LinesInv'
  <2>1. Others(j) /\ Types /\ phase'[j] = "raised"
    BY <1>6 DEF Others, Types, LinesInv, Setup!Phases
  <2> QED BY <1>1, <1>2, <1>6, <2>1 DEF LinesOf, FirstPhases
\* A line that was read, of whatever kind.
<1>7. ASSUME NEW j \in RunJob, Setup!IsLine(j), NEW files \in SUBSET TestFile,
             UNCHANGED start, Setup!NextLine(j, files),
             DOMAIN contents' = RunJob, \A k \in RunJob \ {j} : contents'[k] = contents[k],
             Sectioned(start[j].lines, section[j].line, files),
             Applied(start[j].lines, section[j].line, contents'[j])
      PROVE  LinesInv'
  <2> DEFINE here == section[j]
             next == IF Setup!Step(j) = "ready" THEN here.line ELSE here.line + 1
  <2>5. phase' = [phase EXCEPT ![j] = Setup!Step(j)] /\ Setup!Step(j) \in {"ready", "replace"}
    BY <1>7 DEF Setup!NextLine, Setup!Step
  <2>6. here \in [own : Nat, line : Nat, files : SUBSET TestFile] /\ next \in Nat
    BY DEF LinesInv
  <2>7. section' = [section EXCEPT ![j] = [here EXCEPT !.line = next, !.files = files]]
    BY <1>7 DEF Setup!NextLine
  <2>0. /\ section' = [section EXCEPT ![j] = [here EXCEPT !.line = next, !.files = files]]
        /\ phase' = [phase EXCEPT ![j] = Setup!Step(j)] /\ Setup!Step(j) \in Setup!Phases
        /\ here \in [own : Nat, line : Nat, files : SUBSET TestFile] /\ next \in Nat
    BY <2>5, <2>6, <2>7 DEF Setup!Phases
  <2>1. Others(j) /\ Types
    <3>1. [here EXCEPT !.line = next, !.files = files]
              \in [own : Nat, line : Nat, files : SUBSET TestFile]
      BY <1>7, <2>0
    <3> DEFINE new == [here EXCEPT !.line = next, !.files = files]
    <3>2. section' = [section EXCEPT ![j] = new]
      BY <2>0
    <3> HIDE DEF next, here, new
    <3>3. /\ section' \in [RunJob -> [own : Nat, line : Nat, files : SUBSET TestFile]]
          /\ \A k \in RunJob \ {j} : section'[k] = section[k]
      BY <3>1, <3>2 DEF LinesInv, new
    <3>4. /\ phase' \in [RunJob -> Setup!Phases]
          /\ \A k \in RunJob \ {j} : phase'[k] = phase[k]
      BY <2>0 DEF LinesInv
    <3> QED BY <1>7, <3>3, <3>4 DEF Others, Types
  <2>2. /\ section'[j].files = files /\ section'[j].own = section[j].own
        /\ section[j].line \in 1..Len(start[j].lines)
        /\ phase'[j] \in {"ready", "replace"}
        /\ Done(j)' = section[j].line
        /\ section'[j].line \in 1..Len(start[j].lines)
    BY <1>2, <1>3, <1>7 DEF LinesInv, LinesOf, Setup!NextLine, Setup!Step, Setup!IsLine, Done
  <2>3. section[j].own = Len(OwnReplaces) /\ section[j].own \in 0..Len(OwnReplaces)
    BY <1>2, <2>2 DEF LinesOf
  <2>4. LinesOf(j)'
    BY <1>7, <2>2, <2>3 DEF LinesOf, FirstPhases
  <2> QED BY <1>1, <2>1, <2>4
<1> DEFINE Before(j) == section[j].line - 1
<1>8. ASSUME NEW j \in RunJob, Setup!IsLine(j)
      PROVE  /\ section[j].line \in 1..Len(start[j].lines)
             /\ Before(j) \in Nat /\ Before(j) + 1 = section[j].line
             /\ Setup!Line(j) = start[j].lines[Before(j) + 1]
             /\ section[j].files \subseteq TestFile
             /\ Sectioned(start[j].lines, Before(j), section[j].files)
             /\ Applied(start[j].lines, Before(j), contents[j])
  <2>1. /\ phase[j] = "replace" /\ section[j].line > 0 /\ section[j].line \in Nat
        /\ section[j].files \subseteq TestFile
    BY <1>8 DEF LinesInv, Setup!IsLine
  <2>2. section[j].line \in 1..Len(start[j].lines)
    BY <1>2, <1>3, <2>1 DEF LinesOf, FirstPhases
  <2>4. Before(j) \in Nat /\ Before(j) + 1 = section[j].line
    BY <2>1
  <2>3. Done(j) = Before(j)
    BY <2>1 DEF Done
  <2> QED BY <1>2, <2>1, <2>2, <2>3, <2>4 DEF LinesOf, Setup!Line
<1> HIDE DEF Before
<1>9. ASSUME NEW j \in RunJob, Setup!Section(j) PROVE LinesInv'
  <2>1. CASE Setup!Line(j).files = {}
    BY <1>6, <1>9, <2>1 DEF Setup!Section, Setup!Refuse
  <2>2. CASE Setup!Line(j).files # {}
    <3>1. /\ Setup!IsLine(j) /\ Setup!NextLine(j, Setup!Line(j).files)
          /\ Setup!Line(j).kind = "files"
          /\ UNCHANGED <<start, contents>>
      BY <1>9, <2>2 DEF Setup!Section
    <3>2. Sectioned(start[j].lines, section[j].line, Setup!Line(j).files)
      BY <1>8, <2>2, <3>1, SectionBegins
    <3>3. Applied(start[j].lines, section[j].line, contents'[j])
      BY <1>8, <3>1, NoPairMore
    <3>4. Setup!Line(j).files \subseteq TestFile
      BY <1>3, <1>8, <3>1
    <3> QED BY <1>7, <3>1, <3>2, <3>3, <3>4 DEF LinesInv
  <2> QED BY <2>1, <2>2
<1>10. ASSUME NEW j \in RunJob, Setup!Other(j) PROVE LinesInv'
  <2>1. CASE Setup!Line(j).kind = "junk"
    BY <1>6, <1>10, <2>1 DEF Setup!Other, Setup!Refuse
  <2>2. CASE Setup!Line(j).kind # "junk"
    <3>1. /\ Setup!IsLine(j) /\ Setup!NextLine(j, section[j].files)
          /\ Setup!Line(j).kind \notin {"files", "pair"} /\ UNCHANGED <<start, contents>>
      BY <1>10, <2>2 DEF Setup!Other
    <3>2. Sectioned(start[j].lines, section[j].line, section[j].files)
      BY <1>8, <3>1, SectionGoesOn
    <3>3. Applied(start[j].lines, section[j].line, contents'[j])
      BY <1>8, <3>1, NoPairMore
    <3> QED BY <1>7, <1>8, <3>1, <3>2, <3>3 DEF LinesInv
  <2> QED BY <2>1, <2>2
<1>11. ASSUME NEW j \in RunJob, Setup!Replace(j) PROVE LinesInv'
  <2>1. CASE section[j].files = {}
    BY <1>6, <1>11, <2>1 DEF Setup!Replace, Setup!Refuse
  <2>2. CASE section[j].files # {}
    <3> DEFINE lines == start[j].lines
               n     == Before(j)
    <3>1. /\ Setup!IsLine(j) /\ Setup!NextLine(j, section[j].files)
          /\ Setup!Line(j).kind = "pair" /\ UNCHANGED start
          /\ contents' = [contents EXCEPT ![j] =
                 Setup!Replaced(@, section[j].files, Setup!Line(j).from, Setup!Line(j).to)]
      BY <1>11, <2>2 DEF Setup!Replace
    <3>2. /\ n \in Nat /\ n + 1 = section[j].line /\ Setup!Line(j) = lines[n + 1]
          /\ Sectioned(lines, n, section[j].files) /\ Applied(lines, n, contents[j])
          /\ section[j].files \subseteq TestFile
      BY <1>8, <3>1
    <3> HIDE DEF n, lines
    <3>3. PICK k \in 1..n : IsHead(lines, k, n) /\ lines[k].files = section[j].files
      BY <2>2, <3>2 DEF Sectioned
    <3>4. IsHead(lines, k, n + 1)
      BY <3>1, <3>2, <3>3 DEF IsHead
    <3>5. Sectioned(lines, n + 1, section[j].files)
      BY <2>2, <3>1, <3>2, SectionGoesOn
    <3>6. /\ contents'[j] = Setup!Replaced(contents[j], section[j].files, lines[n + 1].from,
                                           lines[n + 1].to)
          /\ DOMAIN contents' = RunJob /\ \A i \in RunJob \ {j} : contents'[i] = contents[i]
      BY <3>1, <3>2 DEF LinesInv
    <3>7. Applied(lines, n + 1, contents'[j])
      BY <3>1, <3>2, <3>3, <3>4, <3>6, PairMore
    <3> QED BY <1>7, <3>1, <3>2, <3>5, <3>6, <3>7 DEF lines
  <2> QED BY <2>1, <2>2
<1>12. ASSUME NEW j \in RunJob, Setup!Framework(j) PROVE LinesInv'
  <2> DEFINE r == OwnReplaces[section[j].own + 1]
  <2>1. CASE r.files = {}
    BY <1>6, <1>12, <2>1 DEF Setup!Framework, Setup!Refuse
  <2>2. CASE r.files # {}
    <3>1. /\ phase[j] = "replace" /\ section[j].own < Len(OwnReplaces) /\ UNCHANGED <<start, phase>>
          /\ contents' = [contents EXCEPT ![j] = Setup!Replaced(@, r.files, r.from, r.to)]
          /\ section' = [section EXCEPT ![j].own = @ + 1]
      BY <1>12, <2>2 DEF Setup!Framework
    <3>2. /\ section[j].line = 0 /\ section[j].own + 1 \in DOMAIN OwnReplaces
          /\ Done(j) = 0
          /\ Sectioned(start[j].lines, 0, section[j].files)
          /\ Applied(start[j].lines, 0, contents[j])
      BY <1>2, <1>4, <3>1 DEF LinesOf, Done
    <3>3. Others(j) /\ Types
      <4>1. section' = [section EXCEPT ![j] = [section[j] EXCEPT !.own = section[j].own + 1]]
        BY <3>1
      <4>2. section[j] \in [own : Nat, line : Nat, files : SUBSET TestFile]
        BY DEF LinesInv
      <4>3. /\ section' \in [RunJob -> [own : Nat, line : Nat, files : SUBSET TestFile]]
            /\ \A k \in RunJob \ {j} : section'[k] = section[k]
        BY <4>1, <4>2 DEF LinesInv
      <4> QED BY <3>1, <4>3 DEF Others, Types, LinesInv
    <3>4. /\ contents'[j] = Setup!Replaced(contents[j], r.files, r.from, r.to)
          /\ section'[j].line = 0 /\ section'[j].own = section[j].own + 1
          /\ section'[j].files = section[j].files
      BY <3>1, <3>2 DEF LinesInv
    <3>5. r.from \in OwnWords
      BY <3>2 DEF OwnWords
    <3>6. Applied(start[j].lines, 0, contents'[j])
      BY <3>2, <3>4, <3>5 DEF Applied, Gone, Spared, PairsIn, Setup!Replaced
    <3>7. LinesOf(j)'
      BY <1>2, <1>4, <3>1, <3>2, <3>4, <3>6, SMTT(60) DEF LinesOf, Done, FirstPhases
    <3> QED BY <1>1, <3>3, <3>7
  <2> QED BY <2>1, <2>2
<1>13. ASSUME NEW j \in RunJob, Setup!FirstLine(j) PROVE LinesInv'
  <2>1. /\ phase[j] = "replace" /\ section[j].own = Len(OwnReplaces) /\ section[j].line = 0
        /\ UNCHANGED <<start, contents>> /\ Done(j) = 0
        /\ Sectioned(start[j].lines, 0, section[j].files)
        /\ Applied(start[j].lines, 0, contents[j])
    BY <1>2, <1>13 DEF Setup!FirstLine, LinesOf, Done
  <2>2. CASE start[j].lines = <<>>
    <3>1. /\ phase' = [phase EXCEPT ![j] = "ready"] /\ UNCHANGED section
          /\ Len(start[j].lines) = 0
      BY <1>13, <2>2 DEF Setup!FirstLine
    <3>2. Others(j) /\ Types /\ phase'[j] = "ready"
      BY <2>1, <3>1 DEF Others, Types, LinesInv, Setup!Phases
    <3>3. LinesOf(j)'
      BY <1>2, <2>1, <3>1, <3>2 DEF LinesOf, Done, FirstPhases
    <3> QED BY <1>1, <3>2, <3>3
  <2>3. CASE start[j].lines # <<>>
    <3>1. section' = [section EXCEPT ![j].line = 1] /\ UNCHANGED phase
      BY <1>13, <2>3 DEF Setup!FirstLine
    <3>2. Others(j) /\ Types
      BY <2>1, <3>1 DEF Others, Types, LinesInv
    <3>3. /\ section'[j].line = 1 /\ section'[j].own = section[j].own
          /\ section'[j].files = section[j].files
      BY <3>1 DEF LinesInv
    <3>4. Len(start[j].lines) > 0
      BY <1>3, <2>3
    <3>5. LinesOf(j)'
      BY <1>2, <1>3, <2>1, <3>1, <3>3, <3>4 DEF LinesOf, Done, FirstPhases
    <3> QED BY <1>1, <3>2, <3>5
  <2> QED BY <2>2, <2>3
<1>14. ASSUME NEW j \in RunJob,
              \/ Setup!GetParams(j) \/ Setup!Rerun(j) \/ Setup!Process(j)
              \/ Setup!Collect(j) \/ Setup!Look(j) \/ Setup!Open(j) \/ Setup!Remove(j)
       PROVE  LinesInv'
  <2>1. phase[j] \in FirstPhases /\ UNCHANGED <<start, contents, section>>
    BY <1>14 DEF Setup!GetParams, Setup!Rerun, Setup!Process, Setup!Collect, Setup!Look,
                 Setup!Open, Setup!Remove, FirstPhases
  <2>2. \E p \in FirstPhases \cup {"replace", "raised"} : phase' = [phase EXCEPT ![j] = p]
    BY <1>14 DEF Setup!GetParams, Setup!Rerun, Setup!Process, Setup!Collect, Setup!Look,
                 Setup!Open, Setup!Remove, FirstPhases
  <2> QED BY <1>5, <2>1, <2>2
<1>15. CASE UNCHANGED Setup!vars
  <2>1. UNCHANGED <<phase, start, contents, section>>
    BY <1>15 DEF Setup!vars
  <2>2. \A j \in RunJob : LinesOf(j)'
    BY <1>2, <2>1, LinesOfOthers
  <2> QED BY <2>1, <2>2 DEF LinesInv
<1> QED
  BY <1>9, <1>10, <1>11, <1>12, <1>13, <1>14, <1>15 DEF Setup!Next

\* Once all lines are read, each replacement was made in each file of its section, and
\* nothing else.
LEMMA PairsAreRight ==
    ASSUME Setup!SetupAssumption, LinesInv PROVE Setup!PairsAreApplied
<1>1. ASSUME NEW j \in RunJob, phase[j] = "ready"
      PROVE  /\ DOMAIN start[j].lines = 1..Len(start[j].lines)
             /\ Applied(start[j].lines, Len(start[j].lines), contents[j])
  BY <1>1 DEF LinesInv, LinesOf, Done, Setup!SetupAssumption, Setup!Started
<1>3. ASSUME NEW j \in RunJob, phase[j] = "ready", NEW f \in TestFile
      PROVE  LET pairs == PairsIn(start[j].lines, f, Len(start[j].lines))
             IN  /\ \A i \in pairs :
                       start[j].lines[i].from \in contents[j][f] =>
                           \E k \in pairs :
                               k >= i /\ start[j].lines[k].to = start[j].lines[i].from
                 /\ \A w \in Word \ {OwnReplaces[k].from : k \in DOMAIN OwnReplaces} :
                       w \notin contents[j][f] =>
                           \E i \in pairs : start[j].lines[i].from = w
  BY <1>1, <1>3, Zenon DEF Applied, Gone, Spared, OwnWords
<1> DEFINE Lines(j) == start[j].lines
           In(j, i) == CHOOSE k \in 1..i : /\ Lines(j)[k].kind = "files"
                                           /\ \A l \in (k + 1)..i : Lines(j)[l].kind # "files"
           Pairs(j, f) == {i \in DOMAIN Lines(j) : Lines(j)[i].kind = "pair"
                                                   /\ f \in Lines(j)[In(j, i)].files}
<1>4. ASSUME NEW j \in RunJob, phase[j] = "ready", NEW f \in TestFile
      PROVE  /\ \A i \in Pairs(j, f) :
                   Lines(j)[i].from \in contents[j][f] =>
                       \E k \in Pairs(j, f) : k >= i /\ Lines(j)[k].to = Lines(j)[i].from
             /\ \A w \in Word \ {OwnReplaces[k].from : k \in DOMAIN OwnReplaces} :
                   w \notin contents[j][f] => \E i \in Pairs(j, f) : Lines(j)[i].from = w
  <2>1. \A i : In(j, i) = HeadOf(start[j].lines, i)
    BY Zenon DEF HeadOf
  <2> HIDE DEF In
  <2>2. Pairs(j, f) = PairsIn(start[j].lines, f, Len(start[j].lines))
    BY <1>1, <1>4, <2>1 DEF PairsIn
  <2> HIDE DEF Pairs
  <2> QED BY <1>3, <1>4, <2>2
<1> QED
  BY <1>4, Zenon DEF Setup!PairsAreApplied

\* A run has the parameters it should have, and its files the replacements.
THEOREM SetupHolds ==
    ASSUME Setup!SetupAssumption
    PROVE  Setup!Spec => [](Setup!RerunIsSame /\ Setup!OwnParams /\ Setup!PairsAreApplied)
<1>1. ParamsInv /\ LinesInv => Setup!RerunIsSame /\ Setup!OwnParams /\ Setup!PairsAreApplied
  BY ParamsAreRight, PairsAreRight
<1> QED
  BY <1>1, ParamsInit, ParamsNext, LinesInit, LinesNext, PTL DEF Setup!Spec

-----------------------------------------------------------------------------
(* What is applied to a repository piles up. *)

\* Until an item is checked out there is no branch of its name, so that the checkout makes
\* one where the repository stands.  Whoever lists changed has applied the pull request, and
\* the branch that --only-change goes back to has what the repository had.
NewBranch == {"refresh", "mergable", "read", "checkout"}
RepoInv ==
    /\ Repos!TypeOK
    /\ Repos!BranchIsRecorded /\ Repos!PickIsWhole /\ Repos!PileUp /\ Repos!BackWithAll
    /\ patching \in {"refresh", "mergable", "poll", "read", "am", "files"} => item \in PRs
    /\ patching = "patch" => item \in Patches
    /\ patching = "pick" => item \in Changes
    /\ item # Repos!None => item \in requested
    /\ \A i \in Repos!Item \ requested : BranchOf[i] \notin DOMAIN on
    /\ patching \in NewBranch => BranchOf[item] \notin DOMAIN on
    /\ patching = "files" => item \in on[head]
    /\ patching = "master" => saved \in DOMAIN on /\ changed \subseteq on[saved] \cup loose

\* The invariant holds initially ...
LEMMA RepoInit == Repos!PatchAssumption /\ Repos!Init => RepoInv
<1> SUFFICES ASSUME Repos!PatchAssumption, Repos!Init PROVE RepoInv
  OBVIOUS
<1>1. DOMAIN on = {StartBranch} /\ on[StartBranch] = {}
  BY DEF Repos!Init
<1>2. Repos!TypeOK
  BY <1>1 DEF Repos!Init, Repos!TypeOK, Repos!PatchAssumption, Repos!Data, Repos!Calls
<1>3. /\ Repos!BranchIsRecorded /\ Repos!PickIsWhole /\ Repos!PileUp /\ Repos!BackWithAll
  BY <1>1 DEF Repos!Init, Repos!BranchIsRecorded, Repos!PickIsWhole, Repos!PileUp,
              Repos!BackWithAll, Repos!Content, Repos!None, Repos!Item
<1> QED
  BY <1>1, <1>2, <1>3 DEF Repos!Init, RepoInv, Repos!PatchAssumption, NewBranch

\* A step that leaves git and the results alone, and goes on with the same item, or ends.
LEMMA RepoSame ==
    ASSUME Repos!PatchAssumption, RepoInv,
           UNCHANGED <<on, head, loose, session, current, changed, saved>>,
           Repos!TypeOK', requested \subseteq requested',
           \A i \in Changes : result'[i] = "true" => result[i] = "true",
           patching' \notin {"patch", "pick", "am", "files", "master", "done"},
           patching \notin {"master", "done"},
           item' # Repos!None => item' \in requested',
           patching' \in {"refresh", "mergable", "poll", "read"} => item' \in PRs,
           patching' \in NewBranch => BranchOf[item'] \notin DOMAIN on
    PROVE  RepoInv'
BY DEF RepoInv, Repos!BranchIsRecorded, Repos!PickIsWhole, Repos!PileUp, Repos!BackWithAll,
       Repos!Content

\* ... and after each step.
LEMMA RepoNext ==
    ASSUME Repos!PatchAssumption, RepoInv, [Repos!Next]_(Repos!vars) PROVE RepoInv'
<1> USE DEF Repos!None
<1>1. CASE Repos!Pull
  <2>1. Repos!TypeOK'
    BY <1>1 DEF Repos!Pull, RepoInv, Repos!TypeOK, Repos!git, Repos!Calls
  <2> QED BY <1>1, <2>1, RepoSame DEF Repos!Pull, Repos!git, RepoInv, NewBranch
<1>2. CASE Repos!Clone
  <2>1. Repos!TypeOK'
    BY <1>2 DEF Repos!Clone, RepoInv, Repos!TypeOK, Repos!git, Repos!Calls
  <2> QED BY <1>2, <2>1, RepoSame DEF Repos!Clone, Repos!git, RepoInv, NewBranch
<1>3. CASE Repos!Copy
  <2>1. Repos!TypeOK'
    BY <1>3 DEF Repos!Copy, RepoInv, Repos!TypeOK, Repos!git, Repos!Calls
  <2> QED BY <1>3, <2>1, RepoSame DEF Repos!Copy, Repos!git, RepoInv, NewBranch
<1>4. CASE \E i \in Repos!Item : Repos!Ask(i)
  <2>0. PICK i \in Repos!Item : Repos!Ask(i)
    BY <1>4
  <2>1. Repos!TypeOK'
    BY <2>0 DEF Repos!Ask, RepoInv, Repos!TypeOK, Repos!git, Repos!Calls, Repos!PatchAssumption
  <2> QED BY <2>0, <2>1, RepoSame DEF Repos!Ask, Repos!git, RepoInv, NewBranch
<1>5. CASE Repos!Refused
  <2>1. Repos!TypeOK'
    BY <1>5 DEF Repos!Refused, Repos!Raise, RepoInv, Repos!TypeOK, Repos!git, Repos!Calls
  <2> QED BY <1>5, <2>1, RepoSame DEF Repos!Refused, Repos!Raise, Repos!git, RepoInv, NewBranch
<1>6. CASE Repos!Refresh
  <2>1. Repos!TypeOK'
    BY <1>6 DEF Repos!Refresh, RepoInv, Repos!TypeOK, Repos!git, Repos!Calls, Repos!PatchAssumption
  <2> QED BY <1>6, <2>1, RepoSame DEF Repos!Refresh, Repos!git, RepoInv, NewBranch
<1>7. CASE Repos!Look
  <2>1. Repos!TypeOK'
    BY <1>7 DEF Repos!Look, Repos!Raise, RepoInv, Repos!TypeOK, Repos!git, Repos!Calls
  <2> QED BY <1>7, <2>1, RepoSame DEF Repos!Look, Repos!Raise, Repos!git, RepoInv, NewBranch
<1>8. ASSUME NEW r \in {"true", "false"}, item \in Repos!Item, Repos!Return(r)
      PROVE  /\ result' \in [Repos!Item -> {Repos!None, "true", "false"}] /\ item' = Repos!None
             /\ result'[item] = r /\ \A i \in Repos!Item \ {item} : result'[i] = result[i]
             /\ patching' = "ready"
  BY <1>8 DEF Repos!Return, RepoInv, Repos!TypeOK
<1>9. \A i \in Changes : i \notin PRs /\ i \notin Patches
  BY DEF Repos!PatchAssumption
<1>10. CASE Repos!Judge
  <2>1. item \in PRs /\ item \in Repos!Item
    BY <1>10 DEF RepoInv, Repos!Judge, Repos!Item
  <2>2. CASE Repos!Mergable
    <3>1. Repos!TypeOK'
      BY <1>10, <2>2 DEF Repos!Judge, RepoInv, Repos!TypeOK, Repos!git, Repos!Calls
    <3> QED BY <1>10, <2>2, <3>1, RepoSame DEF Repos!Judge, Repos!git, RepoInv, NewBranch
  <2>3. CASE ~Repos!Mergable
    <3>1. Repos!Return("true")
      BY <1>10, <2>3 DEF Repos!Judge
    <3>2. Repos!TypeOK'
      BY <1>8, <1>10, <2>1, <3>1 DEF Repos!Judge, RepoInv, Repos!TypeOK, Repos!git, Repos!Calls
    <3> QED BY <1>8, <1>9, <1>10, <2>1, <3>1, <3>2, RepoSame
            DEF Repos!Judge, Repos!git, RepoInv, NewBranch, Repos!Item
  <2> QED BY <2>2, <2>3
<1>11. CASE Repos!Read
  <2>1. item \in PRs /\ item \in Repos!Item
    BY <1>11 DEF RepoInv, Repos!Read, Repos!Item
  <2>2. CASE Repos!Return("true")
    <3>2. Repos!TypeOK'
      BY <1>8, <1>11, <2>1, <2>2 DEF Repos!Read, RepoInv, Repos!TypeOK, Repos!git, Repos!Calls
    <3> QED BY <1>8, <1>9, <1>11, <2>1, <2>2, <3>2, RepoSame
            DEF Repos!Read, Repos!git, RepoInv, NewBranch, Repos!Item
  <2>3. CASE ~Repos!Return("true")
    <3>1. Repos!TypeOK'
      BY <1>11, <2>3 DEF Repos!Read, Repos!Raise, RepoInv, Repos!TypeOK, Repos!git, Repos!Calls
    <3> QED
      BY <1>11, <2>3, <3>1, RepoSame DEF Repos!Read, Repos!Raise, Repos!git, RepoInv, NewBranch
  <2> QED BY <2>2, <2>3
<1>12. CASE Repos!FindPatch
  <2>1. Repos!TypeOK'
    BY <1>12 DEF Repos!FindPatch, Repos!Raise, RepoInv, Repos!TypeOK, Repos!git, Repos!Calls
  <2> QED BY <1>12, <2>1, RepoSame DEF Repos!FindPatch, Repos!Raise, Repos!git, RepoInv, NewBranch
\* What a checkout that is not refused does.
<1>13. ASSUME NEW b \in Branch, Repos!CheckedOut(b)
       PROVE  /\ head' = b /\ current' = b /\ DOMAIN on' = DOMAIN on \cup {b}
              /\ \A x \in DOMAIN on : on'[x] = on[x]
              /\ b \notin DOMAIN on => on'[b] = on[head]
  <2>1. CASE Repos!Listed(b)
    BY <1>13, <2>1 DEF Repos!CheckedOut
  <2>2. CASE ~Repos!Listed(b)
    <3>1. b \notin DOMAIN on
      BY <2>2 DEF Repos!Listed, Repos!PatchAssumption
    <3>2. on' = [x \in DOMAIN on \cup {b} |-> on[IF x = b THEN head ELSE x]]
      BY <1>13, <2>2 DEF Repos!CheckedOut
    <3> QED BY <1>13, <2>2, <3>1, <3>2 DEF Repos!CheckedOut
  <2> QED BY <2>1, <2>2
<1>14. CASE Repos!Checkout
  <2>1. /\ patching = "checkout" /\ item \in Repos!Item /\ BranchOf[item] \in Branch
        /\ BranchOf[item] \notin DOMAIN on /\ item \in requested
        /\ UNCHANGED <<requested, cache, attempts, data, loose, session, changed, saved>>
    BY <1>14 DEF Repos!Checkout, RepoInv, Repos!TypeOK, Repos!Calls, NewBranch,
                 Repos!PatchAssumption
  <2>2. CASE Repos!NotCheckedOut(BranchOf[item]) /\ Repos!Return("false")
    <3>1. UNCHANGED <<on, head, current>>
      BY <2>2 DEF Repos!NotCheckedOut
    <3>2. Repos!TypeOK'
      BY <1>8, <2>1, <2>2, <3>1 DEF RepoInv, Repos!TypeOK, Repos!Calls
    <3> QED BY <1>8, <2>1, <2>2, <3>1, <3>2, RepoSame DEF RepoInv, NewBranch, Repos!Item
  <2>3. CASE /\ Repos!CheckedOut(BranchOf[item]) /\ UNCHANGED <<item, result>>
             /\ patching' = (CASE item \in PRs -> "am" [] item \in Patches -> "patch"
                               [] OTHER -> "pick")
    <3>1. /\ item \in PRs => patching' = "am"
          /\ item \in Patches => patching' = "patch"
          /\ item \in Changes => patching' = "pick"
      BY <1>9, <2>3 DEF Repos!PatchAssumption
    <3>2. patching' \in {"am", "patch", "pick"}
      BY <2>1, <3>1 DEF Repos!Item
    <3>3. Repos!TypeOK'
      BY <1>13, <2>1, <2>3, <3>2, ZenonT(60) DEF RepoInv, Repos!TypeOK, Repos!Calls
    <3>4. Repos!Content' = Repos!Content
      BY <1>13, <2>1, <2>3 DEF Repos!Content
    <3>5. \A i \in Repos!Item \ requested : BranchOf[i] \notin DOMAIN on'
      BY <1>13, <2>1, <2>3, ZenonT(60) DEF RepoInv, Repos!PatchAssumption
    <3>6. /\ Repos!BranchIsRecorded' /\ Repos!PickIsWhole' /\ Repos!PileUp' /\ Repos!BackWithAll'
      BY <1>13, <2>1, <2>3, <3>2, <3>4
         DEF RepoInv, Repos!BranchIsRecorded, Repos!PickIsWhole, Repos!PileUp, Repos!BackWithAll
    <3> QED BY <2>1, <2>3, <3>1, <3>2, <3>3, <3>5, <3>6 DEF RepoInv, NewBranch, Repos!Item
  <2> QED BY <1>14, <2>2, <2>3 DEF Repos!Checkout
\* What a commit does.
<1>15. ASSUME item \in Repos!Item, Repos!Commit
       PROVE  /\ DOMAIN on' = DOMAIN on /\ on'[head] = on[head] \cup {item}
              /\ \A x \in DOMAIN on : on[x] \subseteq on'[x] /\ on'[x] \subseteq on[x] \cup {item}
  BY <1>15 DEF Repos!Commit, RepoInv, Repos!TypeOK
<1>16. CASE Repos!ApplyPR
  <2>1. /\ patching = "am" /\ item \in PRs /\ item \in Repos!Item /\ item \in requested
        /\ UNCHANGED <<requested, cache, attempts, data, head, current, changed, saved, loose>>
    BY <1>16 DEF Repos!ApplyPR, Repos!Am, RepoInv, Repos!Item, Repos!PatchAssumption
  <2>2. CASE Repos!Am /\ patching' = "files" /\ UNCHANGED <<item, result>>
    <3>1. Repos!TypeOK'
      BY <1>15, <2>1, <2>2 DEF Repos!Am, RepoInv, Repos!TypeOK, Repos!Calls
    <3>2. /\ Repos!BranchIsRecorded' /\ Repos!PickIsWhole' /\ Repos!PileUp' /\ Repos!BackWithAll'
      BY <1>15, <2>1, <2>2
         DEF RepoInv, Repos!BranchIsRecorded, Repos!PickIsWhole, Repos!PileUp, Repos!BackWithAll,
             Repos!Content, Repos!Am
    <3> QED BY <1>15, <2>1, <2>2, <3>1, <3>2 DEF RepoInv, NewBranch, Repos!Am
  <2>3. CASE Repos!AmFails /\ Repos!Return("false")
    <3>1. Repos!TypeOK'
      BY <1>8, <2>1, <2>3 DEF Repos!AmFails, RepoInv, Repos!TypeOK, Repos!Calls
    <3>2. /\ Repos!BranchIsRecorded' /\ Repos!PickIsWhole' /\ Repos!PileUp' /\ Repos!BackWithAll'
      BY <1>8, <1>9, <2>1, <2>3
         DEF RepoInv, Repos!BranchIsRecorded, Repos!PickIsWhole, Repos!PileUp, Repos!BackWithAll,
             Repos!Content, Repos!AmFails, Repos!Item
    <3> QED BY <1>8, <2>1, <2>3, <3>1, <3>2 DEF RepoInv, NewBranch, Repos!AmFails
  <2> QED BY <1>16, <2>2, <2>3 DEF Repos!ApplyPR
<1>17. CASE Repos!ListFiles
  <2>1. /\ patching = "files" /\ item \in PRs /\ item \in Repos!Item /\ item \in on[head]
        /\ UNCHANGED <<requested, cache, attempts, data, on, head, loose, session, current, saved>>
    BY <1>17 DEF Repos!ListFiles, Repos!git, RepoInv, Repos!Item
  <2>2. CASE changed' = changed \cup {item} /\ Repos!Return("true")
    <3>1. Repos!TypeOK'
      BY <1>8, <2>1, <2>2 DEF RepoInv, Repos!TypeOK, Repos!Calls
    <3>2. /\ Repos!BranchIsRecorded' /\ Repos!PickIsWhole' /\ Repos!PileUp' /\ Repos!BackWithAll'
      BY <1>8, <1>9, <2>1, <2>2
         DEF RepoInv, Repos!BranchIsRecorded, Repos!PickIsWhole, Repos!PileUp, Repos!BackWithAll,
             Repos!Content, Repos!Item
    <3> QED BY <1>8, <2>1, <2>2, <3>1, <3>2 DEF RepoInv, NewBranch
  <2>3. CASE Repos!Raise /\ UNCHANGED changed
    <3>1. Repos!TypeOK'
      BY <2>1, <2>3 DEF Repos!Raise, RepoInv, Repos!TypeOK, Repos!Calls
    <3> QED BY <2>1, <2>3, <3>1, RepoSame DEF Repos!Raise, RepoInv, NewBranch
  <2> QED BY <1>17, <2>2, <2>3 DEF Repos!ListFiles
<1>18. CASE Repos!ApplyPatch
  <2>1. /\ patching = "patch" /\ item \in Patches /\ item \in Repos!Item /\ Repos!Return("true")
        /\ UNCHANGED <<requested, cache, attempts, data, head, current, changed, saved>>
    BY <1>18 DEF Repos!ApplyPatch, RepoInv, Repos!Item
  <2>2. /\ DOMAIN on' = DOMAIN on /\ loose \subseteq loose' /\ loose' \subseteq loose \cup {item}
        /\ \A x \in DOMAIN on : on[x] \subseteq on'[x] /\ on'[x] \subseteq on[x] \cup {item}
        /\ session' \in {session, "am"}
    BY <1>15, <1>18, <2>1 DEF Repos!ApplyPatch, Repos!Am, Repos!AmFails
  <2>3. Repos!TypeOK'
    BY <1>8, <2>1, <2>2 DEF RepoInv, Repos!TypeOK, Repos!Calls
  <2>4. /\ Repos!BranchIsRecorded' /\ Repos!PickIsWhole' /\ Repos!PileUp' /\ Repos!BackWithAll'
    BY <1>8, <1>9, <2>1, <2>2
       DEF RepoInv, Repos!BranchIsRecorded, Repos!PickIsWhole, Repos!PileUp, Repos!BackWithAll,
           Repos!Content, Repos!Item, Repos!TypeOK
  <2> QED BY <1>8, <2>1, <2>2, <2>3, <2>4 DEF RepoInv, NewBranch
<1>19. CASE Repos!Pick
  <2>1. /\ patching = "pick" /\ item \in Changes /\ item \in Repos!Item
        /\ UNCHANGED <<requested, cache, attempts, data, head, loose, session, current, changed,
                       saved>>
    BY <1>19 DEF Repos!Pick, RepoInv, Repos!Item
  <2>2. CASE Repos!Commit /\ Repos!Return("true")
    <3>1. Repos!TypeOK'
      BY <1>8, <1>15, <2>1, <2>2 DEF RepoInv, Repos!TypeOK, Repos!Calls
    <3>2. /\ Repos!BranchIsRecorded' /\ Repos!PickIsWhole' /\ Repos!PileUp' /\ Repos!BackWithAll'
      BY <1>8, <1>15, <2>1, <2>2
         DEF RepoInv, Repos!BranchIsRecorded, Repos!PickIsWhole, Repos!PileUp, Repos!BackWithAll,
             Repos!Content, Repos!Item, Repos!TypeOK
    <3> QED BY <1>8, <1>15, <2>1, <2>2, <3>1, <3>2 DEF RepoInv, NewBranch
  <2>3. CASE Repos!Return("false") /\ UNCHANGED on
    <3>1. Repos!TypeOK'
      BY <1>8, <2>1, <2>3 DEF RepoInv, Repos!TypeOK, Repos!Calls
    <3> QED BY <1>8, <2>1, <2>3, <3>1, RepoSame DEF RepoInv, NewBranch, Repos!Item
  <2> QED BY <1>19, <2>2, <2>3 DEF Repos!Pick
<1>20. CASE Repos!ToMaster
  <2>1. /\ patching = "ready" /\ current # "none" /\ saved' = current /\ patching' = "master"
        /\ UNCHANGED <<item, requested, result, cache, attempts, data, loose, session, changed>>
        /\ current = head /\ head \in DOMAIN on /\ changed \subseteq on[head] \cup loose
        /\ MasterBranch \in Branch /\ item = "none"
    BY <1>20 DEF Repos!ToMaster, RepoInv, Repos!BranchIsRecorded, Repos!TypeOK, Repos!PileUp,
                 Repos!Content, Repos!PatchAssumption, Repos!Calls
  <2>2. /\ DOMAIN on \subseteq DOMAIN on' /\ DOMAIN on' \subseteq DOMAIN on \cup {MasterBranch}
        /\ \A x \in DOMAIN on : on'[x] = on[x]
        /\ \A x \in DOMAIN on' : on'[x] \in {on[y] : y \in DOMAIN on}
        /\ head' \in DOMAIN on' /\ (current' = head' \/ UNCHANGED <<head, current>>)
    <3>1. CASE Repos!CheckedOut(MasterBranch)
      <4>1. CASE MasterBranch \in DOMAIN on
        BY <1>13, <2>1, <3>1, <4>1
      <4>2. CASE MasterBranch \notin DOMAIN on
        BY <1>13, <2>1, <3>1, <4>2
      <4> QED BY <4>1, <4>2
    <3>2. CASE Repos!NotCheckedOut(MasterBranch)
      BY <2>1, <3>2 DEF Repos!NotCheckedOut
    <3> QED BY <1>20, <3>1, <3>2 DEF Repos!ToMaster
  <2>3. Repos!TypeOK'
    BY <2>1, <2>2 DEF RepoInv, Repos!TypeOK, Repos!Calls
  <2>4. \A i \in Repos!Item \ requested : BranchOf[i] \notin DOMAIN on'
    BY <2>1, <2>2 DEF RepoInv, Repos!PatchAssumption
  <2>5. /\ Repos!BranchIsRecorded' /\ Repos!PickIsWhole' /\ Repos!PileUp' /\ Repos!BackWithAll'
    BY <2>1, <2>2
       DEF RepoInv, Repos!BranchIsRecorded, Repos!PickIsWhole, Repos!PileUp, Repos!BackWithAll
  <2> QED BY <2>1, <2>2, <2>3, <2>4, <2>5 DEF RepoInv, NewBranch
<1>21. CASE Repos!Back
  <2>1. /\ patching = "master" /\ patching' = "done" /\ saved \in DOMAIN on /\ item = "none"
        /\ UNCHANGED <<item, requested, result, cache, attempts, data, loose, session, changed,
                       saved>>
        /\ changed \subseteq on[saved] \cup loose /\ saved \in Branch
    BY <1>21 DEF Repos!Back, RepoInv, Repos!TypeOK, Repos!Calls
  <2>2. /\ DOMAIN on' = DOMAIN on /\ \A x \in DOMAIN on : on'[x] = on[x]
        /\ head' \in DOMAIN on /\ (current' = head' \/ UNCHANGED <<head, current>>)
    <3>1. CASE Repos!CheckedOut(saved)
      BY <1>13, <2>1, <3>1
    <3>2. CASE Repos!NotCheckedOut(saved)
      BY <2>1, <3>2 DEF Repos!NotCheckedOut, RepoInv, Repos!TypeOK
    <3> QED BY <1>21, <3>1, <3>2 DEF Repos!Back
  <2>3. Repos!TypeOK'
    BY <2>1, <2>2 DEF RepoInv, Repos!TypeOK, Repos!Calls
  <2>5. /\ Repos!BranchIsRecorded' /\ Repos!PickIsWhole' /\ Repos!PileUp' /\ Repos!BackWithAll'
    BY <2>1, <2>2
       DEF RepoInv, Repos!BranchIsRecorded, Repos!PickIsWhole, Repos!PileUp, Repos!BackWithAll,
           Repos!Content
  <2> QED BY <2>1, <2>2, <2>3, <2>5 DEF RepoInv, NewBranch
<1>22. CASE Repos!Finish
  <2>1. Repos!TypeOK'
    BY <1>22 DEF Repos!Finish, RepoInv, Repos!TypeOK, Repos!git, Repos!Calls
  <2> QED BY <1>22, <2>1
          DEF Repos!Finish, Repos!git, RepoInv, NewBranch, Repos!BranchIsRecorded,
              Repos!PickIsWhole, Repos!PileUp, Repos!BackWithAll, Repos!Content
<1>23. CASE UNCHANGED Repos!vars
  BY <1>23 DEF Repos!vars, Repos!git, RepoInv, NewBranch, Repos!BranchIsRecorded,
              Repos!PickIsWhole, Repos!PileUp, Repos!BackWithAll, Repos!Content, Repos!TypeOK
<1> QED
  BY <1>1, <1>2, <1>3, <1>4, <1>5, <1>6, <1>7, <1>10, <1>11, <1>12, <1>14, <1>16, <1>17, <1>18,
     <1>19, <1>20, <1>21, <1>22, <1>23 DEF Repos!Next

\* Nothing that was applied gets lost.
THEOREM RepoHolds ==
    ASSUME Repos!PatchAssumption
    PROVE  Repos!Spec => [](/\ Repos!TypeOK /\ Repos!PileUp /\ Repos!BranchIsRecorded
                            /\ Repos!BackWithAll /\ Repos!PickIsWhole)
<1>1. RepoInv => /\ Repos!TypeOK /\ Repos!PileUp /\ Repos!BranchIsRecorded
                 /\ Repos!BackWithAll /\ Repos!PickIsWhole
  BY DEF RepoInv
<1> QED BY <1>1, RepoInit, RepoNext, PTL DEF Repos!Spec

-----------------------------------------------------------------------------
(* Which tests are run. *)

\* What is left of the options, before --only-change and with it.
OnlyAsked ==
    IF params.slice \cap DOMAIN Slice = {} THEN params.only
    ELSE IF params.only = NoOnly THEN Plan!AsOnly ELSE params.only \cup Plan!AsOnly
OnlyLeft ==
    IF ~params.only_change THEN OnlyAsked
    ELSE IF OnlyAsked = NoOnly THEN ChangedOnly ELSE OnlyAsked \cap ChangedOnly
NosAsked == Plan!Other \cup params.no

\* Branches with all changes, and with none; what is listed and not blacklisted.
AllPatch  == [r \in Repo |-> "patch"]
AllMaster == [r \in Repo |-> "master"]
Skipping(t) == Plan!Entries(t, TRUE)
Whole(b)  == {t \in Plan!Filtered(b) : Skipping(t) = {}}
Skips(t)  == Plan!Cardinality(Skipping(t))
Marks(t)  == Plan!Cardinality(Plan!Entries(t, FALSE))

Before == {"params", "slice", "change", "list", "with"}
Once   == {"master", "bootstrap", "without"}
Twice  == {"back", "rebootstrap", "select"}
Last   == {"check", "done", "refused"}

\* The options are read one after the other.
OptionsInv ==
    /\ planning = "slice" => onlys = params.only /\ nos = {}
    /\ planning = "change" => onlys = OnlyAsked /\ nos = NosAsked
    /\ planning \in {"list", "with"} \cup Once \cup Twice \cup Last =>
           onlys = OnlyLeft /\ nos = NosAsked
    /\ planning = "list" => ~params.only_change
    /\ planning \in {"with"} \cup Once \cup Twice => params.only_change

\* No test is reported before the first list, and none more than the lists there were.
SkipsInv ==
    /\ planning \in Before => \A t \in Test : skips[t] = 0
    /\ planning \in Once => \A t \in Test : skips[t] <= Skips(t)
    /\ \A t \in Test : /\ skips[t] <= 2 * Skips(t)
                       /\ skips[t] > 0 => t \in Plan!Asked(AllPatch)
    /\ planning \in Last /\ ~params.only_change =>
           \A t \in Test : skips[t] = IF t \in Plan!Filtered(AllPatch) THEN Skips(t) ELSE 0

\* What is listed, and what is picked of it.
ListsInv ==
    /\ planning \in Before => branches = AllPatch /\ stuck = {}
    /\ planning = "master" => branches = AllPatch
    /\ planning \in {"bootstrap", "without"} /\ stuck = {} => branches = AllMaster
    /\ planning \in {"rebootstrap", "select"} \cup Last /\ stuck = {} => branches = AllPatch
    /\ planning \in Once \cup Twice => with = Whole(AllPatch)
    /\ planning \in Twice /\ stuck = {} => without = Whole(AllMaster)
    /\ planning \in Last /\ ~params.only_change =>
           branches = AllPatch /\ tests = Whole(AllPatch)
    /\ planning \in Last /\ params.only_change =>
           /\ tests \subseteq Whole(AllPatch)
           /\ stuck = {} => /\ Whole(AllPatch) \ Base \subseteq tests
                            /\ Plan!Cardinality(tests \cap Base) <= Additional
PlanInv == Plan!TypeOK /\ OptionsInv /\ SkipsInv /\ ListsInv

\* Cardinality of the instance is that of the library.
LEMMA PlanCardinality == \A S : Plan!Cardinality(S) = Cardinality(S)
BY Zenon DEF Plan!Cardinality, Cardinality

\* What is listed was asked for; without --only-change it is all that was asked for.
LEMMA FilteredIsAsked ==
    ASSUME Plan!PlanAssumption, Plan!TypeOK, onlys = OnlyLeft, nos = NosAsked, NEW b
    PROVE  /\ Plan!Filtered(b) \subseteq Plan!Asked(b)
           /\ ~params.only_change => Plan!Filtered(b) = Plan!Asked(b)
<1> USE DEF Plan!TypeOK, Plan!PlanAssumption
<1>1. /\ params.only = NoOnly \/ params.only \subseteq Pattern
      /\ params.no \subseteq Pattern /\ NoOnly \notin SUBSET Pattern
      /\ \A p \in Pattern : Hits[p] \subseteq Test
  OBVIOUS
<1>2. Plan!AsOnly \subseteq Pattern /\ Plan!Other \subseteq Pattern
  BY DEF Plan!AsOnly, Plan!Other
<1>3. ~(onlys = {} /\ onlys = NoOnly)
  BY <1>1
<1>4. \A t : t \in Plan!Any(nos) <=> \E p \in params.no \cup Plan!Other : t \in Hits[p]
  BY DEF Plan!Any, NosAsked
<1>5. \A S : S # NoOnly => \A t : t \in Plan!Any(S) <=> \E p \in S : t \in Hits[p]
  BY DEF Plan!Any
<1> DEFINE picky == params.only # NoOnly \/ params.slice \cap DOMAIN Slice # {}
           wanted == (IF params.only = NoOnly THEN {} ELSE params.only) \cup Plan!AsOnly
<1>6. wanted \subseteq Pattern
  BY <1>1, <1>2
<1>7. /\ ~picky => OnlyAsked = NoOnly
      /\ picky => OnlyAsked = wanted
  BY DEF OnlyAsked, Plan!AsOnly
<1>8. \A t : t \in Plan!Asked(b) <=>
             /\ t \in Plan!Exists(b)
             /\ picky => \E p \in wanted : t \in Hits[p]
             /\ t \notin Plan!Any(nos)
  BY <1>4, <1>6 DEF Plan!Asked
<1> HIDE DEF picky, wanted
<1>9. \A t : t \in Plan!Filtered(b) <=>
             /\ t \in Plan!Exists(b)
             /\ onlys # NoOnly => t \in Plan!Any(onlys)
             /\ t \notin Plan!Any(nos)
  BY <1>1, <1>3, <1>5 DEF Plan!Filtered
<1>10. ASSUME NEW t \in Plan!Filtered(b) PROVE t \in Plan!Asked(b)
  <2>1. CASE picky
    <3>1. OnlyAsked \subseteq Pattern /\ OnlyAsked # NoOnly
      BY <1>1, <1>6, <1>7, <2>1
    <3>2. onlys # NoOnly /\ onlys \subseteq wanted
      BY <1>1, <1>7, <2>1, <3>1 DEF OnlyLeft
    <3> QED BY <1>5, <1>8, <1>9, <3>2
  <2> QED BY <1>8, <1>9, <2>1
<1>11. ASSUME ~params.only_change, NEW t \in Plan!Asked(b) PROVE t \in Plan!Filtered(b)
  <2>1. onlys = OnlyAsked
    BY <1>11 DEF OnlyLeft
  <2> QED BY <1>5, <1>7, <1>8, <1>9, <1>11, <2>1
<1> QED BY <1>10, <1>11

\* A test that was asked for on some branches was asked for with all changes, and one of
\* all branches is listed on master, too.
LEMMA AskedOfAll ==
    ASSUME Plan!PlanAssumption, Plan!TypeOK, NEW b
    PROVE  /\ Plan!Asked(b) \subseteq Plan!Asked(AllPatch)
           /\ Plan!Exists(AllMaster) = Base
           /\ Whole(AllPatch) \cap Base \subseteq Whole(AllMaster)
           /\ Whole(AllMaster) \subseteq Base
<1>1. Plan!Exists(b) \subseteq Plan!Exists(AllPatch)
  BY DEF Plan!Exists, AllPatch
<1>2. Plan!Exists(AllMaster) = Base
  BY DEF Plan!Exists, AllMaster
<1>3. Plan!Asked(b) \subseteq Plan!Asked(AllPatch)
  BY <1>1 DEF Plan!Asked
<1>4. \A d : Plan!Filtered(d) \subseteq Plan!Exists(d)
  BY DEF Plan!Filtered
<1>5. Plan!Filtered(AllPatch) \cap Base \subseteq Plan!Filtered(AllMaster)
  BY <1>2 DEF Plan!Filtered
<1> QED BY <1>2, <1>3, <1>4, <1>5 DEF Whole

\* What is listed are tests.
LEMMA ListedAreTests ==
    ASSUME Plan!PlanAssumption, NEW b
    PROVE  Plan!Filtered(b) \subseteq Test /\ Whole(b) \subseteq Test
<1>1. Plan!Exists(b) \subseteq Test
  BY DEF Plan!Exists, Plan!PlanAssumption
<1> QED BY <1>1 DEF Plan!Filtered, Whole

\* A test without an entry that skips it is never reported, one with such an entry is.
LEMMA SkipsCount ==
    ASSUME Plan!PlanAssumption, NEW t
    PROVE  Skips(t) \in Nat /\ (Skips(t) = 0 <=> Skipping(t) = {}) /\ Marks(t) \in Nat
<1>1. IsFiniteSet(Blacklist)
  BY Zenon DEF Plan!PlanAssumption, IsFiniteSet, Plan!IsFiniteSet
<1>2. IsFiniteSet(Plan!Entries(t, TRUE)) /\ IsFiniteSet(Plan!Entries(t, FALSE))
  BY <1>1, FS_Subset DEF Plan!Entries
<1> QED BY <1>2, FS_CardinalityType, FS_EmptySet, PlanCardinality DEF Skips, Marks, Skipping

\* What a list does.
LEMMA ListDoes ==
    ASSUME Plan!PlanAssumption, Plan!TypeOK, Plan!GetTests
    PROVE  /\ Plan!Left = Whole(branches)
           /\ skips' \in [Test -> Nat] /\ ignores' \in [Test -> Nat]
           /\ \A t \in Test :
                 skips'[t] = skips[t] + IF t \in Plan!Filtered(branches) THEN Skips(t) ELSE 0
<1>1. Plan!Left = Whole(branches)
  BY DEF Plan!Left, Plan!Blacked, Whole, Skipping
<1>2. skips' = [t \in Test |-> skips[t] + IF t \in Plan!Filtered(branches) THEN Skips(t) ELSE 0]
  BY DEF Plan!GetTests, Plan!Reports, Skips, Skipping
<1>3. ASSUME NEW t \in Test
      PROVE  skips[t] + (IF t \in Plan!Filtered(branches) THEN Skips(t) ELSE 0) \in Nat
  <2>1. skips[t] \in Nat /\ Skips(t) \in Nat
    BY SkipsCount DEF Plan!TypeOK
  <2> QED BY <2>1
<1>4. ignores' = [t \in Test |-> ignores[t]
                      + IF t \in Plan!Filtered(branches) THEN Marks(t) ELSE 0]
  BY DEF Plan!GetTests, Marks
<1>5. ASSUME NEW t \in Test
      PROVE  ignores[t] + (IF t \in Plan!Filtered(branches) THEN Marks(t) ELSE 0) \in Nat
  <2>1. ignores[t] \in Nat /\ Marks(t) \in Nat
    BY SkipsCount DEF Plan!TypeOK
  <2> QED BY <2>1
<1>6. ignores' \in [Test -> Nat]
  BY <1>4, <1>5
<1>7. skips' \in [Test -> Nat]
  BY <1>2, <1>3
<1> QED BY <1>1, <1>2, <1>6, <1>7

\* The invariant holds initially ...
LEMMA PlanInit == Plan!PlanAssumption /\ Plan!Init => PlanInv
<1> SUFFICES ASSUME Plan!PlanAssumption, Plan!Init PROVE PlanInv
  OBVIOUS
<1>1. \A t \in Test : 0 <= 2 * Skips(t)
  BY SkipsCount
<1>2. Plan!TypeOK
  BY DEF Plan!Init, Plan!TypeOK
<1> QED
  BY <1>1, <1>2 DEF Plan!Init, PlanInv, OptionsInv, SkipsInv, ListsInv, Before, Once, Twice, Last,
                    AllPatch

\* ... and after each step.
LEMMA PlanNext ==
    ASSUME Plan!PlanAssumption, PlanInv, [Plan!Next]_(Plan!vars) PROVE PlanInv'
<1> USE DEF Before, Once, Twice, Last
\* What is said of options, tests and branches that stay.
<1>1. ASSUME UNCHANGED params
      PROVE  /\ OnlyAsked' = OnlyAsked /\ OnlyLeft' = OnlyLeft /\ NosAsked' = NosAsked
             /\ \A b : Plan!Asked(b)' = Plan!Asked(b)
  BY <1>1 DEF OnlyAsked, OnlyLeft, NosAsked, Plan!AsOnly, Plan!Other, Plan!Asked, Plan!Exists
<1>2. ASSUME UNCHANGED <<onlys, nos>>
      PROVE  \A b : Plan!Filtered(b)' = Plan!Filtered(b) /\ Whole(b)' = Whole(b)
  BY <1>2 DEF Plan!Filtered, Whole, Plan!Exists, Plan!Any, Plan!Entries, Skipping
<1>3. ASSUME planning \in {"with", "list"} \cup Once \cup Twice \cup Last
      PROVE  /\ \A b : Plan!Filtered(b) \subseteq Plan!Asked(AllPatch)
             /\ \A b : Whole(b) \subseteq Test
  BY <1>3, FilteredIsAsked, AskedOfAll, ListedAreTests DEF PlanInv, OptionsInv
<1>4. CASE Plan!ReadParams
  <2>1. Plan!TypeOK'
    BY <1>4 DEF Plan!ReadParams, PlanInv, Plan!TypeOK, Plan!PlanAssumption
  <2>2. OptionsInv'
    BY <1>4 DEF Plan!ReadParams, OptionsInv
  <2>3. SkipsInv'
    BY <1>1, <1>4 DEF Plan!ReadParams, PlanInv, SkipsInv
  <2>4. ListsInv'
    BY <1>4 DEF Plan!ReadParams, PlanInv, ListsInv
  <2> QED BY <2>1, <2>2, <2>3, <2>4 DEF PlanInv
<1>5. CASE Plan!ReadSlice
  <2>0. /\ onlys' = OnlyAsked /\ nos' = NosAsked /\ UNCHANGED params
        /\ planning = "slice" /\ planning' = "change"
    BY <1>5 DEF Plan!ReadSlice, PlanInv, OptionsInv, OnlyAsked, NosAsked
  <2>1. OnlyAsked = NoOnly \/ OnlyAsked \subseteq Pattern
    BY DEF OnlyAsked, Plan!AsOnly, PlanInv, Plan!TypeOK, Plan!PlanAssumption
  <2>2. NosAsked \subseteq Pattern
    BY DEF NosAsked, Plan!Other, PlanInv, Plan!TypeOK, Plan!PlanAssumption
  <2>3. Plan!TypeOK'
    BY <1>5, <2>0, <2>1, <2>2 DEF Plan!ReadSlice, PlanInv, Plan!TypeOK
  <2>4. OptionsInv'
    BY <1>1, <2>0 DEF OptionsInv
  <2>5. SkipsInv'
    BY <1>1, <1>5 DEF Plan!ReadSlice, PlanInv, SkipsInv
  <2>6. ListsInv'
    BY <1>5 DEF Plan!ReadSlice, PlanInv, ListsInv
  <2> QED BY <2>3, <2>4, <2>5, <2>6 DEF PlanInv
<1>6. CASE Plan!SliceFails
  <2>1. Plan!TypeOK'
    BY <1>6 DEF Plan!SliceFails, PlanInv, Plan!TypeOK
  <2>2. OptionsInv'
    BY <1>6 DEF Plan!SliceFails, OptionsInv
  <2>3. SkipsInv'
    BY <1>1, <1>6 DEF Plan!SliceFails, PlanInv, SkipsInv
  <2>4. ListsInv'
    BY <1>6 DEF Plan!SliceFails, PlanInv, ListsInv
  <2> QED BY <2>1, <2>2, <2>3, <2>4 DEF PlanInv
<1>7. CASE Plan!ReadChange
  <2>0. /\ onlys' = OnlyLeft /\ UNCHANGED <<params, nos>> /\ nos = NosAsked
        /\ planning = "change" /\ planning' = IF params.only_change THEN "with" ELSE "list"
    BY <1>7 DEF Plan!ReadChange, PlanInv, OptionsInv, OnlyLeft
  <2>1. OnlyLeft = NoOnly \/ OnlyLeft \subseteq Pattern
    BY <1>7, <2>0 DEF PlanInv, OptionsInv, OnlyLeft, Plan!TypeOK, Plan!PlanAssumption
  <2>3. Plan!TypeOK'
    BY <1>7, <2>0, <2>1 DEF Plan!ReadChange, PlanInv, Plan!TypeOK
  <2>4. OptionsInv'
    BY <1>1, <2>0 DEF OptionsInv
  <2>5. SkipsInv'
    BY <1>1, <1>7, <2>0 DEF Plan!ReadChange, PlanInv, SkipsInv
  <2>6. ListsInv'
    BY <1>7, <2>0 DEF Plan!ReadChange, PlanInv, ListsInv
  <2> QED BY <2>3, <2>4, <2>5, <2>6 DEF PlanInv
\* A list, the first or the second one.
<1>8. ASSUME planning \in {"list", "with", "without"}, Plan!GetTests,
             UNCHANGED <<params, onlys, nos>>,
             planning' \in {"check", "master", "back"}, (planning' = "check" <=> planning = "list"),
             planning' = "back" <=> planning = "without"
      PROVE  SkipsInv'
  <2>1. \A t \in Test :
          /\ skips'[t] = skips[t] + IF t \in Plan!Filtered(branches) THEN Skips(t) ELSE 0
          /\ skips[t] \in Nat /\ Skips(t) \in Nat
          /\ skips[t] <= Skips(t)
          /\ planning # "without" => skips[t] = 0
    BY <1>8, ListDoes, SkipsCount DEF PlanInv, SkipsInv, Plan!TypeOK
  <2>2. \A t : Skips(t)' = Skips(t)
    BY DEF Skips, Plan!Entries, Skipping
  <2>3. \A t \in Test : skips'[t] <= 2 * Skips(t) /\ (planning # "without" => skips'[t] <= Skips(t))
    BY <2>1
  <2>4. \A t \in Test : skips'[t] > 0 => t \in Plan!Asked(AllPatch)'
    BY <1>1, <1>3, <1>8, <2>1 DEF PlanInv, SkipsInv
  <2>5. planning = "list" => branches = AllPatch /\ ~params.only_change
    BY DEF PlanInv, ListsInv, OptionsInv
  <2>6. planning = "list" =>
            \A t \in Test : skips'[t] = IF t \in Plan!Filtered(AllPatch) THEN Skips(t) ELSE 0
    BY <2>1, <2>5
  <2>7. AllPatch' = AllPatch /\ Plan!Filtered(AllPatch)' = Plan!Filtered(AllPatch)
    BY <1>2, <1>8 DEF AllPatch
  <2> QED BY <1>8, <2>2, <2>3, <2>4, <2>5, <2>6, <2>7 DEF SkipsInv
<1>9. CASE Plan!ListTests
  <2>0. /\ UNCHANGED <<params, onlys, nos, branches, stuck, with, without>>
        /\ tests' = Whole(branches)
        /\ planning = "list" /\ planning' = "check" /\ ~params.only_change
        /\ branches = AllPatch /\ Plan!GetTests /\ Whole(branches) \subseteq Test
    BY <1>3, <1>9, ListDoes DEF Plan!ListTests, PlanInv, ListsInv, OptionsInv
  <2>1. Plan!TypeOK'
    BY <2>0, ListDoes DEF PlanInv, Plan!TypeOK
  <2>2. OptionsInv'
    BY <1>1, <2>0 DEF PlanInv, OptionsInv
  <2>3. SkipsInv'
    BY <1>8, <2>0
  <2>4. ListsInv'
    BY <1>1, <1>2, <2>0 DEF PlanInv, ListsInv, AllPatch
  <2> QED BY <2>1, <2>2, <2>3, <2>4 DEF PlanInv
<1>10. CASE Plan!ListWith
  <2>0. /\ UNCHANGED <<params, onlys, nos, branches, stuck, tests, without>>
        /\ with' = Whole(branches)
        /\ planning = "with" /\ planning' = "master" /\ params.only_change
        /\ branches = AllPatch /\ Plan!GetTests /\ Whole(branches) \subseteq Test
    BY <1>3, <1>10, ListDoes DEF Plan!ListWith, PlanInv, ListsInv, OptionsInv
  <2>1. Plan!TypeOK'
    BY <2>0, ListDoes DEF PlanInv, Plan!TypeOK
  <2>2. OptionsInv'
    BY <1>1, <2>0 DEF PlanInv, OptionsInv
  <2>3. SkipsInv'
    BY <1>8, <2>0
  <2>4. ListsInv'
    BY <1>1, <1>2, <2>0 DEF PlanInv, ListsInv, AllPatch
  <2> QED BY <2>1, <2>2, <2>3, <2>4 DEF PlanInv
<1>11. CASE Plan!ListWithout
  <2>0. /\ UNCHANGED <<params, onlys, nos, branches, stuck, tests, with>>
        /\ without' = Whole(branches)
        /\ planning = "without" /\ planning' = "back" /\ params.only_change
        /\ stuck = {} => branches = AllMaster
        /\ Plan!GetTests /\ Whole(branches) \subseteq Test
    BY <1>3, <1>11, ListDoes DEF Plan!ListWithout, PlanInv, ListsInv, OptionsInv
  <2>1. Plan!TypeOK'
    BY <2>0, ListDoes DEF PlanInv, Plan!TypeOK
  <2>2. OptionsInv'
    BY <1>1, <2>0 DEF PlanInv, OptionsInv
  <2>3. SkipsInv'
    BY <1>8, <2>0
  <2>4. ListsInv'
    BY <1>1, <1>2, <2>0 DEF PlanInv, ListsInv, AllPatch, AllMaster
  <2> QED BY <2>1, <2>2, <2>3, <2>4 DEF PlanInv
\* Steps that list nothing.
<1>12. ASSUME UNCHANGED <<params, onlys, nos, skips>>,
              planning' \in Before => planning \in Before,
              planning' \in Once => planning \in Once,
              planning' \in Last /\ ~params.only_change => planning \in Last
       PROVE  SkipsInv'
  <2>1. \A t : Skips(t)' = Skips(t)
    BY DEF Skips, Plan!Entries, Skipping
  <2>2. AllPatch' = AllPatch /\ Plan!Asked(AllPatch)' = Plan!Asked(AllPatch)
    BY <1>1, <1>12 DEF AllPatch
  <2>3. Plan!Filtered(AllPatch)' = Plan!Filtered(AllPatch)
    BY <1>2, <1>12, <2>2
  <2> QED BY <1>12, <2>1, <2>2, <2>3 DEF PlanInv, SkipsInv
<1>13. ASSUME NEW to \in {"patch", "master"}, Plan!Checkouts(to)
       PROVE  /\ branches' \in [Repo -> {"patch", "master"}] /\ stuck \subseteq stuck'
              /\ stuck' \subseteq Repo
              /\ stuck' = {} => branches' = [r \in Repo |-> to] /\ stuck = {}
  <2>1. PICK F \in SUBSET Repo :
             /\ branches' = [r \in Repo |-> IF r \in F THEN branches[r] ELSE to]
             /\ stuck' = stuck \cup F
    BY <1>13 DEF Plan!Checkouts
  <2>2. stuck' = {} => F = {}
    BY <2>1
  <2>3. F = {} => branches' = [r \in Repo |-> to]
    BY <2>1
  <2> QED BY <2>1, <2>2, <2>3 DEF PlanInv, Plan!TypeOK
<1>14. CASE Plan!ToMaster
  <2>0. /\ UNCHANGED <<params, onlys, nos, with, without, tests, skips, ignores>>
        /\ planning = "master" /\ planning' = "bootstrap" /\ Plan!Checkouts("master")
    BY <1>14 DEF Plan!ToMaster
  <2>1. Plan!TypeOK'
    BY <1>13, <2>0 DEF PlanInv, Plan!TypeOK
  <2>2. OptionsInv'
    BY <1>1, <2>0 DEF PlanInv, OptionsInv
  <2>3. SkipsInv'
    BY <1>12, <2>0
  <2>4. ListsInv'
    BY <1>1, <1>2, <1>13, <2>0 DEF PlanInv, ListsInv, AllPatch, AllMaster
  <2> QED BY <2>1, <2>2, <2>3, <2>4 DEF PlanInv
<1>15. CASE Plan!Back
  <2>0. /\ UNCHANGED <<params, onlys, nos, with, without, tests, skips, ignores>>
        /\ planning = "back" /\ planning' = "rebootstrap" /\ Plan!Checkouts("patch")
    BY <1>15 DEF Plan!Back
  <2>1. Plan!TypeOK'
    BY <1>13, <2>0 DEF PlanInv, Plan!TypeOK
  <2>2. OptionsInv'
    BY <1>1, <2>0 DEF PlanInv, OptionsInv
  <2>3. SkipsInv'
    BY <1>12, <2>0
  <2>4. ListsInv'
    BY <1>1, <1>2, <1>13, <2>0 DEF PlanInv, ListsInv, AllPatch, AllMaster
  <2> QED BY <2>1, <2>2, <2>3, <2>4 DEF PlanInv
<1>16. CASE Plan!Bootstrap
  <2>0. /\ UNCHANGED <<params, onlys, nos, branches, stuck, with, without, tests, skips, ignores>>
        /\ \/ planning = "bootstrap" /\ planning' = "without"
           \/ planning = "rebootstrap" /\ planning' = "select"
           \/ planning' = "raised"
    BY <1>16 DEF Plan!Bootstrap
  <2>1. Plan!TypeOK'
    BY <2>0 DEF PlanInv, Plan!TypeOK
  <2>2. OptionsInv'
    BY <1>1, <2>0 DEF PlanInv, OptionsInv
  <2>3. SkipsInv'
    BY <1>12, <2>0
  <2>4. ListsInv'
    BY <1>1, <1>2, <2>0 DEF PlanInv, ListsInv, AllPatch, AllMaster
  <2> QED BY <2>1, <2>2, <2>3, <2>4 DEF PlanInv
<1>17. CASE Plan!Select
  <2>0. /\ UNCHANGED <<params, onlys, nos, branches, stuck, with, without, skips, ignores>>
        /\ planning = "select" /\ planning' = "check" /\ params.only_change
        /\ with = Whole(AllPatch) /\ with \subseteq Test
        /\ stuck = {} => branches = AllPatch /\ without = Whole(AllMaster)
    BY <1>3, <1>17 DEF Plan!Select, PlanInv, ListsInv, OptionsInv
  <2>1. PICK S \in SUBSET Plan!LeftCases :
            /\ Plan!Cardinality(S) = Plan!Least(Additional, Plan!Cardinality(Plan!LeftCases))
            /\ tests' = Plan!New \cup S
    BY <1>17 DEF Plan!Select
  <2>2. tests' \subseteq with
    BY <2>1 DEF Plan!New, Plan!LeftCases
  <2>3. IsFiniteSet(Test)
    BY Zenon DEF Plan!PlanAssumption, PlanInv, IsFiniteSet, Plan!IsFiniteSet
  <2>4. IsFiniteSet(Plan!LeftCases) /\ IsFiniteSet(S)
    BY <2>0, <2>1, <2>3, FS_Subset DEF Plan!LeftCases
  <2>5. Cardinality(S) <= Additional
    BY <2>1, <2>4, FS_CardinalityType, PlanCardinality DEF Plan!Least, Plan!PlanAssumption
  <2>6. ASSUME stuck = {} PROVE Plan!Cardinality(tests' \cap Base) <= Additional
    <3>1. tests' \cap Base \subseteq S
      BY <2>0, <2>1, <2>6, AskedOfAll DEF Plan!New, PlanInv
    <3>2. /\ IsFiniteSet(tests' \cap Base) /\ Cardinality(tests' \cap Base) <= Cardinality(S)
      BY <2>4, <3>1, FS_Subset
    <3>3. Cardinality(S) \in Nat /\ Cardinality(tests' \cap Base) \in Nat /\ Additional \in Nat
      BY <2>4, <3>2, FS_CardinalityType DEF Plan!PlanAssumption
    <3> QED BY <2>5, <3>2, <3>3, PlanCardinality
  <2>7. stuck = {} => Whole(AllPatch) \ Base \subseteq tests'
    BY <2>0, <2>1, AskedOfAll DEF Plan!New, PlanInv
  <2>8. Plan!TypeOK'
    BY <2>0, <2>2 DEF PlanInv, Plan!TypeOK
  <2>9. OptionsInv'
    BY <1>1, <2>0 DEF PlanInv, OptionsInv
  <2>10. SkipsInv'
    BY <1>12, <2>0
  <2>11. AllPatch' = AllPatch /\ Whole(AllPatch)' = Whole(AllPatch)
    BY <1>2, <2>0 DEF AllPatch
  <2>12. ListsInv'
    BY <2>0, <2>2, <2>6, <2>7, <2>11 DEF ListsInv, Plan!Cardinality
  <2> QED BY <2>8, <2>9, <2>10, <2>12 DEF PlanInv
<1>18. CASE Plan!Check
  <2>0. /\ UNCHANGED <<params, onlys, nos, branches, stuck, with, without, tests, skips, ignores>>
        /\ planning = "check" /\ planning' \in {"refused", "done"}
    BY <1>18 DEF Plan!Check
  <2>1. Plan!TypeOK'
    BY <2>0 DEF PlanInv, Plan!TypeOK
  <2>2. OptionsInv'
    BY <1>1, <2>0 DEF PlanInv, OptionsInv
  <2>3. SkipsInv'
    BY <1>12, <2>0
  <2>4. AllPatch' = AllPatch /\ Whole(AllPatch)' = Whole(AllPatch)
    BY <1>2, <2>0 DEF AllPatch
  <2>5. ListsInv'
    BY <2>0, <2>4 DEF PlanInv, ListsInv, Plan!Cardinality
  <2> QED BY <2>1, <2>2, <2>3, <2>5 DEF PlanInv
<1>19. CASE UNCHANGED Plan!vars
  <2>0. UNCHANGED <<planning, params, onlys, nos, branches, stuck, with, without, tests, skips,
                    ignores>>
    BY <1>19 DEF Plan!vars
  <2>1. Plan!TypeOK'
    BY <2>0 DEF PlanInv, Plan!TypeOK
  <2>2. OptionsInv'
    BY <1>1, <2>0 DEF PlanInv, OptionsInv
  <2>3. SkipsInv'
    BY <1>12, <2>0
  <2>4. /\ AllPatch' = AllPatch /\ Whole(AllPatch)' = Whole(AllPatch)
        /\ AllMaster' = AllMaster /\ Whole(AllMaster)' = Whole(AllMaster)
    BY <1>2, <2>0 DEF AllPatch, AllMaster
  <2>5. ListsInv'
    BY <2>0, <2>4 DEF PlanInv, ListsInv, Plan!Cardinality
  <2> QED BY <2>1, <2>2, <2>3, <2>5 DEF PlanInv
<1> QED
  BY <1>4, <1>5, <1>6, <1>7, <1>9, <1>10, <1>11, <1>14, <1>15, <1>16, <1>17, <1>18, <1>19
     DEF Plan!Next

\* It entails what the runs check.
LEMMA PlanIsRight ==
    ASSUME Plan!PlanAssumption, PlanInv
    PROVE  /\ Plan!RunOrSkipped /\ Plan!ReportedPerEntry /\ Plan!NewCasesAreRun
           /\ Plan!FewOldCases
<1> USE DEF Last, Once, Twice, Before
<1>1. \A t \in Test : /\ skips[t] \in Nat /\ Skips(t) \in Nat
                      /\ Skips(t) = 0 <=> Skipping(t) = {}
  BY SkipsCount DEF PlanInv, Plan!TypeOK
<1>2. Plan!RunOrSkipped
  <2> SUFFICES ASSUME Plan!Ended, ~params.only_change
               PROVE  /\ tests \cup {t \in Test : skips[t] > 0} = Plan!Asked(branches)
                      /\ \A t \in tests : skips[t] = 0
    BY DEF Plan!RunOrSkipped
  <2>1. /\ branches = AllPatch /\ tests = Whole(AllPatch)
        /\ \A t \in Test : skips[t] = IF t \in Plan!Filtered(AllPatch) THEN Skips(t) ELSE 0
        /\ Plan!Filtered(AllPatch) = Plan!Asked(AllPatch)
        /\ Plan!Filtered(AllPatch) \subseteq Test
    BY FilteredIsAsked, ListedAreTests DEF PlanInv, OptionsInv, ListsInv, SkipsInv, Plan!Ended
  <2> QED BY <1>1, <2>1 DEF Whole
<1>3. Plan!ReportedPerEntry
  <2> SUFFICES ASSUME Plan!Ended, NEW t \in Test
               PROVE  /\ skips[t] <= (IF params.only_change THEN 2 ELSE 1)
                                        * Skips(t)
                      /\ t \in tests => skips[t] = 0
                      /\ t \notin Plan!Asked([r \in Repo |-> "patch"]) => skips[t] = 0
    BY Zenon DEF Plan!ReportedPerEntry, Skips, Skipping
  <2>1. skips[t] <= 2 * Skips(t) /\ (skips[t] > 0 => t \in Plan!Asked(AllPatch))
    BY DEF PlanInv, SkipsInv
  <2>2. ~params.only_change => skips[t] <= Skips(t)
    BY <1>1 DEF PlanInv, SkipsInv, Plan!Ended
  <2>3. tests \subseteq Whole(AllPatch)
    BY DEF PlanInv, ListsInv, Plan!Ended
  <2>4. t \in tests => Skips(t) = 0
    BY <1>1, <2>3 DEF Whole
  <2>5. CASE params.only_change
    BY <1>1, <2>1, <2>4, <2>5 DEF AllPatch
  <2>6. CASE ~params.only_change
    BY <1>1, <2>1, <2>2, <2>4, <2>6 DEF AllPatch
  <2> QED BY <2>5, <2>6
<1>4. Plan!NewCasesAreRun
  BY DEF Plan!NewCasesAreRun, PlanInv, ListsInv, AllPatch, Whole, Skipping
<1>5. Plan!FewOldCases
  <2> SUFFICES ASSUME Plan!Ended, params.only_change, stuck = {}
               PROVE  Plan!Cardinality(tests \cap Base) <= Additional
    BY DEF Plan!FewOldCases
  <2> QED BY DEF PlanInv, ListsInv, Plan!Ended
<1> QED BY <1>2, <1>3, <1>4, <1>5

\* The tests that are run are those asked for, and with --only-change those of the change.
THEOREM PlanHolds ==
    ASSUME Plan!PlanAssumption
    PROVE  Plan!Spec => [](/\ Plan!RunOrSkipped /\ Plan!ReportedPerEntry
                           /\ Plan!NewCasesAreRun /\ Plan!FewOldCases)
<1> QED BY PlanInit, PlanNext, PlanIsRight, PTL DEF Plan!Spec

-----------------------------------------------------------------------------
(* What the tests find on their host. *)

New(g) == guest[g] = [by |-> mishaps.runs, runs |-> FALSE]

\* The steps after the image was restored, and those after each part was made.
Given     == prep.at = "snapshot" /\ ~prep.opt.retain
Restored  == prep.at \in {"remove", "net", "install", "clone", "v2v", "define"} \/ Given
Stopped   == prep.at \in {"net", "install", "clone", "v2v", "define"} \/ Given
Connected == prep.at \in {"install", "clone", "v2v", "define"} \/ Given
Installed == prep.at \in {"clone", "v2v", "define"} \/ Given

\* A run holds its options, and none begins before the first.
PrepType == Guests!TypeOK /\ (prep.at # "idle" => mishaps.runs > 0)

\* The image is whole when it is copied, and as the backup once it was restored: a guest
\* that may write to it is known to run, or is stopped.
ImageInv ==
    /\ prep.at \in {"copy", "copying"} => image \in {"clean", "dirty"}
    /\ imgcopy = "half" => prep.at = "copying" \/ mishaps.kills > 0
    /\ Restored => image = "clean" \/ prep.wrote \/ imgcopy # "clean"
    /\ Stopped \/ (prep.at = "remove" /\ MainVM \notin prep.todo) => ~guest[MainVM].runs

\* A guest that is to be made was not made yet, one that is not was made or is lost.
GuestInv ==
    /\ prep.at = "clone" => prep.todo \subseteq ExtraVMs
    /\ prep.at = "define" => prep.todo \subseteq V2vVMs
    /\ Installed => New(MainVM)
    /\ Installed /\ prep.opt.extra =>
           \A g \in ExtraVMs \ prep.lost : (prep.at = "clone" /\ g \in prep.todo) \/ New(g)
    /\ (prep.at = "define" \/ Given) /\ prep.opt.v2v # "no" =>
           \A g \in V2vVMs \ prep.lost : (prep.at = "define" /\ g \in prep.todo) \/ guest[g].by # 0
    /\ Connected /\ prep.opt.net => network = [def |-> TRUE, on |-> TRUE, own |-> TRUE]

\* While the tests run the snapshot has the mount and every guest of an earlier run.
SnapshotInv ==
    prep.at = "test" =>
        /\ snapshot.mount = mounted
        /\ \A g \in Guests!Guest : guest[g].by \in 1..(mishaps.runs - 1) => g \in snapshot.def

PrepInv == PrepType /\ ImageInv /\ GuestInv /\ SnapshotInv

\* The invariant holds initially ...
LEMMA PrepInit == Guests!GuestPrepAssumption /\ Guests!Init => PrepInv
<1> SUFFICES ASSUME Guests!GuestPrepAssumption, Guests!Init PROVE PrepInv
  OBVIOUS
<1>1. (CHOOSE o \in PrepOptions : TRUE) \in PrepOptions
  BY DEF Guests!GuestPrepAssumption
<1> DEFINE first == CHOOSE o \in PrepOptions : TRUE
<1>3. prep = [at |-> "idle", opt |-> first, todo |-> {}, lost |-> {}, wrote |-> FALSE]
  BY DEF Guests!Init
<1> HIDE DEF first
<1>4. prep.at = "idle" /\ first \in PrepOptions
  BY <1>1, <1>3 DEF first
<1>5. 0 \in 0..MaxPreps /\ 0 \in 0..PrepKills /\ 0 \in 0..PrepFaults
  BY DEF Guests!GuestPrepAssumption
<1>6. guest \in [Guests!Guest -> [by : 0..MaxPreps, runs : BOOLEAN]]
  BY <1>5 DEF Guests!Init, Guests!Absent
<1>7. mishaps \in [runs : 0..MaxPreps, kills : 0..PrepKills, faults : 0..PrepFaults]
  BY <1>5 DEF Guests!Init
<1>8. prep \in [at : Guests!Copying \cup {"idle", "download", "copy", "prepare", "remove", "net",
                      "install", "clone", "v2v", "define", "snapshot", "test"},
               opt : PrepOptions, todo : SUBSET Guests!Guest, lost : SUBSET Guests!Guest,
               wrote : BOOLEAN]
  BY <1>3, <1>4
<1>9. /\ network \in [def : BOOLEAN, on : BOOLEAN, own : BOOLEAN] /\ mounted \in BOOLEAN
      /\ snapshot \in [def : SUBSET Guests!Guest, mount : BOOLEAN]
      /\ image = "none" /\ imgcopy = "none"
  BY DEF Guests!Init
<1>2. prep.at = "idle" /\ PrepType
  BY <1>4, <1>6, <1>7, <1>8, <1>9 DEF PrepType, Guests!TypeOK
<1> QED
  BY <1>2 DEF Guests!Init, PrepInv, ImageInv, GuestInv, SnapshotInv, Given, Restored, Stopped,
              Connected, Installed

\* ... and after each step.
LEMMA PrepNext ==
    ASSUME Guests!GuestPrepAssumption, PrepInv, [Guests!Next]_(Guests!gvars) PROVE PrepInv'
<1> USE DEF Guests!Goto, Guests!Raises, Guests!Me, Guests!NewGuest, Guests!Lose, Guests!Done,
            Guests!host, Guests!files, Guests!Absent
<1> DEFINE Stages == Guests!Copying \cup {"idle", "download", "copy", "prepare", "remove", "net",
                                 "install", "clone", "v2v", "define", "snapshot", "test"}
           Preps == [at : Stages, opt : PrepOptions, todo : SUBSET Guests!Guest,
                     lost : SUBSET Guests!Guest, wrote : BOOLEAN]
\* What the invariant says of a step to "idle", whatever happened.
<1>1. ASSUME PrepType', prep'.at = "idle",
             imgcopy' = imgcopy, prep.at # "copying" \/ mishaps'.kills > 0,
             mishaps'.kills >= mishaps.kills
      PROVE  PrepInv'
  BY <1>1 DEF PrepInv, ImageInv, GuestInv, SnapshotInv, Given, Restored, Stopped, Connected,
              Installed, PrepType, Guests!TypeOK
<1>2. ASSUME Guests!Fault
      PROVE  /\ mishaps' \in [runs : 0..MaxPreps, kills : 0..PrepKills, faults : 0..PrepFaults]
             /\ mishaps'.runs = mishaps.runs /\ mishaps'.kills = mishaps.kills
  BY <1>2 DEF Guests!Fault, PrepInv, PrepType, Guests!TypeOK, Guests!GuestPrepAssumption
<1>3. /\ prep \in Preps /\ mishaps.runs \in 0..MaxPreps /\ mishaps.kills \in 0..PrepKills
      /\ PrepKills \in Nat /\ MaxPreps \in Nat
      /\ MainVM \in Guests!Guest /\ ExtraVMs \subseteq Guests!Guest /\ V2vVMs \subseteq Guests!Guest
      /\ \A g \in Guests!Guest : guest[g] \in [by : 0..MaxPreps, runs : BOOLEAN]
      /\ DOMAIN guest = Guests!Guest
      /\ \A o \in PrepOptions : /\ o.url \in BOOLEAN /\ o.retain \in BOOLEAN /\ o.net \in BOOLEAN
                                /\ o.extra \in BOOLEAN
  BY DEF PrepInv, PrepType, Guests!TypeOK, Guests!Guest, Guests!GuestPrepAssumption
<1>4. ASSUME NEW o \in PrepOptions, Guests!Start(o) PROVE PrepInv'
  <2>1. /\ prep' = [at |-> IF o.url THEN "download" ELSE "prepare", opt |-> o, todo |-> {},
                    lost |-> {}, wrote |-> FALSE]
        /\ mishaps' = [mishaps EXCEPT !.runs = @ + 1] /\ prep.at = "idle"
        /\ mishaps.runs < MaxPreps
        /\ UNCHANGED <<image, imgcopy, guest, network, mounted, snapshot>>
    BY <1>4 DEF Guests!Start
  <2>2. prep' \in Preps /\ prep'.at \in {"download", "prepare"}
    BY <2>1
  <2>3. PrepType'
    BY <1>3, <2>1, <2>2 DEF PrepInv, PrepType, Guests!TypeOK
  <2> QED BY <2>1, <2>2, <2>3, <1>3
          DEF PrepInv, ImageInv, GuestInv, SnapshotInv, Given, Restored, Stopped, Connected,
              Installed
<1>5. CASE Guests!GuestWrites
  <2>1. /\ prep' = [prep EXCEPT !.wrote = @ \/ prep.at \in Guests!Copying \cup {"remove"}]
        /\ image' = (IF image = "clean" THEN "dirty" ELSE image)
        /\ guest[MainVM].runs /\ UNCHANGED <<imgcopy, guest, network, mounted, snapshot, mishaps>>
    BY <1>5 DEF Guests!GuestWrites
  <2>2. /\ prep' \in Preps /\ prep'.at = prep.at /\ prep'.opt = prep.opt /\ prep'.todo = prep.todo
        /\ prep'.lost = prep.lost /\ (prep.wrote => prep'.wrote)
        /\ prep.at = "remove" => prep'.wrote
    BY <1>3, <2>1
  <2>3. PrepType'
    BY <2>1, <2>2 DEF PrepInv, PrepType, Guests!TypeOK
  <2>4. ~Stopped
    BY <2>1 DEF PrepInv, ImageInv
  <2>5. ImageInv'
    BY <2>1, <2>2, <2>4 DEF PrepInv, ImageInv, Given, Restored, Stopped
  <2>6. GuestInv' /\ SnapshotInv'
    BY <2>1, <2>2, <2>4
      DEF PrepInv, GuestInv, SnapshotInv, Given, Connected, Installed, New, Stopped
  <2> QED BY <2>3, <2>5, <2>6 DEF PrepInv
\* Steps before the image is restored.
<1>6. CASE Guests!Download
  <2>1. /\ prep' = [prep EXCEPT !.at = "downloading"] /\ image' = "half" /\ prep.at = "download"
        /\ UNCHANGED <<imgcopy, guest, network, mounted, snapshot, mishaps>>
    BY <1>6 DEF Guests!Download
  <2>2. prep' \in Preps /\ prep'.at = "downloading"
    BY <1>3, <2>1 DEF Guests!Copying
  <2>3. PrepType'
    BY <2>1, <2>2 DEF PrepInv, PrepType, Guests!TypeOK
  <2> QED BY <2>1, <2>2, <2>3
          DEF PrepInv, ImageInv, GuestInv, SnapshotInv, Given, Restored, Stopped, Connected,
              Installed
<1>7. CASE Guests!Downloaded
  <2>1. CASE /\ image' = Guests!Arrives("clean") /\ prep' = [prep EXCEPT !.at = "copy"]
             /\ UNCHANGED mishaps
    <3>1. prep.at = "downloading" /\ UNCHANGED <<imgcopy, guest, network, mounted, snapshot>>
      BY <1>7 DEF Guests!Downloaded
    <3>2. prep' \in Preps /\ prep'.at = "copy" /\ image' \in {"clean", "dirty"}
      BY <1>3, <2>1 DEF Guests!Arrives
    <3>3. PrepType'
      BY <2>1, <3>1, <3>2 DEF PrepInv, PrepType, Guests!TypeOK
    <3> QED BY <2>1, <3>1, <3>2, <3>3
          DEF PrepInv, ImageInv, GuestInv, SnapshotInv, Given, Restored, Stopped, Connected,
              Installed
  <2>2. CASE Guests!Fault /\ prep' = [prep EXCEPT !.at = "idle"] /\ UNCHANGED image
    <3>1. prep.at = "downloading" /\ UNCHANGED <<imgcopy, guest, network, mounted, snapshot>>
      BY <1>7 DEF Guests!Downloaded
    <3>2. prep' \in Preps /\ prep'.at = "idle"
      BY <1>3, <2>2
    <3>3. PrepType'
      BY <1>2, <2>2, <3>1, <3>2 DEF PrepInv, PrepType, Guests!TypeOK
    <3> QED BY <1>1, <1>2, <1>3, <2>2, <3>1, <3>2, <3>3
  <2> QED BY <1>7, <2>1, <2>2 DEF Guests!Downloaded
<1>8. CASE Guests!BackupImage
  <2>1. /\ prep' = [prep EXCEPT !.at = "copying"] /\ imgcopy' = "half" /\ prep.at = "copy"
        /\ UNCHANGED <<image, guest, network, mounted, snapshot, mishaps>>
    BY <1>8 DEF Guests!BackupImage
  <2>2. prep' \in Preps /\ prep'.at = "copying"
    BY <1>3, <2>1 DEF Guests!Copying
  <2>3. PrepType'
    BY <2>1, <2>2 DEF PrepInv, PrepType, Guests!TypeOK
  <2> QED BY <2>1, <2>2, <2>3
          DEF PrepInv, ImageInv, GuestInv, SnapshotInv, Given, Restored, Stopped, Connected,
              Installed
<1>9. CASE Guests!BackedUp
  <2>1. /\ prep' = [prep EXCEPT !.at = "prepare"] /\ imgcopy' = Guests!Arrives(image)
        /\ prep.at = "copying" /\ UNCHANGED <<image, guest, network, mounted, snapshot, mishaps>>
    BY <1>9 DEF Guests!BackedUp
  <2>2. prep' \in Preps /\ prep'.at = "prepare"
    BY <1>3, <2>1
  <2>3. imgcopy' \in {"clean", "dirty"}
    BY <2>1 DEF Guests!Arrives, PrepInv, ImageInv
  <2>4. PrepType'
    BY <2>1, <2>2, <2>3 DEF PrepInv, PrepType, Guests!TypeOK
  <2> QED BY <2>1, <2>2, <2>3, <2>4
          DEF PrepInv, ImageInv, GuestInv, SnapshotInv, Given, Restored, Stopped, Connected,
              Installed
<1>10. CASE Guests!RestoreImage
  <2>1. CASE imgcopy = "none"
    <3>1. /\ prep' = [prep EXCEPT !.at = "idle"] /\ prep.at = "prepare"
          /\ UNCHANGED <<image, imgcopy, guest, network, mounted, snapshot, mishaps>>
      BY <1>10, <2>1 DEF Guests!RestoreImage
    <3>2. prep' \in Preps /\ prep'.at = "idle"
      BY <1>3, <3>1
    <3>3. PrepType'
      BY <3>1, <3>2 DEF PrepInv, PrepType, Guests!TypeOK
    <3> QED BY <1>1, <1>3, <3>1, <3>2, <3>3
  <2>2. CASE imgcopy # "none"
    <3>1. /\ prep' = [prep EXCEPT !.at = "restoring"] /\ prep.at = "prepare" /\ image' = "half"
          /\ UNCHANGED <<imgcopy, guest, network, mounted, snapshot, mishaps>>
      BY <1>10, <2>2 DEF Guests!RestoreImage
    <3>2. prep' \in Preps /\ prep'.at = "restoring"
      BY <1>3, <3>1 DEF Guests!Copying
    <3>3. PrepType'
      BY <3>1, <3>2 DEF PrepInv, PrepType, Guests!TypeOK
    <3> QED BY <3>1, <3>2, <3>3
          DEF PrepInv, ImageInv, GuestInv, SnapshotInv, Given, Restored, Stopped, Connected,
              Installed
  <2> QED BY <2>1, <2>2
<1>11. CASE Guests!RestoredImage
  <2>1. /\ prep' = [prep EXCEPT !.at = IF prep.opt.retain THEN "snapshot" ELSE "remove",
                     !.todo = {MainVM} \cup (IF prep.opt.extra THEN ExtraVMs ELSE {})]
        /\ prep.at = "restoring" /\ image' = Guests!Arrives(imgcopy)
        /\ UNCHANGED <<imgcopy, guest, network, mounted, snapshot, mishaps>>
    BY <1>11 DEF Guests!RestoredImage
  <2>2. /\ prep' \in Preps /\ prep'.at = (IF prep.opt.retain THEN "snapshot" ELSE "remove")
        /\ MainVM \in prep'.todo /\ prep'.opt = prep.opt /\ prep'.wrote = prep.wrote
    BY <1>3, <2>1
  <2>3. image' \in {"none", "half", "clean", "dirty"}
        /\ (image' = "clean" \/ prep.wrote \/ imgcopy # "clean")
    BY <2>1 DEF Guests!Arrives, PrepInv, PrepType, Guests!TypeOK
  <2>4. PrepType'
    BY <2>1, <2>2, <2>3 DEF PrepInv, PrepType, Guests!TypeOK
  <2>5. ~Given' /\ prep'.at \in {"snapshot", "remove"}
    BY <2>2 DEF Given
  <2>6. ImageInv'
    BY <2>1, <2>2, <2>3, <2>5 DEF PrepInv, ImageInv, Restored, Stopped
  <2>7. GuestInv' /\ SnapshotInv'
    BY <2>5 DEF GuestInv, SnapshotInv, Connected, Installed
  <2> QED BY <2>4, <2>6, <2>7 DEF PrepInv
\* Steps that prepare the guests and the network.
<1>12. ASSUME NEW g \in Guests!Guest, Guests!RemoveVM(g) PROVE PrepInv'
  <2>1. /\ prep' = [prep EXCEPT !.todo = @ \ {g}] /\ prep.at = "remove" /\ g \in prep.todo
        /\ UNCHANGED <<image, imgcopy, network, mounted, snapshot>>
    BY <1>12 DEF Guests!RemoveVM
  <2>2. /\ prep' \in Preps /\ prep'.at = "remove" /\ prep'.todo = prep.todo \ {g}
        /\ prep'.opt = prep.opt /\ prep'.wrote = prep.wrote
    BY <1>3, <2>1
  <2>3. /\ guest' \in [Guests!Guest -> [by : 0..MaxPreps, runs : BOOLEAN]] /\ ~guest'[g].runs
        /\ \A h \in Guests!Guest \ {g} : guest'[h] = guest[h]
        /\ mishaps' \in [runs : 0..MaxPreps, kills : 0..PrepKills, faults : 0..PrepFaults]
        /\ mishaps'.runs = mishaps.runs /\ mishaps'.kills = mishaps.kills
    <3>1. CASE guest' = [guest EXCEPT ![g] = [by |-> 0, runs |-> FALSE]] /\ UNCHANGED mishaps
      BY <1>3, <3>1 DEF PrepInv, PrepType, Guests!TypeOK
    <3>2. CASE Guests!Fault /\ guest' = [guest EXCEPT ![g].runs = FALSE]
      <4>1. guest' = [guest EXCEPT ![g] = [guest[g] EXCEPT !.runs = FALSE]]
        BY <3>2
      <4>2. [guest[g] EXCEPT !.runs = FALSE] \in [by : 0..MaxPreps, runs : BOOLEAN]
        BY <1>3
      <4> QED BY <1>2, <1>3, <3>2, <4>1, <4>2 DEF PrepInv, PrepType, Guests!TypeOK
    <3> QED BY <1>12, <3>1, <3>2 DEF Guests!RemoveVM
  <2>4. PrepType'
    BY <2>1, <2>2, <2>3 DEF PrepInv, PrepType, Guests!TypeOK
  <2>5. ImageInv'
    BY <1>3, <2>1, <2>2, <2>3 DEF PrepInv, ImageInv, Given, Restored, Stopped
  <2>6. GuestInv' /\ SnapshotInv'
    BY <2>2 DEF GuestInv, SnapshotInv, Given, Connected, Installed
  <2> QED BY <2>4, <2>5, <2>6 DEF PrepInv
<1>13. CASE Guests!Removed
  <2>1. /\ prep' = [prep EXCEPT !.at = IF prep.opt.net THEN "net" ELSE "install"]
        /\ prep.at = "remove" /\ prep.todo = {}
        /\ UNCHANGED <<image, imgcopy, guest, network, mounted, snapshot, mishaps>>
    BY <1>13 DEF Guests!Removed
  <2>2. /\ prep' \in Preps /\ prep'.at = (IF prep.opt.net THEN "net" ELSE "install")
        /\ prep'.opt = prep.opt /\ prep'.wrote = prep.wrote
    BY <1>3, <2>1
  <2>3. PrepType'
    BY <2>1, <2>2 DEF PrepInv, PrepType, Guests!TypeOK
  <2>4. ImageInv'
    BY <2>1, <2>2 DEF PrepInv, ImageInv, Given, Restored, Stopped
  <2>5. GuestInv' /\ SnapshotInv'
    BY <2>2 DEF GuestInv, SnapshotInv, Given, Connected, Installed
  <2> QED BY <2>3, <2>4, <2>5 DEF PrepInv
\* A step to "idle" when a command fails, and one that raises without it.
<1>14. ASSUME prep' = [prep EXCEPT !.at = "idle"], prep.at \notin {"copying", "idle"},
              UNCHANGED <<image, imgcopy, guest, mounted, snapshot>>,
              network' \in [def : BOOLEAN, on : BOOLEAN, own : BOOLEAN],
              Guests!Fault \/ UNCHANGED mishaps
       PROVE  PrepInv'
  <2>1. prep' \in Preps /\ prep'.at = "idle"
    BY <1>3, <1>14
  <2>2. /\ mishaps' \in [runs : 0..MaxPreps, kills : 0..PrepKills, faults : 0..PrepFaults]
        /\ mishaps'.runs = mishaps.runs /\ mishaps'.kills = mishaps.kills
    BY <1>2, <1>14 DEF PrepInv, PrepType, Guests!TypeOK
  <2>3. PrepType'
    BY <1>14, <2>1, <2>2 DEF PrepInv, PrepType, Guests!TypeOK
  <2> QED BY <1>1, <1>3, <1>14, <2>1, <2>2, <2>3
<1>15. CASE Guests!PrepareNetwork
  <2>0. /\ prep.at = "net" /\ UNCHANGED <<image, imgcopy, guest, mounted, snapshot>>
        /\ network \in [def : BOOLEAN, on : BOOLEAN, own : BOOLEAN]
    BY <1>15 DEF Guests!PrepareNetwork, PrepInv, PrepType, Guests!TypeOK
  <2>1. ASSUME network' = [def |-> TRUE, on |-> TRUE, own |-> TRUE],
               prep' = [prep EXCEPT !.at = "install"], Guests!Fault \/ UNCHANGED mishaps
        PROVE  PrepInv'
    <3>1. /\ prep' \in Preps /\ prep'.at = "install" /\ prep'.opt = prep.opt
          /\ prep'.wrote = prep.wrote
      BY <1>3, <2>1
    <3>2. /\ mishaps' \in [runs : 0..MaxPreps, kills : 0..PrepKills, faults : 0..PrepFaults]
          /\ mishaps'.runs = mishaps.runs /\ mishaps'.kills = mishaps.kills
      BY <1>2, <2>1 DEF PrepInv, PrepType, Guests!TypeOK
    <3>3. PrepType'
      BY <2>0, <2>1, <3>1, <3>2 DEF PrepInv, PrepType, Guests!TypeOK
    <3>4. ImageInv'
      BY <2>0, <3>1, <3>2 DEF PrepInv, ImageInv, Given, Restored, Stopped
    <3>5. GuestInv' /\ SnapshotInv'
      BY <2>1, <3>1 DEF GuestInv, SnapshotInv, Given, Connected, Installed
    <3> QED BY <3>3, <3>4, <3>5 DEF PrepInv
  <2>2. CASE /\ Guests!Fault /\ network' = [def |-> TRUE, on |-> TRUE, own |-> ~network.on]
             /\ IF network.on THEN prep' = [prep EXCEPT !.at = "idle"]
                ELSE prep' = [prep EXCEPT !.at = "install"]
    <3>1. CASE network.on
      BY <1>14, <2>0, <2>2, <3>1
    <3>2. CASE ~network.on
      BY <2>1, <2>2, <3>2
    <3> QED BY <3>1, <3>2
  <2>3. CASE /\ Guests!Fault /\ network' = [def |-> FALSE, on |-> FALSE, own |-> FALSE]
             /\ prep' = [prep EXCEPT !.at = "idle"]
    BY <1>14, <2>0, <2>3
  <2>4. CASE /\ Guests!Fault /\ network' = [def |-> TRUE, on |-> FALSE, own |-> TRUE]
             /\ prep' = [prep EXCEPT !.at = "idle"]
    BY <1>14, <2>0, <2>4
  <2> QED BY <1>15, <2>1, <2>2, <2>3, <2>4 DEF Guests!PrepareNetwork
<1>16. CASE Guests!InstallVM
  <2>0. /\ prep.at = "install" /\ UNCHANGED <<image, imgcopy, network, mounted, snapshot>>
        /\ network \in [def : BOOLEAN, on : BOOLEAN, own : BOOLEAN]
    BY <1>16 DEF Guests!InstallVM, PrepInv, PrepType, Guests!TypeOK
  <2>1. CASE /\ UNCHANGED mishaps
             /\ guest' = [guest EXCEPT ![MainVM] = [by |-> mishaps.runs, runs |-> FALSE]]
             /\ prep' = [prep EXCEPT !.at = "clone",
                                     !.todo = IF prep.opt.extra THEN ExtraVMs ELSE {}]
    <3>1. /\ prep' \in Preps /\ prep'.at = "clone" /\ prep'.opt = prep.opt
          /\ prep'.wrote = prep.wrote /\ prep'.todo = IF prep.opt.extra THEN ExtraVMs ELSE {}
      BY <1>3, <2>1
    <3>2. /\ guest' \in [Guests!Guest -> [by : 0..MaxPreps, runs : BOOLEAN]]
          /\ guest'[MainVM] = [by |-> mishaps.runs, runs |-> FALSE]
      BY <1>3, <2>1 DEF PrepInv, PrepType, Guests!TypeOK
    <3>3. PrepType'
      BY <2>0, <2>1, <3>1, <3>2 DEF PrepInv, PrepType, Guests!TypeOK
    <3>4. ImageInv'
      BY <2>0, <2>1, <3>1, <3>2 DEF PrepInv, ImageInv, Given, Restored, Stopped
    <3>5. GuestInv' /\ SnapshotInv'
      BY <2>0, <2>1, <3>1, <3>2 DEF PrepInv, GuestInv, SnapshotInv, Given, Connected, Installed, New
    <3> QED BY <3>3, <3>4, <3>5 DEF PrepInv
  <2>2. CASE /\ prep' = [prep EXCEPT !.at = "idle"] /\ UNCHANGED guest
             /\ Guests!Fault \/ UNCHANGED mishaps
    BY <1>14, <2>0, <2>2
  <2> QED BY <1>16, <2>1, <2>2 DEF Guests!InstallVM
\* What is done with a guest of the list: it is new, or lost.
<1>17. ASSUME NEW g \in Guests!Guest, Guests!CloneVM(g) PROVE PrepInv'
  <2>0. /\ prep.at = "clone" /\ g \in prep.todo /\ g \in ExtraVMs /\ g # MainVM /\ g \notin V2vVMs
        /\ UNCHANGED <<image, imgcopy, network, mounted, snapshot>>
    BY <1>17 DEF Guests!CloneVM, PrepInv, GuestInv, Guests!GuestPrepAssumption
  <2>1. CASE /\ guest' = [guest EXCEPT ![g] = [by |-> mishaps.runs, runs |-> FALSE]]
             /\ prep' = [prep EXCEPT !.todo = @ \ {g}] /\ UNCHANGED mishaps
    <3>1. /\ prep' \in Preps /\ prep'.at = "clone" /\ prep'.opt = prep.opt /\ prep'.lost = prep.lost
          /\ prep'.wrote = prep.wrote /\ prep'.todo = prep.todo \ {g}
      BY <1>3, <2>0, <2>1
    <3>2. /\ guest' \in [Guests!Guest -> [by : 0..MaxPreps, runs : BOOLEAN]]
          /\ guest'[g] = [by |-> mishaps.runs, runs |-> FALSE]
          /\ \A h \in Guests!Guest \ {g} : guest'[h] = guest[h]
      BY <1>3, <2>1 DEF PrepInv, PrepType, Guests!TypeOK
    <3>3. PrepType'
      BY <2>0, <2>1, <3>1, <3>2 DEF PrepInv, PrepType, Guests!TypeOK
    <3>4. ImageInv'
      BY <1>3, <2>0, <2>1, <3>1, <3>2 DEF PrepInv, ImageInv, Given, Restored, Stopped
    <3>5. New(g)' /\ (\A h \in Guests!Guest \ {g} : New(h) => New(h)')
      BY <2>1, <3>2 DEF New
    <3>6. New(MainVM)
      BY <2>0 DEF PrepInv, GuestInv, Installed
    <3>7. prep.opt.extra => \A h \in ExtraVMs \ prep.lost : h \in prep.todo \/ New(h)
      BY <2>0 DEF PrepInv, GuestInv, Installed
    <3>8. prep.opt.extra => \A h \in ExtraVMs \ prep.lost : h \in prep.todo \ {g} \/ New(h)'
      BY <1>3, <3>5, <3>7
    <3>9. Connected /\ prep.todo \subseteq ExtraVMs
      BY <2>0 DEF PrepInv, GuestInv, Connected
    <3>10. GuestInv' /\ SnapshotInv'
      BY <1>3, <2>0, <2>1, <3>1, <3>5, <3>6, <3>8, <3>9
         DEF PrepInv, GuestInv, SnapshotInv, Given, Connected, Installed
    <3> QED BY <3>3, <3>4, <3>10 DEF PrepInv
  <2>2. CASE /\ prep' = [prep EXCEPT !.lost = @ \cup {g}, !.todo = @ \ {g}] /\ UNCHANGED guest
             /\ Guests!Fault \/ UNCHANGED mishaps
    <3>1. /\ prep' \in Preps /\ prep'.at = "clone" /\ prep'.opt = prep.opt
          /\ prep'.lost = prep.lost \cup {g}
          /\ prep'.wrote = prep.wrote /\ prep'.todo = prep.todo \ {g}
      BY <1>3, <2>0, <2>2
    <3>2. /\ mishaps' \in [runs : 0..MaxPreps, kills : 0..PrepKills, faults : 0..PrepFaults]
          /\ mishaps'.runs = mishaps.runs /\ mishaps'.kills = mishaps.kills
      BY <1>2, <2>2 DEF PrepInv, PrepType, Guests!TypeOK
    <3>3. PrepType'
      BY <2>0, <2>2, <3>1, <3>2 DEF PrepInv, PrepType, Guests!TypeOK
    <3>4. ImageInv'
      BY <1>3, <2>0, <2>2, <3>1, <3>2 DEF PrepInv, ImageInv, Given, Restored, Stopped
    <3>5. GuestInv' /\ SnapshotInv'
      BY <2>0, <2>2, <3>1, <3>2
         DEF PrepInv, GuestInv, SnapshotInv, Given, Connected, Installed, New
    <3> QED BY <3>3, <3>4, <3>5 DEF PrepInv
  <2> QED BY <1>17, <2>1, <2>2 DEF Guests!CloneVM
<1>18. ASSUME NEW g \in Guests!Guest, Guests!DefineVM(g) PROVE PrepInv'
  <2>0. /\ prep.at = "define" /\ g \in prep.todo /\ g \in V2vVMs /\ g # MainVM /\ g \notin ExtraVMs
        /\ UNCHANGED <<image, imgcopy, network, mounted, snapshot>> /\ mishaps.runs > 0
    BY <1>18 DEF Guests!DefineVM, PrepInv, GuestInv, PrepType, Guests!GuestPrepAssumption
  <2>1. CASE /\ \/ guest' = [guest EXCEPT ![g].by = mishaps.runs]
                \/ guest[g].by # 0 /\ UNCHANGED guest
             /\ prep' = [prep EXCEPT !.todo = @ \ {g}] /\ UNCHANGED mishaps
    <3>1. /\ prep' \in Preps /\ prep'.at = "define" /\ prep'.opt = prep.opt
          /\ prep'.lost = prep.lost
          /\ prep'.wrote = prep.wrote /\ prep'.todo = prep.todo \ {g}
      BY <1>3, <2>0, <2>1
    <3>2. /\ guest' \in [Guests!Guest -> [by : 0..MaxPreps, runs : BOOLEAN]] /\ guest'[g].by # 0
          /\ \A h \in Guests!Guest \ {g} : guest'[h] = guest[h]
      <4>1. CASE guest' = [guest EXCEPT ![g].by = mishaps.runs]
        <5>1. guest' = [guest EXCEPT ![g] = [guest[g] EXCEPT !.by = mishaps.runs]]
          BY <4>1
        <5>2. /\ [guest[g] EXCEPT !.by = mishaps.runs] \in [by : 0..MaxPreps, runs : BOOLEAN]
              /\ [guest[g] EXCEPT !.by = mishaps.runs].by = mishaps.runs
          BY <1>3
        <5> QED BY <1>3, <2>0, <5>1, <5>2 DEF PrepInv, PrepType, Guests!TypeOK
      <4>2. CASE guest[g].by # 0 /\ UNCHANGED guest
        BY <1>3, <4>2 DEF PrepInv, PrepType, Guests!TypeOK
      <4> QED BY <2>1, <4>1, <4>2
    <3>3. PrepType'
      BY <2>0, <2>1, <3>1, <3>2 DEF PrepInv, PrepType, Guests!TypeOK
    <3>4. ImageInv'
      BY <1>3, <2>0, <2>1, <3>1, <3>2 DEF PrepInv, ImageInv, Given, Restored, Stopped
    <3>5. \A h \in Guests!Guest \ {g} : New(h) => New(h)'
      BY <2>1, <3>2 DEF New
    <3>6. New(MainVM)'
      BY <1>3, <2>0, <3>5 DEF PrepInv, GuestInv, Installed
    <3>7. prep.opt.extra => \A h \in ExtraVMs \ prep.lost : New(h)
      BY <2>0 DEF PrepInv, GuestInv, Installed
    <3>8. prep.opt.extra => \A h \in ExtraVMs \ prep.lost : New(h)'
      BY <1>3, <2>0, <3>5, <3>7
    <3>9. prep.opt.v2v # "no" =>
              \A h \in V2vVMs \ prep.lost : h \in prep.todo \ {g} \/ guest'[h].by # 0
      BY <1>3, <2>0, <3>2 DEF PrepInv, GuestInv
    <3>10. Connected /\ prep.todo \subseteq V2vVMs
      BY <2>0 DEF PrepInv, GuestInv, Connected
    <3>11. GuestInv' /\ SnapshotInv'
      BY <2>0, <3>1, <3>6, <3>8, <3>9, <3>10
         DEF PrepInv, GuestInv, SnapshotInv, Given, Connected, Installed
    <3> QED BY <3>3, <3>4, <3>11 DEF PrepInv
  <2>2. CASE /\ prep' = [prep EXCEPT !.lost = @ \cup {g}, !.todo = @ \ {g}] /\ UNCHANGED guest
             /\ Guests!Fault
    <3>1. /\ prep' \in Preps /\ prep'.at = "define" /\ prep'.opt = prep.opt
          /\ prep'.lost = prep.lost \cup {g}
          /\ prep'.wrote = prep.wrote /\ prep'.todo = prep.todo \ {g}
      BY <1>3, <2>0, <2>2
    <3>3. PrepType'
      BY <1>2, <2>0, <2>2, <3>1 DEF PrepInv, PrepType, Guests!TypeOK
    <3>4. ImageInv'
      BY <1>2, <1>3, <2>0, <2>2, <3>1 DEF PrepInv, ImageInv, Given, Restored, Stopped
    <3>5. GuestInv' /\ SnapshotInv'
      BY <1>2, <2>0, <2>2, <3>1
         DEF PrepInv, GuestInv, SnapshotInv, Given, Connected, Installed, New
    <3> QED BY <3>3, <3>4, <3>5 DEF PrepInv
  <2> QED BY <1>18, <2>1, <2>2 DEF Guests!DefineVM
<1>19. CASE Guests!Cloned
  <2>0. /\ prep' = [prep EXCEPT !.at = IF prep.opt.v2v = "no" THEN "snapshot" ELSE "v2v"]
        /\ prep.at = "clone" /\ prep.todo = {}
        /\ UNCHANGED <<image, imgcopy, guest, network, mounted, snapshot, mishaps>>
    BY <1>19 DEF Guests!Cloned
  <2>1. /\ prep' \in Preps /\ prep'.at = (IF prep.opt.v2v = "no" THEN "snapshot" ELSE "v2v")
        /\ prep'.opt = prep.opt /\ prep'.wrote = prep.wrote /\ prep'.lost = prep.lost
    BY <1>3, <2>0
  <2>2. PrepType'
    BY <2>0, <2>1 DEF PrepInv, PrepType, Guests!TypeOK
  <2>3. ImageInv'
    BY <2>0, <2>1 DEF PrepInv, ImageInv, Given, Restored, Stopped
  <2>4. GuestInv' /\ SnapshotInv'
    BY <2>0, <2>1 DEF PrepInv, GuestInv, SnapshotInv, Given, Connected, Installed, New
  <2> QED BY <2>2, <2>3, <2>4 DEF PrepInv
<1>20. CASE Guests!MountSource
  <2>0. /\ prep' = [prep EXCEPT !.at = "define", !.todo = IF mounted' THEN V2vVMs ELSE {},
                     !.lost = @ \cup (IF mounted' THEN {} ELSE V2vVMs)]
        /\ prep.at = "v2v" /\ UNCHANGED <<image, imgcopy, guest, network, snapshot>>
        /\ mounted' \in BOOLEAN /\ (Guests!Fault \/ UNCHANGED mishaps)
    BY <1>20 DEF Guests!MountSource, PrepInv, PrepType, Guests!TypeOK
  <2>1. /\ prep' \in Preps /\ prep'.at = "define" /\ prep'.todo = (IF mounted' THEN V2vVMs ELSE {})
        /\ prep'.opt = prep.opt /\ prep'.wrote = prep.wrote
        /\ prep'.lost = prep.lost \cup (IF mounted' THEN {} ELSE V2vVMs)
    BY <1>3, <2>0
  <2>2. /\ mishaps' \in [runs : 0..MaxPreps, kills : 0..PrepKills, faults : 0..PrepFaults]
        /\ mishaps'.runs = mishaps.runs /\ mishaps'.kills = mishaps.kills
    BY <1>2, <2>0 DEF PrepInv, PrepType, Guests!TypeOK
  <2>3. PrepType'
    BY <2>0, <2>1, <2>2 DEF PrepInv, PrepType, Guests!TypeOK
  <2>4. ImageInv'
    BY <2>0, <2>1, <2>2 DEF PrepInv, ImageInv, Given, Restored, Stopped
  <2>5. GuestInv' /\ SnapshotInv'
    BY <2>0, <2>1, <2>2, ZenonT(60)
    DEF PrepInv, GuestInv, SnapshotInv, Given, Connected, Installed, New
  <2> QED BY <2>3, <2>4, <2>5 DEF PrepInv
<1>21. CASE Guests!DefinedAll
  <2>0. /\ prep' = [prep EXCEPT !.at = "snapshot"] /\ prep.at = "define" /\ prep.todo = {}
        /\ UNCHANGED <<image, imgcopy, guest, network, mounted, snapshot, mishaps>>
    BY <1>21 DEF Guests!DefinedAll
  <2>1. /\ prep' \in Preps /\ prep'.at = "snapshot"
        /\ prep'.opt = prep.opt /\ prep'.wrote = prep.wrote /\ prep'.lost = prep.lost
    BY <1>3, <2>0
  <2>2. PrepType'
    BY <2>0, <2>1 DEF PrepInv, PrepType, Guests!TypeOK
  <2>3. ImageInv'
    BY <2>0, <2>1 DEF PrepInv, ImageInv, Given, Restored, Stopped
  <2>4. GuestInv' /\ SnapshotInv'
    BY <2>0, <2>1 DEF PrepInv, GuestInv, SnapshotInv, Given, Connected, Installed, New
  <2> QED BY <2>2, <2>3, <2>4 DEF PrepInv
\* The tests, and what is done when they are over.
<1>22. CASE Guests!PrepareState
  <2>0. /\ prep' = [prep EXCEPT !.at = "test"] /\ prep.at = "snapshot"
        /\ snapshot' = [def |-> Guests!Defined, mount |-> mounted]
        /\ UNCHANGED <<image, imgcopy, guest, network, mounted, mishaps>>
    BY <1>22 DEF Guests!PrepareState
  <2>1. prep' \in Preps /\ prep'.at = "test"
    BY <1>3, <2>0
  <2>2. PrepType'
    BY <2>0, <2>1 DEF PrepInv, PrepType, Guests!TypeOK, Guests!Defined
  <2>3. ImageInv' /\ GuestInv'
    BY <2>0, <2>1 DEF PrepInv, ImageInv, GuestInv, Given, Restored, Stopped, Connected, Installed
  <2>4. SnapshotInv'
    <3>1. \A g \in Guests!Guest : guest[g].by \in 1..(mishaps.runs - 1) => g \in Guests!Defined
      BY DEF Guests!Defined
    <3> QED BY <2>0, <3>1 DEF SnapshotInv
  <2> QED BY <2>2, <2>3, <2>4 DEF PrepInv
<1>23. CASE Guests!Test
  <2>0. prep.at = "test" /\ UNCHANGED <<image, imgcopy, network, mounted, snapshot, prep, mishaps>>
    BY <1>23 DEF Guests!Test
  <2>1. /\ guest' \in [Guests!Guest -> [by : 0..MaxPreps, runs : BOOLEAN]]
        /\ \A g \in Guests!Guest : guest'[g].by \in {guest[g].by, 0, mishaps.runs}
    <3>1. CASE MainVM \in Guests!Defined /\ guest' = [guest EXCEPT ![MainVM].runs = TRUE]
      <4>1. guest' = [guest EXCEPT ![MainVM] = [guest[MainVM] EXCEPT !.runs = TRUE]]
        BY <3>1
      <4>2. /\ [guest[MainVM] EXCEPT !.runs = TRUE] \in [by : 0..MaxPreps, runs : BOOLEAN]
            /\ [guest[MainVM] EXCEPT !.runs = TRUE].by = guest[MainVM].by
        BY <1>3
      <4> QED BY <1>3, <4>1, <4>2 DEF PrepInv, PrepType, Guests!TypeOK
    <3>2. ASSUME NEW g \in Guests!Guest, NEW n \in {0, mishaps.runs},
                 guest' = [guest EXCEPT ![g] = [by |-> n, runs |-> FALSE]]
          PROVE  <2>1
      <4>1. n \in 0..MaxPreps
        BY <1>3
      <4>2. guest' \in [Guests!Guest -> [by : 0..MaxPreps, runs : BOOLEAN]]
        BY <3>2, <4>1 DEF PrepInv, PrepType, Guests!TypeOK
      <4>3. /\ guest'[g] = [by |-> n, runs |-> FALSE]
            /\ \A h \in Guests!Guest \ {g} : guest'[h] = guest[h]
        BY <1>3, <3>2
      <4> QED BY <4>2, <4>3
    <3>3. \A g \in Guests!Defined : g \in Guests!Guest
      BY DEF Guests!Defined
    <3> QED BY <1>23, <3>1, <3>2, <3>3 DEF Guests!Test
  <2>2. PrepType'
    BY <2>0, <2>1 DEF PrepInv, PrepType, Guests!TypeOK
  <2>3. ImageInv' /\ GuestInv'
    BY <2>0 DEF PrepInv, ImageInv, GuestInv, Given, Restored, Stopped, Connected, Installed
  <2>4. \A g \in Guests!Guest : guest'[g].by \in 1..(mishaps.runs - 1) =>
                                 guest[g].by \in 1..(mishaps.runs - 1)
    BY <1>3, <2>1
  <2>5. SnapshotInv'
    BY <2>0, <2>4 DEF PrepInv, SnapshotInv
  <2> QED BY <2>2, <2>3, <2>5 DEF PrepInv
<1>24. CASE Guests!Check
  <2>0. /\ prep' = [prep EXCEPT !.at = "idle"] /\ prep.at = "test" /\ mounted' = snapshot.mount
        /\ UNCHANGED <<image, imgcopy, network, snapshot, mishaps>>
        /\ guest' = [g \in Guests!Guest |->
                         IF g \notin snapshot.def THEN [by |-> 0, runs |-> FALSE]
                         ELSE [by |-> IF guest[g].by = 0 THEN mishaps.runs ELSE guest[g].by,
                               runs |-> FALSE]]
    BY <1>24 DEF Guests!Check
  <2>1. prep' \in Preps /\ prep'.at = "idle"
    BY <1>3, <2>0
  <2>2. guest' \in [Guests!Guest -> [by : 0..MaxPreps, runs : BOOLEAN]]
    BY <1>3, <2>0
  <2>3. snapshot.mount \in BOOLEAN
    BY DEF PrepInv, PrepType, Guests!TypeOK
  <2>4. PrepType'
    BY <2>0, <2>1, <2>2, <2>3 DEF PrepInv, PrepType, Guests!TypeOK
  <2> QED BY <1>1, <1>3, <2>0, <2>1, <2>4
<1>25. CASE Guests!Kill
  <2>0. /\ prep' = [prep EXCEPT !.at = "idle"] /\ prep.at # "idle"
        /\ mishaps' = [mishaps EXCEPT !.kills = @ + 1] /\ mishaps.kills < PrepKills
        /\ UNCHANGED <<image, imgcopy, guest, network, mounted, snapshot>>
    BY <1>25 DEF Guests!Kill
  <2>1. prep' \in Preps /\ prep'.at = "idle"
    BY <1>3, <2>0
  <2>2. /\ mishaps' \in [runs : 0..MaxPreps, kills : 0..PrepKills, faults : 0..PrepFaults]
        /\ mishaps'.kills = mishaps.kills + 1
    BY <1>3, <2>0 DEF PrepInv, PrepType, Guests!TypeOK
  <2>3. PrepType'
    BY <2>0, <2>1, <2>2 DEF PrepInv, PrepType, Guests!TypeOK
  <2> QED BY <1>1, <1>3, <2>0, <2>1, <2>2, <2>3
<1>26. CASE UNCHANGED Guests!gvars
  <2>0. UNCHANGED <<image, imgcopy, guest, network, mounted, snapshot, prep, mishaps>>
    BY <1>26 DEF Guests!gvars
  <2>1. PrepType'
    BY <2>0 DEF PrepInv, PrepType, Guests!TypeOK
  <2>2. ImageInv'
    BY <2>0 DEF PrepInv, ImageInv, Given, Restored, Stopped
  <2>3. GuestInv' /\ SnapshotInv'
    BY <2>0 DEF PrepInv, GuestInv, SnapshotInv, Given, Connected, Installed, New
  <2> QED BY <2>1, <2>2, <2>3 DEF PrepInv
<1> QED
  BY <1>4, <1>5, <1>6, <1>7, <1>8, <1>9, <1>10, <1>11, <1>12, <1>13, <1>15, <1>16, <1>17, <1>18,
     <1>19, <1>20, <1>21, <1>22, <1>23, <1>24, <1>25, <1>26 DEF Guests!Next

\* Tests find the image, the guests and the network as prepared, and only a kill leaves
\* half a backup.
LEMMA PrepIsRight ==
    ASSUME Guests!GuestPrepAssumption, PrepInv
    PROVE  Guests!ImageIsFresh /\ Guests!BackupIsWhole /\ Guests!ReadyAsAsked
<1>1. Guests!ImageIsFresh /\ Guests!BackupIsWhole
  BY DEF PrepInv, ImageInv, Restored, Given, Guests!ImageIsFresh, Guests!BackupIsWhole, Guests!Ready
<1>2. Guests!ReadyAsAsked
  BY DEF PrepInv, GuestInv, Installed, Connected, Given, New, Guests!ReadyAsAsked, Guests!Ready,
         Guests!Me, Guests!Defined, Guests!Guest
<1> QED BY <1>1, <1>2
\* No check takes the guests of v2v for something a test left.
LEMMA V2vIsKept ==
    ASSUME Guests!GuestPrepAssumption, PrepInv, [Guests!Next]_(Guests!gvars)
    PROVE  prep.at = "test" /\ prep'.at = "idle" /\ mounted /\ mishaps' = mishaps =>
              /\ mounted'
              /\ \A g \in V2vVMs : guest[g].by \in 1..(mishaps.runs - 1) => guest'[g].by # 0
<1> SUFFICES ASSUME prep.at = "test", prep'.at = "idle", mounted, mishaps' = mishaps
             PROVE  /\ mounted'
                    /\ \A g \in V2vVMs : guest[g].by \in 1..(mishaps.runs - 1) => guest'[g].by # 0
  OBVIOUS
<1>1. mishaps.kills \in Nat /\ prep.at \notin {"idle"} \cup Guests!Copying
  BY DEF PrepInv, PrepType, Guests!TypeOK, Guests!GuestPrepAssumption, Guests!Copying
<1>2. ~Guests!Kill
  <2>1. (Guests!Kill => mishaps'.kills = mishaps.kills + 1)
    BY DEF Guests!Kill, PrepInv, PrepType, Guests!TypeOK
  <2> QED BY <1>1, <2>1
<1>6. prep' # prep
  OBVIOUS
<1>3. Guests!Check
  <2>1. \A o \in PrepOptions : ~Guests!Start(o)
    BY <1>1 DEF Guests!Start
  <2>2. ~Guests!GuestWrites
    <3>1. Guests!GuestWrites => prep'.at = prep.at
      BY DEF Guests!GuestWrites, PrepInv, PrepType, Guests!TypeOK
    <3> QED BY <3>1
  <2>3. /\ ~Guests!Download /\ ~Guests!Downloaded /\ ~Guests!BackupImage /\ ~Guests!BackedUp
        /\ ~Guests!RestoreImage /\ ~Guests!RestoredImage
    BY <1>1 DEF Guests!Download, Guests!Downloaded, Guests!BackupImage, Guests!BackedUp,
                Guests!RestoreImage, Guests!RestoredImage
  <2>4. \A g \in Guests!Guest : ~Guests!RemoveVM(g) /\ ~Guests!CloneVM(g) /\ ~Guests!DefineVM(g)
    BY <1>1 DEF Guests!RemoveVM, Guests!CloneVM, Guests!DefineVM
  <2>5. /\ ~Guests!Removed /\ ~Guests!PrepareNetwork /\ ~Guests!InstallVM /\ ~Guests!Cloned
        /\ ~Guests!MountSource /\ ~Guests!DefinedAll /\ ~Guests!PrepareState
    BY <1>1 DEF Guests!Removed, Guests!PrepareNetwork, Guests!InstallVM, Guests!Cloned,
                Guests!MountSource, Guests!DefinedAll, Guests!PrepareState
  <2>6. ~Guests!Test /\ ~UNCHANGED Guests!gvars
    BY <1>6 DEF Guests!Test, Guests!gvars
  <2> QED BY <1>2, <2>1, <2>2, <2>3, <2>4, <2>5, <2>6 DEF Guests!Next
<1>4. /\ mounted' = snapshot.mount
      /\ \A g \in Guests!Guest : g \in snapshot.def =>
             guest'[g].by = IF guest[g].by = 0 THEN mishaps.runs ELSE guest[g].by
  BY <1>3 DEF Guests!Check, Guests!Me
<1>5. mishaps.runs > 0 /\ mishaps.runs \in Nat
  BY DEF PrepInv, PrepType, Guests!TypeOK, Guests!GuestPrepAssumption
<1>7. /\ snapshot.mount = mounted /\ V2vVMs \subseteq Guests!Guest
      /\ \A g \in Guests!Guest : guest[g].by \in 1..(mishaps.runs - 1) => g \in snapshot.def
  BY DEF PrepInv, SnapshotInv, Guests!Guest
<1>8. ASSUME NEW g \in V2vVMs, guest[g].by \in 1..(mishaps.runs - 1) PROVE guest'[g].by # 0
  <2>1. guest'[g].by = guest[g].by
    BY <1>4, <1>5, <1>7, <1>8
  <2> QED BY <1>5, <1>8, <2>1
<1> QED
  BY <1>4, <1>7, <1>8

\* What a run prepares, and what it leaves of that to the next one.
THEOREM GuestsHold ==
    ASSUME Guests!GuestPrepAssumption
    PROVE  Guests!Spec => /\ [](Guests!ImageIsFresh /\ Guests!BackupIsWhole /\ Guests!ReadyAsAsked)
                          /\ Guests!V2vStays
<1>1. PrepInv /\ [Guests!Next]_(Guests!gvars) =>
          [prep.at = "test" /\ prep'.at = "idle" /\ mounted /\ mishaps' = mishaps =>
              mounted' /\ \A g \in V2vVMs : guest[g].by \in 1..(Guests!Me - 1) => guest'[g].by # 0
          ]_(Guests!gvars)
  BY V2vIsKept DEF Guests!Me
<1> QED
  BY <1>1, PrepInit, PrepNext, PrepIsRight, PTL DEF Guests!Spec, Guests!V2vStays

-----------------------------------------------------------------------------
(* Packages.  The threads of a run write the rows of different builds, so  *)
(* what is not recorded when a run looks is not recorded until its own     *)
(* thread writes.  What lies behind the place a thread will write to is of *)
(* this run and crossed, and what it writes is the latest that is tagged.  *)

UpdaterType == [at : Feed!Phases, todo : SUBSET Product, list : [Build -> SUBSET Product],
                odd : SUBSET Product]
ThreadType  == [at : Feed!Stages, rows : Nat, for : SUBSET Product]

FeedTypes ==
    /\ tagged \in [Product -> SUBSET Build] /\ sheet \in Seq(Feed!Rows)
    /\ stale \subseteq Product /\ crossed \subseteq Build
    /\ updater \in UpdaterType /\ update \in [Build -> ThreadType]

\* A build whose thread has rows to write, or may be started with some.
Pending(b) == \/ update[b].at \in {"packages", "rows", "write"}
              \/ update[b].at = "none" /\ updater.at \in {"look", "threads"}

IsRow(i, b, p) == i \in 1..Len(sheet) /\ sheet[i].build = b /\ sheet[i].product = p

\* The run and its threads.
RunInv ==
    /\ updater.at = "look" => updater.odd = {} /\ \A b \in Build : update[b].at = "none"
    /\ updater.at = "look" => \A b \in Build : updater.list[b] \cap updater.todo = {}
    /\ updater.at \in {"index", "ended"} => Feed!Live = {}
    /\ updater.at = "ended" => updater.odd \cap stale = {}
    /\ \A b \in Build : update[b].at # "none" => update[b].for = updater.list[b]
    /\ \A b \in Build : update[b].at = "write" => update[b].rows <= Len(sheet)

\* What is listed is the latest of its package that is tagged, and one of each.
ListInv ==
    /\ \A b \in Build, p \in Product : p \in updater.list[b] => b \in tagged[p]
    /\ \A a, b \in Build, p \in Product :
           p \in updater.list[a] /\ p \in updater.list[b] /\ NameOf[a] = NameOf[b] => a = b

\* What is in the sheet, and what is not yet.
SheetInv ==
    /\ \A i \in 1..Len(sheet) : sheet[i].build \in Build /\ sheet[i].build # Feed!Old =>
           sheet[i].build \in tagged[sheet[i].product]
    /\ \A i \in 1..Len(sheet), b \in Build :
           /\ sheet[i].product \in updater.list[b] /\ Pending(b)
           /\ sheet[i].build \in Build /\ sheet[i].build # Feed!Old
           => /\ sheet[i].build # b
              /\ NameOf[sheet[i].build] = NameOf[b] => ~Feed!Newer(sheet[i].build, b)
    /\ \A b \in Build : updater.list[b] # {} => b # Feed!Old

\* What is behind the rows that a thread has read.
BehindInv ==
    \A a \in Build : update[a].at = "write" =>
        \A i \in 1..Len(sheet) : i > update[a].rows =>
            /\ sheet[i].build \in crossed
            /\ sheet[i].product \in updater.list[sheet[i].build]

\* A row of a thread that went on, before the rows of those that are to write.
WrittenInv ==
    \A b \in Build : update[b].at \in {"mail", "done"} /\ b \notin crossed =>
        \A p \in update[b].for : \E i \in 1..Len(sheet) :
            /\ IsRow(i, b, p)
            /\ \A a \in Build : update[a].at = "write" => i <= update[a].rows

FeedInv == /\ FeedTypes /\ RunInv /\ ListInv /\ SheetInv /\ BehindInv /\ WrittenInv
           /\ Feed!NoRowTwice /\ Feed!NoDowngrade

\* A thread that goes on without writing, and a run that goes on.
Advances(b, v) ==
    /\ update' = [update EXCEPT ![b] = v] /\ v.for = update[b].for
    /\ update[b].at \notin {"none", "done", "dead"}
    /\ v.at \notin {"none", "packages"}
    /\ v.at = "write" => update[b].at = "rows" /\ v.rows = Len(sheet)
    /\ v.at = "rows" => update[b].at = "packages"
    /\ v.at \in {"mail", "done"} => update[b].at = "mail"
    /\ stale' \subseteq Product /\ UNCHANGED <<tagged, sheet, updater, crossed>>
Moves(x) ==
    /\ updater' = [updater EXCEPT !.at = x] /\ x # "look"
    /\ x \in {"index", "ended"} => Feed!Live = {}
    /\ x = "threads" => updater.at = "look"
    /\ x = "ended" => updater.odd \cap stale' = {}
    /\ stale' \subseteq stale /\ UNCHANGED <<tagged, sheet, update, crossed>>

\* The steps of a thread that writes no row are such moves.
LEMMA AdvanceSteps ==
    ASSUME FeedTypes, NEW b \in Build,
           \/ Feed!Playbook(b) \/ Feed!Fetch(b) \/ Feed!Mail(b)
           \/ update[b].at = "write" /\ Feed!Die(b)
                  /\ UNCHANGED <<tagged, sheet, stale, updater, crossed>>
    PROVE  \E v \in ThreadType : Advances(b, v)
<1> DEFINE w == update[b]
           go(x) == [w EXCEPT !.at = x]
<1>0. w \in ThreadType /\ update \in [Build -> ThreadType] /\ sheet \in Seq(Feed!Rows)
  BY DEF FeedTypes
<1>1. ASSUME NEW x \in Feed!Stages
      PROVE  /\ go(x) \in ThreadType /\ go(x).at = x /\ go(x).for = w.for
             /\ Feed!Goto(b, x) => update' = [update EXCEPT ![b] = go(x)]
  <2>1. Feed!Goto(b, x) => update' = [update EXCEPT ![b] = go(x)]
    BY DEF Feed!Goto
  <2> HIDE DEF w
  <2>2. go(x) \in ThreadType /\ go(x).at = x /\ go(x).for = w.for
    BY <1>0 DEF ThreadType
  <2> QED BY <2>1, <2>2
<1>2. {"rows", "write", "mail", "done", "dead"} \subseteq Feed!Stages
  BY DEF Feed!Stages
<1>3. CASE Feed!Playbook(b)
  <2>1. w.at = "packages" /\ UNCHANGED <<tagged, sheet, updater, crossed>>
    BY <1>3 DEF Feed!Playbook
  <2>2. PICK into \in IF FeedFails THEN SUBSET w.for ELSE {w.for} : stale' = stale \cup into
    BY <1>3 DEF Feed!Playbook
  <2>3. w.for \subseteq Product
    BY <1>0 DEF ThreadType
  <2>4. stale' \subseteq Product
    <3>1. into \subseteq w.for
      BY <2>2
    <3> QED BY <2>2, <2>3, <3>1 DEF FeedTypes
  <2>5. Feed!Goto(b, "rows") \/ Feed!Goto(b, "dead")
    BY <1>3 DEF Feed!Playbook, Feed!Die
  <2>6. CASE Feed!Goto(b, "rows")
    <3>1. Advances(b, go("rows"))
      BY <1>1, <1>2, <2>1, <2>4, <2>6 DEF Advances
    <3> QED BY <1>1, <1>2, <3>1
  <2>7. CASE Feed!Goto(b, "dead")
    <3>1. Advances(b, go("dead"))
      BY <1>1, <1>2, <2>1, <2>4, <2>7 DEF Advances
    <3> QED BY <1>1, <1>2, <3>1
  <2> QED BY <2>5, <2>6, <2>7
<1>4. CASE Feed!Fetch(b)
  <2>1. w.at = "rows" /\ UNCHANGED <<tagged, sheet, stale, updater, crossed>>
            /\ stale \subseteq Product
    BY <1>4 DEF Feed!Fetch, FeedTypes
  <2>2. CASE Feed!Goto(b, "dead")
    <3>1. Advances(b, go("dead"))
      BY <1>1, <1>2, <2>1, <2>2 DEF Advances
    <3> QED BY <1>1, <1>2, <3>1
  <2>3. CASE update' = [update EXCEPT ![b].at = "write", ![b].rows = Len(sheet)]
    <3> DEFINE n == Len(sheet)
               v == [w EXCEPT !.at = "write", !.rows = n]
    <3>1. n \in Nat
      BY <1>0
    <3> HIDE DEF n
    <3>2. v \in ThreadType /\ v.at = "write" /\ v.rows = n /\ v.for = w.for
      <4> HIDE DEF w
      <4> QED BY <1>0, <1>2, <3>1 DEF ThreadType
    <3>3. update' = [update EXCEPT ![b] = v]
      BY <1>0, <2>3 DEF n
    <3> HIDE DEF v
    <3>4. Advances(b, v)
      BY <2>1, <3>2, <3>3 DEF Advances, n
    <3> QED BY <3>2, <3>4
  <2> QED BY <1>4, <2>2, <2>3 DEF Feed!Fetch, Feed!Die
<1>5. CASE Feed!Mail(b)
  <2>1. w.at = "mail" /\ UNCHANGED <<tagged, sheet, stale, updater, crossed>>
            /\ stale \subseteq Product
    BY <1>5 DEF Feed!Mail, FeedTypes
  <2>2. CASE Feed!Goto(b, "dead")
    <3>1. Advances(b, go("dead"))
      BY <1>1, <1>2, <2>1, <2>2 DEF Advances
    <3> QED BY <1>1, <1>2, <3>1
  <2>3. CASE Feed!Goto(b, "done")
    <3>1. Advances(b, go("done"))
      BY <1>1, <1>2, <2>1, <2>3 DEF Advances
    <3> QED BY <1>1, <1>2, <3>1
  <2> QED BY <1>5, <2>2, <2>3 DEF Feed!Mail, Feed!Die
<1>6. ASSUME update[b].at = "write", Feed!Die(b),
          UNCHANGED <<tagged, sheet, stale, updater, crossed>>
      PROVE  \E v \in ThreadType : Advances(b, v)
  <2>1. Feed!Goto(b, "dead") /\ stale' \subseteq Product
    BY <1>6 DEF Feed!Die, FeedTypes
  <2>2. Advances(b, go("dead"))
    BY <1>1, <1>2, <1>6, <2>1 DEF Advances
  <2> QED BY <1>1, <1>2, <2>2
<1> QED BY <1>3, <1>4, <1>5, <1>6

\* The steps between the phases of a run are such moves.
LEMMA MoveSteps ==
    ASSUME FeedTypes, RunInv,
           \/ Feed!Looked \/ Feed!Started \/ Feed!Joined \/ Feed!Index
           \/ Feed!Raise /\ UNCHANGED <<tagged, sheet, stale, update, crossed>>
    PROVE  \E x \in Feed!Phases : Moves(x)
<1>0. {"raised", "threads", "wait", "index", "ended"} \subseteq Feed!Phases
  BY DEF Feed!Phases
<1>1. CASE Feed!Looked
  <2>1. updater.at = "look" /\ UNCHANGED <<tagged, sheet, stale, update, crossed>>
    BY <1>1 DEF Feed!Looked
  <2>2. updater.odd = {} /\ Feed!Live = {}
    BY <2>1 DEF RunInv, Feed!Live
  <2>3. Moves("ended") \/ Moves("threads")
    BY <1>1, <2>1, <2>2 DEF Feed!Looked, Moves
  <2> QED BY <1>0, <2>3
<1>2. CASE Feed!Started
  <2>1. Moves("wait")
    BY <1>2 DEF Feed!Started, Moves
  <2> QED BY <1>0, <2>1
<1>3. CASE Feed!Joined
  <2>1. Moves("index")
    BY <1>3 DEF Feed!Joined, Moves
  <2> QED BY <1>0, <2>1
<1>4. CASE Feed!Index
  <2>1. updater.at = "index" /\ UNCHANGED <<tagged, sheet, update, crossed>> /\ Feed!Live = {}
    BY <1>4 DEF Feed!Index, RunInv
  <2>2. CASE updater' = [updater EXCEPT !.at = "ended"] /\ stale' = stale \ updater.odd
    <3>1. Moves("ended")
      BY <2>1, <2>2 DEF Moves
    <3> QED BY <1>0, <3>1
  <2>3. ASSUME Feed!Raise, NEW some \in SUBSET updater.odd, stale' = stale \ some
        PROVE  Moves("raised")
    BY <2>1, <2>3 DEF Moves, Feed!Raise
  <2> QED BY <1>0, <1>4, <2>2, <2>3 DEF Feed!Index
<1>5. ASSUME Feed!Raise, UNCHANGED <<tagged, sheet, stale, update, crossed>>
      PROVE  Moves("raised")
  BY <1>5 DEF Moves, Feed!Raise
<1> QED BY <1>0, <1>1, <1>2, <1>3, <1>4, <1>5

\* The steps of a kind of their own.
Looks(p) ==
    \E new \in SUBSET Build :
        /\ updater.at = "look" /\ p \in updater.todo
        /\ updater' = [updater EXCEPT !.todo = @ \ {p},
                           !.list = [b \in Build |-> IF b \in new THEN @[b] \cup {p} ELSE @[b]]]
        /\ \A b \in new : /\ b # Feed!Old /\ b \notin Feed!Recorded(p) /\ b \in tagged[p]
                          /\ \A a \in tagged[p] : NameOf[a] = NameOf[b] => ~Feed!Newer(a, b)
        /\ \A a, b \in new : NameOf[a] = NameOf[b] => a = b
        /\ UNCHANGED <<tagged, sheet, stale, update, crossed>>
Assigned(b) ==
    /\ updater.at = "threads" /\ updater.list[b] # {} /\ update[b].at = "none"
    /\ updater' = [updater EXCEPT !.odd = (@ \ updater.list[b]) \cup (updater.list[b] \ @)]
    /\ update' = [update EXCEPT ![b] = [at |-> "packages", rows |-> 0, for |-> updater.list[b]]]
    /\ UNCHANGED <<tagged, sheet, stale, crossed>>
Pushes(b, order) ==
    /\ update[b].at = "write" /\ order \in Feed!Orders(update[b].for)
    /\ sheet' = Feed!Written(b, order) /\ crossed' = crossed \cup Feed!Crossing(b)
    /\ Feed!Goto(b, "mail") /\ UNCHANGED <<tagged, stale, updater>>

\* A look at a product lists builds that are not recorded, or ends the run.
LEMMA LookSteps ==
    ASSUME FeedTypes, NEW p \in Product, Feed!Look(p)
    PROVE  Looks(p) \/ (Feed!Raise /\ UNCHANGED <<tagged, sheet, stale, update, crossed>>)
<1>1. SUFFICES ASSUME ~Feed!Raise PROVE Looks(p)
  BY DEF Feed!Look
<1>2. PICK pick \in [Watched -> Build \cup {Feed!Old}] :
          /\ \A n \in Watched : IF Feed!Latest(tagged[p], n) = {} THEN pick[n] = Feed!Old
                                ELSE pick[n] \in Feed!Latest(tagged[p], n)
          /\ updater' = [updater EXCEPT !.todo = @ \ {p},
                 !.list = [b \in Build |-> IF b \in {pick[n] : n \in Watched}
                                                       \ (Feed!Recorded(p) \cup {Feed!Old})
                                           THEN @[b] \cup {p} ELSE @[b]]]
  BY <1>1 DEF Feed!Look
<1> DEFINE new == {pick[n] : n \in Watched} \ (Feed!Recorded(p) \cup {Feed!Old})
<1>3. new \in SUBSET Build
  BY <1>2
<1>4. tagged[p] \subseteq Build
  BY DEF FeedTypes
<1>5. ASSUME NEW b \in new
      PROVE  /\ b # Feed!Old /\ b \notin Feed!Recorded(p) /\ b \in tagged[p]
             /\ b \in Feed!Latest(tagged[p], NameOf[b])
  <2>1. PICK n \in Watched : b = pick[n]
    OBVIOUS
  <2>2. b \in Feed!Latest(tagged[p], n)
    BY <1>2, <2>1
  <2>3. NameOf[b] = n /\ b \in tagged[p]
    BY <2>2 DEF Feed!Latest
  <2> QED BY <2>2, <2>3
<1>6. ASSUME NEW a \in new, NEW b \in new, NameOf[a] = NameOf[b] PROVE a = b
  <2>1. PICK n \in Watched : a = pick[n]
    OBVIOUS
  <2>2. PICK m \in Watched : b = pick[m]
    OBVIOUS
  <2>3. a \in Feed!Latest(tagged[p], n) /\ b \in Feed!Latest(tagged[p], m)
    BY <1>2, <2>1, <2>2
  <2>4. n = m
    BY <1>6, <2>3 DEF Feed!Latest
  <2> QED BY <2>1, <2>2, <2>4
<1>7. updater.at = "look" /\ p \in updater.todo
          /\ UNCHANGED <<tagged, sheet, stale, update, crossed>>
  BY DEF Feed!Look
<1>8. \A b \in new : \A a \in tagged[p] : NameOf[a] = NameOf[b] => ~Feed!Newer(a, b)
  BY <1>5 DEF Feed!Latest
<1>9. updater' = [updater EXCEPT !.todo = @ \ {p},
                      !.list = [b \in Build |-> IF b \in new THEN @[b] \cup {p} ELSE @[b]]]
  BY <1>2
<1> HIDE DEF new
<1> QED BY <1>3, <1>5, <1>6, <1>7, <1>8, <1>9 DEF Looks

\* Every step is one of these kinds, or brew tags a build, or a run begins.
LEMMA FeedSteps ==
    ASSUME FeedTypes, RunInv, [Feed!Next]_(Feed!vars)
    PROVE  \/ \E b \in Build, v \in ThreadType : Advances(b, v)
           \/ \E x \in Feed!Phases : Moves(x)
           \/ \E p \in Product : Looks(p)
           \/ \E b \in Build : Assigned(b)
           \/ \E b \in Build : \E order : Pushes(b, order)
           \/ \E p \in Product, b \in Build : Feed!Tag(p, b)
           \/ Feed!Begin \/ UNCHANGED Feed!vars
<1>1. ASSUME NEW b \in Build, Feed!Start(b)
      PROVE  Assigned(b) \/ (Feed!Raise /\ UNCHANGED <<tagged, sheet, stale, update, crossed>>)
  BY <1>1 DEF Feed!Start, Assigned
<1>2. ASSUME NEW b \in Build, Feed!Push(b)
      PROVE  \/ \E order : Pushes(b, order)
             \/ /\ update[b].at = "write" /\ Feed!Die(b)
                /\ UNCHANGED <<tagged, sheet, stale, updater, crossed>>
  BY <1>2 DEF Feed!Push, Pushes
<1>3. ASSUME NEW b \in Build, Feed!Thread(b)
      PROVE  (\E v \in ThreadType : Advances(b, v)) \/ \E order : Pushes(b, order)
  BY <1>2, <1>3, AdvanceSteps DEF Feed!Thread
<1> QED BY <1>1, <1>3, LookSteps, MoveSteps DEF Feed!Next, Feed!Run


\* A step that keeps the sheet and what is listed: what is pending was pending.
LEMMA SheetKept ==
    ASSUME FeedTypes, SheetInv, UNCHANGED <<tagged, sheet>>, updater'.list = updater.list,
           \A b \in Build : updater.list[b] # {} /\ Pending(b)' => Pending(b)
    PROVE  SheetInv'
<1>1. \A i \in 1..Len(sheet), b \in Build :
          sheet[i].product \in updater.list[b] /\ Pending(b)' => Pending(b)
  OBVIOUS
<1> HIDE DEF Pending
<1> QED BY <1>1 DEF SheetInv

\* A thread that goes on keeps the invariant,
LEMMA AdvanceKeeps ==
    ASSUME FeedInv, NEW b \in Build, NEW v \in ThreadType, Advances(b, v)
    PROVE  FeedInv' /\ sheet' = sheet
<1>0. FeedTypes /\ RunInv /\ ListInv /\ SheetInv /\ BehindInv /\ WrittenInv
  BY DEF FeedInv
<1>1. /\ update'[b] = v /\ update' \in [Build -> ThreadType]
      /\ \A a \in Build : a # b => update'[a] = update[a]
      /\ UNCHANGED <<tagged, sheet, updater, crossed>> /\ stale' \subseteq Product
  BY <1>0 DEF Advances, FeedTypes
<1>2. /\ update[b].at \notin {"none", "done", "dead"} /\ v.for = update[b].for
      /\ v.at \notin {"none", "packages"}
      /\ v.at = "write" => update[b].at = "rows" /\ v.rows = Len(sheet)
      /\ v.at = "rows" => update[b].at = "packages"
      /\ v.at \in {"mail", "done"} => update[b].at = "mail"
  BY DEF Advances
<1>n. Len(sheet) \in Nat
  BY <1>0 DEF FeedTypes
<1>3. FeedTypes'
  BY <1>0, <1>1 DEF FeedTypes
<1>4. RunInv'
  <2>1. b \in Feed!Live
    BY <1>2 DEF Feed!Live
  <2>2. updater.at \notin {"look", "index", "ended"}
    BY <1>0, <1>2, <2>1 DEF RunInv
  <2>3. ASSUME NEW a \in Build
        PROVE  /\ update'[a].at # "none" => update'[a].for = updater.list[a]
               /\ update'[a].at = "write" => update'[a].rows <= Len(sheet)
    <3>1. CASE a = b
      BY <1>0, <1>1, <1>2, <1>n, <3>1 DEF RunInv
    <3>2. CASE a # b
      BY <1>0, <1>1, <3>2 DEF RunInv
    <3> QED BY <3>1, <3>2
  <2> QED BY <1>1, <2>2, <2>3 DEF RunInv
<1>5. ListInv'
  BY <1>0, <1>1 DEF ListInv
<1>6. SheetInv'
  <2>1. \A a \in Build : Pending(a)' => Pending(a)
    BY <1>1, <1>2 DEF Pending
  <2> QED BY <1>0, <1>1, <2>1, SheetKept
<1>7. BehindInv'
  <2>1. ASSUME NEW a \in Build, update'[a].at = "write", NEW i \in 1..Len(sheet),
            i > update'[a].rows
        PROVE  sheet[i].build \in crossed /\ sheet[i].product \in updater.list[sheet[i].build]
    <3>1. CASE a = b
      BY <1>1, <1>2, <1>n, <2>1, <3>1
    <3>2. CASE a # b
      BY <1>0, <1>1, <2>1, <3>2 DEF BehindInv
    <3> QED BY <3>1, <3>2
  <2> QED BY <1>1, <2>1 DEF BehindInv
<1>8. WrittenInv'
  <2>1. ASSUME NEW c \in Build, update'[c].at \in {"mail", "done"}, c \notin crossed,
               NEW p \in update'[c].for
        PROVE  \E i \in 1..Len(sheet) : /\ IsRow(i, c, p)
                                        /\ \A a \in Build :
                                               update'[a].at = "write" => i <= update'[a].rows
    <3>1. update[c].at \in {"mail", "done"} /\ update'[c].for = update[c].for
      BY <1>1, <1>2, <2>1
    <3>2. PICK i \in 1..Len(sheet) :
              IsRow(i, c, p) /\ \A a \in Build : update[a].at = "write" => i <= update[a].rows
      BY <1>0, <2>1, <3>1 DEF WrittenInv
    <3>3. \A a \in Build : update'[a].at = "write" => i <= update'[a].rows
      BY <1>1, <1>2, <1>n, <3>2
    <3> QED BY <3>2, <3>3
  <2>2. \A i, c, p : IsRow(i, c, p)' <=> IsRow(i, c, p)
    BY <1>1 DEF IsRow
  <2> QED BY <1>1, <2>1, <2>2 DEF WrittenInv
<1>9. Feed!NoRowTwice' /\ Feed!NoDowngrade'
  <2>1. Feed!NoRowTwice /\ Feed!NoDowngrade
    BY DEF FeedInv
  <2> QED BY <1>1, <2>1 DEF Feed!NoRowTwice, Feed!NoDowngrade
<1> QED BY <1>1, <1>3, <1>4, <1>5, <1>6, <1>7, <1>8, <1>9 DEF FeedInv

\* a run that goes on does,
LEMMA MoveKeeps ==
    ASSUME FeedInv, NEW x \in Feed!Phases, Moves(x)
    PROVE  FeedInv' /\ sheet' = sheet
<1>0. FeedTypes /\ RunInv /\ ListInv /\ SheetInv /\ BehindInv /\ WrittenInv
  BY DEF FeedInv
<1>1. /\ updater' \in UpdaterType /\ updater'.at = x /\ updater'.list = updater.list
      /\ updater'.odd = updater.odd
      /\ UNCHANGED <<tagged, sheet, update, crossed>> /\ stale' \subseteq stale
  BY <1>0 DEF Moves, FeedTypes, UpdaterType
<1>2. /\ x # "look" /\ (x \in {"index", "ended"} => Feed!Live = {})
      /\ (x = "threads" => updater.at = "look") /\ (x = "ended" => updater.odd \cap stale' = {})
  BY DEF Moves
<1>3. FeedTypes'
  BY <1>0, <1>1 DEF FeedTypes
<1>4. RunInv'
  <2>1. Feed!Live' = Feed!Live
    BY <1>1 DEF Feed!Live
  <2> QED BY <1>0, <1>1, <1>2, <2>1 DEF RunInv
<1>5. ListInv'
  BY <1>0, <1>1 DEF ListInv
<1>6. SheetInv'
  <2>1. \A a \in Build : Pending(a)' => Pending(a)
    BY <1>1, <1>2 DEF Pending
  <2> QED BY <1>0, <1>1, <2>1, SheetKept
<1>7. BehindInv' /\ WrittenInv'
  BY <1>0, <1>1 DEF BehindInv, WrittenInv, IsRow
<1>8. Feed!NoRowTwice' /\ Feed!NoDowngrade'
  BY <1>1 DEF FeedInv, Feed!NoRowTwice, Feed!NoDowngrade
<1> QED BY <1>1, <1>3, <1>4, <1>5, <1>6, <1>7, <1>8 DEF FeedInv

\* a thread that is started does,
LEMMA AssignKeeps ==
    ASSUME FeedInv, NEW b \in Build, Assigned(b)
    PROVE  FeedInv' /\ sheet' = sheet
<1>0. FeedTypes /\ RunInv /\ ListInv /\ SheetInv /\ BehindInv /\ WrittenInv
  BY DEF FeedInv
<1> DEFINE v == [at |-> "packages", rows |-> 0, for |-> updater.list[b]]
           odd == (updater.odd \ updater.list[b]) \cup (updater.list[b] \ updater.odd)
<1>1. /\ v \in ThreadType /\ v.at = "packages" /\ v.for = updater.list[b] /\ odd \subseteq Product
      /\ updater.at = "threads" /\ update[b].at = "none"
      /\ updater' = [updater EXCEPT !.odd = odd] /\ update' = [update EXCEPT ![b] = v]
      /\ UNCHANGED <<tagged, sheet, stale, crossed>>
  <2>1. updater.list[b] \subseteq Product /\ updater.odd \subseteq Product
    BY <1>0 DEF FeedTypes, UpdaterType
  <2>2. v \in ThreadType
    BY <2>1 DEF ThreadType, Feed!Stages
  <2>3. odd \subseteq Product
    BY <2>1
  <2> QED BY <2>2, <2>3 DEF Assigned
<1> HIDE DEF v, odd
<1>2. /\ updater' \in UpdaterType /\ updater'.at = "threads" /\ updater'.list = updater.list
      /\ updater'.odd = odd
  BY <1>0, <1>1 DEF FeedTypes, UpdaterType
<1>3. /\ update' \in [Build -> ThreadType] /\ update'[b] = v
      /\ \A a \in Build : a # b => update'[a] = update[a]
  BY <1>0, <1>1 DEF FeedTypes
<1>4. FeedTypes'
  BY <1>0, <1>1, <1>2, <1>3 DEF FeedTypes
<1>5. RunInv'
  BY <1>0, <1>1, <1>2, <1>3 DEF RunInv
<1>6. ListInv'
  BY <1>0, <1>1, <1>2 DEF ListInv
<1>7. SheetInv'
  <2>1. \A a \in Build : Pending(a)' => Pending(a)
    BY <1>1, <1>2, <1>3 DEF Pending
  <2> QED BY <1>0, <1>1, <1>2, <2>1, SheetKept
<1>8. BehindInv' /\ WrittenInv'
  BY <1>0, <1>1, <1>2, <1>3 DEF BehindInv, WrittenInv, IsRow
<1>9. Feed!NoRowTwice' /\ Feed!NoDowngrade'
  BY <1>1 DEF FeedInv, Feed!NoRowTwice, Feed!NoDowngrade
<1> QED BY <1>1, <1>4, <1>5, <1>6, <1>7, <1>8, <1>9 DEF FeedInv

\* a look at a product does,
LEMMA LookKeeps ==
    ASSUME FeedInv, NEW p \in Product, Looks(p)
    PROVE  FeedInv' /\ sheet' = sheet
<1>0. FeedTypes /\ RunInv /\ ListInv /\ SheetInv /\ BehindInv /\ WrittenInv
  BY DEF FeedInv
<1>1. PICK new \in SUBSET Build :
        /\ updater' = [updater EXCEPT !.todo = @ \ {p},
                           !.list = [b \in Build |-> IF b \in new THEN @[b] \cup {p} ELSE @[b]]]
        /\ \A b \in new : /\ b # Feed!Old /\ b \notin Feed!Recorded(p) /\ b \in tagged[p]
                          /\ \A a \in tagged[p] : NameOf[a] = NameOf[b] => ~Feed!Newer(a, b)
        /\ \A a, b \in new : NameOf[a] = NameOf[b] => a = b
  BY DEF Looks
<1>2. updater.at = "look" /\ p \in updater.todo
          /\ UNCHANGED <<tagged, sheet, stale, update, crossed>>
  BY DEF Looks
<1> DEFINE l == [b \in Build |-> IF b \in new THEN updater.list[b] \cup {p} ELSE updater.list[b]]
           t == updater.todo \ {p}
<1>3. updater' = [updater EXCEPT !.todo = t, !.list = l]
  BY <1>1
<1>4. l \in [Build -> SUBSET Product] /\ t \subseteq Product /\ t \subseteq updater.todo
          /\ p \notin t
  BY <1>0 DEF FeedTypes, UpdaterType
<1>5. \A b \in Build : l[b] = IF b \in new THEN updater.list[b] \cup {p} ELSE updater.list[b]
  OBVIOUS
<1> HIDE DEF l, t
<1>6. /\ updater' \in UpdaterType /\ updater'.at = "look" /\ updater'.list = l
      /\ updater'.todo = t /\ updater'.odd = updater.odd
  BY <1>0, <1>2, <1>3, <1>4 DEF FeedTypes, UpdaterType
<1>7. \A b \in Build : update[b].at = "none" /\ updater.list[b] \cap updater.todo = {}
  BY <1>0, <1>2 DEF RunInv
<1>8. FeedTypes'
  BY <1>0, <1>2, <1>6 DEF FeedTypes
<1>9. RunInv'
  <2>1. \A b \in Build : l[b] \cap t = {}
    BY <1>4, <1>5, <1>7
  <2> QED BY <1>0, <1>2, <1>6, <1>7, <2>1 DEF RunInv
<1>10. ListInv'
  <2>1. ASSUME NEW b \in Build, NEW q \in Product, q \in l[b] PROVE b \in tagged[q]
    BY <1>0, <1>1, <1>5, <2>1 DEF ListInv
  <2>2. ASSUME NEW a \in Build, NEW b \in Build, NEW q \in Product, q \in l[a], q \in l[b],
               NameOf[a] = NameOf[b]
        PROVE  a = b
    <3>1. CASE q = p
      <4>1. a \in new /\ b \in new
        BY <1>2, <1>5, <1>7, <2>2, <3>1
      <4> QED BY <1>1, <2>2, <4>1
    <3>2. CASE q # p
      BY <1>0, <1>5, <2>2, <3>2 DEF ListInv
    <3> QED BY <3>1, <3>2
  <2> QED BY <1>2, <1>6, <2>1, <2>2 DEF ListInv
<1>11. SheetInv'
  <2>1. ASSUME NEW i \in 1..Len(sheet), NEW b \in Build, sheet[i].product \in l[b],
               sheet[i].build \in Build, sheet[i].build # Feed!Old
        PROVE  /\ sheet[i].build # b
               /\ NameOf[sheet[i].build] = NameOf[b] => ~Feed!Newer(sheet[i].build, b)
    <3>1. CASE sheet[i].product \in updater.list[b]
      <4>1. Pending(b)
        BY <1>2, <1>7 DEF Pending
      <4> QED BY <1>0, <2>1, <3>1, <4>1 DEF SheetInv
    <3>2. CASE sheet[i].product \notin updater.list[b]
      <4>1. b \in new /\ sheet[i].product = p
        BY <1>5, <2>1, <3>2
      <4>2. sheet[i].build # b
        <5>1. sheet[i] \in Feed!Rows
          BY <1>0 DEF FeedTypes
        <5>2. sheet[i].build = b => sheet[i] = [build |-> b, product |-> p]
          BY <4>1, <5>1 DEF Feed!Rows
        <5> QED BY <1>1, <4>1, <5>2 DEF Feed!Recorded
      <4>3. sheet[i].build \in tagged[p]
        BY <1>0, <2>1, <4>1 DEF SheetInv
      <4> QED BY <1>1, <4>1, <4>2, <4>3
    <3> QED BY <3>1, <3>2
  <2>2. \A b \in Build : l[b] # {} => b # Feed!Old
    BY <1>0, <1>1, <1>5 DEF SheetInv
  <2>3. \A i \in 1..Len(sheet) : sheet[i].build \in Build /\ sheet[i].build # Feed!Old =>
            sheet[i].build \in tagged[sheet[i].product]
    BY <1>0 DEF SheetInv
  <2> QED BY <1>2, <1>6, <2>1, <2>2, <2>3 DEF SheetInv
<1>12. BehindInv' /\ WrittenInv'
  BY <1>2, <1>7 DEF BehindInv, WrittenInv
<1>13. Feed!NoRowTwice' /\ Feed!NoDowngrade'
  BY <1>2 DEF FeedInv, Feed!NoRowTwice, Feed!NoDowngrade
<1> QED BY <1>2, <1>8, <1>9, <1>10, <1>11, <1>12, <1>13 DEF FeedInv

\* a build that is tagged does,
LEMMA TagKeeps ==
    ASSUME FeedInv, NEW p \in Product, NEW b \in Build, Feed!Tag(p, b)
    PROVE  FeedInv' /\ sheet' = sheet
<1>0. FeedTypes /\ RunInv /\ ListInv /\ SheetInv /\ BehindInv /\ WrittenInv
  BY DEF FeedInv
<1>1. /\ UNCHANGED <<sheet, stale, updater, update, crossed>>
      /\ tagged' \in [Product -> SUBSET Build]
      /\ \A q \in Product : tagged[q] \subseteq tagged'[q]
  BY <1>0 DEF Feed!Tag, FeedTypes
<1>2. FeedTypes'
  BY <1>0, <1>1 DEF FeedTypes
<1>3. RunInv'
  BY <1>0, <1>1 DEF RunInv, Feed!Live
<1>4. ListInv'
  BY <1>0, <1>1 DEF ListInv
<1>5. SheetInv'
  <2>1. ASSUME NEW i \in 1..Len(sheet) PROVE sheet[i].product \in Product
    <3>1. sheet[i] \in Feed!Rows
      BY <1>0 DEF FeedTypes
    <3> QED BY <3>1 DEF Feed!Rows
  <2> QED BY <1>0, <1>1, <2>1 DEF SheetInv, Pending
<1>6. BehindInv' /\ WrittenInv'
  BY <1>0, <1>1 DEF BehindInv, WrittenInv, IsRow
<1>7. Feed!NoRowTwice' /\ Feed!NoDowngrade'
  BY <1>1 DEF FeedInv, Feed!NoRowTwice, Feed!NoDowngrade
<1> QED BY <1>1, <1>2, <1>3, <1>4, <1>5, <1>6, <1>7 DEF FeedInv

\* and so does a run that begins.
LEMMA BeginKeeps ==
    ASSUME FeedInv, Feed!Begin
    PROVE  FeedInv' /\ sheet' = sheet
<1>0. FeedTypes /\ RunInv /\ ListInv /\ SheetInv /\ BehindInv /\ WrittenInv
  BY DEF FeedInv
<1>1. /\ UNCHANGED <<tagged, sheet, stale>> /\ crossed' = {}
      /\ updater' \in UpdaterType /\ updater'.at = "look" /\ updater'.odd = {}
      /\ \A b \in Build : updater'.list[b] = {}
  <2>1. updater' = [at |-> "look", todo |-> Product, list |-> [b \in Build |-> {}], odd |-> {}]
    BY DEF Feed!Begin, Feed!IdleRun
  <2>2. UNCHANGED <<tagged, sheet, stale>> /\ crossed' = {}
    BY DEF Feed!Begin
  <2> QED BY <2>1, <2>2 DEF UpdaterType, Feed!Phases
<1>2. update' \in [Build -> ThreadType] /\ \A b \in Build : update'[b].at = "none"
  BY DEF Feed!Begin, Feed!NoUpdate, Feed!NoThread, ThreadType, Feed!Stages
<1>3. FeedTypes'
  BY <1>0, <1>1, <1>2 DEF FeedTypes
<1>4. RunInv'
  BY <1>1, <1>2 DEF RunInv
<1>5. ListInv'
  BY <1>1 DEF ListInv
<1>6. SheetInv'
  BY <1>0, <1>1 DEF SheetInv
<1>7. BehindInv' /\ WrittenInv'
  BY <1>2 DEF BehindInv, WrittenInv
<1>8. Feed!NoRowTwice' /\ Feed!NoDowngrade'
  BY <1>1 DEF FeedInv, Feed!NoRowTwice, Feed!NoDowngrade
<1> QED BY <1>1, <1>3, <1>4, <1>5, <1>6, <1>7, <1>8 DEF FeedInv

\* Finite sets and their sizes are those of the library.
LEMMA FeedSizes ==
    /\ \A S : Feed!Cardinality(S) = Cardinality(S)
    /\ \A S : Feed!IsFiniteSet(S) <=> IsFiniteSet(S)
  BY DEF Feed!Cardinality, Cardinality, Feed!IsFiniteSet, IsFiniteSet

\* The products are finitely many, so those of a build are.
LEMMA FinitelyMany ==
    ASSUME Feed!FeedAssumption, NEW S \in SUBSET Product
    PROVE  IsFiniteSet(S) /\ Cardinality(S) \in Nat
<1>1. IsFiniteSet(Product)
  BY FeedSizes DEF Feed!FeedAssumption
<1>2. IsFiniteSet(S)
  BY <1>1, FS_Subset
<1> QED BY <1>2, FS_CardinalityType

\* What a thread writes: after its number of rows, its build with each of its products.
LEMMA WrittenRows ==
    ASSUME Feed!FeedAssumption, FeedInv, NEW b \in Build, update[b].at = "write",
           NEW order \in Feed!Orders(update[b].for)
    PROVE  LET n == update[b].rows
           IN /\ Feed!Written(b, order) \in Seq(Feed!Rows)
              /\ n + Len(order) \in Nat
              /\ Len(sheet) <= Len(Feed!Written(b, order))
              /\ \A i \in 1..Len(Feed!Written(b, order)) :
                     /\ i > n /\ i <= n + Len(order)
                        => /\ i - n \in 1..Len(order)
                           /\ Feed!Written(b, order)[i] = [build |-> b, product |-> order[i - n]]
                     /\ ~(i > n /\ i <= n + Len(order))
                        => i \in 1..Len(sheet) /\ Feed!Written(b, order)[i] = sheet[i]
              /\ \A i \in 1..Len(order), j \in 1..Len(order) : i # j => order[i] # order[j]
              /\ \A i \in 1..Len(order) : order[i] \in update[b].for /\ order[i] \in Product
              /\ \A p \in update[b].for : \E i \in 1..Len(order) : order[i] = p
              /\ n + Len(order) <= Len(Feed!Written(b, order))
<1> DEFINE n == update[b].rows
           S == update[b].for
           k == Len(order)
           f == Feed!Written(b, order)
<1>1. FeedTypes /\ RunInv
  BY DEF FeedInv
<1>2. n \in Nat /\ S \subseteq Product /\ n <= Len(sheet) /\ Len(sheet) \in Nat
  BY <1>1 DEF FeedTypes, ThreadType, RunInv
<1>3. IsFiniteSet(S) /\ Cardinality(S) \in Nat
  BY <1>2, FinitelyMany
<1> DEFINE c == Cardinality(S)
<1>4. /\ order \in [1..c -> S]
      /\ \A i, j \in 1..c : i # j => order[i] # order[j]
  <2>1. order \in {s \in [1..c -> S] : \A i, j \in DOMAIN s : i # j => s[i] # s[j]}
    BY FeedSizes DEF Feed!Orders
  <2> HIDE DEF c, S
  <2> QED BY <2>1
<1> HIDE DEF c
<1>5. k = c /\ k \in Nat
  <2>1. c \in Nat
    BY <1>3 DEF c
  <2> HIDE DEF S
  <2> QED BY <1>4, <2>1
<1>6. order \in Injection(1..k, S)
  <2> HIDE DEF S, k
  <2>1. \A i, j \in 1..k : order[i] = order[j] => i = j
    BY <1>4, <1>5
  <2>2. order \in [1..k -> S]
    BY <1>4, <1>5
  <2> QED BY <2>1, <2>2 DEF Injection, IsInjective
<1>7. order \in Surjection(1..k, S)
  <2>1. Cardinality(1..k) = k
    <3> HIDE DEF k
    <3> QED BY <1>5, FS_Interval
  <2>2. Cardinality(1..k) = Cardinality(S)
    BY <1>5, <2>1 DEF c
  <2> HIDE DEF k, S
  <2> QED BY <1>3, <1>6, <2>2, FS_Injection
<1>8. \A p \in S : \E i \in 1..k : order[i] = p
  BY <1>7 DEF Surjection
<1> DEFINE last == n + k
           m == IF last > Len(sheet) THEN last ELSE Len(sheet)
<1>9. f = [i \in 1..m |-> IF i > n /\ i <= last THEN [build |-> b, product |-> order[i - n]]
                          ELSE sheet[i]]
  BY DEF Feed!Written
<1>10. m \in Nat /\ Len(sheet) <= m /\ last <= m /\ last \in Nat
  BY <1>2, <1>5
<1>11. \A i \in 1..m : (i > n /\ i <= last => i - n \in 1..k)
           /\ (~(i > n /\ i <= last) => i \in 1..Len(sheet))
  BY <1>2, <1>5
<1> HIDE DEF k, m, f
<1>12. DOMAIN f = 1..m /\ Len(f) = m
  BY <1>9, <1>10
<1>13. ASSUME NEW i \in 1..m PROVE f[i] \in Feed!Rows
  <2>1. CASE i > n /\ i <= last
    <3>1. order[i - n] \in Product
      BY <1>2, <1>4, <1>5, <1>11, <2>1
    <3>2. f[i] = [build |-> b, product |-> order[i - n]]
      BY <1>9, <2>1
    <3> HIDE DEF n, last
    <3> QED BY <3>1, <3>2 DEF Feed!Rows
  <2>2. CASE ~(i > n /\ i <= last)
    <3>1. f[i] = sheet[i] /\ i \in 1..Len(sheet)
      BY <1>9, <1>11, <2>2
    <3> QED BY <1>1, <3>1 DEF FeedTypes
  <2> QED BY <2>1, <2>2
<1>14. f \in Seq(Feed!Rows)
  <2>1. f = [i \in 1..m |-> f[i]]
    BY <1>9
  <2>2. f \in [1..m -> Feed!Rows]
    BY <1>13, <2>1
  <2> QED BY <1>10, <2>2
<1>15. \A i \in 1..m :
          /\ (i > n /\ i <= last) => f[i] = [build |-> b, product |-> order[i - n]]
          /\ ~(i > n /\ i <= last) => f[i] = sheet[i]
  BY <1>9
<1>16. \A i \in 1..k : order[i] \in S /\ order[i] \in Product
  BY <1>2, <1>4, <1>5
<1>17. \A i \in 1..k, j \in 1..k : i # j => order[i] # order[j]
  BY <1>4, <1>5
<1> QED BY <1>8, <1>10, <1>11, <1>12, <1>14, <1>15, <1>16, <1>17 DEF k, f

RowsKept == \A i \in 1..Len(sheet) :
                i <= Len(sheet') /\ (sheet'[i] = sheet[i] \/ sheet[i].build \in crossed)

\* What a thread writes is not recorded yet, and is written over rows of this run.
LEMMA PushKeeps ==
    ASSUME Feed!FeedAssumption, FeedInv, NEW b \in Build, NEW order, Pushes(b, order)
    PROVE  FeedInv' /\ RowsKept
<1>0. FeedTypes /\ RunInv /\ ListInv /\ SheetInv /\ BehindInv /\ WrittenInv
  BY DEF FeedInv
<1> DEFINE n == update[b].rows
           k == Len(order)
           Own(i) == i > n /\ i <= n + k
<1>1. /\ update[b].at = "write" /\ order \in Feed!Orders(update[b].for)
      /\ sheet' = Feed!Written(b, order) /\ crossed' = crossed \cup Feed!Crossing(b)
      /\ UNCHANGED <<tagged, stale, updater>>
  BY DEF Pushes
<1>2. /\ update' \in [Build -> ThreadType]
      /\ update'[b].at = "mail" /\ update'[b].for = update[b].for
      /\ \A a \in Build : a # b => update'[a] = update[a]
  <2> DEFINE w == update[b]
             v == [w EXCEPT !.at = "mail"]
  <2>1. update' = [update EXCEPT ![b] = v]
    BY DEF Pushes, Feed!Goto
  <2>2. w \in ThreadType /\ update \in [Build -> ThreadType]
    BY <1>0 DEF FeedTypes
  <2>3. v \in ThreadType /\ v.at = "mail" /\ v.for = w.for
    <3> HIDE DEF w
    <3> QED BY <2>2 DEF ThreadType, Feed!Stages
  <2> HIDE DEF v
  <2> QED BY <2>1, <2>2, <2>3
<1>3. /\ sheet' \in Seq(Feed!Rows) /\ n + k \in Nat /\ n + k <= Len(sheet')
      /\ Len(sheet) <= Len(sheet')
      /\ \A i \in 1..Len(sheet') :
             /\ Own(i) => i - n \in 1..k /\ sheet'[i] = [build |-> b, product |-> order[i - n]]
             /\ ~Own(i) => i \in 1..Len(sheet) /\ sheet'[i] = sheet[i]
      /\ \A i \in 1..k, j \in 1..k : i # j => order[i] # order[j]
      /\ \A i \in 1..k : order[i] \in update[b].for /\ order[i] \in Product
      /\ \A p \in update[b].for : \E i \in 1..k : order[i] = p
  BY <1>1, WrittenRows
<1>4. /\ n \in Nat /\ n <= Len(sheet) /\ Len(sheet) \in Nat /\ Len(sheet') \in Nat /\ k \in Nat
      /\ update[b].for = updater.list[b]
  <2>1. n \in Nat /\ n <= Len(sheet) /\ Len(sheet) \in Nat /\ update[b].for = updater.list[b]
    BY <1>0, <1>1 DEF FeedTypes, RunInv, ThreadType
  <2>2. order \in [1..Cardinality(update[b].for) -> update[b].for] /\ Len(sheet') \in Nat
    BY <1>1, <1>3, FeedSizes DEF Feed!Orders
  <2>3. Cardinality(update[b].for) \in Nat
    <3>1. update[b].for \subseteq Product
      BY <1>0 DEF FeedTypes, ThreadType
    <3> QED BY <3>1, FinitelyMany
  <2>4. k \in Nat
    <3> DEFINE c == Cardinality(update[b].for)
    <3>1. order \in [1..c -> update[b].for] /\ c \in Nat
      BY <2>2, <2>3
    <3> HIDE DEF c
    <3> QED BY <3>1
  <2> QED BY <2>1, <2>2, <2>4
<1>5. \A i \in 1..Len(sheet') : Own(i) => /\ sheet'[i].build = b /\ i - n \in 1..k
                                          /\ sheet'[i].product = order[i - n]
                                          /\ sheet'[i].product \in updater.list[b]
                                          /\ sheet'[i].product \in Product
  <2> SUFFICES ASSUME NEW i \in 1..Len(sheet'), Own(i)
               PROVE  /\ sheet'[i].build = b /\ i - n \in 1..k /\ sheet'[i].product = order[i - n]
                      /\ sheet'[i].product \in updater.list[b] /\ sheet'[i].product \in Product
    OBVIOUS
  <2>1. i - n \in 1..k /\ sheet'[i] = [build |-> b, product |-> order[i - n]]
    BY <1>3
  <2>2. order[i - n] \in updater.list[b] /\ order[i - n] \in Product
    BY <1>3, <1>4, <2>1
  <2> QED BY <2>1, <2>2
<1>6. /\ \A i \in 1..Len(sheet') : ~Own(i) => i \in 1..Len(sheet) /\ sheet'[i] = sheet[i]
      /\ \A i \in 1..Len(sheet), a \in Build :
             update[a].at = "write" /\ i > update[a].rows =>
                 sheet[i].build \in crossed /\ sheet[i].product \in updater.list[sheet[i].build]
      /\ \A i \in 1..Len(sheet) : Own(i) => i > n
  BY <1>0, <1>3 DEF BehindInv
<1>7. Pending(b) /\ ~Pending(b)' /\ \A a \in Build : a # b => (Pending(a)' <=> Pending(a))
  BY <1>1, <1>2 DEF Pending
<1>8. \A i, j \in 1..Len(sheet') : Own(i) /\ Own(j) /\ sheet'[i].product = sheet'[j].product
          => i = j
  <2> SUFFICES ASSUME NEW i \in 1..Len(sheet'), NEW j \in 1..Len(sheet'), Own(i), Own(j),
                      sheet'[i].product = sheet'[j].product, i # j
               PROVE  FALSE
    OBVIOUS
  <2>1. i - n \in 1..k /\ j - n \in 1..k /\ order[i - n] = order[j - n]
    BY <1>5
  <2>2. i - n # j - n
    BY <1>4
  <2> QED BY <1>3, <2>1, <2>2
<1>9. crossed \subseteq crossed' /\ crossed' \subseteq Build
      /\ (b \notin crossed' => \A a \in Build : a # b => update[a].at # "write")
      /\ \A a \in Build : a # b /\ update[a].at = "write" => b \in crossed'
  BY <1>0, <1>1 DEF Feed!Crossing, FeedTypes
<1>10. sheet' \in Seq(Feed!Rows) /\ \A i \in 1..Len(sheet) : sheet[i] \in Feed!Rows
  BY <1>0, <1>3 DEF FeedTypes
<1> HIDE DEF n, k, Own
<1>11. FeedTypes'
  BY <1>0, <1>1, <1>2, <1>9, <1>10 DEF FeedTypes
<1>12. RunInv'
  <2>1. updater.at \notin {"look", "index", "ended"}
    <3>1. b \in Feed!Live
      BY <1>1 DEF Feed!Live
    <3> QED BY <1>0, <1>1, <3>1 DEF RunInv
  <2>2. \A a \in Build : update'[a].at # "none" => update'[a].for = updater.list[a]
    BY <1>0, <1>1, <1>2 DEF RunInv
  <2>3. ASSUME NEW a \in Build, update'[a].at = "write" PROVE update'[a].rows <= Len(sheet')
    <3>1. a # b /\ update'[a] = update[a]
      BY <1>2, <2>3
    <3>2. update[a].rows <= Len(sheet) /\ update[a].rows \in Nat
      BY <1>0, <2>3, <3>1 DEF RunInv, FeedTypes, ThreadType
    <3> QED BY <1>3, <1>4, <3>1, <3>2
  <2> QED BY <1>1, <2>1, <2>2, <2>3 DEF RunInv
<1>13. ListInv'
  BY <1>0, <1>1 DEF ListInv
<1>14. SheetInv'
  <2>1. ASSUME NEW i \in 1..Len(sheet'), sheet'[i].build \in Build, sheet'[i].build # Feed!Old
        PROVE  sheet'[i].build \in tagged[sheet'[i].product]
    <3>1. CASE Own(i)
      BY <1>0, <1>5, <3>1 DEF ListInv
    <3>2. CASE ~Own(i)
      BY <1>0, <1>6, <2>1, <3>2 DEF SheetInv
    <3> QED BY <3>1, <3>2
  <2>2. ASSUME NEW i \in 1..Len(sheet'), NEW a \in Build, sheet'[i].product \in updater.list[a],
               Pending(a)', sheet'[i].build \in Build, sheet'[i].build # Feed!Old
        PROVE  /\ sheet'[i].build # a
               /\ NameOf[sheet'[i].build] = NameOf[a] => ~Feed!Newer(sheet'[i].build, a)
    <3>0. a # b /\ Pending(a)
      BY <1>7, <2>2
    <3>1. CASE Own(i)
      <4>1. sheet'[i].build = b /\ sheet'[i].product \in updater.list[b]
                /\ sheet'[i].product \in Product
        BY <1>5, <3>1
      <4>2. NameOf[b] # NameOf[a]
        BY <1>0, <2>2, <3>0, <4>1 DEF ListInv
      <4> QED BY <3>0, <4>1, <4>2
    <3>2. CASE ~Own(i)
      <4>1. i \in 1..Len(sheet) /\ sheet'[i] = sheet[i]
        BY <1>6, <3>2
      <4> HIDE DEF Pending
      <4> QED BY <1>0, <2>2, <3>0, <4>1 DEF SheetInv
    <3> QED BY <3>1, <3>2
  <2>3. \A a \in Build : updater.list[a] # {} => a # Feed!Old
    BY <1>0 DEF SheetInv
  <2> HIDE DEF Pending
  <2> QED BY <1>1, <2>1, <2>2, <2>3 DEF SheetInv
<1>15. BehindInv'
  <2>1. ASSUME NEW a \in Build, update'[a].at = "write", NEW i \in 1..Len(sheet'),
            i > update'[a].rows
        PROVE  sheet'[i].build \in crossed' /\ sheet'[i].product \in updater.list[sheet'[i].build]
    <3>1. a # b /\ update'[a] = update[a] /\ b \in crossed'
      BY <1>2, <1>9, <2>1
    <3>2. CASE Own(i)
      BY <1>5, <3>1, <3>2
    <3>3. CASE ~Own(i)
      <4>1. i \in 1..Len(sheet) /\ sheet'[i] = sheet[i]
        BY <1>6, <3>3
      <4> QED BY <1>6, <1>9, <2>1, <3>1, <4>1
    <3> QED BY <3>2, <3>3
  <2> QED BY <1>1, <2>1 DEF BehindInv
<1>16. WrittenInv'
  <2>1. ASSUME NEW c \in Build, update'[c].at \in {"mail", "done"}, c \notin crossed',
               NEW p \in update'[c].for
        PROVE  \E i \in 1..Len(sheet') :
                   /\ sheet'[i].build = c /\ sheet'[i].product = p
                   /\ \A a \in Build : update'[a].at = "write" => i <= update'[a].rows
    <3>1. CASE c = b
      <4>1. PICK j \in 1..k : order[j] = p
        BY <1>2, <1>3, <2>1, <3>1
      <4>2. n + j \in 1..Len(sheet') /\ Own(n + j) /\ (n + j) - n = j
        BY <1>3, <1>4 DEF Own
      <4>3. sheet'[n + j].build = c /\ sheet'[n + j].product = p
        BY <1>5, <3>1, <4>1, <4>2
      <4>4. \A a \in Build : update'[a].at # "write"
        BY <1>2, <1>9, <2>1, <3>1
      <4> QED BY <4>2, <4>3, <4>4
    <3>2. CASE c # b
      <4>1. update[c].at \in {"mail", "done"} /\ c \notin crossed /\ p \in update[c].for
        BY <1>2, <1>9, <2>1, <3>2
      <4>2. PICK i \in 1..Len(sheet) :
                IsRow(i, c, p) /\ \A a \in Build : update[a].at = "write" => i <= update[a].rows
        BY <1>0, <4>1 DEF WrittenInv
      <4>3. i <= n
        BY <1>1, <4>2 DEF n
      <4>4. i \in 1..Len(sheet') /\ ~Own(i)
        BY <1>3, <1>4, <4>3 DEF Own
      <4>5. sheet'[i].build = c /\ sheet'[i].product = p
        BY <1>6, <4>2, <4>4 DEF IsRow
      <4>6. \A a \in Build : update'[a].at = "write" => i <= update'[a].rows
        BY <1>2, <4>2
      <4> QED BY <4>4, <4>5, <4>6
    <3> QED BY <3>1, <3>2
  <2> QED BY <2>1 DEF WrittenInv, IsRow
\* The old rows for which the new one would be a second, or an older build.
<1>17. ASSUME NEW j \in 1..Len(sheet), sheet[j].product \in updater.list[b],
           sheet[j].build # Feed!Old
       PROVE  sheet[j].build # b /\ sheet[j].build \in Build
              /\ (NameOf[sheet[j].build] = NameOf[b] => ~Feed!Newer(sheet[j].build, b))
  <2>1. sheet[j].build \in Build
    BY <1>10, <1>17 DEF Feed!Rows
  <2> HIDE DEF Pending
  <2> QED BY <1>0, <1>7, <1>17, <2>1 DEF SheetInv
<1>18. Feed!NoRowTwice'
  <2>1. ASSUME NEW i \in 1..Len(sheet'), NEW j \in 1..Len(sheet'), Own(i), ~Own(j),
               sheet'[j] = sheet'[i], sheet'[j].build # Feed!Old
        PROVE  FALSE
    <3>1. sheet'[j] = sheet[j] /\ j \in 1..Len(sheet)
      BY <1>6, <2>1
    <3>2. sheet[j].build = b /\ sheet[j].product \in updater.list[b]
      BY <1>5, <2>1, <3>1
    <3> QED BY <1>17, <2>1, <3>1, <3>2
  <2>2. ASSUME NEW i \in 1..Len(sheet'), NEW j \in 1..Len(sheet'),
               sheet'[i] = sheet'[j], sheet'[i].build # Feed!Old
        PROVE  i = j
    <3>1. CASE Own(i) /\ Own(j)
      BY <1>8, <2>2, <3>1
    <3>2. CASE ~Own(i) /\ ~Own(j)
      <4>1. Feed!NoRowTwice
        BY DEF FeedInv
      <4> QED BY <1>6, <2>2, <3>2, <4>1 DEF Feed!NoRowTwice
    <3> QED BY <2>1, <2>2, <3>1, <3>2
  <2> QED BY <2>2 DEF Feed!NoRowTwice
<1>19. Feed!NoDowngrade'
  <2>1. ASSUME NEW i \in 1..Len(sheet'), NEW j \in 1..Len(sheet'), i < j,
               sheet'[i].product = sheet'[j].product,
               sheet'[i].build # Feed!Old, sheet'[j].build # Feed!Old,
               NameOf[sheet'[i].build] = NameOf[sheet'[j].build]
        PROVE  ~Feed!Newer(sheet'[i].build, sheet'[j].build)
    <3>1. CASE Own(i) /\ Own(j)
      BY <1>8, <2>1, <3>1
    <3>2. CASE Own(i) /\ ~Own(j)
      <4>1. j \in 1..Len(sheet) /\ sheet'[j] = sheet[j] /\ j > n
        BY <1>4, <1>6, <2>1, <3>2 DEF Own
      <4>2. sheet'[i].build = b /\ sheet'[i].product \in updater.list[b]
                /\ sheet'[i].product \in Product
        BY <1>5, <3>2
      <4>3. sheet[j].product \in updater.list[sheet[j].build]
        BY <1>1, <1>6, <4>1 DEF n
      <4>4. sheet[j].build # b /\ sheet[j].build \in Build
        BY <1>17, <2>1, <4>1, <4>2
      <4> QED BY <1>0, <2>1, <4>1, <4>2, <4>3, <4>4 DEF ListInv
    <3>3. CASE ~Own(i) /\ Own(j)
      <4>1. i \in 1..Len(sheet) /\ sheet'[i] = sheet[i]
        BY <1>6, <3>3
      <4>2. sheet'[j].build = b /\ sheet'[j].product \in updater.list[b]
        BY <1>5, <3>3
      <4> QED BY <1>17, <2>1, <4>1, <4>2
    <3>4. CASE ~Own(i) /\ ~Own(j)
      <4>1. Feed!NoDowngrade
        BY DEF FeedInv
      <4> QED BY <1>6, <2>1, <3>4, <4>1 DEF Feed!NoDowngrade
    <3> QED BY <3>1, <3>2, <3>3, <3>4
  <2> QED BY <2>1 DEF Feed!NoDowngrade, Feed!Newer
<1>20. RowsKept
  <2>1. ASSUME NEW i \in 1..Len(sheet)
        PROVE  i <= Len(sheet') /\ (sheet'[i] = sheet[i] \/ sheet[i].build \in crossed)
    <3>1. i \in 1..Len(sheet')
      BY <1>3, <1>4
    <3>2. CASE Own(i)
      BY <1>1, <1>4, <1>6, <3>1, <3>2 DEF n
    <3>3. CASE ~Own(i)
      BY <1>6, <3>1, <3>3
    <3> QED BY <3>1, <3>2, <3>3
  <2> QED BY <2>1 DEF RowsKept
<1> QED BY <1>11, <1>12, <1>13, <1>14, <1>15, <1>16, <1>18, <1>19, <1>20 DEF FeedInv

\* Every step keeps the invariant, and loses no row that was not crossed.
LEMMA FeedStep ==
    ASSUME Feed!FeedAssumption, FeedInv, [Feed!Next]_(Feed!vars)
    PROVE  FeedInv' /\ RowsKept
<1>0. FeedTypes /\ RunInv
  BY DEF FeedInv
<1>1. sheet' = sheet => RowsKept
  <2>1. Len(sheet) \in Nat
    BY <1>0 DEF FeedTypes
  <2> QED BY <2>1 DEF RowsKept
<1>2. ASSUME UNCHANGED Feed!vars PROVE FeedInv' /\ sheet' = sheet
  BY <1>2 DEF FeedInv, FeedTypes, RunInv, ListInv, SheetInv, BehindInv, WrittenInv, IsRow, Pending,
              Feed!vars, Feed!NoRowTwice, Feed!NoDowngrade, Feed!Live
<1> QED BY <1>0, <1>1, <1>2, FeedSteps, AdvanceKeeps, MoveKeeps, LookKeeps, AssignKeeps, PushKeeps,
           TagKeeps, BeginKeeps

\* The packages of the CI: a build is recorded once for a product, the rows of a thread
\* are there if no other crossed it, the builds of a package follow each other, a run
\* that ended has listed what its threads stored; and no row is written over but those
\* that were crossed in the same run.
THEOREM FeedHolds ==
    ASSUME Feed!FeedAssumption
    PROVE  /\ Feed!Spec => [](/\ Feed!NoRowTwice /\ Feed!LostWhenCrossed /\ Feed!NoDowngrade
                              /\ Feed!OddIsListed)
           /\ Feed!Spec => Feed!RowsStay
<1>1. ASSUME Feed!Init PROVE FeedInv
  <2>0. PICK p \in Product : sheet \in {<<>>, <<[build |-> Feed!Old, product |-> p]>>}
    BY <1>1 DEF Feed!Init
  <2>1. /\ sheet \in Seq(Feed!Rows) /\ Len(sheet) \in {0, 1}
        /\ \A i \in 1..Len(sheet) : i = 1 /\ sheet[i].build = Feed!Old
    <3> DEFINE r == [build |-> Feed!Old, product |-> p]
    <3>1. r \in Feed!Rows /\ r.build = Feed!Old
      BY DEF Feed!Rows
    <3>2. sheet = <<>> \/ sheet = <<r>>
      BY <2>0
    <3> HIDE DEF r
    <3>3. sheet = <<>> => /\ sheet \in Seq(Feed!Rows) /\ Len(sheet) = 0
      OBVIOUS
    <3>4. sheet = <<r>> => /\ sheet \in Seq(Feed!Rows) /\ Len(sheet) = 1 /\ sheet[1] = r
      BY <3>1
    <3> QED BY <3>1, <3>2, <3>3, <3>4
  <2>2. /\ updater \in UpdaterType /\ updater.at = "ended" /\ updater.odd = {}
        /\ \A b \in Build : updater.list[b] = {}
    BY <1>1 DEF Feed!Init, Feed!IdleRun, UpdaterType, Feed!Phases
  <2>3. update \in [Build -> ThreadType] /\ \A b \in Build : update[b].at = "none"
    BY <1>1 DEF Feed!Init, Feed!NoUpdate, Feed!NoThread, ThreadType, Feed!Stages
  <2>4. tagged \in [Product -> SUBSET Build] /\ stale = {} /\ crossed = {}
    BY <1>1 DEF Feed!Init, Feed!FeedAssumption
  <2>5. FeedTypes
    BY <2>1, <2>2, <2>3, <2>4 DEF FeedTypes
  <2>6. RunInv /\ ListInv
    BY <2>2, <2>3, <2>4 DEF RunInv, ListInv, Feed!Live
  <2>7. SheetInv /\ BehindInv /\ WrittenInv
    BY <2>1, <2>2, <2>3 DEF SheetInv, BehindInv, WrittenInv
  <2>8. Feed!NoRowTwice /\ Feed!NoDowngrade
    BY <2>1 DEF Feed!NoRowTwice, Feed!NoDowngrade
  <2> QED BY <2>5, <2>6, <2>7, <2>8 DEF FeedInv
<1>2. ASSUME FeedInv
      PROVE  Feed!NoRowTwice /\ Feed!LostWhenCrossed /\ Feed!NoDowngrade /\ Feed!OddIsListed
  <2>1. Feed!OddIsListed
    BY <1>2 DEF FeedInv, RunInv, Feed!OddIsListed
  <2>2. ASSUME NEW b \in Build, update[b].at \in {"mail", "done"}, b \notin crossed,
               NEW p \in update[b].for
        PROVE  b \in Feed!Recorded(p)
    <3>1. PICK i \in 1..Len(sheet) : sheet[i].build = b /\ sheet[i].product = p
      BY <1>2, <2>2 DEF FeedInv, WrittenInv, IsRow
    <3>2. sheet[i] \in Feed!Rows
      BY <1>2 DEF FeedInv, FeedTypes
    <3>3. sheet[i] = [build |-> b, product |-> p]
      BY <3>1, <3>2 DEF Feed!Rows
    <3> QED BY <3>3 DEF Feed!Recorded
  <2>3. Feed!LostWhenCrossed
    BY <2>2 DEF Feed!LostWhenCrossed
  <2> QED BY <1>2, <2>1, <2>3 DEF FeedInv
<1>3. ASSUME FeedInv, [Feed!Next]_(Feed!vars)
      PROVE  FeedInv' /\ [\A i \in 1..Len(sheet) : i <= Len(sheet')
                 /\ (sheet'[i] = sheet[i] \/ sheet[i].build \in crossed)]_(Feed!vars)
  BY <1>3, FeedStep DEF RowsKept
<1> QED BY <1>1, <1>2, <1>3, PTL DEF Feed!Spec, Feed!RowsStay

-----------------------------------------------------------------------------
(* Caselink.  What a run that nothing came between leaves of a case is     *)
(* what it read of it, after those of its seven requests that were sent.   *)

Sending  == 1..7
Notes    == [LinkCase -> Desc \cup {Links!None}]
LinkRuns == [at : Nat, snap : [LinkCase -> Links!Entries], ci : Notes, with : Notes,
             todo : [Sending -> SUBSET LinkCase], ret : {"", "ok", "error"}]

LinkTypes ==
    /\ linked \in [LinkCase -> Links!Entries] /\ job \in [LinkJob -> LinkRuns]
    /\ undisturbed \subseteq LinkJob /\ lost \subseteq LinkCase

\* The requests about a case that were sent, of those that a run planned.
Sent(r, p, c) == {i \in Sending : c \in Links!Planned(r, p)[i] /\ c \notin r.todo[i]}

\* What the requests of a kind make of an entry, if they are sent.
Deleted(K, e)     == IF 1 \in K THEN Links!Absent ELSE e
Created(K, e, d)  == IF 2 \in K THEN [desc |-> d, mark |-> "", pr |-> NoPR] ELSE e
Updated(K, e, d)  == IF 3 \in K THEN [e EXCEPT !.desc = d] ELSE e
Unmarked(K, e)    == IF 4 \in K THEN [e EXCEPT !.mark = ""] ELSE e
Cleaned(K, e)     == IF 5 \in K THEN Links!Absent ELSE e
Added(K, e, d, p) == IF 6 \in K THEN [desc |-> d, mark |-> "added", pr |-> p] ELSE e
Doomed(K, e)      == IF 7 \in K THEN [e EXCEPT !.mark = "deleted"] ELSE e

AfterFour(K, r, c)    ==
    Unmarked(K, Updated(K, Created(K, Deleted(K, r.snap[c]), r.ci[c]), r.ci[c]))
Outcome(K, r, p, c)   == Doomed(K, Added(K, Cleaned(K, AfterFour(K, r, c)), r.with[c], p))

\* Nobody looks at the answer of the fourth.
Heard(r, p, c) == IF c \in lost THEN Sent(r, p, c) \ {4} ELSE Sent(r, p, c)

Planning(r, p) ==
    /\ \A i \in Sending : /\ r.todo[i] \subseteq Links!Planned(r, p)[i]
                          /\ i < r.at - 2 => r.todo[i] = {}
                          /\ i > r.at - 2 => r.todo[i] = Links!Planned(r, p)[i]
    /\ Links!MergedAreSame(r)
    /\ \A c \in lost : 4 \in Sent(r, p, c)
    /\ \A c \in LinkCase : 7 \in Sent(r, p, c) => 5 \notin Sent(r, p, c)
Synced(r, p) ==
    /\ \A c \in Links!Listed(r.ci) :
           \/ c \in Links!MergedCases(r) /\ r.snap[c].pr = p /\ p # NoPR
           \/ /\ linked[c] # Links!Absent /\ linked[c].desc = r.ci[c]
              /\ linked[c].mark = "added" => c \in lost
    /\ \A c \in Links!Kept(linked) \ Links!Listed(r.ci) :
           linked[c].mark = "added" \/ linked[c].desc \notin Selected
    /\ p # NoPR =>
           /\ {c \in Links!Unmerged(linked) : linked[c].pr = p}
                  = Links!Listed(r.with) \ Links!Listed(r.ci)
           /\ \A c \in Links!DeletedInPR(r) : linked[c].mark = "deleted"

Right(r, p) ==
    /\ r.at # 0 => r.ret = ""
    /\ r.at \in {1, 2} => linked = r.snap /\ lost = {}
    /\ r.at >= 2 => r.ci = Links!Found(code)
    /\ r.at >= 3 => /\ Planning(r, p)
                    /\ \A c \in LinkCase : linked[c] = Outcome(Heard(r, p, c), r, p, c)
    /\ r.at = 0 /\ r.ret = "ok" => Synced(r, p)

OnItsWay(j) == (\A i \in LinkJob : i # j => job[i].at = 0) /\ Right(job[j], PrOf[j])

LinkInv == LinkTypes /\ \A j \in undisturbed : OnItsWay(j)

\* The requests are of seven kinds.
LEMMA SevenKinds ==
    /\ Links!Sends = Sending /\ Len(Links!Phases) = 7
    /\ Links!Phases[1] = "delete" /\ Links!Phases[2] = "create" /\ Links!Phases[3] = "update"
    /\ Links!Phases[4] = "merged" /\ Links!Phases[5] = "clean" /\ Links!Phases[6] = "add"
    /\ Links!Phases[7] = "mark"
  BY DEF Links!Sends, Links!Phases, Sending

\* What a run plans.
LEMMA PlannedSets ==
    ASSUME NEW r, NEW p
    PROVE  LET w == Links!Planned(r, p)
               s == r.snap
           IN /\ w[1] = {c \in Links!Kept(s) \ (Links!Listed(r.ci) \cup Links!Unmerged(s)) :
                             s[c].desc \in Selected}
              /\ w[2] = Links!Listed(r.ci) \ Links!Kept(s)
              /\ w[3] = {c \in Links!Listed(r.ci) \cap (Links!Kept(s) \ Links!Unmerged(s)) :
                             s[c].desc # r.ci[c]}
              /\ w[4] = Links!MergedCases(r)
              /\ w[5] = IF p = NoPR THEN {} ELSE Links!Leftover(r, p)
              /\ w[6] = Links!NewInPR(r)
              /\ w[7] = Links!DeletedInPR(r)
              /\ \A i \in Sending : w[i] \subseteq LinkCase
<1> DEFINE w == Links!Planned(r, p)
<1>1. w[1] = {c \in Links!Kept(r.snap) \ (Links!Listed(r.ci) \cup Links!Unmerged(r.snap)) :
                  r.snap[c].desc \in Selected}
  BY SevenKinds DEF Links!Planned, Links!Concerned, Sending
<1>2. w[2] = Links!Listed(r.ci) \ Links!Kept(r.snap)
  BY SevenKinds DEF Links!Planned, Links!Concerned, Sending
<1>3. w[3] = {c \in Links!Listed(r.ci) \cap (Links!Kept(r.snap) \ Links!Unmerged(r.snap)) :
                  r.snap[c].desc # r.ci[c]}
  BY SevenKinds DEF Links!Planned, Links!Concerned, Sending
<1>4. w[4] = Links!MergedCases(r)
  BY SevenKinds DEF Links!Planned, Links!Concerned, Sending
<1>5. w[5] = IF p = NoPR THEN {} ELSE Links!Leftover(r, p)
  BY SevenKinds DEF Links!Planned, Links!Concerned, Sending
<1>6. w[6] = Links!NewInPR(r)
  BY SevenKinds DEF Links!Planned, Links!Concerned, Sending
<1>7. w[7] = Links!DeletedInPR(r)
  BY SevenKinds DEF Links!Planned, Links!Concerned, Sending
<1> HIDE DEF w
<1>8. ASSUME NEW i \in Sending PROVE w[i] \subseteq LinkCase
  <2>1. i \in {1, 2, 3, 4, 5, 6, 7}
    BY DEF Sending
  <2> QED BY <1>1, <1>2, <1>3, <1>4, <1>5, <1>6, <1>7, <2>1
          DEF Links!Kept, Links!Listed, Links!Unmerged, Links!MergedCases, Links!Leftover,
              Links!NewInPR, Links!DeletedInPR
<1> QED BY <1>1, <1>2, <1>3, <1>4, <1>5, <1>6, <1>7, <1>8 DEF w

\* What is planned is planned from what was read.
LEMMA PlannedOnce ==
    ASSUME NEW r, NEW q, NEW p, q.snap = r.snap, q.ci = r.ci, q.with = r.with
    PROVE  /\ Links!Planned(q, p) = Links!Planned(r, p)
           /\ Links!MergedAreSame(q) <=> Links!MergedAreSame(r)
           /\ Links!MergedCases(q) = Links!MergedCases(r)
           /\ Links!DeletedInPR(q) = Links!DeletedInPR(r)
           /\ \A K, c : Outcome(K, q, p, c) = Outcome(K, r, p, c)
  BY DEF Links!Planned, Links!MergedAreSame, Links!MergedCases, Links!NewInPR, Links!DeletedInPR,
         Links!Leftover, Links!Concerned, Outcome, AfterFour

\* A request of the next kind does to a case what Outcome says.
LEMMA OutcomeGoesOn ==
    ASSUME NEW i \in Sending, NEW K \in SUBSET (1..(i - 1)), NEW r, NEW p, NEW c,
           linked[c] = Outcome(K, r, p, c)
    PROVE  Links!After(Links!Phases[i], r, p, c) = Outcome(K \cup {i}, r, p, c)
<1> DEFINE L == K \cup {i}
<1>0. i \in {1, 2, 3, 4, 5, 6, 7}
  BY DEF Sending
<1>1. /\ 7 \notin K /\ (i <= 6 => 6 \notin K) /\ (i <= 5 => 5 \notin K) /\ (i <= 4 => 4 \notin K)
      /\ (i <= 3 => 3 \notin K) /\ (i <= 2 => 2 \notin K) /\ (i <= 1 => 1 \notin K)
  BY <1>0
<1>2. /\ (1 \in L <=> 1 \in K \/ i = 1) /\ (2 \in L <=> 2 \in K \/ i = 2)
      /\ (3 \in L <=> 3 \in K \/ i = 3) /\ (4 \in L <=> 4 \in K \/ i = 4)
      /\ (5 \in L <=> 5 \in K \/ i = 5) /\ (6 \in L <=> 6 \in K \/ i = 6)
      /\ (7 \in L <=> 7 \in K \/ i = 7)
  OBVIOUS
<1> DEFINE a(M) == Created(M, Deleted(M, r.snap[c]), r.ci[c])
           e(M) == Updated(M, a(M), r.ci[c])
           g(M) == Added(M, Cleaned(M, AfterFour(M, r, c)), r.with[c], p)
<1> SUFFICES Links!After(Links!Phases[i], r, p, c) = Outcome(L, r, p, c)
  OBVIOUS
<1> HIDE DEF L
<1>4. CASE i = 1
  <2>1. /\ 1 \in L /\ 2 \notin L /\ 3 \notin L /\ 4 \notin L /\ 5 \notin L /\ 6 \notin L
               /\ 7 \notin L
    BY <1>1, <1>2, <1>4
  <2> QED BY <1>4, <2>1, SevenKinds DEF Links!After, Outcome, AfterFour, Deleted, Created,
             Updated, Unmarked, Cleaned, Added, Doomed
<1>5. CASE i = 2
  <2>1. 2 \in L /\ 3 \notin L /\ 4 \notin L /\ 5 \notin L /\ 6 \notin L /\ 7 \notin L
    BY <1>1, <1>2, <1>5
  <2> QED BY <1>5, <2>1, SevenKinds DEF Links!After, Outcome, AfterFour, Created,
             Updated, Unmarked, Cleaned, Added, Doomed
<1>6. CASE i = 3
  <2>1. /\ 3 \in L /\ 4 \notin L /\ 5 \notin L /\ 6 \notin L /\ 7 \notin L
        /\ 3 \notin K /\ 4 \notin K /\ 5 \notin K /\ 6 \notin K /\ 7 \notin K
        /\ (1 \in L <=> 1 \in K) /\ (2 \in L <=> 2 \in K)
    BY <1>1, <1>2, <1>6
  <2>2. a(L) = a(K)
    BY <2>1 DEF Created, Deleted
  <2> HIDE DEF a
  <2>3. linked[c] = a(K)
    BY <2>1 DEF Outcome, AfterFour, Updated, Unmarked, Cleaned, Added, Doomed, a
  <2>4. Outcome(L, r, p, c) = [a(L) EXCEPT !.desc = r.ci[c]]
    BY <2>1 DEF Outcome, AfterFour, Updated, Unmarked, Cleaned, Added, Doomed, a
  <2>5. Links!After("update", r, p, c) = [linked[c] EXCEPT !.desc = r.ci[c]]
    BY DEF Links!After
  <2> QED BY <1>6, <2>2, <2>3, <2>4, <2>5, SevenKinds
<1>7. CASE i = 4
  <2>1. /\ 4 \in L /\ 5 \notin L /\ 6 \notin L /\ 7 \notin L
        /\ 4 \notin K /\ 5 \notin K /\ 6 \notin K /\ 7 \notin K
        /\ (1 \in L <=> 1 \in K) /\ (2 \in L <=> 2 \in K) /\ (3 \in L <=> 3 \in K)
    BY <1>1, <1>2, <1>7
  <2>2. e(L) = e(K)
    BY <2>1 DEF Created, Deleted, Updated
  <2> HIDE DEF e, a
  <2>3. linked[c] = e(K)
    BY <2>1 DEF Outcome, AfterFour, Unmarked, Cleaned, Added, Doomed, e, a
  <2>4. Outcome(L, r, p, c) = [e(L) EXCEPT !.mark = ""]
    BY <2>1 DEF Outcome, AfterFour, Unmarked, Cleaned, Added, Doomed, e, a
  <2>5. Links!After("merged", r, p, c) = [linked[c] EXCEPT !.mark = ""]
    BY DEF Links!After
  <2>6. Links!Phases[i] = "merged"
    BY <1>7, SevenKinds
  <2> QED BY <2>2, <2>3, <2>4, <2>5, <2>6
<1>8. CASE i = 5
  <2>1. 5 \in L /\ 6 \notin L /\ 7 \notin L
    BY <1>1, <1>2, <1>8
  <2> QED BY <1>8, <2>1, SevenKinds DEF Links!After, Outcome, Cleaned, Added, Doomed
<1>9. CASE i = 6
  <2>1. 6 \in L /\ 7 \notin L
    BY <1>1, <1>2, <1>9
  <2> QED BY <1>9, <2>1, SevenKinds DEF Links!After, Outcome, Added, Doomed
<1>10. CASE i = 7
  <2>1. /\ 7 \in L /\ 7 \notin K
        /\ (1 \in L <=> 1 \in K) /\ (2 \in L <=> 2 \in K) /\ (3 \in L <=> 3 \in K)
        /\ (4 \in L <=> 4 \in K) /\ (5 \in L <=> 5 \in K) /\ (6 \in L <=> 6 \in K)
    BY <1>1, <1>2, <1>10
  <2>2. g(L) = g(K)
    <3>1. AfterFour(L, r, c) = AfterFour(K, r, c)
      BY <2>1 DEF AfterFour, Created, Deleted, Updated, Unmarked
    <3> QED BY <2>1, <3>1 DEF Cleaned, Added
  <2> HIDE DEF g
  <2>3. linked[c] = g(K)
    BY <2>1 DEF Outcome, Doomed, g
  <2>4. Outcome(L, r, p, c) = [g(L) EXCEPT !.mark = "deleted"]
    BY <2>1 DEF Outcome, Doomed, g
  <2>5. Links!After("mark", r, p, c) = [linked[c] EXCEPT !.mark = "deleted"]
    BY DEF Links!After
  <2> QED BY <1>10, <2>2, <2>3, <2>4, <2>5, SevenKinds
<1> QED BY <1>0, <1>4, <1>5, <1>6, <1>7, <1>8, <1>9, <1>10

\* What is heard of the requests about a case once all were sent.
LEMMA AllHeard ==
    ASSUME NEW r, NEW p, NEW c, \A i \in Sending : r.todo[i] = {}
    PROVE  /\ \A i \in Sending : i # 4 => (i \in Heard(r, p, c) <=> c \in Links!Planned(r, p)[i])
           /\ 4 \in Heard(r, p, c) <=> c \in Links!Planned(r, p)[4] /\ c \notin lost
  BY DEF Heard, Sent, Sending

\* A case of the repositories is as it is there, but for the mark that was not heard.
LEMMA OutcomeOfListed ==
    ASSUME NEW r \in LinkRuns, NEW p, NEW c \in Links!Listed(r.ci),
           \A i \in Sending : r.todo[i] = {}, Links!MergedAreSame(r),
           5 \notin Sent(r, p, c)
    PROVE  LET e == Outcome(Heard(r, p, c), r, p, c)
           IN /\ e # Links!Absent /\ e.desc = r.ci[c] /\ (e.mark = "added" => c \in lost)
              /\ c \in Links!DeletedInPR(r) => e.mark = "deleted"
              /\ c \in Links!MergedCases(r) => e.pr = r.snap[c].pr
<1> DEFINE K == Heard(r, p, c)
           s == r.snap[c]
           w == Links!Planned(r, p)
<1>0. /\ c \in LinkCase /\ r.ci[c] # Links!None /\ s \in Links!Entries
      /\ r.ci[c] \in Desc \cup {Links!None}
  BY DEF Links!Listed, LinkRuns, Notes
<1>1. /\ (1 \in K <=> c \in w[1]) /\ (2 \in K <=> c \in w[2]) /\ (3 \in K <=> c \in w[3])
      /\ (4 \in K <=> c \in w[4] /\ c \notin lost) /\ (5 \in K <=> c \in w[5])
      /\ (6 \in K <=> c \in w[6]) /\ (7 \in K <=> c \in w[7])
  BY AllHeard DEF Sending
<1> HIDE DEF K
<1>2. /\ 1 \notin K /\ (2 \in K <=> c \notin Links!Kept(r.snap))
      /\ (3 \in K <=> c \in Links!Kept(r.snap) \ Links!Unmerged(r.snap) /\ s.desc # r.ci[c])
      /\ (4 \in K <=> c \in Links!Unmerged(r.snap) /\ c \notin lost)
      /\ 6 \notin K /\ (7 \in K <=> c \in Links!DeletedInPR(r))
  BY <1>0, <1>1, PlannedSets DEF Links!NewInPR, Links!MergedCases
<1>3. 5 \notin K
  BY DEF K, Heard
<1>4. c \in Links!Unmerged(r.snap) <=> c \in Links!Kept(r.snap) /\ s.mark = "added"
  BY <1>0 DEF Links!Unmerged
<1>5. c \in Links!Unmerged(r.snap) => s.desc = r.ci[c]
  BY <1>0 DEF Links!MergedAreSame, Links!MergedCases
<1> DEFINE f == AfterFour(K, r, c)
<1>6. /\ f \in Links!Entries /\ f.desc = r.ci[c] /\ (f.mark = "added" => c \in lost)
      /\ c \in Links!Unmerged(r.snap) => f.pr = s.pr
  <2>1. CASE c \notin Links!Kept(r.snap)
    <3>1. f = [desc |-> r.ci[c], mark |-> "", pr |-> NoPR]
      BY <1>2, <1>4, <2>1 DEF AfterFour, Created, Updated, Unmarked
    <3> HIDE DEF f
    <3> QED BY <1>0, <1>4, <2>1, <3>1 DEF Links!Entries
  <2>2. CASE c \in Links!Kept(r.snap) /\ c \notin Links!Unmerged(r.snap)
    <3>1. f = IF s.desc # r.ci[c] THEN [s EXCEPT !.desc = r.ci[c]] ELSE s
      BY <1>2, <2>2 DEF AfterFour, Deleted, Created, Updated, Unmarked
    <3> HIDE DEF f, s
    <3> QED BY <1>0, <1>4, <2>2, <3>1 DEF Links!Entries
  <2>3. CASE c \in Links!Unmerged(r.snap)
    <3>1. f = IF c \notin lost THEN [s EXCEPT !.mark = ""] ELSE s
      BY <1>2, <1>4, <2>3 DEF AfterFour, Deleted, Created, Updated, Unmarked
    <3> HIDE DEF f, s
    <3> QED BY <1>0, <1>4, <1>5, <2>3, <3>1 DEF Links!Entries
  <2> QED BY <2>1, <2>2, <2>3
<1>7. Outcome(K, r, p, c) = IF c \in Links!DeletedInPR(r) THEN [f EXCEPT !.mark = "deleted"] ELSE f
  BY <1>2, <1>3 DEF Outcome, Cleaned, Added, Doomed
<1> HIDE DEF f
<1>8. /\ [f EXCEPT !.mark = "deleted"].desc = r.ci[c]
      /\ [f EXCEPT !.mark = "deleted"].mark = "deleted"
      /\ [f EXCEPT !.mark = "deleted"].pr = f.pr
  BY <1>6 DEF Links!Entries
<1>9. Links!Absent.desc = Links!None
  BY DEF Links!Absent
<1> DEFINE e == Outcome(K, r, p, c)
<1>10. e.desc = r.ci[c] /\ (e.mark = "added" => c \in lost)
       /\ (c \in Links!DeletedInPR(r) => e.mark = "deleted")
       /\ (c \in Links!MergedCases(r) => e.pr = s.pr)
  BY <1>6, <1>7, <1>8 DEF Links!MergedCases
<1> HIDE DEF e
<1> QED BY <1>0, <1>9, <1>10 DEF e, K

\* What the others are is what the pull request adds, or what the run was not asked for.
LEMMA OutcomeOfOthers ==
    ASSUME NEW r \in LinkRuns, NEW p, NEW c \in LinkCase, c \notin Links!Listed(r.ci),
           \A i \in Sending : r.todo[i] = {}
    PROVE  LET e == Outcome(Heard(r, p, c), r, p, c)
           IN /\ e # Links!Absent => e.mark = "added" \/ e.desc \notin Selected
              /\ c \in Links!NewInPR(r) => e # Links!Absent /\ e.mark = "added" /\ e.pr = p
              /\ p # NoPR /\ e # Links!Absent /\ e.mark = "added" /\ e.pr = p
                 => c \in Links!NewInPR(r)
<1> DEFINE K == Heard(r, p, c)
           s == r.snap[c]
           w == Links!Planned(r, p)
           e == Outcome(K, r, p, c)
<1>1. /\ (1 \in K <=> c \in w[1]) /\ (2 \in K <=> c \in w[2]) /\ (3 \in K <=> c \in w[3])
      /\ (4 \in K <=> c \in w[4] /\ c \notin lost) /\ (5 \in K <=> c \in w[5])
      /\ (6 \in K <=> c \in w[6]) /\ (7 \in K <=> c \in w[7])
  BY AllHeard DEF Sending
<1> HIDE DEF K
<1>2. /\ (1 \in K <=> /\ c \in Links!Kept(r.snap) /\ c \notin Links!Unmerged(r.snap)
                      /\ s.desc \in Selected)
      /\ 2 \notin K /\ 3 \notin K /\ 4 \notin K /\ 7 \notin K
             /\ (6 \in K <=> c \in Links!NewInPR(r))
  BY <1>1, PlannedSets DEF Links!DeletedInPR, Links!MergedCases
<1>3. 5 \in K <=> p # NoPR /\ c \in Links!Unmerged(r.snap) /\ s.pr = p
  <2>1. w[5] = IF p = NoPR THEN {} ELSE Links!Leftover(r, p)
    BY PlannedSets
  <2>2. c \in Links!Leftover(r, p) <=> c \in Links!Unmerged(r.snap) /\ s.pr = p
    BY DEF Links!Leftover
  <2> HIDE DEF w, s
  <2> QED BY <1>1, <2>1, <2>2
<1>4. c \in Links!Unmerged(r.snap) <=> c \in Links!Kept(r.snap) /\ s.mark = "added"
  BY DEF Links!Unmerged
<1>5. c \in Links!Kept(r.snap) <=> s # Links!Absent
  BY DEF Links!Kept
<1>6. CASE c \in Links!NewInPR(r)
  <2>1. e = [desc |-> r.with[c], mark |-> "added", pr |-> p]
    BY <1>2, <1>6 DEF Outcome, Added, Doomed
  <2>2. e.mark = "added" /\ e.pr = p /\ Links!Absent.mark = ""
    BY <2>1 DEF Links!Absent
  <2> HIDE DEF e
  <2>3. e # Links!Absent
    BY <2>2
  <2> QED BY <1>6, <2>2, <2>3 DEF e, K
<1>7. CASE c \notin Links!NewInPR(r)
  <2>1. e = IF 1 \in K \/ 5 \in K THEN Links!Absent ELSE s
    BY <1>2, <1>7 DEF Outcome, AfterFour, Deleted, Created, Updated, Unmarked, Cleaned, Added,
        Doomed
  <2> HIDE DEF e
  <2>2. e # Links!Absent => e = s /\ 1 \notin K /\ 5 \notin K /\ c \in Links!Kept(r.snap)
    BY <1>5, <2>1
  <2>3. e # Links!Absent => e.mark = "added" \/ e.desc \notin Selected
    BY <1>2, <1>4, <2>2
  <2>4. ~(p # NoPR /\ e # Links!Absent /\ e.mark = "added" /\ e.pr = p)
    BY <1>3, <1>4, <2>2
  <2> QED BY <1>7, <2>3, <2>4 DEF e, K
<1> QED BY <1>6, <1>7

\* So what a run leaves that sent all it had planned is what the repositories have.
LEMMA SyncedAtEnd ==
    ASSUME LinkTypes, NEW r \in LinkRuns, NEW p, Planning(r, p),
           \A i \in Sending : r.todo[i] = {},
           \A c \in LinkCase : linked[c] = Outcome(Heard(r, p, c), r, p, c)
    PROVE  Synced(r, p)
<1>0. /\ Links!MergedAreSame(r)
      /\ \A c \in LinkCase : 7 \in Sent(r, p, c) => 5 \notin Sent(r, p, c)
  BY DEF Planning
<1>1. Links!Listed(r.ci) \subseteq LinkCase /\ Links!DeletedInPR(r) \subseteq Links!Listed(r.ci)
  BY DEF Links!Listed, Links!DeletedInPR
<1>2. ASSUME NEW c \in Links!Listed(r.ci)
      PROVE  /\ 5 \in Sent(r, p, c) <=> c \in Links!MergedCases(r) /\ r.snap[c].pr = p /\ p # NoPR
             /\ c \in Links!DeletedInPR(r) => 5 \notin Sent(r, p, c)
  <2> DEFINE w == Links!Planned(r, p)
  <2>1. 5 \in Sent(r, p, c) <=> c \in w[5]
    BY DEF Sent, Sending
  <2>2. 7 \in Sent(r, p, c) <=> c \in w[7]
    BY DEF Sent, Sending
  <2>3. w[5] = IF p = NoPR THEN {} ELSE Links!Leftover(r, p)
    BY PlannedSets
  <2>4. w[7] = Links!DeletedInPR(r)
    BY PlannedSets
  <2>5. c \in Links!Leftover(r, p) <=> c \in Links!MergedCases(r) /\ r.snap[c].pr = p
    BY <1>2 DEF Links!Leftover, Links!MergedCases
  <2> HIDE DEF w
  <2> QED BY <1>0, <1>1, <2>1, <2>2, <2>3, <2>4, <2>5
<1>3. ASSUME NEW c \in Links!Listed(r.ci), 5 \notin Sent(r, p, c)
      PROVE  /\ linked[c] # Links!Absent /\ linked[c].desc = r.ci[c]
             /\ linked[c].mark = "added" => c \in lost
             /\ c \in Links!DeletedInPR(r) => linked[c].mark = "deleted"
             /\ c \in Links!MergedCases(r) => linked[c].pr = r.snap[c].pr
  BY <1>0, <1>1, <1>3, OutcomeOfListed
<1>4. ASSUME NEW c \in LinkCase, c \notin Links!Listed(r.ci)
      PROVE  /\ linked[c] # Links!Absent
                  => linked[c].mark = "added" \/ linked[c].desc \notin Selected
             /\ c \in Links!NewInPR(r) => /\ linked[c] # Links!Absent /\ linked[c].mark = "added"
                                          /\ linked[c].pr = p
             /\ p # NoPR /\ linked[c] # Links!Absent /\ linked[c].mark = "added" /\ linked[c].pr = p
                => c \in Links!NewInPR(r)
  BY <1>4, OutcomeOfOthers
<1>5. ASSUME p # NoPR
      PROVE  {c \in Links!Unmerged(linked) : linked[c].pr = p}
                 = Links!Listed(r.with) \ Links!Listed(r.ci)
  <2>1. Links!NewInPR(r) = Links!Listed(r.with) \ Links!Listed(r.ci)
        /\ Links!NewInPR(r) \subseteq LinkCase
    BY DEF Links!NewInPR, Links!Listed
  <2>2. \A c : c \in Links!Unmerged(linked) <=> /\ c \in LinkCase /\ linked[c] # Links!Absent
                                                /\ linked[c].mark = "added"
    BY DEF Links!Unmerged, Links!Kept
  <2>3. ASSUME NEW c \in LinkCase
        PROVE  c \in Links!Unmerged(linked) /\ linked[c].pr = p <=> c \in Links!NewInPR(r)
    <3>1. CASE c \in Links!Listed(r.ci)
      <4>1. c \notin Links!NewInPR(r)
        BY <3>1 DEF Links!NewInPR
      <4>2. CASE 5 \in Sent(r, p, c)
        <5>1. linked[c] = Links!Absent
          <6>1. 7 \notin Sent(r, p, c) /\ 6 \notin Sent(r, p, c)
            <7>1. 6 \in Sent(r, p, c) => c \in Links!NewInPR(r)
              BY PlannedSets DEF Sent
            <7> QED BY <1>0, <4>1, <4>2, <7>1
          <6>2. 5 \in Heard(r, p, c) /\ 6 \notin Heard(r, p, c) /\ 7 \notin Heard(r, p, c)
            BY <4>2, <6>1 DEF Heard
          <6> QED BY <6>2 DEF Outcome, Cleaned, Added, Doomed
        <5> QED BY <2>2, <4>1, <5>1
      <4>3. CASE 5 \notin Sent(r, p, c)
        <5>1. c \in Links!Unmerged(linked) => c \in lost
          BY <1>3, <2>2, <3>1, <4>3
        <5>2. c \in lost => c \in Links!MergedCases(r)
          BY PlannedSets DEF Planning, Sent
        <5> QED BY <1>2, <1>3, <1>5, <3>1, <4>1, <4>3, <5>1, <5>2
      <4> QED BY <4>2, <4>3
    <3>2. CASE c \notin Links!Listed(r.ci)
      BY <1>4, <1>5, <2>2, <3>2
    <3> QED BY <3>1, <3>2
  <2>4. Links!Unmerged(linked) \subseteq LinkCase
    BY <2>2
  <2> QED BY <2>1, <2>3, <2>4
<1>6. \A c \in Links!Kept(linked) : c \in LinkCase /\ linked[c] # Links!Absent
  BY DEF Links!Kept
<1> QED BY <1>1, <1>2, <1>3, <1>4, <1>5, <1>6 DEF Synced

\* A run that nothing came between is the only one that goes on.
LEMMA RunKeeps ==
    ASSUME LinkInv, NEW j \in LinkJob, job[j].at # 0, LinkTypes', undisturbed' = undisturbed,
           \A i \in LinkJob : i # j => job'[i] = job[i],
           j \in undisturbed => Right(job[j], PrOf[j])'
    PROVE  LinkInv'
<1>1. \A i \in undisturbed : i = j
  BY DEF LinkInv, OnItsWay
<1>2. j \in undisturbed => OnItsWay(j)'
  BY DEF LinkInv, OnItsWay
<1> QED BY <1>1, <1>2 DEF LinkInv

\* A run that is not going on.
LEMMA IdleIsRun ==
    Links!Idle \in LinkRuns /\ Links!Idle.at = 0 /\ Links!Idle.ret = ""
<1>1. [c \in LinkCase |-> Links!Absent] \in [LinkCase -> Links!Entries]
  BY DEF Links!Absent, Links!Entries
<1>2. [c \in LinkCase |-> [desc |-> Links!None, mark |-> "", pr |-> NoPR]]
          = [c \in LinkCase |-> Links!Absent]
  BY DEF Links!Absent
<1>3. Links!Nothing \in Notes
  BY DEF Links!Nothing, Notes
<1>4. [i \in Links!Sends |-> {}] \in [Sending -> SUBSET LinkCase]
  BY SevenKinds
<1> QED BY <1>1, <1>2, <1>3, <1>4 DEF Links!Idle, LinkRuns

\* The order of its places.
LEMMA OrderOfPlaces ==
    \A a : /\ a = 0 => ~(a # 0) /\ a \notin {1, 2} /\ ~(a >= 2) /\ ~(a >= 3)
           /\ a = 1 => a # 0 /\ ~(a >= 2) /\ ~(a >= 3)
           /\ a = 2 => a # 0 /\ ~(a >= 3)
           /\ a >= 3 /\ a \in Nat => a # 0 /\ a \notin {1, 2}
  OBVIOUS

\* .. of which nothing is said but what it left, if it ended well.
LEMMA AtRest ==
    ASSUME NEW j, job'[j].at = 0, job'[j].ret = "error" PROVE Right(job[j], PrOf[j])'
<1>1. /\ ~(job'[j].at # 0) /\ job'[j].at \notin {1, 2} /\ ~(job'[j].at >= 2)
      /\ ~(job'[j].at >= 3) /\ job'[j].ret # "ok"
  OBVIOUS
<1> QED BY <1>1, Zenon DEF Right

\* .. or what it read, if it just began.
LEMMA AtFirst ==
    ASSUME NEW j, job'[j].at = 1, job'[j].ret = "", job'[j].snap = linked', lost' = {}
    PROVE  Right(job[j], PrOf[j])'
<1>1. /\ job'[j].at # 0 /\ ~(job'[j].at >= 2) /\ ~(job'[j].at >= 3)
  BY OrderOfPlaces
<1> QED BY <1>1, Zenon DEF Right

\* .. or what it collected.
LEMMA AtSecond ==
    ASSUME NEW j, job'[j].at = 2, job'[j].ret = "", job'[j].snap = linked', lost' = {},
           job'[j].ci = Links!Found(code)'
    PROVE  Right(job[j], PrOf[j])'
<1>1. job'[j].at # 0 /\ ~(job'[j].at >= 3)
  BY OrderOfPlaces
<1> QED BY <1>1, Zenon DEF Right

\* A run that raises leaves nothing to look at.
LEMMA RunFailKeeps ==
    ASSUME LinkInv, NEW j \in LinkJob, job[j].at # 0, Links!End(j, "error"),
           UNCHANGED <<linked, undisturbed, lost>>
    PROVE  LinkInv'
<1>1. LinkTypes
  BY DEF LinkInv
<1>2. job' = [job EXCEPT ![j] = [Links!Idle EXCEPT !.ret = "error"]]
  BY DEF Links!End
<1> DEFINE q == [Links!Idle EXCEPT !.ret = "error"]
<1>3. q \in LinkRuns /\ q.at = 0 /\ q.ret = "error"
  BY IdleIsRun DEF LinkRuns
<1> HIDE DEF q
<1>4. job'[j] = q /\ job' \in [LinkJob -> LinkRuns] /\ \A i \in LinkJob : i # j => job'[i] = job[i]
  BY <1>1, <1>2, <1>3 DEF q, LinkTypes
<1>5. LinkTypes'
  BY <1>1, <1>4 DEF LinkTypes
<1>6. Right(job[j], PrOf[j])'
  BY <1>3, <1>4, AtRest
<1> QED BY <1>4, <1>5, <1>6, RunKeeps

\* A run that begins has read the list, if nothing else runs,
LEMMA LinkBeginKeeps ==
    ASSUME LinkInv, NEW j \in LinkJob, Links!Begin(j)
    PROVE  LinkInv'
<1>1. LinkTypes
  BY DEF LinkInv
<1> DEFINE q == IF Links!Kept(linked) = {} THEN [Links!Idle EXCEPT !.ret = "error"]
                ELSE [Links!Idle EXCEPT !.at = 1, !.snap = linked]
<1>2. /\ job' = [job EXCEPT ![j] = q] /\ lost' = {} /\ linked' = linked
      /\ undisturbed' = IF \A i \in LinkJob : ~Links!Running(i) THEN {j} ELSE {}
  BY DEF Links!Begin
<1>3. Links!Idle \in LinkRuns /\ Links!Idle.at = 0 /\ Links!Idle.ret = ""
  BY IdleIsRun
<1>4. /\ q \in LinkRuns
      /\ \/ q.at = 0 /\ q.ret = "error"
         \/ q.at = 1 /\ q.ret = "" /\ q.snap = linked
  <2> DEFINE a == [Links!Idle EXCEPT !.ret = "error"]
             b == [Links!Idle EXCEPT !.at = 1, !.snap = linked]
  <2>1. linked \in [LinkCase -> Links!Entries]
    BY <1>1 DEF LinkTypes
  <2>2. a \in LinkRuns /\ a.at = 0 /\ a.ret = "error"
    BY <1>3 DEF LinkRuns
  <2>3. b \in LinkRuns /\ b.at = 1 /\ b.ret = "" /\ b.snap = linked
    BY <1>3, <2>1 DEF LinkRuns
  <2> HIDE DEF a, b
  <2> QED BY <2>2, <2>3 DEF a, b
<1> HIDE DEF q
<1>5. job'[j] = q /\ job' \in [LinkJob -> LinkRuns] /\ \A i \in LinkJob : i # j => job'[i] = job[i]
  BY <1>1, <1>2, <1>4 DEF LinkTypes
<1>6. LinkTypes'
  BY <1>1, <1>2, <1>5 DEF LinkTypes
<1>7. Right(job[j], PrOf[j])'
  BY <1>2, <1>4, <1>5, AtRest, AtFirst
<1>8. ASSUME undisturbed' = {j} PROVE \A i \in LinkJob : i # j => job'[i].at = 0
  BY <1>2, <1>5, <1>8 DEF Links!Running
<1>9. \A i \in undisturbed' : i = j /\ undisturbed' = {j}
  BY <1>2
<1> QED BY <1>6, <1>7, <1>8, <1>9 DEF LinkInv, OnItsWay

\* what it collects is what the repositories have,
LEMMA CollectKeeps ==
    ASSUME Links!CaselinkAssumption, LinkInv, NEW j \in LinkJob, Links!Collect(j)
    PROVE  LinkInv'
<1>1. LinkTypes /\ job[j].at = 1 /\ UNCHANGED <<linked, code, undisturbed, lost>>
  BY DEF LinkInv, Links!Collect
<1> DEFINE r == job[j]
           x == Links!Found(code)
           y == Links!Found(IF PrOf[j] = NoPR THEN code ELSE Links!Merged(PrOf[j]))
           q == [r EXCEPT !.at = 2, !.ci = x, !.with = y]
<1>2. CASE Links!End(j, "error")
  BY <1>1, <1>2, RunFailKeeps
<1>3. CASE job' = [job EXCEPT ![j].at = 2, ![j].ci = x, ![j].with = y]
  <2>1. r \in LinkRuns /\ job \in [LinkJob -> LinkRuns]
    BY <1>1 DEF LinkTypes
  <2>2. job' = [job EXCEPT ![j] = q]
    BY <1>3, <2>1
  <2>3. x \in Notes /\ y \in Notes
    <3>1. \A l : Links!Found(l) \in [LinkCase -> Selected \cup {Links!None}]
      BY DEF Links!Found
    <3> QED BY <3>1 DEF Notes, Links!CaselinkAssumption
  <2>4. x = Links!Found(code)
    OBVIOUS
  <2> HIDE DEF x, y, r
  <2>5. q \in LinkRuns /\ q.at = 2 /\ q.ci = x /\ q.snap = r.snap /\ q.ret = r.ret
    BY <2>1, <2>3 DEF LinkRuns
  <2> HIDE DEF q
  <2>6. job'[j] = q /\ job' \in [LinkJob -> LinkRuns] /\
            \A i \in LinkJob : i # j => job'[i] = job[i]
    BY <2>1, <2>2, <2>5
  <2>7. LinkTypes'
    BY <1>1, <2>6 DEF LinkTypes
  <2>8. ASSUME j \in undisturbed PROVE Right(job[j], PrOf[j])'
    <3>1. Right(r, PrOf[j])
      BY <2>8 DEF LinkInv, OnItsWay, r
    <3>2. r.at # 0 /\ r.at \in {1, 2}
      BY <1>1 DEF r
    <3>3. r.ret = "" /\ linked = r.snap /\ lost = {}
      BY <3>1, <3>2 DEF Right
    <3>4. Links!Found(code)' = Links!Found(code)
      BY <1>1 DEF Links!Found
    <3> QED BY <1>1, <2>4, <2>5, <2>6, <3>3, <3>4, AtSecond
  <2> QED BY <1>1, <2>6, <2>7, <2>8, RunKeeps
<1> QED BY <1>2, <1>3 DEF Links!Collect

\* .. or what it planned and sent.
LEMMA AtSending ==
    ASSUME NEW j, job'[j].at \in Nat, job'[j].at >= 3, job'[j].ret = "",
           job'[j].ci = Links!Found(code)', Planning(job[j], PrOf[j])',
           \A c \in LinkCase : linked'[c] = Outcome(Heard(job[j], PrOf[j], c)', job'[j], PrOf[j], c)
    PROVE  Right(job[j], PrOf[j])'
<1>1. job'[j].at # 0 /\ job'[j].at \notin {1, 2}
  BY OrderOfPlaces
<1> QED BY <1>1, Zenon DEF Right

\* what it plans is planned from that,
LEMMA PlanKeeps ==
    ASSUME Links!CaselinkAssumption, LinkInv, NEW j \in LinkJob, Links!Plan(j)
    PROVE  LinkInv'
<1> DEFINE r == job[j]
           p == PrOf[j]
           w == Links!Planned(r, p)
           q == [r EXCEPT !.at = 3, !.todo = w]
<1>1. LinkTypes /\ r.at = 2 /\ UNCHANGED <<linked, code, undisturbed, lost>>
  BY DEF LinkInv, Links!Plan
<1>2. CASE Links!End(j, "error")
  BY <1>1, <1>2, RunFailKeeps
<1>3. CASE job' = [job EXCEPT ![j].at = 3, ![j].todo = w] /\ Links!MergedAreSame(r)
  <2>1. r \in LinkRuns /\ job \in [LinkJob -> LinkRuns]
    BY <1>1 DEF LinkTypes
  <2>2. job' = [job EXCEPT ![j] = q]
    BY <1>3, <2>1
  <2>3. w \in [Sending -> SUBSET LinkCase]
    <3>1. w = [i \in Sending |-> w[i]]
      BY SevenKinds DEF Links!Planned
    <3>2. \A i \in Sending : w[i] \subseteq LinkCase
      BY PlannedSets
    <3> HIDE DEF w
    <3> QED BY <3>1, <3>2
  <2> HIDE DEF w, r
  <2>4. /\ q \in LinkRuns /\ q.at = 3 /\ q.ci = r.ci /\ q.snap = r.snap /\ q.ret = r.ret
        /\ q.todo = w /\ q.with = r.with
    BY <2>1, <2>3 DEF LinkRuns
  <2> HIDE DEF q
  <2>5. job'[j] = q /\ job' \in [LinkJob -> LinkRuns] /\
            \A i \in LinkJob : i # j => job'[i] = job[i]
    BY <2>1, <2>2, <2>4
  <2>6. LinkTypes'
    BY <1>1, <2>5 DEF LinkTypes
  <2>7. ASSUME j \in undisturbed PROVE Right(job[j], PrOf[j])'
    <3>1. Right(r, p)
      BY <2>7 DEF LinkInv, OnItsWay, r
    <3>2. r.at # 0 /\ r.at \in {1, 2} /\ r.at >= 2
      BY <1>1 DEF r
    <3>3. r.ret = "" /\ linked = r.snap /\ lost = {} /\ r.ci = Links!Found(code)
      BY <3>1, <3>2 DEF Right
    <3>4. Links!Found(code)' = Links!Found(code)
      BY <1>1 DEF Links!Found
    <3>5. Links!Planned(q, p) = w /\ Links!MergedAreSame(q)
      BY <1>3, <2>4, PlannedOnce DEF w
    <3>6. \A c : Sent(q, p, c) = {}
      BY <2>4, <3>5 DEF Sent
    <3>7. Planning(job[j], PrOf[j])'
      <4>1. \A i \in Sending : /\ q.todo[i] \subseteq Links!Planned(q, p)[i] /\ ~(i < q.at - 2)
                               /\ q.todo[i] = Links!Planned(q, p)[i]
        BY <2>4, <3>5 DEF Sending
      <4> QED BY <1>1, <2>5, <3>3, <3>5, <3>6, <4>1 DEF Planning
    <3>8. ASSUME NEW c \in LinkCase
          PROVE  linked'[c] = Outcome(Heard(job[j], PrOf[j], c)', job'[j], PrOf[j], c)
      <4>1. Heard(job[j], PrOf[j], c)' = {}
        BY <1>1, <2>5, <3>3, <3>6 DEF Heard, Sent
      <4>2. Outcome({}, q, p, c) = q.snap[c]
        BY DEF Outcome, AfterFour, Deleted, Created, Updated, Unmarked, Cleaned, Added, Doomed
      <4> QED BY <1>1, <2>4, <2>5, <3>3, <4>1, <4>2
    <3>9. job'[j].at \in Nat /\ job'[j].at >= 3
      BY <2>4, <2>5
    <3> QED BY <1>1, <2>4, <2>5, <3>3, <3>4, <3>7, <3>8, <3>9, AtSending
  <2> QED BY <1>1, <2>5, <2>6, <2>7, RunKeeps DEF r
<1> QED BY <1>2, <1>3 DEF Links!Plan

\* What caselink makes of an entry is one.
LEMMA AfterIsEntry ==
    ASSUME LinkTypes, NEW r \in LinkRuns, NEW p \in PR \cup {NoPR}, NEW c \in LinkCase,
           NEW i \in Sending
    PROVE  Links!After(Links!Phases[i], r, p, c) \in Links!Entries
<1> DEFINE e == linked[c]
           d == r.ci[c]
           f == r.with[c]
<1>1. /\ e \in Links!Entries /\ d \in Desc \cup {Links!None} /\ f \in Desc \cup {Links!None}
  BY DEF LinkTypes, LinkRuns, Notes
<1>2. i \in {1, 2, 3, 4, 5, 6, 7}
  BY DEF Sending
<1>3. /\ Links!Absent \in Links!Entries
      /\ [desc |-> d, mark |-> "", pr |-> NoPR] \in Links!Entries
      /\ [desc |-> f, mark |-> "added", pr |-> p] \in Links!Entries
  <2> HIDE DEF d, f
  <2> QED BY <1>1 DEF Links!Entries, Links!Absent
<1>4. /\ [e EXCEPT !.desc = d] \in Links!Entries /\ [e EXCEPT !.mark = ""] \in Links!Entries
      /\ [e EXCEPT !.mark = "deleted"] \in Links!Entries
  <2> HIDE DEF d, e
  <2> QED BY <1>1 DEF Links!Entries
<1>5. /\ Links!After("delete", r, p, c) = Links!Absent
             /\ Links!After("clean", r, p, c) = Links!Absent
      /\ Links!After("create", r, p, c) = [desc |-> d, mark |-> "", pr |-> NoPR]
      /\ Links!After("update", r, p, c) = [e EXCEPT !.desc = d]
      /\ Links!After("merged", r, p, c) = [e EXCEPT !.mark = ""]
      /\ Links!After("add", r, p, c) = [desc |-> f, mark |-> "added", pr |-> p]
      /\ Links!After("mark", r, p, c) = [e EXCEPT !.mark = "deleted"]
  BY DEF Links!After
<1> HIDE DEF d, e, f
<1> DEFINE x == Links!Phases[i]
<1>6. x \in {"delete", "create", "update", "merged", "clean", "add", "mark"}
  BY <1>2, SevenKinds
<1> HIDE DEF x
<1>7. Links!After(x, r, p, c) \in Links!Entries
  BY <1>3, <1>4, <1>5, <1>6
<1> QED BY <1>7 DEF x

\* A request that is no longer to be sent; heard or not, it was the next one.
LEMMA SendGoesOn ==
    ASSUME LinkInv, NEW j \in LinkJob, NEW c \in LinkCase, NEW i \in Sending,
           job[j].at = i + 2, c \in job[j].todo[i],
           job' = [job EXCEPT ![j].todo[i] = @ \ {c}], UNCHANGED <<code, undisturbed>>,
           linked' \in [LinkCase -> Links!Entries],
           \A d \in LinkCase : d # c => linked'[d] = linked[d],
           \/ /\ linked'[c] = Links!After(Links!Phases[i], job[j], PrOf[j], c) /\ lost' = lost
              /\ i = 7 => linked[c] # Links!Absent
           \/ linked'[c] = linked[c] /\ i = 4 /\ lost' = lost \cup {c}
    PROVE  LinkInv'
<1> DEFINE r == job[j]
           p == PrOf[j]
           w == Links!Planned(r, p)
           t == [r.todo EXCEPT ![i] = r.todo[i] \ {c}]
           q == [r EXCEPT !.todo = t]
<1>1. LinkTypes /\ r \in LinkRuns /\ job \in [LinkJob -> LinkRuns]
          /\ r.todo \in [Sending -> SUBSET LinkCase]
  BY DEF LinkInv, LinkTypes, LinkRuns
<1>2. /\ t \in [Sending -> SUBSET LinkCase] /\ t[i] = r.todo[i] \ {c}
      /\ \A k \in Sending : k # i => t[k] = r.todo[k]
  BY <1>1
<1>3. job' = [job EXCEPT ![j] = q]
  <2>1. job' = [job EXCEPT ![j] = [job[j] EXCEPT !.todo =
            [job[j].todo EXCEPT ![i] = job[j].todo[i] \ {c}]]]
    BY <1>1
  <2> QED BY <2>1
<1>r. r.at = i + 2 /\ c \in r.todo[i]
  OBVIOUS
<1> HIDE DEF t, r
<1>4. /\ q \in LinkRuns /\ q.at = r.at /\ q.ci = r.ci /\ q.snap = r.snap /\ q.ret = r.ret
      /\ q.todo = t /\ q.with = r.with
  BY <1>1, <1>2 DEF LinkRuns
<1> HIDE DEF q
<1>5. job'[j] = q /\ job' \in [LinkJob -> LinkRuns] /\ \A k \in LinkJob : k # j => job'[k] = job[k]
  BY <1>1, <1>3, <1>4
<1>6. LinkTypes' /\ job[j].at # 0 /\ r.at >= 3 /\ r.at \in Nat
  <2>1. job[j].at # 0 /\ r.at >= 3 /\ r.at \in Nat
    BY <1>r DEF Sending, r
  <2>2. lost' \subseteq LinkCase
    BY <1>1 DEF LinkTypes
  <2> QED BY <1>1, <1>5, <2>1, <2>2 DEF LinkTypes
<1>7. ASSUME j \in undisturbed PROVE Right(job[j], PrOf[j])'
  <2>1. Right(r, p)
    BY <1>7 DEF LinkInv, OnItsWay, r
  <2>2. /\ r.ret = "" /\ r.ci = Links!Found(code) /\ Planning(r, p)
        /\ \A d \in LinkCase : linked[d] = Outcome(Heard(r, p, d), r, p, d)
    <3>1. r.at # 0 /\ r.at >= 2 /\ r.at >= 3
      BY <1>6
    <3> QED BY <2>1, <3>1 DEF Right
  <2>3. Links!Found(code)' = Links!Found(code)
    BY DEF Links!Found
  <2>4. /\ Links!Planned(q, p) = w /\ (Links!MergedAreSame(q) <=> Links!MergedAreSame(r))
        /\ \A K, d : Outcome(K, q, p, d) = Outcome(K, r, p, d)
    BY <1>4, PlannedOnce
  <2>5. \A k \in Sending : /\ r.todo[k] \subseteq w[k] /\ (k < i => r.todo[k] = {})
                           /\ (k > i => r.todo[k] = w[k])
    <3>1. r.at - 2 = i
      BY <1>r DEF Sending
    <3> QED BY <2>2, <3>1 DEF Planning
  <2> HIDE DEF w
  <2>6. \A d \in LinkCase : d # c => Sent(q, p, d) = Sent(r, p, d)
    <3>1. \A d, k : k \in Sending /\ d # c => (d \notin t[k] <=> d \notin r.todo[k])
      BY <1>2
    <3> QED BY <1>4, <2>4, <3>1 DEF Sent, w
  <2>7. Sent(q, p, c) = Sent(r, p, c) \cup {i} /\ \A k \in Sent(r, p, c) : k < i
    <3>1. c \in w[i]
      BY <1>r, <2>5
    <3>2. \A k \in Sending : c \notin t[k] <=> c \notin r.todo[k] \/ k = i
      BY <1>2
    <3>3. Sent(q, p, c) = Sent(r, p, c) \cup {i}
      BY <1>4, <2>4, <3>1, <3>2 DEF Sent, w
    <3>4. ASSUME NEW k \in Sent(r, p, c) PROVE k < i
      <4>1. k \in Sending /\ c \in w[k] /\ c \notin r.todo[k]
        BY DEF Sent, w
      <4>2. ~(k > i) /\ k # i
        BY <1>r, <2>5, <4>1
      <4> QED BY <4>1, <4>2 DEF Sending
    <3> QED BY <3>3, <3>4
  <2>8. i = 4 => c \notin lost
    <3>1. \A d \in lost : 4 \in Sent(r, p, d)
      BY <2>2 DEF Planning
    <3> QED BY <2>7, <3>1
  <2> DEFINE heard(d) == Heard(r, p, d)
             got(d) == Heard(job[j], PrOf[j], d)'
  <2>20. \A d : Heard(job[j], PrOf[j], d)' = got(d)
    OBVIOUS
  <2>9. \A d : got(d) = IF d \in lost' THEN Sent(q, p, d) \ {4} ELSE Sent(q, p, d)
    BY <1>5 DEF Heard, Sent
  <2>10. \A d : heard(d) = IF d \in lost THEN Sent(r, p, d) \ {4} ELSE Sent(r, p, d)
    BY DEF Heard
  <2> HIDE DEF heard, got
  <2>11. \A d \in LinkCase : d # c => got(d) = heard(d)
    BY <2>6, <2>9, <2>10
  <2>12. heard(c) \in SUBSET (1..(i - 1))
    <3>1. \A k \in Sent(r, p, c) : k \in Sending
      BY DEF Sent
    <3>2. \A k \in Sending : k < i => k \in 1..(i - 1)
      BY DEF Sending
    <3>3. heard(c) \subseteq Sent(r, p, c)
      BY <2>10
    <3> QED BY <2>7, <3>1, <3>2, <3>3
  <2>13. linked[c] = Outcome(heard(c), r, p, c)
    BY <2>2 DEF heard
  <2>14. linked'[c] = Outcome(got(c), r, p, c)
    <3>1. CASE lost' = lost /\ linked'[c] = Links!After(Links!Phases[i], r, p, c)
      <4>1. Links!After(Links!Phases[i], r, p, c) = Outcome(heard(c) \cup {i}, r, p, c)
        BY <2>12, <2>13, OutcomeGoesOn
      <4>2. got(c) = heard(c) \cup {i}
        BY <2>7, <2>8, <2>9, <2>10, <3>1
      <4> QED BY <3>1, <4>1, <4>2
    <3>2. CASE linked'[c] = linked[c] /\ i = 4 /\ lost' = lost \cup {c}
      <4>1. got(c) = heard(c)
        <5>1. 4 \notin Sent(r, p, c)
          BY <2>7, <3>2
        <5> QED BY <2>7, <2>8, <2>9, <2>10, <3>2, <5>1
      <4> QED BY <2>13, <3>2, <4>1
    <3> QED BY <3>1, <3>2 DEF r
  <2>15. \A d \in LinkCase : linked'[d] = Outcome(Heard(job[j], PrOf[j], d)', job'[j], PrOf[j], d)
    <3>1. ASSUME NEW d \in LinkCase PROVE linked'[d] = Outcome(got(d), r, p, d)
      <4>1. CASE d = c
        BY <2>14, <4>1
      <4>2. CASE d # c
        <5>1. linked[d] = Outcome(heard(d), r, p, d)
          BY <2>2 DEF heard
        <5> QED BY <2>11, <4>2, <5>1
      <4> QED BY <4>1, <4>2
    <3>2. ASSUME NEW d \in LinkCase PROVE linked'[d] = Outcome(got(d), job'[j], p, d)
      <4>1. linked'[d] = Outcome(got(d), r, p, d)
        BY <3>1
      <4>2. \A K : Outcome(K, q, p, d) = Outcome(K, r, p, d)
        BY <2>4, Zenon
      <4>3. Outcome(got(d), q, p, d) = Outcome(got(d), r, p, d)
        BY <4>2, Zenon
      <4>4. linked'[d] = Outcome(got(d), q, p, d)
        BY <4>1, <4>3, Zenon
      <4>5. job'[j] = q
        BY <1>5, Zenon
      <4> QED BY <4>4, <4>5, Zenon
    <3> QED BY <2>20, <3>2, Zenon DEF p
  <2>16. \A d \in LinkCase : 7 \in Sent(q, p, d) => 5 \notin Sent(q, p, d)
    <3>1. \A d \in LinkCase : 7 \in Sent(r, p, d) => 5 \notin Sent(r, p, d)
      BY <2>2 DEF Planning
    <3>2. i = 7 => 5 \notin Sent(r, p, c)
      <4> SUFFICES ASSUME i = 7, 5 \in Sent(r, p, c) PROVE FALSE
        OBVIOUS
      <4>1. 5 \in heard(c) /\ 7 \notin heard(c)
        BY <2>7, <2>10
      <4>2. 6 \notin heard(c)
        <5>1. c \in w[7] /\ w[7] \subseteq Links!DeletedInPR(r) /\ w[6] \subseteq Links!NewInPR(r)
          BY <1>r, <2>5, PlannedSets DEF w, Sending
        <5>2. c \notin w[6]
          BY <5>1 DEF Links!DeletedInPR, Links!NewInPR
        <5> QED BY <2>10, <5>2 DEF Sent, w
      <4>3. linked[c] = Links!Absent
        BY <2>13, <4>1, <4>2 DEF Outcome, Cleaned, Added, Doomed
      <4> QED BY <4>3
    <3>3. 7 \in Sent(r, p, c) => i # 5
      BY <2>7
    <3>4. 7 \in Sent(q, p, c) => 5 \notin Sent(q, p, c)
      BY <2>7, <3>1, <3>2, <3>3
    <3> QED BY <2>6, <3>1, <3>4
  <2>17. \A d \in lost' : 4 \in Sent(q, p, d)
    <3>1. \A d \in lost : 4 \in Sent(r, p, d)
      BY <2>2 DEF Planning
    <3>2. lost \subseteq LinkCase
      BY <1>1 DEF LinkTypes
    <3> QED BY <2>6, <2>7, <3>1, <3>2
  <2>18. \A k \in Sending : /\ q.todo[k] \subseteq w[k] /\ (k < q.at - 2 => q.todo[k] = {})
                            /\ (k > q.at - 2 => q.todo[k] = w[k])
    <3>1. q.at - 2 = i
      BY <1>r, <1>4 DEF Sending
    <3>2. \A k \in Sending : k # i => ~(k < i /\ k > i)
      BY DEF Sending
    <3>3. ASSUME NEW k \in Sending PROVE /\ q.todo[k] \subseteq w[k] /\ (k < i => q.todo[k] = {})
                                         /\ (k > i => q.todo[k] = w[k])
      BY <1>2, <1>4, <2>5 DEF Sending
    <3> QED BY <3>1, <3>3
  <2>19. Planning(job[j], PrOf[j])'
    <3>1. Links!MergedAreSame(q)
      BY <2>2, <2>4 DEF Planning
    <3>2. \A k \in Sending : /\ q.todo[k] \subseteq Links!Planned(q, p)[k]
                              /\ (k < q.at - 2 => q.todo[k] = {})
                              /\ (k > q.at - 2 => q.todo[k] = Links!Planned(q, p)[k])
      BY <2>4, <2>18
    <3>3. job'[j] = q
      BY <1>5
    <3> QED BY <2>16, <2>17, <3>1, <3>2, <3>3, ZenonT(60) DEF Planning
  <2> QED BY <1>4, <1>5, <1>6, <2>2, <2>3, <2>15, <2>19, AtSending
<1> QED BY <1>5, <1>6, <1>7, RunKeeps

\* what it sends does to a case what Outcome says,
LEMMA SendKeeps ==
    ASSUME Links!CaselinkAssumption, LinkInv, NEW j \in LinkJob, NEW c \in LinkCase,
           Links!Send(j, c)
    PROVE  LinkInv'
<1> DEFINE r == job[j]
           i == r.at - 2
           ph == Links!Phases[i]
           new == Links!After(ph, r, PrOf[j], c)
<1>1. /\ i \in Sending /\ c \in r.todo[i] /\ UNCHANGED <<code, undisturbed>>
      /\ \/ /\ Links!Accepted(ph, c) /\ linked' = [linked EXCEPT ![c] = new]
            /\ job' = [job EXCEPT ![j].todo[i] = @ \ {c}] /\ UNCHANGED lost
         \/ /\ UNCHANGED linked
            /\ \/ ph = "merged" /\ lost' = lost \cup {c}
                      /\ job' = [job EXCEPT ![j].todo[i] = @ \ {c}]
               \/ UNCHANGED lost /\ Links!End(j, "error")
  BY SevenKinds DEF Links!Send
<1>2. LinkTypes /\ r \in LinkRuns /\ linked \in [LinkCase -> Links!Entries] /\ r.at \in Nat
      /\ PrOf[j] \in PR \cup {NoPR}
  BY DEF LinkInv, LinkTypes, LinkRuns, Links!CaselinkAssumption
<1>3. r.at = i + 2 /\ r.at # 0
  BY <1>1, <1>2 DEF Sending
<1>4. (ph = "merged" => i = 4) /\ (i = 7 => ph = "mark")
  <2>1. i \in {1, 2, 3, 4, 5, 6, 7}
    BY <1>1 DEF Sending
  <2> HIDE DEF i
  <2> QED BY <2>1, SevenKinds
<1>5. new \in Links!Entries
  BY <1>1, <1>2, AfterIsEntry
<1>6. i = 7 /\ Links!Accepted(ph, c) => linked[c] # Links!Absent
  BY <1>4 DEF Links!Accepted
<1> HIDE DEF i, ph, new
<1>7. CASE Links!End(j, "error") /\ UNCHANGED <<linked, lost>>
  BY <1>1, <1>3, <1>7, RunFailKeeps
<1>8. CASE /\ Links!Accepted(ph, c) /\ linked' = [linked EXCEPT ![c] = new]
           /\ job' = [job EXCEPT ![j].todo[i] = @ \ {c}] /\ UNCHANGED lost
  <2>1. /\ linked' \in [LinkCase -> Links!Entries] /\ linked'[c] = new
        /\ \A d \in LinkCase : d # c => linked'[d] = linked[d]
    BY <1>2, <1>5, <1>8
  <2>2. linked'[c] = Links!After(Links!Phases[i], job[j], PrOf[j], c)
    BY <2>1 DEF new, ph
  <2> QED BY <1>1, <1>3, <1>6, <1>8, <2>1, <2>2, SendGoesOn
<1>9. CASE /\ UNCHANGED linked /\ ph = "merged" /\ lost' = lost \cup {c}
           /\ job' = [job EXCEPT ![j].todo[i] = @ \ {c}]
  BY <1>1, <1>2, <1>3, <1>4, <1>9, SendGoesOn
<1> QED BY <1>1, <1>7, <1>8, <1>9

\* What is said of a run does not depend on where it is.
LEMMA SyncedOnce ==
    ASSUME NEW r, NEW q, NEW p, q.snap = r.snap, q.ci = r.ci, q.with = r.with, Synced(r, p)
    PROVE  Synced(q, p)
<1>1. Links!MergedCases(q) = Links!MergedCases(r) /\ Links!DeletedInPR(q) = Links!DeletedInPR(r)
  BY PlannedOnce
<1> QED BY <1>1 DEF Synced

\* and with the last kind it has synced the list.
LEMMA NextKindKeeps ==
    ASSUME LinkInv, NEW j \in LinkJob, Links!NextKind(j)
    PROVE  LinkInv'
<1> DEFINE r == job[j]
           p == PrOf[j]
           i == r.at - 2
<1>1. /\ i \in Sending /\ r.todo[i] = {} /\ UNCHANGED <<linked, code, undisturbed, lost>>
      /\ IF i = 7 THEN Links!End(j, "ok") ELSE job' = [job EXCEPT ![j].at = @ + 1]
  BY SevenKinds DEF Links!NextKind
<1>2. LinkTypes /\ r \in LinkRuns /\ r.at \in Nat /\ job \in [LinkJob -> LinkRuns]
  BY DEF LinkInv, LinkTypes, LinkRuns
<1>3. r.at = i + 2 /\ r.at # 0 /\ r.at >= 2 /\ r.at >= 3
  BY <1>1, <1>2 DEF Sending
<1>4. ASSUME j \in undisturbed
      PROVE  /\ r.ret = "" /\ r.ci = Links!Found(code) /\ Planning(r, p)
             /\ \A d \in LinkCase : linked[d] = Outcome(Heard(r, p, d), r, p, d)
  <2>1. Right(r, p)
    BY <1>4 DEF LinkInv, OnItsWay
  <2> HIDE DEF r
  <2> QED BY <1>3, <2>1 DEF Right
<1>5. CASE i = 7
  <2> DEFINE q == [r EXCEPT !.at = 0, !.ret = "ok"]
  <2>1. job' = [job EXCEPT ![j] = q]
    BY <1>1, <1>5 DEF Links!End
  <2>2. j \in undisturbed => Synced(r, p)
    <3> SUFFICES ASSUME j \in undisturbed PROVE Synced(r, p)
      OBVIOUS
    <3>1. \A k \in Sending : r.todo[k] = {}
      <4>1. \A k \in Sending : k < i => r.todo[k] = {}
        BY <1>4 DEF Planning
      <4>2. \A k \in Sending : k < i \/ k = i
        BY <1>5 DEF Sending
      <4> HIDE DEF i
      <4> QED BY <1>1, <4>1, <4>2
    <3> QED BY <1>2, <1>4, <3>1, SyncedAtEnd
  <2> HIDE DEF r
  <2>3. /\ q \in LinkRuns /\ q.at = 0 /\ q.ret = "ok" /\ q.ci = r.ci /\ q.snap = r.snap
        /\ q.with = r.with
    BY <1>2 DEF LinkRuns
  <2> HIDE DEF q
  <2>4. job'[j] = q /\ job' \in [LinkJob -> LinkRuns] /\
            \A k \in LinkJob : k # j => job'[k] = job[k]
    BY <1>2, <2>1, <2>3
  <2>5. LinkTypes'
    BY <1>1, <1>2, <2>4 DEF LinkTypes
  <2>6. ASSUME j \in undisturbed PROVE Right(job[j], PrOf[j])'
    <3>1. Synced(q, p)
      BY <2>2, <2>3, <2>6, SyncedOnce
    <3>2. Synced(job[j], PrOf[j])'
      BY <1>1, <2>4, <3>1 DEF Synced
    <3>3. job'[j].at = 0 /\ ~(job'[j].at # 0) /\ job'[j].at \notin {1, 2} /\ ~(job'[j].at >= 2)
          /\ ~(job'[j].at >= 3)
      BY <2>3, <2>4, OrderOfPlaces
    <3> QED BY <3>2, <3>3, Zenon DEF Right
  <2> QED BY <1>1, <1>3, <2>4, <2>5, <2>6, RunKeeps DEF r
<1>6. CASE i # 7
  <2> DEFINE n == r.at + 1
             q == [r EXCEPT !.at = n]
  <2>1. job' = [job EXCEPT ![j] = q]
    BY <1>1, <1>2, <1>6
  <2>2. n \in Nat /\ n >= 3
    BY <1>2, <1>3
  <2>3. n - 2 = i + 1
    BY <1>2, <1>3
  <2> HIDE DEF r, n
  <2>4. /\ q \in LinkRuns /\ q.at = n /\ q.ret = r.ret /\ q.ci = r.ci /\ q.snap = r.snap
        /\ q.with = r.with /\ q.todo = r.todo
    BY <1>2, <2>2 DEF LinkRuns
  <2> HIDE DEF q
  <2>5. job'[j] = q /\ job' \in [LinkJob -> LinkRuns] /\
            \A k \in LinkJob : k # j => job'[k] = job[k]
    BY <1>2, <2>1, <2>4
  <2>6. LinkTypes'
    BY <1>1, <1>2, <2>5 DEF LinkTypes
  <2>7. ASSUME j \in undisturbed PROVE Right(job[j], PrOf[j])'
    <3>1. /\ Links!Planned(q, p) = Links!Planned(r, p)
          /\ Links!MergedAreSame(q) <=> Links!MergedAreSame(r)
          /\ \A K, d : Outcome(K, q, p, d) = Outcome(K, r, p, d)
      BY <2>4, PlannedOnce
    <3>2. \A d : Sent(q, p, d) = Sent(r, p, d)
      BY <2>4, <3>1 DEF Sent
    <3>3. \A k \in Sending : /\ q.todo[k] \subseteq Links!Planned(q, p)[k]
                             /\ (k < q.at - 2 => q.todo[k] = {})
                             /\ (k > q.at - 2 => q.todo[k] = Links!Planned(q, p)[k])
      <4>1. \A k \in Sending : /\ r.todo[k] \subseteq Links!Planned(r, p)[k]
                               /\ (k < i => r.todo[k] = {})
                               /\ (k > i => r.todo[k] = Links!Planned(r, p)[k])
        BY <1>4, <2>7 DEF Planning
      <4>2. q.at - 2 = i + 1
        BY <2>3, <2>4
      <4> DEFINE m == q.at - 2
      <4>3. m = i + 1
        BY <4>2
      <4> HIDE DEF i, m
      <4>4. \A k \in Sending : /\ q.todo[k] \subseteq Links!Planned(q, p)[k]
                               /\ (k < m => q.todo[k] = {})
                               /\ (k > m => q.todo[k] = Links!Planned(q, p)[k])
        <5> SUFFICES ASSUME NEW k \in Sending
                     PROVE  /\ r.todo[k] \subseteq Links!Planned(r, p)[k]
                            /\ (k < i + 1 => r.todo[k] = {})
                            /\ (k > i + 1 => r.todo[k] = Links!Planned(r, p)[k])
          BY <2>4, <3>1, <4>3
        <5>1. k < i + 1 => k < i \/ k = i
          BY <1>1 DEF Sending
        <5>2. k > i + 1 => k > i
          BY <1>1 DEF Sending
        <5>3. k < i + 1 => r.todo[k] = {}
          BY <1>1, <4>1, <5>1
        <5>4. k > i + 1 => r.todo[k] = Links!Planned(r, p)[k]
          BY <4>1, <5>2
        <5> QED BY <4>1, <5>3, <5>4
      <4> QED BY <4>4 DEF m
    <3>4. /\ \A d \in lost : 4 \in Sent(q, p, d)
          /\ \A d \in LinkCase : 7 \in Sent(q, p, d) => 5 \notin Sent(q, p, d)
          /\ Links!MergedAreSame(q)
      BY <1>4, <2>7, <3>1, <3>2 DEF Planning
    <3>5. Planning(job[j], PrOf[j])'
      <4>1. job'[j] = q /\ lost' = lost
        BY <1>1, <2>5
      <4> QED BY <3>3, <3>4, <4>1, Zenon DEF Planning
    <3>6. \A d \in LinkCase :
              linked'[d] = Outcome(Heard(job[j], PrOf[j], d)', job'[j], PrOf[j], d)
      <4>1. \A d : Heard(job[j], PrOf[j], d)' = Heard(r, p, d)
        BY <1>1, <2>5, <3>2 DEF Heard
      <4>2. \A d \in LinkCase : linked[d] = Outcome(Heard(r, p, d), q, p, d)
        BY <1>4, <2>7, <3>1
      <4>3. linked' = linked /\ job'[j] = q
        BY <1>1, <2>5
      <4> QED BY <4>1, <4>2, <4>3, Zenon
    <3>7. Links!Found(code)' = Links!Found(code)
      BY <1>1 DEF Links!Found
    <3> QED BY <1>4, <2>2, <2>4, <2>5, <2>7, <3>5, <3>6, <3>7, AtSending
  <2> QED BY <1>1, <1>3, <2>5, <2>6, <2>7, RunKeeps DEF r
<1> QED BY <1>5, <1>6

\* A change of the repositories comes between every run.
LEMMA ChangedKeeps ==
    ASSUME LinkInv, UNCHANGED <<linked, job, lost>>, undisturbed' = {}
    PROVE  LinkInv'
  BY DEF LinkInv, LinkTypes

\* What another pull request adds is in no request of a run that nothing came between.
LEMMA OthersAreLeft ==
    ASSUME LinkInv, NEW j \in undisturbed, NEW c \in Links!Unmerged(linked), job[j].at # 0,
           linked[c].pr # PrOf[j], code[c] = Links!None, [Links!Next]_(Links!vars),
           j \in undisturbed'
    PROVE  linked'[c] = linked[c]
<1> DEFINE r == job[j]
           p == PrOf[j]
           i == r.at - 2
<1>1. SUFFICES ASSUME linked' # linked PROVE linked'[c] = linked[c]
  OBVIOUS
<1>2. PICK k \in LinkJob : \E d \in LinkCase : Links!Send(k, d)
  BY <1>1 DEF Links!Next, Links!vars, Links!Merge, Links!Close, Links!Edit, Links!Changed,
              Links!Begin, Links!Collect, Links!Plan, Links!NextKind
<1>3. PICK d \in LinkCase : Links!Send(k, d)
  BY <1>2
<1>4. LinkTypes /\ OnItsWay(j) /\ j \in LinkJob /\ r \in LinkRuns
  BY DEF LinkInv, LinkTypes
<1>5. k = j
  <2>1. job[k].at - 2 \in Sending
    BY <1>3, SevenKinds DEF Links!Send
  <2>2. job[k].at # 0
    BY <2>1 DEF Sending
  <2> QED BY <1>4, <2>2 DEF OnItsWay
<1>6. SUFFICES ASSUME d = c PROVE FALSE
  <2>1. linked' = [linked EXCEPT ![d] = Links!After(Links!Phases[i], r, p, d)]
    BY <1>1, <1>3, <1>5 DEF Links!Send
  <2> QED BY <1>4, <2>1 DEF LinkTypes
<1>7. /\ i \in Sending /\ c \in r.todo[i]
      /\ Links!Accepted(Links!Phases[i], c)
  BY <1>1, <1>3, <1>5, <1>6, SevenKinds DEF Links!Send
<1>8. r.at \in Nat /\ r.at >= 2 /\ r.at >= 3
  <2>1. r.at \in Nat
    BY <1>4 DEF LinkRuns
  <2> HIDE DEF r
  <2> QED BY <1>7, <2>1 DEF Sending
<1>9. /\ r.ci = Links!Found(code) /\ Planning(r, p)
      /\ \A e \in LinkCase : linked[e] = Outcome(Heard(r, p, e), r, p, e)
  <2>1. Right(r, p)
    BY <1>4 DEF OnItsWay
  <2> HIDE DEF r
  <2> QED BY <1>8, <2>1 DEF Right
<1>10. /\ c \in LinkCase /\ linked[c] # Links!Absent /\ linked[c].mark = "added"
       /\ r.ci[c] = Links!None /\ c \notin Links!Listed(r.ci)
  <2>1. c \in LinkCase /\ linked[c] # Links!Absent /\ linked[c].mark = "added"
    BY DEF Links!Unmerged, Links!Kept
  <2>2. Links!Found(code)[c] = Links!None
    BY <2>1 DEF Links!Found
  <2> QED BY <1>9, <2>1, <2>2 DEF Links!Listed
<1> DEFINE w == Links!Planned(r, p)
<1>11. c \in w[i]
  BY <1>7, <1>9 DEF Planning
<1>12. i = 1 \/ i = 5
  <2>1. i \in {1, 2, 3, 4, 5, 6, 7}
    BY <1>7 DEF Sending
  <2>2. i \notin {2, 6}
    BY <1>7, <1>10, SevenKinds DEF Links!Accepted
  <2>3. i \notin {3, 4, 7}
    BY <1>10, <1>11, PlannedSets DEF Links!MergedCases, Links!DeletedInPR
  <2> HIDE DEF i
  <2> QED BY <2>1, <2>2, <2>3
<1>13. linked[c] = IF 1 \in Sent(r, p, c) THEN Links!Absent ELSE r.snap[c]
  <2> DEFINE K == Heard(r, p, c)
  <2>1. \A k1 \in Sent(r, p, c) : k1 \in Sending /\ c \in w[k1] /\ k1 < i
    <3> SUFFICES ASSUME NEW k1 \in Sent(r, p, c) PROVE k1 \in Sending /\ c \in w[k1] /\ k1 < i
      OBVIOUS
    <3>1. k1 \in Sending /\ c \in w[k1] /\ c \notin r.todo[k1]
      BY DEF Sent
    <3>2. k1 # i /\ ~(k1 > i)
      BY <1>7, <1>9, <3>1 DEF Planning
    <3> QED BY <1>7, <3>1, <3>2 DEF Sending
  <2>2. 2 \notin Sent(r, p, c) /\ 3 \notin Sent(r, p, c) /\ 4 \notin Sent(r, p, c)
    BY <1>10, <2>1, PlannedSets DEF Links!MergedCases
  <2>3. 5 \notin Sent(r, p, c) /\ 6 \notin Sent(r, p, c) /\ 7 \notin Sent(r, p, c)
    BY <1>12, <2>1
  <2>4. Heard(r, p, c) = Sent(r, p, c)
    BY <2>2 DEF Heard
  <2>5. Outcome(Sent(r, p, c), r, p, c) = IF 1 \in Sent(r, p, c) THEN Links!Absent ELSE r.snap[c]
    BY <2>2, <2>3 DEF Outcome, AfterFour, Deleted, Created, Updated, Unmarked, Cleaned, Added,
        Doomed
  <2> QED BY <1>9, <1>10, <2>4, <2>5
<1>14. linked[c] = r.snap[c]
  BY <1>10, <1>13
<1>15. CASE i = 1
  <2>1. c \in w[1] /\ c \in Links!Kept(r.snap) /\ c \notin Links!Unmerged(r.snap)
    BY <1>11, <1>15, PlannedSets
  <2> QED BY <1>10, <1>14, <2>1 DEF Links!Unmerged
<1>16. CASE i = 5
  <2>1. w[5] = IF p = NoPR THEN {} ELSE Links!Leftover(r, p)
    BY PlannedSets
  <2>2. c \in w[5]
    BY <1>11, <1>16
  <2>3. c \in Links!Leftover(r, p)
    BY <2>1, <2>2
  <2> QED BY <1>14, <2>3 DEF Links!Leftover
<1> QED BY <1>12, <1>15, <1>16

\* The list of caselink: after a run that nothing came between, it is that of the
\* repositories, and the cases of its pull request are those that it adds; and such a
\* run leaves what another open pull request adds.
THEOREM LinksHold ==
    ASSUME Links!CaselinkAssumption
    PROVE  /\ Links!Spec => [](Links!InSync /\ Links!PullIsListed)
           /\ Links!Spec => Links!OthersStay
<1>1. ASSUME Links!Init PROVE LinkInv
  <2>1. job \in [LinkJob -> LinkRuns] /\ undisturbed = {} /\ lost = {}
    BY <1>1, IdleIsRun DEF Links!Init
  <2>2. linked \in [LinkCase -> Links!Entries]
    <3>1. code \in [LinkCase -> Selected \cup {Links!None}] /\ Selected \subseteq Desc
      BY <1>1 DEF Links!Init, Links!CaselinkAssumption
    <3>2. ASSUME NEW c \in LinkCase
          PROVE  [desc |-> code[c], mark |-> "", pr |-> NoPR] \in Links!Entries
      <4>1. code[c] \in Desc \cup {Links!None}
        BY <3>1
      <4> QED BY <4>1 DEF Links!Entries
    <3>3. linked = [c \in LinkCase |-> [desc |-> code[c], mark |-> "", pr |-> NoPR]]
      BY <1>1 DEF Links!Init
    <3> HIDE DEF Links!Entries
    <3> QED BY <3>2, <3>3
  <2> QED BY <2>1, <2>2 DEF LinkInv, LinkTypes
<1>2. ASSUME LinkInv, [Links!Next]_(Links!vars) PROVE LinkInv'
  <2>1. ASSUME UNCHANGED Links!vars PROVE LinkInv'
    <3>1. UNCHANGED <<linked, code, job, undisturbed, lost>>
      BY <2>1 DEF Links!vars
    <3>2. /\ Links!Found(code)' = Links!Found(code)
          /\ \A j, c : Heard(job[j], PrOf[j], c)' = Heard(job[j], PrOf[j], c)
          /\ \A j : Synced(job[j], PrOf[j])' <=> Synced(job[j], PrOf[j])
          /\ \A j : Planning(job[j], PrOf[j])' <=> Planning(job[j], PrOf[j])
      BY <3>1 DEF Links!Found, Heard, Synced, Planning
    <3>3. \A j : Right(job[j], PrOf[j])' <=> Right(job[j], PrOf[j])
      BY <3>1, <3>2, ZenonT(60) DEF Right
    <3> QED BY <1>2, <3>1, <3>3 DEF LinkInv, LinkTypes, OnItsWay
  <2>2. ASSUME NEW p \in PR, Links!Merge(p) \/ Links!Close(p) PROVE LinkInv'
    BY <1>2, <2>2, ChangedKeeps DEF Links!Merge, Links!Close, Links!Changed
  <2>3. ASSUME NEW c \in LinkCase, Links!Edit(c) PROVE LinkInv'
    BY <1>2, <2>3, ChangedKeeps DEF Links!Edit, Links!Changed
  <2> QED BY <1>2, <2>1, <2>2, <2>3, LinkBeginKeeps, CollectKeeps, PlanKeeps, NextKindKeeps,
          SendKeeps
          DEF Links!Next
<1>3. ASSUME LinkInv PROVE Links!InSync /\ Links!PullIsListed
  <2> SUFFICES ASSUME NEW j \in LinkJob, j \in undisturbed, job[j].ret = "ok"
               PROVE  Synced(job[j], PrOf[j])
    BY DEF Links!InSync, Links!PullIsListed, Links!Complete, Synced, Links!Forgotten
  <2>1. Right(job[j], PrOf[j])
    BY <1>3 DEF LinkInv, OnItsWay
  <2> QED BY <2>1 DEF Right
<1>4. ASSUME LinkInv, [Links!Next]_(Links!vars)
      PROVE  [\A j \in undisturbed \cap undisturbed', c \in Links!Unmerged(linked) :
                  /\ Links!Running(j) /\ linked[c].pr # PrOf[j] /\ code[c] = Links!None
                  => linked'[c] = linked[c]]_(Links!vars)
  BY <1>4, OthersAreLeft DEF Links!Running
<1> QED BY <1>1, <1>2, <1>3, <1>4, PTL DEF Links!Spec, Links!OthersStay
=============================================================================
