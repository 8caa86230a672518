-------------------------- MODULE MCRecordsProofs --------------------------
(***************************************************************************)
(* What is proved of the components of MCSafety side by side, for those    *)
(* that keep tables and files: that what jobs report arrives once          *)
(* (ReportsArriveOnce), that the tests that run are those asked for        *)
(* (TestsAreChosen), and that cards, statements, cases, packages,          *)
(* performance data and bugs are consistent (RecordsAreRight).  The        *)
(* arguments for the components are in RecordsProofs and PreparationProofs,*)
(* which are instantiated as MCSafety instantiates their components; the   *)
(* rest of MCSafety is in MCSafetyProofs.                                  *)
(***************************************************************************)
EXTENDS MCSafety, TLAPS

-----------------------------------------------------------------------------
(* Side by side. *)

\* A step of UnionNext leaves `part` alone; it is a step of the component that moves,
\* if any, and leaves the variables of the others alone.
LEMMA OneMoves ==
    ASSUME [UnionNext]_unionVars
    PROVE  /\ part' = part
           /\ (part = "card" /\ Next) \/ UNCHANGED vars
           /\ (part = "upload" /\ Upload!Next) \/ UNCHANGED uploadVars
           /\ (part = "groups" /\ Groups!Next) \/ UNCHANGED groupVars
           /\ (part = "issues" /\ Issues!Next) \/ UNCHANGED issueVars
           /\ (part = "repos" /\ Repos!Next) \/ UNCHANGED repoVars
           /\ (part = "plan" /\ Plan!Next) \/ UNCHANGED planVars
           /\ (part = "guests" /\ Guests!Next) \/ UNCHANGED gvars
           /\ (part = "statements" /\ Statements!Next) \/ UNCHANGED statementVars
           /\ (part = "feed" /\ Feed!Next) \/ UNCHANGED feedVars
           /\ \/ part = "users" /\ Users!Next
              \/ part = "unlock" /\ Unlock!Next
              \/ UNCHANGED userVars
           /\ \/ part = "links" /\ Links!Next
              \/ part = "linked" /\ Linked!Next
              \/ UNCHANGED linkVars
           /\ \/ part = "sizes" /\ Sizes!Next
              \/ part = "counts" /\ Numbers!Next
              \/ UNCHANGED perfVars
           /\ \/ part = "bugs" /\ Bugs!Next
              \/ part = "arches" /\ Arches!Next
              \/ UNCHANGED bugVars
           /\ \/ part = "setup" /\ Setup!Next
              \/ part = "slave" /\ Slave!Next
              \/ UNCHANGED setupVars
  BY DEF UnionNext, Rests, unionVars

\* The three that report have variables of their own: whatever moves, they do what
\* their specifications allow.
LEMMA EachReports == UnionSpec => Upload!Spec /\ Groups!Spec /\ Issues!Spec
<1>1. UnionInit => Upload!Init /\ Groups!Init /\ Issues!Init
  BY DEF UnionInit
<1>2. [UnionNext]_unionVars =>
          /\ [Upload!Next]_(Upload!vars) /\ [Groups!Next]_(Groups!vars)
          /\ [Issues!Next]_(Issues!vars)
  <2>1. UNCHANGED uploadVars => UNCHANGED Upload!vars
    BY DEF uploadVars, Upload!vars
  <2>2. UNCHANGED groupVars => UNCHANGED Groups!vars
    BY DEF groupVars, Groups!vars
  <2>3. UNCHANGED issueVars => UNCHANGED Issues!vars
    BY DEF issueVars, Issues!vars
  <2> QED
    BY <2>1, <2>2, <2>3, OneMoves
<1> QED
  BY <1>1, <1>2, PTL DEF UnionSpec, Upload!Spec, Groups!Spec, Issues!Spec

\* So do those that prepare the tests.
LEMMA EachPrepares == UnionSpec => Repos!Spec /\ Plan!Spec /\ Guests!Spec
<1>1. UnionInit => Repos!Init /\ Plan!Init /\ Guests!Init
  BY DEF UnionInit
<1>2. [UnionNext]_unionVars =>
          /\ [Repos!Next]_(Repos!vars) /\ [Plan!Next]_(Plan!vars)
          /\ [Guests!Next]_(Guests!gvars)
  <2>1. UNCHANGED repoVars => UNCHANGED Repos!vars
    BY DEF repoVars, Repos!vars, Repos!git
  <2>2. UNCHANGED planVars => UNCHANGED Plan!vars
    BY DEF planVars, Plan!vars
  <2>3. UNCHANGED gvars => UNCHANGED Guests!gvars
    BY DEF gvars, Guests!gvars
  <2> QED
    BY <2>1, <2>2, <2>3, OneMoves
<1> QED
  BY <1>1, <1>2, PTL DEF UnionSpec, Repos!Spec, Plan!Spec, Guests!Spec

\* So do cards, statements and packages.
LEMMA EachRecords == UnionSpec => Spec /\ Statements!Spec /\ Feed!Spec
<1>1. UnionInit => Init /\ Statements!Init /\ Feed!Init
  BY DEF UnionInit
<1>2. [UnionNext]_unionVars =>
          /\ [Next]_vars /\ [Statements!Next]_(Statements!vars)
          /\ [Feed!Next]_(Feed!vars)
  <2>1. UNCHANGED statementVars => UNCHANGED Statements!vars
    BY DEF statementVars, Statements!vars
  <2>2. UNCHANGED feedVars => UNCHANGED Feed!vars
    BY DEF feedVars, Feed!vars
  <2> QED
    BY <2>1, <2>2, OneMoves
<1> QED
  BY <1>1, <1>2, PTL DEF UnionSpec, Spec, Statements!Spec, Feed!Spec

\* The others share variables with another instance of their component: a behaviour is
\* one of theirs if it is they that move, which never changes.  So it is with users, ...
LEMMA UsersBehave == part = "users" /\ UnionSpec => Users!Spec /\ [](part = "users")
<1>1. part = "users" /\ UnionInit => Users!Init
  BY DEF UnionInit
<1>2. part = "users" /\ [UnionNext]_unionVars =>
          (part = "users")' /\ [Users!Next]_(Users!vars)
  <2>1. UNCHANGED userVars => UNCHANGED Users!vars
    BY DEF userVars, Users!vars
  <2> QED
    BY <2>1, OneMoves
<1> QED
  BY <1>1, <1>2, PTL DEF UnionSpec, Users!Spec

\* ... and the lists of cases of two jobs ...
LEMMA LinksBehave == part = "links" /\ UnionSpec => Links!Spec /\ [](part = "links")
<1>1. part = "links" /\ UnionInit => Links!Init
  BY DEF UnionInit
<1>2. part = "links" /\ [UnionNext]_unionVars =>
          (part = "links")' /\ [Links!Next]_(Links!vars)
  <2>1. UNCHANGED linkVars => UNCHANGED Links!vars
    BY DEF linkVars, Links!vars
  <2> QED
    BY <2>1, OneMoves
<1> QED
  BY <1>1, <1>2, PTL DEF UnionSpec, Links!Spec

\* ... or one, ...
LEMMA LinkedBehaves == part = "linked" /\ UnionSpec => Linked!Spec /\ [](part = "linked")
<1>1. part = "linked" /\ UnionInit => Linked!Init
  BY DEF UnionInit
<1>2. part = "linked" /\ [UnionNext]_unionVars =>
          (part = "linked")' /\ [Linked!Next]_(Linked!vars)
  <2>1. UNCHANGED linkVars => UNCHANGED Linked!vars
    BY DEF linkVars, Linked!vars
  <2> QED
    BY <2>1, OneMoves
<1> QED
  BY <1>1, <1>2, PTL DEF UnionSpec, Linked!Spec

\* ... sizes ...
LEMMA SizesBehave == part = "sizes" /\ UnionSpec => Sizes!Spec /\ [](part = "sizes")
<1>1. part = "sizes" /\ UnionInit => Sizes!Init
  BY DEF UnionInit
<1>2. part = "sizes" /\ [UnionNext]_unionVars =>
          (part = "sizes")' /\ [Sizes!Next]_(Sizes!vars)
  <2>1. UNCHANGED perfVars => UNCHANGED Sizes!vars
    BY DEF perfVars, Sizes!vars
  <2> QED
    BY <2>1, OneMoves
<1> QED
  BY <1>1, <1>2, PTL DEF UnionSpec, Sizes!Spec

\* ... or counts, ...
LEMMA NumbersBehave == part = "counts" /\ UnionSpec => Numbers!Spec /\ [](part = "counts")
<1>1. part = "counts" /\ UnionInit => Numbers!Init
  BY DEF UnionInit
<1>2. part = "counts" /\ [UnionNext]_unionVars =>
          (part = "counts")' /\ [Numbers!Next]_(Numbers!vars)
  <2>1. UNCHANGED perfVars => UNCHANGED Numbers!vars
    BY DEF perfVars, Numbers!vars
  <2> QED
    BY <2>1, OneMoves
<1> QED
  BY <1>1, <1>2, PTL DEF UnionSpec, Numbers!Spec

\* ... the bugs of x86 ...
LEMMA BugsBehave == part = "bugs" /\ UnionSpec => Bugs!Spec /\ [](part = "bugs")
<1>1. part = "bugs" /\ UnionInit => Bugs!Init
  BY DEF UnionInit
<1>2. part = "bugs" /\ [UnionNext]_unionVars =>
          (part = "bugs")' /\ [Bugs!Next]_(Bugs!vars)
  <2>1. UNCHANGED bugVars => UNCHANGED Bugs!vars
    BY DEF bugVars, Bugs!vars
  <2> QED
    BY <2>1, OneMoves
<1> QED
  BY <1>1, <1>2, PTL DEF UnionSpec, Bugs!Spec

\* ... or of the architectures, ...
LEMMA ArchesBehave == part = "arches" /\ UnionSpec => Arches!Spec /\ [](part = "arches")
<1>1. part = "arches" /\ UnionInit => Arches!Init
  BY DEF UnionInit
<1>2. part = "arches" /\ [UnionNext]_unionVars =>
          (part = "arches")' /\ [Arches!Next]_(Arches!vars)
  <2>1. UNCHANGED bugVars => UNCHANGED Arches!vars
    BY DEF bugVars, Arches!vars
  <2> QED
    BY <2>1, OneMoves
<1> QED
  BY <1>1, <1>2, PTL DEF UnionSpec, Arches!Spec

\* ... and what a run is set up with.
LEMMA SetupBehaves == part = "setup" /\ UnionSpec => Setup!Spec /\ [](part = "setup")
<1>1. part = "setup" /\ UnionInit => Setup!Init
  BY DEF UnionInit
<1>2. part = "setup" /\ [UnionNext]_unionVars =>
          (part = "setup")' /\ [Setup!Next]_(Setup!vars)
  <2>1. UNCHANGED setupVars => UNCHANGED Setup!vars
    BY DEF setupVars, Setup!vars
  <2> QED
    BY <2>1, OneMoves
<1> QED
  BY <1>1, <1>2, PTL DEF UnionSpec, Setup!Spec
-----------------------------------------------------------------------------
(* The tests that run. *)

PrepFacts == INSTANCE PreparationProofs WITH
    PRs <- {pr1, pr12}, Patches <- {fix}, Changes <- {chg}, Good <- {pr1, pr12, chg},
    Missing <- {}, Branch <- Branches, StartBranch <- "rhel", MasterBranch <- "master",
    Clones <- 1, Retries <- 1, Polls <- 1, GitFails <- TRUE, changed <- files,
    Test <- {t1, t2, t3, t4, new1, new2}, Pattern <- {virsh, dump, list, vol},
    Hits <- Matched, Base <- {t1, t2, t3, t4}, Repo <- {rep1, rep2}, RepoAdds <- Added,
    ChangedOnly <- {dump, vol}, Slice <- Slices, PlanOptions <- AllOptions,
    Additional <- 1, BootFails <- TRUE, Blacklist <- Black, NoOnly <- noonly,
    MainVM <- mvm, ExtraVMs <- {xvm}, V2vVMs <- {vvm}, PrepOptions <- PrepRuns,
    MaxPreps <- 2, PrepKills <- 1, PrepFaults <- 1,
    RunJob <- {j1}, RunStarts <- Reruns \cup Edits,
    FlagParam <- {"flag"}, TextParam <- {"opt", "report"}, WipedParam <- {"report"},
    TestFile <- {"f", "g"}, Word <- {"a", "b", "v", "w"},
    OwnReplaces <- <<[files |-> {"f"}, from |-> "v", to |-> "w"]>>,
    Product <- {"p", "q"}, PackageName <- {"a", "b"}, Build <- Builds,
    NameOf <- BuildName, VersionOf <- BuildVersion, Watched <- {"a", "b"},
    FirstTagged <- FirstBuilds, LateTagged <- LateBuilds, FeedFails <- TRUE,
    LinkCase <- {"a", "b", "c"}, PR <- {"p", "q"}, Desc <- {"d", "e"}, Selected <- {"d"},
    LinkJob <- {"one", "two"}, PrOf <- LinkPR, MaxSyncs <- 1, MaxEdits <- 1,
    Adds <- LinkAdds, Dels <- LinkDels, NoPR <- "none", LinkFails <- TRUE

\* The repositories of the tests are those of PreparationProofs ...
LEMMA ReposAreRepos ==
    /\ Repos!PatchAssumption => PrepFacts!Repos!PatchAssumption
    /\ Repos!Spec => PrepFacts!Repos!Spec
    /\ PrepFacts!Repos!PileUp => Repos!PileUp
    /\ PrepFacts!Repos!BranchIsRecorded => Repos!BranchIsRecorded
    /\ PrepFacts!Repos!BackWithAll => Repos!BackWithAll
    /\ PrepFacts!Repos!PickIsWhole => Repos!PickIsWhole
<1>1. Repos!PatchAssumption => PrepFacts!Repos!PatchAssumption
  BY ZenonT(30) DEF Repos!Item, PrepFacts!Repos!Item, Repos!None, PrepFacts!Repos!None,
         Repos!PatchAssumption, PrepFacts!Repos!PatchAssumption
<1>2. Repos!Init => PrepFacts!Repos!Init
  BY ZenonT(30) DEF Repos!Item, PrepFacts!Repos!Item, Repos!None, PrepFacts!Repos!None,
         Repos!Init, PrepFacts!Repos!Init
<1>3. [Repos!Next]_(Repos!vars) => [PrepFacts!Repos!Next]_(PrepFacts!Repos!vars)
  BY ZenonT(30) DEF Repos!Item, PrepFacts!Repos!Item, Repos!None, PrepFacts!Repos!None,
         Repos!git, PrepFacts!Repos!git, Repos!vars, PrepFacts!Repos!vars, Repos!Data,
         PrepFacts!Repos!Data, Repos!Pull, PrepFacts!Repos!Pull, Repos!Clone,
         PrepFacts!Repos!Clone, Repos!Copy, PrepFacts!Repos!Copy, Repos!Listed,
         PrepFacts!Repos!Listed, Repos!CheckedOut, PrepFacts!Repos!CheckedOut, Repos!Refuses,
         PrepFacts!Repos!Refuses, Repos!NotCheckedOut, PrepFacts!Repos!NotCheckedOut,
         Repos!Ask, PrepFacts!Repos!Ask, Repos!Return, PrepFacts!Repos!Return, Repos!Raise,
         PrepFacts!Repos!Raise, Repos!Refused, PrepFacts!Repos!Refused, Repos!Refresh,
         PrepFacts!Repos!Refresh, Repos!Look, PrepFacts!Repos!Look, Repos!Mergable,
         PrepFacts!Repos!Mergable, Repos!Judge, PrepFacts!Repos!Judge, Repos!Read,
         PrepFacts!Repos!Read, Repos!FindPatch, PrepFacts!Repos!FindPatch, Repos!Checkout,
         PrepFacts!Repos!Checkout, Repos!Commit, PrepFacts!Repos!Commit, Repos!Am,
         PrepFacts!Repos!Am, Repos!AmFails, PrepFacts!Repos!AmFails, Repos!ApplyPR,
         PrepFacts!Repos!ApplyPR, Repos!ListFiles, PrepFacts!Repos!ListFiles, Repos!ApplyPatch,
         PrepFacts!Repos!ApplyPatch, Repos!Pick, PrepFacts!Repos!Pick, Repos!ToMaster,
         PrepFacts!Repos!ToMaster, Repos!Back, PrepFacts!Repos!Back, Repos!Finish,
         PrepFacts!Repos!Finish, Repos!Next, PrepFacts!Repos!Next
<1>4. PrepFacts!Repos!PileUp => Repos!PileUp
  BY ZenonT(30) DEF Repos!Content, PrepFacts!Repos!Content, Repos!PileUp,
         PrepFacts!Repos!PileUp
<1>5. PrepFacts!Repos!BranchIsRecorded => Repos!BranchIsRecorded
  BY ZenonT(30) DEF Repos!None, PrepFacts!Repos!None, Repos!BranchIsRecorded,
         PrepFacts!Repos!BranchIsRecorded
<1>6. PrepFacts!Repos!BackWithAll => Repos!BackWithAll
  BY ZenonT(30) DEF Repos!Content, PrepFacts!Repos!Content, Repos!BackWithAll,
         PrepFacts!Repos!BackWithAll
<1>7. PrepFacts!Repos!PickIsWhole => Repos!PickIsWhole
  BY ZenonT(30) DEF Repos!PickIsWhole, PrepFacts!Repos!PickIsWhole
<1> QED
  BY <1>1, <1>2, <1>3, <1>4, <1>5, <1>6, <1>7, PTL DEF Repos!Spec, PrepFacts!Repos!Spec

\* ... so is the choice of tests ...
LEMMA PlanIsPlan ==
    /\ Plan!PlanAssumption => PrepFacts!Plan!PlanAssumption
    /\ Plan!Spec => PrepFacts!Plan!Spec
    /\ PrepFacts!Plan!RunOrSkipped => Plan!RunOrSkipped
    /\ PrepFacts!Plan!ReportedPerEntry => Plan!ReportedPerEntry
    /\ PrepFacts!Plan!NewCasesAreRun => Plan!NewCasesAreRun
    /\ PrepFacts!Plan!FewOldCases => Plan!FewOldCases
<1>1. Plan!PlanAssumption => PrepFacts!Plan!PlanAssumption
  BY ZenonT(30) DEF Plan!IsFiniteSet, PrepFacts!Plan!IsFiniteSet, Plan!PlanAssumption,
         PrepFacts!Plan!PlanAssumption
<1>2. Plan!Init => PrepFacts!Plan!Init
  BY ZenonT(30) DEF Plan!Init, PrepFacts!Plan!Init
<1>3. [Plan!Next]_(Plan!vars) => [PrepFacts!Plan!Next]_(PrepFacts!Plan!vars)
  BY ZenonT(30) DEF Plan!Cardinality, PrepFacts!Plan!Cardinality, Plan!IsFiniteSet,
         PrepFacts!Plan!IsFiniteSet, Plan!vars, PrepFacts!Plan!vars, Plan!ReadParams,
         PrepFacts!Plan!ReadParams, Plan!AsOnly, PrepFacts!Plan!AsOnly, Plan!Other,
         PrepFacts!Plan!Other, Plan!ReadSlice, PrepFacts!Plan!ReadSlice, Plan!SliceFails,
         PrepFacts!Plan!SliceFails, Plan!ReadChange, PrepFacts!Plan!ReadChange, Plan!Exists,
         PrepFacts!Plan!Exists, Plan!Any, PrepFacts!Plan!Any, Plan!Filtered,
         PrepFacts!Plan!Filtered, Plan!Entries, PrepFacts!Plan!Entries, Plan!Blacked,
         PrepFacts!Plan!Blacked, Plan!Reports, PrepFacts!Plan!Reports, Plan!GetTests,
         PrepFacts!Plan!GetTests, Plan!Left, PrepFacts!Plan!Left, Plan!ListTests,
         PrepFacts!Plan!ListTests, Plan!ListWith, PrepFacts!Plan!ListWith, Plan!Checkouts,
         PrepFacts!Plan!Checkouts, Plan!ToMaster, PrepFacts!Plan!ToMaster, Plan!ListWithout,
         PrepFacts!Plan!ListWithout, Plan!Back, PrepFacts!Plan!Back, Plan!Bootstrap,
         PrepFacts!Plan!Bootstrap, Plan!New, PrepFacts!Plan!New, Plan!LeftCases,
         PrepFacts!Plan!LeftCases, Plan!Least, PrepFacts!Plan!Least, Plan!Select,
         PrepFacts!Plan!Select, Plan!Check, PrepFacts!Plan!Check, Plan!Next,
         PrepFacts!Plan!Next
<1>4. PrepFacts!Plan!RunOrSkipped => Plan!RunOrSkipped
  BY ZenonT(30) DEF Plan!AsOnly, PrepFacts!Plan!AsOnly, Plan!Other, PrepFacts!Plan!Other,
         Plan!Exists, PrepFacts!Plan!Exists, Plan!Ended, PrepFacts!Plan!Ended, Plan!Asked,
         PrepFacts!Plan!Asked, Plan!RunOrSkipped, PrepFacts!Plan!RunOrSkipped
<1>5. PrepFacts!Plan!ReportedPerEntry => Plan!ReportedPerEntry
  BY ZenonT(30) DEF Plan!Cardinality, PrepFacts!Plan!Cardinality, Plan!IsFiniteSet,
         PrepFacts!Plan!IsFiniteSet, Plan!AsOnly, PrepFacts!Plan!AsOnly, Plan!Other,
         PrepFacts!Plan!Other, Plan!Exists, PrepFacts!Plan!Exists, Plan!Entries,
         PrepFacts!Plan!Entries, Plan!Ended, PrepFacts!Plan!Ended, Plan!Asked,
         PrepFacts!Plan!Asked, Plan!ReportedPerEntry, PrepFacts!Plan!ReportedPerEntry
<1>6. PrepFacts!Plan!NewCasesAreRun => Plan!NewCasesAreRun
  BY ZenonT(30) DEF Plan!Exists, PrepFacts!Plan!Exists, Plan!Any, PrepFacts!Plan!Any,
         Plan!Filtered, PrepFacts!Plan!Filtered, Plan!Entries, PrepFacts!Plan!Entries,
         Plan!NewCasesAreRun, PrepFacts!Plan!NewCasesAreRun
<1>7. PrepFacts!Plan!FewOldCases => Plan!FewOldCases
  BY ZenonT(30) DEF Plan!Cardinality, PrepFacts!Plan!Cardinality, Plan!IsFiniteSet,
         PrepFacts!Plan!IsFiniteSet, Plan!Ended, PrepFacts!Plan!Ended, Plan!FewOldCases,
         PrepFacts!Plan!FewOldCases
<1> QED
  BY <1>1, <1>2, <1>3, <1>4, <1>5, <1>6, <1>7, PTL DEF Plan!Spec, PrepFacts!Plan!Spec

\* ... the host of the tests ...
LEMMA GuestsAreGuests ==
    /\ Guests!GuestPrepAssumption => PrepFacts!Guests!GuestPrepAssumption
    /\ Guests!Spec => PrepFacts!Guests!Spec
    /\ PrepFacts!Guests!ImageIsFresh => Guests!ImageIsFresh
    /\ PrepFacts!Guests!BackupIsWhole => Guests!BackupIsWhole
    /\ PrepFacts!Guests!ReadyAsAsked => Guests!ReadyAsAsked
<1>1. Guests!GuestPrepAssumption => PrepFacts!Guests!GuestPrepAssumption
  BY ZenonT(30) DEF Guests!V2vModes, PrepFacts!Guests!V2vModes, Guests!GuestPrepAssumption,
         PrepFacts!Guests!GuestPrepAssumption
<1>2. Guests!Init => PrepFacts!Guests!Init
  BY ZenonT(30) DEF Guests!Guest, PrepFacts!Guests!Guest, Guests!Absent,
         PrepFacts!Guests!Absent, Guests!Init, PrepFacts!Guests!Init
<1>3. [Guests!Next]_(Guests!gvars) => [PrepFacts!Guests!Next]_(PrepFacts!Guests!gvars)
  BY ZenonT(30) DEF Guests!gvars, PrepFacts!Guests!gvars, Guests!host, PrepFacts!Guests!host,
         Guests!files, PrepFacts!Guests!files, Guests!Guest, PrepFacts!Guests!Guest,
         Guests!Defined, PrepFacts!Guests!Defined, Guests!Absent, PrepFacts!Guests!Absent,
         Guests!Copying, PrepFacts!Guests!Copying, Guests!Goto, PrepFacts!Guests!Goto,
         Guests!Raises, PrepFacts!Guests!Raises, Guests!Fault, PrepFacts!Guests!Fault,
         Guests!Me, PrepFacts!Guests!Me, Guests!NewGuest, PrepFacts!Guests!NewGuest,
         Guests!Lose, PrepFacts!Guests!Lose, Guests!Done, PrepFacts!Guests!Done, Guests!Start,
         PrepFacts!Guests!Start, Guests!GuestWrites, PrepFacts!Guests!GuestWrites,
         Guests!Arrives, PrepFacts!Guests!Arrives, Guests!Download, PrepFacts!Guests!Download,
         Guests!Downloaded, PrepFacts!Guests!Downloaded, Guests!BackupImage,
         PrepFacts!Guests!BackupImage, Guests!BackedUp, PrepFacts!Guests!BackedUp,
         Guests!RestoreImage, PrepFacts!Guests!RestoreImage, Guests!RestoredImage,
         PrepFacts!Guests!RestoredImage, Guests!RemoveVM, PrepFacts!Guests!RemoveVM,
         Guests!Removed, PrepFacts!Guests!Removed, Guests!PrepareNetwork,
         PrepFacts!Guests!PrepareNetwork, Guests!InstallVM, PrepFacts!Guests!InstallVM,
         Guests!CloneVM, PrepFacts!Guests!CloneVM, Guests!Cloned, PrepFacts!Guests!Cloned,
         Guests!MountSource, PrepFacts!Guests!MountSource, Guests!DefineVM,
         PrepFacts!Guests!DefineVM, Guests!DefinedAll, PrepFacts!Guests!DefinedAll,
         Guests!PrepareState, PrepFacts!Guests!PrepareState, Guests!Test,
         PrepFacts!Guests!Test, Guests!Check, PrepFacts!Guests!Check, Guests!Kill,
         PrepFacts!Guests!Kill, Guests!Next, PrepFacts!Guests!Next
<1>4. PrepFacts!Guests!ImageIsFresh => Guests!ImageIsFresh
  BY ZenonT(30) DEF Guests!Ready, PrepFacts!Guests!Ready, Guests!ImageIsFresh,
         PrepFacts!Guests!ImageIsFresh
<1>5. PrepFacts!Guests!BackupIsWhole => Guests!BackupIsWhole
  BY ZenonT(30) DEF Guests!BackupIsWhole, PrepFacts!Guests!BackupIsWhole
<1>6. PrepFacts!Guests!ReadyAsAsked => Guests!ReadyAsAsked
  BY ZenonT(30) DEF Guests!Guest, PrepFacts!Guests!Guest, Guests!Defined,
         PrepFacts!Guests!Defined, Guests!Me, PrepFacts!Guests!Me, Guests!Ready,
         PrepFacts!Guests!Ready, Guests!ReadyAsAsked, PrepFacts!Guests!ReadyAsAsked
<1> QED
  BY <1>1, <1>2, <1>3, <1>4, <1>5, <1>6, PTL DEF Guests!Spec, PrepFacts!Guests!Spec

\* ... and what a run is set up with.
LEMMA SetupIsSetup ==
    /\ Setup!SetupAssumption => PrepFacts!Setup!SetupAssumption
    /\ Setup!Spec => PrepFacts!Setup!Spec
    /\ PrepFacts!Setup!RerunIsSame => Setup!RerunIsSame
    /\ PrepFacts!Setup!OwnParams => Setup!OwnParams
    /\ PrepFacts!Setup!PairsAreApplied => Setup!PairsAreApplied
<1>1. Setup!SetupAssumption => PrepFacts!Setup!SetupAssumption
  BY ZenonT(30) DEF Setup!Param, PrepFacts!Setup!Param, Setup!Pairing, PrepFacts!Setup!Pairing,
         Setup!Started, PrepFacts!Setup!Started, Setup!SetupAssumption,
         PrepFacts!Setup!SetupAssumption
<1>2. Setup!Init => PrepFacts!Setup!Init
  BY ZenonT(30) DEF Setup!Init, PrepFacts!Setup!Init
<1>3. [Setup!Next]_(Setup!vars) => [PrepFacts!Setup!Next]_(PrepFacts!Setup!vars)
  BY ZenonT(30) DEF Setup!Param, PrepFacts!Setup!Param, Setup!vars, PrepFacts!Setup!vars,
         Setup!Absent, PrepFacts!Setup!Absent, Setup!Hidden, PrepFacts!Setup!Hidden,
         Setup!Lost, PrepFacts!Setup!Lost, Setup!Loaded, PrepFacts!Setup!Loaded, Setup!Goto,
         PrepFacts!Setup!Goto, Setup!Merged, PrepFacts!Setup!Merged, Setup!GetParams,
         PrepFacts!Setup!GetParams, Setup!Saved, PrepFacts!Setup!Saved, Setup!Of,
         PrepFacts!Setup!Of, Setup!FromBuild, PrepFacts!Setup!FromBuild, Setup!Rerun,
         PrepFacts!Setup!Rerun, Setup!Process, PrepFacts!Setup!Process, Setup!Collecting,
         PrepFacts!Setup!Collecting, Setup!Collect, PrepFacts!Setup!Collect, Setup!Look,
         PrepFacts!Setup!Look, Setup!Open, PrepFacts!Setup!Open, Setup!Remove,
         PrepFacts!Setup!Remove, Setup!Replaced, PrepFacts!Setup!Replaced, Setup!Refuse,
         PrepFacts!Setup!Refuse, Setup!Framework, PrepFacts!Setup!Framework, Setup!FirstLine,
         PrepFacts!Setup!FirstLine, Setup!Line, PrepFacts!Setup!Line, Setup!IsLine,
         PrepFacts!Setup!IsLine, Setup!Step, PrepFacts!Setup!Step, Setup!NextLine,
         PrepFacts!Setup!NextLine, Setup!Section, PrepFacts!Setup!Section, Setup!Replace,
         PrepFacts!Setup!Replace, Setup!Other, PrepFacts!Setup!Other, Setup!Next,
         PrepFacts!Setup!Next
<1>4. PrepFacts!Setup!RerunIsSame => Setup!RerunIsSame
  BY ZenonT(30) DEF Setup!Param, PrepFacts!Setup!Param, Setup!Absent, PrepFacts!Setup!Absent,
         Setup!Lost, PrepFacts!Setup!Lost, Setup!Loaded, PrepFacts!Setup!Loaded, Setup!Merged,
         PrepFacts!Setup!Merged, Setup!Of, PrepFacts!Setup!Of, Setup!Processed,
         PrepFacts!Setup!Processed, Setup!RerunIsSame, PrepFacts!Setup!RerunIsSame
<1>5. PrepFacts!Setup!OwnParams => Setup!OwnParams
  BY ZenonT(30) DEF Setup!Param, PrepFacts!Setup!Param, Setup!Processed,
         PrepFacts!Setup!Processed, Setup!OwnParams, PrepFacts!Setup!OwnParams
<1>6. PrepFacts!Setup!PairsAreApplied => Setup!PairsAreApplied
  BY ZenonT(30) DEF Setup!PairsAreApplied, PrepFacts!Setup!PairsAreApplied
<1> QED
  BY <1>1, <1>2, <1>3, <1>4, <1>5, <1>6, PTL DEF Setup!Spec, PrepFacts!Setup!Spec

\* The tests that run are those asked for, with the parameters, the replacements, the
\* patches, the image and the guests asked for, whatever fails before.
THEOREM TestsAreChosenAlways == UnionSpec => []TestsAreChosen
<1>1. /\ PrepFacts!Repos!PatchAssumption /\ PrepFacts!Plan!PlanAssumption
      /\ PrepFacts!Guests!GuestPrepAssumption /\ PrepFacts!Setup!SetupAssumption
  BY ReposAreRepos, PlanIsPlan, GuestsAreGuests, SetupIsSetup, SafetyAssumption
<1>2. UnionSpec => [](/\ Repos!PileUp /\ Repos!BranchIsRecorded /\ Repos!BackWithAll
                      /\ Repos!PickIsWhole)
  BY <1>1, EachPrepares, ReposAreRepos, PrepFacts!RepoHolds, PTL
<1>3. UnionSpec => [](/\ Plan!RunOrSkipped /\ Plan!ReportedPerEntry /\ Plan!NewCasesAreRun
                      /\ Plan!FewOldCases)
  BY <1>1, EachPrepares, PlanIsPlan, PrepFacts!PlanHolds, PTL
<1>4. UnionSpec => [](Guests!ImageIsFresh /\ Guests!BackupIsWhole /\ Guests!ReadyAsAsked)
  BY <1>1, EachPrepares, GuestsAreGuests, PrepFacts!GuestsHold, PTL
<1>5. UnionSpec => [](part = "setup" =>
                          Setup!RerunIsSame /\ Setup!OwnParams /\ Setup!PairsAreApplied)
  <2>1. part = "setup" /\ UnionSpec =>
            [](Setup!RerunIsSame /\ Setup!OwnParams /\ Setup!PairsAreApplied)
    BY <1>1, SetupBehaves, SetupIsSetup, PrepFacts!SetupHolds, PTL
  <2>2. ~(part = "setup") /\ [UnionNext]_unionVars => ~(part = "setup")'
    BY OneMoves
  <2> QED
    BY <2>1, <2>2, PTL DEF UnionSpec
<1> QED
  BY <1>2, <1>3, <1>4, <1>5, PTL DEF TestsAreChosen

-----------------------------------------------------------------------------
(* Packages and cases. *)

\* The packages are those of PreparationProofs ...
LEMMA FeedIsFeed ==
    /\ Feed!FeedAssumption => PrepFacts!Feed!FeedAssumption
    /\ Feed!Spec => PrepFacts!Feed!Spec
    /\ PrepFacts!Feed!NoRowTwice => Feed!NoRowTwice
    /\ PrepFacts!Feed!LostWhenCrossed => Feed!LostWhenCrossed
    /\ PrepFacts!Feed!NoDowngrade => Feed!NoDowngrade
    /\ PrepFacts!Feed!OddIsListed => Feed!OddIsListed
<1>1. Feed!FeedAssumption => PrepFacts!Feed!FeedAssumption
  BY ZenonT(30) DEF Feed!IsFiniteSet, PrepFacts!Feed!IsFiniteSet, Feed!FeedAssumption,
         PrepFacts!Feed!FeedAssumption
<1>2. Feed!Init => PrepFacts!Feed!Init
  BY ZenonT(30) DEF Feed!Old, PrepFacts!Feed!Old, Feed!NoThread, PrepFacts!Feed!NoThread,
         Feed!NoUpdate, PrepFacts!Feed!NoUpdate, Feed!IdleRun, PrepFacts!Feed!IdleRun, Feed!Init,
         PrepFacts!Feed!Init
<1>3. [Feed!Next]_(Feed!vars) => [PrepFacts!Feed!Next]_(PrepFacts!Feed!vars)
  BY ZenonT(30) DEF Feed!Cardinality, PrepFacts!Feed!Cardinality, Feed!IsFiniteSet,
         PrepFacts!Feed!IsFiniteSet, Feed!vars, PrepFacts!Feed!vars,
         Feed!Old, PrepFacts!Feed!Old, Feed!Orders,
         PrepFacts!Feed!Orders, Feed!NoThread, PrepFacts!Feed!NoThread, Feed!NoUpdate,
         PrepFacts!Feed!NoUpdate, Feed!IdleRun, PrepFacts!Feed!IdleRun, Feed!Newer,
         PrepFacts!Feed!Newer, Feed!Latest, PrepFacts!Feed!Latest, Feed!Recorded,
         PrepFacts!Feed!Recorded, Feed!Live, PrepFacts!Feed!Live, Feed!Tag, PrepFacts!Feed!Tag,
         Feed!Begin, PrepFacts!Feed!Begin, Feed!Raise, PrepFacts!Feed!Raise, Feed!Look,
         PrepFacts!Feed!Look, Feed!Looked, PrepFacts!Feed!Looked, Feed!Start, PrepFacts!Feed!Start,
         Feed!Started, PrepFacts!Feed!Started, Feed!Joined, PrepFacts!Feed!Joined, Feed!Index,
         PrepFacts!Feed!Index, Feed!Goto, PrepFacts!Feed!Goto, Feed!Die, PrepFacts!Feed!Die,
         Feed!Playbook, PrepFacts!Feed!Playbook, Feed!Fetch, PrepFacts!Feed!Fetch, Feed!Written,
         PrepFacts!Feed!Written, Feed!Crossing, PrepFacts!Feed!Crossing, Feed!Push,
         PrepFacts!Feed!Push, Feed!Mail, PrepFacts!Feed!Mail, Feed!Thread, PrepFacts!Feed!Thread,
         Feed!Run, PrepFacts!Feed!Run, Feed!Next, PrepFacts!Feed!Next
<1>4. PrepFacts!Feed!NoRowTwice => Feed!NoRowTwice
  BY ZenonT(30) DEF Feed!Old, PrepFacts!Feed!Old, Feed!NoRowTwice, PrepFacts!Feed!NoRowTwice
<1>5. PrepFacts!Feed!LostWhenCrossed => Feed!LostWhenCrossed
  BY ZenonT(30) DEF Feed!Recorded, PrepFacts!Feed!Recorded, Feed!LostWhenCrossed,
         PrepFacts!Feed!LostWhenCrossed
<1>6. PrepFacts!Feed!NoDowngrade => Feed!NoDowngrade
  BY ZenonT(30) DEF Feed!Old, PrepFacts!Feed!Old, Feed!Newer, PrepFacts!Feed!Newer,
         Feed!NoDowngrade, PrepFacts!Feed!NoDowngrade
<1>7. PrepFacts!Feed!OddIsListed => Feed!OddIsListed
  BY ZenonT(30) DEF Feed!OddIsListed, PrepFacts!Feed!OddIsListed
<1> QED
  BY <1>1, <1>2, <1>3, <1>4, <1>5, <1>6, <1>7, PTL DEF Feed!Spec, PrepFacts!Feed!Spec

\* ... and so is the list of cases, of two jobs.
LEMMA LinksAreLinks ==
    /\ Links!CaselinkAssumption => PrepFacts!Links!CaselinkAssumption
    /\ Links!Spec => PrepFacts!Links!Spec
    /\ PrepFacts!Links!InSync => Links!InSync
    /\ PrepFacts!Links!PullIsListed => Links!PullIsListed
<1>1. Links!CaselinkAssumption => PrepFacts!Links!CaselinkAssumption
  BY ZenonT(30) DEF Links!CaselinkAssumption, PrepFacts!Links!CaselinkAssumption
<1>2. Links!Init => PrepFacts!Links!Init
  BY ZenonT(30) DEF Links!None, PrepFacts!Links!None, Links!Phases, PrepFacts!Links!Phases,
         Links!Sends, PrepFacts!Links!Sends, Links!Nothing, PrepFacts!Links!Nothing, Links!Idle,
         PrepFacts!Links!Idle, Links!Listed, PrepFacts!Links!Listed, Links!Init,
         PrepFacts!Links!Init
<1>3. [Links!Next]_(Links!vars) => [PrepFacts!Links!Next]_(PrepFacts!Links!vars)
  BY ZenonT(30) DEF Links!vars, PrepFacts!Links!vars, Links!None, PrepFacts!Links!None,
         Links!Phases, PrepFacts!Links!Phases, Links!Sends, PrepFacts!Links!Sends, Links!Nothing,
         PrepFacts!Links!Nothing, Links!Idle, PrepFacts!Links!Idle, Links!Absent,
         PrepFacts!Links!Absent, Links!Listed, PrepFacts!Links!Listed, Links!Kept,
         PrepFacts!Links!Kept, Links!Merged, PrepFacts!Links!Merged, Links!Changed,
         PrepFacts!Links!Changed, Links!Merge, PrepFacts!Links!Merge, Links!Close,
         PrepFacts!Links!Close, Links!Edit, PrepFacts!Links!Edit, Links!Running,
         PrepFacts!Links!Running, Links!Found, PrepFacts!Links!Found, Links!Begin,
         PrepFacts!Links!Begin, Links!End, PrepFacts!Links!End, Links!Collect,
         PrepFacts!Links!Collect, Links!Unmerged, PrepFacts!Links!Unmerged, Links!Closed,
         PrepFacts!Links!Closed, Links!NewInPR, PrepFacts!Links!NewInPR, Links!DeletedInPR,
         PrepFacts!Links!DeletedInPR, Links!MergedCases, PrepFacts!Links!MergedCases,
         Links!NewAreFree, PrepFacts!Links!NewAreFree, Links!DeletedAreKnown,
         PrepFacts!Links!DeletedAreKnown, Links!MergedAreSame, PrepFacts!Links!MergedAreSame,
         Links!Leftover, PrepFacts!Links!Leftover, Links!Concerned, PrepFacts!Links!Concerned,
         Links!Planned, PrepFacts!Links!Planned, Links!Plan, PrepFacts!Links!Plan, Links!Accepted,
         PrepFacts!Links!Accepted, Links!After, PrepFacts!Links!After, Links!Send,
         PrepFacts!Links!Send, Links!NextKind, PrepFacts!Links!NextKind, Links!Next,
         PrepFacts!Links!Next
<1>4. PrepFacts!Links!InSync => Links!InSync
  BY ZenonT(30) DEF Links!None, PrepFacts!Links!None, Links!Absent, PrepFacts!Links!Absent,
         Links!Listed, PrepFacts!Links!Listed, Links!Kept, PrepFacts!Links!Kept, Links!Unmerged,
         PrepFacts!Links!Unmerged, Links!MergedCases, PrepFacts!Links!MergedCases, Links!Complete,
         PrepFacts!Links!Complete, Links!Forgotten, PrepFacts!Links!Forgotten, Links!InSync,
         PrepFacts!Links!InSync
<1>5. PrepFacts!Links!PullIsListed => Links!PullIsListed
  BY ZenonT(30) DEF Links!None, PrepFacts!Links!None, Links!Absent, PrepFacts!Links!Absent,
         Links!Listed, PrepFacts!Links!Listed, Links!Kept, PrepFacts!Links!Kept, Links!Unmerged,
         PrepFacts!Links!Unmerged, Links!DeletedInPR, PrepFacts!Links!DeletedInPR, Links!Complete,
         PrepFacts!Links!Complete, Links!PullIsListed, PrepFacts!Links!PullIsListed
<1> QED
  BY <1>1, <1>2, <1>3, <1>4, <1>5, PTL DEF Links!Spec, PrepFacts!Links!Spec

\* The rows of the sheet of packages are there once, unless a thread crossed another.
LEMMA FeedIsRight ==
    UnionSpec => [](/\ Feed!NoRowTwice /\ Feed!LostWhenCrossed /\ Feed!NoDowngrade
                    /\ Feed!OddIsListed)
<1>1. PrepFacts!Feed!FeedAssumption
  BY FeedIsFeed, SafetyAssumption
<1> QED
  BY <1>1, EachRecords, FeedIsFeed, PrepFacts!FeedHolds, PTL

\* The list of cases is that of the repositories after a run that nothing disturbed.
LEMMA LinksAreRight ==
    UnionSpec => [](part = "links" => Links!InSync /\ Links!PullIsListed)
<1>1. PrepFacts!Links!CaselinkAssumption
  BY LinksAreLinks, SafetyAssumption
<1>2. part = "links" /\ UnionSpec => [](Links!InSync /\ Links!PullIsListed)
  BY <1>1, LinksBehave, LinksAreLinks, PrepFacts!LinksHold, PTL
<1>3. ~(part = "links") /\ [UnionNext]_unionVars => ~(part = "links")'
  BY OneMoves
<1> QED
  BY <1>2, <1>3, PTL DEF UnionSpec

-----------------------------------------------------------------------------
(* What jobs report. *)

RecordFacts == INSTANCE RecordsProofs WITH
    Customer <- {u1, u2}, Regulars <- {u1}, UserObj <- {o1, o2}, NoCustomer <- "",
    MaxLogins <- 2, MaxStores <- 2,
    StatementDay <- 22, MonthDays <- 30, PayDay <- 10, DayRate <- 1, LastBillDay <- 85,
    MaxStatements <- 2,
    PerfItem <- {"bw"}, Counts <- {}, PerfHosts <- 2,
    Told <- [i \in {"bw"} |-> {[n |-> 3, unit |-> "B"], [n |-> 15, unit |-> "KB"]}],
    Kilo <- 4, Hour <- 1, LastTick <- 3, Starts <- {0, 1},
    TrackedBug <- {"a", "b"}, NumbersIn <- BugNumbers, BugFlag <- {"f", "g", "h"},
    ParentOf <- [f \in {"f", "g"} |-> f], Contact <- {"q", "r"},
    LeadOf <- [q \in {"q", "r"} |-> IF q = "q" THEN "q" ELSE "nobody"],
    NoContact <- "nobody", BugCommands <- {"x86"}, MaxBugRuns <- 2, MaxBugChanges <- 1,
    MaxBugFaults <- 1

\* The uploads to the dashboard are those of RecordsProofs; ...
LEMMA UploadIsUpload ==
    /\ Upload!DashboardAssumption => RecordFacts!Upload!DashboardAssumption
    /\ Upload!Spec => RecordFacts!Upload!Spec
    /\ RecordFacts!Upload!CaseOnce => Upload!CaseOnce
    /\ RecordFacts!Upload!SubmittedIsAnswered => Upload!SubmittedIsAnswered
<1>1. Upload!DashboardAssumption => RecordFacts!Upload!DashboardAssumption
  BY ZenonT(30) DEF Upload!DashboardAssumption, RecordFacts!Upload!DashboardAssumption,
         Upload!IsFiniteSet, RecordFacts!Upload!IsFiniteSet
<1>2. Upload!Init => RecordFacts!Upload!Init
  BY ZenonT(30) DEF Upload!Init, RecordFacts!Upload!Init
<1>3. [Upload!Next]_(Upload!vars) => [RecordFacts!Upload!Next]_(RecordFacts!Upload!vars)
  BY ZenonT(30) DEF Upload!vars, RecordFacts!Upload!vars, Upload!Start, RecordFacts!Upload!Start,
         Upload!Created, RecordFacts!Upload!Created, Upload!Exists, RecordFacts!Upload!Exists,
         Upload!CreateFails, RecordFacts!Upload!CreateFails, Upload!PostCase,
         RecordFacts!Upload!PostCase, Upload!Posted, RecordFacts!Upload!Posted, Upload!SubmitRun,
         RecordFacts!Upload!SubmitRun, Upload!Next, RecordFacts!Upload!Next
<1>4. RecordFacts!Upload!CaseOnce => Upload!CaseOnce
  BY ZenonT(30) DEF Upload!CaseOnce, RecordFacts!Upload!CaseOnce
<1>5. RecordFacts!Upload!SubmittedIsAnswered => Upload!SubmittedIsAnswered
  BY ZenonT(30) DEF Upload!SubmittedIsAnswered, RecordFacts!Upload!SubmittedIsAnswered
<1> QED
  BY <1>1, <1>2, <1>3, <1>4, <1>5, PTL DEF Upload!Spec, RecordFacts!Upload!Spec

\* ... so are the groups of ResultsDB ...
LEMMA GroupsAreGroups ==
    /\ Groups!GroupsAssumption => RecordFacts!Groups!GroupsAssumption
    /\ Groups!Spec => RecordFacts!Groups!Spec
    /\ RecordFacts!Groups!ResultsAreGrouped => Groups!ResultsAreGrouped
    /\ RecordFacts!Groups!OwnGroupOnce => Groups!OwnGroupOnce
<1>1. Groups!GroupsAssumption => RecordFacts!Groups!GroupsAssumption
  BY ZenonT(30) DEF Groups!GroupsAssumption, RecordFacts!Groups!GroupsAssumption,
         Groups!IsFiniteSet, RecordFacts!Groups!IsFiniteSet
<1>2. Groups!Init => RecordFacts!Groups!Init
  BY ZenonT(30) DEF Groups!Init, RecordFacts!Groups!Init, Groups!NoGroup,
         RecordFacts!Groups!NoGroup
<1>3. [Groups!Next]_(Groups!vars) => [RecordFacts!Groups!Next]_(RecordFacts!Groups!vars)
  BY ZenonT(30) DEF Groups!vars, RecordFacts!Groups!vars, Groups!Wanted, RecordFacts!Groups!Wanted,
         Groups!NoGroup, RecordFacts!Groups!NoGroup, Groups!Start, RecordFacts!Groups!Start,
         Groups!AskGroups, RecordFacts!Groups!AskGroups, Groups!First, RecordFacts!Groups!First,
         Groups!TakeGroup, RecordFacts!Groups!TakeGroup, Groups!Grouped,
         RecordFacts!Groups!Grouped, Groups!CreateResult, RecordFacts!Groups!CreateResult,
         Groups!End, RecordFacts!Groups!End, Groups!Raise, RecordFacts!Groups!Raise, Groups!Next,
         RecordFacts!Groups!Next
<1>4. RecordFacts!Groups!ResultsAreGrouped => Groups!ResultsAreGrouped
  BY ZenonT(30) DEF Groups!ResultsAreGrouped, RecordFacts!Groups!ResultsAreGrouped,
         Groups!Cardinality, RecordFacts!Groups!Cardinality, Groups!IsFiniteSet,
         RecordFacts!Groups!IsFiniteSet, Groups!Wanted, RecordFacts!Groups!Wanted, Groups!With,
         RecordFacts!Groups!With
<1>5. RecordFacts!Groups!OwnGroupOnce => Groups!OwnGroupOnce
  BY ZenonT(30) DEF Groups!OwnGroupOnce, RecordFacts!Groups!OwnGroupOnce, Groups!Cardinality,
         RecordFacts!Groups!Cardinality, Groups!IsFiniteSet, RecordFacts!Groups!IsFiniteSet,
         Groups!With, RecordFacts!Groups!With
<1> QED
  BY <1>1, <1>2, <1>3, <1>4, <1>5, PTL DEF Groups!Spec, RecordFacts!Groups!Spec

\* ... and the issues of Jira.
LEMMA IssuesAreIssues ==
    /\ Issues!IssueAssumption => RecordFacts!Issues!IssueAssumption
    /\ Issues!Spec => RecordFacts!Issues!Spec
    /\ RecordFacts!Issues!BoundedDuplicates => Issues!BoundedDuplicates
    /\ RecordFacts!Issues!OneIsKept => Issues!OneIsKept
    /\ RecordFacts!Issues!ReportIsThere => Issues!ReportIsThere
<1>1. Issues!IssueAssumption => RecordFacts!Issues!IssueAssumption
  BY ZenonT(30) DEF Issues!IssueAssumption, RecordFacts!Issues!IssueAssumption, Issues!IsFiniteSet,
         RecordFacts!Issues!IsFiniteSet
<1>2. Issues!Init => RecordFacts!Issues!Init
  BY ZenonT(30) DEF Issues!Init, RecordFacts!Issues!Init, Issues!Quiet, RecordFacts!Issues!Quiet,
         Issues!Blank, RecordFacts!Issues!Blank
<1>3. [Issues!Next]_(Issues!vars) => [RecordFacts!Issues!Next]_(RecordFacts!Issues!vars)
  BY ZenonT(30) DEF Issues!Cardinality, RecordFacts!Issues!Cardinality, Issues!IsFiniteSet,
         RecordFacts!Issues!IsFiniteSet, Issues!vars, RecordFacts!Issues!vars, Issues!Kind,
         RecordFacts!Issues!Kind, Issues!Status, RecordFacts!Issues!Status, Issues!Failures,
         RecordFacts!Issues!Failures, Issues!Total, RecordFacts!Issues!Total, Issues!Reportable,
         RecordFacts!Issues!Reportable, Issues!Exceeds, RecordFacts!Issues!Exceeds, Issues!Start,
         RecordFacts!Issues!Start, Issues!Search, RecordFacts!Issues!Search, Issues!Earliest,
         RecordFacts!Issues!Earliest, Issues!Results, RecordFacts!Issues!Results, Issues!IsUnknown,
         RecordFacts!Issues!IsUnknown, Issues!NewIssue, RecordFacts!Issues!NewIssue,
         Issues!Reopened, RecordFacts!Issues!Reopened, Issues!UpdateIssue,
         RecordFacts!Issues!UpdateIssue, Issues!Finish, RecordFacts!Issues!Finish,
         Issues!Transition, RecordFacts!Issues!Transition, Issues!Next, RecordFacts!Issues!Next
<1>4. RecordFacts!Issues!BoundedDuplicates => Issues!BoundedDuplicates
  BY ZenonT(30) DEF Issues!BoundedDuplicates, RecordFacts!Issues!BoundedDuplicates,
         Issues!Cardinality, RecordFacts!Issues!Cardinality, Issues!IsFiniteSet,
         RecordFacts!Issues!IsFiniteSet, Issues!Of, RecordFacts!Issues!Of
<1>5. RecordFacts!Issues!OneIsKept => Issues!OneIsKept
  BY ZenonT(30) DEF Issues!OneIsKept, RecordFacts!Issues!OneIsKept, Issues!Of,
         RecordFacts!Issues!Of, Issues!Earliest, RecordFacts!Issues!Earliest
<1>6. RecordFacts!Issues!ReportIsThere => Issues!ReportIsThere
  BY ZenonT(30) DEF Issues!ReportIsThere, RecordFacts!Issues!ReportIsThere, Issues!Of,
         RecordFacts!Issues!Of, Issues!Reportable, RecordFacts!Issues!Reportable
<1> QED
  BY <1>1, <1>2, <1>3, <1>4, <1>5, <1>6, PTL DEF Issues!Spec, RecordFacts!Issues!Spec

\* What a job reports is there once: on the dashboard unless the upload is forced, in
\* one group of each description, and in an issue for its message of which each job
\* makes one at most; whatever the jobs do at the same time, however often they are
\* started again and whatever is answered.
THEOREM ReportsArriveOnceAlways == UnionSpec => []ReportsArriveOnce
<1>1. /\ RecordFacts!Upload!DashboardAssumption /\ RecordFacts!Groups!GroupsAssumption
      /\ RecordFacts!Issues!IssueAssumption
  BY UploadIsUpload, GroupsAreGroups, IssuesAreIssues, SafetyAssumption
<1>2. UnionSpec => [](Upload!CaseOnce /\ Upload!SubmittedIsAnswered)
  BY <1>1, CardAssumption, EachReports, UploadIsUpload, RecordFacts!UploadHolds, PTL
<1>3. UnionSpec => [](Groups!ResultsAreGrouped /\ Groups!OwnGroupOnce)
  BY <1>1, CardAssumption, EachReports, GroupsAreGroups, RecordFacts!ResultsAreGroupedHolds, PTL
<1>4. UnionSpec => [](Issues!BoundedDuplicates /\ Issues!OneIsKept /\ Issues!ReportIsThere)
  BY <1>1, CardAssumption, EachReports, IssuesAreIssues, RecordFacts!IssuesHold, PTL
<1> QED
  BY <1>2, <1>3, <1>4, PTL DEF ReportsArriveOnce

-----------------------------------------------------------------------------
(* What calls keep in tables and files. *)

\* The cards are those of RecordsProofs ...
LEMMA CardsAreCards ==
    /\ Spec => RecordFacts!Spec
    /\ RecordFacts!ChargesAreBilled => ChargesAreBilled
    /\ RecordFacts!PurchasesAreBilled => PurchasesAreBilled
    /\ RecordFacts!ReturnsWhole => ReturnsWhole
<1>1. Init => RecordFacts!Init
  BY ZenonT(30) DEF Init, RecordFacts!Init
<1>2. [Next]_vars => [RecordFacts!Next]_(RecordFacts!vars)
  BY ZenonT(30) DEF store, RecordFacts!store, vars, RecordFacts!vars, Free, RecordFacts!Free,
         Alive, RecordFacts!Alive, Idle, RecordFacts!Idle, Call, RecordFacts!Call, Loaded,
         RecordFacts!Loaded, Step, RecordFacts!Step, Save, RecordFacts!Save, Pay, RecordFacts!Pay,
         TopUp, RecordFacts!TopUp, Fee, RecordFacts!Fee, Accepts, RecordFacts!Accepts, Construct,
         RecordFacts!Construct, Drop, RecordFacts!Drop, CreateCard, RecordFacts!CreateCard,
         FetchMoney, RecordFacts!FetchMoney, TranslateMoney, RecordFacts!TranslateMoney,
         PayForShopcart, RecordFacts!PayForShopcart, At, RecordFacts!At, Who, RecordFacts!Who, Sum,
         RecordFacts!Sum, Stored, RecordFacts!Stored, Charge, RecordFacts!Charge, Bill,
         RecordFacts!Bill, Credit, RecordFacts!Credit, Open, RecordFacts!Open, Write,
         RecordFacts!Write, History, RecordFacts!History, Kill, RecordFacts!Kill, FileStep,
         RecordFacts!FileStep, Next, RecordFacts!Next
<1>3. RecordFacts!ChargesAreBilled => ChargesAreBilled
  BY ZenonT(30) DEF ChargesAreBilled, RecordFacts!ChargesAreBilled
<1>4. RecordFacts!PurchasesAreBilled => PurchasesAreBilled
  BY ZenonT(30) DEF PurchasesAreBilled, RecordFacts!PurchasesAreBilled
<1>5. RecordFacts!ReturnsWhole => ReturnsWhole
  BY ZenonT(30) DEF Free, RecordFacts!Free, Idle, RecordFacts!Idle, ReturnsWhole,
         RecordFacts!ReturnsWhole
<1> QED
  BY <1>1, <1>2, <1>3, <1>4, <1>5, PTL DEF Spec, RecordFacts!Spec

\* ... so are the statements ...
LEMMA StatementsAreStatements ==
    /\ Statements!StatementAssumption => RecordFacts!Statements!StatementAssumption
    /\ Statements!Spec => RecordFacts!Statements!Spec
    /\ RecordFacts!Statements!BilledIsStated => Statements!BilledIsStated
    /\ RecordFacts!Statements!InterestIsSimple => Statements!InterestIsSimple
    /\ RecordFacts!Statements!TimeToPay => Statements!TimeToPay
<1>1. Statements!StatementAssumption => RecordFacts!Statements!StatementAssumption
  BY ZenonT(30) DEF Statements!StatementAssumption, RecordFacts!Statements!StatementAssumption
<1>2. Statements!Init => RecordFacts!Statements!Init
  BY ZenonT(30) DEF Statements!Init, RecordFacts!Statements!Init
<1>3. [Statements!Next]_(Statements!vars) =>
          [RecordFacts!Statements!Next]_(RecordFacts!Statements!vars)
  BY ZenonT(30) DEF Statements!vars, RecordFacts!Statements!vars, Statements!MonthOf,
         RecordFacts!Statements!MonthOf, Statements!DayOf, RecordFacts!Statements!DayOf,
         Statements!Date, RecordFacts!Statements!Date, Statements!SortsAfter,
         RecordFacts!Statements!SortsAfter, Statements!Covers, RecordFacts!Statements!Covers,
         Statements!Book, RecordFacts!Statements!Book, Statements!CreateStatement,
         RecordFacts!Statements!CreateStatement, Statements!Overdue,
         RecordFacts!Statements!Overdue, Statements!Recreate, RecordFacts!Statements!Recreate,
         Statements!Rewrite, RecordFacts!Statements!Rewrite, Statements!Kill,
         RecordFacts!Statements!Kill, Statements!NextDay, RecordFacts!Statements!NextDay,
         Statements!Next, RecordFacts!Statements!Next
<1>4. RecordFacts!Statements!BilledIsStated => Statements!BilledIsStated
  BY ZenonT(30) DEF Statements!MonthOf, RecordFacts!Statements!MonthOf, Statements!DayOf,
         RecordFacts!Statements!DayOf, Statements!Date, RecordFacts!Statements!Date,
         Statements!LastChance, RecordFacts!Statements!LastChance, Statements!BilledIsStated,
         RecordFacts!Statements!BilledIsStated
<1>5. RecordFacts!Statements!InterestIsSimple => Statements!InterestIsSimple
  BY ZenonT(30) DEF Statements!InterestIsSimple, RecordFacts!Statements!InterestIsSimple
<1>6. RecordFacts!Statements!TimeToPay => Statements!TimeToPay
  BY ZenonT(30) DEF Statements!TimeToPay, RecordFacts!Statements!TimeToPay
<1> QED
  BY <1>1, <1>2, <1>3, <1>4, <1>5, <1>6, PTL DEF Statements!Spec, RecordFacts!Statements!Spec

\* ... the users ...
LEMMA UsersAreUsers ==
    /\ Users!UserAssumption => RecordFacts!Users!UserAssumption
    /\ Users!Spec => RecordFacts!Users!Spec
    /\ RecordFacts!Users!LockTakesMax => Users!LockTakesMax
    /\ RecordFacts!Users!LockedStayOut => Users!LockedStayOut
    /\ RecordFacts!Users!BoundIsOwned => Users!BoundIsOwned
<1>1. Users!UserAssumption => RecordFacts!Users!UserAssumption
  BY ZenonT(30) DEF Users!UserAssumption, RecordFacts!Users!UserAssumption
<1>2. Users!Init => RecordFacts!Users!Init
  BY ZenonT(30) DEF Users!Fresh, RecordFacts!Users!Fresh, Users!Init, RecordFacts!Users!Init
<1>3. [Users!Next]_(Users!vars) => [RecordFacts!Users!Next]_(RecordFacts!Users!vars)
  BY ZenonT(30) DEF Users!vars, RecordFacts!Users!vars, Users!Fresh, RecordFacts!Users!Fresh,
         Users!Alive, RecordFacts!Users!Alive, Users!Idle, RecordFacts!Users!Idle, Users!NoNews,
         RecordFacts!Users!NoNews, Users!Store, RecordFacts!Users!Store, Users!Construct,
         RecordFacts!Users!Construct, Users!Login, RecordFacts!Users!Login, Users!Trying,
         RecordFacts!Users!Trying, Users!UnknownName, RecordFacts!Users!UnknownName, Users!Succeed,
         RecordFacts!Users!Succeed, Users!Fail, RecordFacts!Users!Fail, Users!Refuse,
         RecordFacts!Users!Refuse, Users!LockOut, RecordFacts!Users!LockOut, Users!LoadInfo,
         RecordFacts!Users!LoadInfo, Users!Change, RecordFacts!Users!Change, Users!Named,
         RecordFacts!Users!Named, Users!Mine, RecordFacts!Users!Mine, Users!CreateUser,
         RecordFacts!Users!CreateUser, Users!DelUser, RecordFacts!Users!DelUser, Users!UnlockUser,
         RecordFacts!Users!UnlockUser, Users!ModifyPassword, RecordFacts!Users!ModifyPassword,
         Users!ModifyInfo, RecordFacts!Users!ModifyInfo, Users!BindCard,
         RecordFacts!Users!BindCard, Users!Logout, RecordFacts!Users!Logout, Users!Drop,
         RecordFacts!Users!Drop, Users!Next, RecordFacts!Users!Next
<1>4. RecordFacts!Users!LockTakesMax => Users!LockTakesMax
  BY ZenonT(30) DEF Users!LockTakesMax, RecordFacts!Users!LockTakesMax
<1>5. RecordFacts!Users!LockedStayOut => Users!LockedStayOut
  BY ZenonT(30) DEF Users!Alive, RecordFacts!Users!Alive, Users!Mine, RecordFacts!Users!Mine,
         Users!LockedStayOut, RecordFacts!Users!LockedStayOut
<1>6. RecordFacts!Users!BoundIsOwned => Users!BoundIsOwned
  BY ZenonT(30) DEF Users!BoundIsOwned, RecordFacts!Users!BoundIsOwned
<1> QED
  BY <1>1, <1>2, <1>3, <1>4, <1>5, <1>6, PTL DEF Users!Spec, RecordFacts!Users!Spec

\* ... the sizes that the cluster records ...
LEMMA SizesArePerf ==
    /\ Sizes!PerfAssumption => RecordFacts!Perf!PerfAssumption
    /\ Sizes!Spec => RecordFacts!Perf!Spec
    /\ RecordFacts!Perf!SumsAreClose => Sizes!SumsAreClose
    /\ RecordFacts!Perf!SavedStays => Sizes!SavedStays
<1>1. Sizes!PerfAssumption => RecordFacts!Perf!PerfAssumption
  BY ZenonT(30) DEF Sizes!IsFiniteSet, RecordFacts!Perf!IsFiniteSet, Sizes!PerfAssumption,
         RecordFacts!Perf!PerfAssumption
<1>2. Sizes!Init => RecordFacts!Perf!Init
  BY ZenonT(30) DEF Sizes!Round, RecordFacts!Perf!Round, Sizes!NoOne, RecordFacts!Perf!NoOne,
         Sizes!NoThread, RecordFacts!Perf!NoThread, Sizes!Init, RecordFacts!Perf!Init
<1>3. [Sizes!Next]_(Sizes!vars) => [RecordFacts!Perf!Next]_(RecordFacts!Perf!vars)
  BY ZenonT(30) DEF Sizes!vars, RecordFacts!Perf!vars, Sizes!Round, RecordFacts!Perf!Round,
         Sizes!NoOne, RecordFacts!Perf!NoOne, Sizes!Db, RecordFacts!Perf!Db, Sizes!Cut,
         RecordFacts!Perf!Cut, Sizes!Adds, RecordFacts!Perf!Adds, Sizes!Converted,
         RecordFacts!Perf!Converted, Sizes!Value, RecordFacts!Perf!Value, Sizes!Tenths,
         RecordFacts!Perf!Tenths, Sizes!Tick, RecordFacts!Perf!Tick, Sizes!Collect,
         RecordFacts!Perf!Collect, Sizes!Goto, RecordFacts!Perf!Goto, Sizes!Answered,
         RecordFacts!Perf!Answered, Sizes!Ask, RecordFacts!Perf!Ask, Sizes!Asked,
         RecordFacts!Perf!Asked, Sizes!Expired, RecordFacts!Perf!Expired, Sizes!Insert,
         RecordFacts!Perf!Insert, Sizes!Save, RecordFacts!Perf!Save, Sizes!Commit,
         RecordFacts!Perf!Commit, Sizes!Newest, RecordFacts!Perf!Newest, Sizes!Query,
         RecordFacts!Perf!Query, Sizes!Thread, RecordFacts!Perf!Thread, Sizes!Next,
         RecordFacts!Perf!Next
<1>4. RecordFacts!Perf!SumsAreClose => Sizes!SumsAreClose
  BY ZenonT(30) DEF Sizes!Tenths, RecordFacts!Perf!Tenths, Sizes!SumsAreClose,
         RecordFacts!Perf!SumsAreClose
<1>5. RecordFacts!Perf!SavedStays => Sizes!SavedStays
  BY ZenonT(30) DEF Sizes!Round, RecordFacts!Perf!Round, Sizes!SavedStays,
         RecordFacts!Perf!SavedStays
<1> QED
  BY <1>1, <1>2, <1>3, <1>4, <1>5, PTL DEF Sizes!Spec, RecordFacts!Perf!Spec

\* ... and the bugs of x86.
LEMMA BugsAreBugs ==
    /\ Bugs!BugAssumption => RecordFacts!Bugs!BugAssumption
    /\ Bugs!Spec => RecordFacts!Bugs!Spec
    /\ RecordFacts!Bugs!BugIsTracked => Bugs!BugIsTracked
    /\ RecordFacts!Bugs!LeadWatches => Bugs!LeadWatches
<1>1. Bugs!BugAssumption => RecordFacts!Bugs!BugAssumption
  BY ZenonT(30) DEF Bugs!Statuses, RecordFacts!Bugs!Statuses, Bugs!Entry, RecordFacts!Bugs!Entry,
         Bugs!BugAssumption, RecordFacts!Bugs!BugAssumption
<1>2. Bugs!Init => RecordFacts!Bugs!Init
  BY ZenonT(30) DEF Bugs!NoIssues, RecordFacts!Bugs!NoIssues, Bugs!Init, RecordFacts!Bugs!Init
<1>3. [Bugs!Next]_(Bugs!vars) => [RecordFacts!Bugs!Next]_(RecordFacts!Bugs!vars)
  BY ZenonT(30) DEF Bugs!Cardinality, RecordFacts!Bugs!Cardinality, Bugs!IsFiniteSet,
         RecordFacts!Bugs!IsFiniteSet, Bugs!Range, RecordFacts!Bugs!Range, Bugs!Statuses,
         RecordFacts!Bugs!Statuses, Bugs!vars, RecordFacts!Bugs!vars, Bugs!Parents,
         RecordFacts!Bugs!Parents, Bugs!Unlisted, RecordFacts!Bugs!Unlisted, Bugs!Marks,
         RecordFacts!Bugs!Marks, Bugs!NoIssues, RecordFacts!Bugs!NoIssues, Bugs!ParentFor,
         RecordFacts!Bugs!ParentFor, Bugs!Rows, RecordFacts!Bugs!Rows, Bugs!Begin,
         RecordFacts!Bugs!Begin, Bugs!Raise, RecordFacts!Bugs!Raise, Bugs!Below,
         RecordFacts!Bugs!Below, Bugs!Search, RecordFacts!Bugs!Search, Bugs!Matches,
         RecordFacts!Bugs!Matches, Bugs!Match, RecordFacts!Bugs!Match, Bugs!NewIssue,
         RecordFacts!Bugs!NewIssue, Bugs!Watched, RecordFacts!Bugs!Watched, Bugs!Taken,
         RecordFacts!Bugs!Taken, Bugs!Marked, RecordFacts!Bugs!Marked, Bugs!Fail,
         RecordFacts!Bugs!Fail, Bugs!Done, RecordFacts!Bugs!Done, Bugs!IsRow,
         RecordFacts!Bugs!IsRow, Bugs!SkipRow, RecordFacts!Bugs!SkipRow, Bugs!Create,
         RecordFacts!Bugs!Create, Bugs!Update, RecordFacts!Bugs!Update, Bugs!Mark,
         RecordFacts!Bugs!Mark, Bugs!EndStage, RecordFacts!Bugs!EndStage, Bugs!Disturb,
         RecordFacts!Bugs!Disturb, Bugs!Change, RecordFacts!Bugs!Change, Bugs!Close,
         RecordFacts!Bugs!Close, Bugs!Unassign, RecordFacts!Bugs!Unassign, Bugs!Next,
         RecordFacts!Bugs!Next
<1>4. RecordFacts!Bugs!BugIsTracked => Bugs!BugIsTracked
  BY ZenonT(30) DEF Bugs!Parents, RecordFacts!Bugs!Parents, Bugs!Unlisted,
         RecordFacts!Bugs!Unlisted, Bugs!ParentFor, RecordFacts!Bugs!ParentFor, Bugs!Rows,
         RecordFacts!Bugs!Rows, Bugs!Below, RecordFacts!Bugs!Below, Bugs!Clean,
         RecordFacts!Bugs!Clean, Bugs!Stages, RecordFacts!Bugs!Stages, Bugs!Listed,
         RecordFacts!Bugs!Listed, Bugs!Of, RecordFacts!Bugs!Of, Bugs!TakenOver,
         RecordFacts!Bugs!TakenOver, Bugs!BugIsTracked, RecordFacts!Bugs!BugIsTracked
<1>5. RecordFacts!Bugs!LeadWatches => Bugs!LeadWatches
  BY ZenonT(30) DEF Bugs!Parents, RecordFacts!Bugs!Parents, Bugs!Unlisted,
         RecordFacts!Bugs!Unlisted, Bugs!ParentFor, RecordFacts!Bugs!ParentFor, Bugs!Rows,
         RecordFacts!Bugs!Rows, Bugs!Clean, RecordFacts!Bugs!Clean, Bugs!Stages,
         RecordFacts!Bugs!Stages, Bugs!Listed, RecordFacts!Bugs!Listed, Bugs!TakenOver,
         RecordFacts!Bugs!TakenOver, Bugs!LeadWatches, RecordFacts!Bugs!LeadWatches
<1> QED
  BY <1>1, <1>2, <1>3, <1>4, <1>5, PTL DEF Bugs!Spec, RecordFacts!Bugs!Spec

\* What left a card on a sound disk is billed.
LEMMA CardsAreRight ==
    ASSUME ~DiskFails
    PROVE  UnionSpec => [](ChargesAreBilled /\ PurchasesAreBilled /\ ReturnsWhole)
<1>1. RecordFacts!Spec => [](/\ RecordFacts!ChargesAreBilled /\ RecordFacts!PurchasesAreBilled
                             /\ RecordFacts!ReturnsWhole)
  BY CardAssumption, RecordFacts!CardsHold, PTL
<1> QED
  BY <1>1, EachRecords, CardsAreCards, PTL

\* What was billed is on a statement, with simple interest and time to pay.
LEMMA StatementsAreRight ==
    UnionSpec => [](/\ Statements!BilledIsStated /\ Statements!InterestIsSimple
                    /\ Statements!TimeToPay)
<1>1. RecordFacts!Statements!StatementAssumption
  BY StatementsAreStatements, SafetyAssumption
<1>2. /\ RecordFacts!Statements!Spec => []RecordFacts!Statements!InterestIsSimple
      /\ 22 >= 10 => (RecordFacts!Statements!Spec => []RecordFacts!Statements!BilledIsStated)
      /\ 22 >= 2 /\ 10 + 30 >= 22 + 17 =>
            (RecordFacts!Statements!Spec => []RecordFacts!Statements!TimeToPay)
  BY <1>1, CardAssumption, RecordFacts!StatementsHold
<1>3. 22 >= 10 /\ 22 >= 2 /\ 10 + 30 >= 22 + 17
  OBVIOUS
<1> QED
  BY <1>2, <1>3, EachRecords, StatementsAreStatements, PTL

\* Users are locked by their failures, and who is in was not locked.
LEMMA UsersAreRight ==
    UnionSpec => [](part = "users" =>
                        Users!LockTakesMax /\ Users!LockedStayOut /\ Users!BoundIsOwned)
<1>1. RecordFacts!Users!UserAssumption
  BY UsersAreUsers, SafetyAssumption
<1>2. part = "users" /\ UnionSpec =>
          [](Users!LockTakesMax /\ Users!LockedStayOut /\ Users!BoundIsOwned)
  BY <1>1, CardAssumption, UsersBehave, UsersAreUsers, RecordFacts!UsersHold, PTL
<1>3. ~(part = "users") /\ [UnionNext]_unionVars => ~(part = "users")'
  BY OneMoves
<1> QED
  BY <1>2, <1>3, PTL DEF UnionSpec

\* The sizes that are recorded are near what was told, and stay.
LEMMA SizesAreRight ==
    UnionSpec => [](part = "sizes" => Sizes!SumsAreClose /\ Sizes!SavedStays)
<1>1. RecordFacts!Perf!PerfAssumption
  BY SizesArePerf, SafetyAssumption
<1>2. part = "sizes" /\ UnionSpec => [](Sizes!SumsAreClose /\ Sizes!SavedStays)
  BY <1>1, CardAssumption, SizesBehave, SizesArePerf, RecordFacts!PerfHolds, PTL
<1>3. ~(part = "sizes") /\ [UnionNext]_unionVars => ~(part = "sizes")'
  BY OneMoves
<1> QED
  BY <1>2, <1>3, PTL DEF UnionSpec

\* Bugs are tracked, with the leads of their contacts.
LEMMA BugsAreRight ==
    UnionSpec => [](part = "bugs" => Bugs!BugIsTracked /\ Bugs!LeadWatches)
<1>1. RecordFacts!Bugs!BugAssumption
  BY BugsAreBugs, SafetyAssumption
<1>2. part = "bugs" /\ UnionSpec => [](Bugs!BugIsTracked /\ Bugs!LeadWatches)
  BY <1>1, CardAssumption, BugsBehave, BugsAreBugs, RecordFacts!BugsHold, PTL
<1>3. ~(part = "bugs") /\ [UnionNext]_unionVars => ~(part = "bugs")'
  BY OneMoves
<1> QED
  BY <1>2, <1>3, PTL DEF UnionSpec

-----------------------------------------------------------------------------
(* Other constants of the same components: counts and architectures, ... *)

OtherRecords == INSTANCE RecordsProofs WITH
    Customer <- {u1, u2}, Regulars <- {u1, u2}, UserObj <- {o1}, NoCustomer <- "",
    MaxLogins <- 2, MaxStores <- 3,
    StatementDay <- 22, MonthDays <- 30, PayDay <- 10, DayRate <- 1, LastBillDay <- 85,
    MaxStatements <- 2,
    PerfItem <- {"bw"}, Counts <- {"bw"}, PerfHosts <- 2,
    Told <- [i \in {"bw"} |-> {[n |-> 2, unit |-> "num"]}],
    Kilo <- 4, Hour <- 1, LastTick <- 3, Starts <- {0, 1},
    TrackedBug <- {"a", "b"}, NumbersIn <- BugNumbers, BugFlag <- {"f", "g"},
    ParentOf <- [f \in {"f", "g"} |-> f], Contact <- {"q", "r"},
    LeadOf <- [q \in {"q", "r"} |-> IF q = "q" THEN "q" ELSE "nobody"],
    NoContact <- "nobody", BugCommands <- {"arch"}, MaxBugRuns <- 3, MaxBugChanges <- 1,
    MaxBugFaults <- 1

\* The counts that the cluster records are those of RecordsProofs ...
LEMMA NumbersArePerf ==
    /\ Numbers!PerfAssumption => OtherRecords!Perf!PerfAssumption
    /\ Numbers!Spec => OtherRecords!Perf!Spec
    /\ OtherRecords!Perf!BytesAreNothing => Numbers!BytesAreNothing
<1>1. Numbers!PerfAssumption => OtherRecords!Perf!PerfAssumption
  BY ZenonT(30) DEF Numbers!IsFiniteSet, OtherRecords!Perf!IsFiniteSet, Numbers!PerfAssumption,
         OtherRecords!Perf!PerfAssumption
<1>2. Numbers!Init => OtherRecords!Perf!Init
  BY ZenonT(30) DEF Numbers!Round, OtherRecords!Perf!Round, Numbers!NoOne, OtherRecords!Perf!NoOne,
         Numbers!NoThread, OtherRecords!Perf!NoThread, Numbers!Init, OtherRecords!Perf!Init
<1>3. [Numbers!Next]_(Numbers!vars) => [OtherRecords!Perf!Next]_(OtherRecords!Perf!vars)
  BY ZenonT(30) DEF Numbers!vars, OtherRecords!Perf!vars, Numbers!Round, OtherRecords!Perf!Round,
         Numbers!NoOne, OtherRecords!Perf!NoOne, Numbers!Db, OtherRecords!Perf!Db, Numbers!Cut,
         OtherRecords!Perf!Cut, Numbers!Adds, OtherRecords!Perf!Adds, Numbers!Converted,
         OtherRecords!Perf!Converted, Numbers!Value, OtherRecords!Perf!Value, Numbers!Tenths,
         OtherRecords!Perf!Tenths, Numbers!Tick, OtherRecords!Perf!Tick, Numbers!Collect,
         OtherRecords!Perf!Collect, Numbers!Goto, OtherRecords!Perf!Goto, Numbers!Answered,
         OtherRecords!Perf!Answered, Numbers!Ask, OtherRecords!Perf!Ask, Numbers!Asked,
         OtherRecords!Perf!Asked, Numbers!Expired, OtherRecords!Perf!Expired, Numbers!Insert,
         OtherRecords!Perf!Insert, Numbers!Save, OtherRecords!Perf!Save, Numbers!Commit,
         OtherRecords!Perf!Commit, Numbers!Newest, OtherRecords!Perf!Newest, Numbers!Query,
         OtherRecords!Perf!Query, Numbers!Thread, OtherRecords!Perf!Thread, Numbers!Next,
         OtherRecords!Perf!Next
<1>4. OtherRecords!Perf!BytesAreNothing => Numbers!BytesAreNothing
  BY ZenonT(30) DEF Numbers!BytesAreNothing, OtherRecords!Perf!BytesAreNothing
<1> QED
  BY <1>1, <1>2, <1>3, <1>4, PTL DEF Numbers!Spec, OtherRecords!Perf!Spec

\* ... and so are the bugs of the architectures.
LEMMA ArchesAreBugs ==
    /\ Arches!BugAssumption => OtherRecords!Bugs!BugAssumption
    /\ Arches!Spec => OtherRecords!Bugs!Spec
    /\ OtherRecords!Bugs!BugIsTracked => Arches!BugIsTracked
    /\ OtherRecords!Bugs!RplIsMarked => Arches!RplIsMarked
<1>1. Arches!BugAssumption => OtherRecords!Bugs!BugAssumption
  BY ZenonT(30) DEF Arches!Statuses, OtherRecords!Bugs!Statuses, Arches!Entry,
         OtherRecords!Bugs!Entry, Arches!BugAssumption, OtherRecords!Bugs!BugAssumption
<1>2. Arches!Init => OtherRecords!Bugs!Init
  BY ZenonT(30) DEF Arches!NoIssues, OtherRecords!Bugs!NoIssues, Arches!Init,
         OtherRecords!Bugs!Init
<1>3. [Arches!Next]_(Arches!vars) => [OtherRecords!Bugs!Next]_(OtherRecords!Bugs!vars)
  BY ZenonT(30) DEF Arches!Cardinality, OtherRecords!Bugs!Cardinality, Arches!IsFiniteSet,
         OtherRecords!Bugs!IsFiniteSet, Arches!Range, OtherRecords!Bugs!Range, Arches!Statuses,
         OtherRecords!Bugs!Statuses, Arches!vars, OtherRecords!Bugs!vars, Arches!Parents,
         OtherRecords!Bugs!Parents, Arches!Unlisted, OtherRecords!Bugs!Unlisted, Arches!Marks,
         OtherRecords!Bugs!Marks, Arches!NoIssues, OtherRecords!Bugs!NoIssues, Arches!ParentFor,
         OtherRecords!Bugs!ParentFor, Arches!Rows, OtherRecords!Bugs!Rows, Arches!Begin,
         OtherRecords!Bugs!Begin, Arches!Raise, OtherRecords!Bugs!Raise, Arches!Below,
         OtherRecords!Bugs!Below, Arches!Search, OtherRecords!Bugs!Search, Arches!Matches,
         OtherRecords!Bugs!Matches, Arches!Match, OtherRecords!Bugs!Match, Arches!NewIssue,
         OtherRecords!Bugs!NewIssue, Arches!Watched, OtherRecords!Bugs!Watched, Arches!Taken,
         OtherRecords!Bugs!Taken, Arches!Marked, OtherRecords!Bugs!Marked, Arches!Fail,
         OtherRecords!Bugs!Fail, Arches!Done, OtherRecords!Bugs!Done, Arches!IsRow,
         OtherRecords!Bugs!IsRow, Arches!SkipRow, OtherRecords!Bugs!SkipRow, Arches!Create,
         OtherRecords!Bugs!Create, Arches!Update, OtherRecords!Bugs!Update, Arches!Mark,
         OtherRecords!Bugs!Mark, Arches!EndStage, OtherRecords!Bugs!EndStage, Arches!Disturb,
         OtherRecords!Bugs!Disturb, Arches!Change, OtherRecords!Bugs!Change, Arches!Close,
         OtherRecords!Bugs!Close, Arches!Unassign, OtherRecords!Bugs!Unassign, Arches!Next,
         OtherRecords!Bugs!Next
<1>4. OtherRecords!Bugs!BugIsTracked => Arches!BugIsTracked
  BY ZenonT(30) DEF Arches!Parents, OtherRecords!Bugs!Parents, Arches!Unlisted,
         OtherRecords!Bugs!Unlisted, Arches!ParentFor, OtherRecords!Bugs!ParentFor, Arches!Rows,
         OtherRecords!Bugs!Rows, Arches!Below, OtherRecords!Bugs!Below, Arches!Clean,
         OtherRecords!Bugs!Clean, Arches!Stages, OtherRecords!Bugs!Stages, Arches!Listed,
         OtherRecords!Bugs!Listed, Arches!Of, OtherRecords!Bugs!Of, Arches!TakenOver,
         OtherRecords!Bugs!TakenOver, Arches!BugIsTracked, OtherRecords!Bugs!BugIsTracked
<1>5. OtherRecords!Bugs!RplIsMarked => Arches!RplIsMarked
  BY ZenonT(30) DEF Arches!Range, OtherRecords!Bugs!Range, Arches!Parents,
         OtherRecords!Bugs!Parents, Arches!Unlisted, OtherRecords!Bugs!Unlisted, Arches!Marks,
         OtherRecords!Bugs!Marks, Arches!ParentFor, OtherRecords!Bugs!ParentFor, Arches!Rows,
         OtherRecords!Bugs!Rows, Arches!Below, OtherRecords!Bugs!Below, Arches!Clean,
         OtherRecords!Bugs!Clean, Arches!Stages, OtherRecords!Bugs!Stages, Arches!Listed,
         OtherRecords!Bugs!Listed, Arches!TakenOver, OtherRecords!Bugs!TakenOver,
         Arches!RplIsMarked, OtherRecords!Bugs!RplIsMarked
<1> QED
  BY <1>1, <1>2, <1>3, <1>4, <1>5, PTL DEF Arches!Spec, OtherRecords!Bugs!Spec

\* A count that is recorded as bytes is nobody's answer.
LEMMA NumbersAreRight ==
    UnionSpec => [](part = "counts" => Numbers!BytesAreNothing)
<1>1. OtherRecords!Perf!PerfAssumption
  BY NumbersArePerf, SafetyAssumption
<1>2. part = "counts" /\ UnionSpec => [](Numbers!BytesAreNothing)
  BY <1>1, CardAssumption, NumbersBehave, NumbersArePerf, OtherRecords!PerfHolds, PTL
<1>3. ~(part = "counts") /\ [UnionNext]_unionVars => ~(part = "counts")'
  BY OneMoves
<1> QED
  BY <1>2, <1>3, PTL DEF UnionSpec

\* Bugs are tracked by architectures too, with all the marks.
LEMMA ArchesAreRight ==
    UnionSpec => [](part = "arches" => Arches!BugIsTracked /\ Arches!RplIsMarked)
<1>1. OtherRecords!Bugs!BugAssumption
  BY ArchesAreBugs, SafetyAssumption
<1>2. part = "arches" /\ UnionSpec => [](Arches!BugIsTracked /\ Arches!RplIsMarked)
  BY <1>1, CardAssumption, ArchesBehave, ArchesAreBugs, OtherRecords!BugsHold, PTL
<1>3. ~(part = "arches") /\ [UnionNext]_unionVars => ~(part = "arches")'
  BY OneMoves
<1> QED
  BY <1>2, <1>3, PTL DEF UnionSpec

-----------------------------------------------------------------------------
(* ... and the list of cases of one job. *)

OtherPreps == INSTANCE PreparationProofs WITH
    PRs <- {pr1, pr12}, Patches <- {fix}, Changes <- {chg}, Good <- {pr1, pr12, chg},
    Missing <- {}, Branch <- Branches, StartBranch <- "rhel", MasterBranch <- "master",
    Clones <- 1, Retries <- 1, Polls <- 1, GitFails <- TRUE, changed <- files,
    Test <- {t1, t2, t3, t4, new1, new2}, Pattern <- {virsh, dump, list, vol},
    Hits <- Matched, Base <- {t1, t2, t3, t4}, Repo <- {rep1, rep2}, RepoAdds <- Added,
    ChangedOnly <- {dump, vol}, Slice <- Slices, PlanOptions <- AllOptions,
    Additional <- 1, BootFails <- TRUE, Blacklist <- Black, NoOnly <- noonly,
    MainVM <- mvm, ExtraVMs <- {xvm}, V2vVMs <- {vvm}, PrepOptions <- PrepRuns,
    MaxPreps <- 2, PrepKills <- 1, PrepFaults <- 1,
    RunJob <- {j1, j2}, RunStarts <- Edits,
    FlagParam <- {"flag"}, TextParam <- {"opt", "report"}, WipedParam <- {"report"},
    TestFile <- {"f", "g"}, Word <- {"a", "b", "v", "w"},
    OwnReplaces <- <<[files |-> {"f"}, from |-> "v", to |-> "w"]>>,
    Product <- {"p", "q"}, PackageName <- {"a", "b"}, Build <- Builds,
    NameOf <- BuildName, VersionOf <- BuildVersion, Watched <- {"a", "b"},
    FirstTagged <- FirstBuilds, LateTagged <- LateBuilds, FeedFails <- TRUE,
    LinkCase <- {"a", "b", "c"}, PR <- {"p", "q"}, Desc <- {"d", "e"}, Selected <- {"d"},
    LinkJob <- {"one"}, PrOf <- [i \in {"one"} |-> "p"], MaxSyncs <- 2, MaxEdits <- 1,
    Adds <- LinkAdds, Dels <- LinkDels, NoPR <- "none", LinkFails <- TRUE

\* It is one of PreparationProofs.
LEMMA LinkedAreLinks ==
    /\ Linked!CaselinkAssumption => OtherPreps!Links!CaselinkAssumption
    /\ Linked!Spec => OtherPreps!Links!Spec
    /\ OtherPreps!Links!InSync => Linked!InSync
    /\ OtherPreps!Links!PullIsListed => Linked!PullIsListed
<1>1. Linked!CaselinkAssumption => OtherPreps!Links!CaselinkAssumption
  BY ZenonT(30) DEF Linked!CaselinkAssumption, OtherPreps!Links!CaselinkAssumption
<1>2. Linked!Init => OtherPreps!Links!Init
  BY ZenonT(30) DEF Linked!None, OtherPreps!Links!None, Linked!Phases, OtherPreps!Links!Phases,
         Linked!Sends, OtherPreps!Links!Sends, Linked!Nothing, OtherPreps!Links!Nothing,
         Linked!Idle, OtherPreps!Links!Idle, Linked!Listed, OtherPreps!Links!Listed, Linked!Init,
         OtherPreps!Links!Init
<1>3. [Linked!Next]_(Linked!vars) => [OtherPreps!Links!Next]_(OtherPreps!Links!vars)
  BY ZenonT(30) DEF Linked!vars, OtherPreps!Links!vars, Linked!None, OtherPreps!Links!None,
         Linked!Phases, OtherPreps!Links!Phases, Linked!Sends, OtherPreps!Links!Sends,
         Linked!Nothing, OtherPreps!Links!Nothing, Linked!Idle, OtherPreps!Links!Idle,
         Linked!Absent, OtherPreps!Links!Absent, Linked!Listed, OtherPreps!Links!Listed,
         Linked!Kept, OtherPreps!Links!Kept, Linked!Merged, OtherPreps!Links!Merged,
         Linked!Changed, OtherPreps!Links!Changed, Linked!Merge, OtherPreps!Links!Merge,
         Linked!Close, OtherPreps!Links!Close, Linked!Edit, OtherPreps!Links!Edit, Linked!Running,
         OtherPreps!Links!Running, Linked!Found, OtherPreps!Links!Found, Linked!Begin,
         OtherPreps!Links!Begin, Linked!End, OtherPreps!Links!End, Linked!Collect,
         OtherPreps!Links!Collect, Linked!Unmerged, OtherPreps!Links!Unmerged, Linked!Closed,
         OtherPreps!Links!Closed, Linked!NewInPR, OtherPreps!Links!NewInPR, Linked!DeletedInPR,
         OtherPreps!Links!DeletedInPR, Linked!MergedCases, OtherPreps!Links!MergedCases,
         Linked!NewAreFree, OtherPreps!Links!NewAreFree, Linked!DeletedAreKnown,
         OtherPreps!Links!DeletedAreKnown, Linked!MergedAreSame, OtherPreps!Links!MergedAreSame,
         Linked!Leftover, OtherPreps!Links!Leftover, Linked!Concerned, OtherPreps!Links!Concerned,
         Linked!Planned, OtherPreps!Links!Planned, Linked!Plan, OtherPreps!Links!Plan,
         Linked!Accepted, OtherPreps!Links!Accepted, Linked!After, OtherPreps!Links!After,
         Linked!Send, OtherPreps!Links!Send, Linked!NextKind, OtherPreps!Links!NextKind,
         Linked!Next, OtherPreps!Links!Next
<1>4. OtherPreps!Links!InSync => Linked!InSync
  BY ZenonT(30) DEF Linked!None, OtherPreps!Links!None, Linked!Absent, OtherPreps!Links!Absent,
         Linked!Listed, OtherPreps!Links!Listed, Linked!Kept, OtherPreps!Links!Kept,
         Linked!Unmerged, OtherPreps!Links!Unmerged, Linked!MergedCases,
         OtherPreps!Links!MergedCases, Linked!Complete, OtherPreps!Links!Complete,
         Linked!Forgotten, OtherPreps!Links!Forgotten, Linked!InSync, OtherPreps!Links!InSync
<1>5. OtherPreps!Links!PullIsListed => Linked!PullIsListed
  BY ZenonT(30) DEF Linked!None, OtherPreps!Links!None, Linked!Absent, OtherPreps!Links!Absent,
         Linked!Listed, OtherPreps!Links!Listed, Linked!Kept, OtherPreps!Links!Kept,
         Linked!Unmerged, OtherPreps!Links!Unmerged, Linked!DeletedInPR,
         OtherPreps!Links!DeletedInPR, Linked!Complete, OtherPreps!Links!Complete,
         Linked!PullIsListed, OtherPreps!Links!PullIsListed
<1> QED
  BY <1>1, <1>2, <1>3, <1>4, <1>5, PTL DEF Linked!Spec, OtherPreps!Links!Spec

\* The list is right after the runs of one job, too.
LEMMA LinkedAreRight ==
    UnionSpec => [](part = "linked" => Linked!InSync /\ Linked!PullIsListed)
<1>1. OtherPreps!Links!CaselinkAssumption
  BY LinkedAreLinks, SafetyAssumption
<1>2. part = "linked" /\ UnionSpec => [](Linked!InSync /\ Linked!PullIsListed)
  BY <1>1, LinkedBehaves, LinkedAreLinks, OtherPreps!LinksHold, PTL
<1>3. ~(part = "linked") /\ [UnionNext]_unionVars => ~(part = "linked")'
  BY OneMoves
<1> QED
  BY <1>2, <1>3, PTL DEF UnionSpec

\* What several calls keep in tables and files is consistent where the disk does not
\* fail: bills and purchases, statements, locks, the list of cases, the sheet of
\* packages, the data of the cluster and the issues of bugs.
THEOREM RecordsAreRightAlways == ~DiskFails => (UnionSpec => []RecordsAreRight)
<1>1. ASSUME ~DiskFails PROVE UnionSpec => []RecordsAreRight
  BY <1>1, CardsAreRight, StatementsAreRight, FeedIsRight, UsersAreRight, LinksAreRight,
     LinkedAreRight, SizesAreRight, NumbersAreRight, BugsAreRight, ArchesAreRight,
     PTL DEF RecordsAreRight
<1> QED
  BY <1>1
=============================================================================
