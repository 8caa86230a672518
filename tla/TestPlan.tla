------------------------------ MODULE TestPlan ------------------------------
(***************************************************************************)
(* RunnerBase.prepare_tests: which of the tests a framework lists are run. *)
(* Patterns of --only, --no and --slice, the blacklist, and --only-change, *)
(* which lists the tests a second time with every changed repository on    *)
(* its master branch, and then goes back.                                  *)
(***************************************************************************)
EXTENDS Integers, FiniteSets

CONSTANTS
    Test,        \* tests that may be listed
    Pattern,     \* patterns
    Hits,        \* pattern -> tests it matches (utils.test_match)
    Base,        \* tests listed whatever the branches are
    Repo,        \* repositories with a <repo>_current_branch parameter
    Adds,        \* repository -> tests its change adds
    ChangedOnly, \* patterns of change_to_only: first lines of changed cfg files
    Slice,       \* slice -> patterns, as the slice file has it
    Options,     \* the choices of --only, --no, --slice and --only-change to run with
    Additional,  \* additional_cases_num
    MayFail      \* whether git, the network and bootstrap may fail

CONSTANTS
    Blacklist, \* entries: the tests one matches, and its skip-test
    NoOnly     \* no only at all, which is not the same as no pattern

PlanAssumption ==
    /\ IsFiniteSet(Test) /\ Base \subseteq Test /\ Hits \in [Pattern -> SUBSET Test]
    /\ Adds \in [Repo -> SUBSET (Test \ Base)] /\ ChangedOnly \subseteq Pattern
    /\ Slice \in [DOMAIN Slice -> SUBSET Pattern]
    /\ Blacklist \subseteq [test : SUBSET Test, skip : BOOLEAN]
    /\ \A P \in SUBSET Pattern : P # NoOnly
    /\ \A o \in Options : /\ o.only = NoOnly \/ o.only \subseteq Pattern
                          /\ o.no \subseteq Pattern /\ o.only_change \in BOOLEAN
    /\ IsFiniteSet(Blacklist) /\ Additional \in Nat /\ MayFail \in BOOLEAN

VARIABLES
    planning, \* where prepare_tests is
    params,   \* the options
    onlys,    \* self.onlys
    nos,      \* self.nos
    branches, \* repository -> the branch it is on
    stuck,    \* repositories of which a checkout failed
    with,     \* cases_with_change
    without,  \* cases_without_change
    tests,    \* self.tests
    skips,    \* test -> SKIP results the report has for it
    ignores   \* test -> entries of ignore_failures

vars == <<planning, params, onlys, nos, branches, stuck, with, without, tests, skips, ignores>>

TypeOK ==
    /\ planning \in {"params", "slice", "change", "list", "with", "master", "bootstrap", "without",
               "back", "rebootstrap", "select", "check", "done", "refused", "raised"}
    /\ params \in Options
    /\ (onlys = NoOnly \/ onlys \subseteq Pattern) /\ nos \subseteq Pattern
    /\ branches \in [Repo -> {"patch", "master"}] /\ stuck \subseteq Repo
    /\ with \subseteq Test /\ without \subseteq Test /\ tests \subseteq Test
    /\ skips \in [Test -> Nat] /\ ignores \in [Test -> Nat]

Init ==
    /\ planning = "params" /\ params \in Options
    /\ onlys = NoOnly /\ nos = {}
    /\ branches = [r \in Repo |-> "patch"] /\ stuck = {}
    /\ with = {} /\ without = {} /\ tests = {}
    /\ skips = [t \in Test |-> 0] /\ ignores = [t \in Test |-> 0]

-----------------------------------------------------------------------------

ReadParams ==
    /\ planning = "params"
    /\ onlys' = params.only /\ nos' = {}
    /\ planning' = "slice"
    /\ UNCHANGED <<params, branches, stuck, with, without, tests, skips, ignores>>

\* A slice that is asked for adds its patterns to only; 'other' adds those of all
\* slices to no. (Mutant: it adds the names of the slices.)
AsOnly  == UNION {Slice[s] : s \in params.slice \cap DOMAIN Slice}
BugOther == IF "other" \in params.slice \ DOMAIN Slice THEN DOMAIN Slice ELSE {}
Other   == IF "other" \in params.slice \ DOMAIN Slice
             THEN UNION {Slice[s] : s \in DOMAIN Slice} ELSE {}
ReadSlice ==
    /\ planning = "slice"
    /\ onlys' = IF params.slice \cap DOMAIN Slice = {} THEN onlys
                ELSE IF onlys = NoOnly THEN AsOnly ELSE onlys \cup AsOnly
    /\ nos' = nos \cup Other \cup params.no
    /\ planning' = "change"
    /\ UNCHANGED <<params, branches, stuck, with, without, tests, skips, ignores>>
SliceFails ==
    /\ MayFail /\ planning = "slice" /\ params.slice # {}
    /\ planning' = "raised"
    /\ UNCHANGED <<params, onlys, nos, branches, stuck, with, without, tests, skips, ignores>>

ReadChange ==
    /\ planning = "change"
    /\ IF params.only_change
         THEN /\ onlys' = IF onlys = NoOnly THEN ChangedOnly ELSE onlys \cap ChangedOnly
              /\ planning' = "with"
         ELSE planning' = "list" /\ UNCHANGED onlys
    /\ UNCHANGED <<params, nos, branches, stuck, with, without, tests, skips, ignores>>

-----------------------------------------------------------------------------
(* get_tests. *)

Exists(b) == Base \cup UNION {Adds[r] : r \in {q \in Repo : b[q] = "patch"}}
Any(patts) == UNION {Hits[p] : p \in patts}

Filtered(b) ==
    IF onlys = {} THEN {}
    ELSE (IF onlys = NoOnly THEN Exists(b) ELSE Exists(b) \cap Any(onlys)) \ Any(nos)

Entries(t, skip) == {e \in Blacklist : t \in e.test /\ e.skip = skip}

\* (Mutants: entries that only mark a test take it off the list; entries are
\* reported for whatever test they match.)
BugBlacked(S) == {t \in S : \E e \in Blacklist : t \in e.test}
Blacked(S) == {t \in S : Entries(t, TRUE) # {}}
BugReports(S) == [t \in Test |-> skips[t] + Cardinality(Entries(t, TRUE))]
Reports(S) == [t \in Test |-> skips[t] + IF t \in S THEN Cardinality(Entries(t, TRUE)) ELSE 0]

GetTests ==
    /\ skips' = Reports(Filtered(branches))
    /\ ignores' = [t \in Test |-> ignores[t]
                      + IF t \in Filtered(branches) THEN Cardinality(Entries(t, FALSE)) ELSE 0]
Left == Filtered(branches) \ Blacked(Filtered(branches))

ListTests ==
    /\ planning = "list"
    /\ GetTests /\ tests' = Left /\ planning' = "check"
    /\ UNCHANGED <<params, onlys, nos, branches, stuck, with, without>>

-----------------------------------------------------------------------------
(* get_tests_for_only_change. *)

ListWith ==
    /\ planning = "with"
    /\ GetTests /\ with' = Left /\ planning' = "master"
    /\ UNCHANGED <<params, onlys, nos, branches, stuck, without, tests>>

\* What _checkout_to_branch returns is not looked at.
Checkouts(to) ==
    \E F \in IF MayFail THEN SUBSET Repo ELSE {{}} :
        /\ branches' = [r \in Repo |-> IF r \in F THEN branches[r] ELSE to]
        /\ stuck' = stuck \cup F

ToMaster ==
    /\ planning = "master"
    /\ Checkouts("master") /\ planning' = "bootstrap"
    /\ UNCHANGED <<params, onlys, nos, with, without, tests, skips, ignores>>

\* (Mutant: it goes on without listing again.)
BugListWithout ==
    /\ planning = "without"
    /\ planning' = "back"
    /\ UNCHANGED <<params, onlys, nos, branches, stuck, with, without, tests, skips, ignores>>
ListWithout ==
    /\ planning = "without"
    /\ GetTests /\ without' = Left /\ planning' = "back"
    /\ UNCHANGED <<params, onlys, nos, branches, stuck, with, tests>>

\* (Mutant: the repositories stay on master.)
BugBack ==
    /\ planning = "back"
    /\ planning' = "rebootstrap"
    /\ UNCHANGED <<params, onlys, nos, branches, stuck, with, without, tests, skips, ignores>>
Back ==
    /\ planning = "back"
    /\ Checkouts("patch") /\ planning' = "rebootstrap"
    /\ UNCHANGED <<params, onlys, nos, with, without, tests, skips, ignores>>

Bootstrap ==
    /\ \/ planning = "bootstrap" /\ planning' = "without"
       \/ planning = "rebootstrap" /\ planning' = "select"
       \/ MayFail /\ planning \in {"bootstrap", "rebootstrap"} /\ planning' = "raised"
    /\ UNCHANGED <<params, onlys, nos, branches, stuck, with, without, tests, skips, ignores>>

New == with \ without
LeftCases == with \ New
Least(a, b) == IF a < b THEN a ELSE b
Select ==
    /\ planning = "select"
    /\ \E S \in SUBSET LeftCases :
           /\ Cardinality(S) = Least(Additional, Cardinality(LeftCases))
           /\ tests' = New \cup S
    /\ planning' = "check"
    /\ UNCHANGED <<params, onlys, nos, branches, stuck, with, without, skips, ignores>>

\* Without a test it raises.
Check ==
    /\ planning = "check"
    /\ planning' = IF tests = {} THEN "refused" ELSE "done"
    /\ UNCHANGED <<params, onlys, nos, branches, stuck, with, without, tests, skips, ignores>>

Next ==
    \/ ReadParams \/ ReadSlice \/ SliceFails \/ ReadChange \/ ListTests
    \/ ListWith \/ ToMaster \/ Bootstrap \/ ListWithout \/ Back \/ Select \/ Check

Spec == Init /\ [][Next]_vars

-----------------------------------------------------------------------------
(* What the code keeps. *)

Ended == planning \in {"done", "refused"}

\* What --only, --slice and --no leave, as the options say it.
Asked(b) ==
    {t \in Exists(b) :
        /\ params.only # NoOnly \/ params.slice \cap DOMAIN Slice # {} =>
               \E p \in Pattern : t \in Hits[p]
                   /\ p \in (IF params.only = NoOnly THEN {} ELSE params.only) \cup AsOnly
        /\ \A p \in params.no \cup Other : t \notin Hits[p]}

\* Without --only-change every test asked for is run or reported as skipped, and
\* none is both; entries that only mark a test keep none from running.
RunOrSkipped ==
    Ended /\ ~params.only_change =>
        /\ tests \cup {t \in Test : skips[t] > 0} = Asked(branches)
        /\ \A t \in tests : skips[t] = 0

\* A test is reported once for each entry that skips it, twice with --only-change
\* if it is there on both branches, and a test that is run is not reported at all.
ReportedPerEntry ==
    Ended => \A t \in Test :
        /\ skips[t] <= (IF params.only_change THEN 2 ELSE 1) * Cardinality(Entries(t, TRUE))
        /\ t \in tests => skips[t] = 0
        /\ t \notin Asked([r \in Repo |-> "patch"]) => skips[t] = 0

\* With --only-change, if git did what it was told, the cases that exist with the
\* change alone are all run, and the repositories have the change again.
NewCasesAreRun ==
    planning = "done" /\ params.only_change /\ stuck = {} =>
        /\ branches = [r \in Repo |-> "patch"]
        /\ \A t \in Test \ Base :
               t \in Filtered(branches) /\ Entries(t, TRUE) = {} => t \in tests

\* No more than the additional cases come with them.
FewOldCases == Ended /\ params.only_change /\ stuck = {} =>
    Cardinality(tests \cap Base) <= Additional

=============================================================================
