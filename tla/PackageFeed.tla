---------------------------- MODULE PackageFeed ----------------------------
(***************************************************************************)
(* The yum repositories of the CI (commands/update_repo.py).  A run looks  *)
(* which builds brew tags for each product, which of them the sheet        *)
(* 'Packages Info' does not have yet, and starts a thread for each of      *)
(* these.  A thread puts the packages into the repositories and writes its *)
(* rows to the sheet, by row number, all threads through one connection.   *)
(* The repository metadata are made at the end.                            *)
(***************************************************************************)
EXTENDS FiniteSets, Integers, Sequences

CONSTANTS
    Product, Name, Build,
    NameOf,     \* build -> its package
    VersionOf,  \* build -> sequence of numbers; the release does not count
    Watched,    \* names of packages with a watcher
    First, Late, \* product -> builds that brew tags at first, and later (bound)
    Fails       \* whether commands and requests may fail

FeedAssumption ==
    /\ NameOf \in [Build -> Name] /\ VersionOf \in [Build -> Seq(Nat)] /\ Watched \subseteq Name
    /\ {First, Late} \subseteq [Product -> SUBSET Build]
    /\ Fails \in BOOLEAN /\ IsFiniteSet(Build) /\ IsFiniteSet(Product)

VARIABLES
    tagged,   \* product -> builds with one of its brew tags
    sheet,    \* rows: a build and a product, in the order of their numbers
    stale,    \* products with a package in the repository that its metadata lack
    updater,  \* the run: where it is and what it knows
    update,   \* build -> its thread: where it is and the rows it writes
    crossed   \* builds written while another thread had read but not written

vars == <<tagged, sheet, stale, updater, update, crossed>>

Old  == "scratch"  \* a row of no interest, as recorded for a scratch build
Rows == [build : Build \cup {Old}, product : Product]
Stages == {"none", "packages", "rows", "write", "mail", "done", "dead"}
Phases == {"ended", "look", "threads", "wait", "index", "raised"}

Orders(S) == {s \in [1..Cardinality(S) -> S] : \A i, j \in DOMAIN s : i # j => s[i] # s[j]}
NoThread == [at |-> "none", rows |-> 0, for |-> {}]
NoUpdate == [b \in Build |-> NoThread]
IdleRun  == [at |-> "ended", todo |-> {}, list |-> [b \in Build |-> {}], odd |-> {}]

TypeOK ==
    /\ tagged \in [Product -> SUBSET Build]
    /\ \A i \in 1..Len(sheet) : sheet[i] \in Rows
    /\ stale \subseteq Product /\ crossed \subseteq Build
    /\ updater.at \in Phases /\ updater.odd \subseteq Product
    /\ updater.list \in [Build -> SUBSET Product]
    /\ \A b \in Build : /\ update[b].at \in Stages /\ update[b].rows \in 0..Len(sheet)
                        /\ update[b].for \subseteq Product

Init ==
    /\ tagged = First /\ stale = {}
    /\ \E p \in Product : sheet \in {<<>>, <<[build |-> Old, product |-> p]>>}
    /\ updater = IdleRun /\ update = NoUpdate /\ crossed = {}

-----------------------------------------------------------------------------
(* Versions, and which build of a package is the latest. *)

\* package.Package.__gt__: lists of numbers, the first difference decides.
Newer(a, b) ==
    LET v == VersionOf[a]
        w == VersionOf[b]
    IN \E i \in 1..Len(v) : /\ \A k \in 1..i - 1 : k <= Len(w) /\ v[k] = w[k]
                            /\ i <= Len(w) => v[i] > w[i]

\* Of builds with the same version the one that is met first, of several tags.
\* (Mutant: any of them.)
BugLatest(S, n) == {b \in S : NameOf[b] = n}
Latest(S, n)    == {b \in S : NameOf[b] = n /\ \A a \in S : NameOf[a] = n => ~Newer(a, b)}

\* (Mutant: the last row is looked at.)
BugRecorded(p) == {b \in Build : sheet # <<>> /\ sheet[Len(sheet)] = [build |-> b, product |-> p]}
Recorded(p)    == {b \in Build : \E i \in 1..Len(sheet) : sheet[i] = [build |-> b, product |-> p]}

-----------------------------------------------------------------------------
(* The run. *)

Live    == {b \in Build : update[b].at \notin {"none", "done", "dead"}}
Tag(p, b) == /\ b \in Late[p] \ tagged[p] /\ tagged' = [tagged EXCEPT ![p] = @ \cup {b}]
             /\ UNCHANGED <<sheet, stale, updater, update, crossed>>

\* A process lives as long as its threads do.
Begin ==
    /\ updater.at \in {"ended", "raised"} /\ Live = {}
    /\ updater' = [IdleRun EXCEPT !.at = "look", !.todo = Product]
    /\ update' = NoUpdate /\ crossed' = {}
    /\ UNCHANGED <<tagged, sheet, stale>>

Raise == updater' = [updater EXCEPT !.at = "raised"]

\* get_latest_packages and get_updated_packages of one product
Look(p) ==
    /\ updater.at = "look" /\ p \in updater.todo
    /\ \/ \E pick \in [Watched -> Build \cup {Old}] :
              /\ \A n \in Watched : IF Latest(tagged[p], n) = {} THEN pick[n] = Old
                                                                ELSE pick[n] \in Latest(tagged[p], n)
              /\ LET new == {pick[n] : n \in Watched} \ (Recorded(p) \cup {Old})
                 IN updater' = [updater EXCEPT !.todo = @ \ {p},
                                !.list = [b \in Build |-> IF b \in new THEN @[b] \cup {p} ELSE @[b]]]
       \/ Fails /\ Raise
    /\ UNCHANGED <<tagged, sheet, stale, update, crossed>>

\* Nothing to update ends the run.
Looked ==
    /\ updater.at = "look" /\ updater.todo = {}
    /\ updater' = [updater EXCEPT !.at = IF \A b \in Build : updater.list[b] = {} THEN "ended" ELSE "threads"]
    /\ UNCHANGED <<tagged, sheet, stale, update, crossed>>

\* updated_repos is a symmetric difference; get_build_info returns nothing if brew fails.
Start(b) ==
    /\ updater.at = "threads" /\ updater.list[b] # {} /\ update[b].at = "none"
    /\ \/ /\ updater' = [updater EXCEPT !.odd = (@ \ updater.list[b]) \cup (updater.list[b] \ @)]
          /\ update' = [update EXCEPT ![b] = [at |-> "packages", rows |-> 0, for |-> updater.list[b]]]
       \/ Fails /\ Raise /\ UNCHANGED update
    /\ UNCHANGED <<tagged, sheet, stale, crossed>>

Started ==
    /\ updater.at = "threads" /\ \A b \in Build : updater.list[b] # {} => update[b].at # "none"
    /\ updater' = [updater EXCEPT !.at = "wait"]
    /\ UNCHANGED <<tagged, sheet, stale, update, crossed>>

\* join
\* (Mutant: the run does not wait for its threads.)
BugJoined ==
    /\ updater.at = "wait" /\ updater' = [updater EXCEPT !.at = "index"]
    /\ UNCHANGED <<tagged, sheet, stale, update, crossed>>
Joined ==
    /\ updater.at = "wait" /\ Live = {}
    /\ updater' = [updater EXCEPT !.at = "index"]
    /\ UNCHANGED <<tagged, sheet, stale, update, crossed>>

\* createrepo in the directories of updated_repos
Index ==
    /\ updater.at = "index"
    /\ \/ updater' = [updater EXCEPT !.at = "ended"] /\ stale' = stale \ updater.odd
       \/ /\ Fails /\ Raise
          /\ \E some \in SUBSET updater.odd : stale' = stale \ some
    /\ UNCHANGED <<tagged, sheet, update, crossed>>

-----------------------------------------------------------------------------
(* The thread of a build (update_single_pkgs). *)

Goto(b, s) == update' = [update EXCEPT ![b].at = s]
Die(b)     == Fails /\ Goto(b, "dead")

\* The playbook ignores what cannot be downloaded or copied.  If it fails, the
\* AnsibleRunError is not the CmdError that would be recorded as a failure.
Playbook(b) ==
    /\ update[b].at = "packages"
    /\ \E into \in IF Fails THEN SUBSET update[b].for ELSE {update[b].for} :
           stale' = stale \cup into
    /\ Goto(b, "rows") \/ Die(b)
    /\ UNCHANGED <<tagged, sheet, updater, crossed>>

\* fetch and append: the new rows follow the last one, which there must be.
\* (Mutant: .. overwrite the last one.)
BugFetch(b) ==
    /\ update[b].at = "rows"
    /\ \/ sheet # <<>> /\ update' = [update EXCEPT ![b].at = "write", ![b].rows = Len(sheet) - 1]
       \/ Die(b) \/ (sheet = <<>> /\ Goto(b, "dead"))
    /\ UNCHANGED <<tagged, sheet, stale, updater, crossed>>
Fetch(b) ==
    /\ update[b].at = "rows"
    /\ \/ sheet # <<>> /\ update' = [update EXCEPT ![b].at = "write", ![b].rows = Len(sheet)]
       \/ Die(b) \/ (sheet = <<>> /\ Goto(b, "dead"))
    /\ UNCHANGED <<tagged, sheet, stale, updater, crossed>>

\* What a thread writes, for its products in some order.
Written(b, order) ==
    LET n == update[b].rows
        last == n + Len(order)
    IN [i \in 1..(IF last > Len(sheet) THEN last ELSE Len(sheet)) |->
            IF i > n /\ i <= last THEN [build |-> b, product |-> order[i - n]] ELSE sheet[i]]

\* push: who read before and did not write yet will write over these rows.
Crossing(b) == IF \E a \in Build \ {b} : update[a].at = "write" THEN {b} ELSE {}
\* (Mutant: a refused request is taken for done.)
BugPush(b) ==
    /\ update[b].at = "write"
    /\ sheet' \in {Written(b, order) : order \in Orders(update[b].for)} \cup {sheet}
    /\ crossed' = crossed \cup Crossing(b) /\ Goto(b, "mail")
    /\ UNCHANGED <<tagged, stale, updater>>
Push(b) ==
    /\ update[b].at = "write"
    /\ \/ /\ \E order \in Orders(update[b].for) : sheet' = Written(b, order)
          /\ crossed' = crossed \cup Crossing(b) /\ Goto(b, "mail")
       \/ Die(b) /\ UNCHANGED <<sheet, crossed>>
    /\ UNCHANGED <<tagged, stale, updater>>

Mail(b) ==
    /\ update[b].at = "mail" /\ (Goto(b, "done") \/ Die(b))
    /\ UNCHANGED <<tagged, sheet, stale, updater, crossed>>

Thread(b) == Playbook(b) \/ Fetch(b) \/ Push(b) \/ Mail(b)
Run       == Looked \/ Started \/ Joined \/ Index \/ \E p \in Product : Look(p)

Next ==
    \/ Begin \/ Run
    \/ \E p \in Product, b \in Build : Tag(p, b)
    \/ \E b \in Build : Start(b) \/ Thread(b)

Spec == Init /\ [][Next]_vars

\* The job is started again and again, and its threads come to run.
FairSpec ==
    /\ Spec /\ WF_vars(Begin) /\ WF_vars(Run)
    /\ \A b \in Build : WF_vars(Start(b)) /\ WF_vars(Thread(b))

-----------------------------------------------------------------------------
(* What the code keeps. *)

\* A build is recorded once for a product, though rows get lost.
NoRowTwice ==
    \A i, j \in 1..Len(sheet) : sheet[i] = sheet[j] /\ sheet[i].build # Old => i = j

\* The rows of a thread that went on are there, unless a thread that had read the
\* sheet before wrote after it.
LostWhenCrossed ==
    \A b \in Build : update[b].at \in {"mail", "done"} /\ b \notin crossed =>
        \A p \in update[b].for : b \in Recorded(p)

\* A run that ended has listed what its threads stored, in the repositories where
\* they were an odd number.
OddIsListed == updater.at = "ended" => updater.odd \cap stale = {}

\* The builds of a package follow each other as their versions do.
NoDowngrade ==
    \A i, j \in 1..Len(sheet) :
        /\ i < j /\ sheet[i].product = sheet[j].product /\ Old \notin {sheet[i].build, sheet[j].build}
        /\ NameOf[sheet[i].build] = NameOf[sheet[j].build]
        => ~Newer(sheet[i].build, sheet[j].build)

\* No row is written over but those that were crossed in the same run.
RowsStay ==
    [][\A i \in 1..Len(sheet) : i <= Len(sheet') /\ (sheet'[i] = sheet[i] \/ sheet[i].build \in crossed)]_vars

\* Without failures the latest build of each watched package is recorded in the
\* end, though runs lose rows; but nothing ever is in an empty sheet.
CatchesUp ==
    sheet # <<>> => <>[](\A p \in Product, n \in Watched :
        Latest(tagged[p], n) # {} => Latest(tagged[p], n) \cap Recorded(p) # {})
=============================================================================
