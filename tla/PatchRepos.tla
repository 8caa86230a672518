----------------------------- MODULE PatchRepos -----------------------------
(***************************************************************************)
(* How a runner gets its copy of a repository, and applies pull requests,  *)
(* patches and changes to it: utils.update_git_repo, and RunnerBase's      *)
(* prepare_git_repos, prepare_a_pr, prepare_a_patch, prepare_a_change and  *)
(* _checkout_to_branch, with github.PullRequest.  Each call is made once   *)
(* per item, in any order; at last prepare_tests takes the repository to   *)
(* master and back (--only-change).  A commit is the item it comes from.   *)
(***************************************************************************)
EXTENDS Integers, FiniteSets

CONSTANTS
    PRs, Patches, Changes, \* what is to be applied
    Good,                  \* the items that apply whatever was applied before
    Missing,               \* local patches that do not exist
    Branch,                \* names of branches
    BranchOf,              \* item -> the branch it gets
    Inside,                \* name -> names that are part of its text, itself one of them
    Start, Master,         \* the branch that is cloned; 'master'
    Clones,                \* how often git clone is tried
    Retries,               \* PullRequest.refresh: how often it tries again
    Polls,                 \* PullRequest.mergable: how often it looks within its minute
    MayFail                \* whether the network, GitHub and git may fail

Item == PRs \cup Patches \cup Changes
None == "none"

PatchAssumption ==
    /\ PRs \cap Patches = {} /\ PRs \cap Changes = {} /\ Patches \cap Changes = {}
    /\ None \notin Item
    /\ BranchOf \in [Item -> Branch \ {Start, Master}] /\ {Start, Master} \subseteq Branch
    /\ \A i, j \in Item : BranchOf[i] = BranchOf[j] => i = j
    /\ \A b \in Branch : b \in Inside[b]
    /\ Good \subseteq Item /\ Missing \subseteq Patches
    /\ {Clones, Retries, Polls} \subseteq Nat /\ MayFail \in BOOLEAN

VARIABLES
    patching, item, \* which call is at which point, for which item
    requested,      \* items that were asked for
    result,         \* item -> what its call returned
    cache,          \* the repository under REPO_PATH: "none", "old" or "new"
    attempts,       \* tries, retries or polls that are left
    data,           \* what GitHub last said of the pull request
    on,             \* branch -> the items committed on it
    head,           \* the branch that is checked out
    loose,          \* items in the files that are not committed
    session,        \* "am" or "pick": what git was left in the middle of
    current,        \* params: <repo>_current_branch
    files,          \* params.change_files: pull requests whose files it lists
    saved           \* where prepare_tests goes back to

git  == <<on, head, loose, session>>
vars == <<patching, item, requested, result, cache, attempts, data, git, current, files, saved>>

Data == [mergeable : {"unknown", "yes", "no"}, merged : BOOLEAN]
Calls == {"refresh", "mergable", "poll", "read", "am", "files", "patch", "pick", "checkout"}

TypeOK ==
    /\ patching \in Calls \cup {"update", "clone", "copy", "ready", "master", "back", "done", "raised"}
    /\ item \in Item \cup {None} /\ requested \subseteq Item
    /\ result \in [Item -> {None, "true", "false"}]
    /\ cache \in {"none", "old", "new"} /\ attempts \in Nat /\ data \in Data
    /\ Start \in DOMAIN on /\ \A b \in DOMAIN on : b \in Branch /\ on[b] \subseteq Item
    /\ head \in DOMAIN on /\ loose \subseteq Patches /\ session \in {None, "am", "pick"}
    /\ current \in Branch \cup {None} /\ files \subseteq PRs /\ saved \in Branch \cup {None}
    /\ patching \in Calls <=> item # None

Init ==
    /\ patching = "update" /\ item = None /\ requested = {} /\ result = [i \in Item |-> None]
    /\ cache \in {"none", "old"} /\ attempts = Clones /\ data = [mergeable |-> "unknown", merged |-> FALSE]
    /\ on = [b \in {Start} |-> {}] /\ head = Start /\ loose = {} /\ session = None
    /\ current = None /\ files = {} /\ saved = None

-----------------------------------------------------------------------------
(* prepare_git_repos. *)

\* A clone that is there is pulled; what checkout and pull return is not looked at.
Pull ==
    /\ patching = "update" /\ cache # "none"
    /\ cache' \in IF MayFail THEN {cache, "new"} ELSE {"new"}
    /\ patching' = "copy"
    /\ UNCHANGED <<item, requested, result, attempts, data, git, current, files, saved>>

Clone ==
    /\ patching = "update" /\ cache = "none" /\ attempts > 0
    /\ \/ cache' = "new" /\ patching' = "copy" /\ UNCHANGED attempts
       \/ MayFail /\ attempts' = attempts - 1 /\ UNCHANGED <<patching, cache>>
    /\ UNCHANGED <<item, requested, result, data, git, current, files, saved>>

\* copytree raises without a clone.  The copy is reset: git is in the middle of nothing.
Copy ==
    /\ patching = "copy" \/ (patching = "update" /\ cache = "none" /\ attempts = 0)
    /\ patching' = IF cache = "none" THEN "raised" ELSE "ready"
    /\ UNCHANGED <<item, requested, result, cache, attempts, data, git, current, files, saved>>

-----------------------------------------------------------------------------
(* _checkout_to_branch. *)

\* The name is looked for in the text that 'git branch' prints.
Listed(b) == \E x \in DOMAIN on : b \in Inside[x]

\* A new branch starts where the repository stands, so that items pile up; what is
\* not committed comes along. (Mutants: a new branch starts at the clone; the name is
\* kept in params before git did it.)
BugCheckedOut(b) ==
    /\ IF Listed(b) THEN b \in DOMAIN on /\ UNCHANGED on
       ELSE on' = [x \in DOMAIN on \cup {b} |-> on[IF x = b THEN Start ELSE x]]
    /\ head' = b /\ current' = b
CheckedOut(b) ==
    /\ IF Listed(b) THEN b \in DOMAIN on /\ UNCHANGED on
       ELSE on' = [x \in DOMAIN on \cup {b} |-> on[IF x = b THEN head ELSE x]]
    /\ head' = b /\ current' = b

\* git refuses a name it does not have, and if there are conflicts or changes in its way.
Refuses(b) == \/ Listed(b) /\ b \notin DOMAIN on
              \/ session # None \/ loose # {} \/ MayFail
BugNotCheckedOut(b) == Refuses(b) /\ current' = b /\ UNCHANGED <<on, head>>
NotCheckedOut(b) == Refuses(b) /\ UNCHANGED <<on, head, current>>

-----------------------------------------------------------------------------
(* Calls. *)

Ask(i) ==
    /\ patching = "ready" /\ i \notin requested
    /\ item' = i /\ requested' = requested \cup {i}
    /\ patching' = IF i \in PRs THEN "refresh" ELSE "checkout"
    /\ attempts' = IF i \in PRs THEN Retries ELSE attempts
    /\ UNCHANGED <<result, cache, data, git, current, files, saved>>

\* What every call does when it ends.
Return(r) ==
    /\ result' = [result EXCEPT ![item] = r] /\ item' = None /\ patching' = "ready"
Raise ==
    /\ patching' = "raised" /\ item' = None /\ UNCHANGED result

\* github.PullRequest.refresh.  (Mutant: the count of retries starts again.)
BugRefused ==
    /\ MayFail /\ patching = "refresh"
    /\ attempts' = (IF attempts > 0 THEN attempts - 1 ELSE Retries) /\ UNCHANGED <<patching, item, result>>
    /\ UNCHANGED <<requested, cache, data, git, current, files, saved>>
Refused ==
    /\ MayFail /\ patching = "refresh"
    /\ IF attempts > 0 THEN attempts' = attempts - 1 /\ UNCHANGED <<patching, item, result>>
       ELSE Raise /\ UNCHANGED attempts
    /\ UNCHANGED <<requested, cache, data, git, current, files, saved>>
Refresh ==
    /\ patching = "refresh"
    /\ data' \in Data
    /\ patching' = "mergable" /\ attempts' = Polls
    /\ UNCHANGED <<item, requested, result, cache, git, current, files, saved>>

\* github.PullRequest.mergable refreshes while GitHub computes; what is still
\* unknown after that counts as mergable.
Look ==
    /\ patching = "mergable" /\ data.mergeable = "unknown" /\ attempts > 0
    /\ \/ data' \in Data /\ attempts' = attempts - 1 /\ UNCHANGED <<patching, item, result>>
       \/ MayFail /\ Raise /\ UNCHANGED <<data, attempts>>
    /\ UNCHANGED <<requested, cache, git, current, files, saved>>
Mergable == data.mergeable # "no" /\ ~data.merged
Judge ==
    /\ patching = "mergable" /\ (data.mergeable # "unknown" \/ attempts = 0)
    /\ IF Mergable THEN patching' = "read" /\ UNCHANGED <<item, result>> ELSE Return("true")
    /\ UNCHANGED <<requested, cache, attempts, data, git, current, files, saved>>

\* PullRequest.read may find nothing.
Read ==
    /\ patching = "read"
    /\ \/ patching' = "checkout" /\ UNCHANGED <<item, result>>
       \/ MayFail /\ (Return("true") \/ Raise)
    /\ UNCHANGED <<requested, cache, attempts, data, git, current, files, saved>>

\* A local patch that is not there has no path, and isfile(None) raises.
FindPatch ==
    /\ patching = "checkout" /\ item \in Missing
    /\ Raise
    /\ UNCHANGED <<requested, cache, attempts, data, git, current, files, saved>>

Checkout ==
    /\ patching = "checkout" /\ item \notin Missing
    /\ \/ /\ CheckedOut(BranchOf[item])
          /\ patching' = (CASE item \in PRs -> "am" [] item \in Patches -> "patch" [] OTHER -> "pick")
          /\ UNCHANGED <<item, result>>
       \/ NotCheckedOut(BranchOf[item]) /\ Return("false")
    /\ UNCHANGED <<requested, cache, attempts, data, loose, session, files, saved>>

Commit == on' = [on EXCEPT ![head] = @ \cup {item}]

\* git am refuses while an earlier one is unfinished.
Am == session # "am" /\ Commit /\ UNCHANGED <<session, loose>>
AmFails ==
    /\ session = "am" \/ item \notin Good \/ MayFail
    /\ session' = "am" /\ UNCHANGED on

\* (Mutant: the files are listed, and no patch was applied.)
BugApplyPR ==
    /\ patching = "am"
    /\ patching' = "files" /\ UNCHANGED <<item, result, on, loose, session>>
    /\ UNCHANGED <<requested, cache, attempts, data, head, current, files, saved>>
ApplyPR ==
    /\ patching = "am"
    /\ \/ Am /\ patching' = "files" /\ UNCHANGED <<item, result>>
       \/ AmFails /\ UNCHANGED loose /\ Return("false")
    /\ UNCHANGED <<requested, cache, attempts, data, head, current, files, saved>>

ListFiles ==
    /\ patching = "files"
    /\ \/ files' = files \cup {item} /\ Return("true")
       \/ MayFail /\ Raise /\ UNCHANGED files
    /\ UNCHANGED <<requested, cache, attempts, data, git, current, saved>>

\* patch -p1 does not commit, and git am stays unfinished; if it fails, too, the
\* patch is ignored.
ApplyPatch ==
    /\ patching = "patch" /\ Return("true")
    /\ \/ Am
       \/ AmFails /\ loose' = loose \cup {item}
       \/ AmFails /\ item \notin Good /\ UNCHANGED loose
    /\ UNCHANGED <<requested, cache, attempts, data, head, current, files, saved>>

\* (Mutant: git cherry-pick is not aborted.)
BugPick ==
    /\ patching = "pick"
    /\ \/ Commit /\ Return("true") /\ UNCHANGED session
       \/ (MayFail \/ item \notin Good) /\ Return("false") /\ session' = "pick" /\ UNCHANGED on
    /\ UNCHANGED <<requested, cache, attempts, data, head, loose, current, files, saved>>
Pick ==
    /\ patching = "pick"
    /\ \/ Commit /\ Return("true")
       \/ (MayFail \/ item \notin Good) /\ Return("false") /\ UNCHANGED on
    /\ UNCHANGED <<requested, cache, attempts, data, head, loose, session, current, files, saved>>

-----------------------------------------------------------------------------
(* prepare_tests with --only-change. *)

ToMaster ==
    /\ patching = "ready" /\ current # None
    /\ saved' = current /\ patching' = "master"
    /\ CheckedOut(Master) \/ NotCheckedOut(Master)
    /\ UNCHANGED <<item, requested, result, cache, attempts, data, loose, session, files>>
Back ==
    /\ patching = "master"
    /\ patching' = "done"
    /\ CheckedOut(saved) \/ NotCheckedOut(saved)
    /\ UNCHANGED <<item, requested, result, cache, attempts, data, loose, session, files, saved>>
Finish ==
    /\ patching = "ready" /\ current = None /\ requested = Item
    /\ patching' = "done"
    /\ UNCHANGED <<item, requested, result, cache, attempts, data, git, current, files, saved>>

Next ==
    \/ Pull \/ Clone \/ Copy \/ (\E i \in Item : Ask(i))
    \/ Refused \/ Refresh \/ Look \/ Judge \/ Read \/ FindPatch \/ Checkout
    \/ ApplyPR \/ ListFiles \/ ApplyPatch \/ Pick
    \/ ToMaster \/ Back \/ Finish

Spec == Init /\ [][Next]_vars
FairSpec == Spec /\ WF_vars(Next)

-----------------------------------------------------------------------------
(* What the code keeps. *)

\* What the tests find in the files.
Content == on[head] \cup loose

\* As long as the items are applied, nothing that was applied gets lost: the
\* pull requests whose files are listed are there, and so is every change that
\* was picked, whatever was applied after it and whatever failed.
PileUp ==
    patching \notin {"master", "done"} =>
        files \cup {i \in Changes : result[i] = "true"} \subseteq Content

\* The branch that --only-change comes back to is the one that is checked out;
\* a checkout that fails does not change it.
BranchIsRecorded == current # None => current = head

\* Once it is back, or did not get away, the repository has what it had.
BackWithAll == patching = "done" /\ saved = head => files \subseteq Content

\* A change that cannot be picked leaves nothing behind.
PickIsWhole == session # "pick"

\* Every call ends, however often GitHub refuses and however long it computes.
CallsEnd == [](patching \in Calls => <>(patching \in {"ready", "raised"}))

=============================================================================
