----------------------------- MODULE CaseLinks -----------------------------
(***************************************************************************)
(* The list of automated cases that caselink keeps (update_caselink.py).   *)
(* A run reads the list, collects the cases of the test repositories, with *)
(* and without the pull request it is called for, and sends one request    *)
(* per case that differs.  What identifies the framework and component of  *)
(* a case is its description.                                              *)
(***************************************************************************)
EXTENDS FiniteSets, Integers, Sequences

CONSTANTS
    Case, Job, PR, Desc,
    Selected,   \* descriptions with a framework the runs are called for
    PrOf,       \* job -> the pull request of its runs, or NoPR
    Adds, Dels, \* pull request -> cases it adds, cases it deletes
    NoPR,
    Fails,      \* whether requests may fail
    MaxRuns, MaxChanges \* runs of a job, changes of the repositories (bounds)

CaselinkAssumption ==
    /\ Selected \subseteq Desc /\ PrOf \in [Job -> PR \cup {NoPR}] /\ NoPR \notin PR
    /\ Adds \in [PR -> SUBSET Case] /\ Dels \in [PR -> SUBSET Case]
    /\ Fails \in BOOLEAN /\ MaxRuns \in Nat /\ MaxChanges \in Nat

VARIABLES
    linked,  \* caselink: case -> its description, mark and pull request
    code,    \* the test repositories: case -> its description
    pull,    \* pull request -> open or closed
    edits,   \* changes of the repositories so far
    job,     \* job -> where its run is, what it read and has left to send
    undisturbed,   \* jobs whose run nothing else came between
    lost,    \* cases with a request that failed and nobody looked at
    runs     \* job -> runs so far

vars == <<linked, code, pull, edits, job, undisturbed, lost, runs>>

None    == "none"
Entries == [desc : Desc \cup {None}, mark : {"", "added", "deleted"}, pr : PR \cup {NoPR}]
Phases  == <<"delete", "create", "update", "merged", "clean", "add", "mark">>
Sends   == 1..Len(Phases)
Nothing == [c \in Case |-> None]
Idle    == [at |-> 0, snap |-> [c \in Case |-> [desc |-> None, mark |-> "", pr |-> NoPR]],
            ci |-> Nothing, with |-> Nothing,
            todo |-> [i \in Sends |-> {}], ret |-> ""]

Absent    == [desc |-> None, mark |-> "", pr |-> NoPR]
Listed(l) == {c \in Case : l[c] # None}
Kept(d)   == {c \in Case : d[c] # Absent}
Runs      == [at : 0..Len(Phases) + 2, ret : {"", "ok", "error"}]

TypeOK ==
    /\ linked \in [Case -> Entries] /\ code \in [Case -> Desc \cup {None}]
    /\ pull \in [PR -> {"open", "closed"}] /\ edits \in 0..MaxChanges
    /\ \A j \in Job : /\ [at |-> job[j].at, ret |-> job[j].ret] \in Runs
                      /\ job[j].todo \in [Sends -> SUBSET Case]
    /\ undisturbed \subseteq Job /\ lost \subseteq Case /\ runs \in [Job -> 0..MaxRuns]

Init ==
    /\ code \in [Case -> Selected \cup {None}] /\ Listed(code) # {}
    /\ \A p \in PR : Adds[p] \cap Listed(code) = {} /\ Dels[p] \subseteq Listed(code)
    /\ linked = [c \in Case |-> [desc |-> code[c], mark |-> "", pr |-> NoPR]]
    /\ pull = [p \in PR |-> "open"] /\ edits = 0 /\ job = [j \in Job |-> Idle]
    /\ undisturbed = {} /\ lost = {} /\ runs = [j \in Job |-> 0]

-----------------------------------------------------------------------------
(* The repositories. *)

Merged(p) == [c \in Case |-> IF c \in Dels[p] THEN None
                             ELSE IF c \in Adds[p] /\ code[c] = None THEN CHOOSE d \in Selected : TRUE
                             ELSE code[c]]

Changed == /\ edits < MaxChanges /\ edits' = edits + 1
           /\ undisturbed' = {} /\ UNCHANGED <<linked, job, lost, runs>>

Merge(p) == /\ pull[p] = "open" /\ Changed
            /\ pull' = [pull EXCEPT ![p] = "closed"] /\ code' = Merged(p)
Close(p) == /\ pull[p] = "open" /\ Changed
            /\ pull' = [pull EXCEPT ![p] = "closed"] /\ UNCHANGED code
Edit(c)  == /\ Changed /\ UNCHANGED pull
            /\ \E d \in Desc \cup {None} : code' = [code EXCEPT ![c] = d]

-----------------------------------------------------------------------------
(* A run. *)

Running(j) == job[j].at # 0
Found(l)   == [c \in Case |-> IF l[c] \in Selected THEN l[c] ELSE None]

\* get_tests_from_caselink, which raises if there are none.
Begin(j) ==
    /\ ~Running(j) /\ runs[j] < MaxRuns
    /\ runs' = [runs EXCEPT ![j] = @ + 1]
    /\ job' = [job EXCEPT ![j] = IF Kept(linked) = {} THEN [Idle EXCEPT !.ret = "error"]
                                   ELSE [Idle EXCEPT !.at = 1, !.snap = linked]]
    /\ undisturbed' = IF \A i \in Job : ~Running(i) THEN {j} ELSE {}
    /\ lost' = {}
    /\ UNCHANGED <<linked, code, pull, edits>>

End(j, r) == job' = [job EXCEPT ![j] = IF r = "ok" THEN [@ EXCEPT !.at = 0, !.ret = r]
                                                   ELSE [Idle EXCEPT !.ret = r]]

\* get_tests_from_ci, once for the repositories and once with the pull request.
Collect(j) ==
    LET p == PrOf[j]
        with == Found(IF p = NoPR THEN code ELSE Merged(p))
    IN /\ job[j].at = 1
       /\ \/ /\ Listed(Found(code)) # {} /\ Listed(with) # {}
             /\ job' = [job EXCEPT ![j].at = 2, ![j].ci = Found(code), ![j].with = with]
          \/ (Listed(Found(code)) = {} \/ Listed(with) = {} \/ Fails) /\ End(j, "error")
       /\ UNCHANGED <<linked, code, pull, edits, undisturbed, lost, runs>>

Unmerged(s)    == {c \in Kept(s) : s[c].mark = "added"}
Closed(q)      == q # NoPR /\ pull[q] = "closed"
\* (Mutant of NewInPR: cases that caselink has need not be created.)
BugNewInPR(r)  == Listed(r.with) \ (Listed(r.ci) \cup Kept(r.snap))
NewInPR(r)     == Listed(r.with) \ Listed(r.ci)
DeletedInPR(r) == Listed(r.ci) \ Listed(r.with)
MergedCases(r) == Unmerged(r.snap) \cap Listed(r.ci)

\* check_error_for_new_pr_cases, .._del_pr_cases, .._merged_pr_cases
NewAreFree(r, p) ==
    \A c \in NewInPR(r) \cap Kept(r.snap) : r.snap[c].pr = p \/ Closed(r.snap[c].pr)
DeletedAreKnown(r, p) ==
    \A c \in DeletedInPR(r) :
        /\ c \in Kept(r.snap)
        /\ IF r.snap[c].pr # NoPR THEN r.snap[c].pr # p /\ Closed(r.snap[c].pr)
                                  ELSE r.snap[c].desc = r.ci[c]
MergedAreSame(r) == \A c \in MergedCases(r) : r.snap[c].desc = r.ci[c]

\* What the last run for the same pull request left.
\* (Mutant of Leftover: .. for any pull request.)
BugLeftover(r, p) == Unmerged(r.snap)
Leftover(r, p)    == {c \in Unmerged(r.snap) : r.snap[c].pr = p}

\* The cases that a run sends requests of a kind about.
Concerned(phase, r, p) ==
    CASE phase = "delete" -> {c \in Kept(r.snap) \ (Listed(r.ci) \cup Unmerged(r.snap)) :
                                  r.snap[c].desc \in Selected}
      [] phase = "create" -> Listed(r.ci) \ Kept(r.snap)
      [] phase = "update" -> {c \in Listed(r.ci) \cap (Kept(r.snap) \ Unmerged(r.snap)) :
                                  r.snap[c].desc # r.ci[c]}
      [] phase = "merged" -> MergedCases(r)
      [] phase = "clean"  -> IF p = NoPR THEN {} ELSE Leftover(r, p)
      [] phase = "add"    -> NewInPR(r)
      [] phase = "mark"   -> DeletedInPR(r)

Planned(r, p) == [i \in Sends |-> Concerned(Phases[i], r, p)]

Plan(j) ==
    LET r == job[j]
        p == PrOf[j]
    IN /\ r.at = 2
       /\ \/ /\ p # NoPR => NewAreFree(r, p) /\ DeletedAreKnown(r, p)
             /\ MergedAreSame(r)
             /\ job' = [job EXCEPT ![j].at = 3, ![j].todo = Planned(r, p)]
          \/ /\ ~MergedAreSame(r) \/ (p # NoPR /\ ~(NewAreFree(r, p) /\ DeletedAreKnown(r, p))) \/ Fails
             /\ End(j, "error")
       /\ UNCHANGED <<linked, code, pull, edits, undisturbed, lost, runs>>

-----------------------------------------------------------------------------
(* The requests of a run, one kind after the other. *)

\* What caselink answers: a case is created once, and changed while it is there.
Accepted(phase, c) == (linked[c] = Absent) = (phase \in {"create", "add"})

After(phase, r, p, c) ==
    CASE phase \in {"delete", "clean"} -> Absent
      [] phase = "create" -> [desc |-> r.ci[c], mark |-> "", pr |-> NoPR]
      [] phase = "update" -> [linked[c] EXCEPT !.desc = r.ci[c]]
      [] phase = "merged" -> [linked[c] EXCEPT !.mark = ""]
      [] phase = "add"    -> [desc |-> r.with[c], mark |-> "added", pr |-> p]
      [] phase = "mark"   -> [linked[c] EXCEPT !.mark = "deleted"]

\* Only the answer for merged cases is not looked at.
Send(j, c) ==
    LET r == job[j]
        i == r.at - 2
    IN /\ i \in Sends /\ c \in r.todo[i]
       /\ \/ /\ Accepted(Phases[i], c)
             /\ linked' = [linked EXCEPT ![c] = After(Phases[i], r, PrOf[j], c)]
             /\ job' = [job EXCEPT ![j].todo[i] = @ \ {c}] /\ UNCHANGED lost
          \/ /\ (~Accepted(Phases[i], c) \/ Fails) /\ UNCHANGED linked
             /\ \/ Phases[i] = "merged" /\ lost' = lost \cup {c} /\ job' = [job EXCEPT ![j].todo[i] = @ \ {c}]
                \/ Phases[i] # "merged" /\ UNCHANGED lost /\ End(j, "error")
       /\ UNCHANGED <<code, pull, edits, undisturbed, runs>>

NextKind(j) ==
    LET i == job[j].at - 2
    IN /\ i \in Sends /\ job[j].todo[i] = {}
       /\ IF i = Len(Phases) THEN End(j, "ok") ELSE job' = [job EXCEPT ![j].at = @ + 1]
       /\ UNCHANGED <<linked, code, pull, edits, undisturbed, lost, runs>>

Next ==
    \/ \E p \in PR : Merge(p) \/ Close(p)
    \/ \E c \in Case : Edit(c)
    \/ \E j \in Job : Begin(j) \/ Collect(j) \/ Plan(j) \/ NextKind(j) \/ \E c \in Case : Send(j, c)

Spec == Init /\ [][Next]_vars

-----------------------------------------------------------------------------
(* What the code keeps. *)

Complete(j) == j \in undisturbed /\ job[j].ret = "ok"

\* Cases that were cleaned up because the mark read before said that they wait
\* for the pull request, which was merged.
Forgotten(j) == {c \in MergedCases(job[j]) : job[j].snap[c].pr = PrOf[j] /\ PrOf[j] # NoPR}

\* After a run that nothing came between, the cases without a mark are those of
\* the repositories, as they are there; but for requests nobody looked at.
InSync ==
    \A j \in Job : Complete(j) =>
        /\ \A c \in Listed(job[j].ci) \ Forgotten(j) :
               linked[c] # Absent /\ linked[c].desc = job[j].ci[c] /\ (linked[c].mark = "added" => c \in lost)
        /\ \A c \in Kept(linked) \ Listed(job[j].ci) : linked[c].mark = "added" \/ linked[c].desc \notin Selected

\* .. and those of its pull request are the ones that it adds.
PullIsListed ==
    \A j \in Job : Complete(j) /\ PrOf[j] # NoPR =>
        /\ {c \in Unmerged(linked) : linked[c].pr = PrOf[j]} = Listed(job[j].with) \ Listed(job[j].ci)
        /\ \A c \in DeletedInPR(job[j]) : linked[c].mark = "deleted"

\* A run that nothing came between leaves undisturbed what another open pull request adds.
OthersStay ==
    [][\A j \in undisturbed \cap undisturbed', c \in Unmerged(linked) :
           /\ Running(j) /\ linked[c].pr # PrOf[j] /\ code[c] = None
           => linked'[c] = linked[c]]_vars
=============================================================================
