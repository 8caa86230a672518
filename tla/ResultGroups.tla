---------------------------- MODULE ResultGroups ----------------------------
(***************************************************************************)
(* report_to_resultsdb.py: a job takes or creates a group for each of its  *)
(* tags and one for itself, and stores one result per case in all of them. *)
(* Several jobs report at once, and ResultsDB does not keep descriptions   *)
(* unique.                                                                 *)
(***************************************************************************)
EXTENDS Integers, Sequences, FiniteSets

CONSTANTS
    Job,      \* jobs that report
    TestCase, \* cases of each
    Tag,      \* tags of each
    MaxTries  \* times each job's command is started (bound)

GroupsAssumption ==
    /\ IsFiniteSet(Job) /\ IsFiniteSet(TestCase) /\ IsFiniteSet(Tag) /\ Job \cap Tag = {}
    /\ MaxTries \in Nat

VARIABLES
    grouping,  \* job -> where its command is
    begun,     \* job -> how often it was started
    described, \* job -> the description it asked for last
    told,      \* job -> the groups it was told of
    mine,      \* job -> description -> its group, 0 for none yet
    unstored,  \* job -> cases not stored yet
    groups,    \* sequence of the descriptions of the groups
    results    \* results: <<job, case, groups>>

vars == <<grouping, begun, described, told, mine, unstored, groups, results>>

\* The job's own description is its name and date.
Wanted(j) == Tag \cup {j}
NoGroup(j) == [t \in Tag \cup Job |-> 0]

TypeOK ==
    /\ grouping \in [Job -> {"idle", "ask", "take", "results", "done", "raised"}]
    /\ begun \in [Job -> 0..MaxTries]
    /\ described \in [Job -> Tag \cup Job] /\ told \in [Job -> SUBSET (1..Len(groups))]
    /\ mine \in [Job -> [Tag \cup Job -> 0..Len(groups)]]
    /\ unstored \in [Job -> SUBSET TestCase]
    /\ groups \in Seq(Tag \cup Job)
    /\ results \subseteq Job \X TestCase \X SUBSET (1..Len(groups))

Init ==
    /\ grouping = [j \in Job |-> "idle"] /\ begun = [j \in Job |-> 0]
    /\ described = [j \in Job |-> j] /\ told = [j \in Job |-> {}]
    /\ mine = [j \in Job |-> NoGroup(j)] /\ unstored = [j \in Job |-> {}]
    /\ groups = <<>> /\ results = {}

Start(j) ==
    /\ grouping[j] \in {"idle", "raised"} /\ begun[j] < MaxTries
    /\ begun' = [begun EXCEPT ![j] = @ + 1]
    /\ mine' = [mine EXCEPT ![j] = NoGroup(j)]
    /\ grouping' = [grouping EXCEPT ![j] = "ask"]
    /\ UNCHANGED <<described, told, unstored, groups, results>>

\* _get_or_create_group: get_groups.  The tags come before the job itself.
AskGroups(j, d) ==
    /\ grouping[j] = "ask" /\ d \in Wanted(j) /\ mine[j][d] = 0
    /\ d = j => \A t \in Tag : mine[j][t] # 0
    /\ described' = [described EXCEPT ![j] = d]
    /\ told' = [told EXCEPT ![j] = {k \in DOMAIN groups : groups[k] = d}]
    /\ grouping' = [grouping EXCEPT ![j] = "take"]
    /\ UNCHANGED <<begun, mine, unstored, groups, results>>

First(S) == CHOOSE k \in S : \A l \in S : k <= l

\* The first of them, or create_group.  (Mutants: a group is always created; the
\* first group there is is taken.)
BugTakeGroup(j) ==
    /\ grouping[j] = "take"
    /\ groups' = Append(groups, described[j])
    /\ mine' = [mine EXCEPT ![j][described[j]] = Len(groups) + 1]
    /\ grouping' = [grouping EXCEPT ![j] = "ask"]
    /\ UNCHANGED <<begun, described, told, unstored, results>>
BugFirstGroup(j) ==
    /\ grouping[j] = "take"
    /\ groups' = IF groups = <<>> THEN <<described[j]>> ELSE groups
    /\ mine' = [mine EXCEPT ![j][described[j]] = 1]
    /\ grouping' = [grouping EXCEPT ![j] = "ask"]
    /\ UNCHANGED <<begun, described, told, unstored, results>>
BugCreated(j) ==
    /\ grouping[j] = "take"
    /\ mine' = [mine EXCEPT ![j][described[j]] = IF told[j] = {} THEN Len(groups) + 1 ELSE First(told[j])]
    /\ grouping' = [grouping EXCEPT ![j] = "ask"]
    /\ UNCHANGED <<begun, described, told, unstored, groups, results>>
TakeGroup(j) ==
    /\ grouping[j] = "take"
    /\ IF told[j] = {}
         THEN /\ groups' = Append(groups, described[j])
              /\ mine' = [mine EXCEPT ![j][described[j]] = Len(groups) + 1]
         ELSE /\ mine' = [mine EXCEPT ![j][described[j]] = First(told[j])]
              /\ UNCHANGED groups
    /\ grouping' = [grouping EXCEPT ![j] = "ask"]
    /\ UNCHANGED <<begun, described, told, unstored, results>>

Grouped(j) ==
    /\ grouping[j] = "ask" /\ \A d \in Wanted(j) : mine[j][d] # 0
    /\ unstored' = [unstored EXCEPT ![j] = TestCase] /\ grouping' = [grouping EXCEPT ![j] = "results"]
    /\ UNCHANGED <<begun, described, told, mine, groups, results>>

CreateResult(j, c) ==
    /\ grouping[j] = "results" /\ c \in unstored[j]
    /\ results' = results \cup {<<j, c, {mine[j][d] : d \in Wanted(j)}>>}
    /\ unstored' = [unstored EXCEPT ![j] = @ \ {c}]
    /\ UNCHANGED <<grouping, begun, described, told, mine, groups>>

End(j) ==
    /\ grouping[j] = "results" /\ unstored[j] = {}
    /\ grouping' = [grouping EXCEPT ![j] = "done"]
    /\ UNCHANGED <<begun, described, told, mine, unstored, groups, results>>

\* Every request may raise.
Raise(j) ==
    /\ grouping[j] \in {"ask", "take", "results"}
    /\ grouping' = [grouping EXCEPT ![j] = "raised"]
    /\ UNCHANGED <<begun, described, told, mine, unstored, groups, results>>

Next ==
    \E j \in Job :
        \/ Start(j) \/ TakeGroup(j) \/ Grouped(j) \/ End(j) \/ Raise(j)
        \/ \E d \in Tag \cup Job : AskGroups(j, d)
        \/ \E c \in TestCase : CreateResult(j, c)

Spec == Init /\ [][Next]_vars

-----------------------------------------------------------------------------
(* What the code keeps. *)

With(d) == {k \in DOMAIN groups : groups[k] = d}

\* A result is in one group of each description its job wants and in no other,
\* whoever else creates groups meanwhile.
ResultsAreGrouped ==
    \A r \in results :
        /\ \A d \in Wanted(r[1]) : Cardinality(r[3] \cap With(d)) = 1
        /\ \A k \in r[3] : groups[k] \in Wanted(r[1])

\* A job is started again after a failure, and yet has one group of its own.
OwnGroupOnce == \A j \in Job : Cardinality(With(j)) <= 1

=============================================================================
