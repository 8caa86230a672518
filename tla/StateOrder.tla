----------------------------- MODULE StateOrder -----------------------------
(***************************************************************************)
(* encapsulate_states() and States.__init__ of libvirt_ci/state.py.        *)
(*                                                                         *)
(* encapsulate_states walks a dict of state objects in whatever order the  *)
(* dict yields them and, for each, recursively visits the classes it       *)
(* depends on before appending it to an ordered dict.  States.__init__     *)
(* then walks the resulting list, tells each object the distribution of    *)
(* the host, and removes the classes that are blacklisted for it - from    *)
(* the very list it is iterating over, so that the element behind a        *)
(* removed one is never visited.                                           *)
(*                                                                         *)
(* The recursion is modelled by an explicit stack of calls, the dict's     *)
(* order by a free choice of the next name.                                *)
(***************************************************************************)
EXTENDS Naturals, Sequences, SequencesExt, StateClasses

CONSTANT Dist   \* the distributions a host may run

ASSUME ClassAssumption == Class \subseteq AllClasses /\ "ServiceState" \in Class

VARIABLES
    unseen,   \* names the loop over states.items() has not reached
    stack,     \* calls of dependency_update: [name, deps still to visit]
    ordered,   \* ordered_states, later self.states
    dist,      \* the distribution of the host, as get_dist reports it
    index,       \* position of the loop of States.__init__; 0 before it
    informed,  \* classes whose dist_vendor and dist_major were set
    dropped    \* classes removed by the loop

orderVars == <<unseen, stack, ordered, dist, index, informed, dropped>>

\* blacked_state; the second `if` overrides the first, they never both hold.
BlackedFor(d) ==
    CASE d = "rhel6"                -> {"LIOFileioState", "LIOISCSIState"}
      [] d \in {"rhel7", "fedora"}  -> {"TgtState"}
      [] OTHER                      -> {}

OrderInit ==
    /\ unseen = Class
    /\ stack = <<>>
    /\ ordered = <<>>
    /\ dist \in Dist
    /\ index = 0
    /\ informed = {}
    /\ dropped = {}

\* (Mutant of Frame: the dependencies are not visited.)
BugFrame(c) == [name |-> c, deps |-> <<>>]

Frame(c) == [name |-> c, deps |-> DependList(c)]

\* for state_name, state_obj in states.items(): dependency_update(...)
NextState(c) ==
    /\ index = 0 /\ stack = <<>> /\ c \in unseen
    /\ unseen' = unseen \ {c}
    /\ stack' = <<Frame(c)>>
    /\ UNCHANGED <<ordered, dist, index, informed, dropped>>

\* One dependency of the class on top of the stack: a recursive call if the
\* class exists, a logged warning otherwise.
VisitDependency ==
    /\ stack # <<>> /\ Last(stack).deps # <<>>
    /\ LET top  == Last(stack)
           rest == Append(Front(stack), [top EXCEPT !.deps = Tail(@)])
           dep  == Head(top.deps)
       IN stack' = IF dep \in Class THEN Append(rest, Frame(dep)) ELSE rest
    /\ UNCHANGED <<unseen, ordered, dist, index, informed, dropped>>

\* All dependencies visited: append the class unless it is already there.
AppendOnce(seq, c) == IF c \in ToSet(seq) THEN seq ELSE Append(seq, c)

ReturnFromUpdate ==
    /\ stack # <<>> /\ Last(stack).deps = <<>>
    /\ ordered' = AppendOnce(ordered, Last(stack).name)
    /\ stack' = Front(stack)
    /\ UNCHANGED <<unseen, dist, index, informed, dropped>>

Encapsulated == unseen = {} /\ stack = <<>>

\* (Mutant of StartInform: the loop starts at the second element.)
BugStartInform ==
    /\ Encapsulated /\ index = 0
    /\ index' = 2
    /\ UNCHANGED <<unseen, stack, ordered, dist, informed, dropped>>

\* States.__init__ starts its loop over the list.
StartInform ==
    /\ Encapsulated /\ index = 0
    /\ index' = 1
    /\ UNCHANGED <<unseen, stack, ordered, dist, informed, dropped>>

\* (Mutants of Inform: the last element is removed instead; the iterator
\* moves two places.)
BugInformRemoval ==
    /\ index \in 1..Len(ordered)
    /\ LET c == ordered[index] IN
        /\ informed' = informed \cup {c}
        /\ IF c \in BlackedFor(dist)
             THEN ordered' = Front(ordered) /\ dropped' = dropped \cup {c}
             ELSE UNCHANGED <<ordered, dropped>>
    /\ index' = index + 1
    /\ UNCHANGED <<unseen, stack, dist>>

BugInformStride ==
    /\ index \in 1..Len(ordered)
    /\ LET c == ordered[index] IN
        /\ informed' = informed \cup {c}
        /\ IF c \in BlackedFor(dist)
             THEN ordered' = RemoveAt(ordered, index) /\ dropped' = dropped \cup {c}
             ELSE UNCHANGED <<ordered, dropped>>
    /\ index' = index + 2
    /\ UNCHANGED <<unseen, stack, dist>>

\* One iteration: inform the object at index, drop it if it is blacklisted.
\* The iterator's index grows either way, while a removal shifts the list.
Inform ==
    /\ index \in 1..Len(ordered)
    /\ LET c == ordered[index] IN
        /\ informed' = informed \cup {c}
        /\ IF c \in BlackedFor(dist)
             THEN /\ ordered' = RemoveAt(ordered, index)
                  /\ dropped' = dropped \cup {c}
             ELSE UNCHANGED <<ordered, dropped>>
    /\ index' = index + 1
    /\ UNCHANGED <<unseen, stack, dist>>

OrderNext ==
    \/ \E c \in Class : NextState(c)
    \/ VisitDependency
    \/ ReturnFromUpdate
    \/ StartInform
    \/ Inform

OrderSpec == OrderInit /\ [][OrderNext]_orderVars

Built == index > Len(ordered)

-----------------------------------------------------------------------------
Position(c) == CHOOSE k \in DOMAIN ordered : ordered[k] = c

\* In whatever order the dict yields the classes, the list handed to backup
\* and check places every class behind the classes it depends on, and no
\* class twice (dependency_update; state.py lines 26-35).
DependenciesFirst ==
    /\ IsInjective(ordered)
    /\ \A c \in ToSet(ordered) : \A d \in DependsOn(c) :
          (d \in Class \ dropped) =>
              d \in ToSet(ordered) /\ Position(d) < Position(c)

\* No class is lost: once the list is built it holds every class but the
\* dropped ones, although the walk skips visits and removals shift it.
NothingLost ==
    Encapsulated => ToSet(ordered) = Class \ dropped

\* ServiceState.get_names looks at the distribution to decide whether tgtd
\* is a service of the host, so the loop must never skip ServiceState even
\* though it skips elements behind a removed one (state.py lines 53-59).
ServiceIsInformed == Built /\ index > 0 => "ServiceState" \in informed

\* What the skipping does cost: a blacklisted class stays monitored, or a
\* class stays uninformed, only when a removed class stood right before it;
\* so at most one class per removed one.
SkippedBehindRemoved ==
    Built /\ index > 0 =>
        LET skipped == Class \ informed
        IN /\ Cardinality(skipped) <= Cardinality(dropped)
           /\ \A c \in skipped : c \in ToSet(ordered)
           /\ BlackedFor(dist) \cap ToSet(ordered) \subseteq skipped
=============================================================================
