------------------------------ MODULE TestMatch ------------------------------
(***************************************************************************)
(* utils.test_match: whether the dotted name of a test matches one of a    *)
(* list of patterns.  The segments of a pattern are separated by '..'; the *)
(* code takes the first segment, moves along the items of the name until   *)
(* it stands at their head, cuts it off, and goes on with the next one.    *)
(* Matches is what that search has to find out.                            *)
(***************************************************************************)
EXTENDS Integers, Sequences

CONSTANTS
    Name,    \* items of names; an empty one is an item like any other
    Test,    \* names of tests, as sequences of items
    Patterns \* lists of patterns, each a sequence of segments

ASSUME MatchAssumption ==
    /\ Test \subseteq Seq(Name)
    /\ Patterns \subseteq Seq(Seq(Seq(Name) \ {<<>>}))

VARIABLES
    patts,    \* patterns not tried yet
    segments, \* segments of the pattern being tried that are left
    items,    \* items of the name that are left
    point,    \* where the loops are
    query,    \* the arguments: the patterns and the name
    found     \* what was returned

vars == <<patts, segments, items, point, query, found>>

-----------------------------------------------------------------------------
(* What a match is: each segment stands somewhere in the name, each after  *)
(* the end of those before it.                                             *)

StandsAt(seg, name, n) ==
    /\ n + Len(seg) <= Len(name)
    /\ \A k \in 1..Len(seg) : name[n + k] = seg[k]

Fits(segs, name) ==
    \E at \in [1..Len(segs) -> 0..Len(name)] :
        \A k \in 1..Len(segs) :
            /\ StandsAt(segs[k], name, at[k])
            /\ \A j \in 1..(k - 1) : at[j] + Len(segs[j]) <= at[k]

Matches(list, name) == \E p \in 1..Len(list) : Fits(list[p], name)

-----------------------------------------------------------------------------
(* The search. *)

Occurs(name, s) == \E k \in 1..Len(s) : s[k] = name
Drop(s, n) == SubSeq(s, n + 1, Len(s))

\* items[idx:len(seg)] = seg, idx being the first place of seg[0]: the slice is
\* as long as the segment only if idx is 0.
AtHead(seg, s) == StandsAt(seg, s, 0)

TypeOK ==
    /\ query \in Patterns \X Test /\ patts \in Seq(Seq(Seq(Name) \ {<<>>}))
    /\ segments \in Seq(Seq(Name) \ {<<>>}) /\ items \in Seq(Name)
    /\ point \in {"pattern", "segment", "find", "done"} /\ found \in BOOLEAN

Init ==
    /\ query \in Patterns \X Test
    /\ patts = query[1] /\ segments = <<>> /\ items = query[2]
    /\ point = "pattern" /\ found = FALSE

NextPattern ==
    /\ point = "pattern" /\ patts # <<>>
    /\ segments' = Head(patts) /\ patts' = Tail(patts) /\ items' = query[2]
    /\ point' = "segment"
    /\ UNCHANGED <<query, found>>

NoMatch ==
    /\ point = "pattern" /\ patts = <<>>
    /\ found' = FALSE /\ point' = "done"
    /\ UNCHANGED <<patts, segments, items, query>>

NextSegment ==
    /\ point = "segment" /\ segments # <<>>
    /\ point' = "find"
    /\ UNCHANGED <<patts, segments, items, query, found>>

AllFound ==
    /\ point = "segment" /\ segments = <<>>
    /\ found' = TRUE /\ point' = "done"
    /\ UNCHANGED <<patts, segments, items, query>>

\* items.index raises ValueError.
GiveUp ==
    /\ point = "find" /\ ~Occurs(segments[1][1], items)
    /\ point' = "pattern"
    /\ UNCHANGED <<patts, segments, items, query, found>>

\* (Mutants of Cut: the last item of a segment is left for the next one; of
\* Move: nothing is deleted.)
BugCut ==
    /\ point = "find" /\ Occurs(segments[1][1], items) /\ AtHead(segments[1], items)
    /\ items' = Drop(items, Len(segments[1]) - 1)
    /\ segments' = Tail(segments) /\ point' = "segment"
    /\ UNCHANGED <<patts, query, found>>
Cut ==
    /\ point = "find" /\ Occurs(segments[1][1], items) /\ AtHead(segments[1], items)
    /\ items' = Drop(items, Len(segments[1]))
    /\ segments' = Tail(segments) /\ point' = "segment"
    /\ UNCHANGED <<patts, query, found>>

BugMove ==
    /\ point = "find" /\ Occurs(segments[1][1], items) /\ ~AtHead(segments[1], items)
    /\ items' = items
    /\ UNCHANGED <<patts, segments, point, query, found>>
Move ==
    /\ point = "find" /\ Occurs(segments[1][1], items) /\ ~AtHead(segments[1], items)
    /\ items' = Drop(items, 1)
    /\ UNCHANGED <<patts, segments, point, query, found>>

Next == NextPattern \/ NoMatch \/ NextSegment \/ AllFound \/ GiveUp \/ Cut \/ Move

Spec == Init /\ [][Next]_vars
FairSpec == Spec /\ WF_vars(Next)

-----------------------------------------------------------------------------
(* What the search finds. *)

\* What is returned is whether the name matches: taking the first place of every
\* segment loses no match, and no item is used by two of them.
AnswerIsRight == point = "done" => (found <=> Matches(query[1], query[2]))

\* It always returns.
Returns == <>(point = "done")
=============================================================================
