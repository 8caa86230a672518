---------------------------- MODULE PerfRecords ----------------------------
(***************************************************************************)
(* The performance data of the cluster (cluster_performance_handler.py):   *)
(* every round a ClusterRecord thread per item asks the hosts one after    *)
(* the other for what their node records, adds it up, and saves the sum    *)
(* with the round's time in the item's sqlite table.  The round waits for  *)
(* its threads only so long; a thread may write when later rounds did.     *)
(***************************************************************************)
EXTENDS FiniteSets, Integers

CONSTANTS
    Item,     \* what is recorded; each has a database with one table
    Counts,   \* items that count something ('num', 'times'), others are sizes
    Hosts,    \* how many are in /etc/hosts
    Told,     \* item -> what a host may tell: numbers, or tenths of a Kilo
    Kilo,     \* bytes of the unit (1024)
    Hour,     \* ticks that a row is kept
    LastTick, \* bound of the time
    Starts    \* the times at which a round starts

PerfAssumption ==
    /\ Counts \subseteq Item /\ Kilo \in Nat \ {0} /\ Hour \in Nat \ {0}
    /\ LastTick \in Nat /\ Starts \subseteq 0..LastTick
    /\ Told \in [Item -> SUBSET [n : Nat, unit : {"B", "KB", "num"}]]
    /\ \A i \in Item : \A t \in Told[i] : t.unit = "num" <=> i \in Counts
    /\ Hosts \in Nat /\ IsFiniteSet(Item)

VARIABLES
    clock,      \* the time, by which rounds are named
    recorder,   \* item -> round -> its thread: where it is and what it added up
    perfTable,  \* item -> rows
    hasTable,   \* items whose table was created
    dbLock,     \* item -> round whose thread has its transaction open
    shown,      \* item -> the round that the last query for current data showed
    overdue        \* item -> rounds that were saved when they were older than an hour

vars == <<clock, recorder, perfTable, hasTable, dbLock, shown, overdue>>

Round  == Starts
NoOne  == -1
Stages == {"none", "ask", "save", "commit", "done", "lost"}
Amount == [n : Nat, unit : {"B", "KB", "num", ""}]

\* A thread: the hosts it has to ask, the sum so far, the unit of the last answer;
\* when it began to save; tenths of a byte it was told and answers it cut (history).
NoThread == [at |-> "none", left |-> 0, sum |-> 0, unit |-> "", since |-> 0,
             told |-> 0, cut |-> 0]

TypeOK ==
    /\ clock \in 0..LastTick /\ hasTable \subseteq Item
    /\ dbLock \in [Item -> Round \cup {NoOne}] /\ shown \in [Item -> Round \cup {NoOne}]
    /\ overdue \in [Item -> SUBSET Round]
    /\ \A i \in Item : /\ \A row \in perfTable[i] : row.time \in Round /\ row.value \in Amount
                       /\ \A r \in Round : /\ recorder[i][r].at \in Stages
                                           /\ recorder[i][r].left \in 0..Hosts

Init ==
    /\ clock = 0 /\ hasTable = {}
    /\ recorder = [i \in Item |-> [r \in Round |-> NoThread]]
    /\ perfTable = [i \in Item |-> {}] /\ overdue = [i \in Item |-> {}]
    /\ dbLock = [i \in Item |-> NoOne] /\ shown = [i \in Item |-> NoOne]

Db == <<perfTable, hasTable, dbLock, overdue>>

-----------------------------------------------------------------------------
(* Amounts. *)

\* chang_unit takes the number without its last digit, as the 'B' of the unit was
\* cut off before: '1.5KB' are 1 Kilo.  (Mutant: the next one.)
BugCut(n) == (n + 9) \div 10
Cut(n)    == n \div 10

\* Bytes or times that an answer adds.
Adds(t) == IF t.unit = "KB" THEN Cut(t.n) * Kilo ELSE t.n

\* unit_convert: one digit after the point, to the nearest.
Converted(n) ==
    IF n >= Kilo THEN [n |-> (20 * n + Kilo) \div (2 * Kilo), unit |-> "KB"]
                 ELSE [n |-> n, unit |-> "B"]

\* Without any answer there is no unit, and counts become bytes.
\* (Mutant: they always do.)
BugValue(w) == Converted(w.sum)
Value(w) == IF w.unit = "num" THEN [n |-> w.sum, unit |-> "num"] ELSE Converted(w.sum)

\* Tenths of bytes, or of times, that a value stands for.
Tenths(v) == IF v.unit = "KB" THEN v.n * Kilo ELSE 10 * v.n

-----------------------------------------------------------------------------
(* The threads of a round. *)

Tick == /\ clock < LastTick /\ clock' = clock + 1
        /\ UNCHANGED <<recorder, Db, shown>>

\* cluster_collect_and_write_data; without /etc/hosts there is nobody to ask.
Collect(r) ==
    /\ r = clock /\ \A i \in Item : recorder[i][r].at = "none"
    /\ \E hosts \in {Hosts, 0} :
           recorder' = [i \in Item |-> [recorder[i] EXCEPT ![r].at = "ask", ![r].left = hosts]]
    /\ UNCHANGED <<clock, Db, shown>>

Goto(i, r, s) == recorder' = [recorder EXCEPT ![i][r].at = s]

\* A thread with one more answer.
Answered(w, t) ==
    [w EXCEPT !.left = @ - 1, !.sum = @ + Adds(t), !.unit = t.unit,
              !.told = @ + Tenths(t), !.cut = @ + (IF t.unit = "KB" THEN 1 ELSE 0)]

\* A host that fails is left out; a short output is a zero without a unit.
Ask(i, r) ==
    /\ recorder[i][r].at = "ask" /\ recorder[i][r].left > 0
    /\ \/ recorder' = [recorder EXCEPT ![i][r].left = @ - 1]
       \/ \E t \in Told[i] : recorder' = [recorder EXCEPT ![i][r] = Answered(@, t)]
    /\ UNCHANGED <<clock, Db, shown>>

Asked(i, r) ==
    /\ recorder[i][r].at = "ask" /\ recorder[i][r].left = 0
    /\ Goto(i, r, "save") /\ UNCHANGED <<clock, Db, shown>>

\* save_perf_data: what is older than an hour is deleted, then the row inserted.
\* (Mutant: .. what is as old as the row.)
BugExpired(i, r) == {row \in perfTable[i] : row.time < r}
Expired(i, r)    == {row \in perfTable[i] : row.time < recorder[i][r].since - Hour}

Insert(i, r) ==
    perfTable' = [perfTable EXCEPT ![i] = (@ \ Expired(i, r)) \cup
                                          {[time |-> r, value |-> Value(recorder[i][r])]}]

\* The transaction of another thread must end within five seconds.
Save(i, r) ==
    /\ recorder[i][r].at = "save"
    /\ IF dbLock[i] = NoOne
       THEN /\ dbLock' = [dbLock EXCEPT ![i] = r]
            /\ recorder' = [recorder EXCEPT ![i][r].at = "commit", ![i][r].since = clock]
       ELSE Goto(i, r, "lost") /\ UNCHANGED dbLock
    /\ UNCHANGED <<clock, perfTable, hasTable, overdue, shown>>

\* (Mutant: a table that is created again is empty.)
BugCommit(i, r) ==
    /\ recorder[i][r].at = "commit"
    /\ perfTable' = [perfTable EXCEPT ![i] = {[time |-> r, value |-> Value(recorder[i][r])]}]
    /\ hasTable' = hasTable \cup {i} /\ dbLock' = [dbLock EXCEPT ![i] = NoOne]
    /\ overdue' = [overdue EXCEPT ![i] = IF r < recorder[i][r].since - Hour THEN @ \cup {r} ELSE @]
    /\ Goto(i, r, "done") /\ UNCHANGED <<clock, shown>>
Commit(i, r) ==
    /\ recorder[i][r].at = "commit"
    /\ Insert(i, r) /\ hasTable' = hasTable \cup {i}
    /\ dbLock' = [dbLock EXCEPT ![i] = NoOne]
    /\ overdue' = [overdue EXCEPT ![i] = IF r < recorder[i][r].since - Hour THEN @ \cup {r} ELSE @]
    /\ Goto(i, r, "done") /\ UNCHANGED <<clock, shown>>


-----------------------------------------------------------------------------
(* query_perf_data. *)

Newest(i) == {row \in perfTable[i] : \A q \in perfTable[i] : q.time <= row.time}

\* Period 0 asks for the latest record; a missing table is created and shows nothing.
\* (Mutant: any row.)
BugQuery(i) ==
    /\ hasTable' = hasTable \cup {i}
    /\ \E row \in perfTable[i] : shown' = [shown EXCEPT ![i] = row.time]
    /\ UNCHANGED <<clock, recorder, perfTable, dbLock, overdue>>
Query(i) ==
    /\ hasTable' = hasTable \cup {i}
    /\ IF Newest(i) = {} THEN UNCHANGED shown
       ELSE \E row \in Newest(i) : shown' = [shown EXCEPT ![i] = row.time]
    /\ UNCHANGED <<clock, recorder, perfTable, dbLock, overdue>>

Thread(i, r) == Ask(i, r) \/ Asked(i, r) \/ Save(i, r) \/ Commit(i, r)

Next ==
    \/ Tick
    \/ \E r \in Round : Collect(r) \/ \E i \in Item : Thread(i, r)
    \/ \E i \in Item : Query(i)

Spec == Init /\ [][Next]_vars

-----------------------------------------------------------------------------
(* What the code keeps. *)

\* A row is the sum of what the hosts told that answered, less one unit for each
\* answer whose last digit was cut off, and the rounding of the sum.
SumsAreClose ==
    \A i \in Item : \A row \in perfTable[i] :
        LET w == recorder[i][row.time]
        IN /\ 2 * Tenths(row.value) <= 2 * w.told + Kilo
           /\ 2 * Tenths(row.value) + Kilo >= 2 * (w.told - 10 * Kilo * w.cut)

\* A count that is recorded as bytes is nobody's answer.
BytesAreNothing ==
    \A i \in Counts : \A row \in perfTable[i] :
        row.value.unit # "num" => row.value.n = 0 /\ recorder[i][row.time].told = 0

\* What a thread saved stays for an hour, though the threads of other rounds write
\* between.
SavedStays ==
    \A i \in Item : \A r \in Round :
        recorder[i][r].at = "done" /\ r >= clock - Hour => \E row \in perfTable[i] : row.time = r

\* Current data never go back, but to a round that was saved when it was older than
\* an hour.
ShownGoesOn ==
    [][\A i \in Item : shown'[i] >= shown[i] \/ shown'[i] \in overdue[i]]_vars
=============================================================================
