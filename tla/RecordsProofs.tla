---------------------------- MODULE RecordsProofs ----------------------------
(***************************************************************************)
(* What calls and jobs leave in tables and services, for any number of     *)
(* them.  No card is overdrawn (NoOverdraft of CardAccounts), with any     *)
(* prices and a disk that fails or not, and on one that does not what left *)
(* a card is billed; users are locked by failures only (UserAccounts);     *)
(* bills are on statements (CardStatements).  What jobs report is on the   *)
(* dashboard, in ResultsDB and in Jira once (DashboardUpload, ResultGroups *)
(* and IssueReport), whatever they do at the same time and however often   *)
(* they are started again; the data of the cluster are what was answered   *)
(* (PerfRecords); and each bug has its issue (BugTracking).                *)
(***************************************************************************)
EXTENDS CardAccounts, TLAPS, SequenceTheorems, FiniteSetTheorems, WellFoundedInduction

(* The constants and variables of the dashboard; *)
CONSTANTS UploadCase, Forced, Dated, Submit, MaxUploads
VARIABLES upload, starts, unposted, run, posted, refused, erring, broken, submitted

Upload == INSTANCE DashboardUpload WITH
    TestCase <- UploadCase, Force <- Forced, MaxTries <- MaxUploads

(* those of the groups of ResultsDB; *)
CONSTANTS ReportJob, ResultCase, ResultTag, MaxGroupings
VARIABLES grouping, begun, described, told, mine, unstored, groups, results

Groups == INSTANCE ResultGroups WITH
    Job <- ReportJob, TestCase <- ResultCase, Tag <- ResultTag,
    MaxTries <- MaxGroupings

(* those of the issues of Jira; *)
CONSTANTS Message, Passed, Threshold, MaxReports, People
VARIABLES report, reports, cases, known, pending, issues, erred

Issues == INSTANCE IssueReport WITH Job <- ReportJob, MaxRuns <- MaxReports

(* those of the users of the cards; *)
CONSTANTS Customer, Regulars, UserObj, NoCustomer, MaxLogins, MaxStores
VARIABLES table, clients, looping, stores, fails, locking

Users == INSTANCE UserAccounts WITH
    User <- Customer, Known <- Regulars, Obj <- UserObj, NoUser <- NoCustomer,
    MaxTries <- MaxLogins, MaxCalls <- MaxStores

(* those of their statements; *)
CONSTANTS StatementDay, MonthDays, PayDay, DayRate, LastBillDay, MaxStatements
VARIABLES now, bill, booked, statements, ran, missed, read, killed

Statements == INSTANCE CardStatements WITH
    Days <- MonthDays, Rate <- DayRate, LastDay <- LastBillDay, MaxRuns <- MaxStatements

(* those of the performance data; *)
CONSTANTS PerfItem, Counts, PerfHosts, Told, Kilo, Hour, LastTick, Starts
VARIABLES clock, recorder, perfTable, hasTable, dbLock, shown, overdue

Perf == INSTANCE PerfRecords WITH Item <- PerfItem, Hosts <- PerfHosts

(* and those of the tracked bugs. *)
CONSTANTS TrackedBug, NumbersIn, BugFlag, ParentOf, Contact, LeadOf, NoContact, FirstBugs,
          BugCommands, MaxBugRuns, MaxBugChanges, MaxBugFaults
VARIABLES bugs, tracker, sync, upset

Bugs == INSTANCE BugTracking WITH
    Bug <- TrackedBug, Flag <- BugFlag, QA <- Contact, Nobody <- NoContact,
    First <- FirstBugs, Commands <- BugCommands, MaxRuns <- MaxBugRuns,
    MaxChanges <- MaxBugChanges, MaxFaults <- MaxBugFaults

-----------------------------------------------------------------------------
(* Cards.  NoOverdraft is not inductive: what is written to the table is   *)
(* the copy of an object, what is taken from the copy is a step of todo    *)
(* that an earlier check admitted.  So the invariant says that every       *)
(* balance of the table and of every copy is a natural number, and that    *)
(* the object to be charged has the sums that are still to be charged to   *)
(* it: one, or a sum and its fee, always of one object.                    *)

Balance   == [bal : Nat, pw : Nat]
Tables    == UNION {[S -> Balance] : S \in SUBSET Card}
Object    == [card : Card, snap : Tables, bal : Nat, pw : Nat]
StepKinds == {"charge", "bill", "shop", "open", "write", "top", "hist"}
FileSteps == [k : StepKinds, o : Obj, n : Nat]

CardType ==
    /\ db \in Tables
    /\ objs \in [Obj -> Object \cup {NoObj}]
    /\ todo \in Seq(FileSteps)

Charges(s, i) == i \in 1..Len(s) /\ s[i].k = "charge"

\* The objects that s is to charge have the sums.
CoversEach(s, purse) == \A i \in 1..Len(s) : Charges(s, i) => s[i].n <= purse[s[i].o].bal
CoversBoth(s, purse) ==
    \A i, j \in 1..Len(s) : Charges(s, i) /\ Charges(s, j) /\ i # j =>
        s[i].o = s[j].o /\ s[i].n + s[j].n <= purse[s[i].o].bal
AtMostTwo(s) ==
    \A i, j, k \in 1..Len(s) :
        Charges(s, i) /\ Charges(s, j) /\ Charges(s, k) => i = j \/ j = k \/ i = k

CoveredBy(s, purse) == CoversEach(s, purse) /\ CoversBoth(s, purse) /\ AtMostTwo(s)
AttendedBy(s, purse) == \A i \in 1..Len(s) : purse[s[i].o] \in Object

CardInv == CardType /\ AttendedBy(todo, objs) /\ CoveredBy(todo, objs)

\* A price and its fee are natural numbers.
LEMMA FeeIsNat == ASSUME NEW n \in Price PROVE n \in Nat /\ Fee(n) \in Nat
BY CardAssumption DEF CardAssumption, Fee

-----------------------------------------------------------------------------
(* What the calls have to do. *)

TwoPays(o, n, m) == Pay(o, n) \o Pay(o, m)
PaysAndTopUp(o, r, n, m, k) == Pay(o, n) \o Pay(o, m) \o TopUp(r, k)
ShopSteps(o, n) ==
    <<Step("charge", o, n), Step("shop", o, n)>> \o Save(o) \o <<Step("hist", o, n)>>

TwoCharges(s, o, n, m) ==
    /\ s \in Seq(FileSteps) /\ Len(s) >= 8
    /\ s[1] = Step("charge", o, n) /\ s[5] = Step("charge", o, m)
    /\ \A i \in 1..Len(s) : s[i].k = "charge" => i = 1 \/ i = 5
DoneBy(s, who) == \A i \in 1..Len(s) : s[i].o \in who

\* The elements of a concatenation, for the lengths as they are.
LEMMA Parts ==
    ASSUME NEW s \in Seq(FileSteps), NEW t \in Seq(FileSteps)
    PROVE  /\ s \o t \in Seq(FileSteps) /\ Len(s \o t) = Len(s) + Len(t)
           /\ \A i \in 1..Len(s) : (s \o t)[i] = s[i]
           /\ \A i \in (Len(s) + 1)..(Len(s) + Len(t)) :
                  i - Len(s) \in 1..Len(t) /\ (s \o t)[i] = t[i - Len(s)]
<1>1. Len(s) \in Nat /\ Len(t) \in Nat
  OBVIOUS
<1> QED BY <1>1, ConcatProperties

\* The steps of a sequence of file steps have the types of their fields.
LEMMA StepTypes ==
    ASSUME NEW s \in Seq(FileSteps)
    PROVE  \A i \in 1..Len(s) :
               s[i] \in FileSteps /\ s[i].k \in StepKinds /\ s[i].o \in Obj /\ s[i].n \in Nat
<1>1. \A f \in FileSteps : f.k \in StepKinds /\ f.o \in Obj /\ f.n \in Nat
  BY DEF FileSteps
<1>2. \A i \in 1..Len(s) : s[i] \in FileSteps
  OBVIOUS
<1> QED BY <1>1, <1>2

\* What Step makes is a file step with the fields it was given.
LEMMA StepIsFileStep ==
    ASSUME NEW k \in StepKinds, NEW o \in Obj, NEW n \in Nat
    PROVE  /\ Step(k, o, n) \in FileSteps
           /\ Step(k, o, n).k = k /\ Step(k, o, n).o = o /\ Step(k, o, n).n = n
BY DEF Step, FileSteps

\* Saving charges nobody.
LEMMA SaveShape ==
    ASSUME NEW o \in Obj
    PROVE  /\ Save(o) \in Seq(FileSteps) /\ Len(Save(o)) = 2
           /\ \A i \in 1..2 : Save(o)[i].o = o /\ Save(o)[i].k # "charge"
<1>1. Step("open", o, 0) \in FileSteps /\ Step("write", o, 0) \in FileSteps
  BY StepIsFileStep DEF StepKinds
<1>2. /\ Step("open", o, 0).o = o /\ Step("open", o, 0).k = "open"
      /\ Step("write", o, 0).o = o /\ Step("write", o, 0).k = "write"
  BY DEF Step
<1> QED BY <1>1, <1>2 DEF Save

\* A payment charges its object once, first.
LEMMA PayShape ==
    ASSUME NEW o \in Obj, NEW n \in Nat
    PROVE  /\ Pay(o, n) \in Seq(FileSteps) /\ Len(Pay(o, n)) = 4
           /\ Pay(o, n)[1] = Step("charge", o, n)
           /\ \A i \in 1..4 : Pay(o, n)[i].o = o /\ (Pay(o, n)[i].k = "charge" => i = 1)
<1> DEFINE first == <<Step("charge", o, n), Step("bill", o, n)>>
<1>1. /\ first \in Seq(FileSteps) /\ Len(first) = 2 /\ first[1] = Step("charge", o, n)
      /\ first[2] = Step("bill", o, n)
  BY StepIsFileStep DEF StepKinds
<1>2. \A i \in 1..2 : first[i].o = o /\ (first[i].k = "charge" => i = 1)
  BY DEF Step
<1> HIDE DEF first
<1>3. Pay(o, n) = first \o Save(o)
  BY DEF Pay, first
<1> QED BY <1>1, <1>2, <1>3, SaveShape, ConcatProperties

\* A credit charges nobody.
LEMMA TopUpShape ==
    ASSUME NEW o \in Obj, NEW n \in Nat
    PROVE  /\ TopUp(o, n) \in Seq(FileSteps) /\ Len(TopUp(o, n)) = 3
           /\ \A i \in 1..3 : TopUp(o, n)[i].o = o /\ TopUp(o, n)[i].k # "charge"
<1> DEFINE first == <<Step("top", o, n)>>
<1>1. /\ first \in Seq(FileSteps) /\ Len(first) = 1
      /\ first[1].o = o /\ first[1].k # "charge"
  BY StepIsFileStep DEF StepKinds, Step
<1> HIDE DEF first
<1>2. TopUp(o, n) = first \o Save(o)
  BY DEF TopUp, first
<1>3. /\ TopUp(o, n) \in Seq(FileSteps) /\ Len(TopUp(o, n)) = 3 /\ TopUp(o, n)[1] = first[1]
      /\ \A i \in 2..3 : i - 1 \in 1..2 /\ TopUp(o, n)[i] = Save(o)[i - 1]
  <2> DEFINE rest == Save(o)
  <2>1. rest \in Seq(FileSteps) /\ Len(rest) = 2
    BY SaveShape
  <2> HIDE DEF rest
  <2>2. /\ first \o rest \in Seq(FileSteps) /\ Len(first \o rest) = Len(first) + Len(rest)
        /\ \A i \in 1..Len(first) : (first \o rest)[i] = first[i]
        /\ \A i \in (Len(first) + 1)..(Len(first) + Len(rest)) :
               i - Len(first) \in 1..Len(rest) /\ (first \o rest)[i] = rest[i - Len(first)]
    BY <1>1, <2>1, Parts
  <2> QED BY <1>1, <1>2, <2>1, <2>2 DEF rest
<1>4. ASSUME NEW i \in 1..3 PROVE TopUp(o, n)[i].o = o /\ TopUp(o, n)[i].k # "charge"
  <2>1. CASE i = 1 BY <2>1, <1>1, <1>3
  <2>2. CASE i \in 2..3 BY <2>2, <1>3, SaveShape
  <2> QED BY <2>1, <2>2
<1> QED BY <1>3, <1>4

\* The payment of a cart charges its object once, first.
LEMMA ShopShape ==
    ASSUME NEW o \in Obj, NEW n \in Nat
    PROVE  /\ ShopSteps(o, n) \in Seq(FileSteps) /\ Len(ShopSteps(o, n)) = 5
           /\ ShopSteps(o, n)[1] = Step("charge", o, n)
           /\ ShopSteps(o, n)[2] = Step("shop", o, n) /\ ShopSteps(o, n)[5] = Step("hist", o, n)
           /\ \A i \in 1..5 : ShopSteps(o, n)[i].o = o /\ (ShopSteps(o, n)[i].k = "charge" => i = 1)
<1> DEFINE first == <<Step("charge", o, n), Step("shop", o, n)>>
           last  == <<Step("hist", o, n)>>
           both  == first \o Save(o)
<1>1. /\ first \in Seq(FileSteps) /\ Len(first) = 2 /\ first[1] = Step("charge", o, n)
      /\ first[2] = Step("shop", o, n)
  BY StepIsFileStep DEF StepKinds
<1>2. \A i \in 1..2 : first[i].o = o /\ (first[i].k = "charge" => i = 1)
  BY DEF Step
<1>3. /\ last \in Seq(FileSteps) /\ Len(last) = 1 /\ last[1].o = o /\ last[1].k # "charge"
      /\ last[1] = Step("hist", o, n)
  BY StepIsFileStep DEF StepKinds, Step
<1>4. ShopSteps(o, n) = both \o last
  BY DEF ShopSteps
<1> HIDE DEF first, last
<1>5. /\ both \in Seq(FileSteps) /\ Len(both) = 4 /\ both[1] = Step("charge", o, n)
      /\ both[2] = first[2] /\ \A i \in 3..4 : i - 2 \in 1..2 /\ both[i] = Save(o)[i - 2]
  <2> DEFINE rest == Save(o)
  <2>1. rest \in Seq(FileSteps) /\ Len(rest) = 2
    BY SaveShape
  <2> HIDE DEF rest
  <2>2. /\ first \o rest \in Seq(FileSteps) /\ Len(first \o rest) = Len(first) + Len(rest)
        /\ \A i \in 1..Len(first) : (first \o rest)[i] = first[i]
        /\ \A i \in (Len(first) + 1)..(Len(first) + Len(rest)) :
               i - Len(first) \in 1..Len(rest) /\ (first \o rest)[i] = rest[i - Len(first)]
    BY <1>1, <2>1, Parts
  <2> QED BY <1>1, <2>1, <2>2 DEF rest
<1>6. ASSUME NEW i \in 1..4 PROVE both[i].o = o /\ (both[i].k = "charge" => i = 1)
  <2>1. CASE i \in 1..2 BY <2>1, <1>1, <1>2, <1>5
  <2>2. CASE i \in 3..4 BY <2>2, <1>5, SaveShape
  <2>3. i \in 1..2 \/ i \in 3..4
    BY <1>6
  <2> QED BY <2>1, <2>2, <2>3
<1> HIDE DEF both
<1>7. /\ ShopSteps(o, n) \in Seq(FileSteps) /\ Len(ShopSteps(o, n)) = 5
      /\ ShopSteps(o, n)[5] = last[1]
      /\ \A i \in 1..4 : ShopSteps(o, n)[i] = both[i]
  <2>1. /\ both \o last \in Seq(FileSteps) /\ Len(both \o last) = Len(both) + Len(last)
        /\ \A i \in 1..Len(both) : (both \o last)[i] = both[i]
        /\ \A i \in (Len(both) + 1)..(Len(both) + Len(last)) :
              (both \o last)[i] = last[i - Len(both)]
    BY <1>3, <1>5, Parts
  <2>2. Len(both) = 4 /\ Len(last) = 1
    BY <1>3, <1>5
  <2>3. 5 \in (Len(both) + 1)..(Len(both) + Len(last)) /\ 5 - Len(both) = 1
    BY <2>2
  <2>4. (both \o last)[5] = last[1]
    BY <2>1, <2>3
  <2> DEFINE whole == both \o last
  <2>5. Len(whole) = Len(both) + Len(last) /\ \A i \in 1..Len(both) : whole[i] = both[i]
    BY <2>1
  <2> HIDE DEF whole
  <2>6. Len(whole) = 5 /\ \A i \in 1..4 : whole[i] = both[i]
    BY <2>2, <2>5
  <2> QED BY <1>4, <2>1, <2>4, <2>6 DEF whole
<1>8. ASSUME NEW i \in 1..5
      PROVE  ShopSteps(o, n)[i].o = o /\ (ShopSteps(o, n)[i].k = "charge" => i = 1)
  <2>1. CASE i \in 1..4 BY <2>1, <1>6, <1>7
  <2>2. CASE i = 5 BY <2>2, <1>3, <1>7
  <2>3. i \in 1..4 \/ i = 5
    BY <1>8
  <2> QED BY <2>1, <2>2, <2>3
<1> QED BY <1>1, <1>3, <1>5, <1>7, <1>8

\* A table in which a card is changed or added is a table.
LEMMA TablesSnap ==
    ASSUME NEW t \in Tables, NEW c \in Card, NEW v \in Balance
    PROVE  /\ [t EXCEPT ![c] = v] \in Tables
           /\ [d \in DOMAIN t \cup {c} |-> IF d = c THEN v ELSE t[d]] \in Tables
           /\ \A b \in Nat : [t EXCEPT ![c].bal = b] \in Tables
<1>1. PICK S \in SUBSET Card : t \in [S -> Balance]
  BY DEF Tables
<1>2. [t EXCEPT ![c] = v] \in [S -> Balance]
  BY <1>1
<1>3. [d \in DOMAIN t \cup {c} |-> IF d = c THEN v ELSE t[d]] \in [S \cup {c} -> Balance]
  BY <1>1
<1>4. \A b \in Nat : [t EXCEPT ![c].bal = b] \in [S -> Balance]
  BY <1>1 DEF Balance
<1> QED BY <1>2, <1>3, <1>4 DEF Tables

-----------------------------------------------------------------------------
(* What a call leaves to do is covered by the object it is to be charged to. *)

\* Fetching money charges the sum and then the fee.
LEMMA FetchShape ==
    ASSUME NEW o \in Obj, NEW n \in Nat, NEW m \in Nat
    PROVE  /\ TwoCharges(TwoPays(o, n, m), o, n, m) /\ DoneBy(TwoPays(o, n, m), {o})
           /\ Len(TwoPays(o, n, m)) = 8
<1> DEFINE p == Pay(o, n)  q == Pay(o, m)  whole == p \o q
<1>1. /\ p \in Seq(FileSteps) /\ Len(p) = 4 /\ p[1] = Step("charge", o, n)
      /\ \A i \in 1..4 : p[i].o = o /\ (p[i].k = "charge" => i = 1)
  BY PayShape
<1>2. /\ q \in Seq(FileSteps) /\ Len(q) = 4 /\ q[1] = Step("charge", o, m)
      /\ \A i \in 1..4 : q[i].o = o /\ (q[i].k = "charge" => i = 1)
  BY PayShape
<1> HIDE DEF p, q
<1>3. /\ whole \in Seq(FileSteps) /\ Len(whole) = Len(p) + Len(q)
      /\ \A i \in 1..Len(p) : whole[i] = p[i]
      /\ \A i \in (Len(p) + 1)..(Len(p) + Len(q)) :
             i - Len(p) \in 1..Len(q) /\ whole[i] = q[i - Len(p)]
  BY <1>1, <1>2, Parts
<1>0. TwoPays(o, n, m) = whole
  BY DEF p, q, TwoPays
<1> HIDE DEF whole
<1>4. /\ Len(whole) = 8 /\ \A i \in 1..4 : whole[i] = p[i]
      /\ \A i \in 5..8 : i - 4 \in 1..4 /\ whole[i] = q[i - 4]
  BY <1>1, <1>2, <1>3
<1>5. whole[1] = p[1] /\ whole[5] = q[1]
  BY <1>4
<1>6. ASSUME NEW i \in 1..8 PROVE whole[i].o = o /\ (whole[i].k = "charge" => i = 1 \/ i = 5)
  <2>1. CASE i \in 1..4 BY <2>1, <1>1, <1>4
  <2>2. CASE i \in 5..8
    <3>1. i - 4 \in 1..4 /\ whole[i] = q[i - 4]
      BY <2>2, <1>4
    <3>2. q[i - 4].o = o /\ (q[i - 4].k = "charge" => i - 4 = 1)
      BY <3>1, <1>2
    <3> QED BY <3>1, <3>2
  <2>3. i \in 1..4 \/ i \in 5..8
    BY <1>6
  <2> QED BY <2>1, <2>2, <2>3
<1> QED BY <1>0, <1>1, <1>2, <1>3, <1>4, <1>5, <1>6 DEF TwoCharges, DoneBy

\* Translating money does the same, and then credits the other object.
LEMMA TranslateShape ==
    ASSUME NEW o \in Obj, NEW r \in Obj, NEW n \in Nat, NEW m \in Nat, NEW k \in Nat
    PROVE  /\ TwoCharges(PaysAndTopUp(o, r, n, m, k), o, n, m)
           /\ DoneBy(PaysAndTopUp(o, r, n, m, k), {o, r})
<1> DEFINE p == TwoPays(o, n, m)
           q == TopUp(r, k)  whole == p \o q
<1>1. /\ p \in Seq(FileSteps) /\ Len(p) = 8
      /\ p[1] = Step("charge", o, n) /\ p[5] = Step("charge", o, m)
      /\ \A i \in 1..8 : p[i].o = o /\ (p[i].k = "charge" => i = 1 \/ i = 5)
  <2>1. TwoCharges(p, o, n, m) /\ DoneBy(p, {o}) /\ Len(p) = 8
    BY FetchShape
  <2> HIDE DEF p
  <2> QED BY <2>1 DEF TwoCharges, DoneBy
<1>2. /\ q \in Seq(FileSteps) /\ Len(q) = 3 /\ \A i \in 1..3 : q[i].o = r /\ q[i].k # "charge"
  BY TopUpShape
<1> HIDE DEF p, q
<1>3. /\ whole \in Seq(FileSteps) /\ Len(whole) = Len(p) + Len(q)
      /\ \A i \in 1..Len(p) : whole[i] = p[i]
      /\ \A i \in (Len(p) + 1)..(Len(p) + Len(q)) :
             i - Len(p) \in 1..Len(q) /\ whole[i] = q[i - Len(p)]
  BY <1>1, <1>2, Parts
<1>0. PaysAndTopUp(o, r, n, m, k) = whole
  BY DEF p, q, PaysAndTopUp, TwoPays
<1> HIDE DEF whole
<1>4. /\ Len(whole) = 11 /\ \A i \in 1..8 : whole[i] = p[i]
      /\ \A i \in 9..11 : i - 8 \in 1..3 /\ whole[i] = q[i - 8]
  BY <1>1, <1>2, <1>3
<1>5. whole[1] = p[1] /\ whole[5] = p[5]
  BY <1>4
<1>6. ASSUME NEW i \in 1..11
      PROVE  whole[i].o \in {o, r} /\ (whole[i].k = "charge" => i = 1 \/ i = 5)
  <2>1. CASE i \in 1..8 BY <2>1, <1>1, <1>4
  <2>2. CASE i \in 9..11 BY <2>2, <1>2, <1>4
  <2>3. i \in 1..8 \/ i \in 9..11
    BY <1>6
  <2> QED BY <2>1, <2>2, <2>3
<1>7. TwoCharges(whole, o, n, m)
  <2>0. whole \in Seq(FileSteps) /\ Len(whole) = 11
    BY <1>3, <1>4
  <2>1. whole \in Seq(FileSteps) /\ Len(whole) = 11 /\ Len(whole) >= 8
    BY <2>0
  <2>2. whole[1] = Step("charge", o, n) /\ whole[5] = Step("charge", o, m)
    BY <1>1, <1>5
  <2>3. \A i \in 1..Len(whole) : whole[i].k = "charge" => i = 1 \/ i = 5
    BY <1>6, <2>1
  <2> QED BY <2>1, <2>2, <2>3 DEF TwoCharges
<1>8. DoneBy(whole, {o, r})
  BY <1>4, <1>6 DEF DoneBy
<1> QED BY <1>0, <1>7, <1>8

\* A call charges one object, for one sum or for a sum and its fee.
LEMMA CallIsCovered ==
    ASSUME NEW s \in Seq(FileSteps), NEW o \in Obj, NEW purse, purse[o] \in Object,
           \A i \in 1..Len(s) : s[i].k = "charge" => s[i].o = o /\ (i = 1 \/ i = 5),
           1 \in 1..Len(s) /\ s[1].n <= purse[o].bal,
           5 \in 1..Len(s) /\ s[5].k = "charge" => s[1].n + s[5].n <= purse[o].bal
    PROVE  CoveredBy(s, purse)
<1>2. \A i \in 1..Len(s) : s[i].n \in Nat
  BY StepTypes
<1>3. purse[o].bal \in Nat
  BY DEF Object
<1>4. CoversEach(s, purse)
  BY <1>2, <1>3, SMTT(30) DEF CoversEach, Charges
<1>5. CoversBoth(s, purse)
  <2> SUFFICES ASSUME NEW i \in 1..Len(s), NEW j \in 1..Len(s), Charges(s, i), Charges(s, j), i # j
               PROVE  s[i].o = s[j].o /\ s[i].n + s[j].n <= purse[s[i].o].bal
    BY DEF CoversBoth
  <2>1. s[i].o = o /\ s[j].o = o /\ ((i = 1 /\ j = 5) \/ (i = 5 /\ j = 1))
    BY DEF Charges
  <2>2. CASE i = 1 /\ j = 5 BY <2>1, <2>2 DEF Charges
  <2>3. CASE i = 5 /\ j = 1 BY <2>1, <2>3, <1>2 DEF Charges
  <2> QED BY <2>1, <2>2, <2>3
<1>6. AtMostTwo(s)
  BY DEF AtMostTwo, Charges
<1> QED BY <1>4, <1>5, <1>6 DEF CoveredBy

\* Another step done leaves the rest covered, if no balance went down.
LEMMA RestIsCovered ==
    ASSUME NEW s \in Seq(FileSteps), s # <<>>, NEW purse, NEW next, CoveredBy(s, purse),
           AttendedBy(s, purse),
           \A i \in 2..Len(s) : next[s[i].o] \in Object /\ next[s[i].o].bal >= purse[s[i].o].bal
    PROVE  CoveredBy(Tail(s), next) /\ AttendedBy(Tail(s), next)
<1> DEFINE t == Tail(s)
<1>1. Len(t) = Len(s) - 1 /\ t \in Seq(FileSteps) /\ \A i \in 1..Len(t) : t[i] = s[i + 1]
  BY HeadTailProperties
<1>2. \A i \in 1..Len(t) : i + 1 \in 2..Len(s) /\ i + 1 \in 1..Len(s)
  BY <1>1
<1> HIDE DEF t
<1>3. \A i \in 1..Len(t) : Charges(t, i) => Charges(s, i + 1)
  BY <1>1, <1>2 DEF Charges
<1>4. \A i \in 1..Len(t) : t[i].n \in Nat
  BY <1>1, StepTypes
<1>5. \A i \in 1..Len(t) :
         /\ purse[t[i].o].bal \in Nat /\ next[t[i].o].bal \in Nat
         /\ next[t[i].o].bal >= purse[t[i].o].bal
  BY <1>1, <1>2 DEF AttendedBy, Object
<1>6. CoversEach(t, next)
  <2> SUFFICES ASSUME NEW i \in 1..Len(t), Charges(t, i) PROVE t[i].n <= next[t[i].o].bal
    BY DEF CoversEach
  <2>1. t[i].n <= purse[t[i].o].bal
    BY <1>1, <1>2, <1>3 DEF CoveredBy, CoversEach
  <2> QED BY <2>1, <1>4, <1>5
<1>7. CoversBoth(t, next)
  <2> SUFFICES ASSUME NEW i \in 1..Len(t), NEW j \in 1..Len(t), Charges(t, i), Charges(t, j), i # j
               PROVE  t[i].o = t[j].o /\ t[i].n + t[j].n <= next[t[i].o].bal
    BY DEF CoversBoth
  <2>1. Charges(s, i + 1) /\ Charges(s, j + 1) /\ i + 1 # j + 1
    BY <1>3
  <2>2. t[i].o = t[j].o /\ t[i].n + t[j].n <= purse[t[i].o].bal
    BY <2>1, <1>1, <1>2 DEF CoveredBy, CoversBoth
  <2> QED BY <2>2, <1>4, <1>5
<1>8. AtMostTwo(t)
  <2> SUFFICES ASSUME NEW i \in 1..Len(t), NEW j \in 1..Len(t), NEW k \in 1..Len(t),
                      Charges(t, i), Charges(t, j), Charges(t, k)
               PROVE  i = j \/ j = k \/ i = k
    BY DEF AtMostTwo
  <2>1. Charges(s, i + 1) /\ Charges(s, j + 1) /\ Charges(s, k + 1)
    BY <1>3
  <2>2. i + 1 = j + 1 \/ j + 1 = k + 1 \/ i + 1 = k + 1
    BY <2>1, <1>2 DEF CoveredBy, AtMostTwo
  <2> QED BY <2>2
<1>9. AttendedBy(t, next)
  BY <1>1, <1>2 DEF AttendedBy
<1> QED BY <1>6, <1>7, <1>8, <1>9 DEF CoveredBy, t

\* Once the first sum is charged, what is left covers the other one.
LEMMA ChargeIsCovered ==
    ASSUME NEW s \in Seq(FileSteps), s # <<>>, s[1].k = "charge", NEW purse, NEW next,
           CoveredBy(s, purse), AttendedBy(s, purse),
           next[s[1].o] \in Object, next[s[1].o].bal = purse[s[1].o].bal - s[1].n,
           \A i \in 2..Len(s) : next[s[i].o] \in Object
    PROVE  CoveredBy(Tail(s), next) /\ AttendedBy(Tail(s), next)
<1> DEFINE t == Tail(s)
<1>1. Len(t) = Len(s) - 1 /\ t \in Seq(FileSteps) /\ \A i \in 1..Len(t) : t[i] = s[i + 1]
  BY HeadTailProperties
<1>2. \A i \in 1..Len(t) : i + 1 \in 2..Len(s) /\ i + 1 \in 1..Len(s) /\ i + 1 # 1
  BY <1>1
<1>0. 1 \in 1..Len(s)
  OBVIOUS
<1> HIDE DEF t
<1>3. \A i \in 1..Len(t) : Charges(t, i) => Charges(s, i + 1)
  BY <1>1, <1>2 DEF Charges
<1>4. Charges(s, 1)
  BY <1>0 DEF Charges
<1>5. \A i \in 1..Len(s) : s[i].n \in Nat
  BY StepTypes
<1>6. purse[s[1].o].bal \in Nat
  BY <1>0 DEF AttendedBy, Object
<1>7. CoversEach(t, next)
  <2> SUFFICES ASSUME NEW i \in 1..Len(t), Charges(t, i) PROVE t[i].n <= next[t[i].o].bal
    BY DEF CoversEach
  <2>1. s[1].o = s[i + 1].o /\ s[1].n + s[i + 1].n <= purse[s[1].o].bal
    BY <1>0, <1>2, <1>3, <1>4 DEF CoveredBy, CoversBoth
  <2>2. t[i] = s[i + 1] /\ s[i + 1].n \in Nat /\ s[1].n \in Nat
    BY <1>0, <1>1, <1>2, <1>5
  <2> QED BY <2>1, <2>2, <1>6
<1>8. \A i, j \in 1..Len(t) : Charges(t, i) /\ Charges(t, j) => i = j
  <2> SUFFICES ASSUME NEW i \in 1..Len(t), NEW j \in 1..Len(t), Charges(t, i), Charges(t, j)
               PROVE  i = j
    OBVIOUS
  <2>1. Charges(s, i + 1) /\ Charges(s, j + 1)
    BY <1>3
  <2>2. 1 = i + 1 \/ i + 1 = j + 1 \/ 1 = j + 1
    BY <2>1, <1>0, <1>2, <1>4 DEF CoveredBy, AtMostTwo
  <2> QED BY <2>2, <1>2
<1>9. CoversBoth(t, next) /\ AtMostTwo(t)
  BY <1>8 DEF CoversBoth, AtMostTwo
<1>10. AttendedBy(t, next)
  BY <1>1, <1>2 DEF AttendedBy
<1> QED BY <1>7, <1>9, <1>10 DEF CoveredBy, t

-----------------------------------------------------------------------------
(* The theorem. *)

\* A constructor makes an object with the balance of the table, or with the limit.
LEMMA LoadedIsObject ==
    ASSUME CardType, NEW c \in Card PROVE Loaded(c) \in Object
<1>1. c \in DOMAIN db => db[c] \in Balance
  BY DEF CardType, Tables
<1> QED BY <1>1, CardAssumption DEF CardAssumption, CardType, Loaded, Object, Balance

\* The invariant holds initially.
LEMMA CardInit == ASSUME Init PROVE CardInv
<1>1. db \in Tables
  <2>1. db \in [Opened -> Balance]
    BY CardAssumption DEF Init, CardAssumption, Balance
  <2> QED BY <2>1, CardAssumption DEF CardAssumption, Tables
<1>2. todo = <<>> /\ todo \in Seq(FileSteps) /\ Len(todo) = 0
  BY DEF Init
<1>3. objs \in [Obj -> Object \cup {NoObj}]
  BY DEF Init
<1> QED BY <1>1, <1>2, <1>3
       DEF CardInv, CardType, CoveredBy, CoversEach, CoversBoth, AtMostTwo, AttendedBy

\* While nothing is left to do, objects may come and go.
LEMMA IdleChange ==
    ASSUME CardInv, todo' = <<>>, db' = db, objs' \in [Obj -> Object \cup {NoObj}]
    PROVE  CardInv'
<1>1. todo' \in Seq(FileSteps) /\ Len(todo') = 0
  OBVIOUS
<1> QED BY <1>1 DEF CardInv, CardType, CoveredBy, CoversEach, CoversBoth, AtMostTwo, AttendedBy

\* A new card is saved with a balance that is not negative.
LEMMA CreateCardKeeps ==
    ASSUME CardInv, NEW o \in Obj, CreateCard(o) PROVE CardInv'
<1>1. objs[o] \in Object
  BY DEF CardInv, CardType, CreateCard, Alive
<1> DEFINE c == objs[o].card
           v == [bal |-> objs[o].bal, pw |-> objs[o].pw + 1]
           t == [d \in DOMAIN objs[o].snap \cup {c} |-> IF d = c THEN v ELSE objs[o].snap[d]]
<1>2. c \in Card /\ v \in Balance /\ objs[o].snap \in Tables
  BY <1>1 DEF Object, Balance
<1>3. t \in Tables
  BY <1>2, TablesSnap
<1>4. objs' = [objs EXCEPT ![o].snap = t]
  BY DEF CreateCard
<1> HIDE DEF c, v, t
<1>5. objs' \in [Obj -> Object \cup {NoObj}] /\ objs'[o] \in Object
  BY <1>1, <1>3, <1>4 DEF CardInv, CardType, Object
<1>6. /\ todo' \in Seq(FileSteps) /\ Len(todo') = 2
      /\ \A i \in 1..2 : todo'[i].o = o /\ todo'[i].k # "charge"
  BY SaveShape DEF CreateCard
<1>7. CoveredBy(todo, objs)'
  BY <1>6 DEF CoveredBy, CoversEach, CoversBoth, AtMostTwo, Charges
<1>8. AttendedBy(todo, objs)'
  BY <1>5, <1>6 DEF AttendedBy
<1> QED BY <1>5, <1>6, <1>7, <1>8 DEF CardInv, CardType, CreateCard, store

\* The sum and the fee were checked against the object that is charged.
LEMMA FetchMoneyKeeps ==
    ASSUME CardInv, NEW o \in Obj, NEW n \in Price, FetchMoney(o, n) PROVE CardInv'
<1>1. objs[o] \in Object /\ objs' = objs /\ db' = db
  BY DEF CardInv, CardType, FetchMoney, Alive, store
<1>2. n \in Nat /\ Fee(n) \in Nat
  BY FeeIsNat
<1>3. todo' = TwoPays(o, n, Fee(n)) /\ n + Fee(n) <= objs[o].bal
  BY DEF FetchMoney, Accepts, TwoPays
<1>4. TwoCharges(todo', o, n, Fee(n)) /\ DoneBy(todo', {o})
  BY <1>2, <1>3, FetchShape
<1>5. /\ todo' \in Seq(FileSteps) /\ Len(todo') >= 8
      /\ todo'[1].n = n /\ todo'[1].o = o /\ todo'[5].n = Fee(n) /\ todo'[5].o = o
      /\ \A i \in 1..Len(todo') : todo'[i].k = "charge" => todo'[i].o = o /\ (i = 1 \/ i = 5)
  BY <1>4 DEF Step, TwoCharges
<1>6. objs[o].bal \in Nat
  BY <1>1 DEF Object
<1>7. CoveredBy(todo', objs)
  <2>1. n <= objs[o].bal
    BY <1>2, <1>3, <1>6
  <2>2. 1 \in 1..Len(todo') /\ todo'[1].n <= objs[o].bal /\ todo'[1].n + todo'[5].n <= objs[o].bal
    BY <1>3, <1>5, <2>1
  <2> QED BY <1>1, <1>5, <2>2, CallIsCovered
<1>8. AttendedBy(todo', objs)
  BY <1>1, <1>4 DEF AttendedBy, DoneBy
<1> QED BY <1>1, <1>5, <1>7, <1>8
       DEF CardInv, CardType, CoveredBy, CoversEach, CoversBoth, AttendedBy

\* The same; the object that gets the sum may be the one that pays.
LEMMA TranslateMoneyKeeps ==
    ASSUME CardInv, NEW o \in Obj, NEW r \in Obj, NEW n \in Price, TranslateMoney(o, n, r)
    PROVE  CardInv'
<1>1. objs[o] \in Object /\ objs[r] \in Object /\ objs' = objs /\ db' = db
  BY DEF CardInv, CardType, TranslateMoney, Alive, store
<1>2. n \in Nat /\ Fee(n) \in Nat /\ n + Fee(n) \in Nat
  BY FeeIsNat
<1>3. todo' = PaysAndTopUp(o, r, n, Fee(n), n + Fee(n)) /\ n + Fee(n) <= objs[o].bal
  BY DEF TranslateMoney, Accepts, PaysAndTopUp
<1>4. TwoCharges(todo', o, n, Fee(n)) /\ DoneBy(todo', {o, r})
  BY <1>2, <1>3, TranslateShape
<1>5. /\ todo' \in Seq(FileSteps) /\ Len(todo') >= 8
      /\ todo'[1].n = n /\ todo'[1].o = o /\ todo'[5].n = Fee(n) /\ todo'[5].o = o
      /\ \A i \in 1..Len(todo') : todo'[i].k = "charge" => todo'[i].o = o /\ (i = 1 \/ i = 5)
  BY <1>4 DEF Step, TwoCharges
<1>6. objs[o].bal \in Nat
  BY <1>1 DEF Object
<1>7. CoveredBy(todo', objs)
  <2>1. n <= objs[o].bal
    BY <1>2, <1>3, <1>6
  <2>2. 1 \in 1..Len(todo') /\ todo'[1].n <= objs[o].bal /\ todo'[1].n + todo'[5].n <= objs[o].bal
    BY <1>3, <1>5, <2>1
  <2> QED BY <1>1, <1>5, <2>2, CallIsCovered
<1>8. AttendedBy(todo', objs)
  BY <1>1, <1>4 DEF AttendedBy, DoneBy
<1> QED BY <1>1, <1>5, <1>7, <1>8
       DEF CardInv, CardType, CoveredBy, CoversEach, CoversBoth, AttendedBy

\* The sum of a cart was checked against the object just loaded.
LEMMA PayForShopcartKeeps ==
    ASSUME CardInv, NEW o \in Obj, NEW c \in Card, NEW n \in Price, PayForShopcart(o, c, n)
    PROVE  CardInv'
<1>1. n \in Nat
  BY FeeIsNat
<1>2. Loaded(c) \in Object /\ Loaded(c).bal = db[c].bal
  BY LoadedIsObject DEF CardInv, PayForShopcart, Loaded
<1>3. objs' \in [Obj -> Object \cup {NoObj}] /\ objs'[o] = Loaded(c) /\ db' = db
  BY <1>2 DEF CardInv, CardType, PayForShopcart, store
<1>4. /\ todo' \in Seq(FileSteps) /\ Len(todo') = 5 /\ todo'[1] = Step("charge", o, n)
      /\ \A i \in 1..5 : todo'[i].o = o /\ (todo'[i].k = "charge" => i = 1)
  <2>1. todo' = ShopSteps(o, n)
    BY DEF PayForShopcart, ShopSteps
  <2> QED BY <1>1, <2>1, ShopShape
<1>5. todo'[1].n = n /\ n <= Loaded(c).bal
  BY <1>2, <1>4 DEF Step, PayForShopcart
<1>6. CoveredBy(todo', objs')
  <2>1. /\ 1 \in 1..Len(todo')
        /\ \A i \in 1..Len(todo') : todo'[i].k = "charge" => todo'[i].o = o /\ i = 1
    BY <1>4
  <2>2. ~(5 \in 1..Len(todo') /\ todo'[5].k = "charge")
    BY <2>1
  <2>3. objs'[o] \in Object /\ todo'[1].n <= objs'[o].bal
    BY <1>2, <1>3, <1>5
  <2> QED BY <1>4, <2>1, <2>2, <2>3, CallIsCovered
<1>7. AttendedBy(todo', objs')
  BY <1>2, <1>3, <1>4 DEF AttendedBy
<1> QED BY <1>3, <1>4, <1>6, <1>7
       DEF CardInv, CardType, CoveredBy, CoversEach, CoversBoth, AttendedBy

-----------------------------------------------------------------------------
(* The file operations. *)

\* The object of the next step is there.
LEMMA HeadFacts ==
    ASSUME CardInv, todo # <<>>
    PROVE  /\ Who \in Obj /\ Sum \in Nat /\ objs[Who] \in Object
           /\ Head(todo) = todo[1] /\ 1 \in 1..Len(todo)
           /\ todo \in Seq(FileSteps) /\ Tail(todo) \in Seq(FileSteps)
<1>1. 1 \in 1..Len(todo) /\ todo \in Seq(FileSteps) /\ Head(todo) = todo[1]
  BY DEF CardInv, CardType
<1> QED BY <1>1, StepTypes, HeadTailProperties DEF CardInv, AttendedBy, Who, Sum

\* A step that takes no balance away leaves what is to come covered.
LEMMA StepKeeps ==
    ASSUME CardInv, todo # <<>>, todo' = Tail(todo), db' \in Tables,
           objs' \in [Obj -> Object \cup {NoObj}],
           \A o \in Obj : objs[o] \in Object =>
               objs'[o] \in Object /\ objs'[o].bal >= objs[o].bal
    PROVE  CardInv'
<1>1. \A i \in 2..Len(todo) :
          objs'[todo[i].o] \in Object /\ objs'[todo[i].o].bal >= objs[todo[i].o].bal
  <2>1. \A i \in 2..Len(todo) : i \in 1..Len(todo)
    OBVIOUS
  <2> QED BY <2>1, StepTypes DEF CardInv, CardType, AttendedBy
<1>2. CoveredBy(todo', objs') /\ AttendedBy(todo', objs')
  BY <1>1, RestIsCovered DEF CardInv, CardType
<1> QED BY <1>2, HeadFacts DEF CardInv, CardType, CoveredBy, CoversEach, CoversBoth, AttendedBy

\* A charge leaves enough for the fee.
LEMMA ChargeKeeps == ASSUME CardInv, Charge PROVE CardInv'
<1>1. todo # <<>> /\ todo' = Tail(todo) /\ db' = db
  BY DEF Charge, At, store
<1>2. /\ Who \in Obj /\ Sum \in Nat /\ objs[Who] \in Object
      /\ Who = todo[1].o /\ Sum = todo[1].n /\ todo[1].k = "charge" /\ 1 \in 1..Len(todo)
  BY <1>1, HeadFacts DEF Charge, At, Who, Sum
<1> DEFINE b == objs[Who].bal - Sum
           t == [objs[Who].snap EXCEPT ![objs[Who].card].bal = b]
<1>3. Sum <= objs[Who].bal
  BY <1>2 DEF CardInv, CoveredBy, CoversEach, Charges
<1>4. b \in Nat
  BY <1>2, <1>3 DEF Object
<1>5. t \in Tables
  <2>1. PICK S \in SUBSET Card : objs[Who].snap \in [S -> Balance]
    BY <1>2 DEF Object, Tables
  <2>2. t \in [S -> Balance]
    BY <1>4, <2>1 DEF Balance
  <2> QED BY <2>2 DEF Tables
<1>6. objs' = [objs EXCEPT ![Who] = [@ EXCEPT !.bal = b, !.snap = t]]
  BY DEF Charge
<1> HIDE DEF t
<1>7. [objs[Who] EXCEPT !.bal = b, !.snap = t] \in Object
  BY <1>2, <1>4, <1>5 DEF Object
<1>8. objs' \in [Obj -> Object \cup {NoObj}] /\ objs'[Who] \in Object /\ objs'[Who].bal = b
  BY <1>2, <1>6, <1>7 DEF CardInv, CardType, Object
<1>9. \A i \in 2..Len(todo) : objs'[todo[i].o] \in Object
  <2>1. \A i \in 2..Len(todo) : i \in 1..Len(todo)
    OBVIOUS
  <2>2. \A i \in 2..Len(todo) : todo[i].o \in Obj /\ objs[todo[i].o] \in Object
    BY <2>1, StepTypes DEF CardInv, CardType, AttendedBy
  <2> QED BY <2>2, <1>6, <1>8 DEF CardInv, CardType
<1>10. CoveredBy(todo', objs') /\ AttendedBy(todo', objs')
  BY <1>1, <1>2, <1>8, <1>9, ChargeIsCovered DEF CardInv, CardType
<1> QED BY <1>1, <1>8, <1>10, HeadFacts
        DEF CardInv, CardType, CoveredBy, CoversEach, CoversBoth, AttendedBy

\* A credit only adds.
LEMMA CreditKeeps == ASSUME CardInv, Credit PROVE CardInv'
<1>1. todo # <<>> /\ todo' = Tail(todo) /\ db' = db
  BY DEF Credit, At, store
<1>2. Who \in Obj /\ Sum \in Nat /\ objs[Who] \in Object
  BY <1>1, HeadFacts
<1> DEFINE b == objs[Who].bal + Sum
           t == [objs[Who].snap EXCEPT ![objs[Who].card] = [bal |-> b, pw |-> objs[Who].pw + 1]]
<1>3. b \in Nat /\ b >= objs[Who].bal
  BY <1>2 DEF Object
<1>4. t \in Tables
  <2>1. PICK S \in SUBSET Card : objs[Who].snap \in [S -> Balance]
    BY <1>2 DEF Object, Tables
  <2> DEFINE v == [bal |-> b, pw |-> objs[Who].pw + 1]
  <2>3. v \in Balance
    BY <1>2, <1>3 DEF Balance, Object
  <2> HIDE DEF v
  <2>4. [objs[Who].snap EXCEPT ![objs[Who].card] = v] \in [S -> Balance]
    BY <2>1, <2>3
  <2>2. t \in [S -> Balance]
    BY <2>4 DEF v
  <2> QED BY <2>2 DEF Tables
<1>5. objs' = [objs EXCEPT ![Who] = [@ EXCEPT !.bal = b, !.snap = t]]
  BY DEF Credit
<1> HIDE DEF t
<1>6. [objs[Who] EXCEPT !.bal = b, !.snap = t] \in Object
  BY <1>2, <1>3, <1>4 DEF Object
<1> HIDE DEF b
<1>7. objs' \in [Obj -> Object \cup {NoObj}] /\ objs'[Who] \in Object /\ objs'[Who].bal = b
  BY <1>2, <1>5, <1>6 DEF CardInv, CardType, Object
<1>8. \A o \in Obj : objs[o] \in Object => objs'[o] \in Object /\ objs'[o].bal >= objs[o].bal
  BY <1>2, <1>3, <1>5, <1>7 DEF CardInv, CardType, Object
<1> QED BY <1>1, <1>7, <1>8, StepKeeps DEF CardInv, CardType

\* The other steps change no balance; what is written is the copy of an object.
LEMMA StepsKeep == ASSUME CardInv, Bill \/ Open \/ Write \/ History PROVE CardInv'
<1>1. todo # <<>> /\ todo' = Tail(todo)
  BY DEF Bill, Open, Write, History, At
<1>2. CASE Bill \/ Open \/ Write
  <2>1. objs' = objs
    BY <1>2 DEF Bill, Open, Write
  <2>2. db' = db \/ db' = objs[Who].snap
    BY <1>2 DEF Bill, Open, Write, store
  <2>3. db' \in Tables
    BY <1>1, <2>2, HeadFacts DEF CardInv, CardType, Object
  <2>4. \A o \in Obj : objs[o] \in Object => objs'[o] \in Object /\ objs'[o].bal >= objs[o].bal
    BY <2>1 DEF Object
  <2> QED BY <1>1, <2>1, <2>3, <2>4, StepKeeps DEF CardInv, CardType
<1>3. CASE History
  <2>1. db' = db /\ (objs' = objs \/ (Len(todo) = 1 /\ objs' = [objs EXCEPT ![Who] = NoObj]))
    BY <1>3 DEF History, store
  <2>2. CASE objs' = objs
    <3>1. \A o \in Obj : objs[o] \in Object => objs'[o] \in Object /\ objs'[o].bal >= objs[o].bal
      BY <2>2 DEF Object
    <3> QED BY <1>1, <2>1, <2>2, <3>1, StepKeeps DEF CardInv, CardType
  <2>3. CASE Len(todo) = 1 /\ objs' = [objs EXCEPT ![Who] = NoObj]
    <3>1. objs' \in [Obj -> Object \cup {NoObj}]
      BY <2>3 DEF CardInv, CardType
    <3>2. todo' \in Seq(FileSteps) /\ Len(todo') = 0
      BY <1>1, <2>3, HeadFacts, HeadTailProperties
    <3>3. todo' = <<>>
      BY <3>2
    <3> QED BY <2>1, <3>1, <3>3, IdleChange
  <2> QED BY <2>1, <2>2, <2>3
<1> QED BY <1>2, <1>3

\* Every step keeps the invariant.
LEMMA CardNext == ASSUME CardInv, [Next]_vars PROVE CardInv'
<1>1. ASSUME NEW o \in Obj, NEW c \in Card, Construct(o, c) PROVE CardInv'
  <2>1. Loaded(c) \in Object
    BY LoadedIsObject DEF CardInv
  <2> QED BY <1>1, <2>1, IdleChange DEF Construct, Idle, store, CardInv, CardType
<1>2. ASSUME NEW o \in Obj, Drop(o) PROVE CardInv'
  BY <1>2, IdleChange DEF Drop, Idle, store, CardInv, CardType
<1>3. CASE Kill
  BY <1>3, IdleChange DEF Kill, store, CardInv, CardType
<1>4. CASE UNCHANGED vars
  BY <1>4 DEF vars, store, CardInv, CardType, CoveredBy, CoversEach, CoversBoth, AttendedBy
<1> QED BY <1>1, <1>2, <1>3, <1>4, CreateCardKeeps, FetchMoneyKeeps, TranslateMoneyKeeps,
           PayForShopcartKeeps, ChargeKeeps, CreditKeeps, StepsKeep DEF Next, FileStep

\* No card is ever overdrawn, whatever objects write back what copies, in
\* whatever order, and wherever the console is killed (card_pay, update_card,
\* write_db_json).
THEOREM NoOverdraftAlways == Spec => []NoOverdraft
<1>1. CardInv => NoOverdraft
  BY DEF CardInv, CardType, Tables, Balance, NoOverdraft
<1> QED BY <1>1, CardInit, CardNext, PTL DEF Spec

-----------------------------------------------------------------------------
(* What left a card is billed, what was bought was billed before, and what *)
(* was stored for other cards stays.  The steps a call still has to do     *)
(* follow each other as the code has them: a charge is billed at once, a   *)
(* file that is opened is written, and a purchase is recorded at the end.  *)

Bills == {"bill", "shop"}

\* The next step does what step i began.
Follows(s, i) ==
    /\ s[i].k = "charge" =>
           i < Len(s) /\ s[i + 1].k \in Bills /\ s[i + 1].o = s[i].o /\ s[i + 1].n = s[i].n
    /\ s[i].k \in Bills => i = 1 \/ s[i - 1].k = "charge"
    /\ s[i].k = "open" => i < Len(s) /\ s[i + 1].k = "write"
    /\ s[i].k = "write" => i = 1 \/ s[i - 1].k = "open"
    /\ s[i].k = "hist" => i = Len(s)
Chained(s) == \A i \in 1..Len(s) : Follows(s, i)
Plain(s)   == \A i \in 1..Len(s) : s[i].k # "hist"
Fresh(s)   == s # <<>> => s[1].k \notin Bills \cup {"write"}

\* Calls that follow each other.
LEMMA ChainedBoth ==
    ASSUME NEW s \in Seq(FileSteps), NEW t \in Seq(FileSteps), t # <<>>,
           Chained(s), Chained(t), Plain(s), Fresh(s), Fresh(t)
    PROVE  Chained(s \o t) /\ (Plain(t) => Plain(s \o t)) /\ Fresh(s \o t)
<1> DEFINE w == s \o t
           n == Len(s)
           m == Len(t)
<1>1. /\ w \in Seq(FileSteps) /\ Len(w) = n + m /\ n \in Nat /\ m \in Nat /\ m > 0
      /\ \A i \in 1..n : w[i] = s[i]
      /\ \A i \in (n + 1)..(n + m) : i - n \in 1..m /\ w[i] = t[i - n]
  BY Parts
<1> HIDE DEF w, n, m
<1>2. \A i \in 1..(n + m) : i \in 1..n \/ (i \in (n + 1)..(n + m) /\ i - n \in 1..m)
  BY <1>1
<1>3. ASSUME NEW i \in 1..n PROVE Follows(w, i)
  <2>1. Follows(s, i) /\ w[i] = s[i] /\ s[i].k # "hist"
    BY <1>1, <1>3 DEF Chained, Plain, n
  <2>2. i # 1 => i - 1 \in 1..n /\ w[i - 1] = s[i - 1]
    BY <1>1
  <2>3. i < n => i + 1 \in 1..n /\ w[i + 1] = s[i + 1]
    BY <1>1
  <2>4. i < n => i < Len(w)
    BY <1>1
  <2>5. n = Len(s)
    BY DEF n
  <2> QED BY <2>1, <2>2, <2>3, <2>4, <2>5 DEF Follows
<1>4. ASSUME NEW i \in 1..m PROVE Follows(w, n + i)
  <2>1. Follows(t, i) /\ w[n + i] = t[i]
    <3>1. n + i \in (n + 1)..(n + m) /\ (n + i) - n = i
      BY <1>1
    <3> QED BY <1>1, <3>1 DEF Chained, m
  <2>2. i = 1 => t[i].k \notin Bills \cup {"write"}
    BY <1>1 DEF Fresh, m
  <2>3. i # 1 => w[(n + i) - 1] = t[i - 1]
    <3>1. i # 1 => (n + i) - 1 \in (n + 1)..(n + m) /\ ((n + i) - 1) - n = i - 1
      BY <1>1
    <3> QED BY <1>1, <3>1
  <2>4. i < m => w[(n + i) + 1] = t[i + 1]
    <3>1. i < m => (n + i) + 1 \in (n + 1)..(n + m) /\ ((n + i) + 1) - n = i + 1
      BY <1>1
    <3> QED BY <1>1, <3>1
  <2>5. (i < m <=> n + i < Len(w)) /\ (i = m <=> n + i = Len(w))
    BY <1>1
  <2> QED BY <2>1, <2>2, <2>3, <2>4, <2>5 DEF Follows, m
<1>5. Chained(w)
  <2> SUFFICES ASSUME NEW i \in 1..(n + m) PROVE Follows(w, i)
    BY <1>1 DEF Chained
  <2>1. i \in 1..n \/ (i - n \in 1..m /\ i = n + (i - n))
    BY <1>1, <1>2
  <2> QED BY <1>3, <1>4, <2>1
<1>6. Plain(t) => Plain(w)
  BY <1>1, <1>2 DEF Plain, n, m
<1>7. Fresh(w)
  <2>1. n = 0 => w[1] = t[1]
    BY <1>1
  <2>2. n # 0 => w[1] = s[1]
    BY <1>1
  <2> QED BY <1>1, <2>1, <2>2 DEF Fresh, n
<1> QED BY <1>5, <1>6, <1>7 DEF w

\* What is left of a chain is one; a bill comes first only after its charge, and a write
\* after the file was opened.
LEMMA ChainedTail ==
    ASSUME NEW s \in Seq(FileSteps), s # <<>>, Chained(s)
    PROVE  /\ Chained(Tail(s))
           /\ Tail(s) # <<>> => Tail(s)[1] = s[2] /\ Len(s) > 1
           /\ Tail(s) # <<>> /\ Tail(s)[1].k \in Bills =>
                  s[1].k = "charge" /\ Tail(s)[1].o = s[1].o /\ Tail(s)[1].n = s[1].n
           /\ s[1].k = "charge" => Tail(s) # <<>> /\ Tail(s)[1].k \in Bills
           /\ s[1].k = "open" <=> Tail(s) # <<>> /\ Tail(s)[1].k = "write"
<1> DEFINE t == Tail(s)
<1>1. t \in Seq(FileSteps) /\ Len(t) = Len(s) - 1 /\ \A i \in 1..Len(t) : t[i] = s[i + 1]
  BY HeadTailProperties
<1>2. Len(s) \in Nat /\ Len(s) > 0
  OBVIOUS
<1> HIDE DEF t
<1>3. t # <<>> => Len(t) > 0 /\ t[1] = s[2]
  BY <1>1, <1>2
<1>4. Follows(s, 1)
  BY <1>2 DEF Chained
<1>5. Len(s) > 1 => Follows(s, 2)
  BY <1>2 DEF Chained
<1>6. ASSUME NEW i \in 1..Len(t) PROVE Follows(t, i)
  <2>1. Follows(s, i + 1) /\ t[i] = s[i + 1] /\ i + 1 \in 1..Len(s)
    BY <1>1, <1>2 DEF Chained
  <2>2. i # 1 => t[i - 1] = s[i] /\ (i + 1) - 1 = i
    BY <1>1
  <2>3. i < Len(t) => t[i + 1] = s[(i + 1) + 1]
    BY <1>1
  <2>4. (i < Len(t) <=> i + 1 < Len(s)) /\ (i = Len(t) <=> i + 1 = Len(s)) /\ i + 1 # 1
    BY <1>1, <1>2
  <2> QED BY <2>1, <2>2, <2>3, <2>4 DEF Follows
<1>7. Chained(t)
  BY <1>6 DEF Chained
<1>8. t # <<>> => Len(s) > 1
  BY <1>1, <1>2, <1>3
<1>9. Len(s) > 1 => t # <<>> /\ 2 - 1 = 1
  BY <1>1, <1>2
<1> QED BY <1>3, <1>4, <1>5, <1>7, <1>8, <1>9 DEF Follows, t, Bills

\* What the calls leave to do is chained.
LEMMA SaveIsChained ==
    ASSUME NEW o \in Obj
    PROVE  /\ Save(o) \in Seq(FileSteps) /\ Save(o) # <<>>
           /\ Chained(Save(o)) /\ Plain(Save(o)) /\ Fresh(Save(o))
<1>1. Save(o) \in Seq(FileSteps) /\ Len(Save(o)) = 2
  BY SaveShape
<1>2. Save(o)[1].k = "open" /\ Save(o)[2].k = "write"
  BY DEF Save, Step
<1> DEFINE s == Save(o)
<1> HIDE DEF s
<1>3. s \in Seq(FileSteps) /\ Len(s) = 2 /\ s[1].k = "open" /\ s[2].k = "write"
  BY <1>1, <1>2 DEF s
<1>4. ASSUME NEW i \in 1..2 PROVE Follows(s, i)
  <2>1. CASE i = 1 BY <2>1, <1>3 DEF Follows, Bills
  <2>2. CASE i = 2 BY <2>2, <1>3 DEF Follows, Bills
  <2> QED BY <2>1, <2>2
<1>5. Chained(s)
  BY <1>3, <1>4 DEF Chained
<1>6. s # <<>> /\ Plain(s) /\ Fresh(s)
  BY <1>3, SMTT(60) DEF Plain, Fresh, Bills
<1> QED BY <1>3, <1>5, <1>6 DEF s

\* A charge and its bill, and saving.
ChargeSteps(b, o, n) == <<Step("charge", o, n), Step(b, o, n)>> \o Save(o)

LEMMA ChargeIsChained ==
    ASSUME NEW o \in Obj, NEW n \in Nat, NEW b \in Bills
    PROVE  /\ ChargeSteps(b, o, n) \in Seq(FileSteps) /\ ChargeSteps(b, o, n) # <<>>
           /\ Chained(ChargeSteps(b, o, n)) /\ Plain(ChargeSteps(b, o, n))
           /\ Fresh(ChargeSteps(b, o, n))
<1> DEFINE f == <<Step("charge", o, n), Step(b, o, n)>>
<1>1. /\ f \in Seq(FileSteps) /\ Len(f) = 2
      /\ f[1].k = "charge" /\ f[2].k = b /\ f[2].o = f[1].o /\ f[2].n = f[1].n
  <2>1. "charge" \in StepKinds /\ b \in StepKinds
    BY DEF StepKinds, Bills
  <2>2. Step("charge", o, n) \in FileSteps /\ Step(b, o, n) \in FileSteps
    BY <2>1, StepIsFileStep
  <2>3. f[1] = Step("charge", o, n) /\ f[2] = Step(b, o, n)
    OBVIOUS
  <2>4. /\ Step("charge", o, n).k = "charge" /\ Step(b, o, n).k = b
        /\ Step(b, o, n).o = Step("charge", o, n).o /\ Step(b, o, n).n = Step("charge", o, n).n
    BY DEF Step
  <2> QED BY <2>2, <2>3, <2>4
<1> HIDE DEF f
<1>2. ASSUME NEW i \in 1..2 PROVE Follows(f, i)
  <2>1. CASE i = 1 BY <2>1, <1>1 DEF Follows, Bills
  <2>2. CASE i = 2 BY <2>2, <1>1 DEF Follows, Bills
  <2> QED BY <2>1, <2>2
<1>3. Chained(f) /\ Plain(f) /\ Fresh(f) /\ f # <<>>
  <2>1. Chained(f)
    BY <1>1, <1>2 DEF Chained
  <2>2. b # "hist"
    BY DEF Bills
  <2>3. Plain(f)
    BY <1>1, <2>2 DEF Plain
  <2>4. Fresh(f)
    BY <1>1 DEF Fresh, Bills
  <2>5. f # <<>>
    <3>1. ASSUME f = <<>> PROVE FALSE
      <4>1. Len(f) = 0
        BY <3>1
      <4> QED BY <1>1, <4>1
    <3> QED BY <3>1
  <2> QED BY <2>1, <2>3, <2>4, <2>5
<1>4. /\ Chained(f \o Save(o)) /\ Plain(f \o Save(o)) /\ Fresh(f \o Save(o))
  BY <1>1, <1>3, SaveIsChained, ChainedBoth
<1>5. f \o Save(o) \in Seq(FileSteps) /\ Len(f \o Save(o)) = Len(f) + Len(Save(o))
  BY <1>1, SaveIsChained, Parts
<1>6. f \o Save(o) # <<>>
  BY <1>1, <1>5, SaveShape
<1>7. ChargeSteps(b, o, n) = f \o Save(o)
  BY DEF ChargeSteps, f
<1> QED BY <1>4, <1>5, <1>6, <1>7

\* Two payments, and a credit after them.
LEMMA PaysAreChained ==
    ASSUME NEW o \in Obj, NEW r \in Obj, NEW n \in Nat, NEW m \in Nat, NEW k \in Nat
    PROVE  /\ Chained(TwoPays(o, n, m)) /\ Plain(TwoPays(o, n, m)) /\ Fresh(TwoPays(o, n, m))
           /\ Chained(PaysAndTopUp(o, r, n, m, k)) /\ Plain(PaysAndTopUp(o, r, n, m, k))
           /\ Fresh(PaysAndTopUp(o, r, n, m, k))
<1>1. ASSUME NEW i \in Nat
      PROVE  /\ Pay(o, i) \in Seq(FileSteps) /\ Pay(o, i) # <<>>
             /\ Chained(Pay(o, i)) /\ Plain(Pay(o, i)) /\ Fresh(Pay(o, i))
  BY ChargeIsChained DEF Pay, ChargeSteps, Bills
<1> DEFINE f == <<Step("top", r, k)>>
<1>2. f \in Seq(FileSteps) /\ Len(f) = 1 /\ f[1].k = "top"
  BY StepIsFileStep DEF Step, StepKinds
<1> HIDE DEF f
<1>3. Chained(f) /\ Plain(f) /\ Fresh(f)
  BY <1>2 DEF Chained, Plain, Fresh, Follows, Bills
<1>4. Chained(TopUp(r, k)) /\ Plain(TopUp(r, k)) /\ Fresh(TopUp(r, k))
  BY <1>2, <1>3, SaveIsChained, ChainedBoth DEF TopUp, f
<1>5. TopUp(r, k) \in Seq(FileSteps) /\ TopUp(r, k) # <<>>
  BY TopUpShape
<1>6. Chained(TwoPays(o, n, m)) /\ Plain(TwoPays(o, n, m)) /\ Fresh(TwoPays(o, n, m))
  BY <1>1, ChainedBoth DEF TwoPays
<1>7. TwoPays(o, n, m) \in Seq(FileSteps)
  BY FetchShape DEF TwoCharges
<1>8. PaysAndTopUp(o, r, n, m, k) = TwoPays(o, n, m) \o TopUp(r, k)
  BY DEF PaysAndTopUp, TwoPays
<1> HIDE DEF Pay, TopUp
<1> QED BY <1>4, <1>5, <1>6, <1>7, <1>8, ChainedBoth

\* The steps of the payment of a cart.
LEMMA ShopIsChained ==
    ASSUME NEW o \in Obj, NEW n \in Nat
    PROVE  Chained(ShopSteps(o, n)) /\ Fresh(ShopSteps(o, n))
<1> DEFINE f == <<Step("charge", o, n), Step("shop", o, n)>> \o Save(o)
           l == <<Step("hist", o, n)>>
<1>1. f \in Seq(FileSteps) /\ f # <<>> /\ Chained(f) /\ Plain(f) /\ Fresh(f)
  BY ChargeIsChained DEF ChargeSteps, Bills
<1>2. l \in Seq(FileSteps) /\ Len(l) = 1 /\ l[1].k = "hist"
  BY StepIsFileStep DEF Step, StepKinds
<1>3. ShopSteps(o, n) = f \o l
  BY DEF ShopSteps
<1> HIDE DEF f, l
<1>4. Chained(l) /\ Fresh(l) /\ l # <<>>
  BY <1>2 DEF Chained, Fresh, Follows, Bills
<1> QED BY <1>1, <1>2, <1>3, <1>4, ChainedBoth

StepsInv == CardInv /\ Chained(todo)

\* The invariant holds initially ...
LEMMA StepsInit == ASSUME Init PROVE StepsInv
<1>1. Len(todo) = 0
  BY DEF Init
<1> QED BY <1>1, CardInit DEF StepsInv, Chained

\* ... and every step keeps it.
LEMMA StepsNext == ASSUME StepsInv, [Next]_vars PROVE StepsInv'
<1>1. ASSUME NEW o \in Obj, CreateCard(o) PROVE Chained(todo')
  BY <1>1, SaveIsChained DEF CreateCard
<1>2. ASSUME NEW o \in Obj, NEW n \in Price, FetchMoney(o, n) PROVE Chained(todo')
  <2>1. todo' = TwoPays(o, n, Fee(n))
    BY <1>2 DEF FetchMoney, TwoPays
  <2> QED BY <2>1, FeeIsNat, PaysAreChained
<1>3. ASSUME NEW o \in Obj, NEW r \in Obj, NEW n \in Price, TranslateMoney(o, n, r)
      PROVE  Chained(todo')
  <2>1. todo' = PaysAndTopUp(o, r, n, Fee(n), n + Fee(n))
    BY <1>3 DEF TranslateMoney, PaysAndTopUp
  <2>2. n \in Nat /\ Fee(n) \in Nat /\ n + Fee(n) \in Nat
    BY FeeIsNat
  <2> QED BY <2>1, <2>2, PaysAreChained
<1>4. ASSUME NEW o \in Obj, NEW c \in Card, NEW n \in Price, PayForShopcart(o, c, n)
      PROVE  Chained(todo')
  <2>1. todo' = ShopSteps(o, n)
    BY <1>4 DEF PayForShopcart, ShopSteps
  <2> QED BY <2>1, FeeIsNat, ShopIsChained
<1>5. ASSUME FileStep PROVE Chained(todo')
  <2>1. todo # <<>> /\ todo' = Tail(todo)
    BY <1>5 DEF FileStep, Charge, Bill, Credit, Open, Write, History, At
  <2> QED BY <2>1, ChainedTail DEF StepsInv, CardInv, CardType
<1>6. ASSUME Kill PROVE Chained(todo')
  <2>1. todo' = <<>> /\ Len(todo') = 0
    BY <1>6 DEF Kill
  <2> QED BY <2>1 DEF Chained
<1>7. ASSUME NEW o \in Obj, (\E c \in Card : Construct(o, c)) \/ Drop(o) PROVE Chained(todo')
  BY <1>7 DEF Construct, Drop, StepsInv
<1>8. ASSUME UNCHANGED vars PROVE Chained(todo')
  BY <1>8 DEF vars, StepsInv
<1>9. Chained(todo')
  BY <1>1, <1>2, <1>3, <1>4, <1>5, <1>6, <1>7, <1>8 DEF Next
<1>10. Chained(todo)'
  BY <1>9 DEF Chained, Follows
<1> QED BY <1>10, CardNext DEF StepsInv

\* The first step and those after it.
LEMMA NextSteps ==
    ASSUME StepsInv, todo # <<>>, todo' = Tail(todo)
    PROVE  /\ Len(todo) \in Nat /\ Len(todo) > 0 /\ Len(todo') = Len(todo) - 1
           /\ \A i \in 1..Len(todo') : i + 1 \in 1..Len(todo) /\ todo'[i] = todo[i + 1]
           /\ \A i \in 2..Len(todo) : i - 1 \in 1..Len(todo') /\ todo'[i - 1] = todo[i]
           /\ todo' # <<>> => todo'[1] = todo[2] /\ todo'[Len(todo')] = todo[Len(todo)]
<1>1. /\ todo \in Seq(FileSteps) /\ todo' \in Seq(FileSteps) /\ Len(todo') = Len(todo) - 1
      /\ \A i \in 1..Len(todo') : todo'[i] = todo[i + 1]
  BY HeadTailProperties DEF StepsInv, CardInv, CardType
<1>2. Len(todo) \in Nat /\ Len(todo) > 0
  BY <1>1
<1>3. todo' # <<>> => Len(todo') > 0
  BY <1>1
<1>4. \A i \in 2..Len(todo) : i - 1 \in 1..Len(todo') /\ (i - 1) + 1 = i
  BY <1>1, <1>2
<1> QED BY <1>1, <1>2, <1>3, <1>4

-----------------------------------------------------------------------------
(* What was stored for other cards.  The object that pays for a cart was   *)
(* loaded by the call, and no other one stores anything before it is done. *)

ShopInv ==
    Shopping =>
        LET buyer == todo[Len(todo)].o
        IN  /\ \A i \in 1..Len(todo) : todo[i].o = buyer
            /\ \A c \in DOMAIN db \ {objs[buyer].card} :
                   c \in DOMAIN objs[buyer].snap /\ objs[buyer].snap[c] = db[c]

\* No other call ends with a purchase.
LEMMA OthersShopNot ==
    ASSUME StepsInv, [Next]_vars, ~FileStep,
           \A o \in Obj, c \in Card, n \in Price : ~PayForShopcart(o, c, n)
    PROVE  Shopping' => UNCHANGED vars
<1>1. ASSUME NEW s \in Seq(FileSteps), Plain(s), s # <<>> PROVE s[Len(s)].k # "hist"
  BY <1>1 DEF Plain
<1>2. ASSUME NEW o \in Obj, CreateCard(o) PROVE ~Shopping'
  BY <1>1, <1>2, SaveIsChained DEF CreateCard, Shopping
<1>3. ASSUME NEW o \in Obj, NEW n \in Price, FetchMoney(o, n) PROVE ~Shopping'
  <2>1. todo' = TwoPays(o, n, Fee(n)) /\ Plain(todo') /\ todo' \in Seq(FileSteps)
    BY <1>3, FeeIsNat, FetchShape, PaysAreChained DEF FetchMoney, TwoPays, TwoCharges
  <2> QED BY <1>1, <2>1 DEF Shopping
<1>4. ASSUME NEW o \in Obj, NEW r \in Obj, NEW n \in Price, TranslateMoney(o, n, r)
      PROVE  ~Shopping'
  <2>1. todo' = PaysAndTopUp(o, r, n, Fee(n), n + Fee(n))
    BY <1>4 DEF TranslateMoney, PaysAndTopUp
  <2>2. n \in Nat /\ Fee(n) \in Nat /\ n + Fee(n) \in Nat
    BY FeeIsNat
  <2>3. Plain(todo') /\ todo' \in Seq(FileSteps)
    BY <2>1, <2>2, TranslateShape, PaysAreChained DEF TwoCharges
  <2> QED BY <1>1, <2>3 DEF Shopping
<1>5. ASSUME NEW o \in Obj, (\E c \in Card : Construct(o, c)) \/ Drop(o) PROVE ~Shopping'
  BY <1>5 DEF Construct, Drop, Idle, Shopping
<1>6. CASE Kill
  BY <1>6 DEF Kill, Shopping
<1> QED BY <1>2, <1>3, <1>4, <1>5, <1>6 DEF Next

\* The file operations of the payment.
LEMMA ShopStepKeeps ==
    ASSUME StepsInv, ShopInv, FileStep, Shopping'
    PROVE  ShopInv'
<1>1. todo # <<>> /\ todo' = Tail(todo)
  BY DEF FileStep, Charge, Bill, Credit, Open, Write, History, At
<1> DEFINE b == todo[Len(todo)].o
<1>2. Shopping /\ todo'[Len(todo')].o = b /\ todo' # <<>>
  BY <1>1, NextSteps DEF Shopping
<1>3. /\ \A i \in 1..Len(todo) : todo[i].o = b
      /\ \A c \in DOMAIN db \ {objs[b].card} :
             c \in DOMAIN objs[b].snap /\ objs[b].snap[c] = db[c]
  BY <1>2 DEF ShopInv
<1>4. \A i \in 1..Len(todo') : todo'[i].o = b
  BY <1>1, <1>3, NextSteps
<1>5. Who = b /\ b \in Obj /\ objs[b] \in Object
  BY <1>1, <1>3, HeadFacts DEF StepsInv, Who
<1> HIDE DEF b
<1>6. \A c \in DOMAIN db' \ {objs'[b].card} :
          c \in DOMAIN objs'[b].snap /\ objs'[b].snap[c] = db'[c]
  <2>1. CASE Charge
    <3>1. /\ objs' = [objs EXCEPT ![b].bal = @ - Sum,
                                  ![b].snap[objs[b].card].bal = objs[b].bal - Sum]
          /\ db' = db
      BY <1>5, <2>1 DEF Charge, store
    <3>2. /\ objs'[b].card = objs[b].card /\ DOMAIN objs'[b].snap = DOMAIN objs[b].snap
          /\ \A c \in DOMAIN objs[b].snap \ {objs[b].card} : objs'[b].snap[c] = objs[b].snap[c]
      BY <1>5, <3>1 DEF StepsInv, CardInv, CardType, Object
    <3> QED BY <1>3, <3>1, <3>2
  <2>2. CASE Credit
    <3>1. /\ objs' = [objs EXCEPT ![b].bal = @ + Sum,
                                  ![b].snap[objs[b].card] =
                                      [bal |-> objs[b].bal + Sum, pw |-> objs[b].pw + 1]]
          /\ db' = db
      BY <1>5, <2>2 DEF Credit, store
    <3>2. /\ objs'[b].card = objs[b].card /\ DOMAIN objs'[b].snap = DOMAIN objs[b].snap
          /\ \A c \in DOMAIN objs[b].snap \ {objs[b].card} : objs'[b].snap[c] = objs[b].snap[c]
      BY <1>5, <3>1 DEF StepsInv, CardInv, CardType, Object
    <3> QED BY <1>3, <3>1, <3>2
  <2>3. CASE Bill \/ Open
    BY <1>3, <2>3 DEF Bill, Open
  <2>4. CASE Write
    <3>1. objs' = objs /\ (db' = db \/ db' = objs[b].snap)
      BY <1>5, <2>4 DEF Write
    <3> QED BY <1>3, <3>1
  <2>5. CASE History
    <3>1. Len(todo) # 1
      BY <1>1, <1>2, NextSteps
    <3> QED BY <1>3, <2>5, <3>1 DEF History
  <2> QED BY <2>1, <2>2, <2>3, <2>4, <2>5 DEF FileStep
<1>7. todo'[Len(todo')].o = b
  BY <1>2
<1> QED BY <1>4, <1>6, <1>7 DEF ShopInv

\* The payment of a cart takes back nothing that was stored for another card, whether
\* the disk fails or not (payfor_shopcart, write_db_json).
THEOREM ShopSparesOthersAlways == Spec => ShopSparesOthers
<1> DEFINE Spares ==
        Shopping => \A c \in DOMAIN db \ {objs[todo[Len(todo)].o].card} :
                        c \in DOMAIN db' /\ db'[c] = db[c]
<1>1. Init => ShopInv
  BY DEF Init, ShopInv, Shopping
<1>2. ASSUME StepsInv, ShopInv, [Next]_vars PROVE ShopInv'
  <2>1. CASE FileStep /\ Shopping'
    BY <1>2, <2>1, ShopStepKeeps
  <2>2. ASSUME NEW o \in Obj, NEW c \in Card, NEW n \in Price, PayForShopcart(o, c, n)
        PROVE  ShopInv'
    <3>1. todo' = ShopSteps(o, n) /\ db' = db
      BY <2>2 DEF PayForShopcart, ShopSteps, store
    <3>2. Len(todo') = 5 /\ \A i \in 1..5 : todo'[i].o = o
      BY <3>1, FeeIsNat, ShopShape
    <3>3. objs'[o].snap = db
      BY <1>2, <2>2 DEF PayForShopcart, Loaded, StepsInv, CardInv, CardType
    <3>4. /\ todo'[Len(todo')].o = o
          /\ \A i \in 1..Len(todo') : todo'[i].o = o
          /\ \A d \in DOMAIN db' \ {objs'[o].card} :
                 d \in DOMAIN objs'[o].snap /\ objs'[o].snap[d] = db'[d]
      BY <3>1, <3>2, <3>3
    <3> QED BY <3>4 DEF ShopInv
  <2>3. CASE ~Shopping'
    BY <2>3 DEF ShopInv
  <2>4. CASE UNCHANGED vars
    BY <1>2, <2>4 DEF vars, store, ShopInv, Shopping
  <2> QED BY <1>2, <2>1, <2>2, <2>3, <2>4, OthersShopNot
<1>3. ASSUME StepsInv, ShopInv, [Next]_vars PROVE [Spares]_vars
  <2> SUFFICES ASSUME Shopping, Next PROVE Spares
    BY <1>3
  <2>1. CASE Write
    <3>1. todo # <<>> /\ Who = todo[Len(todo)].o
      BY <1>3, <2>1, HeadFacts DEF Write, At, Who, ShopInv, StepsInv
    <3>2. db' = db \/ db' = objs[Who].snap
      BY <2>1 DEF Write
    <3> QED BY <1>3, <3>1, <3>2 DEF ShopInv
  <2>2. CASE ~Write
    <3>1. db' = db
      BY <2>2, ZenonT(60)
      DEF Next, FileStep, Construct, Drop, CreateCard, FetchMoney, TranslateMoney,
          PayForShopcart, Charge, Bill, Credit, Open, History, Kill, store
    <3> QED BY <3>1
  <2> QED BY <2>1, <2>2
<1> QED BY <1>1, <1>2, <1>3, StepsInit, StepsNext, PTL DEF Spec, ShopSparesOthers

-----------------------------------------------------------------------------
(* A sound disk.  With one that fails a charge whose bill was lost is      *)
(* stored all the same, so what follows holds on a disk that does not.     *)
(* What was charged to an object and is not billed yet is the sum of the   *)
(* next step; all else that is missing in a balance, in a copy or in the   *)
(* table is billed.                                                        *)

Owed(s, o) == IF s # <<>> /\ s[1].k \in Bills /\ s[1].o = o THEN s[1].n ELSE 0

Paid(x, due, paid) ==
    /\ x.bal + due + paid[x.card] >= Limit
    /\ \A c \in DOMAIN x.snap :
           x.snap[c].bal + paid[c] + (IF c = x.card THEN due ELSE 0) >= Limit

\* The console holds the object, or the call that is running does.
Held(s, o) == objs[o] # NoObj \/ \E i \in 1..Len(s) : s[i].o = o

BilledInv ==
    /\ billed \in [Card -> Nat]
    /\ ChargesAreBilled
    /\ \A o \in Obj : Held(todo, o) => Paid(objs[o], Owed(todo, o), billed)

\* A purchase is recorded only after its sum was billed.
BoughtInv ==
    /\ bought \in Nat /\ shopped \in Nat /\ bought <= shopped
    /\ \A i \in 1..Len(todo) : todo[i].k = "hist" =>
           \/ bought + todo[i].n <= shopped
           \/ \E j \in 1..Len(todo) : todo[j].k = "shop" /\ todo[j].n = todo[i].n

\* A file is empty while it is written, or since its writer was killed.
TornInv ==
    torn => \/ todo # <<>> /\ todo[1].k = "write"
            \/ todo = <<>> /\ \A o \in Obj : objs[o] = NoObj

\* A call begins with nothing owed, nothing recorded and no write.
Begins(s) ==
    /\ s \in Seq(FileSteps) /\ s # <<>> /\ Fresh(s)
    /\ \/ Plain(s)
       \/ \A i \in 1..Len(s) : s[i].k = "hist" =>
              \E j \in 1..Len(s) : s[j].k = "shop" /\ s[j].n = s[i].n

Calls(o) ==
    \/ CreateCard(o)
    \/ \E n \in Price :
           \/ FetchMoney(o, n)
           \/ \E r \in Obj : TranslateMoney(o, n, r)
           \/ \E c \in Card : PayForShopcart(o, c, n)

\* The calls begin, with the objects they were made of and for.
LEMMA CallsBegin ==
    ASSUME StepsInv, NEW o \in Obj, Calls(o)
    PROVE  /\ Begins(todo')
           /\ \A i \in 1..Len(todo') : todo'[i].o = o \/ objs[todo'[i].o] # NoObj
<1> DEFINE Served == /\ Begins(todo')
                     /\ \A i \in 1..Len(todo') : todo'[i].o = o \/ objs[todo'[i].o] # NoObj
<1>1. CASE CreateCard(o)
  <2>1. todo' = Save(o)
    BY <1>1 DEF CreateCard
  <2>2. Begins(todo')
    BY <2>1, SaveIsChained DEF Begins
  <2>3. Len(todo') = 2 /\ \A i \in 1..2 : todo'[i].o = o
    BY <2>1, SaveShape
  <2> QED BY <2>2, <2>3
<1>2. ASSUME NEW n \in Price, FetchMoney(o, n) PROVE Served
  <2>1. todo' = TwoPays(o, n, Fee(n)) /\ n \in Nat /\ Fee(n) \in Nat
    BY <1>2, FeeIsNat DEF FetchMoney, TwoPays
  <2>4. TwoCharges(todo', o, n, Fee(n)) /\ DoneBy(todo', {o})
    BY <2>1, FetchShape
  <2>2. /\ todo' \in Seq(FileSteps) /\ Len(todo') >= 8
        /\ \A i \in 1..Len(todo') : todo'[i].o = o
    BY <2>4 DEF TwoCharges, DoneBy
  <2>3. Plain(todo') /\ Fresh(todo')
    BY <2>1, PaysAreChained
  <2> QED BY <2>2, <2>3 DEF Begins
<1>3. ASSUME NEW n \in Price, NEW r \in Obj, TranslateMoney(o, n, r) PROVE Served
  <2>1. todo' = PaysAndTopUp(o, r, n, Fee(n), n + Fee(n))
    BY <1>3 DEF TranslateMoney, PaysAndTopUp
  <2>2. n \in Nat /\ Fee(n) \in Nat /\ n + Fee(n) \in Nat
    BY FeeIsNat
  <2>3. /\ todo' \in Seq(FileSteps) /\ Len(todo') >= 8
        /\ \A i \in 1..Len(todo') : todo'[i].o \in {o, r}
    BY <2>1, <2>2, TranslateShape DEF TwoCharges, DoneBy
  <2>4. Plain(todo') /\ Fresh(todo')
    BY <2>1, <2>2, PaysAreChained
  <2>5. objs[r] # NoObj
    BY <1>3 DEF TranslateMoney, Alive
  <2> QED BY <2>3, <2>4, <2>5 DEF Begins
<1>4. ASSUME NEW n \in Price, NEW c \in Card, PayForShopcart(o, c, n) PROVE Served
  <2>1. todo' = ShopSteps(o, n) /\ n \in Nat
    BY <1>4, FeeIsNat DEF PayForShopcart, ShopSteps
  <2>2. /\ todo' \in Seq(FileSteps) /\ Len(todo') = 5
        /\ todo'[2] = Step("shop", o, n) /\ todo'[5] = Step("hist", o, n)
        /\ \A i \in 1..5 : todo'[i].o = o
    BY <2>1, ShopShape
  <2>3. todo'[2].k = "shop" /\ todo'[2].n = n /\ todo'[5].n = n /\ 2 \in 1..Len(todo')
    BY <2>2 DEF Step
  <2>4. Chained(todo') /\ Fresh(todo')
    BY <2>1, ShopIsChained
  <2>5. \A i \in 1..Len(todo') : todo'[i].k = "hist" => i = 5
    BY <2>2, <2>4 DEF Chained, Follows
  <2>6. \A i \in 1..Len(todo') : todo'[i].k = "hist" => todo'[2].n = todo'[i].n
    BY <2>3, <2>5
  <2> QED BY <2>2, <2>3, <2>4, <2>6, SMTT(60) DEF Begins
<1> QED BY <1>1, <1>2, <1>3, <1>4 DEF Calls

CardsInv == StepsInv /\ BilledInv /\ BoughtInv /\ TornInv

\* The invariant holds initially.
LEMMA CardsInit == ASSUME Init PROVE CardsInv
<1>1. billed \in [Card -> Nat] /\ \A c \in Card : billed[c] = 0
  BY DEF Init
<1>2. DOMAIN db = Opened /\ \A c \in Opened : db[c].bal = Limit
  BY DEF Init
<1>3. ChargesAreBilled
  <2>1. \A c \in DOMAIN db : db[c].bal = Limit /\ billed[c] = 0
    BY <1>1, <1>2, CardAssumption DEF CardAssumption
  <2>2. Limit + 0 >= Limit
    BY CardAssumption DEF CardAssumption
  <2> QED BY <2>1, <2>2 DEF ChargesAreBilled
<1>4. Len(todo) = 0 /\ \A o \in Obj : ~Held(todo, o)
  <2>1. Len(todo) = 0 /\ \A o \in Obj : objs[o] = NoObj
    BY DEF Init
  <2> QED BY <2>1 DEF Held
<1>5. torn = FALSE /\ bought = 0 /\ shopped = 0
  BY DEF Init
<1>6. BilledInv
  BY <1>1, <1>3, <1>4 DEF BilledInv
<1>7. BoughtInv /\ TornInv
  BY <1>4, <1>5 DEF BoughtInv, TornInv
<1> QED BY <1>6, <1>7, StepsInit DEF CardsInv

\* What a call begins with: nothing is owed.
LEMMA CallKeeps ==
    ASSUME CardsInv, Begins(todo'), UNCHANGED store, todo = <<>>,
           \A o \in Obj : Held(todo, o)' => Paid(objs'[o], 0, billed),
           ~torn
    PROVE  BilledInv' /\ BoughtInv' /\ TornInv'
<1>1. \A o \in Obj : Owed(todo', o) = 0
  BY DEF Begins, Fresh, Owed
<1>2. BilledInv'
  <2>1. billed' = billed /\ db' = db
    BY DEF store
  <2>2. ChargesAreBilled'
    BY <2>1 DEF CardsInv, BilledInv, ChargesAreBilled
  <2> QED BY <1>1, <2>1, <2>2 DEF CardsInv, BilledInv
<1>3. BoughtInv'
  BY DEF Begins, Plain, CardsInv, BoughtInv, store
<1>4. TornInv'
  BY DEF TornInv, store
<1> QED BY <1>2, <1>3, <1>4

\* The object a constructor makes has what is not billed.
LEMMA LoadedIsPaid ==
    ASSUME CardType, BilledInv, NEW c \in Card PROVE Paid(Loaded(c), 0, billed)
<1>1. \A d \in DOMAIN db : d \in Card /\ db[d].bal \in Nat /\ billed[d] \in Nat
  BY DEF CardType, Tables, Balance, BilledInv
<1>2. \A d \in DOMAIN db : db[d].bal + billed[d] >= Limit
  BY DEF BilledInv, ChargesAreBilled
<1>3. Limit \in Nat /\ billed[c] \in Nat
  BY CardAssumption DEF CardAssumption, BilledInv
<1>4. \A d \in DOMAIN db :
          db[d].bal + 0 + billed[d] >= Limit /\ db[d].bal + billed[d] + 0 >= Limit
  BY <1>1, <1>2, <1>3
<1>5. /\ Loaded(c).card = c /\ Loaded(c).snap = db
      /\ Loaded(c).bal = IF c \in DOMAIN db THEN db[c].bal ELSE Limit
  BY DEF Loaded
<1>6. Loaded(c).bal + 0 + billed[c] >= Limit
  BY <1>3, <1>4, <1>5
<1> QED BY <1>4, <1>5, <1>6 DEF Paid

\* Every call keeps the three.
LEMMA CallsKeep ==
    ASSUME CardsInv, NEW o \in Obj, Calls(o)
    PROVE  BilledInv' /\ BoughtInv' /\ TornInv'
<1>1. /\ Begins(todo')
      /\ \A i \in 1..Len(todo') : todo'[i].o = o \/ objs[todo'[i].o] # NoObj
  BY CallsBegin DEF CardsInv
<1>2. todo = <<>> /\ UNCHANGED store
  BY DEF Calls, CreateCard, FetchMoney, TranslateMoney, PayForShopcart, Call, Idle
<1>3. ~torn /\ \A x \in Obj : objs[x] # NoObj => Paid(objs[x], 0, billed)
  <2>1. ~torn
    BY <1>2 DEF CardsInv, TornInv, Calls, CreateCard, FetchMoney, TranslateMoney,
                PayForShopcart, Alive
  <2>2. ASSUME NEW x \in Obj, objs[x] # NoObj PROVE Paid(objs[x], 0, billed)
    BY <1>2, <2>2 DEF CardsInv, BilledInv, Held, Owed
  <2> QED BY <2>1, <2>2
<1>4. ASSUME NEW x \in Obj, Held(todo, x)', objs' = objs, objs[o] # NoObj
      PROVE  Paid(objs'[x], 0, billed)
  BY <1>1, <1>3, <1>4 DEF Held
<1>5. ASSUME NEW x \in Obj, Held(todo, x)' PROVE Paid(objs'[x], 0, billed)
  <2>1. CASE CreateCard(o)
    <3>1. objs[o] # NoObj /\ objs[o] \in Object
      BY <2>1 DEF CreateCard, Alive, CardsInv, StepsInv, CardInv, CardType
    <3>2. /\ DOMAIN objs' = Obj /\ \A y \in Obj \ {o} : objs'[y] = objs[y]
          /\ objs'[o].card = objs[o].card /\ objs'[o].bal = objs[o].bal
          /\ DOMAIN objs'[o].snap = DOMAIN objs[o].snap \cup {objs[o].card}
          /\ objs'[o].snap[objs[o].card].bal = objs[o].bal
          /\ \A d \in DOMAIN objs[o].snap \ {objs[o].card} : objs'[o].snap[d] = objs[o].snap[d]
      BY <2>1, <3>1 DEF CreateCard, CardsInv, StepsInv, CardInv, CardType, Object
    <3>3. Paid(objs[o], 0, billed) /\ Limit \in Nat /\ objs[o].bal \in Nat
      BY <1>3, <3>1, CardAssumption DEF CardAssumption, Object
    <3>7. objs[o].card \in Card /\ billed[objs[o].card] \in Nat
      BY <3>1 DEF Object, CardsInv, BilledInv
    <3>4. Paid(objs'[o], 0, billed)
      <4>1. objs[o].bal + 0 + billed[objs[o].card] >= Limit
        BY <3>3 DEF Paid
      <4>2. objs[o].bal + billed[objs[o].card] + 0 >= Limit
        BY <3>3, <3>7, <4>1
      <4>3. \A d \in DOMAIN objs[o].snap \ {objs[o].card} :
                objs[o].snap[d].bal + billed[d] + 0 >= Limit
        BY <3>3 DEF Paid
      <4>4. objs'[o].bal + 0 + billed[objs'[o].card] >= Limit
        BY <3>2, <4>1
      <4>5. ASSUME NEW d \in DOMAIN objs'[o].snap
            PROVE  objs'[o].snap[d].bal + billed[d] + (IF d = objs'[o].card THEN 0 ELSE 0) >= Limit
        <5>1. CASE d = objs[o].card BY <3>2, <4>2, <5>1
        <5>2. CASE d # objs[o].card BY <3>2, <4>3, <4>5, <5>2
        <5> QED BY <5>1, <5>2
      <4> QED BY <4>4, <4>5 DEF Paid
    <3>5. CASE x = o BY <3>4, <3>5
    <3>6. CASE x # o
      <4>1. objs[x] # NoObj /\ objs'[x] = objs[x]
        BY <1>1, <1>5, <3>2, <3>6 DEF Held
      <4> QED BY <1>3, <4>1
    <3> QED BY <3>5, <3>6
  <2>2. ASSUME NEW n \in Price, FetchMoney(o, n) \/ \E r \in Obj : TranslateMoney(o, n, r)
        PROVE  Paid(objs'[x], 0, billed)
    BY <1>4, <1>5, <2>2 DEF FetchMoney, TranslateMoney, Alive
  <2>3. ASSUME NEW n \in Price, NEW c \in Card, PayForShopcart(o, c, n)
        PROVE  Paid(objs'[x], 0, billed)
    <3>1. /\ objs'[o] = Loaded(c) /\ \A y \in Obj \ {o} : objs'[y] = objs[y]
          /\ c \in DOMAIN db
      BY <2>3 DEF PayForShopcart, CardsInv, StepsInv, CardInv, CardType
    <3>2. Paid(Loaded(c), 0, billed)
      BY LoadedIsPaid DEF CardsInv, StepsInv, CardInv
    <3>5. CASE x = o BY <3>1, <3>2, <3>5
    <3>6. CASE x # o
      <4>1. objs[x] # NoObj /\ objs'[x] = objs[x]
        BY <1>1, <1>5, <3>1, <3>6 DEF Held
      <4> QED BY <1>3, <4>1
    <3> QED BY <3>5, <3>6
  <2> QED BY <2>1, <2>2, <2>3 DEF Calls
<1> QED BY <1>1, <1>2, <1>3, <1>5, CallKeeps

\* What is left of the call holds no other object.
LEMMA TailHolds ==
    ASSUME StepsInv, todo # <<>>, todo' = Tail(todo),
           \A x \in Obj : x # Who => objs'[x] = objs[x] \/ objs'[x] = NoObj
    PROVE  \A x \in Obj : Held(todo, x)' => Held(todo, x)
<1>1. \A x \in Obj : (\E i \in 1..Len(todo') : todo'[i].o = x) =>
          \E i \in 1..Len(todo) : todo[i].o = x
  BY NextSteps
<1>2. Held(todo, Who)
  BY HeadFacts DEF Held, Who, StepsInv
<1> QED BY <1>1, <1>2 DEF Held

\* A file operation that is no bill and no purchase owes what it took from its object.
LEMMA FileKeepsBilled ==
    ASSUME CardsInv, ~DiskFails, FileStep PROVE BilledInv'
<1>1. todo # <<>> /\ todo' = Tail(todo)
  BY DEF FileStep, Charge, Bill, Credit, Open, Write, History, At
<1>2. /\ Who \in Obj /\ Sum \in Nat /\ objs[Who] \in Object /\ Who = todo[1].o /\ Sum = todo[1].n
  BY <1>1, HeadFacts DEF CardsInv, StepsInv, Who, Sum
<1>3. Held(todo, Who) /\ Paid(objs[Who], Owed(todo, Who), billed)
  BY <1>1, <1>2, HeadFacts DEF CardsInv, StepsInv, BilledInv, Held
<1>4. /\ todo' # <<>> /\ todo'[1].k \in Bills =>
             todo[1].k = "charge" /\ todo'[1].o = Who /\ todo'[1].n = Sum
      /\ todo[1].k = "charge" => todo' # <<>> /\ todo'[1].k \in Bills
  BY <1>1, <1>2, ChainedTail DEF CardsInv, StepsInv, CardInv, CardType
<1>5. \A x \in Obj : x # Who => Owed(todo, x) = 0 /\ Owed(todo', x) = 0
  BY <1>2, <1>4 DEF Owed
<1>6. todo[1].k = "charge" => Owed(todo, Who) = 0 /\ Owed(todo', Who) = Sum
  BY <1>2, <1>4 DEF Owed, Bills
<1>7. todo[1].k # "charge" => Owed(todo', Who) = 0
  BY <1>4 DEF Owed
<1>8. todo[1].k \in Bills => Owed(todo, Who) = Sum
  BY <1>1, <1>2 DEF Owed
<1>9. Head(todo) = todo[1]
  BY <1>1, HeadFacts DEF CardsInv, StepsInv
<1>10. /\ Limit \in Nat /\ objs[Who].card \in Card /\ objs[Who].bal \in Nat
       /\ billed \in [Card -> Nat] /\ objs[Who].snap \in Tables
       /\ \A c \in DOMAIN objs[Who].snap : c \in Card /\ objs[Who].snap[c].bal \in Nat
  <2>1. objs[Who].card \in Card /\ objs[Who].bal \in Nat /\ objs[Who].snap \in Tables
    BY <1>2 DEF Object
  <2>2. \A c \in DOMAIN objs[Who].snap : c \in Card /\ objs[Who].snap[c].bal \in Nat
    BY <2>1 DEF Tables, Balance
  <2> QED BY <2>1, <2>2, CardAssumption DEF CardAssumption, CardsInv, BilledInv
<1>11. \A x \in Obj : Held(todo, x) /\ x # Who => Paid(objs[x], 0, billed)
  BY <1>5 DEF CardsInv, BilledInv
<1>12. /\ objs[Who].bal + Owed(todo, Who) + billed[objs[Who].card] >= Limit
       /\ \A c \in DOMAIN objs[Who].snap : c # objs[Who].card =>
              objs[Who].snap[c].bal + billed[c] + 0 >= Limit
       /\ objs[Who].card \in DOMAIN objs[Who].snap =>
              objs[Who].snap[objs[Who].card].bal + billed[objs[Who].card]
                  + Owed(todo, Who) >= Limit
  BY <1>3 DEF Paid
<1>13. CASE Charge
  <2>1. /\ DOMAIN objs' = Obj /\ \A x \in Obj \ {Who} : objs'[x] = objs[x]
        /\ objs'[Who].card = objs[Who].card /\ objs'[Who].bal = objs[Who].bal - Sum
        /\ DOMAIN objs'[Who].snap = DOMAIN objs[Who].snap
        /\ objs[Who].card \in DOMAIN objs[Who].snap =>
               objs'[Who].snap[objs[Who].card].bal = objs[Who].bal - Sum
        /\ \A c \in DOMAIN objs[Who].snap \ {objs[Who].card} :
               objs'[Who].snap[c] = objs[Who].snap[c]
        /\ billed' = billed /\ db' = db
    <3> DEFINE b == objs[Who].bal - Sum
               t == [objs[Who].snap EXCEPT ![objs[Who].card].bal = b]
    <3>1. objs' = [objs EXCEPT ![Who] = [@ EXCEPT !.bal = b, !.snap = t]]
      BY <1>13 DEF Charge
    <3>2. /\ DOMAIN t = DOMAIN objs[Who].snap
          /\ \A c \in DOMAIN objs[Who].snap \ {objs[Who].card} : t[c] = objs[Who].snap[c]
          /\ objs[Who].card \in DOMAIN objs[Who].snap => t[objs[Who].card].bal = b
      <4>1. PICK S \in SUBSET Card : objs[Who].snap \in [S -> Balance]
        BY <1>10 DEF Tables
      <4> QED BY <4>1 DEF Balance
    <3> HIDE DEF t
    <3>3. /\ objs \in [Obj -> Object \cup {NoObj}] /\ billed' = billed /\ db' = db
      BY <1>13 DEF Charge, CardsInv, StepsInv, CardInv, CardType, store
    <3>4. objs'[Who].card = objs[Who].card /\ objs'[Who].bal = b /\ objs'[Who].snap = t
      BY <1>2, <3>1, <3>3 DEF Object
    <3>5. DOMAIN objs' = Obj /\ \A x \in Obj \ {Who} : objs'[x] = objs[x]
      BY <3>1, <3>3
    <3> QED BY <3>2, <3>3, <3>4, <3>5
  <2>2. Owed(todo, Who) = 0 /\ Owed(todo', Who) = Sum
    BY <1>6, <1>9, <1>13 DEF Charge, At
  <2>3. /\ (objs[Who].bal - Sum) + Sum + billed[objs[Who].card] >= Limit
        /\ (objs[Who].bal - Sum) + billed[objs[Who].card] + Sum >= Limit
    BY <1>2, <1>10, <1>12, <2>2, SMTT(60)
  <2>4. Paid(objs'[Who], Sum, billed)
    <3>1. objs'[Who].bal + Sum + billed[objs'[Who].card] >= Limit
      BY <2>1, <2>3
    <3>2. ASSUME NEW c \in DOMAIN objs'[Who].snap
          PROVE  objs'[Who].snap[c].bal + billed[c]
                     + (IF c = objs'[Who].card THEN Sum ELSE 0) >= Limit
      <4>1. CASE c = objs[Who].card BY <2>1, <2>3, <3>2, <4>1
      <4>2. CASE c # objs[Who].card BY <1>12, <2>1, <3>2, <4>2
      <4> QED BY <4>1, <4>2
    <3> QED BY <3>1, <3>2 DEF Paid
  <2>5. \A x \in Obj : Held(todo, x)' => Held(todo, x)
    BY <1>1, <2>1, TailHolds DEF CardsInv
  <2>6. ASSUME NEW x \in Obj, Held(todo, x)' PROVE Paid(objs'[x], Owed(todo', x), billed')
    <3>1. CASE x = Who BY <2>1, <2>2, <2>4, <3>1
    <3>2. CASE x # Who BY <1>5, <1>11, <2>1, <2>5, <2>6, <3>2
    <3> QED BY <3>1, <3>2
  <2>7. ChargesAreBilled'
    BY <2>1 DEF ChargesAreBilled, CardsInv, BilledInv
  <2> QED BY <1>10, <2>1, <2>6, <2>7 DEF BilledInv
<1>14. CASE Bill
  <2> DEFINE k == objs[Who].card
  <2>1. /\ billed' = [billed EXCEPT ![k] = @ + Sum] /\ objs' = objs /\ db' = db
    BY <1>14 DEF Bill, Stored
  <2>2. Owed(todo, Who) = Sum /\ Owed(todo', Who) = 0
    BY <1>7, <1>8, <1>9, <1>14 DEF Bill, At, Bills
  <2>3. k \in Card /\ billed[k] \in Nat /\ Sum \in Nat
    BY <1>2, <1>10
  <2>4. /\ billed' \in [Card -> Nat] /\ billed'[k] = billed[k] + Sum
        /\ \A c \in Card : c # k => billed'[c] = billed[c]
        /\ \A c \in Card : billed'[c] >= billed[c]
    BY <1>10, <2>1, <2>3
  <2>5. Paid(objs[Who], 0, billed')
    <3>1. objs[Who].bal + 0 + billed'[k] >= Limit
      BY <1>10, <1>12, <2>2, <2>3, <2>4
    <3>2. ASSUME NEW c \in DOMAIN objs[Who].snap
          PROVE  objs[Who].snap[c].bal + billed'[c] + (IF c = k THEN 0 ELSE 0) >= Limit
      <4>1. CASE c = k
        <5>1. objs[Who].snap[k].bal + billed[k] + Sum >= Limit /\ objs[Who].snap[k].bal \in Nat
          BY <1>10, <1>12, <2>2, <3>2, <4>1
        <5> QED BY <2>3, <2>4, <4>1, <5>1
      <4>2. CASE c # k BY <1>10, <1>12, <2>4, <3>2, <4>2
      <4> QED BY <4>1, <4>2
    <3> QED BY <3>1, <3>2 DEF Paid
  <2>6. \A x \in Obj : Held(todo, x)' => Held(todo, x)
    BY <1>1, <2>1, TailHolds DEF CardsInv
  <2> HIDE DEF k
  <2>7. ASSUME NEW x \in Obj, Held(todo, x)' PROVE Paid(objs'[x], Owed(todo', x), billed')
    <3>1. CASE x = Who BY <2>1, <2>2, <2>5, <3>1
    <3>2. CASE x # Who
      <4>1. Paid(objs[x], 0, billed) /\ Owed(todo', x) = 0
        BY <1>5, <1>11, <2>6, <2>7, <3>2
      <4>2. objs[x] \in Object
        BY <1>1, <2>6, <2>7 DEF CardsInv, StepsInv, CardInv, CardType, AttendedBy, Held
      <4>3. /\ objs[x].card \in Card /\ objs[x].bal \in Nat
            /\ \A c \in DOMAIN objs[x].snap : c \in Card /\ objs[x].snap[c].bal \in Nat
        BY <4>2 DEF Object, Tables, Balance
      <4>4. Paid(objs[x], 0, billed')
        BY <1>10, <2>4, <4>1, <4>3 DEF Paid
      <4> QED BY <2>1, <4>1, <4>4
    <3> QED BY <3>1, <3>2
  <2>8. ChargesAreBilled'
    <3>1. \A c \in DOMAIN db : c \in Card /\ db[c].bal \in Nat /\ db[c].bal + billed[c] >= Limit
      BY DEF CardsInv, StepsInv, CardInv, CardType, Tables, Balance, BilledInv, ChargesAreBilled
    <3> QED BY <1>10, <2>1, <2>4, <3>1 DEF ChargesAreBilled
  <2> QED BY <2>4, <2>7, <2>8 DEF BilledInv
<1>15. CASE Credit
  <2> DEFINE b == objs[Who].bal + Sum
  <2>1. /\ DOMAIN objs' = Obj /\ \A x \in Obj \ {Who} : objs'[x] = objs[x]
        /\ objs'[Who].card = objs[Who].card /\ objs'[Who].bal = b
        /\ DOMAIN objs'[Who].snap = DOMAIN objs[Who].snap
        /\ objs[Who].card \in DOMAIN objs[Who].snap =>
               objs'[Who].snap[objs[Who].card].bal = b
        /\ \A c \in DOMAIN objs[Who].snap \ {objs[Who].card} :
               objs'[Who].snap[c] = objs[Who].snap[c]
        /\ billed' = billed /\ db' = db
    BY <1>2, <1>10, <1>15 DEF Credit, CardsInv, StepsInv, CardInv, CardType, Object, store
  <2>2. Owed(todo, Who) = 0 /\ Owed(todo', Who) = 0
    BY <1>2, <1>7, <1>9, <1>15 DEF Credit, At, Owed, Bills
  <2>3. b + 0 + billed[objs[Who].card] >= Limit /\ b + billed[objs[Who].card] + 0 >= Limit
    BY <1>2, <1>10, <1>12, <2>2, SMTT(60)
  <2> HIDE DEF b
  <2>4. Paid(objs'[Who], 0, billed)
    <3>1. objs'[Who].bal + 0 + billed[objs'[Who].card] >= Limit
      BY <2>1, <2>3
    <3>2. ASSUME NEW c \in DOMAIN objs'[Who].snap
          PROVE  objs'[Who].snap[c].bal + billed[c]
                     + (IF c = objs'[Who].card THEN 0 ELSE 0) >= Limit
      <4>1. CASE c = objs[Who].card BY <2>1, <2>3, <3>2, <4>1
      <4>2. CASE c # objs[Who].card BY <1>12, <2>1, <3>2, <4>2
      <4> QED BY <4>1, <4>2
    <3> QED BY <3>1, <3>2 DEF Paid
  <2>5. \A x \in Obj : Held(todo, x)' => Held(todo, x)
    BY <1>1, <2>1, TailHolds DEF CardsInv
  <2>6. ASSUME NEW x \in Obj, Held(todo, x)' PROVE Paid(objs'[x], Owed(todo', x), billed')
    <3>1. CASE x = Who BY <2>1, <2>2, <2>4, <3>1
    <3>2. CASE x # Who BY <1>5, <1>11, <2>1, <2>5, <2>6, <3>2
    <3> QED BY <3>1, <3>2
  <2>7. ChargesAreBilled'
    BY <2>1 DEF ChargesAreBilled, CardsInv, BilledInv
  <2> QED BY <1>10, <2>1, <2>6, <2>7 DEF BilledInv
<1>16. CASE Open \/ Write \/ History
  <2>1. Owed(todo, Who) = 0 /\ Owed(todo', Who) = 0
    BY <1>2, <1>7, <1>9, <1>16 DEF Open, Write, History, At, Owed, Bills
  <2>2. billed' = billed /\ (db' = db \/ db' = objs[Who].snap)
    BY <1>16 DEF Open, Write, History
  <2>3. \/ objs' = objs
        \/ Len(todo) = 1 /\ objs' = [objs EXCEPT ![Who] = NoObj]
    BY <1>16 DEF Open, Write, History
  <2>4. /\ \A x \in Obj : x # Who => objs'[x] = objs[x]
        /\ objs'[Who] = objs[Who] \/ (objs'[Who] = NoObj /\ Len(todo) = 1)
    BY <1>2, <2>3 DEF CardsInv, StepsInv, CardInv, CardType
  <2>5. \A x \in Obj : Held(todo, x)' => Held(todo, x)
    BY <1>1, <2>4, TailHolds DEF CardsInv
  <2>6. ASSUME NEW x \in Obj, x = Who, Held(todo, x)' PROVE objs'[x] = objs[x]
    <3>1. Len(todo') = Len(todo) - 1
      BY <1>1, NextSteps DEF CardsInv
    <3>2. ASSUME Len(todo) = 1, objs'[x] = NoObj PROVE FALSE
      <4>1. Len(todo') = 0
        BY <3>1, <3>2
      <4> QED BY <2>6, <3>2, <4>1 DEF Held
    <3> QED BY <2>4, <2>6, <3>2
  <2>7. ASSUME NEW x \in Obj, Held(todo, x)' PROVE Paid(objs'[x], Owed(todo', x), billed')
    <3>1. CASE x = Who
      <4>1. Paid(objs[Who], 0, billed)
        BY <1>3, <2>1
      <4> QED BY <2>1, <2>2, <2>6, <2>7, <3>1, <4>1
    <3>2. CASE x # Who BY <1>5, <1>11, <2>2, <2>4, <2>5, <2>7, <3>2
    <3> QED BY <3>1, <3>2
  <2>8. ChargesAreBilled'
    <3>1. CASE db' = db
      BY <2>2, <3>1 DEF ChargesAreBilled, CardsInv, BilledInv
    <3>2. CASE db' = objs[Who].snap
      <4>1. \A c \in DOMAIN objs[Who].snap :
                objs[Who].snap[c].bal + billed[c] + 0 >= Limit
        BY <1>12, <2>1
      <4> QED BY <1>10, <2>2, <3>2, <4>1 DEF ChargesAreBilled
    <3> QED BY <2>2, <3>1, <3>2
  <2> QED BY <1>10, <2>2, <2>7, <2>8 DEF BilledInv
<1> QED BY <1>13, <1>14, <1>15, <1>16 DEF FileStep

\* A file operation records a purchase only when its sum was billed, and leaves a file
\* empty only until the next one.
LEMMA FileKeepsBought ==
    ASSUME CardsInv, ~DiskFails, FileStep PROVE BoughtInv' /\ TornInv'
<1>1. todo # <<>> /\ todo' = Tail(todo)
  BY DEF FileStep, Charge, Bill, Credit, Open, Write, History, At
<1>2. Sum \in Nat /\ Sum = todo[1].n /\ Head(todo) = todo[1] /\ 1 \in 1..Len(todo)
  BY <1>1, HeadFacts DEF CardsInv, StepsInv, Sum
<1>3. /\ Len(todo) \in Nat /\ Len(todo') = Len(todo) - 1
      /\ \A i \in 1..Len(todo') : i + 1 \in 1..Len(todo) /\ todo'[i] = todo[i + 1]
      /\ \A i \in 2..Len(todo) : i - 1 \in 1..Len(todo') /\ todo'[i - 1] = todo[i]
  BY <1>1, NextSteps DEF CardsInv
<1>4. \A i \in 1..Len(todo) : todo[i].n \in Nat
  BY StepTypes DEF CardsInv, StepsInv, CardInv, CardType
<1>5. bought \in Nat /\ shopped \in Nat /\ bought <= shopped
  BY DEF CardsInv, BoughtInv
<1>6. BoughtInv'
  <2>1. CASE todo[1].k = "hist"
    <3>1. bought' = bought + Sum /\ shopped' = shopped
      BY <1>2, <2>1 DEF FileStep, Charge, Bill, Credit, Open, Write, History, At, Stored, store
    <3>2. Len(todo) = 1
      BY <1>2, <2>1 DEF CardsInv, StepsInv, Chained, Follows
    <3>3. \A j \in 1..Len(todo) : todo[j].k # "shop"
      BY <2>1, <3>2
    <3>4. bought + todo[1].n <= shopped
      BY <1>2, <2>1, <3>3 DEF CardsInv, BoughtInv
    <3>5. Len(todo') = 0
      BY <1>3, <3>2
    <3>6. bought' \in Nat /\ shopped' \in Nat /\ bought' <= shopped'
      BY <1>2, <1>5, <3>1, <3>4
    <3> QED BY <3>5, <3>6 DEF BoughtInv
  <2>2. CASE todo[1].k = "shop"
    <3>1. bought' = bought /\ shopped' = shopped + Sum
      BY <1>2, <2>2 DEF FileStep, Charge, Bill, Credit, Open, Write, History, At, Stored, store
    <3>2. ASSUME NEW i \in 1..Len(todo'), todo'[i].k = "hist"
          PROVE  \/ bought' + todo'[i].n <= shopped'
                 \/ \E j \in 1..Len(todo') : todo'[j].k = "shop" /\ todo'[j].n = todo'[i].n
      <4>1. i + 1 \in 1..Len(todo) /\ todo'[i] = todo[i + 1]
        BY <1>3
      <4>2. \/ bought + todo[i + 1].n <= shopped
            \/ \E j \in 1..Len(todo) : todo[j].k = "shop" /\ todo[j].n = todo[i + 1].n
        BY <3>2, <4>1 DEF CardsInv, BoughtInv
      <4>3. CASE bought + todo[i + 1].n <= shopped
        <5>1. todo[i + 1].n \in Nat /\ Sum \in Nat
          BY <1>2, <1>4, <4>1
        <5>2. bought + todo[i + 1].n <= shopped + Sum
          BY <1>5, <4>3, <5>1
        <5>3. bought' + todo'[i].n <= shopped'
          BY <3>1, <4>1, <5>2
        <5> QED BY <5>3
      <4>4. ASSUME NEW j \in 1..Len(todo), todo[j].k = "shop", todo[j].n = todo[i + 1].n
            PROVE  \/ bought' + todo'[i].n <= shopped'
                   \/ \E l \in 1..Len(todo') : todo'[l].k = "shop" /\ todo'[l].n = todo'[i].n
        <5>1. CASE j = 1
          <6>1. todo'[i].n = Sum /\ Sum \in Nat
            BY <1>2, <4>1, <4>4, <5>1
          <6>2. bought + Sum <= shopped + Sum
            BY <1>5, <6>1
          <6>3. bought' + todo'[i].n <= shopped'
            BY <3>1, <6>1, <6>2
          <6> QED BY <6>3
        <5>2. CASE j # 1
          <6>1. j - 1 \in 1..Len(todo') /\ todo'[j - 1] = todo[j]
            BY <1>3, <5>2
          <6> QED BY <4>1, <4>4, <6>1
        <5> QED BY <5>1, <5>2
      <4> QED BY <4>2, <4>3, <4>4
    <3>3. bought' \in Nat /\ shopped' \in Nat /\ bought' <= shopped'
      BY <1>2, <1>5, <3>1
    <3> QED BY <3>2, <3>3 DEF BoughtInv
  <2>3. CASE todo[1].k \notin {"hist", "shop"}
    <3>1. bought' = bought /\ shopped' = shopped
      BY <1>2, <2>3 DEF FileStep, Charge, Bill, Credit, Open, Write, History, At, Stored, store
    <3>2. ASSUME NEW i \in 1..Len(todo'), todo'[i].k = "hist"
          PROVE  \/ bought' + todo'[i].n <= shopped'
                 \/ \E j \in 1..Len(todo') : todo'[j].k = "shop" /\ todo'[j].n = todo'[i].n
      <4>1. i + 1 \in 1..Len(todo) /\ todo'[i] = todo[i + 1]
        BY <1>3
      <4>2. \/ bought + todo[i + 1].n <= shopped
            \/ \E j \in 1..Len(todo) : todo[j].k = "shop" /\ todo[j].n = todo[i + 1].n
        BY <3>2, <4>1 DEF CardsInv, BoughtInv
      <4>3. \A j \in 1..Len(todo) : todo[j].k = "shop" =>
                j - 1 \in 1..Len(todo') /\ todo'[j - 1] = todo[j]
        <5>1. \A j \in 1..Len(todo) : todo[j].k = "shop" => j \in 2..Len(todo)
          BY <2>3
        <5> QED BY <1>3, <5>1
      <4> QED BY <3>1, <4>1, <4>2, <4>3
    <3> QED BY <1>5, <3>1, <3>2 DEF BoughtInv
  <2> QED BY <2>1, <2>2, <2>3
<1>7. TornInv'
  <2>1. CASE Open
    <3>1. todo'# <<>> /\ todo'[1].k = "write"
      BY <1>1, <1>2, <2>1, ChainedTail DEF Open, At, CardsInv, StepsInv, CardInv, CardType
    <3> QED BY <3>1 DEF TornInv
  <2>2. CASE Write
    BY <2>2 DEF Write, Stored, TornInv
  <2>3. CASE Charge \/ Bill \/ Credit \/ History
    <3>1. torn' = torn /\ todo[1].k # "write"
      BY <1>2, <2>3 DEF Charge, Bill, Credit, History, At, store
    <3> QED BY <1>1, <3>1 DEF TornInv, CardsInv
  <2> QED BY <2>1, <2>2, <2>3 DEF FileStep
<1> QED BY <1>6, <1>7

\* Every step keeps the invariant.
LEMMA CardsNext == ASSUME CardsInv, ~DiskFails, [Next]_vars PROVE CardsInv'
<1>1. StepsInv'
  BY StepsNext DEF CardsInv
<1>2. CASE FileStep
  BY <1>1, <1>2, FileKeepsBilled, FileKeepsBought DEF CardsInv
<1>3. ASSUME NEW o \in Obj, Calls(o) PROVE CardsInv'
  BY <1>1, <1>3, CallsKeep DEF CardsInv
<1>4. ASSUME NEW o \in Obj, NEW c \in Card, Construct(o, c) PROVE CardsInv'
  <2>1. /\ objs' = [objs EXCEPT ![o] = Loaded(c)] /\ todo = <<>> /\ todo' = <<>> /\ ~torn
        /\ UNCHANGED store
    BY <1>4 DEF Construct, Idle
  <2>2. objs \in [Obj -> Object \cup {NoObj}] /\ Len(todo) = 0
    BY <2>1 DEF CardsInv, StepsInv, CardInv, CardType
  <2>3. Paid(Loaded(c), 0, billed)
    BY LoadedIsPaid DEF CardsInv, StepsInv, CardInv
  <2>4. ASSUME NEW x \in Obj, Held(todo, x)' PROVE Paid(objs'[x], 0, billed)
    <3>1. CASE x = o BY <2>1, <2>2, <2>3, <3>1
    <3>2. CASE x # o
      <4>1. objs'[x] = objs[x] /\ objs[x] # NoObj
        BY <2>1, <2>2, <2>4, <3>2 DEF Held
      <4> QED BY <2>1, <4>1 DEF CardsInv, BilledInv, Held, Owed
    <3> QED BY <3>1, <3>2
  <2>5. BilledInv'
    BY <2>1, <2>4 DEF CardsInv, BilledInv, ChargesAreBilled, Owed, store
  <2>6. BoughtInv' /\ TornInv'
    BY <2>1, <2>2 DEF CardsInv, BoughtInv, TornInv, store
  <2> QED BY <1>1, <2>5, <2>6 DEF CardsInv
<1>5. ASSUME NEW o \in Obj, Drop(o) PROVE CardsInv'
  <2>1. /\ objs' = [objs EXCEPT ![o] = NoObj] /\ todo = <<>> /\ todo' = <<>>
        /\ objs[o] # NoObj /\ UNCHANGED store
    BY <1>5 DEF Drop, Idle, Alive
  <2>2. objs \in [Obj -> Object \cup {NoObj}] /\ Len(todo) = 0
    BY <2>1 DEF CardsInv, StepsInv, CardInv, CardType
  <2>3. ASSUME NEW x \in Obj, Held(todo, x)' PROVE Paid(objs'[x], 0, billed)
    <3>1. objs'[x] = objs[x] /\ objs[x] # NoObj
      BY <2>1, <2>2, <2>3 DEF Held
    <3> QED BY <2>1, <3>1 DEF CardsInv, BilledInv, Held, Owed
  <2>4. BilledInv'
    BY <2>1, <2>3 DEF CardsInv, BilledInv, ChargesAreBilled, Owed, store
  <2>5. BoughtInv' /\ TornInv'
    BY <2>1, <2>2 DEF CardsInv, BoughtInv, TornInv, store
  <2> QED BY <1>1, <2>4, <2>5 DEF CardsInv
<1>6. CASE Kill
  <2>1. /\ \A o \in Obj : objs'[o] = NoObj
        /\ todo' = <<>> /\ Len(todo') = 0 /\ UNCHANGED store
    BY <1>6 DEF Kill
  <2>2. \A x \in Obj : ~(Held(todo, x)')
    BY <2>1 DEF Held
  <2>3. BilledInv'
    BY <2>1, <2>2 DEF CardsInv, BilledInv, ChargesAreBilled, store
  <2>4. BoughtInv' /\ TornInv'
    BY <2>1 DEF CardsInv, BoughtInv, TornInv, store
  <2> QED BY <1>1, <2>3, <2>4 DEF CardsInv
<1>7. CASE UNCHANGED vars
  <2>1. BilledInv'
    BY <1>7 DEF vars, store, CardsInv, BilledInv, ChargesAreBilled, Held, Owed
  <2>2. BoughtInv' /\ TornInv'
    BY <1>7 DEF vars, store, CardsInv, BoughtInv, TornInv
  <2> QED BY <1>1, <2>1, <2>2 DEF CardsInv
<1> QED BY <1>2, <1>3, <1>4, <1>5, <1>6, <1>7 DEF Next, Calls

\* On a sound disk whatever left a card is in its bills, a purchase is in the history
\* only after it was billed, and no call that returns leaves the table empty: for any
\* number of cards, objects and prices, and wherever the console is killed (card_pay,
\* update_card, append_db_json, write_db_json, payfor_shopcart).
THEOREM CardsHold ==
    ~DiskFails => (Spec => [](ChargesAreBilled /\ PurchasesAreBilled /\ ReturnsWhole))
<1>1. CardsInv => ChargesAreBilled /\ PurchasesAreBilled /\ ReturnsWhole
  BY DEF CardsInv, BilledInv, BoughtInv, TornInv, PurchasesAreBilled, ReturnsWhole, Idle, Free
<1> SUFFICES ASSUME ~DiskFails
             PROVE  Spec => [](ChargesAreBilled /\ PurchasesAreBilled /\ ReturnsWhole)
  OBVIOUS
<1>2. CardsInv /\ [Next]_vars => CardsInv'
  BY CardsNext
<1> QED BY <1>1, <1>2, CardsInit, PTL DEF Spec

-----------------------------------------------------------------------------
(* The dashboard. *)

\* Whether a start of the command may still post a case.
StillPosts(c) == upload = "create" \/ (upload = "cases" /\ c \in unposted)

\* A case is on the dashboard no more often than the command was started, and each of
\* its starts but one found the run there.
PostedBy ==
    /\ \A c \in UploadCase : posted[c] <= starts /\ (StillPosts(c) => posted[c] < starts)
    /\ ~run => \A c \in UploadCase : posted[c] = 0
    /\ ~Forced /\ upload = "cases" => \A c \in unposted : posted[c] = 0
    /\ upload = "cases" => \A c \in UploadCase \ unposted : posted[c] > 0 \/ c \in refused

\* Once a job failed the run is there, and only --force goes on with it.
Halted ==
    /\ upload = "cases" \/ broken => run
    /\ ~Forced /\ broken => upload # "cases"

UploadInv ==
    /\ Upload!TypeOK /\ PostedBy /\ Halted /\ Upload!CaseOnce /\ Upload!SubmittedIsAnswered

\* The invariant holds initially ...
LEMMA UploadInvInit ==
    ASSUME Upload!DashboardAssumption, Upload!Init
    PROVE  UploadInv
<1> USE DEF Upload!DashboardAssumption, Upload!Init
<1>1. Upload!TypeOK
  <2>1. 0 \in 0..MaxUploads
    OBVIOUS
  <2>2. posted \in [UploadCase -> 0..MaxUploads]
    BY <2>1
  <2> QED
    BY <2>1, <2>2 DEF Upload!TypeOK
<1>2. PostedBy /\ Halted
  BY DEF PostedBy, Halted, StillPosts
<1>3. Upload!CaseOnce /\ Upload!SubmittedIsAnswered
  BY DEF Upload!CaseOnce, Upload!SubmittedIsAnswered
<1> QED
  BY <1>1, <1>2, <1>3 DEF UploadInv

\* ... and each step of the command keeps it, ...
LEMMA UploadInvNext ==
    ASSUME Upload!DashboardAssumption, UploadInv, [Upload!Next]_(Upload!vars)
    PROVE  UploadInv'
<1> USE DEF Upload!DashboardAssumption, UploadInv, Upload!TypeOK, PostedBy, Halted,
       StillPosts, Upload!CaseOnce, Upload!SubmittedIsAnswered
<1>1. CASE Upload!Start
  BY <1>1 DEF Upload!Start
<1>2. CASE Upload!Created
  BY <1>2 DEF Upload!Created
<1>3. CASE Upload!Exists
  BY <1>3 DEF Upload!Exists
<1>4. CASE Upload!CreateFails
  BY <1>4 DEF Upload!CreateFails
<1>5. ASSUME NEW c \in UploadCase, Upload!PostCase(c) PROVE UploadInv'
  <2>1. /\ upload = "cases" /\ c \in unposted /\ unposted' = unposted \ {c}
        /\ UNCHANGED <<starts, run, submitted>>
    BY <1>5 DEF Upload!PostCase
  <2>2. CASE /\ posted' = [posted EXCEPT ![c] = @ + 1]
             /\ UNCHANGED <<upload, refused, erring, broken>>
    BY <2>1, <2>2
  <2>3. CASE refused' = refused \cup {c} /\ UNCHANGED <<upload, posted, erring, broken>>
    BY <2>1, <2>3
  <2>4. CASE /\ posted' \in {posted, [posted EXCEPT ![c] = @ + 1]}
             /\ upload' = "raised" /\ erring' = TRUE /\ broken' = TRUE /\ UNCHANGED refused
    BY <2>1, <2>4
  <2> QED
    BY <1>5, <2>2, <2>3, <2>4 DEF Upload!PostCase
<1>6. CASE Upload!SubmitRun
  BY <1>6 DEF Upload!SubmitRun, Upload!Posted
<1>7. CASE UNCHANGED Upload!vars
  BY <1>7 DEF Upload!vars
<1> HIDE DEF UploadInv
<1> QED
  BY <1>1, <1>2, <1>3, <1>4, <1>5, <1>6, <1>7 DEF Upload!Next

\* ... so it holds throughout.
LEMMA UploadInvHolds ==
    ASSUME Upload!DashboardAssumption
    PROVE  Upload!Spec => []UploadInv
<1>1. Upload!Init => UploadInv
  BY UploadInvInit
<1>2. UploadInv /\ [Upload!Next]_(Upload!vars) => UploadInv'
  BY UploadInvNext
<1> QED
  BY <1>1, <1>2, PTL DEF Upload!Spec

\* However often a job that failed is started again, no case is on the dashboard twice
\* unless the upload is forced, and a run is submitted only after each of its cases was
\* answered.
THEOREM UploadHolds ==
    ASSUME Upload!DashboardAssumption
    PROVE  Upload!Spec => [](Upload!CaseOnce /\ Upload!SubmittedIsAnswered)
<1>1. UploadInv => Upload!CaseOnce /\ Upload!SubmittedIsAnswered
  BY DEF UploadInv
<1> QED
  BY <1>1, UploadInvHolds, PTL

\* A repeated upload completes nothing.
THEOREM NeverCompletedHolds ==
    ASSUME Upload!DashboardAssumption
    PROVE  Upload!Spec => Upload!NeverCompleted
<1> DEFINE Lawful == ~Forced /\ broken => posted' = posted /\ submitted' = submitted
<1>1. UploadInv /\ [Upload!Next]_(Upload!vars) => [Lawful]_(Upload!vars)
  BY DEF UploadInv, Halted, Upload!Next, Upload!Start, Upload!Created, Upload!Exists,
         Upload!CreateFails, Upload!PostCase, Upload!SubmitRun, Upload!Posted
<1> QED
  BY <1>1, UploadInvHolds, PTL DEF Upload!Spec, Upload!NeverCompleted

-----------------------------------------------------------------------------
(* The groups of ResultsDB. *)

\* A set of numbers that is not empty has a least element.
LEMMA FirstIsLeast ==
    ASSUME NEW T \in SUBSET Nat, T # {}
    PROVE  \E k \in T : \A l \in T : k <= l
<1> DEFINE R == {ss \in Nat \X Nat : ss[1] < ss[2]}
<1>1. IsWellFoundedOn(R, Nat)
  BY NatLessThanWellFounded DEF OpToRel
<1>2. PICK x \in T : \A y \in T : ~ (<<y, x>> \in R)
  <2> HIDE DEF R
  <2> QED
    BY <1>1, WFMin
<1>3. ASSUME NEW y \in T PROVE x <= y
  <2>1. x \in Nat /\ y \in Nat
    OBVIOUS
  <2>2. y < x => <<y, x>> \in R
    <3>1. ASSUME y < x PROVE <<y, x>>[1] < <<y, x>>[2]
      BY <3>1
    <3>2. <<y, x>> \in Nat \X Nat
      BY <2>1
    <3> QED
      BY <3>1, <3>2
  <2> HIDE DEF R
  <2> QED
    BY <1>2, <2>1, <2>2
<1> QED
  BY <1>3

\* What the types leave open: groups are asked for and taken under descriptions that
\* are wanted, and a job stores its results once it has a group of each.
Described(j) ==
    /\ grouping[j] = "take" => /\ described[j] \in Groups!Wanted(j)
                               /\ told[j] \subseteq Groups!With(described[j])
    /\ grouping[j] = "results" => \A d \in Groups!Wanted(j) : mine[j][d] # 0
    /\ \A d \in ResultTag \cup ReportJob : mine[j][d] # 0 => mine[j][d] \in Groups!With(d)

\* A job has a group of its own or none, and none if it is about to create one.
Owned(j) ==
    /\ \A k, l \in Groups!With(j) : k = l
    /\ grouping[j] = "take" /\ described[j] = j /\ told[j] = {} => Groups!With(j) = {}

\* A result is in one group of each description that its job wants.
GroupedAsWanted(r) ==
    /\ r[1] \in ReportJob
    /\ \A k \in r[3] : k \in DOMAIN groups /\ groups[k] \in Groups!Wanted(r[1])
    /\ \A d \in Groups!Wanted(r[1]) : \E k \in r[3] : r[3] \cap Groups!With(d) = {k}

GroupsType ==
    /\ grouping \in [ReportJob -> {"idle", "ask", "take", "results", "done", "raised"}]
    /\ described \in [ReportJob -> ResultTag \cup ReportJob]
    /\ told \in [ReportJob -> SUBSET (1..Len(groups))]
    /\ mine \in [ReportJob -> [ResultTag \cup ReportJob -> 0..Len(groups)]]
    /\ groups \in Seq(ResultTag \cup ReportJob)

GroupsInv ==
    /\ GroupsType
    /\ \A j \in ReportJob : Described(j) /\ Owned(j)
    /\ \A r \in results : GroupedAsWanted(r)

\* The invariant holds initially ...
LEMMA GroupsInvInit ==
    ASSUME Groups!GroupsAssumption, Groups!Init
    PROVE  GroupsInv
<1>1. GroupsType
  BY DEF Groups!Init, GroupsType, Groups!NoGroup
<1>2. \A j \in ReportJob : Described(j) /\ Owned(j)
  BY DEF Groups!Init, Described, Owned, Groups!NoGroup, Groups!With
<1> QED
  BY <1>1, <1>2 DEF Groups!Init, GroupsInv

\* A new group is one of its description alone.
LEMMA GroupCreated ==
    ASSUME NEW g \in ResultTag \cup ReportJob, groups \in Seq(ResultTag \cup ReportJob),
           groups' = Append(groups, g)
    PROVE  /\ groups' \in Seq(ResultTag \cup ReportJob) /\ Len(groups') = Len(groups) + 1
           /\ DOMAIN groups' = 1..(Len(groups) + 1) /\ DOMAIN groups = 1..Len(groups)
           /\ \A k \in DOMAIN groups : groups'[k] = groups[k]
           /\ groups'[Len(groups) + 1] = g
           /\ Groups!With(g)' = Groups!With(g) \cup {Len(groups) + 1}
           /\ \A d : d # g => Groups!With(d)' = Groups!With(d)
           /\ \A d : Groups!With(d) \subseteq 1..Len(groups)
<1>1. /\ groups' \in Seq(ResultTag \cup ReportJob) /\ Len(groups') = Len(groups) + 1
      /\ DOMAIN groups' = 1..(Len(groups) + 1) /\ DOMAIN groups = 1..Len(groups)
      /\ \A k \in DOMAIN groups : groups'[k] = groups[k]
      /\ groups'[Len(groups) + 1] = g /\ Len(groups) \in Nat
  OBVIOUS
<1>2. Groups!With(g)' = Groups!With(g) \cup {Len(groups) + 1}
  BY <1>1 DEF Groups!With
<1>3. \A d : d # g => Groups!With(d)' = Groups!With(d)
  BY <1>1 DEF Groups!With
<1>4. \A d : Groups!With(d) \subseteq 1..Len(groups)
  BY <1>1 DEF Groups!With
<1> QED
  BY <1>1, <1>2, <1>3, <1>4
\* The component counts as this module does.
LEMMA GroupsCount ==
    /\ \A S : Groups!Cardinality(S) = Cardinality(S)
    /\ \A S : Groups!IsFiniteSet(S) <=> IsFiniteSet(S)
  BY DEF Groups!Cardinality, Cardinality, Groups!IsFiniteSet, IsFiniteSet

\* Two jobs never want each other's groups.
LEMMA WantedApart ==
    ASSUME Groups!GroupsAssumption, NEW i \in ReportJob, NEW j \in ReportJob
    PROVE  Groups!Wanted(j) \subseteq ResultTag \cup ReportJob /\ (j \in Groups!Wanted(i) => i = j)
BY DEF Groups!GroupsAssumption, Groups!Wanted

\* A step that creates no group keeps what is said of jobs that it leaves alone, and
\* of the results that were there.
LEMMA GroupsStay ==
    ASSUME GroupsInv, UNCHANGED groups
    PROVE  /\ \A d : Groups!With(d)' = Groups!With(d)
           /\ \A r : GroupedAsWanted(r) => GroupedAsWanted(r)'
<1>1. \A d : Groups!With(d)' = Groups!With(d)
  BY DEF Groups!With
<1>2. ASSUME NEW r, GroupedAsWanted(r) PROVE GroupedAsWanted(r)'
  BY <1>2, <1>1 DEF GroupsInv, GroupedAsWanted, Groups!Wanted
<1> QED
  BY <1>1, <1>2

\* A step that only moves a job's command, not to "take" or "results".
LEMMA MovesKeep ==
    ASSUME GroupsInv, NEW j \in ReportJob,
           NEW at \in {"ask", "done", "raised"}, grouping' = [grouping EXCEPT ![j] = at],
           mine' \in {mine, [mine EXCEPT ![j] = Groups!NoGroup(j)]},
           UNCHANGED <<described, told, groups, results>>
    PROVE  GroupsInv'
<1>1. GroupsType'
  <2>1. Groups!NoGroup(j) \in [ResultTag \cup ReportJob -> 0..Len(groups)]
    BY DEF GroupsInv, GroupsType, Groups!NoGroup
  <2>2. mine' \in [ReportJob -> [ResultTag \cup ReportJob -> 0..Len(groups)]]
    BY <2>1 DEF GroupsInv, GroupsType
  <2> QED
    BY <2>2 DEF GroupsInv, GroupsType
<1>2. ASSUME NEW i \in ReportJob PROVE Described(i)' /\ Owned(i)'
  <2>1. Described(i) /\ Owned(i)
    BY DEF GroupsInv
  <2>2. /\ grouping'[i] \in {"take", "results"} => i # j /\ grouping'[i] = grouping[i]
        /\ mine'[i] = mine[i] \/ (i = j /\ mine'[i] = Groups!NoGroup(j))
    BY DEF GroupsInv, GroupsType
  <2>3. Owned(i)'
    BY <2>1, <2>2, GroupsStay DEF Owned
  <2>4. Described(i)'
    BY <2>1, <2>2, GroupsStay DEF Described, Groups!NoGroup, Groups!Wanted
  <2> QED
    BY <2>3, <2>4
<1> QED
  BY <1>1, <1>2, GroupsStay DEF GroupsInv

\* A job asks for the groups of a description it wants.
LEMMA AskGroupsKeeps ==
    ASSUME Groups!GroupsAssumption, GroupsInv, NEW j \in ReportJob,
           NEW d \in ResultTag \cup ReportJob,
           Groups!AskGroups(j, d)
    PROVE  GroupsInv'
<1>1. /\ d \in Groups!Wanted(j) /\ described' = [described EXCEPT ![j] = d]
      /\ told' = [told EXCEPT ![j] = Groups!With(d)]
      /\ grouping' = [grouping EXCEPT ![j] = "take"]
      /\ UNCHANGED <<mine, groups, results>>
  BY DEF Groups!AskGroups, Groups!With
<1>2. Groups!With(d) \subseteq 1..Len(groups)
  BY DEF Groups!With, GroupsInv, GroupsType
<1>3. GroupsType'
  BY <1>1, <1>2 DEF GroupsInv, GroupsType
<1>4. ASSUME NEW i \in ReportJob PROVE Described(i)' /\ Owned(i)'
  <2>1. Described(i) /\ Owned(i)
    BY DEF GroupsInv
  <2>2. \/ /\ i # j /\ grouping'[i] = grouping[i] /\ told'[i] = told[i]
           /\ described'[i] = described[i]
        \/ i = j /\ grouping'[i] = "take" /\ told'[i] = Groups!With(d) /\ described'[i] = d
    BY <1>1 DEF GroupsInv, GroupsType
  <2>3. Owned(i)'
    BY <1>1, <2>1, <2>2, GroupsStay DEF Owned
  <2>4. Described(i)'
    BY <1>1, <2>1, <2>2, GroupsStay DEF Described, Groups!Wanted
  <2> QED
    BY <2>3, <2>4
<1> QED
  BY <1>1, <1>3, <1>4, GroupsStay DEF GroupsInv

\* It takes the first of those it was told of ...
LEMMA TakesFirst ==
    ASSUME GroupsInv, NEW j \in ReportJob, Groups!TakeGroup(j), told[j] # {}
    PROVE  GroupsInv'
<1> DEFINE g == Groups!First(told[j])
<1>1. /\ mine' = [mine EXCEPT ![j][described[j]] = g]
      /\ grouping[j] = "take" /\ grouping' = [grouping EXCEPT ![j] = "ask"]
      /\ UNCHANGED <<described, told, groups, results>>
  BY DEF Groups!TakeGroup
<1>2. g \in told[j]
  <2>1. told[j] \subseteq Nat
    BY DEF GroupsInv, GroupsType
  <2> QED
    BY <2>1, FirstIsLeast DEF Groups!First
<1> HIDE DEF g
<1>3. Described(j) /\ described[j] \in ResultTag \cup ReportJob
  BY DEF GroupsInv, GroupsType
<1>4. g \in Groups!With(described[j])
  BY <1>1, <1>2, <1>3 DEF Described
<1>5. GroupsType'
  <2>1. g \in 0..Len(groups)
    BY <1>2 DEF GroupsInv, GroupsType
  <2> QED
    BY <1>1, <1>3, <2>1 DEF GroupsInv, GroupsType
<1>6. ASSUME NEW i \in ReportJob PROVE Described(i)' /\ Owned(i)'
  <2>1. Described(i) /\ Owned(i)
    BY DEF GroupsInv
  <2>2. /\ grouping'[i] \in {"take", "results"} => i # j /\ grouping'[i] = grouping[i]
        /\ \A d \in ResultTag \cup ReportJob :
               mine'[i][d] = IF i = j /\ d = described[j] THEN g ELSE mine[i][d]
    BY <1>1 DEF GroupsInv, GroupsType
  <2>3. Owned(i)'
    BY <1>1, <2>1, <2>2, GroupsStay DEF Owned
  <2>4. Described(i)'
    BY <1>1, <1>4, <2>1, <2>2, GroupsStay DEF Described, Groups!Wanted
  <2> QED
    BY <2>3, <2>4
<1> QED
  BY <1>1, <1>5, <1>6, GroupsStay DEF GroupsInv

\* ... or creates one, which is nobody else's.
LEMMA CreatesGroup ==
    ASSUME Groups!GroupsAssumption, GroupsInv, NEW j \in ReportJob, NEW d, d = described[j],
           Groups!TakeGroup(j), told[j] = {}
    PROVE  GroupsInv'
<1> DEFINE g == Len(groups) + 1
<1>1. /\ groups' = Append(groups, d) /\ mine' = [mine EXCEPT ![j][d] = g]
      /\ grouping[j] = "take" /\ grouping' = [grouping EXCEPT ![j] = "ask"]
      /\ UNCHANGED <<described, told, results>>
  BY DEF Groups!TakeGroup
<1>2. /\ d \in ResultTag \cup ReportJob /\ d \in Groups!Wanted(j)
      /\ groups \in Seq(ResultTag \cup ReportJob)
  BY <1>1 DEF GroupsInv, GroupsType, Described
<1>3. /\ groups' \in Seq(ResultTag \cup ReportJob) /\ Len(groups') = g
      /\ DOMAIN groups' = 1..g /\ DOMAIN groups = 1..Len(groups)
      /\ \A k \in DOMAIN groups : groups'[k] = groups[k]
      /\ groups'[g] = d
      /\ Groups!With(d)' = Groups!With(d) \cup {g}
      /\ \A e : e # d => Groups!With(e)' = Groups!With(e)
      /\ \A e : Groups!With(e) \subseteq 1..Len(groups)
      /\ Len(groups) \in Nat
  BY <1>1, <1>2, GroupCreated
<1> HIDE DEF g
<1>4. GroupsType'
  <2>1. 0..Len(groups) \subseteq 0..g /\ g \in 0..g /\ 1..Len(groups) \subseteq 1..g
    BY <1>3 DEF g
  <2>2. mine' \in [ReportJob -> [ResultTag \cup ReportJob -> 0..g]]
    <3>1. [mine[j] EXCEPT ![d] = g] \in [ResultTag \cup ReportJob -> 0..g]
      BY <1>2, <2>1 DEF GroupsInv, GroupsType
    <3>2. \A i \in ReportJob : mine[i] \in [ResultTag \cup ReportJob -> 0..g]
      BY <2>1 DEF GroupsInv, GroupsType
    <3> QED
      BY <1>1, <3>1, <3>2 DEF GroupsInv, GroupsType
  <2> QED
    BY <1>1, <1>3, <2>1, <2>2 DEF GroupsInv, GroupsType
<1>5. ASSUME NEW i \in ReportJob PROVE Described(i)' /\ Owned(i)'
  <2>1. Described(i) /\ Owned(i) /\ Described(j) /\ Owned(j)
    BY DEF GroupsInv
  <2>2. /\ grouping'[i] \in {"take", "results"} => i # j /\ grouping'[i] = grouping[i]
        /\ \A e \in ResultTag \cup ReportJob :
               mine'[i][e] = IF i = j /\ e = d THEN g ELSE mine[i][e]
    BY <1>1, <1>2 DEF GroupsInv, GroupsType
  <2>3. Owned(i)'
    <3>1. CASE i = d
      <4>1. i = j
        BY <1>2, <3>1, WantedApart
      <4>2. Groups!With(j) = {}
        BY <1>1, <2>1, <3>1, <4>1 DEF Owned
      <4> QED
        BY <1>1, <1>3, <2>2, <3>1, <4>1, <4>2 DEF Owned
    <3>2. CASE i # d
      BY <1>1, <1>3, <2>1, <2>2, <3>2 DEF Owned
    <3> QED
      BY <3>1, <3>2
  <2>4. Described(i)'
    <3>1. ASSUME NEW e PROVE Groups!With(e) \subseteq Groups!With(e)'
      <4>1. CASE e = d
        BY <1>3, <4>1
      <4>2. CASE e # d
        BY <1>3, <4>2
      <4> QED
        BY <4>1, <4>2
    <3> QED
      BY <1>1, <1>3, <2>1, <2>2, <3>1 DEF Described, Groups!Wanted
  <2> QED
    BY <2>3, <2>4
<1>6. ASSUME NEW r \in results PROVE GroupedAsWanted(r)'
  <2>1. GroupedAsWanted(r)
    BY DEF GroupsInv
  <2>2. r[3] \subseteq 1..Len(groups) /\ g \notin r[3]
    BY <1>3, <2>1 DEF GroupedAsWanted, g
  <2>3. ASSUME NEW e PROVE r[3] \cap Groups!With(e)' = r[3] \cap Groups!With(e)
    <3>1. CASE e = d
      BY <1>3, <2>2, <3>1
    <3>2. CASE e # d
      BY <1>3, <3>2
    <3> QED
      BY <3>1, <3>2
  <2>4. \A k \in r[3] : k \in DOMAIN groups' /\ groups'[k] \in Groups!Wanted(r[1])
    BY <1>3, <2>1, <2>2 DEF GroupedAsWanted, g
  <2> QED
    BY <2>1, <2>3, <2>4 DEF GroupedAsWanted, Groups!Wanted
<1> QED
  BY <1>1, <1>4, <1>5, <1>6 DEF GroupsInv

\* A job has all its groups.
LEMMA GroupedKeeps ==
    ASSUME GroupsInv, NEW j \in ReportJob, Groups!Grouped(j)
    PROVE  GroupsInv'
<1>1. /\ grouping' = [grouping EXCEPT ![j] = "results"]
      /\ \A d \in Groups!Wanted(j) : mine[j][d] # 0
      /\ UNCHANGED <<described, told, mine, groups, results>>
  BY DEF Groups!Grouped
<1>2. GroupsType'
  BY <1>1 DEF GroupsInv, GroupsType
<1>3. ASSUME NEW i \in ReportJob PROVE Described(i)' /\ Owned(i)'
  <2>1. Described(i) /\ Owned(i)
    BY DEF GroupsInv
  <2>2. grouping'[i] = grouping[i] \/ (i = j /\ grouping'[i] = "results")
    BY <1>1 DEF GroupsInv, GroupsType
  <2>3. Owned(i)'
    BY <1>1, <2>1, <2>2, GroupsStay DEF Owned
  <2>4. Described(i)'
    BY <1>1, <2>1, <2>2, GroupsStay DEF Described, Groups!Wanted
  <2> QED
    BY <2>3, <2>4
<1> QED
  BY <1>1, <1>2, <1>3, GroupsStay DEF GroupsInv

\* A result is stored in the groups its job has.
LEMMA CreateResultKeeps ==
    ASSUME Groups!GroupsAssumption, GroupsInv, NEW j \in ReportJob, NEW c \in ResultCase,
           Groups!CreateResult(j, c)
    PROVE  GroupsInv'
<1> PICK in : in = {mine[j][d] : d \in Groups!Wanted(j)}
  OBVIOUS
<1>1. /\ results' = results \cup {<<j, c, in>>} /\ grouping[j] = "results"
      /\ UNCHANGED <<grouping, described, told, mine, groups>>
  BY DEF Groups!CreateResult
<1>2. GroupsType'
  BY <1>1 DEF GroupsInv, GroupsType
<1>3. ASSUME NEW i \in ReportJob PROVE Described(i)' /\ Owned(i)'
  BY <1>1, GroupsStay DEF GroupsInv, Described, Owned, Groups!Wanted
<1>4. \A d \in Groups!Wanted(j) : mine[j][d] \in Groups!With(d)
  BY <1>1, WantedApart DEF GroupsInv, Described
<1>5. GroupedAsWanted(<<j, c, in>>)
  <2>1. \A k \in in : k \in DOMAIN groups /\ groups[k] \in Groups!Wanted(j)
    BY <1>4 DEF Groups!With
  <2>2. ASSUME NEW d \in Groups!Wanted(j) PROVE in \cap Groups!With(d) = {mine[j][d]}
    BY <1>4 DEF Groups!With
  <2>3. \A d \in Groups!Wanted(j) : mine[j][d] \in in
    OBVIOUS
  <2> QED
    BY <2>1, <2>2, <2>3 DEF GroupedAsWanted
<1>6. GroupedAsWanted(<<j, c, in>>)'
  BY <1>1, <1>5, GroupsStay
<1>7. \A r \in results' : GroupedAsWanted(r)'
  BY <1>1, <1>6, GroupsStay DEF GroupsInv
<1> QED
  BY <1>2, <1>3, <1>7 DEF GroupsInv

\* ... and each step of a job keeps it, ...
LEMMA GroupsInvNext ==
    ASSUME Groups!GroupsAssumption, GroupsInv, [Groups!Next]_(Groups!vars)
    PROVE  GroupsInv'
<1>1. ASSUME NEW j \in ReportJob, Groups!Start(j) PROVE GroupsInv'
  BY <1>1, MovesKeep DEF Groups!Start
<1>2. ASSUME NEW j \in ReportJob, Groups!TakeGroup(j) PROVE GroupsInv'
  BY <1>2, TakesFirst, CreatesGroup
<1>3. ASSUME NEW j \in ReportJob, Groups!End(j) PROVE GroupsInv'
  BY <1>3, MovesKeep DEF Groups!End
<1>4. ASSUME NEW j \in ReportJob, Groups!Raise(j) PROVE GroupsInv'
  BY <1>4, MovesKeep DEF Groups!Raise
<1>5. CASE UNCHANGED Groups!vars
  <2>1. UNCHANGED <<grouping, described, told, mine, groups, results>>
    BY <1>5 DEF Groups!vars
  <2> QED
    <3>1. GroupsType'
      BY <2>1 DEF GroupsInv, GroupsType
    <3>2. ASSUME NEW i \in ReportJob PROVE Described(i)' /\ Owned(i)'
      BY <2>1, GroupsStay DEF GroupsInv, Described, Owned, Groups!Wanted
    <3> QED
      BY <2>1, <3>1, <3>2, GroupsStay DEF GroupsInv
<1> QED
  BY <1>1, <1>2, <1>3, <1>4, <1>5, AskGroupsKeeps, GroupedKeeps, CreateResultKeeps
     DEF Groups!Next

\* ... so it holds throughout.
LEMMA GroupsInvHolds ==
    ASSUME Groups!GroupsAssumption
    PROVE  Groups!Spec => []GroupsInv
<1>1. Groups!Init => GroupsInv
  BY GroupsInvInit
<1>2. GroupsInv /\ [Groups!Next]_(Groups!vars) => GroupsInv'
  BY GroupsInvNext
<1> QED
  BY <1>1, <1>2, PTL DEF Groups!Spec

\* A result is in one group of each description that its job wants, whoever else creates
\* groups meanwhile, and a job that is started again has one group of its own.
THEOREM ResultsAreGroupedHolds ==
    ASSUME Groups!GroupsAssumption
    PROVE  Groups!Spec => [](Groups!ResultsAreGrouped /\ Groups!OwnGroupOnce)
<1>1. GroupsInv => Groups!ResultsAreGrouped
  <2> SUFFICES ASSUME GroupsInv, NEW r \in results
               PROVE  /\ \A d \in Groups!Wanted(r[1]) :
                             Groups!Cardinality(r[3] \cap Groups!With(d)) = 1
                      /\ \A k \in r[3] : groups[k] \in Groups!Wanted(r[1])
    BY DEF Groups!ResultsAreGrouped
  <2> QED
    <3>1. \A d \in Groups!Wanted(r[1]) : \E k \in r[3] : r[3] \cap Groups!With(d) = {k}
      BY DEF GroupsInv, GroupedAsWanted
    <3>2. \A k : Groups!Cardinality({k}) = 1
      BY FS_Singleton, GroupsCount
    <3>3. \A k \in r[3] : groups[k] \in Groups!Wanted(r[1])
      BY DEF GroupsInv, GroupedAsWanted
    <3> QED
      BY <3>1, <3>2, <3>3
<1>2. GroupsInv => Groups!OwnGroupOnce
  <2> SUFFICES ASSUME GroupsInv, NEW j \in ReportJob
               PROVE  Groups!Cardinality(Groups!With(j)) <= 1
    BY DEF Groups!OwnGroupOnce
  <2>1. Groups!With(j) = {} \/ \E k : Groups!With(j) = {k}
    BY DEF GroupsInv, Owned
  <2> QED
    <3>1. Groups!Cardinality({}) = 0 /\ \A k : Groups!Cardinality({k}) = 1
      BY FS_Singleton, FS_EmptySet, GroupsCount
    <3>2. CASE Groups!With(j) = {}
      BY <3>1, <3>2
    <3>3. ASSUME NEW k, Groups!With(j) = {k} PROVE Groups!Cardinality(Groups!With(j)) <= 1
      <4>1. Groups!Cardinality({k}) = 1
        BY <3>1
      <4>2. Groups!Cardinality(Groups!With(j)) = 1
        BY <3>3, <4>1
      <4> QED
        BY <4>2
    <3> QED
      BY <2>1, <3>2, <3>3
<1> QED
  BY <1>1, <1>2, GroupsInvHolds, PTL

-----------------------------------------------------------------------------
(* The issues of Jira. *)

\* What the search of a job may have found of a message.
Found == UNION {[S -> Issues!Status] : S \in SUBSET Nat}

IssueRecord ==
    [message : Message, status : Issues!Status, comments : Nat, labels : SUBSET Issues!Kind]

IssuesType ==
    /\ report \in [ReportJob -> {"idle", "search", "report", "exit", "raised"}]
    /\ cases \in [ReportJob -> [Message -> Issues!Kind]]
    /\ known \in [ReportJob -> [Message -> Found]]
    /\ issues \in Seq(IssueRecord)
    /\ pending \in [ReportJob -> SUBSET Message] /\ erred \in [ReportJob -> SUBSET Message]

\* The issues a job knows of are the first ones of their message, and it has messages
\* left only while it reports.
Searched(j) ==
    /\ report[j] # "report" => pending[j] = {}
    /\ \A m \in Message :
           /\ DOMAIN known[j][m] \subseteq Issues!Of(m)
           /\ \A k \in DOMAIN known[j][m], l \in Issues!Of(m) : l < k => l \in DOMAIN known[j][m]

\* Jobs that may still create an issue for a message.
MayCreate(m) ==
    {j \in ReportJob : report[j] = "report" /\ m \in pending[j] /\ DOMAIN known[j][m] = {}}

\* Each issue of a message was created by a job that will not create another one.
Counted(m) == Cardinality(Issues!Of(m)) + Cardinality(MayCreate(m)) <= Cardinality(ReportJob)

\* What a job is done with is among the labels.
Labelled(j, m) ==
    (/\ report[j] = "report" /\ m \notin pending[j] \cup erred[j]
     /\ m \in Issues!Reportable(cases[j]))
    => \E k \in Issues!Of(m) : cases[j][m] \in issues[k].labels

IssuesInv ==
    /\ IssuesType
    /\ \A j \in ReportJob : Searched(j)
    /\ \A m \in Message : Counted(m)
    /\ \A j \in ReportJob, m \in Message : Labelled(j, m)
    /\ Issues!OneIsKept

\* The component counts as this module does.
LEMMA IssuesCount ==
    /\ \A S : Issues!Cardinality(S) = Cardinality(S)
    /\ \A S : Issues!IsFiniteSet(S) <=> IsFiniteSet(S)
  BY DEF Issues!Cardinality, Cardinality, Issues!IsFiniteSet, IsFiniteSet

\* Initially there is no issue.
LEMMA IssuesInvInit ==
    ASSUME Issues!IssueAssumption, Issues!Init
    PROVE  IssuesInv
<1>1. IssuesType
  <2>1. [n \in {} |-> "To Do"] \in [{} -> Issues!Status]
    OBVIOUS
  <2>2. [n \in {} |-> "To Do"] \in Found
    BY <2>1 DEF Found
  <2>3. Issues!Blank \in [Message -> Found] /\ Issues!Quiet \in [Message -> Issues!Kind]
    BY <2>2 DEF Issues!Blank, Issues!Quiet, Issues!Kind
  <2> QED
    BY <2>3 DEF Issues!Init, IssuesType
<1>2. \A m : Issues!Of(m) = {} /\ MayCreate(m) = {}
  BY DEF Issues!Init, Issues!Of, MayCreate
<1>3. \A j \in ReportJob : Searched(j)
  BY DEF Issues!Init, Searched, Issues!Blank
<1>4. \A m \in Message : Counted(m)
  <2>1. Cardinality(ReportJob) \in Nat
    BY IssuesCount, FS_CardinalityType DEF Issues!IssueAssumption
  <2> QED
    BY <1>2, <2>1, FS_EmptySet DEF Counted
<1>5. Issues!OneIsKept /\ \A j \in ReportJob, m \in Message : Labelled(j, m)
  BY DEF Issues!Init, Issues!OneIsKept, Labelled
<1> QED
  BY <1>1, <1>3, <1>4, <1>5 DEF IssuesInv

\* The earliest of some issues is the least of their numbers.
LEMMA EarliestIsLeast ==
    ASSUME NEW S \in SUBSET Nat, S # {}
    PROVE  /\ Issues!Earliest(S) \in S /\ \A l \in S : Issues!Earliest(S) <= l
           /\ \A k \in S : (\A l \in S : k <= l) => k = Issues!Earliest(S)
<1>1. \E k \in S : \A l \in S : k <= l
  BY FirstIsLeast
<1>2. Issues!Earliest(S) \in S /\ \A l \in S : Issues!Earliest(S) <= l
  BY <1>1 DEF Issues!Earliest
<1>3. ASSUME NEW k \in S, \A l \in S : k <= l PROVE k = Issues!Earliest(S)
  <2> DEFINE e == Issues!Earliest(S)
  <2>1. e \in S /\ e <= k /\ k <= e
    BY <1>2, <1>3
  <2> HIDE DEF e
  <2>2. e = k
    BY <2>1
  <2> QED
    BY <2>2 DEF e
<1> QED
  BY <1>2, <1>3

\* The numbers of the issues of a message are finitely many, as are the jobs that may
\* create one.
LEMMA IssueSets ==
    ASSUME Issues!IssueAssumption, IssuesType, NEW m \in Message
    PROVE  /\ Issues!Of(m) \subseteq 1..Len(issues) /\ Issues!Of(m) \subseteq Nat
           /\ IsFiniteSet(Issues!Of(m)) /\ IsFiniteSet(MayCreate(m))
           /\ Cardinality(Issues!Of(m)) \in Nat /\ Cardinality(MayCreate(m)) \in Nat
           /\ Cardinality(ReportJob) \in Nat /\ Cardinality(MayCreate(m)) <= Cardinality(ReportJob)
<1>1. Issues!Of(m) \subseteq 1..Len(issues) /\ Len(issues) \in Nat
  BY DEF Issues!Of, IssuesType
<1>2. IsFiniteSet(1..Len(issues))
  BY <1>1, FS_Interval
<1>3. IsFiniteSet(ReportJob) /\ MayCreate(m) \subseteq ReportJob
  BY IssuesCount DEF Issues!IssueAssumption, MayCreate
<1> QED
  BY <1>1, <1>2, <1>3, FS_Subset, FS_CardinalityType

\* No issue more, and no job that may create one.
LEMMA CountStays ==
    ASSUME Issues!IssueAssumption, IssuesInv, NEW m \in Message,
           Issues!Of(m)' = Issues!Of(m), MayCreate(m)' \subseteq MayCreate(m)
    PROVE  Counted(m)'
<1>1. Counted(m) /\ IssuesType
  BY DEF IssuesInv
<1> DEFINE after == MayCreate(m)'
<1>2. /\ IsFiniteSet(after) /\ Cardinality(after) \in Nat
      /\ Cardinality(after) <= Cardinality(MayCreate(m))
  BY <1>1, IssueSets, FS_Subset, FS_CardinalityType
<1>3. Counted(m)' <=> Cardinality(Issues!Of(m)) + Cardinality(after) <= Cardinality(ReportJob)
  BY DEF Counted
<1> HIDE DEF after
<1> QED
  BY <1>1, <1>2, <1>3, IssueSets DEF Counted

\* A step of a job that leaves the issues alone.
LEMMA StartKeeps ==
    ASSUME Issues!IssueAssumption, IssuesInv, NEW j \in ReportJob, Issues!Start(j)
    PROVE  IssuesInv'
<1> PICK c \in [Message -> Issues!Kind] :
        /\ cases' = [cases EXCEPT ![j] = c]
        /\ report' = [report EXCEPT ![j] = IF Issues!Exceeds(c) THEN "exit" ELSE "search"]
  BY DEF Issues!Start
<1>1. report[j] # "report" /\ UNCHANGED <<known, pending, issues, erred>>
  BY DEF Issues!Start
<1>2. IssuesType'
  BY <1>1 DEF IssuesInv, IssuesType
<1>3. /\ report'[j] # "report"
      /\ \A i \in ReportJob : i # j => report'[i] = report[i] /\ cases'[i] = cases[i]
  BY DEF IssuesInv, IssuesType
<1>4. \A m : Issues!Of(m)' = Issues!Of(m)
  BY <1>1 DEF Issues!Of
<1>5. ASSUME NEW i \in ReportJob PROVE Searched(i)'
  BY <1>1, <1>3, <1>4 DEF IssuesInv, Searched
<1>6. ASSUME NEW m \in Message PROVE Counted(m)'
  BY <1>1, <1>3, <1>4, CountStays DEF MayCreate
<1>7. ASSUME NEW i \in ReportJob, NEW m \in Message PROVE Labelled(i, m)'
  BY <1>1, <1>3, <1>4 DEF IssuesInv, Labelled, Issues!Reportable
<1>8. Issues!OneIsKept'
  BY <1>1, <1>4 DEF IssuesInv, Issues!OneIsKept
<1> QED
  BY <1>2, <1>5, <1>6, <1>7, <1>8 DEF IssuesInv

\* A search finds all issues there are.
LEMMA SearchKeeps ==
    ASSUME Issues!IssueAssumption, IssuesInv, NEW j \in ReportJob, Issues!Search(j)
    PROVE  IssuesInv'
<1> DEFINE seen(m) == [k \in {n \in DOMAIN issues : issues[n].message = m} |-> issues[k].status]
<1>1. report[j] = "search" /\ UNCHANGED <<cases, issues>>
  BY DEF Issues!Search
<1>2. \A m : Issues!Of(m)' = Issues!Of(m)
  BY <1>1 DEF Issues!Of
<1>3. Issues!OneIsKept'
  BY <1>1, <1>2 DEF IssuesInv, Issues!OneIsKept
<1>4. CASE /\ known' = [known EXCEPT ![j] = [m \in Message |-> seen(m)]]
           /\ pending' = [pending EXCEPT ![j] = Issues!Reportable(cases[j])]
           /\ erred' = [erred EXCEPT ![j] = {}]
           /\ report' = [report EXCEPT ![j] = "report"]
  <2>1. \A m \in Message : seen(m) \in Found /\ DOMAIN seen(m) = Issues!Of(m)
    <3> TAKE m \in Message
    <3>1. DOMAIN seen(m) = Issues!Of(m) /\ Issues!Of(m) \subseteq Nat
      BY IssueSets DEF Issues!Of, IssuesInv
    <3>2. \A k \in Issues!Of(m) : issues[k].status \in Issues!Status
      <4>1. \A k \in DOMAIN issues : issues[k] \in IssueRecord
        BY DEF IssuesInv, IssuesType
      <4> QED
        BY <4>1 DEF Issues!Of, IssueRecord
    <3>3. seen(m) \in [Issues!Of(m) -> Issues!Status]
      BY <3>2 DEF Issues!Of
    <3> QED
      BY <3>1, <3>3 DEF Found
  <2> HIDE DEF seen
  <2>2. [m \in Message |-> seen(m)] \in [Message -> Found]
    BY <2>1
  <2>3. Issues!Reportable(cases[j]) \subseteq Message
    BY DEF Issues!Reportable
  <2>4. IssuesType'
    BY <1>1, <1>4, <2>2, <2>3 DEF IssuesInv, IssuesType
  <2>5. /\ report'[j] = "report" /\ pending'[j] = Issues!Reportable(cases[j])
        /\ \A m \in Message : DOMAIN known'[j][m] = Issues!Of(m)
        /\ \A i \in ReportJob : i # j => /\ report'[i] = report[i] /\ pending'[i] = pending[i]
                                   /\ known'[i] = known[i] /\ erred'[i] = erred[i]
    BY <1>4, <2>1 DEF IssuesInv, IssuesType
  <2>6. ASSUME NEW i \in ReportJob PROVE Searched(i)'
    <3>1. CASE i = j
      BY <1>2, <2>5, <3>1 DEF Searched
    <3>2. CASE i # j
      BY <1>2, <2>5, <3>2 DEF Searched, IssuesInv
    <3> QED
      BY <3>1, <3>2
  <2>7. ASSUME NEW m \in Message PROVE Counted(m)'
    <3>1. CASE Issues!Of(m) = {}
      <4>1. /\ Cardinality(MayCreate(m)') <= Cardinality(ReportJob)
            /\ Cardinality(MayCreate(m)') \in Nat
        <5>1. IsFiniteSet(ReportJob) /\ MayCreate(m)' \subseteq ReportJob
          BY IssuesCount DEF Issues!IssueAssumption, MayCreate
        <5> QED
          BY <5>1, FS_Subset, FS_CardinalityType
      <4>2. Cardinality(Issues!Of(m)') = 0
        BY <1>2, <3>1, FS_EmptySet
      <4> QED
        BY <4>1, <4>2 DEF Counted
    <3>2. CASE Issues!Of(m) # {}
      BY <1>2, <2>5, <3>2, CountStays DEF MayCreate
    <3> QED
      BY <3>1, <3>2
  <2>8. ASSUME NEW i \in ReportJob, NEW m \in Message PROVE Labelled(i, m)'
    BY <1>1, <1>2, <2>5 DEF IssuesInv, Labelled, Issues!Reportable
  <2> QED
    BY <1>3, <2>4, <2>6, <2>7, <2>8 DEF IssuesInv
<1>5. CASE report' = [report EXCEPT ![j] = "raised"] /\ UNCHANGED <<known, pending, erred>>
  <2>1. IssuesType'
    BY <1>1, <1>5 DEF IssuesInv, IssuesType
  <2>2. report'[j] = "raised" /\ \A i \in ReportJob : i # j => report'[i] = report[i]
    BY <1>5 DEF IssuesInv, IssuesType
  <2>3. ASSUME NEW i \in ReportJob PROVE Searched(i)'
    BY <1>1, <1>2, <1>5, <2>2 DEF IssuesInv, Searched
  <2>4. ASSUME NEW m \in Message PROVE Counted(m)'
    BY <1>2, <1>5, <2>2, CountStays DEF MayCreate
  <2>5. ASSUME NEW i \in ReportJob, NEW m \in Message PROVE Labelled(i, m)'
    BY <1>1, <1>2, <1>5, <2>2 DEF IssuesInv, Labelled, Issues!Reportable
  <2> QED
    BY <1>3, <2>1, <2>3, <2>4, <2>5 DEF IssuesInv
<1> QED
  BY <1>4, <1>5 DEF Issues!Search

\* Nor does the end of a report.
LEMMA FinishKeeps ==
    ASSUME Issues!IssueAssumption, IssuesInv, NEW j \in ReportJob, Issues!Finish(j)
    PROVE  IssuesInv'
<1>1. /\ report[j] = "report" /\ pending[j] = {} /\ report' = [report EXCEPT ![j] = "idle"]
      /\ UNCHANGED <<cases, known, pending, issues, erred>>
  BY DEF Issues!Finish
<1>2. IssuesType'
  BY <1>1 DEF IssuesInv, IssuesType
<1>3. report'[j] = "idle" /\ \A i \in ReportJob : i # j => report'[i] = report[i]
  BY <1>1 DEF IssuesInv, IssuesType
<1>4. \A m : Issues!Of(m)' = Issues!Of(m)
  BY <1>1 DEF Issues!Of
<1>5. ASSUME NEW i \in ReportJob PROVE Searched(i)'
  BY <1>1, <1>3, <1>4 DEF IssuesInv, Searched
<1>6. ASSUME NEW m \in Message PROVE Counted(m)'
  BY <1>1, <1>3, <1>4, CountStays DEF MayCreate
<1>7. ASSUME NEW i \in ReportJob, NEW m \in Message PROVE Labelled(i, m)'
  BY <1>1, <1>3, <1>4 DEF IssuesInv, Labelled, Issues!Reportable
<1>8. Issues!OneIsKept'
  BY <1>1, <1>4 DEF IssuesInv, Issues!OneIsKept
<1> QED
  BY <1>2, <1>5, <1>6, <1>7, <1>8 DEF IssuesInv
\* A new issue is the last one of its message, and its job creates no other one.
LEMMA NewIssueKeeps ==
    ASSUME Issues!IssueAssumption, IssuesInv, NEW j \in ReportJob, NEW m \in Message,
           Issues!NewIssue(j, m)
    PROVE  IssuesInv'
<1> DEFINE i == [message |-> m, status |-> "To Do", comments |-> 0,
                 labels |-> Issues!Results(j, m)]
           k == Len(issues) + 1
<1>1. /\ report[j] = "report" /\ m \in pending[j] /\ DOMAIN known[j][m] = {}
      /\ pending' = [pending EXCEPT ![j] = @ \ {m}]
      /\ UNCHANGED <<report, cases, known>>
  BY DEF Issues!NewIssue, Issues!IsUnknown
<1>2. erred' \in {erred, [erred EXCEPT ![j] = @ \cup {m}]}
  BY DEF Issues!NewIssue
<1>3. i \in IssueRecord /\ i.message = m /\ i.comments = 0 /\ i.labels = {cases[j][m]}
  <2>1. Issues!Results(j, m) = {cases[j][m]} /\ cases[j][m] \in Issues!Kind
    BY DEF Issues!Results, IssuesInv, IssuesType
  <2>2. "To Do" \in Issues!Status
    BY DEF Issues!Status
  <2> QED
    BY <2>1, <2>2 DEF IssueRecord
<1>4. /\ pending'[j] = pending[j] \ {m} /\ erred[j] \subseteq erred'[j]
      /\ \A l \in ReportJob : l # j => pending'[l] = pending[l] /\ erred'[l] = erred[l]
  BY <1>1, <1>2 DEF IssuesInv, IssuesType
<1>5. \A n \in Message : n # m => MayCreate(n)' = MayCreate(n)
  BY <1>1, <1>4 DEF MayCreate
<1>6. MayCreate(m)' = MayCreate(m) \ {j} /\ j \in MayCreate(m)
  BY <1>1, <1>4 DEF MayCreate
<1> HIDE DEF i
<1>7. CASE issues' = Append(issues, i)
  <2>1. /\ Len(issues) \in Nat /\ issues' \in Seq(IssueRecord)
        /\ DOMAIN issues' = 1..k /\ DOMAIN issues = 1..Len(issues)
        /\ issues'[k] = i /\ \A l \in DOMAIN issues : issues'[l] = issues[l]
    BY <1>3, <1>7 DEF IssuesInv, IssuesType
  <2> HIDE DEF k
  <2>2. k \notin DOMAIN issues /\ \A l \in DOMAIN issues : l \in Nat /\ l < k
    BY <2>1 DEF k
  <2>3. DOMAIN issues' = DOMAIN issues \cup {k} /\ k \in Nat
    BY <2>1 DEF k
  <2>4. Issues!Of(m)' = Issues!Of(m) \cup {k} /\ k \notin Issues!Of(m)
    BY <1>3, <2>1, <2>2, <2>3 DEF Issues!Of
  <2>5. \A n \in Message : n # m => Issues!Of(n)' = Issues!Of(n)
    BY <1>3, <2>1, <2>2, <2>3 DEF Issues!Of
  <2>6. IssuesType'
    <3>1. pending' \in [ReportJob -> SUBSET Message] /\ erred' \in [ReportJob -> SUBSET Message]
      BY <1>1, <1>2 DEF IssuesInv, IssuesType
    <3> QED
      BY <1>1, <2>1, <3>1 DEF IssuesInv, IssuesType
  <2>7. ASSUME NEW l \in ReportJob PROVE Searched(l)'
    <3>1. ASSUME NEW n \in Message, NEW a \in DOMAIN known[l][n], NEW b \in Issues!Of(n)', b < a
          PROVE  b \in DOMAIN known[l][n]
      <4>1. Searched(l) /\ a \in Issues!Of(n) /\ a \in DOMAIN issues
        BY DEF IssuesInv, Searched, Issues!Of
      <4>2. b # k
        BY <2>2, <2>3, <3>1, <4>1
      <4>3. b \in Issues!Of(n)
        BY <2>4, <2>5, <4>2
      <4> QED
        BY <3>1, <4>1, <4>3 DEF Searched
    <3>2. \A n \in Message : DOMAIN known[l][n] \subseteq Issues!Of(n)'
      BY <2>4, <2>5 DEF IssuesInv, Searched
    <3>3. report[l] # "report" => pending'[l] = {}
      BY <1>1, <1>4 DEF IssuesInv, Searched
    <3> QED
      BY <1>1, <3>1, <3>2, <3>3 DEF Searched
  <2>8. ASSUME NEW n \in Message PROVE Counted(n)'
    <3>1. CASE n = m
      <4>1. Counted(m) /\ IssuesType
        BY DEF IssuesInv
      <4> DEFINE of == Issues!Of(m)' may == MayCreate(m)'
      <4>2. Cardinality(of) = Cardinality(Issues!Of(m)) + 1
        BY <2>4, <4>1, IssueSets, FS_AddElement
      <4>3. Cardinality(may) = Cardinality(MayCreate(m)) - 1
        BY <1>6, <4>1, IssueSets, FS_RemoveElement
      <4>4. Cardinality(of) + Cardinality(may) <= Cardinality(ReportJob)
        <5> HIDE DEF of, may
        <5> QED
          BY <4>1, <4>2, <4>3, IssueSets DEF Counted
      <4> QED
        BY <3>1, <4>4 DEF Counted
    <3>2. CASE n # m
      BY <1>5, <2>5, <3>2, CountStays
    <3> QED
      BY <3>1, <3>2
  <2>9. ASSUME NEW l \in ReportJob, NEW n \in Message PROVE Labelled(l, n)'
    <3>1. CASE l = j /\ n = m
      <4>1. k \in Issues!Of(m)' /\ cases'[j][m] \in issues'[k].labels
        BY <1>1, <1>3, <2>1, <2>4
      <4> QED
        BY <3>1, <4>1 DEF Labelled
    <3>2. CASE ~(l = j /\ n = m)
      <4>1. Labelled(l, n)
        BY DEF IssuesInv
      <4>2. n \notin pending'[l] \cup erred'[l] => n \notin pending[l] \cup erred[l]
        BY <1>4, <3>2
      <4>3. \A a \in Issues!Of(n) : a \in Issues!Of(n)' /\ issues'[a].labels = issues[a].labels
        BY <2>1, <2>4, <2>5 DEF Issues!Of
      <4> QED
        BY <1>1, <4>1, <4>2, <4>3 DEF Labelled, Issues!Reportable
    <3> QED
      BY <3>1, <3>2
  <2>10. ASSUME NEW a \in DOMAIN issues', issues'[a].comments > 0
         PROVE  (a = Issues!Earliest(Issues!Of(issues[a].message)))'
    <3>0. a = k => issues'[a].comments = 0
      BY <1>3, <2>1
    <3>1. a # k /\ a \in DOMAIN issues /\ issues'[a] = issues[a]
      <4>1. a # k
        BY <2>10, <3>0
      <4>2. a \in DOMAIN issues
        BY <2>3, <2>10, <4>1
      <4> QED
        BY <2>1, <4>1, <4>2
    <3>9. issues[a] \in IssueRecord
      BY <3>1 DEF IssuesInv, IssuesType
    <3> PICK n \in Message : n = issues[a].message
      BY <3>9 DEF IssueRecord
    <3>2. a = Issues!Earliest(Issues!Of(n)) /\ a \in Issues!Of(n)
      BY <2>10, <3>1 DEF IssuesInv, Issues!OneIsKept, Issues!Of
    <3>3. Issues!Of(n) \subseteq Nat /\ Issues!Of(n) # {}
      BY <3>2, IssueSets DEF IssuesInv
    <3>4. \A l \in Issues!Of(n) : a <= l
      BY <3>2, <3>3, EarliestIsLeast
    <3>5. Issues!Of(n)' \subseteq Issues!Of(n) \cup {k} /\ a \in Issues!Of(n)'
      BY <2>4, <2>5, <3>2
    <3>6. a \in Nat /\ a < k
      BY <2>2, <3>1
    <3>7. Issues!Of(n)' \subseteq Nat /\ \A l \in Issues!Of(n)' : a <= l
      BY <2>3, <3>3, <3>4, <3>5, <3>6
    <3> DEFINE of == Issues!Of(n)'
    <3>8. a = Issues!Earliest(of)
      <4> HIDE DEF of
      <4>1. of \subseteq Nat /\ a \in of /\ \A l \in of : a <= l
        BY <3>5, <3>7 DEF of
      <4> QED
        BY <4>1, EarliestIsLeast
    <3> QED
      BY <3>1, <3>8 DEF of
  <2> QED
    BY <2>6, <2>7, <2>8, <2>9, <2>10 DEF IssuesInv, Issues!OneIsKept
<1>8. CASE erred' = [erred EXCEPT ![j] = @ \cup {m}] /\ UNCHANGED issues
  <2>1. IssuesType'
    BY <1>1, <1>8 DEF IssuesInv, IssuesType
  <2>2. \A n : Issues!Of(n)' = Issues!Of(n)
    BY <1>8 DEF Issues!Of
  <2>3. ASSUME NEW l \in ReportJob PROVE Searched(l)'
    BY <1>1, <1>4, <2>2 DEF IssuesInv, Searched
  <2>4. ASSUME NEW n \in Message PROVE Counted(n)'
    BY <1>5, <1>6, <2>2, CountStays
  <2>5. m \in erred'[j]
    BY <1>8 DEF IssuesInv, IssuesType
  <2>6. ASSUME NEW l \in ReportJob, NEW n \in Message PROVE Labelled(l, n)'
    <3>1. Labelled(l, n)
      BY DEF IssuesInv
    <3>2. n \notin pending'[l] \cup erred'[l] => n \notin pending[l] \cup erred[l]
      BY <1>4, <2>5
    <3> QED
      BY <1>1, <1>8, <2>2, <3>1, <3>2 DEF Labelled, Issues!Reportable
  <2>7. Issues!OneIsKept'
    BY <1>8, <2>2 DEF IssuesInv, Issues!OneIsKept
  <2> QED
    BY <2>1, <2>3, <2>4, <2>6, <2>7 DEF IssuesInv
<1> QED
  BY <1>7, <1>8 DEF Issues!NewIssue, i

\* A step that changes one issue, and comments it only if it is the first one of its
\* message.
LEMMA ChangedIssue ==
    ASSUME Issues!IssueAssumption, IssuesInv, NEW k \in DOMAIN issues, NEW i \in IssueRecord,
           i.message = issues[k].message, issues[k].labels \subseteq i.labels,
           \/ i.comments = issues[k].comments
           \/ k = Issues!Earliest(Issues!Of(issues[k].message)),
           issues' = [issues EXCEPT ![k] = i]
    PROVE  /\ issues' \in Seq(IssueRecord) /\ issues'[k] = i
           /\ \A n : Issues!Of(n)' = Issues!Of(n)
           /\ \A l \in DOMAIN issues : issues[l].labels \subseteq issues'[l].labels
           /\ Issues!OneIsKept'
<1>1. /\ issues' \in Seq(IssueRecord) /\ DOMAIN issues' = DOMAIN issues /\ issues'[k] = i
      /\ \A l \in DOMAIN issues : l # k => issues'[l] = issues[l]
  BY DEF IssuesInv, IssuesType
<1>2. \A l \in DOMAIN issues : issues'[l].message = issues[l].message
  BY <1>1
<1>3. \A n : Issues!Of(n)' = Issues!Of(n)
  BY <1>1, <1>2 DEF Issues!Of
<1>4. \A l \in DOMAIN issues : issues[l].labels \subseteq issues'[l].labels
  BY <1>1
<1>5. ASSUME NEW a \in DOMAIN issues', issues'[a].comments > 0
      PROVE  (a = Issues!Earliest(Issues!Of(issues[a].message)))'
  <2> PICK n : n = issues[a].message
    OBVIOUS
  <2>1. a \in DOMAIN issues /\ issues'[a].message = n
    BY <1>1, <1>2
  <2>2. a = Issues!Earliest(Issues!Of(n))
    BY <1>1, <1>5, <2>1 DEF IssuesInv, Issues!OneIsKept
  <2>3. (Issues!Of(n))' = Issues!Of(n)
    BY <1>3
  <2> DEFINE of == Issues!Of(n)'
  <2>4. a = Issues!Earliest(of)
    BY <2>2, <2>3
  <2> QED
    BY <2>1, <2>4
<1> QED
  BY <1>1, <1>3, <1>4, <1>5 DEF Issues!OneIsKept

\* The issue that is commented is the first one of the message, and not only of those
\* the job found.
LEMMA FoundFirst ==
    ASSUME Issues!IssueAssumption, IssuesInv, NEW j \in ReportJob, NEW m \in Message,
           DOMAIN known[j][m] # {}
    PROVE  /\ Issues!Earliest(DOMAIN known[j][m]) = Issues!Earliest(Issues!Of(m))
           /\ Issues!Earliest(DOMAIN known[j][m]) \in Issues!Of(m)
<1> DEFINE seen == DOMAIN known[j][m]  k == Issues!Earliest(seen)
<1>1. /\ seen \subseteq Issues!Of(m) /\ Issues!Of(m) \subseteq Nat
      /\ \A a \in seen, l \in Issues!Of(m) : l < a => l \in seen
  BY IssueSets DEF IssuesInv, Searched
<1>2. k \in seen /\ \A l \in seen : k <= l
  <2> HIDE DEF seen
  <2> QED
    BY <1>1, EarliestIsLeast DEF seen
<1> HIDE DEF seen, k
<1>3. \A l \in Issues!Of(m) : k <= l
  <2> TAKE l \in Issues!Of(m)
  <2>1. l \in Nat /\ k \in Nat
    BY <1>1, <1>2
  <2> QED
    BY <1>1, <1>2, <2>1
<1>4. k \in Issues!Of(m)
  BY <1>1, <1>2
<1>5. k = Issues!Earliest(Issues!Of(m))
  BY <1>1, <1>3, <1>4, EarliestIsLeast
<1> QED
  BY <1>4, <1>5 DEF k, seen

\* A comment, and what follows it.
LEMMA UpdateIssueKeeps ==
    ASSUME Issues!IssueAssumption, IssuesInv, NEW j \in ReportJob, NEW m \in Message,
           Issues!UpdateIssue(j, m)
    PROVE  /\ IssuesInv'
           /\ m \notin erred'[j] /\ known[j][m][Issues!Earliest(DOMAIN known[j][m])] = "Done"
              => issues'[Issues!Earliest(DOMAIN known[j][m])].status = "To Do"
<1> DEFINE k == Issues!Earliest(DOMAIN known[j][m])
           commented == [issues[k] EXCEPT !.comments = @ + 1]
           opened    == [commented EXCEPT !.status = Issues!Reopened(issues[k], known[j][m][k])]
           labelled  == [opened EXCEPT !.labels = @ \cup Issues!Results(j, m)]
<1>1. /\ report[j] = "report" /\ m \in pending[j] /\ DOMAIN known[j][m] # {}
      /\ pending' = [pending EXCEPT ![j] = @ \ {m}]
      /\ UNCHANGED <<report, cases, known>>
  BY DEF Issues!UpdateIssue, Issues!IsUnknown
<1>2. \/ issues' = [issues EXCEPT ![k] = labelled] /\ UNCHANGED erred
      \/ /\ \E i \in {issues[k], commented, opened} : issues' = [issues EXCEPT ![k] = i]
         /\ erred' = [erred EXCEPT ![j] = @ \cup {m}]
  BY DEF Issues!UpdateIssue
<1>3. k \in Issues!Of(m) /\ k = Issues!Earliest(Issues!Of(m)) /\ k \in DOMAIN issues
  BY <1>1, FoundFirst DEF Issues!Of
<1> HIDE DEF k
<1>4. issues[k] \in IssueRecord /\ issues[k].message = m
  BY <1>3 DEF IssuesInv, IssuesType, Issues!Of
<1>5. /\ commented \in IssueRecord /\ commented.message = m
      /\ commented.labels = issues[k].labels /\ commented.status = issues[k].status
  BY <1>4 DEF IssueRecord
<1>6. /\ Issues!Reopened(issues[k], known[j][m][k]) \in Issues!Status
      /\ known[j][m][k] = "Done" => Issues!Reopened(issues[k], known[j][m][k]) = "To Do"
  BY <1>4 DEF IssueRecord, Issues!Reopened, Issues!Status
<1> HIDE DEF commented
<1>7. /\ opened \in IssueRecord /\ opened.message = m /\ opened.labels = issues[k].labels
      /\ known[j][m][k] = "Done" => opened.status = "To Do"
  BY <1>5, <1>6 DEF IssueRecord
<1>8. Issues!Results(j, m) = {cases[j][m]} /\ cases[j][m] \in Issues!Kind
  BY DEF Issues!Results, IssuesInv, IssuesType
<1> HIDE DEF opened
<1>9. /\ labelled \in IssueRecord /\ labelled.message = m
      /\ labelled.labels = issues[k].labels \cup {cases[j][m]}
      /\ known[j][m][k] = "Done" => labelled.status = "To Do"
  BY <1>7, <1>8 DEF IssueRecord
<1> HIDE DEF labelled
<1>10. PICK i \in {issues[k], commented, opened, labelled} :
           /\ issues' = [issues EXCEPT ![k] = i]
           /\ \/ i = labelled /\ erred' = erred
              \/ erred' = [erred EXCEPT ![j] = @ \cup {m}]
  BY <1>2
<1>11. i \in IssueRecord /\ i.message = m /\ issues[k].labels \subseteq i.labels
  BY <1>4, <1>5, <1>7, <1>9
<1>12. /\ issues' \in Seq(IssueRecord) /\ issues'[k] = i
       /\ \A n : Issues!Of(n)' = Issues!Of(n)
       /\ \A l \in DOMAIN issues : issues[l].labels \subseteq issues'[l].labels
       /\ Issues!OneIsKept'
  BY <1>3, <1>4, <1>10, <1>11, ChangedIssue
<1>13. /\ pending'[j] = pending[j] \ {m} /\ erred[j] \subseteq erred'[j]
       /\ i = labelled \/ m \in erred'[j]
       /\ \A l \in ReportJob : l # j => pending'[l] = pending[l] /\ erred'[l] = erred[l]
  BY <1>1, <1>10 DEF IssuesInv, IssuesType
<1>14. IssuesType'
  <2>1. pending' \in [ReportJob -> SUBSET Message] /\ erred' \in [ReportJob -> SUBSET Message]
    BY <1>1, <1>10 DEF IssuesInv, IssuesType
  <2> QED
    BY <1>1, <1>12, <2>1 DEF IssuesInv, IssuesType
<1>15. ASSUME NEW l \in ReportJob PROVE Searched(l)'
  BY <1>1, <1>12, <1>13 DEF IssuesInv, Searched
<1>16. ASSUME NEW n \in Message PROVE Counted(n)'
  <2>1. MayCreate(n)' \subseteq MayCreate(n)
    BY <1>1, <1>13 DEF MayCreate
  <2> QED
    BY <1>12, <2>1, CountStays
<1>17. ASSUME NEW l \in ReportJob, NEW n \in Message PROVE Labelled(l, n)'
  <2>1. CASE l = j /\ n = m
    BY <1>1, <1>3, <1>9, <1>12, <1>13, <2>1 DEF Labelled
  <2>2. CASE ~(l = j /\ n = m)
    <3>1. Labelled(l, n)
      BY DEF IssuesInv
    <3>2. n \notin pending'[l] \cup erred'[l] => n \notin pending[l] \cup erred[l]
      BY <1>13, <2>2
    <3>3. \A a \in Issues!Of(n) : issues[a].labels \subseteq issues'[a].labels
      BY <1>12 DEF Issues!Of
    <3> QED
      BY <1>1, <1>12, <3>1, <3>2, <3>3 DEF Labelled, Issues!Reportable
  <2> QED
    BY <2>1, <2>2
<1>18. m \notin erred'[j] /\ known[j][m][k] = "Done" => issues'[k].status = "To Do"
  BY <1>9, <1>12, <1>13
<1> QED
  BY <1>12, <1>14, <1>15, <1>16, <1>17, <1>18 DEF IssuesInv, k

\* People change the status of an issue.
LEMMA TransitionKeeps ==
    ASSUME Issues!IssueAssumption, IssuesInv, NEW k \in DOMAIN issues,
           NEW s \in Issues!Status, Issues!Transition(k, s)
    PROVE  IssuesInv'
<1> DEFINE i == [issues[k] EXCEPT !.status = s]
<1>1. issues' = [issues EXCEPT ![k] = i] /\ UNCHANGED <<report, cases, known, pending, erred>>
  BY DEF Issues!Transition
<1>2. issues[k] \in IssueRecord
  BY DEF IssuesInv, IssuesType
<1>3. /\ i \in IssueRecord /\ i.message = issues[k].message /\ i.labels = issues[k].labels
      /\ i.comments = issues[k].comments
  BY <1>2 DEF IssueRecord
<1> HIDE DEF i
<1>4. /\ issues' \in Seq(IssueRecord)
      /\ \A n : Issues!Of(n)' = Issues!Of(n)
      /\ \A l \in DOMAIN issues : issues[l].labels \subseteq issues'[l].labels
      /\ Issues!OneIsKept'
  BY <1>1, <1>3, ChangedIssue
<1>5. IssuesType'
  BY <1>1, <1>4 DEF IssuesInv, IssuesType
<1>6. ASSUME NEW l \in ReportJob PROVE Searched(l)'
  BY <1>1, <1>4 DEF IssuesInv, Searched
<1>7. ASSUME NEW n \in Message PROVE Counted(n)'
  BY <1>1, <1>4, CountStays DEF MayCreate
<1>8. ASSUME NEW l \in ReportJob, NEW n \in Message PROVE Labelled(l, n)'
  <2>1. \A a \in Issues!Of(n) : issues[a].labels \subseteq issues'[a].labels
    BY <1>4 DEF Issues!Of
  <2> QED
    BY <1>1, <1>4, <2>1 DEF IssuesInv, Labelled, Issues!Reportable
<1> QED
  BY <1>4, <1>5, <1>6, <1>7, <1>8 DEF IssuesInv

\* Every step keeps the invariant, ...
LEMMA IssuesInvNext ==
    ASSUME Issues!IssueAssumption, IssuesInv, [Issues!Next]_(Issues!vars)
    PROVE  IssuesInv'
<1>1. CASE UNCHANGED Issues!vars
  <2>1. UNCHANGED <<report, cases, known, pending, issues, erred>>
    BY <1>1 DEF Issues!vars
  <2>2. \A n : Issues!Of(n)' = Issues!Of(n)
    BY <2>1 DEF Issues!Of
  <2>3. IssuesType' /\ Issues!OneIsKept'
    BY <2>1, <2>2 DEF IssuesInv, IssuesType, Issues!OneIsKept
  <2>4. ASSUME NEW l \in ReportJob PROVE Searched(l)'
    BY <2>1, <2>2 DEF IssuesInv, Searched
  <2>5. ASSUME NEW n \in Message PROVE Counted(n)'
    BY <2>1, <2>2, CountStays DEF MayCreate
  <2>6. ASSUME NEW l \in ReportJob, NEW n \in Message PROVE Labelled(l, n)'
    BY <2>1, <2>2 DEF IssuesInv, Labelled, Issues!Reportable
  <2> QED
    BY <2>3, <2>4, <2>5, <2>6 DEF IssuesInv
<1> QED
  BY <1>1, StartKeeps, SearchKeeps, FinishKeeps, NewIssueKeeps, UpdateIssueKeeps,
     TransitionKeeps DEF Issues!Next

\* ... so it holds throughout.
LEMMA IssuesInvHolds ==
    ASSUME Issues!IssueAssumption
    PROVE  Issues!Spec => []IssuesInv
<1>1. Issues!Init => IssuesInv
  BY IssuesInvInit
<1>2. IssuesInv /\ [Issues!Next]_(Issues!vars) => IssuesInv'
  BY IssuesInvNext
<1> QED
  BY <1>1, <1>2, PTL DEF Issues!Spec

\* Jobs that report at the same time create an issue each for a message at most, only the
\* earliest one is commented, and a message a job is done with has its result among the
\* labels of an issue.
THEOREM IssuesHold ==
    ASSUME Issues!IssueAssumption
    PROVE  Issues!Spec =>
               [](Issues!BoundedDuplicates /\ Issues!OneIsKept /\ Issues!ReportIsThere)
<1>1. IssuesInv => Issues!BoundedDuplicates
  BY IssueSets, IssuesCount DEF IssuesInv, Counted, Issues!BoundedDuplicates
<1>2. IssuesInv => Issues!OneIsKept /\ Issues!ReportIsThere
  BY DEF IssuesInv, Labelled, Issues!ReportIsThere
<1> QED
  BY <1>1, <1>2, IssuesInvHolds, PTL

\* An issue that was closed when the job searched is open once it is done with it.
THEOREM ClosedIsReopenedHolds ==
    ASSUME Issues!IssueAssumption
    PROVE  Issues!Spec => Issues!ClosedIsReopened
<1> DEFINE Lawful ==
        \A j \in ReportJob, m \in Message :
          (m \in pending[j] /\ m \notin pending'[j] \cup erred'[j] /\ DOMAIN known[j][m] # {}
           /\ known[j][m][Issues!Earliest(DOMAIN known[j][m])] = "Done")
          => issues'[Issues!Earliest(DOMAIN known[j][m])].status = "To Do"
<1>1. IssuesInv /\ [Issues!Next]_(Issues!vars) => [Lawful]_(Issues!vars)
  <2> SUFFICES ASSUME IssuesInv, Issues!Next, NEW j \in ReportJob, NEW m \in Message,
                      m \in pending[j], m \notin pending'[j] \cup erred'[j],
                      DOMAIN known[j][m] # {},
                      known[j][m][Issues!Earliest(DOMAIN known[j][m])] = "Done"
               PROVE  issues'[Issues!Earliest(DOMAIN known[j][m])].status = "To Do"
    OBVIOUS
  <2>1. report[j] = "report" /\ pending \in [ReportJob -> SUBSET Message]
    BY DEF IssuesInv, Searched, IssuesType
  <2>2. ASSUME NEW l \in ReportJob, Issues!Start(l) \/ Issues!Search(l) \/ Issues!Finish(l)
        PROVE  FALSE
    BY <2>1, <2>2 DEF Issues!Start, Issues!Search, Issues!Finish
  <2>3. ASSUME NEW l \in ReportJob, NEW n \in Message, Issues!NewIssue(l, n) PROVE FALSE
    BY <2>1, <2>3 DEF Issues!NewIssue, Issues!IsUnknown
  <2>4. ASSUME NEW l \in ReportJob, NEW n \in Message, Issues!UpdateIssue(l, n) PROVE l = j /\ n = m
    BY <2>1, <2>4 DEF Issues!UpdateIssue
  <2>5. ASSUME NEW k \in DOMAIN issues, NEW s \in Issues!Status, Issues!Transition(k, s)
        PROVE  FALSE
    BY <2>5 DEF Issues!Transition
  <2> QED
    BY <2>2, <2>3, <2>4, <2>5, UpdateIssueKeeps DEF Issues!Next
<1> QED
  BY <1>1, IssuesInvHolds, PTL DEF Issues!Spec, Issues!ClosedIsReopened

-----------------------------------------------------------------------------
(* Users of the cards.  A login counts what failed in the object, which it *)
(* leaves at nothing whatever way it ends; so a lock takes as many         *)
(* failures as are allowed in the one call.  Who is in was not locked in   *)
(* the copy, and the object changes that record of its copy only itself.   *)

Client == [snap : Users!Table, name : Customer \cup {NoCustomer}, in : BOOLEAN,
           tries : 0..MaxLogins, locked : BOOLEAN, card : Users!Cards]

\* The console has the object, or is in its loop.
Served(o) == clients[o] # NoObj \/ looping = o

\* No record of a table has the card of somebody else.
Owns(t) == \A u \in DOMAIN t : t[u].card # "foreign"

ServedWell(o) ==
    /\ clients[o] \in Client
    /\ clients[o].tries = IF looping = o THEN fails ELSE 0
    /\ clients[o].in => /\ looping # o /\ clients[o].name \in DOMAIN clients[o].snap
                        /\ ~clients[o].snap[clients[o].name].locked
    /\ clients[o].card # "foreign" /\ Owns(clients[o].snap)

UsersInv ==
    /\ Users!TypeOK /\ Owns(table) /\ Users!LockTakesMax
    /\ \A o \in UserObj : Served(o) => ServedWell(o)

\* A table with another record is a table, and owns its cards if that one does.
LEMMA TablesStay ==
    ASSUME NEW t \in Users!Table, NEW u \in Customer, NEW r \in Users!Record
    PROVE  LET s == [x \in DOMAIN t \cup {u} |-> IF x = u THEN r ELSE t[x]]
               e == [t EXCEPT ![u] = r]
           IN  /\ s \in Users!Table /\ e \in Users!Table
               /\ r.card # "foreign" /\ Owns(t) => Owns(s) /\ Owns(e)
<1>1. PICK S \in SUBSET Customer : t \in [S -> Users!Record]
  BY DEF Users!Table
<1> DEFINE s == [x \in DOMAIN t \cup {u} |-> IF x = u THEN r ELSE t[x]]
           e == [t EXCEPT ![u] = r]
<1>2. s \in [S \cup {u} -> Users!Record] /\ e \in [S -> Users!Record]
  BY <1>1
<1>3. s \in Users!Table /\ e \in Users!Table
  BY <1>2 DEF Users!Table
<1>4. r.card # "foreign" /\ Owns(t) => Owns(s) /\ Owns(e)
  BY <1>1 DEF Owns
<1> QED BY <1>3, <1>4

\* The invariant holds initially ...
LEMMA UsersInit == Users!UserAssumption /\ Users!Init => UsersInv
<1> SUFFICES ASSUME Users!UserAssumption, Users!Init PROVE UsersInv
  OBVIOUS
<1>1. table \in [Regulars -> Users!Record] /\ \A u \in Regulars : table[u].card = "none"
  BY DEF Users!Init, Users!Record, Users!Fresh, Users!Cards
<1>2. table \in Users!Table
  BY <1>1 DEF Users!UserAssumption, Users!Table
<1>3. Owns(table)
  BY <1>1 DEF Owns
<1>4. \A o \in UserObj : ~Served(o)
  BY DEF Users!UserAssumption, Users!Init, Served
<1>5. Users!TypeOK
  BY <1>2 DEF Users!UserAssumption, Users!Init, Users!TypeOK
<1>6. Users!LockTakesMax
  BY DEF Users!Init, Users!LockTakesMax
<1> QED BY <1>3, <1>4, <1>5, <1>6 DEF UsersInv

\* A step that changes one object keeps it if that object is well served after it.
LEMMA OneServed ==
    ASSUME UsersInv, NEW o \in UserObj, NEW c,
           clients' = [clients EXCEPT ![o] = c], looping' \in {looping, o, NoObj},
           table' \in Users!Table, Owns(table'), stores' \in 0..MaxStores,
           looping \in {o, NoObj},
           fails' \in 0..MaxLogins, NoObj \notin UserObj,
           locking' \in Customer \cup {NoCustomer}, locking' # NoCustomer => fails' = MaxLogins,
           (c = NoObj /\ looping' # o) \/ (c \in Client /\ ServedWell(o)')
    PROVE  UsersInv'
<1>1. /\ clients'[o] = c /\ \A x \in UserObj \ {o} : clients'[x] = clients[x]
      /\ clients \in [UserObj -> {NoObj} \cup Client]
  BY DEF UsersInv, Users!TypeOK, Client
<1>2. Users!TypeOK'
  BY <1>1 DEF UsersInv, Users!TypeOK, Client
<1>3. ASSUME NEW x \in UserObj, Served(x)' PROVE ServedWell(x)'
  <2>1. CASE x = o
    BY <1>1, <1>3, <2>1 DEF Served
  <2>2. CASE x # o
    <3>1. looping # x /\ looping' # x
      BY <2>2
    <3>2. Served(x) /\ clients'[x] = clients[x]
      BY <1>1, <1>3, <2>2, <3>1 DEF Served
    <3>3. ServedWell(x)
      BY <3>2 DEF UsersInv
    <3> QED BY <3>1, <3>2, <3>3 DEF ServedWell
  <2> QED BY <2>1, <2>2
<1> QED BY <1>2, <1>3 DEF UsersInv, Users!LockTakesMax

\* ... and every step keeps it.
LEMMA UsersNext == Users!UserAssumption /\ UsersInv /\ [Users!Next]_Users!vars => UsersInv'
<1> SUFFICES ASSUME Users!UserAssumption, UsersInv, [Users!Next]_Users!vars PROVE UsersInv'
  OBVIOUS
<1>1. /\ NoObj \notin UserObj /\ NoCustomer \notin Customer /\ MaxLogins \in Nat
      /\ MaxStores \in Nat /\ MaxLogins # 0 /\ 0 \in 0..MaxLogins
  BY DEF Users!UserAssumption
<1>2. /\ table \in Users!Table /\ Owns(table) /\ fails \in 0..MaxLogins /\ stores \in 0..MaxStores
      /\ looping \in UserObj \cup {NoObj} /\ clients \in [UserObj -> {NoObj} \cup Client]
  BY DEF UsersInv, Users!TypeOK, Client
<1>3. ASSUME NEW o \in UserObj, Served(o)
      PROVE  /\ ServedWell(o) /\ clients[o] \in Client
             /\ clients[o].snap \in Users!Table /\ clients[o].card \in Users!Cards
             /\ clients[o].name \in Customer \cup {NoCustomer}
             /\ clients[o].in \in BOOLEAN /\ clients[o].locked \in BOOLEAN
             /\ clients[o].tries \in 0..MaxLogins /\ Owns(clients[o].snap)
  BY <1>3 DEF UsersInv, ServedWell, Client
<1>4. ASSUME NEW o \in UserObj, Served(o), NEW u \in DOMAIN clients[o].snap
      PROVE  /\ u \in Customer /\ clients[o].snap[u] \in Users!Record
             /\ clients[o].snap[u].card \in Users!Cards /\ clients[o].snap[u].card # "foreign"
             /\ clients[o].snap[u].locked \in BOOLEAN /\ clients[o].snap[u].del \in BOOLEAN
  <2>1. clients[o].snap \in Users!Table /\ Owns(clients[o].snap)
    BY <1>3, <1>4
  <2>2. u \in Customer /\ clients[o].snap[u] \in Users!Record
    BY <1>4, <2>1 DEF Users!Table
  <2> QED BY <1>4, <2>1, <2>2 DEF Users!Record, Owns
<1>5. ASSUME NEW o \in UserObj, Users!Construct(o) PROVE UsersInv'
  <2> DEFINE c == [snap |-> table, name |-> NoCustomer, in |-> FALSE, tries |-> 0,
                   locked |-> FALSE, card |-> "none"]
  <2>1. /\ clients' = [clients EXCEPT ![o] = c] /\ looping = NoObj
        /\ UNCHANGED <<table, looping, stores, fails>> /\ locking' = NoCustomer
    BY <1>5 DEF Users!Construct, Users!Idle, Users!NoNews
  <2>2. c \in Client
    BY <1>1, <1>2 DEF Client, Users!Cards
  <2>3. c.tries = 0 /\ c.in = FALSE /\ c.card = "none" /\ c.snap = table
    OBVIOUS
  <2> HIDE DEF c
  <2>4. clients'[o] = c
    BY <1>2, <2>1
  <2>5. ServedWell(o)'
    BY <1>1, <1>2, <2>1, <2>2, <2>3, <2>4 DEF ServedWell
  <2> QED BY <1>1, <1>2, <2>1, <2>2, <2>5, OneServed
<1>6. ASSUME NEW o \in UserObj, Users!Login(o) PROVE UsersInv'
  <2>1. /\ clients' = clients /\ looping = NoObj /\ looping' = o /\ fails' = 0
        /\ UNCHANGED <<table, stores>> /\ locking' = NoCustomer
        /\ clients[o] # NoObj /\ ~clients[o].in
    BY <1>6 DEF Users!Login, Users!Idle, Users!NoNews, Users!Alive
  <2>2. Served(o)
    BY <2>1 DEF Served
  <2>5. ServedWell(o) /\ o # NoObj
    BY <1>1, <1>3, <2>2
  <2>6. clients[o].tries = 0 /\ looping' = o /\ fails' = 0
    BY <2>1, <2>5 DEF ServedWell
  <2>3. ServedWell(o)'
    BY <2>1, <2>5, <2>6 DEF ServedWell
  <2>4. clients' = [clients EXCEPT ![o] = clients[o]] /\ clients[o] \in Client
    BY <1>2, <1>3, <2>1, <2>2
  <2>7. /\ looping \in {o, NoObj} /\ looping' \in {looping, o, NoObj} /\ fails' \in 0..MaxLogins
        /\ table' \in Users!Table /\ Owns(table') /\ stores' \in 0..MaxStores
        /\ locking' \in Customer \cup {NoCustomer} /\ locking' = NoCustomer
    BY <1>1, <1>2, <2>1
  <2> QED BY <1>1, <2>3, <2>4, <2>7, OneServed
<1>7. ASSUME NEW o \in UserObj, Users!LockOut(o) PROVE UsersInv'
  <2> DEFINE t == [clients[o].snap EXCEPT ![clients[o].name].locked = TRUE]
             c == [clients[o] EXCEPT !.snap = t, !.locked = TRUE, !.tries = 0]
  <2>1. /\ looping = o /\ clients[o].tries = MaxLogins /\ stores < MaxStores
        /\ stores' = stores + 1 /\ table' = t
        /\ clients' = [clients EXCEPT ![o].snap = t, ![o].locked = TRUE, ![o].tries = 0]
        /\ looping' = NoObj /\ locking' = clients[o].name /\ fails' = fails
    BY <1>7 DEF Users!LockOut, Users!Store
  <2>2. Served(o) /\ ServedWell(o) /\ clients[o] \in Client
    BY <1>3, <2>1 DEF Served
  <2>3. t \in Users!Table /\ Owns(t)
    <3>1. PICK S \in SUBSET Customer : clients[o].snap \in [S -> Users!Record]
      BY <2>2 DEF Client, Users!Table
    <3>2. t \in [S -> Users!Record] /\ Owns(t)
      BY <2>2, <3>1 DEF ServedWell, Owns, Users!Record
    <3> QED BY <3>2 DEF Users!Table
  <2> HIDE DEF t
  <2>4. /\ c \in Client /\ c.tries = 0 /\ c.in = clients[o].in /\ c.card = clients[o].card
        /\ c.snap = t /\ clients' = [clients EXCEPT ![o] = c]
    BY <1>1, <1>2, <2>1, <2>2, <2>3 DEF Client
  <2>5. clients[o].in = FALSE /\ fails = MaxLogins /\ clients[o].card # "foreign"
        /\ clients[o].name \in Customer \cup {NoCustomer}
    BY <2>1, <2>2 DEF ServedWell, Client
  <2> HIDE DEF c
  <2>6. clients'[o] = c
    BY <1>2, <2>4
  <2>7. ServedWell(o)'
    BY <1>1, <2>1, <2>3, <2>4, <2>5, <2>6 DEF ServedWell
  <2>8. stores' \in 0..MaxStores
    BY <1>1, <1>2, <2>1
  <2> QED BY <1>1, <1>2, <2>1, <2>3, <2>4, <2>5, <2>7, <2>8, OneServed
<1>8. ASSUME NEW o \in UserObj, NEW u \in Customer,
             \/ Users!UnknownName(o, u) \/ Users!Succeed(o, u) \/ Users!Fail(o, u)
             \/ Users!Refuse(o, u)
      PROVE  UsersInv'
  <2>1. /\ looping = o /\ clients[o].tries < MaxLogins /\ looping' \in {o, NoObj}
        /\ UNCHANGED <<table, stores>> /\ locking' = NoCustomer
    BY <1>8 DEF Users!UnknownName, Users!Succeed, Users!Fail, Users!Refuse, Users!Trying,
                Users!NoNews
  <2>2. Served(o)
    BY <2>1 DEF Served
  <2>3. /\ ServedWell(o) /\ clients[o] \in Client /\ clients[o].tries = fails
        /\ clients[o].in = FALSE /\ fails < MaxLogins
    BY <1>3, <2>1, <2>2 DEF ServedWell
  <2>4. ASSUME NEW c \in Client, clients' = [clients EXCEPT ![o] = c],
               c.tries = IF looping' = o THEN fails' ELSE 0, fails' \in 0..MaxLogins,
               c.in => looping' # o /\ c.name \in DOMAIN c.snap /\ ~c.snap[c.name].locked,
               c.card # "foreign", c.snap = clients[o].snap
        PROVE  UsersInv'
    <3>1. clients'[o] = c
      BY <1>2, <2>4
    <3>2. Owns(clients'[o].snap)
      BY <1>3, <2>2, <2>4, <3>1
    <3>3. ServedWell(o)'
      BY <2>4, <3>1, <3>2 DEF ServedWell
    <3> QED BY <1>1, <1>2, <2>1, <2>4, <3>3, OneServed
  <2>5. CASE Users!UnknownName(o, u)
    <3> DEFINE c == [clients[o] EXCEPT !.name = u]
    <3>1. clients' = [clients EXCEPT ![o] = c] /\ looping' = looping /\ fails' = fails
      BY <2>5 DEF Users!UnknownName
    <3>2. /\ c \in Client /\ c.tries = fails /\ c.in = FALSE /\ c.card # "foreign"
          /\ c.snap = clients[o].snap
      BY <2>3 DEF Client, ServedWell
    <3> HIDE DEF c
    <3> QED BY <1>2, <2>1, <2>4, <3>1, <3>2
  <2>6. CASE Users!Succeed(o, u)
    <3> DEFINE k == clients[o].snap[u].card
               c == [clients[o] EXCEPT !.name = u, !.in = TRUE, !.tries = 0,
                                       !.locked = FALSE, !.card = k]
    <3>1. /\ clients' = [clients EXCEPT ![o] = c] /\ looping' = NoObj /\ fails' = fails
          /\ u \in DOMAIN clients[o].snap /\ ~clients[o].snap[u].locked
      BY <2>6 DEF Users!Succeed
    <3>2. k \in Users!Cards /\ k # "foreign"
      BY <1>4, <2>2, <3>1
    <3> HIDE DEF k
    <3>3. /\ c \in Client /\ c.tries = 0 /\ c.name = u /\ c.card = k
          /\ c.snap = clients[o].snap
      BY <1>1, <2>3, <3>2 DEF Client
    <3> HIDE DEF c
    <3> QED BY <1>1, <1>2, <2>1, <2>4, <3>1, <3>2, <3>3
  <2>7. CASE Users!Fail(o, u)
    <3> DEFINE n == IF clients[o].locked THEN 0 ELSE clients[o].tries + 1
               c == [clients[o] EXCEPT !.name = u, !.tries = n]
    <3>1. /\ clients' = [clients EXCEPT ![o] = c] /\ fails' = fails + 1
          /\ looping' = IF clients[o].locked THEN NoObj ELSE looping
      BY <2>7 DEF Users!Fail
    <3>2. n \in 0..MaxLogins /\ n = IF looping' = o THEN fails' ELSE 0
      BY <1>1, <1>2, <2>1, <2>3, <3>1
    <3> HIDE DEF n
    <3>3. /\ c \in Client /\ c.tries = n /\ c.in = FALSE /\ c.card # "foreign"
          /\ c.snap = clients[o].snap
      BY <2>3, <3>2 DEF Client, ServedWell
    <3>4. fails' \in 0..MaxLogins
      BY <1>1, <1>2, <2>3, <3>1
    <3> HIDE DEF c
    <3> QED BY <2>4, <3>1, <3>2, <3>3, <3>4
  <2>8. CASE Users!Refuse(o, u)
    <3>1. /\ fails' = fails
          /\ \/ /\ clients' = [clients EXCEPT ![o].name = u, ![o].locked = TRUE, ![o].tries = 0]
                /\ looping' = NoObj
             \/ clients' = [clients EXCEPT ![o].name = u] /\ looping' = looping
             \/ clients' = [clients EXCEPT ![o].name = u, ![o].tries = 0] /\ looping' = NoObj
      BY <2>8 DEF Users!Refuse
    <3>2. CASE /\ clients' = [clients EXCEPT ![o].name = u, ![o].locked = TRUE, ![o].tries = 0]
               /\ looping' = NoObj
      <4> DEFINE c == [clients[o] EXCEPT !.name = u, !.locked = TRUE, !.tries = 0]
      <4>1. clients' = [clients EXCEPT ![o] = c]
        BY <3>2
      <4>2. /\ c \in Client /\ c.tries = 0 /\ c.in = FALSE /\ c.card # "foreign"
            /\ c.snap = clients[o].snap
        BY <1>1, <2>3 DEF Client, ServedWell
      <4> HIDE DEF c
      <4> QED BY <1>1, <1>2, <2>4, <3>1, <3>2, <4>1, <4>2
    <3>3. CASE clients' = [clients EXCEPT ![o].name = u] /\ looping' = looping
      <4> DEFINE c == [clients[o] EXCEPT !.name = u]
      <4>1. clients' = [clients EXCEPT ![o] = c]
        BY <3>3
      <4>2. /\ c \in Client /\ c.tries = fails /\ c.in = FALSE /\ c.card # "foreign"
            /\ c.snap = clients[o].snap
        BY <1>1, <2>3 DEF Client, ServedWell
      <4> HIDE DEF c
      <4> QED BY <1>1, <1>2, <2>1, <2>4, <3>1, <3>3, <4>1, <4>2
    <3>4. CASE clients' = [clients EXCEPT ![o].name = u, ![o].tries = 0] /\ looping' = NoObj
      <4> DEFINE c == [clients[o] EXCEPT !.name = u, !.tries = 0]
      <4>1. clients' = [clients EXCEPT ![o] = c]
        BY <3>4
      <4>2. /\ c \in Client /\ c.tries = 0 /\ c.in = FALSE /\ c.card # "foreign"
            /\ c.snap = clients[o].snap
        BY <1>1, <2>3 DEF Client, ServedWell
      <4> HIDE DEF c
      <4> QED BY <1>1, <1>2, <2>4, <3>1, <3>4, <4>1, <4>2
    <3> QED BY <3>1, <3>2, <3>3, <3>4
  <2> QED BY <1>8, <2>5, <2>6, <2>7, <2>8
<1>9. ASSUME NEW o \in UserObj, looping = NoObj, clients[o] # NoObj,
             NEW c \in Client, clients' = [clients EXCEPT ![o] = c], c.tries = clients[o].tries,
             c.in => c.name \in DOMAIN c.snap /\ ~c.snap[c.name].locked,
             c.card # "foreign", Owns(c.snap), looping' = looping, fails' = fails,
             table' = table \/ table' = c.snap, stores' \in 0..MaxStores, locking' = NoCustomer
      PROVE  UsersInv'
  <2>1. Served(o)
    BY <1>9 DEF Served
  <2>2. c.tries = 0
    BY <1>1, <1>3, <1>9, <2>1 DEF ServedWell
  <2>3. clients'[o] = c
    BY <1>2, <1>9
  <2>4. ServedWell(o)'
    BY <1>1, <1>9, <2>2, <2>3 DEF ServedWell
  <2>5. c.snap \in Users!Table
    BY DEF Client
  <2> QED BY <1>1, <1>2, <1>9, <2>4, <2>5, OneServed
<1>10. ASSUME NEW o \in UserObj, NEW u \in Customer, Users!LoadInfo(o, u) PROVE UsersInv'
  <2> DEFINE r == clients[o].snap[u]
             c == [clients[o] EXCEPT !.name = u, !.locked = r.locked, !.card = r.card]
  <2>1. /\ looping = NoObj /\ clients[o] # NoObj /\ ~clients[o].in /\ u \in DOMAIN clients[o].snap
        /\ clients' = [clients EXCEPT ![o] = c]
        /\ UNCHANGED <<table, looping, stores, fails>> /\ locking' = NoCustomer
    BY <1>10 DEF Users!LoadInfo, Users!Idle, Users!Alive, Users!NoNews
  <2>2. Served(o)
    BY <2>1 DEF Served
  <2>3. r.locked \in BOOLEAN /\ r.card \in Users!Cards /\ r.card # "foreign"
    BY <1>4, <2>1, <2>2
  <2> HIDE DEF r
  <2>4. /\ c \in Client /\ c.tries = clients[o].tries /\ c.in = clients[o].in /\ c.card = r.card
        /\ c.snap = clients[o].snap
    BY <1>3, <2>2, <2>3 DEF Client
  <2> HIDE DEF c
  <2>5. Owns(c.snap)
    BY <1>3, <2>2, <2>4
  <2> QED BY <1>2, <1>9, <2>1, <2>3, <2>4, <2>5
<1>11. ASSUME NEW o \in UserObj, NEW r \in Users!Record, Users!Named(o), Users!Change(o, r),
              r.card # "foreign", r.locked => Users!Mine(o).locked
       PROVE  UsersInv'
  <2> DEFINE t == [clients[o].snap EXCEPT ![clients[o].name] = r]
             c == [clients[o] EXCEPT !.snap = t]
  <2>1. /\ looping = NoObj /\ clients[o] # NoObj
        /\ clients[o].name \in DOMAIN clients[o].snap
        /\ stores < MaxStores /\ stores' = stores + 1 /\ table' = t
        /\ clients' = [clients EXCEPT ![o] = c]
        /\ UNCHANGED <<looping, fails>> /\ locking' = NoCustomer
    BY <1>11 DEF Users!Named, Users!Change, Users!Store, Users!Idle, Users!Alive, Users!NoNews
  <2>2. Served(o)
    BY <2>1 DEF Served
  <2>3. clients[o].name \in Customer
    BY <1>4, <2>1, <2>2
  <2>4. t \in Users!Table /\ Owns(t)
    BY <1>3, <1>11, <2>2, <2>3, TablesStay
  <2>5. /\ DOMAIN t = DOMAIN clients[o].snap /\ t[clients[o].name] = r
    BY <2>1
  <2> HIDE DEF t
  <2>6. /\ c \in Client /\ c.tries = clients[o].tries /\ c.in = clients[o].in
        /\ c.card = clients[o].card /\ c.snap = t /\ c.name = clients[o].name
    BY <1>3, <2>2, <2>4 DEF Client
  <2> HIDE DEF c
  <2>7. clients[o].card # "foreign" /\ (clients[o].in => ~clients[o].snap[clients[o].name].locked)
    BY <1>3, <2>2 DEF ServedWell
  <2>8. c.in => c.name \in DOMAIN c.snap /\ ~c.snap[c.name].locked
    BY <1>11, <2>1, <2>5, <2>6, <2>7 DEF Users!Mine
  <2>9. stores' \in 0..MaxStores
    BY <1>1, <1>2, <2>1
  <2> QED BY <1>2, <1>9, <2>1, <2>4, <2>6, <2>7, <2>8, <2>9
<1>12. ASSUME NEW o \in UserObj,
              Users!DelUser(o) \/ Users!UnlockUser(o) \/ Users!ModifyPassword(o)
       PROVE  UsersInv'
  <2>1. Users!Named(o)
    BY <1>12 DEF Users!DelUser, Users!UnlockUser, Users!ModifyPassword
  <2>2. /\ Served(o) /\ clients[o].name \in DOMAIN clients[o].snap
    BY <2>1 DEF Users!Named, Users!Alive, Served
  <2>3. /\ Users!Mine(o) \in Users!Record /\ Users!Mine(o).card # "foreign"
    BY <1>4, <2>2 DEF Users!Mine
  <2> DEFINE m == Users!Mine(o)
  <2> HIDE DEF m
  <2>4. m \in Users!Record /\ m.card # "foreign" /\ m = Users!Mine(o)
    BY <2>3 DEF m
  <2>5. /\ [m EXCEPT !.del = TRUE] \in Users!Record /\ [m EXCEPT !.locked = FALSE] \in Users!Record
        /\ [m EXCEPT !.del = TRUE].card # "foreign" /\ [m EXCEPT !.locked = FALSE].card # "foreign"
        /\ [m EXCEPT !.del = TRUE].locked = m.locked /\ [m EXCEPT !.locked = FALSE].locked = FALSE
    BY <2>4 DEF Users!Record
  <2>6. CASE Users!DelUser(o)
    BY <1>11, <2>1, <2>4, <2>5, <2>6 DEF Users!DelUser
  <2>7. CASE Users!UnlockUser(o)
    BY <1>11, <2>1, <2>4, <2>5, <2>7 DEF Users!UnlockUser
  <2>8. CASE Users!ModifyPassword(o)
    BY <1>11, <2>1, <2>3, <2>8 DEF Users!ModifyPassword
  <2> QED BY <1>12, <2>6, <2>7, <2>8
<1>13. ASSUME NEW o \in UserObj, NEW u \in Customer, Users!CreateUser(o, u) PROVE UsersInv'
  <2> DEFINE t == [x \in DOMAIN clients[o].snap \cup {u} |->
                      IF x = u THEN Users!Fresh ELSE clients[o].snap[x]]
             c == [clients[o] EXCEPT !.snap = t, !.name = u]
  <2>1. /\ looping = NoObj /\ clients[o] # NoObj /\ clients[o].name = NoCustomer
        /\ stores < MaxStores /\ stores' = stores + 1 /\ table' = t
        /\ clients' = [clients EXCEPT ![o] = c]
        /\ UNCHANGED <<looping, fails>> /\ locking' = NoCustomer
    BY <1>13 DEF Users!CreateUser, Users!Store, Users!Idle, Users!Alive, Users!NoNews
  <2>2. Served(o)
    BY <2>1 DEF Served
  <2>3. Users!Fresh \in Users!Record /\ Users!Fresh.card # "foreign"
    BY DEF Users!Fresh, Users!Record, Users!Cards
  <2>4. t \in Users!Table /\ Owns(t)
    BY <1>3, <2>2, <2>3, TablesStay
  <2>5. ~clients[o].in
    BY <1>1, <1>3, <1>4, <2>1, <2>2 DEF ServedWell
  <2> HIDE DEF t
  <2>6. /\ c \in Client /\ c.tries = clients[o].tries /\ c.in = clients[o].in
        /\ c.card = clients[o].card /\ c.snap = t
    BY <1>3, <2>2, <2>4 DEF Client
  <2> HIDE DEF c
  <2>7. clients[o].card # "foreign"
    BY <1>3, <2>2 DEF ServedWell
  <2>9. stores' \in 0..MaxStores
    BY <1>1, <1>2, <2>1
  <2> QED BY <1>2, <1>9, <2>1, <2>4, <2>5, <2>6, <2>7, <2>9
<1>14. ASSUME NEW o \in UserObj, NEW k \in {"none", "own", "foreign"}, Users!ModifyInfo(o, k)
       PROVE  UsersInv'
  <2> DEFINE d == IF k = "none" THEN clients[o].card ELSE k
             t == [clients[o].snap EXCEPT ![clients[o].name].card = d]
             c == [clients[o] EXCEPT !.snap = t, !.card = d]
  <2>1. /\ looping = NoObj /\ clients[o] # NoObj /\ k # "foreign"
        /\ clients[o].name \in DOMAIN clients[o].snap
        /\ stores < MaxStores /\ stores' = stores + 1 /\ table' = t
        /\ clients' = [clients EXCEPT ![o] = c]
        /\ UNCHANGED <<looping, fails>> /\ locking' = NoCustomer
    BY <1>14 DEF Users!ModifyInfo, Users!Named, Users!Store, Users!Idle, Users!Alive, Users!NoNews
  <2>2. Served(o) /\ ServedWell(o)
    BY <1>3, <2>1 DEF Served
  <2>3. d \in Users!Cards /\ d # "foreign"
    BY <1>3, <2>1, <2>2 DEF ServedWell, Users!Cards
  <2> HIDE DEF d
  <2> DEFINE m == clients[o].snap[clients[o].name]
             r == [m EXCEPT !.card = d]
  <2>4. m \in Users!Record /\ clients[o].name \in Customer
    BY <1>4, <2>1, <2>2
  <2>5. r \in Users!Record /\ r.card = d /\ r.locked = m.locked
    BY <2>3, <2>4 DEF Users!Record
  <2>6. t = [clients[o].snap EXCEPT ![clients[o].name] = r]
    OBVIOUS
  <2> HIDE DEF r, t
  <2>7. t \in Users!Table /\ Owns(t)
    BY <1>3, <2>2, <2>3, <2>4, <2>5, <2>6, TablesStay
  <2>8. DOMAIN t = DOMAIN clients[o].snap /\ t[clients[o].name] = r
    BY <2>1, <2>6
  <2>9. /\ c \in Client /\ c.tries = clients[o].tries /\ c.in = clients[o].in
        /\ c.card = d /\ c.snap = t /\ c.name = clients[o].name
    BY <1>3, <2>2, <2>3, <2>7 DEF Client
  <2> HIDE DEF c
  <2>10. clients[o].in => ~m.locked
    BY <2>2 DEF ServedWell
  <2>11. c.in => c.name \in DOMAIN c.snap /\ ~c.snap[c.name].locked
    BY <2>1, <2>5, <2>8, <2>9, <2>10
  <2>12. stores' \in 0..MaxStores
    BY <1>1, <1>2, <2>1
  <2> QED BY <1>2, <1>9, <2>1, <2>3, <2>7, <2>9, <2>11, <2>12
<1>15. ASSUME NEW o \in UserObj, Users!BindCard(o) PROVE UsersInv'
  <2> DEFINE c == [clients[o] EXCEPT !.card = "own"]
  <2>1. /\ looping = NoObj /\ clients[o] # NoObj /\ clients[o].in
        /\ stores < MaxStores /\ stores' = stores + 1 /\ table' = clients[o].snap
        /\ clients' = [clients EXCEPT ![o] = c]
        /\ UNCHANGED <<looping, fails>> /\ locking' = NoCustomer
    BY <1>15 DEF Users!BindCard, Users!Named, Users!Store, Users!Idle, Users!Alive, Users!NoNews
  <2>2. Served(o) /\ ServedWell(o) /\ Owns(clients[o].snap)
    BY <1>3, <2>1 DEF Served
  <2>3. /\ c \in Client /\ c.tries = clients[o].tries /\ c.in = clients[o].in
        /\ c.card = "own" /\ c.snap = clients[o].snap /\ c.name = clients[o].name
    BY <1>3, <2>2 DEF Client, Users!Cards
  <2> HIDE DEF c
  <2>4. c.in => c.name \in DOMAIN c.snap /\ ~c.snap[c.name].locked
    BY <2>2, <2>3 DEF ServedWell
  <2>5. stores' \in 0..MaxStores
    BY <1>1, <1>2, <2>1
  <2> QED BY <1>2, <1>9, <2>1, <2>2, <2>3, <2>4, <2>5
<1>16. ASSUME NEW o \in UserObj, Users!Logout(o) PROVE UsersInv'
  <2> DEFINE c == [clients[o] EXCEPT !.in = FALSE, !.name = NoCustomer, !.card = "none"]
  <2>1. /\ looping = NoObj /\ clients[o] # NoObj
        /\ clients' = [clients EXCEPT ![o] = c]
        /\ UNCHANGED <<table, looping, stores, fails>> /\ locking' = NoCustomer
    BY <1>16 DEF Users!Logout, Users!Idle, Users!Alive, Users!NoNews
  <2>2. Served(o) /\ Owns(clients[o].snap)
    BY <1>3, <2>1 DEF Served
  <2>3. /\ c \in Client /\ c.tries = clients[o].tries /\ c.in = FALSE
        /\ c.card = "none" /\ c.snap = clients[o].snap
    BY <1>3, <2>2 DEF Client, Users!Cards
  <2> HIDE DEF c
  <2> QED BY <1>2, <1>9, <2>1, <2>2, <2>3
<1>17. ASSUME NEW o \in UserObj, Users!Drop(o) PROVE UsersInv'
  <2>1. /\ looping = NoObj /\ clients' = [clients EXCEPT ![o] = NoObj]
        /\ UNCHANGED <<table, looping, stores, fails>> /\ locking' = NoCustomer
    BY <1>17 DEF Users!Drop, Users!Idle, Users!NoNews
  <2> QED BY <1>1, <1>2, <2>1, OneServed
<1>18. CASE UNCHANGED Users!vars
  BY <1>18 DEF Users!vars, UsersInv, Users!TypeOK, Users!LockTakesMax, Served, ServedWell
<1> QED BY <1>5, <1>6, <1>7, <1>8, <1>10, <1>12, <1>13, <1>14, <1>15, <1>16, <1>17, <1>18
        DEF Users!Next

\* An account is locked only by one call of login with the maximum of counted failures,
\* who is in was not locked in the copy of the object, and no stored user has a card of
\* somebody else: for any number of users and objects (Users.login, modify_user_info).
THEOREM UsersHold ==
    ASSUME Users!UserAssumption
    PROVE  Users!Spec => [](/\ Users!TypeOK /\ Users!LockTakesMax
                            /\ Users!LockedStayOut /\ Users!BoundIsOwned)
<1>1. UsersInv => /\ Users!TypeOK /\ Users!LockTakesMax
                  /\ Users!LockedStayOut /\ Users!BoundIsOwned
  BY DEF UsersInv, Served, ServedWell, Owns, Users!LockedStayOut, Users!BoundIsOwned,
         Users!Alive, Users!Mine
<1> QED BY <1>1, UsersInit, UsersNext, PTL DEF Users!Spec

\* While one object serves, its copy is the table.
CopyIsTable == \A o \in UserObj : clients[o] # NoObj \/ looping = o => clients[o].snap = table

\* A lock is lifted only by a call for that user, while one object serves the console.
LEMMA CopyNext ==
    ASSUME Users!UserAssumption, UsersInv, CopyIsTable, [Users!Next]_Users!vars,
           \A o, p \in UserObj : o = p
    PROVE  CopyIsTable' /\ [Users!KeepsLocks]_Users!vars
<1>1. NoObj \notin UserObj
  BY DEF Users!UserAssumption
<1>2. clients \in [UserObj -> {NoObj} \cup Client] /\ looping \in UserObj \cup {NoObj}
  BY DEF UsersInv, Users!TypeOK, Client
<1>3. ASSUME NEW o \in UserObj, clients[o] # NoObj \/ looping = o
      PROVE  clients[o] \in Client /\ clients[o].snap = table
  BY <1>3 DEF UsersInv, Served, ServedWell, CopyIsTable
<1>4. \A o \in UserObj : CopyIsTable' <=>
          (clients'[o] # NoObj \/ looping' = o => clients'[o].snap = table')
  BY DEF CopyIsTable
<1>5. ASSUME NEW o \in UserObj, NEW c \in Client, clients' = [clients EXCEPT ![o] = c],
             c.snap = table'
      PROVE  CopyIsTable'
  BY <1>2, <1>4, <1>5
<1>6. ASSUME NEW o \in UserObj, Users!Construct(o) \/ Users!Login(o) \/ Users!Logout(o)
                                    \/ Users!Drop(o)
      PROVE  CopyIsTable' /\ table' = table
  BY <1>1, <1>2, <1>3, <1>4, <1>6
     DEF Users!Construct, Users!Login, Users!Logout, Users!Drop, Users!Alive, Users!Idle, Client
<1>7. ASSUME NEW o \in UserObj, NEW u \in Customer,
             \/ Users!UnknownName(o, u) \/ Users!Succeed(o, u) \/ Users!Fail(o, u)
             \/ Users!Refuse(o, u) \/ Users!LoadInfo(o, u)
      PROVE  CopyIsTable' /\ table' = table
  <2>1. /\ clients[o] \in Client /\ clients[o].snap = table /\ table' = table
    BY <1>3, <1>7 DEF Users!UnknownName, Users!Succeed, Users!Fail, Users!Refuse, Users!LoadInfo,
                      Users!Trying, Users!Alive
  <2>2. DOMAIN clients = UserObj
    BY <1>2
  <2>3. clients'[o].snap = clients[o].snap
    <3>1. Users!UnknownName(o, u) \/ Users!LoadInfo(o, u) => clients'[o].snap = clients[o].snap
      BY <2>1, <2>2 DEF Users!UnknownName, Users!LoadInfo, Client
    <3>2. Users!Succeed(o, u) => clients'[o].snap = clients[o].snap
      BY <2>1, <2>2 DEF Users!Succeed, Client
    <3>3. Users!Fail(o, u) => clients'[o].snap = clients[o].snap
      BY <2>1, <2>2 DEF Users!Fail, Client
    <3>4. Users!Refuse(o, u) => clients'[o].snap = clients[o].snap
      BY <2>1, <2>2 DEF Users!Refuse, Client
    <3> QED BY <1>7, <3>1, <3>2, <3>3, <3>4
  <2> QED BY <1>4, <2>1, <2>3
<1>8. ASSUME NEW o \in UserObj, NEW t, NEW u,
             clients[o].snap = table, t = table',
             clients'[o].snap = t,
             \A x \in DOMAIN clients[o].snap \ {u} : t[x] = clients[o].snap[x],
             u \in DOMAIN table => t[u].locked \/ (clients[o] # NoObj /\ clients[o].name = u)
      PROVE  CopyIsTable' /\ Users!KeepsLocks
  BY <1>4, <1>8 DEF Users!KeepsLocks, Users!Alive
<1>9. ASSUME NEW o \in UserObj, Users!LockOut(o) PROVE CopyIsTable' /\ Users!KeepsLocks
  <2> DEFINE t == [clients[o].snap EXCEPT ![clients[o].name].locked = TRUE]
  <2>1. /\ looping = o /\ table' = t
        /\ clients' = [clients EXCEPT ![o].snap = t, ![o].locked = TRUE, ![o].tries = 0]
    BY <1>9 DEF Users!LockOut, Users!Store
  <2>2. clients[o] \in Client /\ clients[o].snap = table
    BY <1>3, <2>1
  <2>3. \A x \in DOMAIN clients[o].snap \ {clients[o].name} : t[x] = clients[o].snap[x]
    OBVIOUS
  <2>4. clients[o].name \in DOMAIN table => t[clients[o].name].locked
    <3>1. PICK S \in SUBSET Customer : clients[o].snap \in [S -> Users!Record]
      BY <2>2 DEF Client, Users!Table
    <3> QED BY <2>2, <3>1 DEF Users!Record
  <2> HIDE DEF t
  <2>5. clients'[o].snap = t
    BY <1>2, <2>1, <2>2 DEF Client
  <2> QED BY <1>8, <2>1, <2>2, <2>3, <2>4, <2>5, ZenonT(60)
<1>10. ASSUME NEW o \in UserObj,
              \/ Users!DelUser(o) \/ Users!UnlockUser(o) \/ Users!ModifyPassword(o)
              \/ \E k \in {"none", "own", "foreign"} : Users!ModifyInfo(o, k)
              \/ \E u \in Customer : Users!CreateUser(o, u)
              \/ Users!BindCard(o)
       PROVE  CopyIsTable' /\ Users!KeepsLocks
  <2>1. clients[o] # NoObj
    BY <1>10 DEF Users!DelUser, Users!UnlockUser, Users!ModifyPassword, Users!ModifyInfo,
                 Users!CreateUser, Users!BindCard, Users!Named, Users!Alive
  <2>2. clients[o] \in Client /\ clients[o].snap = table /\ DOMAIN clients = UserObj
    BY <1>2, <1>3, <2>1
  <2>3. ASSUME NEW r, Users!Change(o, r) PROVE CopyIsTable' /\ Users!KeepsLocks
    <3> DEFINE t == [clients[o].snap EXCEPT ![clients[o].name] = r]
    <3>1. table' = t /\ clients' = [clients EXCEPT ![o].snap = t]
      BY <2>3 DEF Users!Change, Users!Store
    <3>2. \A x \in DOMAIN clients[o].snap \ {clients[o].name} : t[x] = clients[o].snap[x]
      OBVIOUS
    <3> HIDE DEF t
    <3>3. clients'[o].snap = t
      BY <2>2, <3>1 DEF Client
    <3> QED BY <1>8, <2>1, <2>2, <3>1, <3>2, <3>3, ZenonT(60)
  <2>4. ASSUME NEW k \in {"none", "own", "foreign"}, Users!ModifyInfo(o, k)
        PROVE  CopyIsTable' /\ Users!KeepsLocks
    <3> DEFINE d == IF k = "none" THEN clients[o].card ELSE k
               t == [clients[o].snap EXCEPT ![clients[o].name].card = d]
    <3>1. table' = t /\ clients' = [clients EXCEPT ![o].snap = t, ![o].card = d]
      BY <2>4 DEF Users!ModifyInfo, Users!Store
    <3>2. \A x \in DOMAIN clients[o].snap \ {clients[o].name} : t[x] = clients[o].snap[x]
      OBVIOUS
    <3> HIDE DEF t, d
    <3>3. clients'[o].snap = t
      BY <2>2, <3>1 DEF Client
    <3> QED BY <1>8, <2>1, <2>2, <3>1, <3>2, <3>3, ZenonT(60)
  <2>5. ASSUME NEW u \in Customer, Users!CreateUser(o, u)
        PROVE  CopyIsTable' /\ Users!KeepsLocks
    <3> DEFINE t == [x \in DOMAIN clients[o].snap \cup {u} |->
                        IF x = u THEN Users!Fresh ELSE clients[o].snap[x]]
    <3>1. /\ table' = t /\ clients' = [clients EXCEPT ![o].snap = t, ![o].name = u]
          /\ u \notin DOMAIN clients[o].snap
      BY <2>5 DEF Users!CreateUser, Users!Store
    <3>2. \A x \in DOMAIN clients[o].snap \ {u} : t[x] = clients[o].snap[x]
      OBVIOUS
    <3> HIDE DEF t
    <3>3. clients'[o].snap = t
      BY <2>2, <3>1 DEF Client
    <3> QED BY <1>8, <2>2, <3>1, <3>2, <3>3
  <2>6. CASE Users!BindCard(o)
    <3>1. table' = clients[o].snap /\ clients' = [clients EXCEPT ![o].card = "own"]
      BY <2>6 DEF Users!BindCard, Users!Store
    <3>2. clients'[o].snap = clients[o].snap
      BY <2>2, <3>1 DEF Client
    <3> QED BY <1>8, <2>1, <2>2, <3>1, <3>2
  <2> QED BY <1>10, <2>3, <2>4, <2>5, <2>6
          DEF Users!DelUser, Users!UnlockUser, Users!ModifyPassword
<1>11. table' = table => Users!KeepsLocks
  BY DEF Users!KeepsLocks
<1>12. CASE UNCHANGED Users!vars
  BY <1>12 DEF Users!vars, CopyIsTable
<1> QED BY <1>6, <1>7, <1>9, <1>10, <1>11, <1>12 DEF Users!Next

\* While one object serves the console, a lock is only lifted by a call for that user
\* (unlock_user; with two objects the older copy lifts it).
THEOREM LocksAreKept ==
    ASSUME Users!UserAssumption, \A o, p \in UserObj : o = p
    PROVE  Users!Spec => Users!LocksHold
<1>1. Users!Init => CopyIsTable
  BY DEF Users!UserAssumption, Users!Init, CopyIsTable
<1>2. UsersInv /\ CopyIsTable /\ [Users!Next]_Users!vars =>
          CopyIsTable' /\ [Users!KeepsLocks]_Users!vars
  BY CopyNext
<1> QED BY <1>1, <1>2, UsersInit, UsersNext, PTL DEF Users!Spec, Users!LocksHold

-----------------------------------------------------------------------------
(* Statements.  By the end of the statement day that follows a bill the    *)
(* program has found it, unless it did not run; what is read is written    *)
(* again.  Interest is that of the day it was computed on, so never more   *)
(* than that of a later day.                                               *)

StatementFile == Seq(Statements!Statement)

StatementTypes ==
    /\ now \in 0..LastBillDay /\ bill \in 0..LastBillDay /\ booked \in BOOLEAN
    /\ ran \in 0..MaxStatements /\ missed \in BOOLEAN /\ killed \in BOOLEAN
    /\ statements \in StatementFile
    /\ read = <<>> \/ \E f \in StatementFile : read = <<f>>

\* Days a statement is late.
DaysLate(s) == IF now > s.pdate THEN now - s.pdate ELSE 0

\* No interest of a file is above that of today, and nothing is due before the
\* seventeenth day after its statement.
Simple(f) == \A i \in DOMAIN f : f[i].interest <= DayRate * DaysLate(f[i])
Spaced(f) == \A i \in DOMAIN f : f[i].pdate >= f[i].made + 17

InterestInv == Simple(statements) /\ \A f \in StatementFile : read = <<f>> => Simple(f)
SpacedInv   == Spaced(statements) /\ \A f \in StatementFile : read = <<f>> => Spaced(f)

\* The statement day on which the bill is found at the latest.
FoundOn == Statements!LastChance + (IF Statements!DayOf(bill) = StatementDay THEN MonthDays ELSE 0)

\* From that day on it is in the file, or in the hands of who rewrites it.
FoundInv ==
    /\ now > bill => booked
    /\ read # <<>> => statements = <<>>
    /\ now > FoundOn \/ (now = FoundOn /\ ran > 0) =>
           missed \/ killed \/ statements # <<>>
               \/ \E f \in StatementFile : read = <<f>> /\ f # <<>>

\* More days, more interest.
LEMMA InterestGrows ==
    ASSUME NEW r \in Nat, NEW a \in Nat, NEW b \in Nat, a <= b
    PROVE  r * a \in Nat /\ r * a <= r * b
<1>1. PICK k \in Nat : b = a + k
  BY b - a \in Nat
<1>2. r * b = r * a + r * k
  BY <1>1
<1>3. r * k \in Nat /\ r * a \in Nat
  OBVIOUS
<1> QED BY <1>2, <1>3

\* The calendar: the day a bill is found on is a statement day after it, on which
\* the period that is looked at has it.
LEMMA Calendar ==
    ASSUME Statements!StatementAssumption, StatementDay >= 10, bill \in Nat
    PROVE  /\ FoundOn \in Nat /\ FoundOn > bill /\ Statements!DayOf(FoundOn) = StatementDay
           /\ Statements!Covers(bill, FoundOn)
<1>1. MonthDays \in {28, 29, 30, 31} /\ StatementDay \in 10..28
  BY DEF Statements!StatementAssumption
<1>2. CASE MonthDays = 28
  BY <1>1, <1>2 DEF FoundOn, Statements!LastChance, Statements!DayOf, Statements!MonthOf,
     Statements!Date, Statements!Covers, Statements!SortsAfter
<1>3. CASE MonthDays = 29
  BY <1>1, <1>3 DEF FoundOn, Statements!LastChance, Statements!DayOf, Statements!MonthOf,
     Statements!Date, Statements!Covers, Statements!SortsAfter
<1>4. CASE MonthDays = 30
  BY <1>1, <1>4 DEF FoundOn, Statements!LastChance, Statements!DayOf, Statements!MonthOf,
     Statements!Date, Statements!Covers, Statements!SortsAfter
<1>5. CASE MonthDays = 31
  BY <1>1, <1>5 DEF FoundOn, Statements!LastChance, Statements!DayOf, Statements!MonthOf,
     Statements!Date, Statements!Covers, Statements!SortsAfter
<1> QED BY <1>1, <1>2, <1>3, <1>4, <1>5

\* The day a statement made today is due.
LEMMA DueDate ==
    ASSUME Statements!StatementAssumption, now \in Nat
    PROVE  /\ Statements!Date(Statements!MonthOf(now + 30), PayDay) \in Nat
           /\ (Statements!DayOf(now) = StatementDay /\ StatementDay >= 2
                  /\ PayDay + MonthDays >= StatementDay + 17) =>
                  Statements!Date(Statements!MonthOf(now + 30), PayDay) >= now + 17
<1>1. MonthDays \in {28, 29, 30, 31} /\ StatementDay \in 1..28 /\ PayDay \in 1..28
  BY DEF Statements!StatementAssumption
<1>2. CASE MonthDays = 28
  BY <1>1, <1>2 DEF Statements!DayOf, Statements!MonthOf, Statements!Date
<1>3. CASE MonthDays = 29
  BY <1>1, <1>3 DEF Statements!DayOf, Statements!MonthOf, Statements!Date
<1>4. CASE MonthDays = 30
  BY <1>1, <1>4 DEF Statements!DayOf, Statements!MonthOf, Statements!Date
<1>5. CASE MonthDays = 31
  BY <1>1, <1>5 DEF Statements!DayOf, Statements!MonthOf, Statements!Date
<1> QED BY <1>1, <1>2, <1>3, <1>4, <1>5

\* A statement that is made is one of the file's.
LEMMA MadeIsStatement ==
    ASSUME Statements!StatementAssumption, StatementTypes
    PROVE  [made |-> now, total |-> 1, interest |-> 0,
            pdate |-> Statements!Date(Statements!MonthOf(now + 30), PayDay)]
                \in Statements!Statement
<1>1. now \in Nat /\ now \in 0..LastBillDay
  BY DEF StatementTypes, Statements!StatementAssumption
<1>2. Statements!Date(Statements!MonthOf(now + 30), PayDay) \in Nat
  BY <1>1, DueDate
<1> QED BY <1>1, <1>2 DEF Statements!Statement

\* The interest of a day, computed from the total.
LEMMA OverdueIsStatement ==
    ASSUME Statements!StatementAssumption, StatementTypes, NEW s \in Statements!Statement
    PROVE  /\ Statements!Overdue(s) \in Statements!Statement
           /\ Statements!Overdue(s).pdate = s.pdate /\ Statements!Overdue(s).made = s.made
           /\ DaysLate(s) \in Nat
           /\ Statements!Overdue(s).interest =
                  IF now > s.pdate THEN DayRate * DaysLate(s) ELSE s.interest
<1>1. now \in Nat /\ DayRate \in Nat
  BY DEF StatementTypes, Statements!StatementAssumption
<1>2. s.total = 1 /\ s.pdate \in Nat /\ s.interest \in Nat /\ s.made \in 0..LastBillDay
  BY DEF Statements!Statement
<1>3. DaysLate(s) \in Nat
  BY <1>1, <1>2 DEF DaysLate
<1>4. CASE now > s.pdate
  <2>1. s.total * DayRate * (now - s.pdate) = DayRate * (now - s.pdate)
    BY <1>1, <1>2
  <2>2. DayRate * (now - s.pdate) \in Nat /\ now - s.pdate = DaysLate(s)
    BY <1>1, <1>2, <1>4 DEF DaysLate
  <2>3. Statements!Overdue(s) = [s EXCEPT !.interest = DayRate * (now - s.pdate)]
    BY <1>4, <2>1 DEF Statements!Overdue
  <2> QED BY <1>2, <1>3, <1>4, <2>2, <2>3 DEF Statements!Statement
<1>5. CASE ~(now > s.pdate)
  BY <1>3, <1>5 DEF Statements!Overdue
<1> QED BY <1>4, <1>5

\* Types.
LEMMA StatementTypesStep ==
    ASSUME Statements!StatementAssumption, StatementTypes, [Statements!Next]_(Statements!vars)
    PROVE  StatementTypes'
<1> USE DEF StatementTypes
<1>1. CASE Statements!Book
  BY <1>1 DEF Statements!Book
<1>2. CASE Statements!CreateStatement
  <2> DEFINE new == [made |-> now, total |-> 1, interest |-> 0,
                     pdate |-> Statements!Date(Statements!MonthOf(now + 30), PayDay)]
  <2>1. new \in Statements!Statement
    BY MadeIsStatement
  <2>2. statements' = statements \/ statements' = Append(statements, new)
    BY <1>2 DEF Statements!CreateStatement
  <2> HIDE DEF new
  <2>3. statements' \in StatementFile
    BY <2>1, <2>2 DEF StatementFile
  <2>4. ran' \in 0..MaxStatements
    BY <1>2 DEF Statements!CreateStatement, Statements!StatementAssumption
  <2> QED BY <1>2, <2>3, <2>4 DEF Statements!CreateStatement
<1>3. CASE Statements!Recreate
  <2> DEFINE g == [i \in DOMAIN statements |-> Statements!Overdue(statements[i])]
  <2>1. \A i \in DOMAIN statements : Statements!Overdue(statements[i]) \in Statements!Statement
    BY OverdueIsStatement DEF StatementFile
  <2>2. DOMAIN statements = 1..Len(statements) /\ Len(statements) \in Nat
    BY DEF StatementFile
  <2>3. g \in [1..Len(statements) -> Statements!Statement]
    BY <2>1, <2>2
  <2>4. g \in StatementFile
    BY <2>2, <2>3 DEF StatementFile
  <2>5. read' = <<g>> /\ statements' = <<>>
    BY <1>3 DEF Statements!Recreate
  <2> HIDE DEF g
  <2>6. <<>> \in StatementFile
    BY DEF StatementFile
  <2> QED BY <1>3, <2>4, <2>5, <2>6 DEF Statements!Recreate
<1>4. CASE Statements!Rewrite
  <2>1. PICK f \in StatementFile : read = <<f>>
    BY <1>4 DEF Statements!Rewrite
  <2>2. statements' = f
    BY <1>4, <2>1 DEF Statements!Rewrite
  <2> QED BY <1>4, <2>2 DEF Statements!Rewrite
<1>5. CASE Statements!Kill
  BY <1>5 DEF Statements!Kill
<1>6. CASE Statements!NextDay
  <2>1. now' \in 0..LastBillDay /\ ran' \in 0..MaxStatements
    BY <1>6 DEF Statements!NextDay, Statements!StatementAssumption
  <2>2. missed' \in BOOLEAN
    BY <1>6 DEF Statements!NextDay
  <2> QED BY <1>6, <2>1, <2>2 DEF Statements!NextDay
<1>7. CASE UNCHANGED Statements!vars
  BY <1>7 DEF Statements!vars
<1> QED BY <1>1, <1>2, <1>3, <1>4, <1>5, <1>6, <1>7 DEF Statements!Next

\* What is computed is the interest of the day.
LEMMA InterestStep ==
    ASSUME Statements!StatementAssumption, StatementTypes, InterestInv,
           [Statements!Next]_(Statements!vars)
    PROVE  InterestInv'
<1>0. now \in Nat /\ DayRate \in Nat /\ statements \in StatementFile /\ StatementTypes'
  BY StatementTypesStep DEF StatementTypes, Statements!StatementAssumption
<1>1. CASE Statements!Book
  BY <1>1 DEF Statements!Book, InterestInv, Simple, DaysLate
<1>2. CASE Statements!CreateStatement
  <2> DEFINE new == [made |-> now, total |-> 1, interest |-> 0,
                     pdate |-> Statements!Date(Statements!MonthOf(now + 30), PayDay)]
  <2>1. new \in Statements!Statement /\ new.interest = 0 /\ new.pdate \in Nat
    BY MadeIsStatement DEF Statements!Statement
  <2>2. statements' = statements \/ statements' = Append(statements, new)
    BY <1>2 DEF Statements!CreateStatement
  <2> HIDE DEF new
  <2>3. DaysLate(new) \in Nat
    BY <1>0, <2>1 DEF DaysLate
  <2>4. new.interest <= DayRate * DaysLate(new)
    BY <1>0, <2>1, <2>3, InterestGrows
  <2>5. now' = now /\ read' = read
    BY <1>2 DEF Statements!CreateStatement
  <2>6. Simple(statements) => Simple(Append(statements, new))
    BY <1>0, <2>1, <2>4 DEF Simple, StatementFile
  <2>7. Simple(statements')
    BY <2>2, <2>6 DEF InterestInv
  <2>8. \A f : Simple(f)' <=> Simple(f')
    BY <2>5 DEF Simple, DaysLate
  <2> QED BY <2>5, <2>7, <2>8 DEF InterestInv, Simple, DaysLate
<1>3. CASE Statements!Recreate
  <2> DEFINE g == [i \in DOMAIN statements |-> Statements!Overdue(statements[i])]
  <2>1. \A i \in DOMAIN statements : g[i].interest <= DayRate * DaysLate(g[i])
    <3> SUFFICES ASSUME NEW i \in DOMAIN statements
                 PROVE  g[i].interest <= DayRate * DaysLate(g[i])
      OBVIOUS
    <3> DEFINE s == statements[i]
    <3>1. s \in Statements!Statement /\ g[i] = Statements!Overdue(s)
      BY <1>0 DEF StatementFile
    <3>2. s.interest <= DayRate * DaysLate(s)
      BY DEF InterestInv, Simple
    <3> HIDE DEF g, s
    <3>3. DaysLate(g[i]) = DaysLate(s) /\ DaysLate(s) \in Nat
      BY <3>1, OverdueIsStatement DEF DaysLate
    <3>4. g[i].interest = IF now > s.pdate THEN DayRate * DaysLate(s) ELSE s.interest
      BY <3>1, OverdueIsStatement
    <3>5. DayRate * DaysLate(s) \in Nat
      BY <1>0, <3>3, InterestGrows
    <3> QED BY <3>2, <3>3, <3>4, <3>5
  <2>2. read' = <<g>> /\ statements' = <<>> /\ now' = now /\ DOMAIN g = DOMAIN statements
    BY <1>3 DEF Statements!Recreate
  <2> HIDE DEF g
  <2>3. Simple(g)
    BY <2>1, <2>2 DEF Simple
  <2>4. \A f : read' = <<f>> => f = g
    BY <2>2
  <2> QED BY <2>2, <2>3, <2>4 DEF InterestInv, Simple, DaysLate
<1>4. CASE Statements!Rewrite
  <2>1. PICK f \in StatementFile : read = <<f>>
    BY <1>4 DEF Statements!Rewrite, StatementTypes
  <2>2. statements' = f /\ read' = <<>> /\ now' = now
    BY <1>4, <2>1 DEF Statements!Rewrite
  <2> QED BY <2>1, <2>2 DEF InterestInv, Simple, DaysLate
<1>5. CASE Statements!Kill
  BY <1>5 DEF Statements!Kill, InterestInv, Simple, DaysLate
<1>6. CASE Statements!NextDay
  <2>1. now' = now + 1 /\ statements' = statements /\ read = <<>> /\ read' = read
    BY <1>6 DEF Statements!NextDay
  <2>2. ASSUME NEW s \in Statements!Statement, s.interest <= DayRate * DaysLate(s)
        PROVE  s.interest <= DayRate * (IF now' > s.pdate THEN now' - s.pdate ELSE 0)
    <3> DEFINE d == IF now' > s.pdate THEN now' - s.pdate ELSE 0
    <3>1. s.pdate \in Nat /\ s.interest \in Nat
      BY DEF Statements!Statement
    <3>2. DaysLate(s) \in Nat /\ d \in Nat /\ DaysLate(s) <= d
      BY <1>0, <2>1, <3>1 DEF DaysLate
    <3> HIDE DEF d
    <3>3. DayRate * DaysLate(s) \in Nat /\ DayRate * DaysLate(s) <= DayRate * d
              /\ DayRate * d \in Nat
      BY <1>0, <3>2, InterestGrows
    <3>4. s.interest <= DayRate * d
      BY <2>2, <3>1, <3>3
    <3> QED BY <3>4 DEF d
  <2>4. \A i \in DOMAIN statements' :
            /\ statements'[i] \in Statements!Statement
            /\ statements'[i].interest <= DayRate * DaysLate(statements'[i])
    BY <1>0, <2>1 DEF InterestInv, Simple, StatementFile
  <2>5. Simple(statements)'
    BY <2>2, <2>4 DEF Simple, DaysLate
  <2> QED BY <2>1, <2>5 DEF InterestInv
<1>7. CASE UNCHANGED Statements!vars
  BY <1>7 DEF Statements!vars, InterestInv, Simple, DaysLate
<1> QED BY <1>1, <1>2, <1>3, <1>4, <1>5, <1>6, <1>7 DEF Statements!Next

\* Rewriting keeps when a statement was made and when it is due.
LEMMA SpacedStep ==
    ASSUME Statements!StatementAssumption, PayDay + MonthDays >= StatementDay + 17,
           StatementDay >= 2, StatementTypes, SpacedInv, [Statements!Next]_(Statements!vars)
    PROVE  SpacedInv'
<1>0. now \in Nat /\ statements \in StatementFile
  BY DEF StatementTypes, Statements!StatementAssumption
<1>1. CASE Statements!Book
  BY <1>1 DEF Statements!Book, SpacedInv, Spaced
<1>2. CASE Statements!CreateStatement
  <2> DEFINE new == [made |-> now, total |-> 1, interest |-> 0,
                     pdate |-> Statements!Date(Statements!MonthOf(now + 30), PayDay)]
  <2>1. new \in Statements!Statement /\ new.pdate >= new.made + 17
    BY <1>0, <1>2, MadeIsStatement, DueDate DEF Statements!CreateStatement
  <2>2. statements' = statements \/ statements' = Append(statements, new)
    BY <1>2 DEF Statements!CreateStatement
  <2> HIDE DEF new
  <2>3. Spaced(statements) => Spaced(Append(statements, new))
    BY <1>0, <2>1 DEF Spaced, StatementFile
  <2>4. read' = read /\ Spaced(statements')
    BY <1>2, <2>2, <2>3 DEF Statements!CreateStatement, SpacedInv
  <2> QED BY <2>4 DEF SpacedInv, Spaced
<1>3. CASE Statements!Recreate
  <2> DEFINE g == [i \in DOMAIN statements |-> Statements!Overdue(statements[i])]
  <2>1. \A i \in DOMAIN statements :
            g[i].pdate = statements[i].pdate /\ g[i].made = statements[i].made
    BY <1>0, OverdueIsStatement DEF StatementFile
  <2>2. read' = <<g>> /\ statements' = <<>> /\ DOMAIN g = DOMAIN statements
    BY <1>3 DEF Statements!Recreate
  <2> HIDE DEF g
  <2>3. Spaced(g)
    BY <2>1, <2>2 DEF Spaced, SpacedInv
  <2>4. \A f : read' = <<f>> => f = g
    BY <2>2
  <2> QED BY <2>2, <2>3, <2>4 DEF SpacedInv, Spaced
<1>4. CASE Statements!Rewrite
  <2>1. PICK f \in StatementFile : read = <<f>>
    BY <1>4 DEF Statements!Rewrite, StatementTypes
  <2>2. statements' = f /\ read' = <<>>
    BY <1>4, <2>1 DEF Statements!Rewrite
  <2> QED BY <2>1, <2>2 DEF SpacedInv, Spaced
<1>5. CASE Statements!Kill
  BY <1>5 DEF Statements!Kill, SpacedInv, Spaced
<1>6. CASE Statements!NextDay
  BY <1>6 DEF Statements!NextDay, SpacedInv, Spaced
<1>7. CASE UNCHANGED Statements!vars
  BY <1>7 DEF Statements!vars, SpacedInv, Spaced
<1> QED BY <1>1, <1>2, <1>3, <1>4, <1>5, <1>6, <1>7 DEF Statements!Next

\* The run of the statement day finds the bill, and nothing but a kill loses it.
LEMMA FoundStep ==
    ASSUME Statements!StatementAssumption, StatementDay >= 10,
           StatementTypes, FoundInv, [Statements!Next]_(Statements!vars)
    PROVE  FoundInv'
<1> DEFINE d == FoundOn
<1>0. /\ now \in Nat /\ bill \in Nat /\ ran \in Nat /\ statements \in StatementFile
      /\ d \in Nat /\ d > bill /\ Statements!DayOf(d) = StatementDay /\ Statements!Covers(bill, d)
  BY Calendar DEF StatementTypes, Statements!StatementAssumption
<1>b. bill' = bill /\ d' = d
  <2>1. bill' = bill
    BY DEF Statements!Next, Statements!vars, Statements!Book, Statements!CreateStatement,
       Statements!Recreate, Statements!Rewrite, Statements!Kill, Statements!NextDay
  <2> QED BY <2>1 DEF FoundOn, Statements!LastChance, Statements!DayOf
<1> DEFINE Safe == missed \/ killed \/ statements # <<>>
                       \/ \E f \in StatementFile : read = <<f>> /\ f # <<>>
<1>i. /\ (now > bill => booked) /\ (read # <<>> => statements = <<>>)
      /\ (now > d \/ (now = d /\ ran > 0) => Safe)
  BY DEF FoundInv
<1>s. SUFFICES /\ (now' > bill => booked') /\ (read' # <<>> => statements' = <<>>)
               /\ (now' > d \/ (now' = d /\ ran' > 0) => Safe')
  BY <1>b DEF FoundInv
<1> HIDE DEF d
<1>1. CASE Statements!Book
  BY <1>1, <1>i DEF Statements!Book
<1>2. CASE Statements!CreateStatement
  <2> DEFINE new == [made |-> now, total |-> 1, interest |-> 0,
                     pdate |-> Statements!Date(Statements!MonthOf(now + 30), PayDay)]
  <2>1. statements' = IF booked /\ Statements!Covers(bill, now) THEN Append(statements, new)
                      ELSE statements
    BY <1>2 DEF Statements!CreateStatement
  <2> HIDE DEF new
  <2>2. Append(statements, new) # <<>>
    BY <1>0 DEF StatementFile
  <2>3. now' = now /\ booked' = booked /\ missed' = missed /\ killed' = killed /\ read' = read
    BY <1>2 DEF Statements!CreateStatement
  <2>r. read = <<>>
    BY <1>2 DEF Statements!CreateStatement
  <2>4. CASE now = d
    <3>1. booked /\ Statements!Covers(bill, now)
      BY <1>0, <1>i, <2>4
    <3> QED BY <1>i, <2>1, <2>2, <2>3, <2>r, <3>1
  <2>5. CASE now # d
    BY <1>i, <1>2, <2>1, <2>2, <2>3, <2>r, <2>5 DEF Statements!CreateStatement
  <2> QED BY <2>4, <2>5
<1>3. CASE Statements!Recreate
  <2> DEFINE g == [i \in DOMAIN statements |-> Statements!Overdue(statements[i])]
  <2>1. read' = <<g>> /\ statements # <<>> /\ DOMAIN g = DOMAIN statements
    BY <1>3 DEF Statements!Recreate
  <2> HIDE DEF g
  <2>2. g # <<>>
    BY <1>0, <2>1 DEF StatementFile
  <2>3. g \in StatementFile
    <3>1. StatementTypes'
      BY StatementTypesStep
    <3>2. read' # <<>>
      BY <2>1
    <3>3. PICK f \in StatementFile : read' = <<f>>
      BY <3>1, <3>2 DEF StatementTypes
    <3> QED BY <2>1, <3>3
  <2>4. Safe' /\ statements' = <<>>
    BY <1>3, <2>1, <2>2, <2>3 DEF Statements!Recreate
  <2> QED BY <1>3, <1>i, <2>4 DEF Statements!Recreate
<1>4. CASE Statements!Rewrite
  <2>1. PICK f \in StatementFile : read = <<f>>
    BY <1>4 DEF Statements!Rewrite, StatementTypes
  <2>2. statements' = f /\ \A h : read = <<h>> => h = f
    BY <1>4, <2>1 DEF Statements!Rewrite
  <2>3. UNCHANGED <<now, booked, ran, missed, killed>> /\ read' = <<>> /\ statements = <<>>
    BY <1>4, <1>i DEF Statements!Rewrite
  <2> QED BY <1>i, <2>2, <2>3
<1>5. CASE Statements!Kill
  BY <1>5, <1>i DEF Statements!Kill
<1>6. CASE Statements!NextDay
  <2>1. /\ now' = now + 1 /\ ran' = 0 /\ (now = bill => booked) /\ booked' = booked
        /\ statements' = statements /\ read' = read /\ killed' = killed
        /\ missed' = (missed \/ (Statements!DayOf(now) = StatementDay /\ ran = 0))
    BY <1>6 DEF Statements!NextDay
  <2>2. now' > bill => booked'
    BY <1>0, <1>i, <2>1
  <2>3. (Safe => Safe') /\ (now = d /\ ran = 0 => Safe')
    BY <1>0, <2>1, Zenon
  <2>4. read' # <<>> => statements' = <<>>
    BY <1>i, <2>1
  <2> HIDE DEF Safe
  <2>5. now' > d \/ (now' = d /\ ran' > 0) => now >= d
    BY <1>0, <2>1
  <2>6. now >= d => Safe \/ (now = d /\ ran = 0)
    BY <1>0, <1>i
  <2> QED BY <2>2, <2>3, <2>4, <2>5, <2>6
<1>7. CASE UNCHANGED Statements!vars
  BY <1>7, <1>i DEF Statements!vars
<1> QED BY <1>1, <1>2, <1>3, <1>4, <1>5, <1>6, <1>7 DEF Statements!Next

\* Interest never runs on interest, and the bills of a month are on a statement,
\* where the settings are two digits and the months leave seventeen days.
THEOREM StatementsHold ==
    ASSUME Statements!StatementAssumption
    PROVE  /\ Statements!Spec => []Statements!InterestIsSimple
           /\ StatementDay >= 10 => (Statements!Spec => []Statements!BilledIsStated)
           /\ StatementDay >= 2 /\ PayDay + MonthDays >= StatementDay + 17 =>
                  (Statements!Spec => []Statements!TimeToPay)
<1>1. Statements!Init => StatementTypes /\ InterestInv /\ SpacedInv
  <2> SUFFICES ASSUME Statements!Init PROVE StatementTypes /\ InterestInv /\ SpacedInv
    OBVIOUS
  <2>1. MonthDays \in Nat /\ LastBillDay \in Nat /\ MaxStatements \in Nat
    BY DEF Statements!StatementAssumption
  <2>2. now \in 0..LastBillDay /\ bill \in 0..LastBillDay /\ ran \in 0..MaxStatements
    BY <2>1 DEF Statements!Init
  <2>0. statements \in StatementFile /\ read = <<>>
    BY DEF Statements!Init, StatementFile
  <2>3. StatementTypes
    BY <2>0, <2>2 DEF Statements!Init, StatementTypes
  <2>4. InterestInv /\ SpacedInv
    BY DEF Statements!Init, InterestInv, SpacedInv, Simple, Spaced
  <2> QED BY <2>3, <2>4
<1>2. StatementTypes /\ InterestInv => Statements!InterestIsSimple
  BY DEF InterestInv, Simple, DaysLate, Statements!InterestIsSimple
<1>3. StatementTypes /\ InterestInv /\ SpacedInv => Statements!TimeToPay
  <2> SUFFICES ASSUME StatementTypes, InterestInv, SpacedInv, NEW i \in DOMAIN statements,
                      statements[i].interest > 0
               PROVE  now > statements[i].made + 17
    BY DEF Statements!TimeToPay
  <2> DEFINE s == statements[i]
  <2>1. s \in Statements!Statement /\ now \in Nat
    BY DEF StatementTypes, StatementFile, Statements!StatementAssumption
  <2>2. s.interest <= DayRate * DaysLate(s) /\ s.pdate >= s.made + 17
    BY DEF InterestInv, Simple, SpacedInv, Spaced
  <2>3. s.pdate \in Nat /\ s.made \in Nat /\ s.interest \in Nat /\ s.interest > 0
    BY <2>1 DEF Statements!Statement
  <2> HIDE DEF s
  <2>4. ASSUME ~(now > s.pdate) PROVE FALSE
    <3>1. DaysLate(s) = 0 /\ DayRate \in Nat
      BY <2>4 DEF DaysLate, Statements!StatementAssumption
    <3>2. DayRate * 0 = 0
      BY <3>1
    <3> QED BY <2>2, <2>3, <3>1, <3>2
  <2>5. now > s.made + 17
    BY <2>1, <2>2, <2>3, <2>4
  <2> QED BY <2>5 DEF s
<1>4. StatementTypes /\ InterestInv /\ [Statements!Next]_(Statements!vars)
          => (StatementTypes /\ InterestInv)'
  BY StatementTypesStep, InterestStep
<1>5. Statements!Spec => [](StatementTypes /\ InterestInv)
  BY <1>1, <1>4, PTL DEF Statements!Spec
<1>6. ASSUME StatementDay >= 10 PROVE Statements!Spec => []Statements!BilledIsStated
  <2>1. Statements!Init => FoundInv
    <3> SUFFICES ASSUME Statements!Init PROVE FoundInv
      OBVIOUS
    <3>1. StatementTypes
      BY <1>1
    <3>2. now \in Nat /\ bill \in Nat /\ FoundOn > bill /\ FoundOn \in Nat
      BY <1>6, <3>1, Calendar DEF StatementTypes, Statements!StatementAssumption
    <3>3. now = MonthDays /\ bill \in MonthDays..LastBillDay /\ ran = 0
      BY DEF Statements!Init
    <3>4. ~(now > bill) /\ ~(now > FoundOn) /\ now # FoundOn
      BY <3>2, <3>3
    <3>5. read = <<>>
      BY DEF Statements!Init
    <3> QED BY <3>4, <3>5 DEF FoundInv
  <2>2. StatementTypes /\ FoundInv /\ [Statements!Next]_(Statements!vars) => FoundInv'
    BY <1>6, FoundStep
  <2>3. FoundInv => Statements!BilledIsStated
    BY DEF FoundInv, FoundOn, Statements!BilledIsStated
  <2> QED BY <1>5, <2>1, <2>2, <2>3, PTL DEF Statements!Spec
<1>7. ASSUME StatementDay >= 2, PayDay + MonthDays >= StatementDay + 17
      PROVE  Statements!Spec => []Statements!TimeToPay
  <2>1. StatementTypes /\ SpacedInv /\ [Statements!Next]_(Statements!vars) => SpacedInv'
    BY <1>7, SpacedStep
  <2> QED BY <1>1, <1>3, <1>5, <2>1, PTL DEF Statements!Spec
<1>8. Statements!Spec => []Statements!InterestIsSimple
  BY <1>2, <1>5, PTL
<1> QED BY <1>6, <1>7, <1>8

-----------------------------------------------------------------------------
(* Performance data.  A row is what its thread added up, and the thread    *)
(* does not change afterwards; what is deleted is older than an hour by    *)
(* the clock of who deletes it, and one thread at a time writes.           *)

Units      == {"B", "KB", "num", ""}
PerfThread == [at : Perf!Stages, left : Nat, sum : Nat, unit : Units, since : Nat,
               told : Nat, cut : Nat]

PerfTypes ==
    /\ clock \in Nat
    /\ recorder \in [PerfItem -> [Starts -> PerfThread]]
    /\ perfTable \in [PerfItem -> SUBSET [time : Starts, value : [n : Nat, unit : Units]]]
    /\ dbLock \in [PerfItem -> Starts \cup {-1}] /\ shown \in [PerfItem -> Starts \cup {-1}]
    /\ overdue \in [PerfItem -> SUBSET Starts]

\* What a thread added up, against what it was told.
Fair(i, w) ==
    /\ 10 * w.sum <= w.told /\ w.told <= 10 * w.sum + 10 * (Kilo * w.cut)
    /\ i \in Counts /\ w.unit # "num" => w.sum = 0 /\ w.told = 0

ThreadsInv ==
    \A i \in PerfItem, r \in Starts :
        /\ Fair(i, recorder[i][r]) /\ recorder[i][r].since <= clock
        /\ recorder[i][r].at = "commit" => dbLock[i] = r
        /\ dbLock[i] = r => recorder[i][r].at = "commit"

RowsInv ==
    \A i \in PerfItem : \A row \in perfTable[i] :
        /\ recorder[i][row.time].at = "done"
        /\ row.value = Perf!Value(recorder[i][row.time])

SavedInv ==
    \A i \in PerfItem, r \in Starts :
        recorder[i][r].at = "done" /\ r >= clock - Hour => \E row \in perfTable[i] : row.time = r

\* Everything as new as what was shown is gone, and what is left was saved late;
\* who writes next began when that was so.
Emptied(i) ==
    /\ \A row \in perfTable[i] : row.time \in overdue[i]
    /\ shown[i] < clock - Hour
    /\ dbLock[i] \in Starts => shown[i] < recorder[i][dbLock[i]].since - Hour

ShownInv ==
    \A i \in PerfItem : \/ shown[i] = -1
                        \/ \E row \in perfTable[i] : row.time >= shown[i]
                        \/ Emptied(i)

-----------------------------------------------------------------------------

\* Division rounds down.
LEMMA RoundsDown ==
    ASSUME NEW a \in Nat, NEW m \in Nat, m > 0
    PROVE  /\ a \div m \in Nat /\ m * (a \div m) \in Nat
           /\ m * (a \div m) <= a /\ a < m * (a \div m) + m
<1>1. a \div m \in Nat
  OBVIOUS
<1>2. m * (a \div m) \in Nat
  BY <1>1
<1>3. a = m * (a \div m) + (a % m) /\ a % m \in 0..(m - 1)
  OBVIOUS
<1> QED BY <1>1, <1>2, <1>3

\* What a value stands for is near the sum, and it is a count if the unit says so.
LEMMA ValueIsClose ==
    ASSUME Perf!PerfAssumption, NEW w \in PerfThread
    PROVE  /\ 2 * Perf!Tenths(Perf!Value(w)) <= 20 * w.sum + Kilo
           /\ 2 * Perf!Tenths(Perf!Value(w)) + Kilo >= 20 * w.sum
           /\ Perf!Value(w) \in [n : Nat, unit : Units]
           /\ w.unit = "num" => Perf!Value(w).unit = "num"
           /\ w.sum = 0 => Perf!Value(w).n = 0
<1>0. Kilo \in Nat /\ Kilo > 0 /\ w.sum \in Nat
  BY DEF Perf!PerfAssumption, PerfThread
<1> DEFINE n == w.sum
           a == 20 * n + Kilo
           q == a \div (2 * Kilo)
<1>1. CASE w.unit = "num"
  <2>1. Perf!Value(w) = [n |-> n, unit |-> "num"]
    BY <1>1 DEF Perf!Value
  <2> QED BY <1>0, <1>1, <2>1 DEF Perf!Tenths, Units
<1>2. CASE w.unit # "num" /\ ~(n >= Kilo)
  <2>1. Perf!Value(w) = [n |-> n, unit |-> "B"]
    BY <1>2 DEF Perf!Value, Perf!Converted
  <2> QED BY <1>0, <1>2, <2>1 DEF Perf!Tenths, Units
<1>3. CASE w.unit # "num" /\ n >= Kilo
  <2>1. Perf!Value(w) = [n |-> q, unit |-> "KB"]
    BY <1>3 DEF Perf!Value, Perf!Converted
  <2>2. a \in Nat /\ 2 * Kilo \in Nat /\ 2 * Kilo > 0
    BY <1>0
  <2>3. q \in Nat /\ (2 * Kilo) * q \in Nat /\ (2 * Kilo) * q <= a /\ a < (2 * Kilo) * q + 2 * Kilo
    <3> HIDE DEF a
    <3> QED BY <2>2, RoundsDown
  <2> HIDE DEF q
  <2>4. (2 * Kilo) * q = 2 * (q * Kilo) /\ q * Kilo \in Nat
    BY <1>0, <2>3
  <2>5. Perf!Tenths(Perf!Value(w)) = q * Kilo
    BY <2>1 DEF Perf!Tenths
  <2>6. 2 * (q * Kilo) <= 20 * n + Kilo /\ 2 * (q * Kilo) + Kilo >= 20 * n
    BY <1>0, <2>3, <2>4
  <2>7. n # 0
    BY <1>0, <1>3
  <2> QED BY <1>3, <2>1, <2>3, <2>5, <2>6, <2>7 DEF Units
<1> QED BY <1>1, <1>2, <1>3

\* Adding an answer keeps the sum near what was told.
LEMMA AnswerIsFair ==
    ASSUME Perf!PerfAssumption, NEW i \in PerfItem, NEW w \in PerfThread, Fair(i, w),
           w.left > 0, NEW t \in Told[i]
    PROVE  /\ Perf!Answered(w, t) \in PerfThread /\ Perf!Answered(w, t).at = w.at
           /\ Perf!Answered(w, t).since = w.since /\ Fair(i, Perf!Answered(w, t))
<1>0. /\ Kilo \in Nat /\ Kilo > 0
      /\ t.n \in Nat /\ t.unit \in {"B", "KB", "num"} /\ (t.unit = "num" <=> i \in Counts)
  BY DEF Perf!PerfAssumption
<1>1. /\ w.at \in Perf!Stages /\ w.left \in Nat /\ w.sum \in Nat /\ w.told \in Nat /\ w.cut \in Nat
      /\ w.since \in Nat /\ Kilo * w.cut \in Nat
  BY <1>0 DEF PerfThread
<1> DEFINE k == IF t.unit = "KB" THEN 1 ELSE 0
           a == Perf!Adds(t)
           e == Perf!Tenths(t)
           v == Perf!Answered(w, t)
<1>2. /\ a \in Nat /\ e \in Nat /\ k \in Nat
      /\ 10 * a <= e /\ e <= 10 * a + 10 * (Kilo * k)
  <2>1. CASE t.unit = "KB"
    <3> DEFINE q == t.n \div 10
    <3>1. q \in Nat /\ 10 * q <= t.n /\ t.n < 10 * q + 10
      BY <1>0
    <3>2. a = q * Kilo /\ e = t.n * Kilo /\ k = 1
      BY <2>1 DEF Perf!Adds, Perf!Cut, Perf!Tenths
    <3> HIDE DEF q, a, e, k
    <3>3. PICK r \in Nat : t.n = 10 * q + r /\ r < 10
      <4>1. t.n - 10 * q \in Nat
        BY <1>0, <3>1
      <4> QED BY <1>0, <3>1, <4>1
    <3>4. t.n * Kilo = 10 * (q * Kilo) + r * Kilo
      BY <1>0, <3>1, <3>3
    <3>5. q * Kilo \in Nat /\ r * Kilo \in Nat /\ r * Kilo <= 10 * Kilo
      BY <1>0, <3>1, <3>3
    <3>6. Kilo * 1 = Kilo
      BY <1>0
    <3> QED BY <1>0, <3>2, <3>4, <3>5, <3>6
  <2>2. CASE t.unit # "KB"
    <3>1. a = t.n /\ e = 10 * t.n /\ k = 0
      BY <2>2 DEF Perf!Adds, Perf!Tenths
    <3>2. Kilo * 0 = 0
      BY <1>0
    <3> HIDE DEF a, e, k
    <3> QED BY <1>0, <3>1, <3>2
  <2> QED BY <2>1, <2>2
<1>3. v = [w EXCEPT !.left = w.left - 1, !.sum = w.sum + a, !.unit = t.unit,
                  !.told = w.told + e, !.cut = w.cut + k]
  BY DEF Perf!Answered
<1> HIDE DEF k, a, e, v
<1>4. /\ v.at = w.at /\ v.since = w.since /\ v.sum = w.sum + a /\ v.unit = t.unit
      /\ v.told = w.told + e /\ v.cut = w.cut + k /\ v.left = w.left - 1
  <2>1. w = [at |-> w.at, left |-> w.left, sum |-> w.sum, unit |-> w.unit, since |-> w.since,
             told |-> w.told, cut |-> w.cut]
    BY DEF PerfThread
  <2> QED BY <1>3, <2>1
<1>n. /\ w.left - 1 \in Nat /\ w.sum + a \in Nat /\ w.told + e \in Nat /\ w.cut + k \in Nat
      /\ t.unit \in Units
  <2>1. w.left - 1 \in Nat
    BY <1>1
  <2>2. w.sum + a \in Nat /\ w.told + e \in Nat /\ w.cut + k \in Nat
    BY <1>1, <1>2
  <2>3. t.unit \in Units
    BY <1>0 DEF Units
  <2> QED BY <2>1, <2>2, <2>3
<1>5. v \in PerfThread
  <2> DEFINE l == w.left - 1
             x == w.sum + a
             y == w.told + e
             z == w.cut + k
             u == t.unit
  <2>1. l \in Nat /\ x \in Nat /\ y \in Nat /\ z \in Nat /\ u \in Units
    BY <1>n
  <2>2. v = [w EXCEPT !.left = l, !.sum = x, !.unit = u, !.told = y, !.cut = z]
    BY <1>3
  <2> HIDE DEF l, x, y, z, u
  <2> QED BY <2>1, <2>2 DEF PerfThread
<1>6. Kilo * v.cut = Kilo * w.cut + Kilo * k /\ Kilo * k \in Nat
  BY <1>0, <1>1, <1>2, <1>4
<1>7. 10 * w.sum <= w.told /\ w.told <= 10 * w.sum + 10 * (Kilo * w.cut)
  BY DEF Fair
<1>8. 10 * v.sum <= v.told /\ v.told <= 10 * v.sum + 10 * (Kilo * v.cut)
  BY <1>0, <1>1, <1>2, <1>4, <1>6, <1>7
<1>9. i \in Counts => v.unit = "num"
  BY <1>0, <1>4
<1>w. Fair(i, v) /\ v \in PerfThread /\ v.at = w.at /\ v.since = w.since
  BY <1>4, <1>5, <1>8, <1>9 DEF Fair
<1> QED BY <1>w DEF v

\* Threads and the item's table are changed one at a time.
Put(i, r, w) == [recorder EXCEPT ![i][r] = w]

\* Of one thread that changes, the others stay.
LEMMA PutOne ==
    ASSUME PerfTypes, NEW i \in PerfItem, NEW r \in Starts, NEW w \in PerfThread
    PROVE  /\ Put(i, r, w) \in [PerfItem -> [Starts -> PerfThread]]
           /\ Put(i, r, w)[i][r] = w
           /\ \A j \in PerfItem, s \in Starts : j # i \/ s # r
                  => Put(i, r, w)[j][s] = recorder[j][s]
  BY DEF PerfTypes, Put

\* A thread that goes on, that begins to save, that got no answer.
GoneOn(w, a) == [w EXCEPT !.at = a]
Saving(w)    == [w EXCEPT !.at = "commit", !.since = clock]
Unheard(w)   == [w EXCEPT !.left = @ - 1]

\* What such a thread is.
LEMMA ThreadGoesOn ==
    ASSUME NEW i, NEW w \in PerfThread, Fair(i, w), clock \in Nat, NEW a \in Perf!Stages
    PROVE  /\ GoneOn(w, a) \in PerfThread /\ GoneOn(w, a).at = a
           /\ GoneOn(w, a).since = w.since /\ Fair(i, GoneOn(w, a))
           /\ Perf!Value(GoneOn(w, a)) = Perf!Value(w)
           /\ Saving(w) \in PerfThread /\ Saving(w).at = "commit"
           /\ Saving(w).since = clock /\ Fair(i, Saving(w))
           /\ w.left > 0 => /\ Unheard(w) \in PerfThread /\ Unheard(w).at = w.at
                            /\ Unheard(w).since = w.since /\ Fair(i, Unheard(w))
<1>0. "commit" \in Perf!Stages
  BY DEF Perf!Stages
<1>1. /\ GoneOn(w, a) \in PerfThread /\ GoneOn(w, a).at = a /\ GoneOn(w, a).since = w.since
      /\ GoneOn(w, a).sum = w.sum /\ GoneOn(w, a).told = w.told
      /\ GoneOn(w, a).cut = w.cut /\ GoneOn(w, a).unit = w.unit
  BY DEF PerfThread, GoneOn
<1>2. /\ Saving(w) \in PerfThread /\ Saving(w).at = "commit" /\ Saving(w).since = clock
      /\ Saving(w).sum = w.sum /\ Saving(w).told = w.told
      /\ Saving(w).cut = w.cut /\ Saving(w).unit = w.unit
  BY <1>0 DEF PerfThread, Saving
<1>3. ASSUME w.left > 0
      PROVE  /\ Unheard(w) \in PerfThread /\ Unheard(w).at = w.at /\ Unheard(w).since = w.since
             /\ Unheard(w).sum = w.sum /\ Unheard(w).told = w.told
             /\ Unheard(w).cut = w.cut /\ Unheard(w).unit = w.unit
  <2> DEFINE l == w.left - 1
  <2>1. l \in Nat
    BY <1>3 DEF PerfThread
  <2>2. Unheard(w) = [w EXCEPT !.left = l]
    BY DEF Unheard
  <2> HIDE DEF l
  <2> QED BY <2>1, <2>2 DEF PerfThread
<1>4. Fair(i, GoneOn(w, a)) /\ Perf!Value(GoneOn(w, a)) = Perf!Value(w)
  BY <1>1 DEF Fair, Perf!Value
<1>5. Fair(i, Saving(w))
  BY <1>2 DEF Fair
<1>6. w.left > 0 => Fair(i, Unheard(w))
  BY <1>3 DEF Fair
<1> QED BY <1>1, <1>2, <1>3, <1>4, <1>5, <1>6

\* One host fewer to hear from.
LEMMA OneFewer ==
    ASSUME NEW f \in [PerfItem -> [Starts -> PerfThread]], NEW i \in PerfItem, NEW r \in Starts
    PROVE  [f EXCEPT ![i][r].left = @ - 1] = [f EXCEPT ![i][r] = [f[i][r] EXCEPT !.left = @ - 1]]
  OBVIOUS

\* Two fields at once.
LEMMA TwoFields ==
    ASSUME NEW f \in [PerfItem -> [Starts -> PerfThread]], NEW i \in PerfItem,
           NEW r \in Starts, NEW c
    PROVE  [f EXCEPT ![i][r].at = "commit", ![i][r].since = c]
           = [f EXCEPT ![i][r] = [f[i][r] EXCEPT !.at = "commit", !.since = c]]
  OBVIOUS

\* What a step does to the threads: they all begin, or one goes on, or none does.
StartsAt(r) ==
    \E h \in Nat :
        /\ recorder' = [i \in PerfItem |-> [recorder[i] EXCEPT ![r].at = "ask", ![r].left = h]]
        /\ \A i \in PerfItem : recorder[i][r].at = "none"
        /\ UNCHANGED <<clock, perfTable, dbLock, shown, overdue>>
Asks(i, r, w) ==
    /\ recorder' = Put(i, r, w) /\ recorder[i][r].at \in {"ask", "save"}
    /\ w.at \in {"ask", "save", "lost"} /\ w.since = recorder[i][r].since /\ Fair(i, w)
    /\ UNCHANGED <<clock, perfTable, dbLock, shown, overdue>>
Saves(i, r, w) ==
    /\ recorder' = Put(i, r, w) /\ recorder[i][r].at = "save" /\ w.at = "commit"
    /\ w.since = clock /\ Fair(i, w)
    /\ dbLock[i] = -1 /\ dbLock' = [dbLock EXCEPT ![i] = r]
    /\ UNCHANGED <<clock, perfTable, shown, overdue>>
Commits(i, r, w) ==
    /\ recorder' = Put(i, r, w) /\ recorder[i][r].at = "commit" /\ w.at = "done"
    /\ w.since = recorder[i][r].since /\ Fair(i, w)
    /\ Perf!Value(w) = Perf!Value(recorder[i][r])
    /\ Perf!Insert(i, r) /\ dbLock' = [dbLock EXCEPT ![i] = -1]
    /\ overdue' = [overdue EXCEPT ![i] = IF r < recorder[i][r].since - Hour THEN @ \cup {r} ELSE @]
    /\ UNCHANGED <<clock, shown>>
Shows(i) ==
    /\ \/ UNCHANGED shown
       \/ \E row \in Perf!Newest(i) : shown' = [shown EXCEPT ![i] = row.time]
    /\ UNCHANGED <<clock, recorder, perfTable, dbLock, overdue>>
Ticks ==
    /\ clock' = clock + 1 /\ UNCHANGED <<recorder, perfTable, dbLock, shown, overdue>>
Same == UNCHANGED <<clock, recorder, perfTable, dbLock, shown, overdue>>

\* Every step is one of these kinds.
LEMMA PerfSteps ==
    ASSUME Perf!PerfAssumption, PerfTypes, ThreadsInv, [Perf!Next]_(Perf!vars)
    PROVE  \/ \E r \in Starts : StartsAt(r)
           \/ \E i \in PerfItem, r \in Starts, w \in PerfThread :
                  Asks(i, r, w) \/ Saves(i, r, w) \/ Commits(i, r, w)
           \/ \E i \in PerfItem : Shows(i)
           \/ Ticks \/ Same
<1>1. CASE Perf!Tick
  BY <1>1 DEF Perf!Tick, Perf!Db, Ticks
<1>2. ASSUME NEW r \in Starts, Perf!Collect(r) PROVE StartsAt(r)
  <2>1. PerfHosts \in Nat /\ 0 \in Nat
    BY DEF Perf!PerfAssumption
  <2> QED BY <1>2, <2>1 DEF Perf!Collect, Perf!Db, StartsAt
<1>3. ASSUME NEW i \in PerfItem, NEW r \in Starts, Perf!Thread(i, r)
      PROVE  \E w \in PerfThread : Asks(i, r, w) \/ Saves(i, r, w) \/ Commits(i, r, w)
  <2> DEFINE v == recorder[i][r]
  <2>0. v \in PerfThread /\ Fair(i, v) /\ clock \in Nat
    BY DEF PerfTypes, ThreadsInv
  <2>g. ASSUME NEW a \in Perf!Stages
        PROVE  Perf!Goto(i, r, a) <=> recorder' = Put(i, r, GoneOn(v, a))
    BY DEF Perf!Goto, Put, GoneOn
  <2> HIDE DEF v
  <2>h. \A a \in Perf!Stages :
            /\ GoneOn(v, a) \in PerfThread /\ GoneOn(v, a).at = a /\ GoneOn(v, a).since = v.since
            /\ Fair(i, GoneOn(v, a)) /\ Perf!Value(GoneOn(v, a)) = Perf!Value(v)
    BY <2>0, ThreadGoesOn
  <2>k. {"ask", "save", "commit", "done", "lost"} \subseteq Perf!Stages
    BY DEF Perf!Stages
  <2>1. CASE Perf!Ask(i, r)
    <3>1. v.at = "ask" /\ v.left > 0 /\ UNCHANGED <<clock, perfTable, dbLock, shown, overdue>>
      BY <2>1 DEF Perf!Ask, Perf!Db, v
    <3>2. CASE recorder' = [recorder EXCEPT ![i][r].left = @ - 1]
      <4>1. recorder' = Put(i, r, Unheard(v))
        <5>1. recorder \in [PerfItem -> [Starts -> PerfThread]]
          BY DEF PerfTypes
        <5>2. recorder' = [recorder EXCEPT ![i][r] = [recorder[i][r] EXCEPT !.left = @ - 1]]
          BY <3>2, <5>1, OneFewer
        <5> QED BY <5>2 DEF Put, Unheard, v
      <4>2. /\ Unheard(v) \in PerfThread /\ Unheard(v).at = v.at
            /\ Unheard(v).since = v.since /\ Fair(i, Unheard(v))
        BY <2>0, <2>k, <3>1, ThreadGoesOn
      <4> QED BY <3>1, <4>1, <4>2 DEF Asks, v
    <3>3. ASSUME NEW t \in Told[i], recorder' = [recorder EXCEPT ![i][r] = Perf!Answered(@, t)]
          PROVE  \E w \in PerfThread : Asks(i, r, w)
      <4>1. recorder' = Put(i, r, Perf!Answered(v, t))
        BY <3>3 DEF Put, v
      <4>2. /\ Perf!Answered(v, t) \in PerfThread /\ Perf!Answered(v, t).at = v.at
            /\ Perf!Answered(v, t).since = v.since /\ Fair(i, Perf!Answered(v, t))
        BY <2>0, <3>1, AnswerIsFair
      <4> QED BY <3>1, <4>1, <4>2 DEF Asks, v
    <3> QED BY <2>1, <3>2, <3>3 DEF Perf!Ask
  <2>2. CASE Perf!Asked(i, r)
    BY <2>2, <2>g, <2>h, <2>k DEF Perf!Asked, Perf!Db, Asks, v
  <2>3. CASE Perf!Save(i, r)
    <3>1. v.at = "save" /\ UNCHANGED <<clock, perfTable, shown, overdue>>
      BY <2>3 DEF Perf!Save, v
    <3>2. CASE dbLock[i] = -1
      <4>0. /\ dbLock' = [dbLock EXCEPT ![i] = r]
            /\ recorder' = [recorder EXCEPT ![i][r].at = "commit", ![i][r].since = clock]
        BY <2>3, <3>2 DEF Perf!Save, Perf!NoOne
      <4>1. recorder' = Put(i, r, Saving(v))
        <5>1. recorder \in [PerfItem -> [Starts -> PerfThread]]
          BY DEF PerfTypes
        <5>2. recorder' = [recorder EXCEPT ![i][r] =
                              [recorder[i][r] EXCEPT !.at = "commit", !.since = clock]]
          <6>1. [recorder EXCEPT ![i][r].at = "commit", ![i][r].since = clock]
                = [recorder EXCEPT ![i][r] =
                       [recorder[i][r] EXCEPT !.at = "commit", !.since = clock]]
            BY <5>1
          <6> QED BY <4>0, <6>1
        <5> QED BY <5>2 DEF Put, Saving, v
      <4>3. /\ Saving(v) \in PerfThread /\ Saving(v).at = "commit"
            /\ Saving(v).since = clock /\ Fair(i, Saving(v))
        BY <2>0, <2>k, ThreadGoesOn
      <4> QED BY <3>1, <3>2, <4>0, <4>1, <4>3 DEF Saves, v
    <3>3. CASE dbLock[i] # -1
      <4>2. Perf!Goto(i, r, "lost") /\ UNCHANGED dbLock
        BY <2>3, <3>3 DEF Perf!Save, Perf!NoOne
      <4> QED BY <2>g, <2>h, <2>k, <3>1, <4>2 DEF Asks, v
    <3> QED BY <3>2, <3>3
  <2>4. CASE Perf!Commit(i, r)
    BY <2>4, <2>g, <2>h, <2>k DEF Perf!Commit, Perf!NoOne, Commits, v
  <2> QED BY <1>3, <2>1, <2>2, <2>3, <2>4 DEF Perf!Thread
<1>4. ASSUME NEW i \in PerfItem, Perf!Query(i) PROVE Shows(i)
  BY <1>4 DEF Perf!Query, Shows
<1>5. CASE UNCHANGED Perf!vars
  BY <1>5 DEF Perf!vars, Perf!Db, Same
<1> QED BY <1>1, <1>2, <1>3, <1>4, <1>5 DEF Perf!Next, Perf!Round

\* What all begin with is a thread of each item that had none.
LEMMA AllBegin ==
    ASSUME PerfTypes, NEW r \in Starts, StartsAt(r)
    PROVE  /\ recorder' \in [PerfItem -> [Starts -> PerfThread]]
           /\ \A i \in PerfItem, s \in Starts : s # r => recorder'[i][s] = recorder[i][s]
           /\ \A i \in PerfItem : /\ recorder[i][r].at = "none" /\ recorder'[i][r].at = "ask"
                                  /\ recorder'[i][r].since = recorder[i][r].since
                                  /\ Fair(i, recorder[i][r]) => Fair(i, recorder'[i][r])
<1>1. PICK h \in Nat :
          recorder' = [i \in PerfItem |-> [recorder[i] EXCEPT ![r].at = "ask", ![r].left = h]]
  BY DEF StartsAt
<1>2. recorder \in [PerfItem -> [Starts -> PerfThread]] /\ "ask" \in Perf!Stages
  BY DEF PerfTypes, Perf!Stages
<1>3. ASSUME NEW i \in PerfItem
      PROVE  /\ recorder'[i] \in [Starts -> PerfThread]
             /\ \A s \in Starts : s # r => recorder'[i][s] = recorder[i][s]
             /\ recorder'[i][r].at = "ask" /\ recorder'[i][r].since = recorder[i][r].since
             /\ Fair(i, recorder[i][r]) => Fair(i, recorder'[i][r])
  <2> DEFINE f == recorder[i]
             w == recorder[i][r]
             x == [w EXCEPT !.at = "ask", !.left = h]
  <2>1. f \in [Starts -> PerfThread] /\ w \in PerfThread /\ f[r] = w
    BY <1>2
  <2>2. recorder'[i] = [f EXCEPT ![r].at = "ask", ![r].left = h]
    BY <1>1
  <2> HIDE DEF f, w
  <2>3. [f EXCEPT ![r].at = "ask", ![r].left = h] = [f EXCEPT ![r] = x]
    BY <2>1
  <2>4. /\ x \in PerfThread /\ x.at = "ask" /\ x.since = w.since
        /\ x.sum = w.sum /\ x.told = w.told /\ x.cut = w.cut /\ x.unit = w.unit
    BY <1>2, <2>1 DEF PerfThread
  <2> HIDE DEF x
  <2>5. recorder'[i] = [f EXCEPT ![r] = x]
    BY <2>2, <2>3
  <2>6. /\ recorder'[i] \in [Starts -> PerfThread] /\ recorder'[i][r] = x
        /\ \A s \in Starts : s # r => recorder'[i][s] = f[s]
    BY <2>1, <2>4, <2>5
  <2>7. Fair(i, w) => Fair(i, x)
    BY <2>4 DEF Fair
  <2> QED BY <2>4, <2>6, <2>7 DEF f, w
<1>4. recorder' \in [PerfItem -> [Starts -> PerfThread]]
  <2>1. DOMAIN recorder' = PerfItem /\ recorder' = [i \in PerfItem |-> recorder'[i]]
    BY <1>1
  <2> QED BY <1>3, <2>1
<1>5. \A i \in PerfItem : recorder[i][r].at = "none"
  BY DEF StartsAt
<1> QED BY <1>3, <1>4, <1>5

\* Types.
LEMMA PerfTypesStep ==
    ASSUME Perf!PerfAssumption, PerfTypes, ThreadsInv, [Perf!Next]_(Perf!vars)
    PROVE  PerfTypes'
<1>1. ASSUME NEW r \in Starts, StartsAt(r) PROVE PerfTypes'
  BY <1>1, AllBegin DEF StartsAt, PerfTypes
<1>2. ASSUME NEW i \in PerfItem, NEW r \in Starts, NEW w \in PerfThread,
             Asks(i, r, w) \/ Saves(i, r, w) \/ Commits(i, r, w)
      PROVE  PerfTypes'
  <2>1. recorder' \in [PerfItem -> [Starts -> PerfThread]]
    BY <1>2, PutOne DEF Asks, Saves, Commits
  <2>2. CASE Asks(i, r, w)
    BY <2>1, <2>2 DEF Asks, PerfTypes
  <2>3. CASE Saves(i, r, w)
    BY <2>1, <2>3 DEF Saves, PerfTypes
  <2>4. CASE Commits(i, r, w)
    <3> DEFINE v == Perf!Value(recorder[i][r])
               e == Perf!Expired(i, r)
               o == IF r < recorder[i][r].since - Hour THEN overdue[i] \cup {r} ELSE overdue[i]
    <3>1. v \in [n : Nat, unit : Units]
      BY ValueIsClose DEF PerfTypes
    <3>2. o \in SUBSET Starts
      BY DEF PerfTypes
    <3>3. /\ perfTable' = [perfTable EXCEPT ![i] = (@ \ e) \cup {[time |-> r, value |-> v]}]
          /\ overdue' = [overdue EXCEPT ![i] = o] /\ dbLock' = [dbLock EXCEPT ![i] = -1]
          /\ UNCHANGED <<clock, shown>>
      BY <2>4 DEF Commits, Perf!Insert
    <3> HIDE DEF v, e, o
    <3>4. perfTable' \in [PerfItem -> SUBSET [time : Starts, value : [n : Nat, unit : Units]]]
      BY <3>1, <3>3 DEF PerfTypes
    <3> QED BY <2>1, <3>2, <3>3, <3>4 DEF PerfTypes
  <2> QED BY <1>2, <2>2, <2>3, <2>4
<1>3. ASSUME NEW i \in PerfItem, Shows(i) PROVE PerfTypes'
  <2>1. \A row \in Perf!Newest(i) : row.time \in Starts
    BY DEF Perf!Newest, PerfTypes
  <2> QED BY <1>3, <2>1 DEF Shows, PerfTypes
<1>4. CASE Ticks
  BY <1>4 DEF Ticks, PerfTypes
<1>5. CASE Same
  BY <1>5 DEF Same, PerfTypes
<1> QED BY <1>1, <1>2, <1>3, <1>4, <1>5, PerfSteps

\* Threads.
LEMMA ThreadsStep ==
    ASSUME Perf!PerfAssumption, PerfTypes, ThreadsInv, [Perf!Next]_(Perf!vars)
    PROVE  ThreadsInv'
<1>0. clock \in Nat /\ \A i \in PerfItem, r \in Starts : recorder[i][r].since \in Nat
  BY DEF PerfTypes, PerfThread
<1>n. Starts \subseteq Nat
  BY DEF Perf!PerfAssumption
<1>1. ASSUME NEW r \in Starts, StartsAt(r) PROVE ThreadsInv'
  <2>1. dbLock' = dbLock /\ clock' = clock
    BY <1>1 DEF StartsAt
  <2>2. ASSUME NEW i \in PerfItem, NEW s \in Starts
        PROVE  /\ Fair(i, recorder'[i][s]) /\ recorder'[i][s].since <= clock
               /\ recorder'[i][s].at = "commit" <=> dbLock[i] = s
    <3>1. CASE s = r
      BY <1>1, <3>1, AllBegin DEF ThreadsInv
    <3>2. CASE s # r
      BY <1>1, <3>2, AllBegin DEF ThreadsInv
    <3> QED BY <3>1, <3>2
  <2> QED BY <2>1, <2>2 DEF ThreadsInv, Fair
<1>2. ASSUME NEW i \in PerfItem, NEW r \in Starts, NEW w \in PerfThread,
             Asks(i, r, w) \/ Saves(i, r, w) \/ Commits(i, r, w)
      PROVE  ThreadsInv'
  <2>1. /\ recorder'[i][r] = w
        /\ \A j \in PerfItem, s \in Starts : j # i \/ s # r => recorder'[j][s] = recorder[j][s]
    BY <1>2, PutOne DEF Asks, Saves, Commits
  <2>2. clock' = clock /\ Fair(i, w) /\ w.since <= clock
    BY <1>0, <1>2 DEF Asks, Saves, Commits, ThreadsInv
  <2>3. ASSUME NEW j \in PerfItem, NEW s \in Starts
        PROVE  (recorder'[j][s].at = "commit") <=> (dbLock'[j] = s)
    <3>0. (recorder[j][s].at = "commit") <=> (dbLock[j] = s)
      BY DEF ThreadsInv
    <3>1. dbLock \in [PerfItem -> Starts \cup {-1}] /\ -1 # s /\ -1 # r
      BY <1>n DEF PerfTypes
    <3>2. (recorder[i][r].at = "commit") <=> (dbLock[i] = r)
      BY DEF ThreadsInv
    <3>3. CASE Asks(i, r, w)
      BY <2>1, <3>0, <3>2, <3>3 DEF Asks
    <3>4. CASE Saves(i, r, w)
      BY <2>1, <3>0, <3>1, <3>2, <3>4 DEF Saves
    <3>5. CASE Commits(i, r, w)
      BY <2>1, <3>0, <3>1, <3>2, <3>5 DEF Commits
    <3> QED BY <1>2, <3>3, <3>4, <3>5
  <2>4. ASSUME NEW j \in PerfItem, NEW s \in Starts
        PROVE  Fair(j, recorder'[j][s]) /\ recorder'[j][s].since <= clock
    <3>1. Fair(j, recorder[j][s]) /\ recorder[j][s].since <= clock
      BY DEF ThreadsInv
    <3> QED BY <2>1, <2>2, <3>1
  <2> QED BY <2>2, <2>3, <2>4 DEF ThreadsInv, Fair
<1>3. ASSUME NEW i \in PerfItem, Shows(i) PROVE ThreadsInv'
  BY <1>3 DEF Shows, ThreadsInv, Fair
<1>4. CASE Ticks
  BY <1>0, <1>4 DEF Ticks, ThreadsInv, Fair
<1>5. CASE Same
  BY <1>5 DEF Same, ThreadsInv, Fair
<1> QED BY <1>1, <1>2, <1>3, <1>4, <1>5, PerfSteps

\* Rows.
LEMMA RowsStep ==
    ASSUME Perf!PerfAssumption, PerfTypes, ThreadsInv, RowsInv, [Perf!Next]_(Perf!vars)
    PROVE  RowsInv'
<1>0. \A i \in PerfItem : \A row \in perfTable[i] : row.time \in Starts
  BY DEF PerfTypes
<1>1. ASSUME NEW r \in Starts, StartsAt(r) PROVE RowsInv'
  <2>1. perfTable' = perfTable
    BY <1>1 DEF StartsAt
  <2>2. \A i \in PerfItem, s \in Starts :
            recorder[i][s].at = "done" => recorder'[i][s] = recorder[i][s]
    BY <1>1, AllBegin
  <2>3. \A i \in PerfItem : \A row \in perfTable[i] :
            /\ recorder[i][row.time].at = "done"
            /\ recorder'[i][row.time] = recorder[i][row.time]
            /\ row.value = Perf!Value(recorder'[i][row.time])
    BY <1>0, <2>2 DEF RowsInv
  <2> QED BY <2>1, <2>3, ZenonT(60) DEF RowsInv, Perf!Value
<1>2. ASSUME NEW i \in PerfItem, NEW r \in Starts, NEW w \in PerfThread,
             Asks(i, r, w) \/ Saves(i, r, w) \/ Commits(i, r, w)
      PROVE  RowsInv'
  <2>1. /\ recorder'[i][r] = w /\ recorder[i][r].at # "done"
        /\ \A j \in PerfItem, s \in Starts : j # i \/ s # r => recorder'[j][s] = recorder[j][s]
    BY <1>2, PutOne DEF Asks, Saves, Commits
  <2>2. \A j \in PerfItem : \A row \in perfTable[j] :
            recorder'[j][row.time].at = "done" /\ row.value = Perf!Value(recorder'[j][row.time])
    BY <1>0, <2>1 DEF RowsInv
  <2>3. CASE perfTable' = perfTable
    BY <2>2, <2>3 DEF RowsInv, Perf!Value
  <2>4. CASE Commits(i, r, w)
    <3> DEFINE new == [time |-> r, value |-> Perf!Value(w)]
    <3>1. \A j \in PerfItem :
              perfTable'[j] \subseteq perfTable[j] \cup (IF j = i THEN {new} ELSE {})
      BY <2>4 DEF Commits, Perf!Insert, PerfTypes
    <3>2. new.time = r /\ new.value = Perf!Value(w)
      OBVIOUS
    <3> HIDE DEF new
    <3>3. w.at = "done"
      BY <2>4 DEF Commits
    <3>4. \A j \in PerfItem : \A row \in perfTable'[j] :
              recorder'[j][row.time].at = "done" /\ row.value = Perf!Value(recorder'[j][row.time])
      BY <2>1, <2>2, <3>1, <3>2, <3>3
    <3> QED BY <3>4 DEF RowsInv, Perf!Value
  <2> QED BY <1>2, <2>3, <2>4 DEF Asks, Saves
<1>3. ASSUME NEW i \in PerfItem, Shows(i) PROVE RowsInv'
  BY <1>3 DEF Shows, RowsInv, Perf!Value
<1>4. CASE Ticks
  BY <1>4 DEF Ticks, RowsInv, Perf!Value
<1>5. CASE Same
  BY <1>5 DEF Same, RowsInv, Perf!Value
<1> QED BY <1>1, <1>2, <1>3, <1>4, <1>5, PerfSteps

\* What is deleted is an hour old.
LEMMA SavedStep ==
    ASSUME Perf!PerfAssumption, PerfTypes, ThreadsInv, SavedInv, [Perf!Next]_(Perf!vars)
    PROVE  SavedInv'
<1>0. clock \in Nat /\ Hour \in Nat /\ Starts \subseteq Nat
  BY DEF PerfTypes, Perf!PerfAssumption
<1>1. ASSUME NEW r \in Starts, StartsAt(r) PROVE SavedInv'
  <2>1. perfTable' = perfTable /\ clock' = clock
    BY <1>1 DEF StartsAt
  <2>2. \A i \in PerfItem, s \in Starts :
            recorder'[i][s].at = "done" => recorder'[i][s] = recorder[i][s]
    BY <1>1, AllBegin
  <2> QED BY <2>1, <2>2 DEF SavedInv
<1>2. ASSUME NEW i \in PerfItem, NEW r \in Starts, NEW w \in PerfThread,
             Asks(i, r, w) \/ Saves(i, r, w) \/ Commits(i, r, w)
      PROVE  SavedInv'
  <2>1. /\ recorder'[i][r] = w /\ clock' = clock
        /\ \A j \in PerfItem, s \in Starts : j # i \/ s # r => recorder'[j][s] = recorder[j][s]
    BY <1>2, PutOne DEF Asks, Saves, Commits
  <2>2. CASE perfTable' = perfTable /\ w.at # "done"
    BY <2>1, <2>2 DEF SavedInv
  <2>3. CASE Commits(i, r, w)
    <3> DEFINE new == [time |-> r, value |-> Perf!Value(recorder[i][r])]
               h   == recorder[i][r].since - Hour
    <3>1. /\ \A j \in PerfItem : j # i => perfTable'[j] = perfTable[j]
          /\ new \in perfTable'[i] /\ new.time = r
          /\ \A row \in perfTable[i] : row.time < h \/ row \in perfTable'[i]
      BY <2>3 DEF Commits, Perf!Insert, Perf!Expired, PerfTypes
    <3>2. h <= clock - Hour /\ h \in Int
      <4>1. recorder[i][r].since \in Nat /\ recorder[i][r].since <= clock
        BY DEF PerfTypes, PerfThread, ThreadsInv
      <4> QED BY <1>0, <4>1
    <3> HIDE DEF new, h
    <3>3. ASSUME NEW j \in PerfItem, NEW s \in Starts, recorder'[j][s].at = "done",
              s >= clock - Hour
          PROVE  \E row \in perfTable'[j] : row.time = s
      <4>1. CASE j = i /\ s = r
        BY <3>1, <4>1
      <4>2. CASE ~(j = i /\ s = r)
        <5>1. PICK row \in perfTable[j] : row.time = s
          BY <2>1, <3>3, <4>2 DEF SavedInv
        <5>2. ~(s < h)
          BY <1>0, <3>2, <3>3
        <5> QED BY <3>1, <5>1, <5>2
      <4> QED BY <4>1, <4>2
    <3> QED BY <2>1, <3>3 DEF SavedInv
  <2> QED BY <1>2, <2>2, <2>3 DEF Asks, Saves
<1>3. ASSUME NEW i \in PerfItem, Shows(i) PROVE SavedInv'
  BY <1>3 DEF Shows, SavedInv
<1>4. CASE Ticks
  <2>1. clock' = clock + 1 /\ recorder' = recorder /\ perfTable' = perfTable
    BY <1>4 DEF Ticks
  <2>2. ASSUME NEW s \in Starts, s >= clock' - Hour PROVE s >= clock - Hour
    <3>1. s \in Nat
      BY <1>0
    <3> QED BY <1>0, <2>1, <2>2, <3>1
  <2> QED BY <2>1, <2>2 DEF SavedInv
<1>5. CASE Same
  BY <1>5 DEF Same, SavedInv
<1> QED BY <1>1, <1>2, <1>3, <1>4, <1>5, PerfSteps

\* What was shown is still there or followed by what is as new, or all of that is gone.
LEMMA ShownStep ==
    ASSUME Perf!PerfAssumption, PerfTypes, ThreadsInv, ShownInv, [Perf!Next]_(Perf!vars)
    PROVE  /\ ShownInv'
           /\ \A i \in PerfItem : shown'[i] >= shown[i] \/ shown'[i] \in overdue[i]
<1>0. clock \in Nat /\ Hour \in Nat /\ Starts \subseteq Nat
  BY DEF PerfTypes, Perf!PerfAssumption
<1>s. shown \in [PerfItem -> Starts \cup {-1}] /\ \A i \in PerfItem : shown[i] \in Int
  <2>1. shown \in [PerfItem -> Starts \cup {-1}]
    BY DEF PerfTypes
  <2>2. \A x \in Starts \cup {-1} : x \in Int
    BY <1>0
  <2> QED BY <2>1, <2>2
<1>r. \A i \in PerfItem : \A row \in perfTable[i] : row.time \in Starts /\ row.time \in Nat
  <2>1. \A i \in PerfItem : \A row \in perfTable[i] : row.time \in Starts
    BY DEF PerfTypes
  <2> QED BY <1>0, <2>1
<1>g. shown' = shown => \A i \in PerfItem : shown'[i] >= shown[i]
  BY <1>s
<1>1. ASSUME NEW r \in Starts, StartsAt(r) PROVE ShownInv' /\ shown' = shown
  <2>1. UNCHANGED <<clock, perfTable, dbLock, shown, overdue>>
    BY <1>1 DEF StartsAt
  <2>2. \A i \in PerfItem, s \in Starts : recorder'[i][s].since = recorder[i][s].since
    BY <1>1, AllBegin
  <2> QED BY <2>1, <2>2 DEF ShownInv, Emptied
<1>2. ASSUME NEW i \in PerfItem, NEW r \in Starts, NEW w \in PerfThread,
             Asks(i, r, w) \/ Saves(i, r, w) \/ Commits(i, r, w)
      PROVE  ShownInv' /\ shown' = shown
  <2>0. shown' = shown /\ clock' = clock
    BY <1>2 DEF Asks, Saves, Commits
  <2>1. /\ recorder'[i][r] = w
        /\ \A j \in PerfItem, s \in Starts : j # i \/ s # r => recorder'[j][s] = recorder[j][s]
    BY <1>2, PutOne DEF Asks, Saves, Commits
  <2>2. CASE Asks(i, r, w)
    <3>1. UNCHANGED <<clock, perfTable, dbLock, shown, overdue>>
      BY <2>2 DEF Asks
    <3>2. \A j \in PerfItem, s \in Starts : recorder'[j][s].since = recorder[j][s].since
      BY <2>1, <2>2 DEF Asks
    <3> QED BY <3>1, <3>2 DEF ShownInv, Emptied
  <2>3. CASE Saves(i, r, w)
    <3>1. /\ UNCHANGED <<clock, perfTable, shown, overdue>> /\ w.since = clock
          /\ dbLock'[i] = r /\ \A j \in PerfItem : j # i => dbLock'[j] = dbLock[j]
      BY <2>3 DEF Saves, PerfTypes
    <3>2. \A j \in PerfItem : Emptied(j) => Emptied(j)'
      BY <2>1, <3>1 DEF Emptied
    <3> QED BY <3>1, <3>2 DEF ShownInv
  <2>4. CASE Commits(i, r, w)
    <3> DEFINE new == [time |-> r, value |-> Perf!Value(recorder[i][r])]
               h   == recorder[i][r].since - Hour
    <3>1. /\ \A j \in PerfItem : j # i => perfTable'[j] = perfTable[j] /\ overdue'[j] = overdue[j]
          /\ new \in perfTable'[i] /\ new.time = r
          /\ \A row \in perfTable[i] : row.time < h \/ row \in perfTable'[i]
          /\ \A row \in perfTable'[i] : row = new \/ (row \in perfTable[i] /\ ~(row.time < h))
          /\ overdue[i] \subseteq overdue'[i] /\ (r < h => r \in overdue'[i])
      BY <2>4 DEF Commits, Perf!Insert, Perf!Expired, PerfTypes
    <3>2. h <= clock - Hour /\ h \in Int
      <4>1. recorder[i][r].since \in Nat /\ recorder[i][r].since <= clock
        BY DEF PerfTypes, PerfThread, ThreadsInv
      <4> QED BY <1>0, <4>1
    <3>3. dbLock[i] = r /\ dbLock'[i] = -1 /\ \A j \in PerfItem : j # i => dbLock'[j] = dbLock[j]
      BY <2>4 DEF Commits, PerfTypes, ThreadsInv
    <3>e. Emptied(i) => shown[i] < h /\ \A row \in perfTable[i] : row.time \in overdue[i]
      BY <3>3 DEF Emptied
    <3> HIDE DEF new, h
    <3>4. ASSUME NEW j \in PerfItem, j # i
          PROVE  \/ shown'[j] = -1 \/ \E row \in perfTable'[j] : row.time >= shown'[j]
                 \/ Emptied(j)'
      BY <2>0, <2>1, <3>1, <3>3, <3>4 DEF ShownInv, Emptied
    <3>5. \/ shown[i] = -1 \/ \E row \in perfTable'[i] : row.time >= shown[i]
          \/ (\A row \in perfTable'[i] : row.time \in overdue'[i]) /\ shown[i] < h
      <4>1. CASE \E row \in perfTable[i] : row.time >= shown[i]
        <5>1. PICK row \in perfTable[i] : row.time >= shown[i]
          BY <4>1
        <5>2. CASE row \in perfTable'[i]
          BY <5>1, <5>2
        <5>3. CASE row.time < h
          <6>1. shown[i] < h
            BY <1>r, <1>s, <3>2, <5>1, <5>3
          <6>2. ASSUME NEW q \in perfTable'[i], q.time \notin overdue'[i]
                PROVE  q.time >= shown[i]
            <7>1. CASE q = new
              <8>1. ~(r < h)
                BY <3>1, <6>2, <7>1
              <8> QED BY <1>0, <1>s, <3>1, <3>2, <6>1, <7>1, <8>1
            <7>2. CASE q \in perfTable[i] /\ ~(q.time < h)
              BY <1>r, <1>s, <3>2, <6>1, <7>2
            <7> QED BY <3>1, <7>1, <7>2
          <6> QED BY <6>1, <6>2
        <5> QED BY <3>1, <5>2, <5>3
      <4>2. CASE Emptied(i)
        <5>1. shown[i] < h /\ \A row \in perfTable[i] : row.time \in overdue[i]
          BY <3>e, <4>2
        <5>2. CASE r < h
          BY <3>1, <5>1, <5>2
        <5>3. CASE ~(r < h)
          <6>1. new.time >= shown[i]
            BY <1>0, <1>s, <3>1, <3>2, <5>1, <5>3
          <6> QED BY <3>1, <6>1
        <5> QED BY <5>2, <5>3
      <4> QED BY <4>1, <4>2 DEF ShownInv
    <3>6. \/ shown'[i] = -1 \/ \E row \in perfTable'[i] : row.time >= shown'[i]
          \/ Emptied(i)'
      <4>1. shown[i] < h => shown[i] < clock - Hour
        BY <1>0, <1>s, <3>2
      <4>2. -1 \notin Starts
        BY <1>0
      <4> QED BY <2>0, <3>3, <3>5, <4>1, <4>2 DEF Emptied
    <3> QED BY <2>0, <3>4, <3>6 DEF ShownInv
  <2> QED BY <1>2, <2>0, <2>2, <2>3, <2>4
<1>3. ASSUME NEW i \in PerfItem, Shows(i)
      PROVE  /\ ShownInv' /\ \A j \in PerfItem : shown'[j] >= shown[j] \/ shown'[j] \in overdue[j]
  <2>0. UNCHANGED <<clock, recorder, perfTable, dbLock, overdue>>
    BY <1>3 DEF Shows
  <2>1. CASE shown' = shown
    BY <1>g, <2>0, <2>1 DEF ShownInv, Emptied
  <2>2. ASSUME NEW row \in Perf!Newest(i), shown' = [shown EXCEPT ![i] = row.time]
        PROVE  /\ ShownInv' /\ \A j \in PerfItem : shown'[j] >= shown[j] \/ shown'[j] \in overdue[j]
    <3>1. /\ row \in perfTable[i] /\ row.time \in Nat
          /\ \A q \in perfTable[i] : q.time <= row.time /\ q.time \in Nat
      BY <1>r DEF Perf!Newest
    <3>2. shown'[i] = row.time /\ \A j \in PerfItem : j # i => shown'[j] = shown[j]
      BY <1>s, <2>2
    <3>3. row.time >= shown[i] \/ row.time \in overdue[i]
      <4>1. CASE shown[i] = -1
        BY <3>1, <4>1
      <4>2. CASE \E q \in perfTable[i] : q.time >= shown[i]
        <5>1. PICK q \in perfTable[i] : q.time >= shown[i]
          BY <4>2
        <5>2. q.time <= row.time /\ q.time \in Nat /\ row.time \in Nat /\ shown[i] \in Int
          BY <1>s, <3>1
        <5> QED BY <5>1, <5>2
      <4>3. CASE Emptied(i)
        BY <3>1, <4>3 DEF Emptied
      <4> QED BY <4>1, <4>2, <4>3 DEF ShownInv
    <3>4. \A j \in PerfItem : shown'[j] >= shown[j] \/ shown'[j] \in overdue[j]
      BY <1>s, <3>2, <3>3
    <3>5. row.time >= shown'[i]
      BY <3>1, <3>2
    <3>6. ShownInv'
      BY <2>0, <3>1, <3>2, <3>5 DEF ShownInv, Emptied
    <3> QED BY <3>4, <3>6
  <2> QED BY <1>3, <2>1, <2>2 DEF Shows
<1>4. CASE Ticks
  <2>1. clock' = clock + 1 /\ UNCHANGED <<recorder, perfTable, dbLock, shown, overdue>>
    BY <1>4 DEF Ticks
  <2>2. \A i \in PerfItem : shown[i] < clock - Hour => shown[i] < clock' - Hour
    BY <1>0, <1>s, <2>1
  <2>3. ShownInv'
    BY <2>1, <2>2 DEF ShownInv, Emptied
  <2> QED BY <1>g, <2>1, <2>3
<1>5. CASE Same
  BY <1>5, <1>g DEF Same, ShownInv, Emptied
<1> QED BY <1>1, <1>2, <1>3, <1>4, <1>5, <1>g, PerfSteps

\* The data that are recorded: near what was told, kept for an hour, and never shown
\* in the wrong order but for what was saved too late.
THEOREM PerfHolds ==
    ASSUME Perf!PerfAssumption
    PROVE  /\ Perf!Spec => [](Perf!SumsAreClose /\ Perf!BytesAreNothing /\ Perf!SavedStays)
           /\ Perf!Spec => Perf!ShownGoesOn
<1>1. Perf!Init => PerfTypes /\ ThreadsInv /\ RowsInv /\ SavedInv /\ ShownInv
  <2> SUFFICES ASSUME Perf!Init PROVE PerfTypes /\ ThreadsInv /\ RowsInv /\ SavedInv /\ ShownInv
    OBVIOUS
  <2>1. Perf!NoThread \in PerfThread /\ Perf!NoThread.at = "none" /\ Perf!NoThread.since = 0
    BY DEF Perf!NoThread, PerfThread, Perf!Stages, Units
  <2>2. ASSUME NEW i PROVE Fair(i, Perf!NoThread)
    <3>1. Kilo \in Nat /\ Kilo * 0 = 0
      BY DEF Perf!PerfAssumption
    <3> QED BY <3>1 DEF Fair, Perf!NoThread
  <2>3. Starts \subseteq Nat
    BY DEF Perf!PerfAssumption
  <2>4. recorder = [i \in PerfItem |-> [r \in Starts |-> Perf!NoThread]]
    BY DEF Perf!Init, Perf!Round
  <2> HIDE DEF Perf!NoThread
  <2>5. recorder \in [PerfItem -> [Starts -> PerfThread]]
    BY <2>1, <2>4
  <2>6. PerfTypes
    BY <2>5 DEF Perf!Init, PerfTypes, Perf!NoOne
  <2>7. ThreadsInv
    BY <2>1, <2>2, <2>3, <2>4 DEF Perf!Init, ThreadsInv, Perf!NoOne
  <2>8. RowsInv /\ SavedInv /\ ShownInv
    BY <2>1, <2>4 DEF Perf!Init, RowsInv, SavedInv, ShownInv, Perf!NoOne
  <2> QED BY <2>6, <2>7, <2>8
<1>2. PerfTypes /\ ThreadsInv /\ RowsInv => Perf!SumsAreClose /\ Perf!BytesAreNothing
  <2> SUFFICES ASSUME PerfTypes, ThreadsInv, RowsInv
               PROVE  Perf!SumsAreClose /\ Perf!BytesAreNothing
    OBVIOUS
  <2>1. ASSUME NEW i \in PerfItem, NEW row \in perfTable[i]
        PROVE  LET w == recorder[i][row.time]
               IN /\ 2 * Perf!Tenths(row.value) <= 2 * w.told + Kilo
                  /\ 2 * Perf!Tenths(row.value) + Kilo >= 2 * (w.told - 10 * Kilo * w.cut)
                  /\ (i \in Counts /\ row.value.unit # "num" => row.value.n = 0 /\ w.told = 0)
    <3> DEFINE w == recorder[i][row.time]
    <3>1. /\ w \in PerfThread /\ Fair(i, w) /\ row.value = Perf!Value(w)
      BY DEF PerfTypes, ThreadsInv, RowsInv
    <3> HIDE DEF w
    <3>2. w.sum \in Nat /\ w.told \in Nat /\ w.cut \in Nat /\ Kilo \in Nat
      BY <3>1 DEF PerfThread, Perf!PerfAssumption
    <3>3. /\ 2 * Perf!Tenths(row.value) <= 20 * w.sum + Kilo
          /\ 2 * Perf!Tenths(row.value) + Kilo >= 20 * w.sum
          /\ w.unit = "num" => row.value.unit = "num"
          /\ w.sum = 0 => row.value.n = 0
          /\ row.value \in [n : Nat, unit : Units]
      BY <3>1, ValueIsClose
    <3>4. /\ 10 * w.sum <= w.told /\ w.told <= 10 * w.sum + 10 * (Kilo * w.cut)
          /\ i \in Counts /\ w.unit # "num" => w.sum = 0 /\ w.told = 0
      BY <3>1 DEF Fair
    <3>5. Kilo * w.cut \in Nat /\ 10 * Kilo * w.cut = 10 * (Kilo * w.cut)
      BY <3>2
    <3>6. Perf!Tenths(row.value) \in Nat
      BY <3>2, <3>3 DEF Perf!Tenths
    <3>7. /\ 2 * Perf!Tenths(row.value) <= 2 * w.told + Kilo
          /\ 2 * Perf!Tenths(row.value) + Kilo >= 2 * (w.told - 10 * Kilo * w.cut)
      BY <3>2, <3>3, <3>4, <3>5, <3>6
    <3> QED BY <3>3, <3>4, <3>7 DEF w
  <2>2. Counts \subseteq PerfItem
    BY DEF Perf!PerfAssumption
  <2> QED BY <2>1, <2>2 DEF Perf!SumsAreClose, Perf!BytesAreNothing
<1>3. SavedInv => Perf!SavedStays
  BY DEF SavedInv, Perf!SavedStays, Perf!Round
<1>4. /\ PerfTypes /\ ThreadsInv /\ RowsInv /\ SavedInv /\ ShownInv /\ [Perf!Next]_(Perf!vars)
      => (PerfTypes /\ ThreadsInv /\ RowsInv /\ SavedInv /\ ShownInv)'
  BY PerfTypesStep, ThreadsStep, RowsStep, SavedStep, ShownStep
<1>5. Perf!Spec => [](PerfTypes /\ ThreadsInv /\ RowsInv /\ SavedInv /\ ShownInv)
  BY <1>1, <1>4, PTL DEF Perf!Spec
<1>6. Perf!Spec => [](Perf!SumsAreClose /\ Perf!BytesAreNothing /\ Perf!SavedStays)
  BY <1>2, <1>3, <1>5, PTL
<1>7. /\ PerfTypes /\ PerfTypes' /\ ThreadsInv /\ ShownInv /\ [Perf!Next]_(Perf!vars)
      => [\A i \in PerfItem : shown'[i] >= shown[i] \/ shown'[i] \in overdue[i]]_(Perf!vars)
  BY ShownStep
<1>8. Perf!Spec => Perf!ShownGoesOn
  BY <1>5, <1>7, PTL DEF Perf!Spec, Perf!ShownGoesOn
<1> QED BY <1>6, <1>8

-----------------------------------------------------------------------------
(* Bugs.  While nobody came between and nothing failed, a row that a run   *)
(* has handled is tracked, and stays so while it handles the others.  The  *)
(* issues it found are those that are still open under the parents it      *)
(* searched, so it creates none for a bug that has one of those.           *)

BugMarks   == {"summary", "priority", "description"}
BugParents == Bugs!AllParents
BugIssue   == [about : TrackedBug, parent : BugParents, open : BOOLEAN,
               assignee : Contact \cup {NoContact}, watchers : SUBSET Contact,
               marks : SUBSET BugMarks]
SyncFields == {"at", "cmd", "stage", "broken", "read", "left", "found", "faults", "base",
               "runs", "ok"}

\* The parents under which the stage searches, and its rows.
Asked    == Bugs!Parents(sync.cmd)[sync.stage]
RowsOf(s) == Bugs!Rows(sync.cmd, s, sync.read)

BugTypes ==
    /\ bugs \in [TrackedBug -> Bugs!Entry] /\ tracker \in Seq(BugIssue)
    /\ DOMAIN sync = SyncFields
    /\ sync.at \in {"idle", "search", "rows", "done", "raised"}
    /\ sync.cmd \in {"x86", "arch"} /\ sync.stage \in DOMAIN Bugs!Parents(sync.cmd)
    /\ sync.read \in [TrackedBug -> Bugs!Entry]

\* What a run searched, whatever came between.
SearchInv ==
    sync.at = "rows" =>
        /\ sync.base \in Nat /\ sync.base <= Len(tracker)
        /\ DOMAIN sync.found \subseteq 1..sync.base
        /\ \A k \in 1..sync.base : k \in Bugs!Below(Asked) => k \in DOMAIN sync.found
        /\ sync.left \subseteq RowsOf(sync.stage)

\* And if nothing did, what it found is as it is.
FoundAsIs(k) == /\ tracker[k].open /\ tracker[k].parent \in Asked
                /\ sync.found[k] = tracker[k].assignee

FreshInv == sync.at = "rows" /\ sync.ok => \A k \in DOMAIN sync.found : FoundAsIs(k)

\* An issue that is about the bug, with its contact and the lead; one that has its
\* number, and no assignee; one that has its number, under its parent.
LedBy(i, b, q) == /\ i.open /\ i.about = b /\ i.assignee = q
                  /\ LeadOf[q] = NoContact \/ LeadOf[q] \in i.watchers
Loosely(i, b)  == i.open /\ b \in NumbersIn[i.about] /\ i.assignee = NoContact
Filed(i, b, p)  == i.open /\ i.parent = p /\ b \in NumbersIn[i.about]

Tracked86(row) ==
    \/ Bugs!TakenOver(row.bug)
    \/ \E k \in DOMAIN tracker : LedBy(tracker[k], row.bug, sync.read[row.bug].qa)
    \/ \E k \in DOMAIN tracker : Loosely(tracker[k], row.bug)
TrackedArch(row) ==
    IF sync.read[row.bug].rpl
    THEN \E k \in DOMAIN tracker : /\ Filed(tracker[k], row.bug, row.parent)
                                   /\ tracker[k].marks = BugMarks
    ELSE \/ Bugs!TakenOver(row.bug)
         \/ \E k \in DOMAIN tracker : Filed(tracker[k], row.bug, row.parent)
IsTracked(row) ==
    /\ sync.cmd = "x86" => Tracked86(row)
    /\ sync.cmd = "arch" => TrackedArch(row)

\* Rows that the run is done with.
Handled(s, row) ==
    \/ s < sync.stage \/ sync.at = "done"
    \/ s = sync.stage /\ sync.at = "rows" /\ row \notin sync.left

HandledInv ==
    sync.ok /\ sync.at \in {"search", "rows", "done"} =>
        \A s \in DOMAIN Bugs!Parents(sync.cmd) : \A row \in RowsOf(s) :
            Handled(s, row) /\ row.parent # Bugs!Unlisted => IsTracked(row)

BugInv == BugTypes /\ SearchInv /\ FreshInv /\ HandledInv

\* The marks, and the stages with their parents.
LEMMA StagesOfBugs ==
    /\ Bugs!Range(Bugs!Marks) = BugMarks
    /\ {Bugs!Marks[m] : m \in 1..Len(Bugs!Marks)} = BugMarks
    /\ \A n \in 0..3 : {Bugs!Marks[m] : m \in 1..n} \subseteq BugMarks
    /\ Len(Bugs!Marks) = 3 /\ DOMAIN Bugs!Marks = 1..3
    /\ DOMAIN Bugs!Parents("x86") = {1} /\ DOMAIN Bugs!Parents("arch") = {1, 2}
    /\ Len(Bugs!Parents("x86")) = 1 /\ Len(Bugs!Parents("arch")) = 2
    /\ Bugs!Parents("arch")[1] = {"onqa"} /\ Bugs!Parents("arch")[2] = {"other"}
    /\ Bugs!Parents("x86")[1] = {ParentOf[f] : f \in DOMAIN ParentOf}
<1>1. /\ Len(Bugs!Marks) = 3 /\ DOMAIN Bugs!Marks = 1..3 /\ Bugs!Marks[1] = "summary"
      /\ Bugs!Marks[2] = "priority" /\ Bugs!Marks[3] = "description"
  BY DEF Bugs!Marks
<1> HIDE DEF Bugs!Marks
<1>2. 1..3 = {1, 2, 3}
  OBVIOUS
<1>3. Bugs!Range(Bugs!Marks) = BugMarks
  BY <1>1, <1>2 DEF Bugs!Range, BugMarks
<1>4. {Bugs!Marks[m] : m \in 1..Len(Bugs!Marks)} = BugMarks
  BY <1>1, <1>2 DEF BugMarks
<1>5. \A n \in 0..3 : {Bugs!Marks[m] : m \in 1..n} \subseteq BugMarks
  BY <1>1, <1>2 DEF BugMarks
<1>6. /\ DOMAIN Bugs!Parents("x86") = {1} /\ DOMAIN Bugs!Parents("arch") = {1, 2}
      /\ Len(Bugs!Parents("x86")) = 1 /\ Len(Bugs!Parents("arch")) = 2
      /\ Bugs!Parents("arch")[1] = {"onqa"} /\ Bugs!Parents("arch")[2] = {"other"}
      /\ Bugs!Parents("x86")[1] = {ParentOf[f] : f \in DOMAIN ParentOf}
  BY DEF Bugs!Parents
<1> QED BY <1>1, <1>3, <1>4, <1>5, <1>6

\* A row is a bug and, if it is of a known release, a parent of its stage.
LEMMA RowsOfBugs ==
    ASSUME Bugs!BugAssumption, NEW c \in {"x86", "arch"}, NEW s \in DOMAIN Bugs!Parents(c),
           NEW r \in [TrackedBug -> Bugs!Entry], NEW row \in Bugs!Rows(c, s, r)
    PROVE  /\ row.bug \in TrackedBug /\ r[row.bug].qa \in Contact
           /\ row.parent # Bugs!Unlisted => row.parent \in Bugs!Parents(c)[s]
           /\ c = "arch" => Bugs!Parents(c)[s] = {row.parent} /\ row.parent # Bugs!Unlisted
<1>1. CASE c = "x86"
  <2>1. PICK b \in TrackedBug :
            \E f \in r[b].flags : row = [bug |-> b, parent |-> Bugs!ParentFor(f)]
    BY <1>1 DEF Bugs!Rows
  <2>2. s = 1
    BY <1>1, StagesOfBugs
  <2>3. row.parent # Bugs!Unlisted => row.parent \in {ParentOf[g] : g \in DOMAIN ParentOf}
    BY <2>1 DEF Bugs!ParentFor
  <2> QED BY <1>1, <2>1, <2>2, <2>3, StagesOfBugs DEF Bugs!Entry
<1>2. CASE c = "arch"
  <2>1. PICK b \in TrackedBug : row = [bug |-> b, parent |-> CHOOSE p \in Bugs!Parents(c)[s] : TRUE]
    BY <1>2 DEF Bugs!Rows
  <2>2. Bugs!Parents(c)[s] = {"onqa"} \/ Bugs!Parents(c)[s] = {"other"}
    BY <1>2, StagesOfBugs
  <2>3. row.parent \in Bugs!Parents(c)[s]
    BY <2>1, <2>2
  <2>4. row.parent # Bugs!Unlisted
    BY <2>2, <2>3 DEF Bugs!Unlisted
  <2> QED BY <1>2, <2>1, <2>2, <2>3, <2>4 DEF Bugs!Entry
<1> QED BY <1>1, <1>2

\* The parents of a stage are parents.
LEMMA ParentsOfStage ==
    ASSUME NEW c \in {"x86", "arch"}, NEW s \in DOMAIN Bugs!Parents(c)
    PROVE  Bugs!Parents(c)[s] \subseteq BugParents
<1>1. Bugs!Parents(c)[s] \in Bugs!Range(Bugs!Parents(c))
  BY DEF Bugs!Range
<1> QED BY <1>1 DEF BugParents, Bugs!AllParents

\* The newest issue that has the number is one that has it.
LEMMA MatchIsOne ==
    ASSUME BugTypes, SearchInv, sync.at = "rows", NEW b, Bugs!Matches(b) # {}
    PROVE  /\ Bugs!Match(b) \in DOMAIN sync.found /\ Bugs!Match(b) \in DOMAIN tracker
           /\ b \in NumbersIn[tracker[Bugs!Match(b)].about]
<1> DEFINE n == sync.base
           S == {n - k : k \in Bugs!Matches(b)}
<1>1. n \in Nat /\ Bugs!Matches(b) \subseteq 1..n /\ n <= Len(tracker)
  BY DEF SearchInv, Bugs!Matches
<1> HIDE DEF n
<1>2. S \in SUBSET Nat /\ S # {}
  BY <1>1
<1>3. PICK m \in S : \A l \in S : m <= l
  BY <1>2, FirstIsLeast
<1>4. PICK k \in Bugs!Matches(b) : m = n - k
  OBVIOUS
<1>5. ASSUME NEW l \in Bugs!Matches(b) PROVE k >= l
  <2>1. n - l \in S
    OBVIOUS
  <2>2. n - k <= n - l
    BY <1>3, <1>4, <2>1
  <2>3. k \in 1..n /\ l \in 1..n
    BY <1>1
  <2> QED BY <1>1, <2>2, <2>3
<1>6. Bugs!Match(b) \in Bugs!Matches(b)
  BY <1>5 DEF Bugs!Match
<1>7. DOMAIN tracker = 1..Len(tracker) /\ Len(tracker) \in Nat
  BY DEF BugTypes
<1>8. Bugs!Match(b) \in 1..Len(tracker)
  BY <1>1, <1>6, <1>7
<1> QED BY <1>6, <1>7, <1>8 DEF Bugs!Matches

\* What a successful request of x86 makes of one.
LEMMA TakenIssues ==
    ASSUME NEW i \in BugIssue, NEW b \in TrackedBug, sync.read[b].qa \in Contact
    PROVE  LET t == Bugs!Taken(i, b)
           IN /\ t \in BugIssue /\ t.open = i.open /\ t.parent = i.parent /\ t.about = b
              /\ t.assignee = sync.read[b].qa
  BY DEF Bugs!Taken, BugIssue

\* The watchers of an issue with a contact are its lead and those it had.
LEMMA WatchedIssues ==
    ASSUME Bugs!BugAssumption, NEW i \in BugIssue, i.assignee \in Contact
    PROVE  LET w == Bugs!Watched(i)
           IN /\ w \in BugIssue /\ w.open = i.open /\ w.parent = i.parent /\ w.about = i.about
              /\ w.assignee = i.assignee /\ w.watchers \in SUBSET Contact
              /\ LeadOf[i.assignee] = NoContact \/ LeadOf[i.assignee] \in w.watchers
<1>1. LeadOf[i.assignee] \in Contact \cup {NoContact}
  BY DEF Bugs!BugAssumption
<1>2. {LeadOf[i.assignee]} \ {NoContact} \in SUBSET Contact
  BY <1>1
<1> DEFINE L == {LeadOf[i.assignee]} \ {NoContact}
<1>3. LeadOf[i.assignee] = NoContact \/ LeadOf[i.assignee] \in L
  OBVIOUS
<1>4. Bugs!Watched(i) = [i EXCEPT !.watchers = i.watchers \cup L]
  BY DEF Bugs!Watched, BugIssue
<1> HIDE DEF L
<1>5. i.watchers \cup L \in SUBSET Contact
  BY <1>2 DEF BugIssue, L
<1> QED BY <1>3, <1>4, <1>5 DEF BugIssue

\* The marks that are added, and whom the issue is about then.
LEMMA MarkedIssues ==
    ASSUME NEW i \in BugIssue, NEW b \in TrackedBug, NEW n \in 0..3
    PROVE  LET w == Bugs!Marked(i, b, n)
           IN /\ w \in BugIssue /\ w.open = i.open /\ w.parent = i.parent
              /\ w.about \in {i.about, b} /\ i.marks \subseteq w.marks
              /\ i.marks = BugMarks => w.about = i.about
              /\ n = 3 => w.marks = BugMarks
<1> DEFINE M == {Bugs!Marks[m] : m \in 1..n}
           a == IF n > 0 /\ "summary" \notin i.marks THEN b ELSE i.about
<1>1. M \subseteq BugMarks /\ (n = 3 => M = BugMarks)
  BY StagesOfBugs
<1>2. a \in {i.about, b} /\ (i.marks = BugMarks => a = i.about)
  BY DEF BugMarks
<1>3. Bugs!Marked(i, b, n) = [i EXCEPT !.about = a, !.marks = i.marks \cup M]
  BY DEF Bugs!Marked, BugIssue
<1> HIDE DEF a, M
<1> QED BY <1>1, <1>2, <1>3, ZenonT(60) DEF BugIssue

\* A new issue.
LEMMA NewIssues ==
    ASSUME Bugs!BugAssumption, BugTypes, NEW row, row.bug \in TrackedBug,
           row.parent \in BugParents
    PROVE  LET w == Bugs!NewIssue(row)
           IN /\ w \in BugIssue /\ w.open /\ w.parent = row.parent /\ w.about = row.bug
              /\ w.assignee = sync.read[row.bug].qa /\ w.assignee \in Contact
              /\ sync.cmd = "arch" /\ sync.read[row.bug].rpl => w.marks = BugMarks
<1>1. sync.read[row.bug].qa \in Contact /\ Bugs!Range(Bugs!Marks) = BugMarks
  BY StagesOfBugs DEF BugTypes, Bugs!Entry
<1> QED BY <1>1 DEF Bugs!NewIssue, BugIssue

\* What is listed, and who takes over whose issues, is what the run read.
LEMMA SameRows ==
    ASSUME sync'.cmd = sync.cmd, sync'.read = sync.read
    PROVE  /\ \A b : Bugs!TakenOver(b)' <=> Bugs!TakenOver(b)
           /\ \A s : RowsOf(s)' = RowsOf(s)
<1>1. Bugs!Listed' = Bugs!Listed /\ \A s : RowsOf(s)' = RowsOf(s)
  BY DEF Bugs!Listed, Bugs!Stages, RowsOf
<1> QED BY <1>1 DEF Bugs!TakenOver

\* What becomes of an issue does not leave a bug untracked.
Goes(i, j, row) ==
    /\ sync.cmd = "x86" =>
        /\ LedBy(i, row.bug, sync.read[row.bug].qa)
           => LedBy(j, row.bug, sync.read[row.bug].qa) \/ Bugs!TakenOver(row.bug)
        /\ Loosely(i, row.bug) => Loosely(j, row.bug)
    /\ sync.cmd = "arch" /\ Filed(i, row.bug, row.parent) =>
        /\ \/ Filed(j, row.bug, row.parent)
           \/ Bugs!TakenOver(row.bug) \/ sync.read[row.bug].rpl
        /\ i.marks = BugMarks => Filed(j, row.bug, row.parent) /\ j.marks = BugMarks

\* So a row that is tracked stays so.
LEMMA TrackedGoesOn ==
    ASSUME BugTypes, NEW row, IsTracked(row), sync'.cmd = sync.cmd, sync'.read = sync.read,
           \A k \in DOMAIN tracker : k \in DOMAIN tracker' /\ Goes(tracker[k], tracker'[k], row)
    PROVE  IsTracked(row)'
<1> DEFINE b == row.bug
           q == sync.read[b].qa
<1>1. Bugs!TakenOver(b)' <=> Bugs!TakenOver(b)
  BY SameRows
<1>2. ASSUME sync.cmd = "x86" PROVE Tracked86(row)'
  <2>1. CASE Bugs!TakenOver(b)
    BY <1>1, <2>1 DEF Tracked86
  <2>2. ASSUME NEW k \in DOMAIN tracker, LedBy(tracker[k], b, q) PROVE Tracked86(row)'
    <3>1. LedBy(tracker'[k], b, q) \/ Bugs!TakenOver(b)
      BY <1>2, <2>2 DEF Goes
    <3>2. k \in DOMAIN tracker' /\ sync'.read[b].qa = q
      OBVIOUS
    <3>3. LedBy(tracker'[k], b, q) => LedBy(tracker[k], b, q)'
      BY <3>2 DEF LedBy
    <3> QED BY <1>1, <3>1, <3>2, <3>3 DEF Tracked86
  <2>3. ASSUME NEW k \in DOMAIN tracker, Loosely(tracker[k], b) PROVE Tracked86(row)'
    <3>1. Loosely(tracker'[k], b) /\ k \in DOMAIN tracker'
      BY <1>2, <2>3 DEF Goes
    <3>2. Loosely(tracker[k], b)'
      BY <3>1 DEF Loosely
    <3> QED BY <3>1, <3>2 DEF Tracked86
  <2>4. Tracked86(row)
    BY <1>2 DEF IsTracked
  <2> QED BY <2>1, <2>2, <2>3, <2>4 DEF Tracked86
<1>3. ASSUME sync.cmd = "arch" PROVE TrackedArch(row)'
  <2>1. sync'.read[b].rpl = sync.read[b].rpl
    OBVIOUS
  <2>2. \A k \in DOMAIN tracker : /\ k \in DOMAIN tracker'
            /\ Filed(tracker'[k], b, row.parent) => Filed(tracker[k], b, row.parent)'
    BY DEF Filed
  <2>3. CASE sync.read[b].rpl
    <3>1. PICK k \in DOMAIN tracker : Filed(tracker[k], b, row.parent)
              /\ tracker[k].marks = BugMarks
      BY <1>3, <2>3 DEF IsTracked, TrackedArch
    <3>2. Filed(tracker'[k], b, row.parent) /\ tracker'[k].marks = BugMarks
      BY <1>3, <3>1 DEF Goes
    <3> QED BY <2>1, <2>2, <2>3, <3>2 DEF TrackedArch, BugMarks
  <2>4. CASE ~sync.read[b].rpl
    <3>1. CASE Bugs!TakenOver(b)
      BY <1>1, <2>1, <2>4, <3>1 DEF TrackedArch
    <3>2. CASE ~Bugs!TakenOver(b)
      <4>1. PICK k \in DOMAIN tracker : Filed(tracker[k], b, row.parent)
        BY <1>3, <2>4, <3>2 DEF IsTracked, TrackedArch
      <4>2. Filed(tracker'[k], b, row.parent)
        BY <1>3, <2>4, <3>2, <4>1 DEF Goes
      <4> QED BY <2>1, <2>2, <2>4, <4>2 DEF TrackedArch
    <3> QED BY <3>1, <3>2
  <2> QED BY <2>3, <2>4
<1> QED BY <1>2, <1>3 DEF IsTracked

\* An issue keeps its parent, and who closes one does not open it again.
IssuesKept ==
    /\ tracker' \in Seq(BugIssue) /\ DOMAIN tracker \subseteq DOMAIN tracker'
    /\ \A k \in DOMAIN tracker : /\ tracker'[k].parent = tracker[k].parent
                                 /\ tracker'[k].open => tracker[k].open

\* The run goes on in its stage.
InStage ==
    /\ DOMAIN sync' = SyncFields /\ sync'.at = sync.at /\ sync'.cmd = sync.cmd
    /\ sync'.stage = sync.stage /\ sync'.read = sync.read /\ sync'.base = sync.base
    /\ DOMAIN sync'.found = DOMAIN sync.found /\ sync'.left \subseteq sync.left

\* Then it has what it had searched.
LEMMA SearchGoesOn ==
    ASSUME BugTypes, SearchInv, IssuesKept, InStage, bugs' \in [TrackedBug -> Bugs!Entry]
    PROVE  BugTypes' /\ SearchInv'
<1>1. BugTypes'
  BY DEF BugTypes, IssuesKept, InStage
<1>2. Asked' = Asked /\ RowsOf(sync.stage)' = RowsOf(sync.stage)
  BY DEF Asked, RowsOf, InStage
<1>3. ASSUME sync'.at = "rows" PROVE SearchInv'
  <2>1. sync.at = "rows" /\ sync.base \in Nat /\ sync.base <= Len(tracker)
    BY <1>3 DEF InStage, SearchInv
  <2>2. Len(tracker) <= Len(tracker') /\ DOMAIN tracker = 1..Len(tracker)
    <3>1. /\ DOMAIN tracker = 1..Len(tracker) /\ DOMAIN tracker' = 1..Len(tracker')
          /\ Len(tracker) \in Nat /\ Len(tracker') \in Nat
      BY DEF BugTypes, IssuesKept
    <3> QED BY <3>1 DEF IssuesKept
  <2>3. sync'.base <= Len(tracker')
    <3>1. Len(tracker) \in Nat /\ Len(tracker') \in Nat
      BY DEF BugTypes, IssuesKept
    <3> QED BY <2>1, <2>2, <3>1 DEF InStage
  <2>4. ASSUME NEW k \in 1..sync.base, k \in Bugs!Below(Asked)'
        PROVE  k \in DOMAIN sync.found
    <3>1. k \in DOMAIN tracker
      BY <2>1, <2>2 DEF BugTypes
    <3>2. tracker'[k].open /\ tracker'[k].parent \in Asked
      BY <1>2, <2>4 DEF Bugs!Below
    <3>3. k \in Bugs!Below(Asked)
      BY <3>1, <3>2 DEF IssuesKept, Bugs!Below
    <3> QED BY <2>1, <3>3 DEF SearchInv
  <2>5. DOMAIN sync'.found \subseteq 1..sync.base /\ sync'.left \subseteq RowsOf(sync.stage)
    BY <2>1 DEF InStage, SearchInv
  <2>6. sync'.left \subseteq RowsOf(sync.stage)'
    BY <1>2, <2>5
  <2> QED BY <2>1, <2>3, <2>4, <2>5, <2>6 DEF SearchInv, InStage
<1>4. sync'.at # "rows" => SearchInv'
  BY DEF SearchInv
<1> QED BY <1>1, <1>3, <1>4

\* What a step that is done with a row has to show.
LEMMA HandleKeeps ==
    ASSUME Bugs!BugAssumption, BugInv, IssuesKept, InStage, bugs' = bugs, sync.at = "rows",
           sync'.ok = sync.ok,
           NEW row \in sync.left, sync'.left = sync.left \ {row},
           sync.ok => /\ \A k \in DOMAIN sync.found : FoundAsIs(k)'
                      /\ row.parent # Bugs!Unlisted => IsTracked(row)'
                      /\ \A s \in DOMAIN Bugs!Parents(sync.cmd) : \A other \in RowsOf(s) :
                             other.parent # Bugs!Unlisted =>
                             \A k \in DOMAIN tracker : Goes(tracker[k], tracker'[k], other)
    PROVE  BugInv'
<1>1. BugTypes' /\ SearchInv'
  BY SearchGoesOn DEF BugInv, BugTypes
<1>2. FreshInv'
  BY DEF FreshInv, InStage
<1>3. HandledInv'
  <2> SUFFICES ASSUME sync.ok, NEW s \in DOMAIN Bugs!Parents(sync.cmd), NEW other \in RowsOf(s),
                      Handled(s, other)', other.parent # Bugs!Unlisted
               PROVE  IsTracked(other)'
    <3>1. \A t : RowsOf(t)' = RowsOf(t)
      BY SameRows DEF InStage
    <3> QED BY <3>1 DEF HandledInv, InStage
  <2>1. CASE other = row
    BY <2>1
  <2>2. CASE other # row
    <3>1. Handled(s, other)
      <4>1. sync'.stage = sync.stage /\ sync'.at = "rows" /\ sync'.left = sync.left \ {row}
        BY DEF InStage
      <4> HIDE DEF InStage
      <4>2. (s < sync'.stage) \/ (s = sync'.stage /\ other \notin sync'.left)
        BY <4>1 DEF Handled
      <4> QED BY <2>2, <4>1, <4>2 DEF Handled
    <3>2. IsTracked(other)
      BY <3>1 DEF BugInv, HandledInv
    <3>3. \A k \in DOMAIN tracker : k \in DOMAIN tracker' /\ Goes(tracker[k], tracker'[k], other)
      BY DEF IssuesKept
    <3> QED BY <3>2, <3>3, TrackedGoesOn DEF InStage, BugInv
  <2> QED BY <2>1, <2>2
<1> QED BY <1>1, <1>2, <1>3 DEF BugInv

\* A step with errors, or of people, leaves what was searched.
LEMMA TroubleKeeps ==
    ASSUME BugInv, IssuesKept, InStage, bugs' \in [TrackedBug -> Bugs!Entry], ~sync'.ok
    PROVE  BugInv'
<1>1. BugTypes' /\ SearchInv'
  BY SearchGoesOn DEF BugInv
<1>2. FreshInv' /\ HandledInv'
  BY DEF FreshInv, HandledInv
<1> QED BY <1>1, <1>2 DEF BugInv

\* As does one that ends the run with an error.
LEMMA SyncFailKeeps ==
    ASSUME BugInv, IssuesKept, bugs' = bugs, NEW n, Bugs!Raise(n)
    PROVE  BugInv'
<1>1. /\ DOMAIN sync' = SyncFields /\ sync'.at = "raised" /\ sync'.cmd = sync.cmd
      /\ sync'.stage = sync.stage /\ sync'.read = sync.read
  BY DEF Bugs!Raise, BugInv, BugTypes, SyncFields
<1>2. BugTypes'
  BY <1>1 DEF BugInv, BugTypes, IssuesKept
<1> QED BY <1>1, <1>2 DEF BugInv, SearchInv, FreshInv, HandledInv

\* Issues that are left alone are kept, and one that changes its text or its people.
LEMMA OneIssueKept ==
    ASSUME BugTypes
    PROVE  /\ tracker' = tracker => IssuesKept
           /\ \A w \in BugIssue : tracker' = Append(tracker, w) =>
                  /\ IssuesKept /\ \A k \in DOMAIN tracker : tracker'[k] = tracker[k]
                  /\ Len(tracker) + 1 \in DOMAIN tracker' /\ tracker'[Len(tracker) + 1] = w
           /\ \A k \in DOMAIN tracker, w \in BugIssue :
                  /\ tracker' = [tracker EXCEPT ![k] = w]
                  /\ w.parent = tracker[k].parent /\ (w.open => tracker[k].open)
                  => /\ IssuesKept /\ tracker'[k] = w /\ DOMAIN tracker' = DOMAIN tracker
                     /\ \A l \in DOMAIN tracker \ {k} : tracker'[l] = tracker[l]
<1>1. tracker \in Seq(BugIssue) /\ DOMAIN tracker = 1..Len(tracker) /\ Len(tracker) \in Nat
  BY DEF BugTypes
<1>2. tracker' = tracker => IssuesKept
  BY <1>1 DEF IssuesKept
<1>3. ASSUME NEW w \in BugIssue, tracker' = Append(tracker, w)
      PROVE  /\ IssuesKept /\ \A k \in DOMAIN tracker : tracker'[k] = tracker[k]
             /\ Len(tracker) + 1 \in DOMAIN tracker' /\ tracker'[Len(tracker) + 1] = w
  BY <1>1, <1>3 DEF IssuesKept
<1>4. ASSUME NEW k \in DOMAIN tracker, NEW w \in BugIssue,
             tracker' = [tracker EXCEPT ![k] = w],
             w.parent = tracker[k].parent, w.open => tracker[k].open
      PROVE  /\ IssuesKept /\ tracker'[k] = w /\ DOMAIN tracker' = DOMAIN tracker
             /\ \A l \in DOMAIN tracker \ {k} : tracker'[l] = tracker[l]
  <2>1. tracker' \in Seq(BugIssue)
    BY <1>1, <1>4, ExceptSeq
  <2> QED BY <1>1, <1>4, <2>1 DEF IssuesKept
<1> QED BY <1>2, <1>3, <1>4

\* The fields of a run that is done with a row.
LEMMA DoneFields ==
    ASSUME BugTypes, NEW row, NEW found, Bugs!Done(row, found)
    PROVE  /\ sync'.left = sync.left \ {row} /\ sync'.found = found /\ sync'.ok = sync.ok
           /\ DOMAIN found = DOMAIN sync.found => InStage
  BY DEF Bugs!Done, BugTypes, SyncFields, InStage

\* A failure keeps the invariant, whatever was sent before.
LEMMA FailKeeps ==
    ASSUME BugInv, IssuesKept, bugs' = bugs, NEW row, Bugs!Fail(row)
    PROVE  BugInv'
<1>1. CASE sync.cmd = "arch"
  BY <1>1, SyncFailKeeps DEF Bugs!Fail
<1>2. CASE sync.cmd # "arch"
  <2>1. InStage /\ ~sync'.ok
    BY <1>2, ZenonT(60) DEF Bugs!Fail, BugInv, BugTypes, SyncFields, InStage
  <2> QED BY <2>1, TroubleKeeps DEF BugInv, BugTypes
<1> QED BY <1>1, <1>2

\* What a step knows of its row.
LEMMA RowAtHand ==
    ASSUME Bugs!BugAssumption, BugInv, NEW row, Bugs!IsRow(row)
    PROVE  /\ sync.at = "rows" /\ row \in sync.left /\ row \in RowsOf(sync.stage)
           /\ row.bug \in TrackedBug /\ sync.read[row.bug].qa \in Contact
           /\ row.bug \in NumbersIn[row.bug]
           /\ row.parent # Bugs!Unlisted =>
                  row.parent \in Asked /\ row.parent \in BugParents /\ row \in Bugs!Listed
           /\ sync.cmd = "arch" => Asked = {row.parent} /\ row.parent # Bugs!Unlisted
<1>1. sync.at = "rows" /\ row \in sync.left /\ row \in RowsOf(sync.stage)
  BY DEF Bugs!IsRow, BugInv, SearchInv
<1>2. /\ sync.cmd \in {"x86", "arch"} /\ sync.stage \in DOMAIN Bugs!Parents(sync.cmd)
      /\ sync.read \in [TrackedBug -> Bugs!Entry]
  BY DEF BugInv, BugTypes
<1>3. /\ row.bug \in TrackedBug /\ sync.read[row.bug].qa \in Contact
      /\ row.parent # Bugs!Unlisted => row.parent \in Asked
      /\ sync.cmd = "arch" => Asked = {row.parent} /\ row.parent # Bugs!Unlisted
  BY <1>1, <1>2, RowsOfBugs DEF RowsOf, Asked
<1>4. Asked \subseteq BugParents
  BY <1>2, ParentsOfStage DEF Asked
<1>5. row.parent # Bugs!Unlisted => row \in Bugs!Listed
  BY <1>1, <1>2 DEF RowsOf, Bugs!Listed, Bugs!Stages
<1>6. row.bug \in NumbersIn[row.bug]
  BY <1>3 DEF Bugs!BugAssumption
<1> QED BY <1>1, <1>3, <1>4, <1>5, <1>6

\* A row that needs nothing, or whose issue is left alone.
LEMMA LeftAloneKeeps ==
    ASSUME Bugs!BugAssumption, BugInv, UNCHANGED <<bugs, tracker>>, NEW row, Bugs!IsRow(row),
           Bugs!Done(row, sync.found),
           sync.ok /\ row.parent # Bugs!Unlisted => IsTracked(row)
    PROVE  BugInv'
<1>1. BugTypes /\ IssuesKept /\ sync.at = "rows" /\ row \in sync.left
  BY OneIssueKept, RowAtHand DEF BugInv
<1>2. /\ sync'.left = sync.left \ {row} /\ sync'.found = sync.found /\ sync'.ok = sync.ok
      /\ InStage
  BY <1>1, DoneFields
<1>3. ASSUME sync.ok, NEW k \in DOMAIN sync.found PROVE FoundAsIs(k)'
  <2>1. FoundAsIs(k)
    BY <1>1, <1>3 DEF BugInv, FreshInv
  <2>2. Asked' = Asked
    BY <1>2 DEF Asked, InStage
  <2> QED BY <1>2, <2>1, <2>2 DEF FoundAsIs
<1>4. ASSUME NEW other, NEW k \in DOMAIN tracker PROVE Goes(tracker[k], tracker'[k], other)
  BY DEF Goes
<1>5. ASSUME sync.ok, row.parent # Bugs!Unlisted PROVE IsTracked(row)'
  <2>1. \A k \in DOMAIN tracker : k \in DOMAIN tracker' /\ Goes(tracker[k], tracker'[k], row)
    BY <1>4
  <2>2. IsTracked(row)
    BY <1>5
  <2> QED BY <1>1, <1>2, <2>1, <2>2, TrackedGoesOn DEF InStage
<1> QED BY <1>1, <1>2, <1>3, <1>4, <1>5, HandleKeeps

\* A new issue tracks its bug.
LEMMA CreateKeeps ==
    ASSUME Bugs!BugAssumption, BugInv, NEW row, Bugs!Create(row)
    PROVE  BugInv'
<1> DEFINE new == Bugs!NewIssue(row)
           w   == IF sync.cmd = "x86" THEN Bugs!Watched(new) ELSE new
<1>1. Bugs!IsRow(row) /\ row.parent # Bugs!Unlisted /\ bugs' = bugs
  BY DEF Bugs!Create
<1>2. /\ sync.at = "rows" /\ row \in sync.left /\ row.bug \in TrackedBug
      /\ row.parent \in Asked /\ row.parent \in BugParents /\ row \in Bugs!Listed
      /\ row.bug \in NumbersIn[row.bug]
  BY <1>1, RowAtHand
<1>3. /\ new \in BugIssue /\ new.open /\ new.parent = row.parent /\ new.about = row.bug
      /\ new.assignee = sync.read[row.bug].qa /\ new.assignee \in Contact
      /\ sync.cmd = "arch" /\ sync.read[row.bug].rpl => new.marks = BugMarks
  BY <1>2, NewIssues DEF BugInv
<1> HIDE DEF new
<1>4. /\ w \in BugIssue /\ w.open /\ w.parent = row.parent /\ w.about = row.bug
      /\ w.assignee = sync.read[row.bug].qa
      /\ sync.cmd = "arch" /\ sync.read[row.bug].rpl => w.marks = BugMarks
      /\ sync.cmd = "x86" =>
             LeadOf[w.assignee] = NoContact \/ LeadOf[w.assignee] \in w.watchers
  <2>1. CASE sync.cmd = "x86"
    BY <1>3, <2>1, WatchedIssues
  <2>2. CASE sync.cmd # "x86"
    BY <1>3, <2>2
  <2> QED BY <2>1, <2>2
<1>5. \/ tracker' = Append(tracker, w) /\ Bugs!Done(row, sync.found)
      \/ Bugs!Fail(row) /\ (tracker' = tracker \/ tracker' = Append(tracker, new))
  BY DEF Bugs!Create, new, w
<1> HIDE DEF w
<1>6. CASE Bugs!Fail(row) /\ (tracker' = tracker \/ tracker' = Append(tracker, new))
  <2>1. IssuesKept
    BY <1>3, <1>6, OneIssueKept DEF BugInv
  <2> QED BY <1>1, <1>6, <2>1, FailKeeps
<1>7. CASE tracker' = Append(tracker, w) /\ Bugs!Done(row, sync.found)
  <2>1. /\ sync'.left = sync.left \ {row} /\ sync'.found = sync.found /\ sync'.ok = sync.ok
        /\ InStage
    BY <1>7, DoneFields DEF BugInv
  <2>2. /\ IssuesKept /\ \A k \in DOMAIN tracker : tracker'[k] = tracker[k]
        /\ Len(tracker) + 1 \in DOMAIN tracker' /\ tracker'[Len(tracker) + 1] = w
    BY <1>4, <1>7, OneIssueKept DEF BugInv
  <2>3. ASSUME sync.ok, NEW k \in DOMAIN sync.found PROVE FoundAsIs(k)'
    <3>1. FoundAsIs(k)
      BY <1>2, <2>3 DEF BugInv, FreshInv
    <3>2. Asked' = Asked
      BY <2>1 DEF Asked, InStage
    <3>3. k \in DOMAIN tracker
      <4>1. /\ DOMAIN sync.found \subseteq 1..sync.base /\ sync.base \in Nat
            /\ sync.base <= Len(tracker)
        BY <1>2 DEF BugInv, SearchInv
      <4>2. DOMAIN tracker = 1..Len(tracker) /\ Len(tracker) \in Nat
        BY DEF BugInv, BugTypes
      <4> QED BY <4>1, <4>2
    <3> QED BY <2>1, <2>2, <3>1, <3>2, <3>3 DEF FoundAsIs
  <2>4. ASSUME NEW other, NEW k \in DOMAIN tracker PROVE Goes(tracker[k], tracker'[k], other)
    BY <2>2 DEF Goes
  <2>5. IsTracked(row)'
    <3>1. /\ sync'.cmd = sync.cmd /\ sync'.read = sync.read
      BY <2>1 DEF InStage
    <3>2. PICK n : n = Len(tracker) + 1
      OBVIOUS
    <3>3. n \in DOMAIN tracker' /\ tracker'[n] = w
      BY <2>2, <3>2
    <3>4. sync.cmd = "x86" => LedBy(tracker[n], row.bug, sync.read[row.bug].qa)'
      BY <1>4, <3>1, <3>3 DEF LedBy
    <3>5. sync.cmd = "arch" => Filed(tracker[n], row.bug, row.parent)'
      BY <1>2, <1>4, <3>3 DEF Filed
    <3>6. sync.cmd = "arch" /\ sync.read[row.bug].rpl => tracker'[n].marks = BugMarks
      BY <1>4, <3>3
    <3>7. sync.cmd = "x86" => Tracked86(row)'
      BY <3>3, <3>4 DEF Tracked86
    <3>8. sync.cmd = "arch" => TrackedArch(row)'
      BY <3>1, <3>3, <3>5, <3>6 DEF TrackedArch, BugMarks
    <3> QED BY <3>1, <3>7, <3>8 DEF IsTracked
  <2> QED BY <1>1, <1>2, <2>1, <2>2, <2>3, <2>4, <2>5, HandleKeeps
<1> QED BY <1>5, <1>6, <1>7

\* An update keeps the parent of its issue; with the assignee that was read, it is the
\* bug's from then on, and others lose it only if they are taken over.
LEMMA UpdateKeeps ==
    ASSUME Bugs!BugAssumption, BugInv, NEW row, Bugs!Update(row)
    PROVE  BugInv'
<1> DEFINE k      == Bugs!Match(row.bug)
           q      == sync.read[row.bug].qa
           taken  == IF \/ tracker[k].about # row.bug \/ sync.found[k] # q
                     THEN Bugs!Taken(tracker[k], row.bug) ELSE tracker[k]
           looked == [taken EXCEPT !.assignee = q]
           lead   == Bugs!Watched(looked).watchers
           w      == [taken EXCEPT !.watchers = lead]
<1>1. /\ Bugs!IsRow(row) /\ row.parent # Bugs!Unlisted /\ Bugs!Matches(row.bug) # {}
      /\ sync.cmd = "x86" /\ bugs' = bugs
  BY DEF Bugs!Update
<1>2. \/ sync.found[k] = NoContact /\ Bugs!Done(row, sync.found) /\ tracker' = tracker
      \/ /\ sync.found[k] # NoContact /\ tracker' = [tracker EXCEPT ![k] = w]
         /\ Bugs!Done(row, [sync.found EXCEPT ![k] = q])
      \/ /\ \E i \in {tracker[k], taken} : tracker' = [tracker EXCEPT ![k] = i]
         /\ Bugs!Fail(row)
  BY DEF Bugs!Update
<1>3. /\ sync.at = "rows" /\ row \in sync.left /\ row.bug \in TrackedBug /\ q \in Contact
      /\ row \in Bugs!Listed /\ row.bug \in NumbersIn[row.bug]
  BY <1>1, RowAtHand
<1>4. k \in DOMAIN sync.found /\ k \in DOMAIN tracker /\ row.bug \in NumbersIn[tracker[k].about]
  BY <1>1, <1>3, MatchIsOne DEF BugInv
<1> HIDE DEF k
<1>5. tracker[k] \in BugIssue /\ BugTypes
  BY <1>4 DEF BugInv, BugTypes
<1>6. /\ taken \in BugIssue /\ taken.open = tracker[k].open /\ taken.parent = tracker[k].parent
      /\ \/ tracker[k].about = row.bug /\ sync.found[k] = q /\ taken = tracker[k]
         \/ taken.about = row.bug /\ taken.assignee = q
  <2>1. /\ Bugs!Taken(tracker[k], row.bug) \in BugIssue
        /\ Bugs!Taken(tracker[k], row.bug).open = tracker[k].open
        /\ Bugs!Taken(tracker[k], row.bug).parent = tracker[k].parent
        /\ Bugs!Taken(tracker[k], row.bug).about = row.bug
        /\ Bugs!Taken(tracker[k], row.bug).assignee = q
    BY <1>3, <1>5, TakenIssues
  <2> QED BY <1>5, <2>1
<1> HIDE DEF taken
<1>7. /\ lead \in SUBSET Contact
      /\ LeadOf[q] = NoContact \/ LeadOf[q] \in lead
  <2>1. looked \in BugIssue /\ looked.assignee = q
    BY <1>3, <1>6 DEF BugIssue
  <2> HIDE DEF looked
  <2> QED BY <1>3, <2>1, WatchedIssues
<1> HIDE DEF lead
<1>8. /\ w \in BugIssue /\ w.open = tracker[k].open /\ w.parent = tracker[k].parent
      /\ w.about = taken.about /\ w.assignee = taken.assignee /\ w.watchers = lead
  BY <1>6, <1>7 DEF BugIssue
<1> HIDE DEF w, q
<1>9. CASE sync.found[k] = NoContact /\ Bugs!Done(row, sync.found) /\ tracker' = tracker
  <2>1. ASSUME sync.ok PROVE Loosely(tracker[k], row.bug)
    BY <1>3, <1>4, <1>9, <2>1 DEF BugInv, FreshInv, FoundAsIs, Loosely
  <2>2. sync.ok => IsTracked(row)
    BY <1>1, <1>4, <2>1 DEF IsTracked, Tracked86
  <2> QED BY <1>1, <1>9, <2>2, LeftAloneKeeps
<1>10. CASE /\ sync.found[k] # NoContact /\ tracker' = [tracker EXCEPT ![k] = w]
            /\ Bugs!Done(row, [sync.found EXCEPT ![k] = q])
  <2>1. /\ sync'.left = sync.left \ {row} /\ sync'.found = [sync.found EXCEPT ![k] = q]
        /\ sync'.ok = sync.ok /\ InStage
    BY <1>5, <1>10, DoneFields
  <2>2. /\ IssuesKept /\ tracker'[k] = w /\ DOMAIN tracker' = DOMAIN tracker
        /\ \A l \in DOMAIN tracker \ {k} : tracker'[l] = tracker[l]
    BY <1>4, <1>5, <1>8, <1>10, OneIssueKept
  <2>3. ASSUME sync.ok
        PROVE  /\ w.about = row.bug /\ w.assignee = q /\ w.open /\ FoundAsIs(k)
               /\ tracker[k].assignee # NoContact
    <3>1. FoundAsIs(k)
      BY <1>3, <1>4, <2>3 DEF BugInv, FreshInv
    <3>2. tracker[k].open /\ sync.found[k] = tracker[k].assignee
      BY <3>1 DEF FoundAsIs
    <3> QED BY <1>6, <1>8, <1>10, <3>1, <3>2
  <2>4. ASSUME sync.ok, NEW l \in DOMAIN sync.found PROVE FoundAsIs(l)'
    <3>1. FoundAsIs(l) /\ Asked' = Asked
      BY <1>3, <2>1, <2>4 DEF BugInv, FreshInv, Asked, InStage
    <3>2. l \in DOMAIN tracker
      <4>1. /\ DOMAIN sync.found \subseteq 1..sync.base /\ sync.base \in Nat
            /\ sync.base <= Len(tracker)
        BY <1>3 DEF BugInv, SearchInv
      <4>2. DOMAIN tracker = 1..Len(tracker) /\ Len(tracker) \in Nat
        BY DEF BugInv, BugTypes
      <4> QED BY <4>1, <4>2
    <3>3. CASE l = k
      <4>1. sync'.found[k] = q
        BY <1>4, <2>1
      <4> QED BY <1>8, <2>2, <2>3, <2>4, <3>1, <3>3, <4>1 DEF FoundAsIs
    <3>4. CASE l # k
      <4>1. sync'.found[l] = sync.found[l]
        BY <2>1, <3>4
      <4> QED BY <2>2, <3>1, <3>2, <3>4, <4>1 DEF FoundAsIs
    <3> QED BY <3>3, <3>4
  <2>5. ASSUME sync.ok PROVE LedBy(w, row.bug, q)
    BY <1>7, <1>8, <2>3, <2>5 DEF LedBy
  <2>6. ASSUME sync.ok, NEW other, NEW l \in DOMAIN tracker
        PROVE  Goes(tracker[l], tracker'[l], other)
    <3>1. CASE l # k
      BY <2>2, <3>1 DEF Goes
    <3>2. CASE l = k /\ other.bug = row.bug
      <4>1. ~Loosely(tracker[k], other.bug)
        BY <2>3, <2>6 DEF Loosely
      <4>2. LedBy(tracker'[k], other.bug, sync.read[other.bug].qa)
        BY <2>2, <2>5, <2>6, <3>2 DEF q
      <4> QED BY <1>1, <3>2, <4>1, <4>2 DEF Goes
    <3>3. CASE l = k /\ other.bug # row.bug
      <4>1. ~Loosely(tracker[k], other.bug)
        BY <2>3, <2>6 DEF Loosely
      <4>2. tracker[k].about = other.bug => Bugs!TakenOver(other.bug)
        BY <1>1, <1>3, <1>4, <3>3 DEF Bugs!TakenOver
      <4> QED BY <1>1, <3>3, <4>1, <4>2 DEF Goes, LedBy
    <3> QED BY <3>1, <3>2, <3>3
  <2>7. ASSUME sync.ok PROVE IsTracked(row)'
    <3>1. sync'.cmd = sync.cmd /\ sync'.read = sync.read
      BY <2>1 DEF InStage
    <3>2. PICK n : n = k
      OBVIOUS
    <3>3. LedBy(tracker[n], row.bug, sync.read[row.bug].qa)'
      BY <2>2, <2>5, <2>7, <3>1, <3>2 DEF LedBy, q
    <3>4. n \in DOMAIN tracker'
      BY <1>4, <2>2, <3>2
    <3> QED BY <1>1, <3>1, <3>3, <3>4 DEF IsTracked, Tracked86
  <2> QED BY <1>1, <1>3, <2>1, <2>2, <2>4, <2>6, <2>7, HandleKeeps
<1>11. CASE /\ \E i \in {tracker[k], taken} : tracker' = [tracker EXCEPT ![k] = i]
            /\ Bugs!Fail(row)
  <2>1. IssuesKept
    BY <1>4, <1>5, <1>6, <1>11, OneIssueKept
  <2> QED BY <1>1, <1>11, <2>1, FailKeeps
<1> QED BY <1>2, <1>9, <1>10, <1>11

\* Marks are added to the issue that has the bug's number, which takes it over unless
\* its summary had the mark.
LEMMA MarkKeeps ==
    ASSUME Bugs!BugAssumption, BugInv, NEW row, Bugs!Mark(row)
    PROVE  BugInv'
<1> DEFINE k == Bugs!Match(row.bug)
           w == Bugs!Marked(tracker[k], row.bug, 3)
<1>1. /\ Bugs!IsRow(row) /\ Bugs!Matches(row.bug) # {} /\ sync.cmd = "arch" /\ bugs' = bugs
  BY DEF Bugs!Mark
<1>2. /\ sync.at = "rows" /\ row \in sync.left /\ row.bug \in TrackedBug
      /\ row \in Bugs!Listed /\ row.bug \in NumbersIn[row.bug] /\ Asked = {row.parent}
  BY <1>1, RowAtHand
<1>3. k \in DOMAIN sync.found /\ k \in DOMAIN tracker /\ row.bug \in NumbersIn[tracker[k].about]
  BY <1>1, <1>2, MatchIsOne DEF BugInv
<1>4. tracker[k] \in BugIssue /\ BugTypes
  BY <1>3 DEF BugInv, BugTypes
<1>5. \/ ~sync.read[row.bug].rpl /\ tracker' = tracker /\ Bugs!Done(row, sync.found)
      \/ /\ sync.read[row.bug].rpl /\ tracker' = [tracker EXCEPT ![k] = w]
         /\ Bugs!Done(row, sync.found)
      \/ /\ \E n \in 0..3 : tracker' = [tracker EXCEPT ![k] = Bugs!Marked(tracker[k], row.bug, n)]
         /\ Bugs!Fail(row)
  <2>1. \A m \in DOMAIN Bugs!Marks : m - 1 \in 0..3
    BY StagesOfBugs
  <2>2. Len(Bugs!Marks) = 3
    BY StagesOfBugs
  <2> QED BY <1>3, <1>4, <2>1, <2>2 DEF Bugs!Mark
<1> HIDE DEF k
<1>6. /\ w \in BugIssue /\ w.open = tracker[k].open /\ w.parent = tracker[k].parent
      /\ w.about \in {tracker[k].about, row.bug} /\ w.marks = BugMarks
      /\ tracker[k].marks = BugMarks => w.about = tracker[k].about
  <2>1. 3 \in 0..3
    OBVIOUS
  <2> QED BY <1>2, <1>4, <2>1, MarkedIssues
<1> HIDE DEF w
<1>7. ASSUME sync.ok
      PROVE  tracker[k].open /\ tracker[k].parent = row.parent
          /\ sync.found[k] = tracker[k].assignee
  BY <1>2, <1>3, <1>7 DEF BugInv, FreshInv, FoundAsIs
<1>8. CASE ~sync.read[row.bug].rpl /\ tracker' = tracker /\ Bugs!Done(row, sync.found)
  <2>1. sync.ok => Filed(tracker[k], row.bug, row.parent)
    BY <1>3, <1>7 DEF Filed
  <2>2. sync.ok => IsTracked(row)
    BY <1>1, <1>3, <1>8, <2>1 DEF IsTracked, TrackedArch
  <2> QED BY <1>1, <1>8, <2>2, LeftAloneKeeps
<1>9. CASE /\ sync.read[row.bug].rpl /\ tracker' = [tracker EXCEPT ![k] = w]
           /\ Bugs!Done(row, sync.found)
  <2>1. /\ sync'.left = sync.left \ {row} /\ sync'.found = sync.found /\ sync'.ok = sync.ok
        /\ InStage
    BY <1>4, <1>9, DoneFields
  <2>2. /\ IssuesKept /\ tracker'[k] = w /\ DOMAIN tracker' = DOMAIN tracker
        /\ \A l \in DOMAIN tracker \ {k} : tracker'[l] = tracker[l]
    BY <1>3, <1>4, <1>6, <1>9, OneIssueKept
  <2>3. w.assignee = tracker[k].assignee
    BY <1>4 DEF w, Bugs!Marked, BugIssue
  <2>4. ASSUME sync.ok, NEW l \in DOMAIN sync.found PROVE FoundAsIs(l)'
    <3>1. FoundAsIs(l) /\ Asked' = Asked
      BY <1>2, <2>1, <2>4 DEF BugInv, FreshInv, Asked, InStage
    <3>2. l \in DOMAIN tracker
      <4>1. /\ DOMAIN sync.found \subseteq 1..sync.base /\ sync.base \in Nat
            /\ sync.base <= Len(tracker)
        BY <1>2 DEF BugInv, SearchInv
      <4>2. DOMAIN tracker = 1..Len(tracker) /\ Len(tracker) \in Nat
        BY DEF BugInv, BugTypes
      <4> QED BY <4>1, <4>2
    <3>3. CASE l = k
      BY <1>6, <2>1, <2>2, <2>3, <3>1, <3>3 DEF FoundAsIs
    <3>4. CASE l # k
      BY <2>1, <2>2, <3>1, <3>2, <3>4 DEF FoundAsIs
    <3> QED BY <3>3, <3>4
  <2>5. ASSUME sync.ok, NEW s \in DOMAIN Bugs!Parents(sync.cmd), NEW other \in RowsOf(s),
               NEW l \in DOMAIN tracker
        PROVE  Goes(tracker[l], tracker'[l], other)
    <3>1. CASE l # k
      BY <2>2, <3>1 DEF Goes
    <3>2. CASE l = k
      <4> SUFFICES ASSUME Filed(tracker[k], other.bug, other.parent)
                   PROVE  /\ \/ Filed(w, other.bug, other.parent)
                             \/ Bugs!TakenOver(other.bug) \/ sync.read[other.bug].rpl
                          /\ tracker[k].marks = BugMarks => Filed(w, other.bug, other.parent)
        BY <1>1, <1>6, <2>2, <3>2 DEF Goes
      <4>1. w.open /\ w.parent = other.parent
        BY <1>6 DEF Filed
      <4>2. tracker[k].marks = BugMarks => Filed(w, other.bug, other.parent)
        BY <1>6, <4>1 DEF Filed
      <4>3. CASE other.bug \in NumbersIn[w.about]
        BY <4>1, <4>2, <4>3 DEF Filed
      <4>4. CASE other.bug \notin NumbersIn[w.about]
        <5>1. w.about = row.bug /\ other.bug \in NumbersIn[tracker[k].about]
          BY <1>6, <4>4 DEF Filed
        <5>2. row.bug # other.bug /\ {other.bug, row.bug} \subseteq NumbersIn[tracker[k].about]
          BY <1>2, <1>3, <4>4, <5>1
        <5>3. tracker[k].about \in TrackedBug
          BY <1>4 DEF BugIssue
        <5>4. Bugs!TakenOver(other.bug)
          BY <1>1, <1>2, <1>9, <4>4, <5>1, <5>2, <5>3 DEF Bugs!TakenOver
        <5> QED BY <4>2, <5>4
      <4> QED BY <4>3, <4>4
    <3> QED BY <3>1, <3>2
  <2>6. ASSUME sync.ok PROVE IsTracked(row)'
    <3>1. sync'.cmd = sync.cmd /\ sync'.read = sync.read
      BY <2>1 DEF InStage
    <3>2. PICK n : n = k
      OBVIOUS
    <3>3. n \in DOMAIN tracker' /\ Filed(tracker[n], row.bug, row.parent)'
      BY <1>2, <1>3, <1>6, <1>7, <2>2, <2>6, <3>2 DEF Filed
    <3>4. tracker'[n].marks = BugMarks
      BY <1>6, <2>2, <3>2
    <3>5. TrackedArch(row)'
      BY <1>9, <3>1, <3>3, <3>4 DEF TrackedArch, BugMarks
    <3> QED BY <1>1, <3>1, <3>5 DEF IsTracked
  <2> QED BY <1>1, <1>2, <2>1, <2>2, <2>4, <2>5, <2>6, HandleKeeps
<1>10. CASE /\ \E n \in 0..3 :
                   tracker' = [tracker EXCEPT ![k] = Bugs!Marked(tracker[k], row.bug, n)]
            /\ Bugs!Fail(row)
  <2>1. PICK n \in 0..3 : tracker' = [tracker EXCEPT ![k] = Bugs!Marked(tracker[k], row.bug, n)]
    BY <1>10
  <2>2. PICK v : v = Bugs!Marked(tracker[k], row.bug, n)
    OBVIOUS
  <2>3. v \in BugIssue /\ v.open = tracker[k].open /\ v.parent = tracker[k].parent
    BY <1>2, <1>4, <2>2, MarkedIssues
  <2>4. IssuesKept
    BY <1>3, <1>4, <2>1, <2>2, <2>3, OneIssueKept
  <2> QED BY <1>1, <1>10, <2>4, FailKeeps
<1> QED BY <1>5, <1>8, <1>9, <1>10

\* A run begins with nothing handled; what a stage finds is as it is, and a stage ends
\* with all its rows handled.
LEMMA FindKeeps ==
    ASSUME Bugs!BugAssumption, BugInv,
           (\E c \in BugCommands : Bugs!Begin(c)) \/ Bugs!Search \/ Bugs!EndStage
    PROVE  BugInv'
<1>1. UNCHANGED <<bugs, tracker>>
  BY DEF Bugs!Begin, Bugs!Search, Bugs!EndStage
<1>2. BugTypes /\ DOMAIN sync = SyncFields /\ IssuesKept
  BY <1>1, OneIssueKept DEF BugInv, BugTypes
<1>3. ASSUME NEW c \in BugCommands, Bugs!Begin(c) PROVE BugInv'
  <2>1. /\ DOMAIN sync' = SyncFields /\ sync'.at = "search" /\ sync'.cmd = c /\ sync'.stage = 1
        /\ sync'.read = bugs
    BY <1>2, <1>3 DEF Bugs!Begin, SyncFields
  <2>2. c \in {"x86", "arch"}
    BY DEF Bugs!BugAssumption
  <2>3. 1 \in DOMAIN Bugs!Parents(c)
    BY <2>2, StagesOfBugs
  <2>4. BugTypes'
    BY <1>1, <1>2, <2>1, <2>2, <2>3 DEF BugTypes
  <2>5. SearchInv' /\ FreshInv'
    BY <2>1 DEF SearchInv, FreshInv
  <2>6. ASSUME NEW s \in DOMAIN Bugs!Parents(c), NEW row PROVE ~Handled(s, row)'
    <3>1. s \in {1, 2}
      BY <2>2, StagesOfBugs
    <3> QED BY <2>1, <3>1 DEF Handled
  <2>7. HandledInv'
    BY <2>1, <2>6 DEF HandledInv
  <2> QED BY <2>4, <2>5, <2>7 DEF BugInv
<1>4. CASE Bugs!Search
  <2> DEFINE below == Bugs!Below(Asked)
  <2>1. \/ \E n : Bugs!Raise(n)
        \/ /\ sync.at = "search"
           /\ sync' = [sync EXCEPT !.at = "rows", !.found = [k \in below |-> tracker[k].assignee],
                                   !.left = RowsOf(sync.stage), !.base = Len(tracker)]
    BY <1>4 DEF Bugs!Search, RowsOf, Asked
  <2>2. CASE \E n : Bugs!Raise(n)
    BY <1>1, <1>2, <2>2, SyncFailKeeps
  <2>3. CASE /\ sync.at = "search"
             /\ sync' = [sync EXCEPT !.at = "rows", !.found = [k \in below |-> tracker[k].assignee],
                                     !.left = RowsOf(sync.stage), !.base = Len(tracker)]
    <3> DEFINE f == [k \in below |-> tracker[k].assignee]
    <3>1. /\ DOMAIN sync' = SyncFields /\ sync'.at = "rows" /\ sync'.found = f
          /\ sync'.left = RowsOf(sync.stage) /\ sync'.base = Len(tracker)
          /\ sync'.cmd = sync.cmd /\ sync'.stage = sync.stage /\ sync'.read = sync.read
          /\ sync'.ok = sync.ok
      BY <1>2, <2>3 DEF SyncFields
    <3>2. DOMAIN f = below /\ \A k \in below : f[k] = tracker[k].assignee
      OBVIOUS
    <3> HIDE DEF f
    <3>3. below \subseteq 1..Len(tracker) /\ Len(tracker) \in Nat
      BY <1>2 DEF Bugs!Below, BugTypes
    <3>4. Asked' = Asked /\ RowsOf(sync.stage)' = RowsOf(sync.stage) /\ Bugs!Below(Asked)' = below
      BY <1>1, <3>1 DEF Asked, RowsOf, Bugs!Below
    <3>5. BugTypes'
      BY <1>1, <1>2, <3>1 DEF BugTypes
    <3>6. SearchInv'
      <4>1. sync'.base \in Nat /\ sync'.base <= Len(tracker')
        BY <1>1, <3>1, <3>3
      <4>2. DOMAIN sync'.found \subseteq 1..sync'.base
        BY <3>1, <3>2, <3>3
      <4>3. \A k : k \in Bugs!Below(Asked)' => k \in DOMAIN sync'.found
        BY <3>1, <3>2, <3>4
      <4>4. sync'.left \subseteq RowsOf(sync.stage)'
        BY <3>1, <3>4
      <4> QED BY <4>1, <4>2, <4>3, <4>4 DEF SearchInv
    <3>7. FreshInv'
      <4> SUFFICES ASSUME NEW k \in below PROVE FoundAsIs(k)'
        BY <3>1, <3>2 DEF FreshInv
      <4>1. tracker[k].open /\ tracker[k].parent \in Asked
        BY DEF Bugs!Below
      <4> QED BY <1>1, <3>1, <3>2, <3>4, <4>1 DEF FoundAsIs
    <3>8. HandledInv'
      <4> SUFFICES ASSUME sync.ok, NEW s \in DOMAIN Bugs!Parents(sync.cmd), NEW row \in RowsOf(s),
                          Handled(s, row)', row.parent # Bugs!Unlisted
                   PROVE  IsTracked(row)'
        <5>1. \A t : RowsOf(t)' = RowsOf(t)
          BY <3>1, SameRows
        <5> QED BY <3>1, <5>1 DEF HandledInv
      <4>1. s < sync.stage
        <5>1. s = sync.stage => row \in RowsOf(sync.stage)
          OBVIOUS
        <5> QED BY <3>1, <5>1 DEF Handled
      <4>2. IsTracked(row)
        BY <2>3, <4>1 DEF BugInv, HandledInv, Handled
      <4>3. \A k \in DOMAIN tracker : k \in DOMAIN tracker' /\ Goes(tracker[k], tracker'[k], row)
        BY <1>1 DEF Goes
      <4> QED BY <1>2, <3>1, <4>2, <4>3, TrackedGoesOn
    <3> QED BY <3>5, <3>6, <3>7, <3>8 DEF BugInv
  <2> QED BY <2>1, <2>2, <2>3
<1>5. CASE Bugs!EndStage
  <2>1. /\ sync.at = "rows" /\ sync.left = {} /\ DOMAIN sync' = SyncFields
        /\ sync'.cmd = sync.cmd /\ sync'.read = sync.read /\ sync'.ok = sync.ok
        /\ \/ /\ sync.stage < Len(Bugs!Parents(sync.cmd)) /\ sync'.at = "search"
              /\ sync'.stage = sync.stage + 1
           \/ /\ ~(sync.stage < Len(Bugs!Parents(sync.cmd))) /\ sync'.at = "done"
              /\ sync'.stage = sync.stage
    BY <1>2, <1>5 DEF Bugs!EndStage, SyncFields
  <2>2. sync.cmd \in {"x86", "arch"} /\ sync.stage \in DOMAIN Bugs!Parents(sync.cmd)
    BY <1>2 DEF BugTypes
  <2>3. sync'.stage \in DOMAIN Bugs!Parents(sync.cmd)
    BY <2>1, <2>2, StagesOfBugs
  <2>4. BugTypes'
    BY <1>1, <1>2, <2>1, <2>3 DEF BugTypes
  <2>5. SearchInv' /\ FreshInv'
    BY <2>1 DEF SearchInv, FreshInv
  <2>6. ASSUME NEW s \in DOMAIN Bugs!Parents(sync.cmd), NEW row, Handled(s, row)'
        PROVE  Handled(s, row)
    <3>1. s \in {1, 2} /\ sync.stage \in {1, 2}
          /\ (Len(Bugs!Parents(sync.cmd)) = 1 => s = 1)
          /\ (Len(Bugs!Parents(sync.cmd)) = 1 \/ Len(Bugs!Parents(sync.cmd)) = 2)
      BY <2>2, StagesOfBugs
    <3>2. s <= sync.stage
      BY <2>1, <2>6, <3>1 DEF Handled
    <3> QED BY <2>1, <3>1, <3>2 DEF Handled
  <2>7. HandledInv'
    <3> SUFFICES ASSUME sync.ok, NEW s \in DOMAIN Bugs!Parents(sync.cmd), NEW row \in RowsOf(s),
                        Handled(s, row)', row.parent # Bugs!Unlisted
                 PROVE  IsTracked(row)'
      <4>1. \A t : RowsOf(t)' = RowsOf(t)
        BY <2>1, SameRows
      <4> QED BY <2>1, <4>1 DEF HandledInv
    <3>1. IsTracked(row)
      BY <2>1, <2>6 DEF BugInv, HandledInv
    <3>2. \A k \in DOMAIN tracker : k \in DOMAIN tracker' /\ Goes(tracker[k], tracker'[k], row)
      BY <1>1 DEF Goes
    <3> QED BY <1>2, <2>1, <3>1, <3>2, TrackedGoesOn
  <2> QED BY <2>4, <2>5, <2>7 DEF BugInv
<1> QED BY <1>3, <1>4, <1>5

\* People leave the parents of issues, and open none again.
LEMMA PeopleKeep ==
    ASSUME BugInv,
           \/ \E b \in TrackedBug : Bugs!Change(b)
           \/ \E k \in DOMAIN tracker : Bugs!Close(k) \/ Bugs!Unassign(k)
    PROVE  BugInv'
<1>1. InStage /\ ~sync'.ok
  <2>1. Bugs!Disturb
    BY DEF Bugs!Change, Bugs!Close, Bugs!Unassign
  <2> QED BY <2>1 DEF Bugs!Disturb, BugInv, BugTypes, SyncFields, InStage
<1>2. BugTypes
  BY DEF BugInv
<1>3. ASSUME NEW b \in TrackedBug, Bugs!Change(b) PROVE BugInv'
  <2>1. IssuesKept
    BY <1>2, <1>3, OneIssueKept DEF Bugs!Change
  <2>2. bugs[b] \in Bugs!Entry /\ bugs \in [TrackedBug -> Bugs!Entry]
    BY <1>2 DEF BugTypes
  <2>3. \E e \in Bugs!Entry : bugs' = [bugs EXCEPT ![b] = e]
    <3>1. CASE \E s \in Bugs!Statuses \ {bugs[b].status} : bugs' = [bugs EXCEPT ![b].status = s]
      <4>1. PICK s \in Bugs!Statuses : bugs' = [bugs EXCEPT ![b].status = s]
        BY <3>1
      <4>2. [bugs[b] EXCEPT !.status = s] \in Bugs!Entry
        BY <2>2 DEF Bugs!Entry
      <4> QED BY <4>1, <4>2
    <3>2. CASE \E q \in Contact \ {bugs[b].qa} : bugs' = [bugs EXCEPT ![b].qa = q]
      <4>1. PICK q \in Contact : bugs' = [bugs EXCEPT ![b].qa = q]
        BY <3>2
      <4>2. [bugs[b] EXCEPT !.qa = q] \in Bugs!Entry
        BY <2>2 DEF Bugs!Entry
      <4> QED BY <4>1, <4>2
    <3>3. CASE bugs' = [bugs EXCEPT ![b].rpl = TRUE]
      <4>1. [bugs[b] EXCEPT !.rpl = TRUE] \in Bugs!Entry
        BY <2>2 DEF Bugs!Entry
      <4> QED BY <3>3, <4>1
    <3>4. CASE \E f \in BugFlag \ bugs[b].flags : bugs' = [bugs EXCEPT ![b].flags = @ \cup {f}]
      <4>1. PICK f \in BugFlag : bugs' = [bugs EXCEPT ![b].flags = @ \cup {f}]
        BY <3>4
      <4>2. [bugs[b] EXCEPT !.flags = @ \cup {f}] \in Bugs!Entry
        BY <2>2 DEF Bugs!Entry
      <4> QED BY <4>1, <4>2
    <3> QED BY <1>3, <3>1, <3>2, <3>3, <3>4 DEF Bugs!Change
  <2>4. bugs' \in [TrackedBug -> Bugs!Entry]
    BY <2>2, <2>3
  <2> QED BY <1>1, <2>1, <2>4, TroubleKeeps
<1>4. ASSUME NEW k \in DOMAIN tracker, Bugs!Close(k) \/ Bugs!Unassign(k) PROVE BugInv'
  <2>1. tracker[k] \in BugIssue
    BY <1>2 DEF BugTypes
  <2>2. \E w \in BugIssue : /\ tracker' = [tracker EXCEPT ![k] = w]
                            /\ w.parent = tracker[k].parent /\ (w.open => tracker[k].open)
    <3>1. CASE Bugs!Close(k)
      <4>1. tracker' = [tracker EXCEPT ![k] = [tracker[k] EXCEPT !.open = FALSE]]
        BY <3>1 DEF Bugs!Close
      <4>2. /\ [tracker[k] EXCEPT !.open = FALSE] \in BugIssue
            /\ [tracker[k] EXCEPT !.open = FALSE].parent = tracker[k].parent
            /\ ~[tracker[k] EXCEPT !.open = FALSE].open
        BY <2>1 DEF BugIssue
      <4> QED BY <4>1, <4>2
    <3>2. CASE Bugs!Unassign(k)
      <4>1. tracker' = [tracker EXCEPT ![k] = [tracker[k] EXCEPT !.assignee = NoContact]]
        BY <3>2 DEF Bugs!Unassign
      <4>2. /\ [tracker[k] EXCEPT !.assignee = NoContact] \in BugIssue
            /\ [tracker[k] EXCEPT !.assignee = NoContact].parent = tracker[k].parent
            /\ [tracker[k] EXCEPT !.assignee = NoContact].open = tracker[k].open
        BY <2>1 DEF BugIssue
      <4> QED BY <4>1, <4>2
    <3> QED BY <1>4, <3>1, <3>2
  <2>3. IssuesKept
    BY <1>2, <2>2, OneIssueKept
  <2>4. bugs' = bugs
    BY <1>4 DEF Bugs!Close, Bugs!Unassign
  <2> QED BY <1>1, <1>2, <2>3, <2>4, TroubleKeeps DEF BugTypes
<1> QED BY <1>3, <1>4

\* Every step keeps the invariant.
LEMMA BugStepKeeps ==
    ASSUME Bugs!BugAssumption, BugInv, [Bugs!Next]_(Bugs!vars)
    PROVE  BugInv'
<1>1. CASE UNCHANGED Bugs!vars
  <2>1. UNCHANGED <<bugs, tracker, sync>>
    BY <1>1 DEF Bugs!vars
  <2>2. BugTypes' /\ Asked' = Asked /\ \A s : Bugs!Below(s)' = Bugs!Below(s)
    BY <2>1 DEF BugInv, BugTypes, Asked, Bugs!Below
  <2>3. \A s : RowsOf(s)' = RowsOf(s)
    BY <2>1, SameRows
  <2>4. SearchInv'
    BY <2>1, <2>2, <2>3 DEF BugInv, SearchInv
  <2>5. FreshInv'
    BY <2>1, <2>2 DEF BugInv, FreshInv, FoundAsIs
  <2>6. \A row : IsTracked(row) => IsTracked(row)'
    <3>1. \A row : \A k \in DOMAIN tracker :
              k \in DOMAIN tracker' /\ Goes(tracker[k], tracker'[k], row)
      BY <2>1 DEF Goes
    <3> QED BY <2>1, <3>1, TrackedGoesOn DEF BugInv
  <2>7. HandledInv'
    BY <2>1, <2>3, <2>6 DEF BugInv, HandledInv, Handled
  <2> QED BY <2>2, <2>4, <2>5, <2>7 DEF BugInv
<1>2. ASSUME NEW row \in sync.left, Bugs!SkipRow(row) PROVE BugInv'
  BY <1>2, LeftAloneKeeps DEF Bugs!SkipRow
<1> QED BY <1>1, <1>2, FindKeeps, CreateKeeps, UpdateKeeps, MarkKeeps, PeopleKeep DEF Bugs!Next

\* A run that nothing disturbed tracks the bugs that it read, with their leads and, if
\* the RPL bug depends on them, with all the marks; and no run creates an issue for a bug
\* that has one where it searched (update_issue and find_or_create_issue of bug_report.py
\* and x86_bug_report.py).
THEOREM BugsHold ==
    ASSUME Bugs!BugAssumption
    PROVE  /\ Bugs!Spec => [](Bugs!BugIsTracked /\ Bugs!LeadWatches /\ Bugs!RplIsMarked)
           /\ Bugs!Spec => Bugs!NoSecondIssue
<1>1. ASSUME Bugs!Init PROVE BugInv
  <2>1. tracker = <<>> /\ bugs \in [TrackedBug -> Bugs!Entry] /\ tracker \in Seq(BugIssue)
    BY <1>1 DEF Bugs!Init, Bugs!BugAssumption
  <2>2. /\ DOMAIN sync = SyncFields /\ sync.at = "idle" /\ sync.cmd = "x86" /\ sync.stage = 1
        /\ sync.read = bugs
    BY <1>1 DEF Bugs!Init, SyncFields
  <2>3. 1 \in DOMAIN Bugs!Parents("x86")
    BY StagesOfBugs
  <2>4. BugTypes
    BY <2>1, <2>2, <2>3 DEF BugTypes
  <2> QED BY <2>2, <2>4 DEF BugInv, SearchInv, FreshInv, HandledInv
<1>2. ASSUME BugInv
      PROVE  Bugs!BugIsTracked /\ Bugs!LeadWatches /\ Bugs!RplIsMarked
  <2> SUFFICES ASSUME Bugs!Clean
               PROVE  Bugs!BugIsTracked /\ Bugs!LeadWatches /\ Bugs!RplIsMarked
    BY DEF Bugs!BugIsTracked, Bugs!LeadWatches, Bugs!RplIsMarked
  <2>1. sync.at = "done" /\ sync.ok /\ sync.cmd \in {"x86", "arch"}
    BY <1>2 DEF Bugs!Clean, BugInv, BugTypes
  <2>2. ASSUME NEW row \in Bugs!Listed
        PROVE  IsTracked(row) /\ row.bug \in TrackedBug /\ row.bug \in NumbersIn[row.bug]
    <3>1. PICK s \in DOMAIN Bugs!Parents(sync.cmd) : row \in RowsOf(s)
      BY DEF Bugs!Listed, Bugs!Stages, RowsOf
    <3>2. row.parent # Bugs!Unlisted /\ Handled(s, row)
      BY <2>1 DEF Bugs!Listed, Handled
    <3>3. IsTracked(row)
      BY <1>2, <2>1, <3>1, <3>2 DEF BugInv, HandledInv
    <3>4. row.bug \in TrackedBug
      BY <1>2, <3>1, RowsOfBugs DEF BugInv, BugTypes, RowsOf
    <3> QED BY <3>3, <3>4 DEF Bugs!BugAssumption
  <2>3. CASE sync.cmd = "x86"
    <3>1. ASSUME NEW row \in Bugs!Listed
          PROVE  /\ \/ Bugs!TakenOver(row.bug)
                    \/ \E k \in Bugs!Of(row.bug) : tracker[k].assignee = sync.read[row.bug].qa
                    \/ \E k \in DOMAIN tracker :
                           /\ row.bug \in NumbersIn[tracker[k].about]
                           /\ tracker[k].open /\ tracker[k].assignee = NoContact
                 /\ \/ Bugs!TakenOver(row.bug) \/ LeadOf[sync.read[row.bug].qa] = NoContact
                    \/ \E k \in DOMAIN tracker :
                           /\ tracker[k].open /\ row.bug \in NumbersIn[tracker[k].about]
                           /\ \/ LeadOf[sync.read[row.bug].qa] \in tracker[k].watchers
                              \/ tracker[k].assignee = NoContact
      <4>1. Tracked86(row) /\ row.bug \in NumbersIn[row.bug]
        BY <2>2, <2>3 DEF IsTracked
      <4>2. CASE Bugs!TakenOver(row.bug)
        BY <4>2
      <4>3. ASSUME NEW k \in DOMAIN tracker, Loosely(tracker[k], row.bug)
            PROVE  <3>1!2
        BY <4>3 DEF Loosely
      <4>4. ASSUME NEW k \in DOMAIN tracker, LedBy(tracker[k], row.bug, sync.read[row.bug].qa)
            PROVE  <3>1!2
        BY <4>1, <4>4 DEF LedBy, Bugs!Of
      <4> QED BY <4>1, <4>2, <4>3, <4>4 DEF Tracked86
    <3>2. Bugs!BugIsTracked
      BY <2>3, <3>1 DEF Bugs!BugIsTracked
    <3>3. Bugs!LeadWatches
      BY <3>1 DEF Bugs!LeadWatches
    <3> QED BY <2>3, <3>2, <3>3 DEF Bugs!RplIsMarked
  <2>4. CASE sync.cmd = "arch"
    <3>1. Bugs!LeadWatches
      BY <2>4 DEF Bugs!LeadWatches
    <3>2. ASSUME NEW row \in Bugs!Listed
          PROVE  /\ \/ Bugs!TakenOver(row.bug)
                    \/ \E k \in Bugs!Below({row.parent}) : row.bug \in NumbersIn[tracker[k].about]
                 /\ sync.read[row.bug].rpl =>
                    \E k \in Bugs!Below({row.parent}) : /\ row.bug \in NumbersIn[tracker[k].about]
                                                        /\ tracker[k].marks = BugMarks
      <4>1. TrackedArch(row)
        BY <2>2, <2>4 DEF IsTracked
      <4>2. \A k \in DOMAIN tracker : Filed(tracker[k], row.bug, row.parent) =>
                k \in Bugs!Below({row.parent}) /\ row.bug \in NumbersIn[tracker[k].about]
        BY DEF Filed, Bugs!Below
      <4> QED BY <4>1, <4>2 DEF TrackedArch
    <3>3. Bugs!BugIsTracked
      BY <2>4, <3>2 DEF Bugs!BugIsTracked
    <3>4. Bugs!RplIsMarked
      BY <3>2, StagesOfBugs DEF Bugs!RplIsMarked
    <3> QED BY <3>1, <3>3, <3>4
  <2> QED BY <2>1, <2>3, <2>4
<1>3. ASSUME BugInv, [Bugs!Next]_(Bugs!vars)
      PROVE  [Len(tracker') > Len(tracker) =>
              \A k \in Bugs!Below(Asked) \cap 1..sync.base :
                  tracker[k].about # tracker'[Len(tracker')].about]_(Bugs!vars)
  <2> SUFFICES ASSUME Bugs!Next, Len(tracker') > Len(tracker),
                      NEW k \in Bugs!Below(Asked) \cap 1..sync.base
               PROVE  tracker[k].about # tracker'[Len(tracker')].about
    BY <1>3
  <2>1. /\ tracker \in Seq(BugIssue) /\ Len(tracker) \in Nat
        /\ DOMAIN tracker = 1..Len(tracker)
    BY <1>3 DEF BugInv, BugTypes
  <2>2. \A l, w : Len([tracker EXCEPT ![l] = w]) = Len(tracker)
    BY <2>1
  <2>3. PICK row \in sync.left : Bugs!Create(row)
    <3>1. tracker' # tracker /\ \A l, w : tracker' # [tracker EXCEPT ![l] = w]
      BY <2>1, <2>2
    <3>2. ~Bugs!Search /\ ~Bugs!EndStage /\ \A c : ~Bugs!Begin(c)
      BY <3>1 DEF Bugs!Search, Bugs!EndStage, Bugs!Begin
    <3>3. \A row : ~Bugs!SkipRow(row) /\ ~Bugs!Update(row) /\ ~Bugs!Mark(row)
      BY <3>1, SMTT(60) DEF Bugs!SkipRow, Bugs!Update, Bugs!Mark
    <3>4. \A l : ~Bugs!Change(l) /\ ~Bugs!Close(l) /\ ~Bugs!Unassign(l)
      BY <3>1 DEF Bugs!Change, Bugs!Close, Bugs!Unassign
    <3> QED BY <3>2, <3>3, <3>4 DEF Bugs!Next
  <2>4. /\ Bugs!IsRow(row) /\ row.parent # Bugs!Unlisted /\ Bugs!Matches(row.bug) = {}
        /\ \E w : (w = Bugs!NewIssue(row) \/ w = Bugs!Watched(Bugs!NewIssue(row)))
                  /\ tracker' = Append(tracker, w)
    BY <2>1, <2>3 DEF Bugs!Create
  <2>5. PICK w : /\ w = Bugs!NewIssue(row) \/ w = Bugs!Watched(Bugs!NewIssue(row))
                 /\ tracker' = Append(tracker, w)
    BY <2>4
  <2>6. w.about = row.bug
    <3>1. Bugs!NewIssue(row).about = row.bug
      BY DEF Bugs!NewIssue
    <3>2. Bugs!Watched(Bugs!NewIssue(row)).about = row.bug
      BY DEF Bugs!NewIssue, Bugs!Watched
    <3> QED BY <2>5, <3>1, <3>2
  <2>7. tracker'[Len(tracker')] = w
    BY <2>1, <2>5
  <2>8. k \in DOMAIN sync.found /\ row.bug \in NumbersIn[row.bug]
    BY <1>3, <2>4, RowAtHand DEF BugInv, SearchInv
  <2>9. tracker[k].about # row.bug
    BY <2>4, <2>8 DEF Bugs!Matches
  <2> QED BY <2>6, <2>7, <2>9
<1>4. BugInv /\ [Bugs!Next]_(Bugs!vars) => BugInv'
  BY BugStepKeeps
<1>5. Bugs!Spec => []BugInv
  BY <1>1, <1>4, PTL DEF Bugs!Spec
<1> QED BY <1>2, <1>3, <1>5, PTL DEF Bugs!Spec, Bugs!NoSecondIssue, Asked
=============================================================================
