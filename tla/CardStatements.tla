--------------------------- MODULE CardStatements ---------------------------
(***************************************************************************)
(* The statements of one credit card of pytest/card: create_card_statement *)
(* and create_statement_main (modules/report.py), which sum the lines of   *)
(* report_bill once a month, and CreditCard.recreate_statement, which adds *)
(* the interest of what is overdue and writes the file anew.               *)
(*                                                                         *)
(* Dates are compared as STRINGS.  Bills carry the day with two digits,    *)
(* while the first day of a period is formatted from the number            *)
(* settings.STATEMENT_DAY as it is: a number below ten is one digit, and   *)
(* as a string it is above every day of its month.                         *)
(***************************************************************************)
EXTENDS Integers, Sequences

CONSTANTS
    StatementDay, \* settings.STATEMENT_DAY
    Days,         \* days of a month
    PayDay,       \* day of the following month a statement is due
    Rate,         \* settings.EXPIRE_DAY_RATE, as an integer
    LastDay,      \* days that pass (bound)
    MaxRuns       \* runs of create_statement_main on one day (bound)

StatementAssumption ==
    /\ Days \in 28..31 /\ StatementDay \in 1..28 /\ PayDay \in 1..28
    /\ Rate \in Nat /\ LastDay \in Nat /\ MaxRuns \in Nat

VARIABLES
    now,        \* days since the first of the first month
    bill,       \* the day of the bill that is followed (its sum is 1)
    booked,     \* it is in report_bill
    statements, \* statement_<cardno>: its statements
    ran,        \* how often create_statement_main ran today
    missed,     \* a statement day went by without it
    read,       \* what recreate_statement has read and not written back
    killed      \* the console was killed while the file was being rewritten

vars == <<now, bill, booked, statements, ran, missed, read, killed>>

MonthOf(t)   == t \div Days
DayOf(t)     == (t % Days) + 1
Date(mo, d)  == mo * Days + d - 1

\* Whether the date of a bill, as a string, is at or above the first of a
\* period that starts in month mo.
SortsAfter(t, mo) ==
    \/ MonthOf(t) > mo
    \/ MonthOf(t) = mo /\ StatementDay >= 10 /\ DayOf(t) >= StatementDay

\* (Mutant of Covers: the period starts after the statement day.)
BugCovers(t, at) == SortsAfter(t - 1, MonthOf(at - 30)) /\ t <= at

\* load_bill_report with startdate 30 days ago on STATEMENT_DAY, and enddate
\* tomorrow at midnight.
Covers(t, at) == SortsAfter(t, MonthOf(at - 30)) /\ t <= at

Statement == [made : 0..LastDay, pdate : Nat, total : {1}, interest : Nat]

\* (`file` grows to one statement a run.)
TypeOK ==
    /\ now \in 0..LastDay /\ bill \in 0..LastDay /\ booked \in BOOLEAN
    /\ statements \in Seq(Statement)
    /\ ran \in 0..MaxRuns /\ missed \in BOOLEAN /\ killed \in BOOLEAN
    /\ read = <<>> \/ (Len(read) = 1 /\ read[1] \in Seq(Statement))

Init ==
    /\ now = Days          \* the second month, so that 30 days ago exists
    /\ bill \in Days..LastDay
    /\ booked = FALSE
    /\ statements = <<>> /\ ran = 0 /\ missed = FALSE /\ read = <<>> /\ killed = FALSE

\* card_pay appends the bill some time on its day.
Book ==
    /\ now = bill /\ ~booked
    /\ booked' = TRUE
    /\ UNCHANGED <<now, bill, statements, ran, missed, read, killed>>

\* (Mutant of CreateStatement: due this month.)
BugCreate ==
    /\ DayOf(now) = StatementDay /\ ran < MaxRuns /\ read = <<>>
    /\ ran' = ran + 1
    /\ statements' = IF booked /\ Covers(bill, now)
               THEN Append(statements, [made |-> now, total |-> 1, interest |-> 0,
                                  pdate |-> Date(MonthOf(now + 30), PayDay) - Days])
               ELSE statements
    /\ UNCHANGED <<now, bill, booked, missed, read, killed>>

\* create_card_statement of this card: only on the statement day, and only if
\* something is to be paid.  Nothing says that it ran before.
CreateStatement ==
    /\ DayOf(now) = StatementDay /\ ran < MaxRuns /\ read = <<>>
    /\ ran' = ran + 1
    /\ statements' = IF booked /\ Covers(bill, now)
               THEN Append(statements, [made |-> now, total |-> 1, interest |-> 0,
                                  pdate |-> Date(MonthOf(now + 30), PayDay)])
               ELSE statements
    /\ UNCHANGED <<now, bill, booked, missed, read, killed>>

\* (Mutant of Overdue: interest is added to the interest before.)
BugOverdue(s) == IF now > s.pdate
                 THEN [s EXCEPT !.interest = @ + s.total * Rate * (now - s.pdate)] ELSE s
\* (Mutant of Overdue: whether it is late is not asked.)
BugEarly(s)   == [s EXCEPT !.interest = s.total * Rate * (now - s.pdate)]
\* The interest of a statement, from its total and the days it is late.
Overdue(s) == IF now > s.pdate
              THEN [s EXCEPT !.interest = s.total * Rate * (now - s.pdate)] ELSE s

\* recreate_statement: read the file and compute; then empty it and write.
Recreate ==
    /\ read = <<>> /\ statements # <<>>
    /\ read' = <<[i \in DOMAIN statements |-> Overdue(statements[i])]>>
    /\ statements' = <<>>
    /\ UNCHANGED <<now, bill, booked, ran, missed, killed>>

\* (Mutant of Rewrite: the last statement is left out.)
BugRewrite ==
    /\ read # <<>>
    /\ statements' = SubSeq(read[1], 1, Len(read[1]) - 1) /\ read' = <<>>
    /\ UNCHANGED <<now, bill, booked, ran, missed, killed>>
Rewrite ==
    /\ read # <<>>
    /\ statements' = read[1] /\ read' = <<>>
    /\ UNCHANGED <<now, bill, booked, ran, missed, killed>>

\* The console is killed before the file is filled again.
Kill ==
    /\ read # <<>>
    /\ read' = <<>> /\ killed' = TRUE
    /\ UNCHANGED <<now, bill, booked, statements, ran, missed>>

NextDay ==
    /\ now < LastDay /\ read = <<>> /\ (now = bill => booked)
    /\ now' = now + 1 /\ ran' = 0
    /\ missed' = (missed \/ (DayOf(now) = StatementDay /\ ran = 0))
    /\ UNCHANGED <<bill, booked, statements, read, killed>>

Next == Book \/ CreateStatement \/ Recreate \/ Rewrite \/ Kill \/ NextDay

Spec == Init /\ [][Next]_vars

-----------------------------------------------------------------------------
(* What the code keeps: the first with a statement day of two digits only.   *)

\* The statement days the bill can still be on: its own, or the next one.
LastChance == IF DayOf(bill) <= StatementDay THEN Date(MonthOf(bill), StatementDay)
              ELSE Date(MonthOf(bill) + 1, StatementDay)

\* A bill is on a statement once the next statement day is over, if the program
\* ran on that day; what is booked late on the day itself is on the one after.
BilledIsStated ==
    now > LastChance + (IF DayOf(bill) = StatementDay THEN Days ELSE 0)
        /\ ~missed /\ ~killed /\ read = <<>>
    => statements # <<>>

\* Interest is that of the days the statement is late, however often the file
\* was written anew in between.
InterestIsSimple ==
    \A i \in DOMAIN statements :
        statements[i].interest <= Rate * (IF now > statements[i].pdate THEN now - statements[i].pdate ELSE 0)

\* Nobody has less than seventeen days to pay before interest runs.
TimeToPay == \A i \in DOMAIN statements : statements[i].interest > 0 => now > statements[i].made + 17
=============================================================================
