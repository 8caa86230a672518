---------------------------- MODULE CardAccounts ----------------------------
(***************************************************************************)
(* The credit cards of pytest/card: CreditCard (modules/creditcard.py),    *)
(* the payment of a shopping cart (Shopping.payfor_shopcart) and the table *)
(* files behind them (dbhelper/dbapi.py).                                  *)
(*                                                                         *)
(* An object loads the WHOLE table when it is constructed and writes that  *)
(* copy back, with its own card changed, whenever it stores anything; so   *)
(* two objects of one console overwrite each other.  A table is written by *)
(* truncating the file and then filling it, and the console may be killed  *)
(* between any two file operations.                                        *)
(***************************************************************************)
EXTENDS Integers, Sequences

CONSTANTS
    Card,      \* card numbers
    Obj,       \* places for CreditCard objects in the console
    NoObj,     \* nothing there
    Opened,    \* cards in the table at the start
    Limit,     \* settings.CREDIT_TOTAL
    FeeRate,   \* settings.FETCH_MONEY_RATE, as an integer
    Price,     \* sums that are paid
    DiskFails, \* whether writing to a file may fail
    MaxCalls   \* calls made (bound)

ASSUME CardAssumption ==
    /\ NoObj \notin Obj /\ Opened \subseteq Card
    /\ Limit \in Nat /\ FeeRate \in Nat /\ Price \subseteq Nat
    /\ DiskFails \in BOOLEAN /\ MaxCalls \in Nat

VARIABLES
    db,      \* the table: cards in it -> balance and password
    torn,    \* the file was truncated and not filled again
    objs,    \* the CreditCard objects alive
    todo,    \* file operations left of the call that is running
    billed,  \* card -> sum of its lines in report_bill
    bought,  \* sum of the lines in shopping_history
    shopped, \* sum of the lines of type 1 in report_bill
    calls    \* calls so far

store == <<db, torn, billed, bought, shopped>>
vars  == <<store, objs, todo, calls>>

\* How often a stored password was encrypted: 0 is what the customer types,
\* 1 what a correct table holds.
Depth  == 0..(MaxCalls + 2)
Money  == -(Limit + 1)..(Limit * (MaxCalls + 1))
Record == [bal : Money, pw : Depth]
Table  == UNION {[S -> Record] : S \in SUBSET Card}

TypeOK ==
    /\ db \in Table /\ torn \in BOOLEAN
    /\ \A o \in Obj : objs[o] # NoObj =>
           objs[o].card \in Card /\ objs[o].bal \in Money
           /\ objs[o].pw \in Depth /\ objs[o].snap \in Table
    /\ todo \in Seq([k : {"charge", "bill", "shop", "open", "write", "top", "hist"}, o : Obj, n : Nat])
    /\ billed \in [Card -> Nat] /\ bought \in Nat /\ shopped \in Nat
    /\ calls \in 0..MaxCalls

Init ==
    /\ db = [c \in Opened |-> [bal |-> Limit, pw |-> 1]] /\ torn = FALSE
    /\ objs = [o \in Obj |-> NoObj]
    /\ todo = <<>>
    /\ billed = [c \in Card |-> 0] /\ bought = 0 /\ shopped = 0
    /\ calls = 0

-----------------------------------------------------------------------------
(* Calls: what each one has still to do with the files. *)

Free(o)  == objs[o] = NoObj
Alive(o) == objs[o] # NoObj
Idle     == todo = <<>>
Call     == Idle /\ calls < MaxCalls /\ calls' = calls + 1

\* The object a constructor makes: _load_card_info on the table as it is.
Loaded(c) ==
    [card |-> c, snap |-> db,
     bal |-> IF c \in DOMAIN db THEN db[c].bal ELSE Limit,
     pw  |-> IF c \in DOMAIN db THEN db[c].pw ELSE 0]

Step(k, o, n) == [k |-> k, o |-> o, n |-> n]
Save(o)       == <<Step("open", o, 0), Step("write", o, 0)>>
\* (Mutant of Pay: the table is written before the bill.)
BugPay(o, n)  == <<Step("charge", o, n)>> \o Save(o) \o <<Step("bill", o, n)>>
\* card_pay, and update_card after a credit of n.
Pay(o, n)     == <<Step("charge", o, n), Step("bill", o, n)>> \o Save(o)
TopUp(o, n)   == <<Step("top", o, n)>> \o Save(o)
\* (Mutant of Fee: its sign is wrong.)
BugFee(n)     == -n * FeeRate
Fee(n)        == n * FeeRate

\* _pay_check with the right password: the table must hold it encrypted once.
\* (Mutant of Accepts: the fee is left out of the check.)
BugAccepts(o, n) == n - Fee(n) <= objs[o].bal /\ objs[o].pw = 1
Accepts(o, n)    == n <= objs[o].bal /\ objs[o].pw = 1

Construct(o, c) ==
    /\ Idle /\ Free(o) /\ ~torn
    /\ objs' = [objs EXCEPT ![o] = Loaded(c)]
    /\ UNCHANGED <<store, todo, calls>>

Drop(o) ==
    /\ Idle /\ Alive(o)
    /\ objs' = [objs EXCEPT ![o] = NoObj]
    /\ UNCHANGED <<store, todo, calls>>

\* create_card: the number is new and the caller has set the password.
CreateCard(o) ==
    /\ Call /\ Alive(o) /\ objs[o].card \notin DOMAIN objs[o].snap
    /\ objs' = [objs EXCEPT ![o].snap =
                   [c \in DOMAIN @ \cup {objs[o].card} |->
                       IF c = objs[o].card THEN [bal |-> objs[o].bal, pw |-> objs[o].pw + 1]
                                           ELSE @[c]]]
    /\ todo' = Save(o)
    /\ UNCHANGED store

\* fetch_money and translate_money; a call that is refused changes nothing.
FetchMoney(o, n) ==
    /\ Call /\ Alive(o) /\ objs[o].card \in DOMAIN objs[o].snap
    /\ Accepts(o, n + Fee(n))
    /\ todo' = Pay(o, n) \o Pay(o, Fee(n))
    /\ UNCHANGED <<store, objs>>

TranslateMoney(o, n, r) ==
    /\ Call /\ Alive(o) /\ Alive(r)
    /\ \A x \in {o, r} : objs[x].card \in DOMAIN objs[x].snap
    /\ Accepts(o, n + Fee(n))
    /\ todo' = Pay(o, n) \o Pay(o, Fee(n)) \o TopUp(r, n + Fee(n))
    /\ UNCHANGED <<store, objs>>

\* (Mutant of PayForShopcart: an object that is already there is used.)
BugShopcart(o, c, n) ==
    /\ Call /\ Alive(o) /\ objs[o].card = c /\ c \in DOMAIN objs[o].snap
    /\ n <= objs[o].bal
    /\ todo' = <<Step("charge", o, n), Step("shop", o, n)>> \o Save(o) \o <<Step("hist", o, n)>>
    /\ UNCHANGED <<store, objs>>

\* (Mutant of PayForShopcart: the history is written first.)
BugHistory(o, c, n) ==
    /\ Call /\ Free(o) /\ ~torn
    /\ c \in DOMAIN db /\ n <= db[c].bal
    /\ objs' = [objs EXCEPT ![o] = Loaded(c)]
    /\ todo' = <<Step("hist", o, n), Step("charge", o, n), Step("shop", o, n)>> \o Save(o)
    /\ UNCHANGED store

\* payfor_shopcart constructs the card object itself.
PayForShopcart(o, c, n) ==
    /\ Call /\ Free(o) /\ ~torn
    /\ c \in DOMAIN db /\ n <= db[c].bal
    /\ objs' = [objs EXCEPT ![o] = Loaded(c)]
    /\ todo' = <<Step("charge", o, n), Step("shop", o, n)>> \o Save(o) \o <<Step("hist", o, n)>>
    /\ UNCHANGED store

-----------------------------------------------------------------------------
(* The file operations of the running call. *)

At(k) == todo # <<>> /\ Head(todo).k = k
Who   == Head(todo).o
Sum   == Head(todo).n

\* append_db_json and write_db_json log an exception and go on.
Stored == {TRUE} \cup (IF DiskFails THEN {FALSE} ELSE {})

\* card_pay: the sum leaves the object and, with the
\* next save, the table.
Charge ==
    /\ At("charge")
    /\ objs' = [objs EXCEPT ![Who].bal = @ - Sum,
                            ![Who].snap[objs[Who].card].bal = objs[Who].bal - Sum]
    /\ todo' = Tail(todo)
    /\ UNCHANGED <<store, calls>>

\* card_pay: the line in report_bill.
Bill ==
    /\ At("bill") \/ At("shop")
    /\ \E ok \in Stored :
           /\ billed' = IF ok THEN [billed EXCEPT ![objs[Who].card] = @ + Sum] ELSE billed
           /\ shopped' = IF ok /\ At("shop") THEN shopped + Sum ELSE shopped
    /\ todo' = Tail(todo)
    /\ UNCHANGED <<db, torn, bought, objs, calls>>

\* update_card: everything of the object, its password encrypted once more.
Credit ==
    /\ At("top")
    /\ objs' = [objs EXCEPT ![Who].bal = @ + Sum,
                            ![Who].snap[objs[Who].card] =
                                [bal |-> objs[Who].bal + Sum, pw |-> objs[Who].pw + 1]]
    /\ todo' = Tail(todo)
    /\ UNCHANGED <<store, calls>>

\* write_db_json: open(.., 'w+') empties the file, then the copy is written.
Open ==
    /\ At("open")
    /\ torn' = TRUE
    /\ todo' = Tail(todo)
    /\ UNCHANGED <<db, billed, bought, shopped, objs, calls>>

\* (Mutant of Write: the new copy is never flushed.)
BugWrite ==
    /\ At("write")
    /\ db' = objs[Who].snap
    /\ todo' = Tail(todo)
    /\ UNCHANGED <<torn, billed, bought, shopped, objs, calls>>

Write ==
    /\ At("write")
    /\ \E ok \in Stored :
           /\ db' = IF ok THEN objs[Who].snap ELSE db
           /\ torn' = IF ok THEN FALSE ELSE torn
    /\ todo' = Tail(todo)
    /\ UNCHANGED <<billed, bought, shopped, objs, calls>>

\* shopping_history; the card object of payfor_shopcart goes out of scope.
History ==
    /\ At("hist")
    /\ \E ok \in Stored : bought' = IF ok THEN bought + Sum ELSE bought
    /\ objs' = IF Len(todo) = 1 THEN [objs EXCEPT ![Who] = NoObj] ELSE objs
    /\ todo' = Tail(todo)
    /\ UNCHANGED <<db, torn, billed, shopped, calls>>

\* The console is killed.
Kill ==
    /\ objs' = [o \in Obj |-> NoObj] /\ todo' = <<>>
    /\ UNCHANGED <<store, calls>>

FileStep == Charge \/ Bill \/ Credit \/ Open \/ Write \/ History

Next ==
    \/ \E o \in Obj :
           \/ \E c \in Card : Construct(o, c)
           \/ Drop(o) \/ CreateCard(o)
           \/ \E n \in Price :
                  \/ FetchMoney(o, n)
                  \/ \E r \in Obj : TranslateMoney(o, n, r)
                  \/ \E c \in Card : PayForShopcart(o, c, n)
    \/ FileStep \/ Kill

Spec == Init /\ [][Next]_vars

-----------------------------------------------------------------------------
(* What the code keeps. *)

\* However stale the copies are that are written back, no card is ever
\* overdrawn: the object that is checked is the object that is charged.
NoOverdraft == \A c \in DOMAIN db : db[c].bal >= 0

\* Whatever left a card is in its bills: the bill is appended before the table
\* is written, so neither a kill nor a stale copy loses the record of a charge.
ChargesAreBilled == \A c \in DOMAIN db : db[c].bal + billed[c] >= Limit

\* A purchase is in the history only after it was billed.
PurchasesAreBilled == bought <= shopped

\* The payment of a cart works on a copy just loaded: it never takes back what
\* was stored for another card.
Shopping == todo # <<>> /\ todo[Len(todo)].k = "hist"
ShopSparesOthers ==
    [][Shopping => \A c \in DOMAIN db \ {objs[todo[Len(todo)].o].card} :
                       c \in DOMAIN db' /\ db'[c] = db[c]]_vars

\* On a sound disk no call leaves the file empty when it returns: a console
\* that finds it so was started after one that was killed while writing.
ReturnsWhole == Idle /\ torn => \A o \in Obj : Free(o)

=============================================================================
