---------------------------- MODULE UserAccounts ----------------------------
(***************************************************************************)
(* The users of pytest/card (modules/users.py): logging in with a counter  *)
(* of failed attempts, locking, and every operation that stores a user.    *)
(*                                                                         *)
(* A Users object loads the whole table once, works on that copy and       *)
(* writes all of it back (update_user).  One login call may try several    *)
(* user names; the counter belongs to the object, not to the name.         *)
(***************************************************************************)
EXTENDS Integers

CONSTANTS
    User,     \* user names
    Known,    \* users in the table at the start
    Obj,      \* places for Users objects in the console
    NoObj,    \* nothing there
    NoUser,   \* the empty user name
    MaxTries, \* settings.ERROR_MAX_COUNT
    MaxCalls  \* calls that store something (bound)

UserAssumption ==
    /\ Known \subseteq User /\ NoUser \notin User /\ NoObj \notin Obj
    /\ MaxTries \in Nat \ {0} /\ MaxCalls \in Nat

VARIABLES
    table,   \* the table: user -> locked, deleted, card bound
    clients, \* the Users objects
    looping, \* the object whose login loop is running
    stores,  \* stores so far
    fails,   \* failures counted in this call (history)
    locking  \* who was locked by the step just made (history)

vars == <<table, clients, looping, stores, fails, locking>>

Cards  == {"none", "own", "foreign"}
Record == [locked : BOOLEAN, del : BOOLEAN, card : Cards]
Table  == UNION {[S -> Record] : S \in SUBSET User}
Fresh  == [locked |-> FALSE, del |-> FALSE, card |-> "none"]

TypeOK ==
    /\ table \in Table
    /\ clients \in [Obj -> {NoObj} \cup
           [snap : Table, name : User \cup {NoUser}, in : BOOLEAN, tries : 0..MaxTries,
            locked : BOOLEAN, card : Cards]]
    /\ looping \in Obj \cup {NoObj} /\ stores \in 0..MaxCalls
    /\ fails \in 0..MaxTries /\ locking \in User \cup {NoUser}

Init ==
    /\ table = [u \in Known |-> Fresh]
    /\ clients = [o \in Obj |-> NoObj] /\ looping = NoObj /\ stores = 0
    /\ fails = 0 /\ locking = NoUser

Alive(o) == clients[o] # NoObj
Idle     == looping = NoObj
NoNews   == locking' = NoUser

\* update_user and create_user: the whole copy of the object, `t`, is stored.
Store(o, t) ==
    /\ stores < MaxCalls /\ stores' = stores + 1
    /\ table' = t

Construct(o) ==
    /\ Idle /\ ~Alive(o)
    /\ clients' = [clients EXCEPT ![o] = [snap |-> table, name |-> NoUser, in |-> FALSE,
                                    tries |-> 0, locked |-> FALSE, card |-> "none"]]
    /\ UNCHANGED <<table, looping, stores, fails>> /\ NoNews

-----------------------------------------------------------------------------
(* login: a loop over attempts, each with a name, a password and a code. *)

Login(o) ==
    /\ Idle /\ Alive(o) /\ ~clients[o].in
    /\ looping' = o
    /\ fails' = 0
    /\ UNCHANGED <<table, clients, stores>> /\ NoNews

Trying(o) == looping = o /\ clients[o].tries < MaxTries

\* A name that is not in the copy is not counted.
UnknownName(o, u) ==
    /\ Trying(o) /\ u \notin DOMAIN clients[o].snap
    /\ clients' = [clients EXCEPT ![o].name = u]
    /\ UNCHANGED <<table, looping, stores, fails>> /\ NoNews

\* (Mutant of Succeed: the counter is not set back.)
BugSucceed(o, u) ==
    /\ Trying(o) /\ u \in DOMAIN clients[o].snap
    /\ ~clients[o].snap[u].del /\ ~clients[o].snap[u].locked
    /\ clients' = [clients EXCEPT ![o].name = u, ![o].in = TRUE, ![o].locked = FALSE,
                            ![o].card = clients[o].snap[u].card]
    /\ looping' = NoObj
    /\ UNCHANGED <<table, stores, fails>> /\ NoNews
\* Password and code are right.
Succeed(o, u) ==
    /\ Trying(o) /\ u \in DOMAIN clients[o].snap
    /\ ~clients[o].snap[u].del /\ ~clients[o].snap[u].locked
    /\ clients' = [clients EXCEPT ![o].name = u, ![o].in = TRUE, ![o].tries = 0,
                            ![o].locked = FALSE, ![o].card = clients[o].snap[u].card]
    /\ looping' = NoObj
    /\ UNCHANGED <<table, stores, fails>> /\ NoNews

\* (Mutant of Fail: password and code are counted each.)
BugFail(o, u) ==
    /\ Trying(o) /\ u \in DOMAIN clients[o].snap
    /\ ~clients[o].snap[u].del /\ ~clients[o].snap[u].locked
    /\ \E n \in {1, 2} :
           clients' = [clients EXCEPT ![o].name = u, ![o].tries = @ + n]
    /\ fails' = fails + 1
    /\ UNCHANGED <<table, stores, looping>> /\ NoNews
\* One of them is wrong.  A mark left by an earlier login ends this one.
Fail(o, u) ==
    /\ Trying(o) /\ u \in DOMAIN clients[o].snap
    /\ ~clients[o].snap[u].del /\ ~clients[o].snap[u].locked
    /\ fails' = fails + 1
    /\ IF clients[o].locked
       THEN clients' = [clients EXCEPT ![o].name = u, ![o].tries = 0] /\ looping' = NoObj
       ELSE clients' = [clients EXCEPT ![o].name = u, ![o].tries = @ + 1] /\ UNCHANGED looping
    /\ UNCHANGED <<table, stores>> /\ NoNews

\* (Mutant of Refuse: a locked user is let in.)
BugRefuse(o, u) ==
    /\ Trying(o) /\ u \in DOMAIN clients[o].snap /\ ~clients[o].snap[u].del
    /\ clients' = [clients EXCEPT ![o].name = u, ![o].tries = 0, ![o].in = TRUE]
    /\ looping' = NoObj
    /\ UNCHANGED <<table, stores, fails>> /\ NoNews
\* The name is locked, or deleted; only the former ends the call.
Refuse(o, u) ==
    /\ Trying(o) /\ u \in DOMAIN clients[o].snap
    /\ \/ /\ ~clients[o].snap[u].del /\ clients[o].snap[u].locked
          /\ clients' = [clients EXCEPT ![o].name = u, ![o].locked = TRUE, ![o].tries = 0]
          /\ looping' = NoObj
       \/ /\ clients[o].snap[u].del /\ ~clients[o].locked
          /\ clients' = [clients EXCEPT ![o].name = u] /\ UNCHANGED looping
       \/ /\ clients[o].snap[u].del /\ clients[o].locked
          /\ clients' = [clients EXCEPT ![o].name = u, ![o].tries = 0] /\ looping' = NoObj
    /\ UNCHANGED <<table, stores, fails>> /\ NoNews

\* The else of the loop: the name entered LAST is locked, and stored.
LockOut(o) ==
    /\ looping = o /\ clients[o].tries = MaxTries
    /\ LET t == [clients[o].snap EXCEPT ![clients[o].name].locked = TRUE] IN
           /\ Store(o, t)
           /\ clients' = [clients EXCEPT ![o].snap = t, ![o].locked = TRUE, ![o].tries = 0]
    /\ looping' = NoObj
    /\ locking' = clients[o].name
    /\ UNCHANGED fails

-----------------------------------------------------------------------------
(* The other operations; the caller has set the user name of the object.    *)

\* load_user_info, which the screens of the administrator start with.
LoadInfo(o, u) ==
    /\ Idle /\ Alive(o) /\ ~clients[o].in /\ u \in DOMAIN clients[o].snap
    /\ clients' = [clients EXCEPT ![o].name = u, ![o].locked = clients[o].snap[u].locked,
                            ![o].card = clients[o].snap[u].card]
    /\ UNCHANGED <<table, looping, stores, fails>> /\ NoNews

\* The record of the object's user in its copy becomes r, which is stored.
Change(o, r) ==
    /\ Idle /\ Alive(o)
    /\ LET t == [clients[o].snap EXCEPT ![clients[o].name] = r] IN
           Store(o, t) /\ clients' = [clients EXCEPT ![o].snap = t]
    /\ UNCHANGED <<looping, fails>> /\ NoNews

Named(o) == Alive(o) /\ clients[o].name \in DOMAIN clients[o].snap
Mine(o)  == clients[o].snap[clients[o].name]

\* (Mutant of CreateUser: whether the name exists is not asked.)
BugCreateUser(o, u) ==
    /\ Idle /\ Alive(o) /\ clients[o].name = NoUser
    /\ LET t == [x \in DOMAIN clients[o].snap \cup {u} |->
                     IF x = u THEN Fresh ELSE clients[o].snap[x]] IN
           Store(o, t) /\ clients' = [clients EXCEPT ![o].snap = t, ![o].name = u]
    /\ UNCHANGED <<looping, fails>> /\ NoNews
\* init_user_info and create_user, on an object that has served nobody: only a
\* name the COPY does not have.
CreateUser(o, u) ==
    /\ Idle /\ Alive(o) /\ clients[o].name = NoUser /\ u \notin DOMAIN clients[o].snap
    /\ LET t == [x \in DOMAIN clients[o].snap \cup {u} |->
                     IF x = u THEN Fresh ELSE clients[o].snap[x]] IN
           Store(o, t) /\ clients' = [clients EXCEPT ![o].snap = t, ![o].name = u]
    /\ UNCHANGED <<looping, fails>> /\ NoNews

DelUser(o)    == Named(o) /\ Change(o, [Mine(o) EXCEPT !.del = TRUE])
UnlockUser(o) == Named(o) /\ Change(o, [Mine(o) EXCEPT !.locked = FALSE])

\* modify_password changes nothing these properties are about, but stores.
ModifyPassword(o) == Named(o) /\ clients[o].in /\ Change(o, Mine(o))

\* (Mutant of ModifyInfo: the owner of the card is not asked for.)
BugModifyInfo(o, c) ==
    /\ Named(o) /\ clients[o].in /\ Idle
    /\ LET k == IF c = "none" THEN clients[o].card ELSE c
           t == [clients[o].snap EXCEPT ![clients[o].name].card = k] IN
           Store(o, t) /\ clients' = [clients EXCEPT ![o].snap = t, ![o].card = k]
    /\ UNCHANGED <<looping, fails>> /\ NoNews
\* modify_user_info: no number keeps the card, a foreign one is asked for again.
ModifyInfo(o, c) ==
    /\ Named(o) /\ clients[o].in /\ Idle /\ c # "foreign"
    /\ LET k == IF c = "none" THEN clients[o].card ELSE c
           t == [clients[o].snap EXCEPT ![clients[o].name].card = k] IN
           Store(o, t) /\ clients' = [clients EXCEPT ![o].snap = t, ![o].card = k]
    /\ UNCHANGED <<looping, fails>> /\ NoNews

\* bind_card: the field of the object, not the copy that is stored.
BindCard(o) ==
    /\ Named(o) /\ clients[o].in /\ Idle
    /\ Store(o, clients[o].snap)
    /\ clients' = [clients EXCEPT ![o].card = "own"]
    /\ UNCHANGED <<looping, fails>> /\ NoNews

Logout(o) ==
    /\ Idle /\ Alive(o) /\ clients[o].in
    /\ clients' = [clients EXCEPT ![o].in = FALSE, ![o].name = NoUser, ![o].card = "none"]
    /\ UNCHANGED <<table, looping, stores, fails>> /\ NoNews

Drop(o) ==
    /\ Idle /\ Alive(o)
    /\ clients' = [clients EXCEPT ![o] = NoObj]
    /\ UNCHANGED <<table, looping, stores, fails>> /\ NoNews

Next ==
    \E o \in Obj :
        \/ Construct(o) \/ Login(o) \/ LockOut(o) \/ DelUser(o) \/ UnlockUser(o)
        \/ ModifyPassword(o) \/ BindCard(o) \/ Logout(o) \/ Drop(o)
        \/ \E c \in {"none", "own", "foreign"} : ModifyInfo(o, c)
        \/ \E u \in User :
               UnknownName(o, u) \/ Succeed(o, u) \/ Fail(o, u) \/ Refuse(o, u)
               \/ LoadInfo(o, u) \/ CreateUser(o, u)

Spec == Init /\ [][Next]_vars

-----------------------------------------------------------------------------
(* What the code keeps. *)

\* An account is locked only by one login call with MaxTries counted failures,
\* whatever logins the object served before.
LockTakesMax == locking # NoUser => fails = MaxTries

\* Who is logged in was not locked in the copy of the object.
LockedStayOut == \A o \in Obj : Alive(o) /\ clients[o].in => ~Mine(o).locked

\* No stored user has a card of somebody else.
BoundIsOwned == \A u \in DOMAIN table : table[u].card # "foreign"

\* While one object serves the console, a lock is only lifted by unlock_user of
\* that name.  (With two, the older copy lifts it.)
KeepsLocks ==
    \A u \in DOMAIN table : table[u].locked =>
        table'[u].locked \/ \E o \in Obj : Alive(o) /\ clients[o].name = u
LocksHold  == [][KeepsLocks]_vars

=============================================================================
