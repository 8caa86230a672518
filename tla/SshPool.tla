------------------------------ MODULE SshPool ------------------------------
(***************************************************************************)
(* The ssh connections of cli/cluster_performance_handler.py to one remote *)
(* node: the pool (RemoteHost), its connections (SshConnect) with their    *)
(* shell channels (Chan), the threads that run commands through them       *)
(* (ClusterRecord, run_remote_cmd) and the main thread, which maintains    *)
(* the pool (init_loop), gives it up (Share.close) when the node is no     *)
(* longer the master, and may be interrupted by SIGTERM at any moment.     *)
(* A section under the lock of a connection is one step if it does no      *)
(* network I/O: only the main thread is ever seen to hold such a lock.     *)
(***************************************************************************)
EXTENDS Integers, Sequences, FiniteSets

CONSTANTS
    Worker,   \* threads that run commands
    MaxConn,  \* SshConnect objects that may be created (bound)
    MaxPool,  \* RemoteHost objects that may be created (bound)
    PoolMin,  \* ssh_pool_min
    PoolMax,  \* ssh_pool_max
    ParMax,   \* parallel_number_max, also the number of channels
    Patience, \* passes over an empty pool before it is filled again (4)
    NoConn,   \* no connection
    Main,     \* the main thread
    Nobody    \* owner of a free lock

SshPoolAssumption ==
    /\ PoolMin \in Nat \ {0} /\ PoolMax \in Nat /\ PoolMin <= PoolMax
    /\ ParMax \in Nat \ {0} /\ Patience \in Nat
    /\ MaxConn \in Nat /\ MaxPool \in Nat \ {0}
    /\ NoConn \notin Nat /\ Main \notin Worker /\ Nobody \notin Worker \cup {Main}

VARIABLES
    st,     \* connection -> "new", "open", "dead", "closed" or "half"
    par,    \* parallel_number
    busy,   \* connection -> channel -> Chan.status
    active, \* pool -> active_connect
    made,   \* number of pools created
    lock,   \* pool -> owner of RemoteHost.lock
    dict,   \* the pool Share.ssh_pool names, 0 if none
    closed, \* pools given up by Share.close
    wpc,    \* worker -> where it is
    wpool,  \* worker -> the pool it looked up
    wconn,  \* worker -> the connection it was given
    wchan,  \* worker -> the channel it tries or uses
    mpc,    \* where the main thread is
    goal,   \* what it walks through active_connect for
    mi,     \* ... and how far it is
    intry,  \* it is inside the try of RemoteHost.init_loop
    held,   \* the connections whose lock it holds
    toadd,  \* connections init_loop has still to open
    normal, \* normal_count
    sig,    \* SIGTERM arrived
    extra   \* connections opened by ask_for_ssh_connect (history)

conns   == <<st, par, busy, extra>>
pools   == <<active, lock, dict, made, closed>>
workers == <<wpc, wpool, wconn, wchan>>
main    == <<mpc, goal, mi, intry, held, toadd, normal>>
vars    == <<conns, pools, workers, main, sig>>

Closed == -100
Chan   == 1..ParMax
Conn   == 1..MaxConn
Pools  == 1..MaxPool

TypeOK ==
    /\ st \in [Conn -> {"new", "open", "dead", "closed", "half"}]
    /\ par \in [Conn -> 0..ParMax \cup {Closed}]
    /\ busy \in [Conn -> [Chan -> BOOLEAN]]
    /\ active \in [Pools -> Seq(Conn)]
    /\ lock \in [Pools -> Worker \cup {Main, Nobody}]
    /\ dict \in Pools \cup {0}
    /\ made \in 0..MaxPool
    /\ closed \subseteq Pools
    /\ wpc \in [Worker -> {"idle", "asking", "connecting", "granted",
                           "running", "counting"}]
    /\ wpool \in [Worker -> Pools]
    /\ wconn \in [Worker -> Conn \cup {NoConn}]
    /\ wchan \in [Worker -> Chan]
    /\ mpc \in {"out", "idle", "waiting", "taken", "walk", "closing", "clear",
                "adding", "exited"}
    /\ goal \in {"check", "remove", "leave", "term"}
    /\ mi \in Nat
    /\ intry \in BOOLEAN
    /\ held \subseteq Conn
    /\ toadd \in 0..PoolMin
    /\ normal \in 0..Patience
    /\ sig \in BOOLEAN
    /\ extra \subseteq Conn

Init ==
    /\ st = [c \in Conn |-> "new"]
    /\ par = [c \in Conn |-> 0]
    /\ busy = [c \in Conn |-> [k \in Chan |-> FALSE]]
    /\ active = [p \in Pools |-> <<>>]
    /\ lock = [p \in Pools |-> Nobody]
    /\ dict = 0 /\ made = 0 /\ closed = {}
    /\ wpc = [w \in Worker |-> "idle"]
    /\ wpool = [w \in Worker |-> 1]
    /\ wconn = [w \in Worker |-> NoConn]
    /\ wchan = [w \in Worker |-> 1]
    /\ mpc = "out" /\ goal = "check" /\ mi = 1
    /\ intry = FALSE /\ held = {} /\ toadd = 0 /\ normal = 0
    /\ sig = FALSE /\ extra = {}

-----------------------------------------------------------------------------
(* The threads that run commands. *)

Goto(w, where) == wpc' = [wpc EXCEPT ![w] = where]

\* The command of worker w is over; what it used is forgotten.
Finish(w) ==
    /\ Goto(w, "idle")
    /\ wpool' = [wpool EXCEPT ![w] = 1]
    /\ wconn' = [wconn EXCEPT ![w] = NoConn]
    /\ wchan' = [wchan EXCEPT ![w] = 1]

\* SshConnect.is_available
Available(c) == par[c] >= 0 /\ par[c] < ParMax

\* Share.ask_for_ssh_connect finds the pool in the dict; if it does not, the
\* command fails and nothing changes.
Lookup(w) ==
    /\ wpc[w] = "idle" /\ dict # 0
    /\ Goto(w, "asking")
    /\ wpool' = [wpool EXCEPT ![w] = dict]
    /\ UNCHANGED <<conns, pools, wconn, wchan, main, sig>>

\* (Mutant of Ask: the slot is not taken.)
BugAsk(w) ==
    LET A == active[wpool[w]]
    IN /\ wpc[w] = "asking" /\ lock[wpool[w]] = Nobody
       /\ \E k \in DOMAIN A :
             /\ Available(A[k]) /\ A[k] \notin held
             /\ wconn' = [wconn EXCEPT ![w] = A[k]]
             /\ wchan' = [wchan EXCEPT ![w] = 1]
       /\ Goto(w, "granted")
       /\ UNCHANGED <<conns, pools, wpool, main, sig>>

\* (Mutant of Ask: an empty pool is refilled, though it may be given up.)
BugAskEmpty(w) ==
    LET A == active[wpool[w]]
    IN /\ wpc[w] = "asking" /\ lock[wpool[w]] = Nobody
       /\ \A k \in DOMAIN A : ~Available(A[k]) /\ A[k] \notin held
       /\ Len(A) < PoolMax
       /\ lock' = [lock EXCEPT ![wpool[w]] = w]
       /\ Goto(w, "connecting")
       /\ UNCHANGED <<conns, active, dict, made, closed, wpool, wconn, wchan, main, sig>>

\* The loop of RemoteHost.ask_for_ssh_connect: the first connection that is
\* available.  It waits for a connection whose lock the main thread holds.
Ask(w) ==
    LET A == active[wpool[w]]
        Free == {k \in DOMAIN A : Available(A[k])}
    IN /\ wpc[w] = "asking" /\ lock[wpool[w]] = Nobody
       /\ \/ \E k \in Free :
                /\ \A j \in 1..(k - 1) : j \notin Free /\ A[j] \notin held
                /\ A[k] \notin held
                /\ par' = [par EXCEPT ![A[k]] = @ + 1]
                /\ wconn' = [wconn EXCEPT ![w] = A[k]]
                /\ wchan' = [wchan EXCEPT ![w] = 1]
                /\ Goto(w, "granted")
                /\ UNCHANGED <<lock, wpool>>
          \/ /\ Free = {} /\ \A j \in DOMAIN A : A[j] \notin held
             /\ IF A # <<>> /\ Len(A) < PoolMax
                  THEN /\ lock' = [lock EXCEPT ![wpool[w]] = w]
                       /\ Goto(w, "connecting")
                       /\ UNCHANGED <<wpool, wconn, wchan>>
                  ELSE Finish(w) /\ UNCHANGED lock
             /\ UNCHANGED par
    /\ UNCHANGED <<st, busy, extra, active, dict, made, closed, main, sig>>

\* Connections are numbered in the order in which they are created.
IsNext(c) == st[c] = "new" /\ \A d \in Conn : d < c => st[d] # "new"

\* add_active_connect succeeds.  The connection is handed out as it is:
\* parallel_num_increase is not called for it.
Connected(w) ==
    LET p == wpool[w]
    IN /\ wpc[w] = "connecting"
       /\ \E c \in Conn :
             /\ IsNext(c)
             /\ st' = [st EXCEPT ![c] = "open"]
             /\ active' = [active EXCEPT ![p] = Append(@, c)]
             /\ extra' = extra \cup {c}
             /\ wconn' = [wconn EXCEPT ![w] = c]
       /\ wchan' = [wchan EXCEPT ![w] = 1]
       /\ lock' = [lock EXCEPT ![p] = Nobody]
       /\ Goto(w, "granted")
       /\ UNCHANGED <<par, busy, dict, made, closed, wpool, main, sig>>

\* connect() fails: before it reaches the node, or when it opens a channel,
\* in which case nobody closes what is open.
FailedConnect ==
    \/ UNCHANGED <<st, par>>
    \/ \E c \in Conn : /\ IsNext(c)
                       /\ st' = [st EXCEPT ![c] = "half"]
                       /\ par' = [par EXCEPT ![c] = Closed]

\* (Mutant of ConnectFails: the lock of the pool is kept.)
BugConnectFails(w) ==
    /\ wpc[w] = "connecting"
    /\ FailedConnect
    /\ Finish(w)
    /\ UNCHANGED <<busy, extra, pools, main, sig>>

ConnectFails(w) ==
    /\ wpc[w] = "connecting"
    /\ FailedConnect
    /\ lock' = [lock EXCEPT ![wpool[w]] = Nobody]
    /\ Finish(w)
    /\ UNCHANGED <<busy, extra, active, dict, made, closed, main, sig>>

\* (Mutant of TakeChan: the status of the channel is not looked at.)
BugTakeChan(w) ==
    /\ wpc[w] = "granted"
    /\ busy' = [busy EXCEPT ![wconn[w]][wchan[w]] = TRUE]
    /\ Goto(w, "running")
    /\ UNCHANGED <<st, par, extra, pools, wpool, wconn, wchan, main, sig>>

\* One turn of SshConnect.ask_for_chan.  Behind the last channel the command
\* fails with 'unable to get channel'.
TakeChan(w) ==
    LET c == wconn[w]
        k == wchan[w]
    IN /\ wpc[w] = "granted"
       /\ IF ~busy[c][k] THEN /\ busy' = [busy EXCEPT ![c][k] = TRUE]
                              /\ Goto(w, "running")
                              /\ UNCHANGED wchan
          ELSE /\ UNCHANGED busy
               /\ IF k < ParMax THEN /\ wchan' = [wchan EXCEPT ![w] = k + 1]
                                     /\ UNCHANGED wpc
                                ELSE Goto(w, "counting") /\ UNCHANGED wchan
       /\ UNCHANGED <<st, par, extra, pools, wpool, wconn, main, sig>>

\* (Mutant of Answer: the channel stays taken after an exception.)
BugAnswer(w) ==
    /\ wpc[w] = "running"
    /\ \/ UNCHANGED busy
       \/ busy' = [busy EXCEPT ![wconn[w]][wchan[w]] = FALSE]
    /\ Goto(w, "counting")
    /\ UNCHANGED <<st, par, extra, pools, wpool, wconn, wchan, main, sig>>

\* The exchange ends, with an answer or an exception; the channel is free.
Answer(w) ==
    /\ wpc[w] = "running"
    /\ busy' = [busy EXCEPT ![wconn[w]][wchan[w]] = FALSE]
    /\ Goto(w, "counting")
    /\ UNCHANGED <<st, par, extra, pools, wpool, wconn, wchan, main, sig>>

\* (Mutant of Count: it subtracts from zero and from the mark -100 as well.)
BugCountBelow(w) ==
    LET c == wconn[w]
    IN /\ wpc[w] = "counting" /\ c \notin held
       /\ par' = [par EXCEPT ![c] = @ - 1]
       /\ Finish(w)
       /\ UNCHANGED <<st, busy, extra, pools, main, sig>>

\* The wrapper `counting`, after run_remote_cmd.
Count(w) ==
    LET c == wconn[w]
    IN /\ wpc[w] = "counting" /\ c \notin held
       /\ par' = [par EXCEPT ![c] = IF @ > 0 THEN @ - 1 ELSE @]
       /\ Finish(w)
       /\ UNCHANGED <<st, busy, extra, pools, main, sig>>

\* The transport of a connection dies.
Drop(c) ==
    /\ st[c] = "open"
    /\ st' = [st EXCEPT ![c] = "dead"]
    /\ UNCHANGED <<par, busy, extra, pools, workers, main, sig>>

-----------------------------------------------------------------------------
(* The main thread. *)

\* A new RemoteHost: in MonitorService.cluster_start, or in Share.init_loop
\* when the node is in /etc/hosts again.  Some of its first connections may
\* fail; it has no users yet.
CreatePool ==
    /\ mpc \in {"out", "idle"} /\ dict = 0 /\ ~sig /\ made < MaxPool
    /\ \E n, h \in 0..PoolMin :
          LET u == Cardinality({c \in Conn : st[c] # "new"})
          IN /\ n + h <= PoolMin /\ u + n + h <= MaxConn
             /\ active' = [active EXCEPT ![made + 1] = [k \in 1..n |-> u + k]]
             /\ st' = [c \in Conn |-> IF c \in u + 1..u + n THEN "open"
                                     ELSE IF c \in u + n + 1..u + n + h THEN "half"
                                     ELSE st[c]]
             /\ par' = [c \in Conn |-> IF c \in u + n + 1..u + n + h THEN Closed
                                                               ELSE par[c]]
    /\ dict' = made + 1 /\ made' = made + 1
    /\ mpc' = "idle" /\ normal' = 0
    /\ UNCHANGED <<busy, extra, lock, closed, workers, goal, mi, intry, held, toadd, sig>>

Walk(g) == goal' = g /\ mi' = 1 /\ mpc' = "walk"

\* Share.init_loop reaches the node.
BeginInitLoop ==
    /\ mpc = "idle" /\ dict # 0 /\ ~sig
    /\ mpc' = "waiting"
    /\ UNCHANGED <<conns, pools, workers, goal, mi, intry, held, toadd, normal, sig>>

\* RemoteHost.init_loop: self.lock.acquire(), which no signal interrupts.
AcquirePool ==
    /\ mpc = "waiting" /\ lock[dict] = Nobody
    /\ lock' = [lock EXCEPT ![dict] = Main]
    /\ mpc' = "taken"
    /\ UNCHANGED <<conns, active, dict, made, closed, workers, goal, mi, intry, held,
                   toadd, normal, sig>>

\* The body of its try: the node is still in /etc/hosts, or not.
EnterTry ==
    /\ mpc = "taken" /\ ~sig
    /\ \E g \in {"check", "remove"} : Walk(g)
    /\ intry' = TRUE
    /\ UNCHANGED <<conns, pools, workers, held, toadd, normal, sig>>

\* The node is no longer the master: Share.close, without the lock.
LeaveCluster ==
    /\ mpc = "idle" /\ dict # 0 /\ ~sig
    /\ Walk("leave")
    /\ UNCHANGED <<conns, pools, workers, intry, held, toadd, normal, sig>>

\* The handler of SIGTERM interrupts what the main thread does.
SigTerm ==
    /\ ~sig
    /\ sig' = TRUE
    /\ UNCHANGED <<conns, pools, workers, main>>

Handle ==
    /\ sig /\ mpc \notin {"waiting", "exited"} /\ goal # "term"
    /\ IF dict # 0
         THEN Walk("term") /\ UNCHANGED lock
         ELSE mpc' = "exited" /\ goal' = "term" /\ UNCHANGED <<lock, mi>>
    /\ UNCHANGED <<conns, active, dict, made, closed, workers, intry, held, toadd, normal, sig>>

\* What the main thread does goes on unless a signal waits to be handled.
Proceeds == sig => goal = "term"

\* Nothing more to look at in active_connect.
AtEnd == mi > Len(active[dict])

\* init_loop passes over a connection whose transport is active.
Skip ==
    /\ mpc = "walk" /\ goal = "check" /\ Proceeds /\ ~AtEnd
    /\ st[active[dict][mi]] = "open"
    /\ mi' = mi + 1
    /\ UNCHANGED <<conns, pools, workers, mpc, goal, intry, held, toadd, normal, sig>>

\* SshConnect.close: lock, parallel_number = -100, ssh.close(), unlock.
BeginClose ==
    /\ mpc = "walk" /\ Proceeds /\ ~AtEnd
    /\ active[dict][mi] \notin held
    /\ goal = "check" => st[active[dict][mi]] # "open"
    /\ par' = [par EXCEPT ![active[dict][mi]] = Closed]
    /\ held' = held \cup {active[dict][mi]}
    /\ mpc' = "closing"
    /\ UNCHANGED <<st, busy, extra, pools, workers, goal, mi, intry, toadd, normal, sig>>

EndClose ==
    /\ mpc = "closing" /\ Proceeds
    /\ st' = [st EXCEPT ![active[dict][mi]] = "closed"]
    /\ held' = held \ {active[dict][mi]}
    /\ mi' = mi + 1
    /\ mpc' = "walk"
    /\ UNCHANGED <<par, busy, extra, pools, workers, goal, intry, toadd, normal, sig>>

\* (Mutant of EndCheck: the pool is filled up to its maximum.)
BugEndCheck ==
    LET kept == SelectSeq(active[dict], LAMBDA c : st[c] # "closed")
    IN /\ mpc = "walk" /\ goal = "check" /\ Proceeds /\ AtEnd
       /\ active' = [active EXCEPT ![dict] = kept]
       /\ toadd' = PoolMin
       /\ mpc' = "adding"
       /\ UNCHANGED <<conns, lock, dict, made, closed, workers, goal, mi, intry,
                      held, normal, sig>>

\* (Mutant of EndCheck: connections from the minimum on are dropped, not closed.)
BugEndCheckTrims ==
    LET kept == SelectSeq(active[dict], LAMBDA c : st[c] # "closed")
    IN /\ mpc = "walk" /\ goal = "check" /\ Proceeds /\ AtEnd
       /\ active' = [active EXCEPT ![dict] =
                        SubSeq(kept, 1, IF Len(kept) < PoolMin THEN Len(kept) ELSE PoolMin - 1)]
       /\ toadd' = 0 /\ mi' = 1
       /\ mpc' = "adding"
       /\ UNCHANGED <<conns, lock, dict, made, closed, workers, goal, intry,
                      held, normal, sig>>

\* What is no longer active leaves the pool, which keeps its order; how many are
\* to be added.  A pool that ran empty is left alone for some passes.
EndCheck ==
    LET A    == active[dict]
        Stay == {k \in DOMAIN A : st[A[k]] # "closed"}
    IN /\ mpc = "walk" /\ goal = "check" /\ Proceeds /\ AtEnd
       /\ \E n \in 0..Len(A) : \E at \in [1..n -> Stay] :
             /\ Stay = {at[k] : k \in 1..n} /\ \A j, k \in 1..n : j < k => at[j] < at[k]
             /\ active' = [active EXCEPT ![dict] = [k \in 1..n |-> A[at[k]]]]
             /\ IF n > 0 \/ normal >= Patience
                  THEN normal' = 0 /\ toadd' = IF n < PoolMin THEN PoolMin - n ELSE 0
                  ELSE normal' = normal + 1 /\ toadd' = 0
       /\ mpc' = "adding" /\ mi' = 1
       /\ UNCHANGED <<conns, lock, dict, made, closed, workers, goal, intry, held, sig>>

\* add_active_connect of init_loop; the first failure ends the loop.
Add ==
    /\ mpc = "adding" /\ toadd > 0 /\ Proceeds
    /\ \/ /\ \E c \in Conn : /\ IsNext(c)
                             /\ st' = [st EXCEPT ![c] = "open"]
                             /\ active' = [active EXCEPT ![dict] = Append(@, c)]
          /\ toadd' = toadd - 1
          /\ UNCHANGED par
       \/ FailedConnect /\ toadd' = 0 /\ UNCHANGED active
    /\ UNCHANGED <<busy, extra, lock, dict, made, closed, workers, mpc, goal, mi,
                   intry, held, normal, sig>>

\* The finally of init_loop.
ReleasePool ==
    /\ mpc = "adding" /\ toadd = 0 /\ Proceeds
    /\ lock' = [lock EXCEPT ![dict] = Nobody]
    /\ intry' = FALSE
    /\ mpc' = "idle"
    /\ UNCHANGED <<conns, active, dict, made, closed, workers, goal, mi, held,
                   toadd, normal, sig>>

\* RemoteHost.close is through with its loop, which sees what is appended to
\* the list meanwhile, but not what is appended from here on.
EndClosing ==
    /\ mpc = "walk" /\ goal # "check" /\ Proceeds /\ AtEnd
    /\ mpc' = "clear"
    /\ UNCHANGED <<conns, pools, workers, goal, mi, intry, held, toadd, normal, sig>>

\* del active_connect[:], and the dict forgets the pool.  A SystemExit raised
\* by the handler unwinds through the finally of init_loop.
Clear ==
    /\ mpc = "clear" /\ Proceeds
    /\ active' = [active EXCEPT ![dict] = <<>>]
    /\ lock' = IF intry THEN [lock EXCEPT ![dict] = Nobody] ELSE lock
    /\ closed' = IF goal = "remove" THEN closed ELSE closed \cup {dict}
    /\ dict' = 0
    /\ intry' = FALSE
    /\ mpc' = CASE goal = "remove" -> "idle"
                [] goal = "leave"  -> "out"
                [] goal = "term"   -> "exited"
    /\ mi' = 1
    /\ UNCHANGED <<conns, made, workers, goal, held, toadd, normal, sig>>

-----------------------------------------------------------------------------
WorkerStep(w) ==
    \/ Lookup(w) \/ Ask(w) \/ Connected(w) \/ ConnectFails(w)
    \/ TakeChan(w) \/ Answer(w) \/ Count(w)

MainStep ==
    \/ AcquirePool \/ EnterTry \/ Handle \/ Skip \/ BeginClose \/ EndClose
    \/ EndCheck \/ Add \/ ReleasePool \/ EndClosing \/ Clear

Next ==
    \/ \E w \in Worker : WorkerStep(w)
    \/ \E c \in Conn : Drop(c)
    \/ CreatePool \/ BeginInitLoop \/ LeaveCluster \/ SigTerm
    \/ MainStep

Spec == Init /\ [][Next]_vars

\* The threads end their requests: a lock is not kept from them for ever,
\* since every thread asks a bounded number of times; connecting has a
\* timeout; an exchange ends at the latest when its connection is closed.
\* A command without a timeout that hangs on an open connection may not end.
Fairness ==
    /\ WF_vars(MainStep) /\ SF_vars(AcquirePool)
    /\ \A w \in Worker :
          /\ SF_vars(Ask(w))
          /\ WF_vars(Connected(w) \/ ConnectFails(w))
          /\ WF_vars(TakeChan(w)) /\ WF_vars(Count(w))
          /\ WF_vars(wpc[w] = "running" /\ st[wconn[w]] # "open" /\ Answer(w))

FairSpec == Spec /\ Fairness

-----------------------------------------------------------------------------
(* Properties. *)

\* The pool never holds more than ssh_pool_max connections, although the
\* bound is checked before a connect that takes seconds, and both the threads
\* and init_loop add to it.
PoolBounded == \A p \in Pools : Len(active[p]) <= PoolMax

Users(c) == {w \in Worker : wconn[w] = c /\ wpc[w] \in {"granted", "running", "counting"}}

\* parallel_number counts the users of a connection, except for the one that
\* opened it on demand: ask_for_ssh_connect hands such a connection out
\* without counting, and its user is subtracted when it ends all the same.
CountedUsers ==
    \A c \in Conn : par[c] >= 0 =>
        Cardinality(Users(c)) <= par[c] + (IF c \in extra THEN 1 ELSE 0)

\* Two commands never share a channel: their answers would be mixed.
ChannelExclusive ==
    \A v, w \in Worker :
        /\ v # w /\ wpc[v] = "running" /\ wpc[w] = "running"
        => <<wconn[v], wchan[v]>> # <<wconn[w], wchan[w]>>

\* As many users as channels are admitted, so a command finds a channel; only
\* on a connection opened on demand can it fail to ('unable to get channel').
ChannelFound ==
    [][\A w \in Worker : wpc[w] = "granted" /\ wpc'[w] = "counting"
                           => wconn[w] \in extra]_vars

\* The pool of a node that left /etc/hosts is closed under its lock and stays
\* empty, whoever still asks it.
RemovedStaysEmpty ==
    \A p \in 1..made : p # dict /\ p \notin closed => active[p] = <<>>

Pooled(c) == dict # 0 /\ \E k \in DOMAIN active[dict] : active[dict][k] = c

\* Connections nobody will close: only such as a thread opened while
\* Share.close gave up the pool without its lock, or as failed half-way.
OrphansAreOnDemand ==
    \A c \in Conn : st[c] \in {"open", "dead"} /\ ~Pooled(c)
                       => c \in extra /\ closed # {}

Ended == mpc = "exited" /\ \A w \in Worker : wpc[w] = "idle"

\* The handler waits for the lock of a connection that the code it interrupts
\* was closing; or it interrupted init_loop between acquire and try, and the
\* lock of the pool is never released; or a command hangs on an orphan.
OwnLock  == goal = "term" /\ mpc = "walk" /\ ~AtEnd /\ active[dict][mi] \in held
LockLost == mpc = "exited" /\ \E p \in Pools : lock[p] = Main
Hanging  == \E w \in Worker : wpc[w] = "running" /\ st[wconn[w]] = "open"
                                 /\ ~Pooled(wconn[w])

\* SIGTERM ends the process with all its threads, unless one of these three.
StopEnds == sig ~> (Ended \/ OwnLock \/ LockLost \/ Hanging)
=============================================================================
