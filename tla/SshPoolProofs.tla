---------------------------- MODULE SshPoolProofs ----------------------------
(***************************************************************************)
(* The pool of ssh connections for any number of record threads,           *)
(* connections, channels and pools: it stays within its bounds, its counts *)
(* are those of the users there are, and no two commands share a channel.  *)
(*                                                                         *)
(* None of this is inductive by itself.  The bound of a pool rests on who  *)
(* has its lock while it connects (Locked, Reserved); that a pool that was *)
(* given up stays empty, on the order in which it is closed (Given,        *)
(* Walked); that a command finds a channel, on how many of the users of a  *)
(* connection may stand at a channel or behind it (Spread).                *)
(***************************************************************************)
EXTENDS SshPool, FiniteSetTheorems, TLAPS

\* Who has the lock of a pool: the thread that connects, or the main thread
\* between its acquire and release.
Locked ==
    /\ \A w \in Worker : wpc[w] = "connecting" => lock[wpool[w]] = w
    /\ intry \/ mpc = "taken" => dict # 0 /\ lock[dict] = Main
    /\ mpc = "adding" => intry /\ goal = "check"
    /\ mpc \in {"walk", "closing", "clear"} =>
           dict # 0 /\ (goal \in {"check", "remove"} => intry)
    /\ mpc = "waiting" => dict # 0

\* A thread that connects has its place: nobody else may add a connection.
Reserved ==
    /\ dict \in 0..made /\ mi # 0
    /\ \A w \in Worker : wpc[w] \in {"asking", "connecting"} => wpool[w] \in 1..made
    /\ \A w \in Worker : wpc[w] = "connecting" => Len(active[wpool[w]]) < PoolMax
    /\ mpc = "adding" => Len(active[dict]) + toadd <= PoolMax

\* A pool that was given up is empty, and nobody connects for it.
Given ==
    \A p \in 1..made : p # dict /\ p \notin closed =>
        active[p] = <<>> /\ \A w \in Worker : wpc[w] = "connecting" => wpool[w] # p

\* How far a loop over the connections has come, and what it did to them.
Walked ==
    mpc \in {"walk", "closing", "clear"} =>
        /\ mi <= Len(active[dict]) + 1
        /\ mpc = "closing" => mi \in DOMAIN active[dict]
        /\ mpc = "clear" => goal # "check"
        /\ goal # "check" =>
               \A k \in DOMAIN active[dict] : k < mi => st[active[dict][k]] = "closed"
        /\ mpc = "clear" =>
               \A k \in DOMAIN active[dict] :
                   k < mi \/ (active[dict][k] \in extra /\ goal # "remove")

\* A connection somebody has, or the pool has, was opened.
Used ==
    /\ \A w \in Worker : wpc[w] \in {"granted", "running", "counting"} =>
           wconn[w] \in Conn /\ st[wconn[w]] # "new"
    /\ \A p \in Pools : \A k \in DOMAIN active[p] : st[active[p][k]] # "new"

\* What the counts of users need besides: the users are finitely many.
Counted ==
    /\ CountedUsers
    /\ \A c \in Conn : IsFiniteSet(Users(c))

\* A channel is busy exactly while a command runs on it.
Taken ==
    /\ \A w \in Worker : wpc[w] = "running" => busy[wconn[w]][wchan[w]]
    /\ ChannelExclusive
    /\ \A c \in Conn, k \in Chan : busy[c][k] =>
          \E w \in Worker : wpc[w] = "running" /\ wconn[w] = c /\ wchan[w] = k

\* The users of a connection that stand at channel k or behind it.
Behind(c, k) ==
    {w \in Worker : wconn[w] = c /\ wpc[w] \in {"granted", "running"} /\ wchan[w] >= k}

\* They are no more than the channels there are from k on.
Spread ==
    \A c \in Conn, k \in Chan : c \notin extra => Cardinality(Behind(c, k)) <= ParMax - k + 1

PoolInv ==
    /\ TypeOK /\ Locked /\ Reserved /\ PoolBounded /\ Given /\ Walked /\ Used
    /\ OrphansAreOnDemand /\ Counted /\ Taken /\ Spread

\* What Append returns.
LEMMA AppendFacts ==
    ASSUME NEW S, NEW s \in Seq(S), NEW x \in S
    PROVE  /\ Append(s, x) \in Seq(S) /\ Len(Append(s, x)) = Len(s) + 1 /\ Len(s) \in Nat
           /\ DOMAIN s = 1..Len(s) /\ DOMAIN Append(s, x) = 1..(Len(s) + 1)
           /\ \A k \in 1..Len(s) : Append(s, x)[k] = s[k]
           /\ Append(s, x)[Len(s) + 1] = x
OBVIOUS

\* The connections that were opened are finitely many.
LEMMA FewConnections ==
    ASSUME SshPoolAssumption
    PROVE  Cardinality({c \in Conn : st[c] # "new"}) \in Nat
<1>1. IsFiniteSet(1..MaxConn)
  BY FS_Interval DEF SshPoolAssumption
<1>2. IsFiniteSet({c \in Conn : st[c] # "new"})
  BY <1>1, FS_Subset DEF Conn
<1> QED
  BY <1>2, FS_CardinalityType

\* A pool with one more connection.
LEMMA Appended ==
    ASSUME TypeOK, NEW p \in Pools, NEW c \in Conn, active' = [active EXCEPT ![p] = Append(@, c)]
    PROVE  /\ active' \in [Pools -> Seq(Conn)]
           /\ \A q \in Pools : q # p => active'[q] = active[q]
           /\ Len(active[p]) \in Nat /\ Len(active'[p]) = Len(active[p]) + 1
           /\ DOMAIN active[p] = 1..Len(active[p])
           /\ DOMAIN active'[p] = 1..(Len(active[p]) + 1)
           /\ \A k \in DOMAIN active[p] : active'[p][k] = active[p][k]
           /\ active'[p][Len(active[p]) + 1] = c
           /\ DOMAIN active[p] \subseteq DOMAIN active'[p]
           /\ \E k \in DOMAIN active'[p] : active'[p][k] = c
<1>1. active \in [Pools -> Seq(Conn)] /\ active[p] \in Seq(Conn)
  BY DEF TypeOK
<1>2. active'[p] = Append(active[p], c) /\ Append(active[p], c) \in Seq(Conn)
  BY <1>1
<1>3. active' \in [Pools -> Seq(Conn)]
  BY <1>1, <1>2
<1>4. /\ Len(active[p]) \in Nat /\ DOMAIN active[p] = 1..Len(active[p])
      /\ DOMAIN active'[p] = 1..(Len(active[p]) + 1) /\ active'[p][Len(active[p]) + 1] = c
      /\ Len(active'[p]) = Len(active[p]) + 1
      /\ \A k \in DOMAIN active[p] : active'[p][k] = active[p][k]
  BY <1>1, <1>2, AppendFacts
<1>5. Len(active[p]) + 1 \in DOMAIN active'[p] /\ DOMAIN active[p] \subseteq DOMAIN active'[p]
  BY <1>4
<1>6. \A q \in Pools : q # p => active'[q] = active[q]
  BY <1>1
<1> QED
  BY <1>3, <1>4, <1>5, <1>6

\* What EndCheck leaves in the pool: connections that were in it, and all that
\* were not closed.
LEMMA Remaining ==
    ASSUME SshPoolAssumption, TypeOK, dict # 0, EndCheck
    PROVE  \E kept \in Seq(Conn) :
              /\ active' = [active EXCEPT ![dict] = kept] /\ Len(kept) <= Len(active[dict])
              /\ \A k \in DOMAIN kept : \E j \in DOMAIN active[dict] : kept[k] = active[dict][j]
              /\ \A j \in DOMAIN active[dict] : st[active[dict][j]] # "closed" =>
                    \E k \in DOMAIN kept : kept[k] = active[dict][j]
              /\ toadd' \in 0..PoolMin /\ normal' \in 0..Patience
              /\ toadd' = 0 \/ Len(kept) + toadd' = PoolMin
<1> DEFINE A == active[dict]
           Stay == {k \in DOMAIN A : st[A[k]] # "closed"}
<1>1. dict \in Pools /\ A \in Seq(Conn)
  BY DEF TypeOK
<1>2. PICK n \in 0..Len(A) : \E at \in [1..n -> Stay] :
           /\ Stay = {at[k] : k \in 1..n}
           /\ active' = [active EXCEPT ![dict] = [k \in 1..n |-> A[at[k]]]]
           /\ IF n > 0 \/ normal >= Patience
                THEN normal' = 0 /\ toadd' = IF n < PoolMin THEN PoolMin - n ELSE 0
                ELSE normal' = normal + 1 /\ toadd' = 0
  BY DEF EndCheck
<1>3. PICK at \in [1..n -> Stay] :
           /\ Stay = {at[k] : k \in 1..n}
           /\ active' = [active EXCEPT ![dict] = [k \in 1..n |-> A[at[k]]]]
  BY <1>2
<1> DEFINE kept == [k \in 1..n |-> A[at[k]]]
<1>4. n \in Nat /\ kept \in Seq(Conn) /\ Len(kept) = n /\ DOMAIN kept = 1..n
  <2>1. n \in Nat /\ \A k \in 1..n : A[at[k]] \in Conn
    BY <1>1, <1>3
  <2> QED
    BY <2>1
<1>5. \A k \in DOMAIN kept : at[k] \in DOMAIN A /\ kept[k] = A[at[k]]
  BY <1>3
<1>6. ASSUME NEW j \in DOMAIN A, st[A[j]] # "closed"
      PROVE  \E k \in DOMAIN kept : kept[k] = A[j]
  BY <1>3, <1>6
<1>7. /\ toadd' \in 0..PoolMin /\ normal' \in 0..Patience
      /\ toadd' = 0 \/ n + toadd' = PoolMin
  <2>1. n \in Nat /\ PoolMin \in Nat /\ normal \in 0..Patience /\ Patience \in Nat
    BY <1>4 DEF TypeOK, SshPoolAssumption
  <2> HIDE DEF A, Stay
  <2> QED
    BY <1>2, <2>1
<1>8. Len(kept) <= Len(A)
  BY <1>1, <1>4
<1>9. active' = [active EXCEPT ![dict] = kept]
  BY <1>3
<1> HIDE DEF kept
<1> QED
  BY <1>4, <1>5, <1>6, <1>7, <1>8, <1>9

\* The invariant holds in every initial state.
LEMMA PoolInvInit == SshPoolAssumption /\ Init => PoolInv
<1> SUFFICES ASSUME SshPoolAssumption, Init PROVE PoolInv
  OBVIOUS
<1>1. TypeOK
  <2>1. /\ active \in [Pools -> Seq(Conn)]
        /\ st \in [Conn -> {"new", "open", "dead", "closed", "half"}]
    BY DEF Init
  <2>2. par \in [Conn -> 0..ParMax \cup {Closed}] /\ busy \in [Conn -> [Chan -> BOOLEAN]]
    BY DEF Init, SshPoolAssumption
  <2>3. 1 \in Pools /\ 1 \in Chan
    BY DEF Pools, Chan, SshPoolAssumption
  <2>4. lock \in [Pools -> Worker \cup {Main, Nobody}]
    BY DEF Init
  <2>5. /\ wpool \in [Worker -> Pools] /\ wconn \in [Worker -> Conn \cup {NoConn}]
        /\ wchan \in [Worker -> Chan]
    BY <2>3 DEF Init
  <2>6. wpc \in [Worker -> {"idle", "asking", "connecting", "granted", "running", "counting"}]
    BY DEF Init
  <2>7. /\ dict \in Pools \cup {0} /\ made \in 0..MaxPool /\ closed \subseteq Pools
        /\ mi \in Nat /\ toadd \in 0..PoolMin /\ normal \in 0..Patience
    BY DEF Init, SshPoolAssumption
  <2>8. /\ mpc = "out" /\ goal = "check" /\ intry \in BOOLEAN /\ held \subseteq Conn
        /\ sig \in BOOLEAN /\ extra \subseteq Conn
    BY DEF Init
  <2> QED
    BY <2>1, <2>2, <2>4, <2>5, <2>6, <2>7, <2>8 DEF TypeOK
<1>2. Locked /\ Reserved /\ Given /\ Walked
  BY DEF Locked, Reserved, Given, Walked, Init
<1>3. PoolBounded /\ Used
  BY DEF PoolBounded, Used, Init, SshPoolAssumption
<1>4. OrphansAreOnDemand /\ Taken
  BY DEF OrphansAreOnDemand, Taken, ChannelExclusive, Init
<1>5. Counted
  <2>1. \A c \in Conn : Users(c) = {}
    BY DEF Users, Init
  <2>2. IsFiniteSet({}) /\ Cardinality({}) = 0
    BY FS_EmptySet
  <2>3. ASSUME NEW c \in Conn
        PROVE  Cardinality(Users(c)) <= par[c] + (IF c \in extra THEN 1 ELSE 0)
    <3>1. Cardinality(Users(c)) = 0 /\ par[c] = 0 /\ extra = {}
      BY <2>1, <2>2 DEF Init
    <3> QED
      BY <3>1
  <2> QED
    BY <2>1, <2>2, <2>3 DEF Counted, CountedUsers
<1>6. Spread
  <2>1. ASSUME NEW c \in Conn, NEW k \in Chan
        PROVE  Cardinality(Behind(c, k)) <= ParMax - k + 1
    <3>1. Behind(c, k) = {}
      BY DEF Behind, Init
    <3>2. Cardinality(Behind(c, k)) = 0
      BY <3>1, FS_EmptySet
    <3> QED
      BY <3>2 DEF Chan, SshPoolAssumption
  <2> QED
    BY <2>1 DEF Spread
<1> QED
  BY <1>1, <1>2, <1>3, <1>4, <1>5, <1>6 DEF PoolInv

\* A set that gains at most one element.
LEMMA OneMoreUser ==
    ASSUME NEW S, IsFiniteSet(S), NEW w, NEW T, T \subseteq S \cup {w}
    PROVE  /\ IsFiniteSet(T) /\ Cardinality(T) <= Cardinality(S) + 1
           /\ Cardinality(T) \in Nat /\ Cardinality(S) \in Nat
<1>1. IsFiniteSet(S \cup {w}) /\ Cardinality(S) \in Nat /\ Cardinality(S \cup {w}) \in Nat
      /\ Cardinality(S \cup {w}) <= Cardinality(S) + 1
  <2>1. /\ IsFiniteSet(S \cup {w})
        /\ Cardinality(S \cup {w}) = IF w \in S THEN Cardinality(S) ELSE Cardinality(S) + 1
    BY FS_AddElement
  <2>2. Cardinality(S) \in Nat
    BY FS_CardinalityType
  <2> QED
    BY <2>1, <2>2
<1>2. IsFiniteSet(T) /\ Cardinality(T) <= Cardinality(S \cup {w}) /\ Cardinality(T) \in Nat
  BY <1>1, FS_Subset, FS_CardinalityType
<1> QED
  BY <1>1, <1>2

\* The counts stay right if no connection gains a user.
LEMMA NoMoreUsers ==
    ASSUME TypeOK, Counted, extra \subseteq extra',
           \A c \in Conn : /\ Users(c)' \subseteq Users(c)
                           /\ par'[c] >= 0 => par'[c] = par[c]
    PROVE  Counted'
<1>1. ASSUME NEW c \in Conn
      PROVE  /\ IsFiniteSet(Users(c)')
             /\ par'[c] >= 0 =>
                    Cardinality(Users(c)') <= par'[c] + (IF c \in extra' THEN 1 ELSE 0)
  <2>1. IsFiniteSet(Users(c)) /\ Users(c)' \subseteq Users(c) /\ par[c] \in Int
    BY DEF Counted, TypeOK, Closed
  <2>2. /\ IsFiniteSet(Users(c)') /\ Cardinality(Users(c)') <= Cardinality(Users(c))
        /\ Cardinality(Users(c)) \in Nat /\ Cardinality(Users(c)') \in Nat
    BY <2>1, FS_Subset, FS_CardinalityType
  <2>3. ASSUME par'[c] >= 0
        PROVE  Cardinality(Users(c)') <= par'[c] + (IF c \in extra' THEN 1 ELSE 0)
    <3>1. par'[c] = par[c]
      BY <2>3
    <3>2. Cardinality(Users(c)) <= par[c] + (IF c \in extra THEN 1 ELSE 0)
      BY <2>3, <3>1 DEF Counted, CountedUsers
    <3>3. c \in extra => c \in extra'
      OBVIOUS
    <3> QED
      BY <2>1, <2>2, <3>1, <3>2, <3>3
  <2> QED
    BY <2>2, <2>3
<1> QED
  BY <1>1 DEF Counted, CountedUsers

\* The users stay spread if nobody gets to a channel.
LEMMA NobodyMovesBack ==
    ASSUME SshPoolAssumption, Counted, Spread, extra \subseteq extra',
           \A c \in Conn, k \in Chan : Behind(c, k)' \subseteq Behind(c, k)
    PROVE  Spread'
<1> SUFFICES ASSUME NEW c \in Conn, NEW k \in Chan, c \notin extra'
             PROVE  Cardinality(Behind(c, k)') <= ParMax - k + 1
  BY DEF Spread
<1>1. IsFiniteSet(Users(c)) /\ Behind(c, k) \subseteq Users(c)
  BY DEF Counted, Behind, Users
<1>2. IsFiniteSet(Behind(c, k)) /\ Behind(c, k)' \subseteq Behind(c, k)
  BY <1>1, FS_Subset
<1>3. /\ Cardinality(Behind(c, k)') <= Cardinality(Behind(c, k))
      /\ Cardinality(Behind(c, k)') \in Nat /\ Cardinality(Behind(c, k)) \in Nat
  BY <1>2, FS_Subset, FS_CardinalityType
<1>4. Cardinality(Behind(c, k)) <= ParMax - k + 1
  BY DEF Spread
<1> QED
  BY <1>3, <1>4 DEF Chan, SshPoolAssumption

\* No step breaks the types,
LEMMA TypeOKNext ==
    ASSUME SshPoolAssumption, PoolInv, [Next]_vars
    PROVE  TypeOK'
<1> USE DEF PoolInv
<1>1. ASSUME NEW w \in Worker, Lookup(w) PROVE TypeOK'
  BY <1>1 DEF Lookup, Goto, conns, pools, workers, main, TypeOK, Chan, Conn, Pools,
               Closed,
              SshPoolAssumption
<1>2. ASSUME NEW w \in Worker, Ask(w) PROVE TypeOK'
  <2> DEFINE A == active[wpool[w]]
  <2>1. wpool[w] \in Pools /\ A \in Seq(Conn) /\ w \in Worker
    BY DEF TypeOK
  <2>2. 1 \in Pools /\ 1 \in Chan
    BY DEF Pools, Chan, SshPoolAssumption
  <2>3. UNCHANGED <<st, busy, extra, active, dict, made, closed, main, sig>>
    BY <1>2 DEF Ask
  <2>4. ASSUME NEW k \in DOMAIN A, Available(A[k]),
               par' = [par EXCEPT ![A[k]] = @ + 1], wconn' = [wconn EXCEPT ![w] = A[k]],
               wchan' = [wchan EXCEPT ![w] = 1], Goto(w, "granted"), UNCHANGED <<lock, wpool>>
        PROVE  TypeOK'
    <3>1. A[k] \in Conn /\ par \in [Conn -> 0..ParMax \cup {Closed}]
      BY <2>1 DEF TypeOK
    <3>2. par[A[k]] + 1 \in 0..ParMax
      BY <2>4, <3>1 DEF Available, Closed, SshPoolAssumption
    <3>3. par' \in [Conn -> 0..ParMax \cup {Closed}]
      BY <2>4, <3>1, <3>2
    <3> QED
      BY <2>1, <2>2, <2>3, <2>4, <3>1, <3>3 DEF Goto, TypeOK, conns, pools, workers, main
  <2>5. CASE lock' = [lock EXCEPT ![wpool[w]] = w] /\ Goto(w, "connecting")
             /\ UNCHANGED <<par, wpool, wconn, wchan>>
    BY <2>1, <2>3, <2>5 DEF Goto, TypeOK, conns, pools, workers, main
  <2>6. CASE Finish(w) /\ UNCHANGED <<par, lock>>
    BY <2>1, <2>2, <2>3, <2>6 DEF Finish, Goto, TypeOK, conns, pools, workers, main
  <2> QED
    BY <1>2, <2>4, <2>5, <2>6 DEF Ask
<1>3. ASSUME NEW w \in Worker, Connected(w) PROVE TypeOK'
  <2>1. PICK c \in Conn :
           /\ st' = [st EXCEPT ![c] = "open"]
           /\ active' = [active EXCEPT ![wpool[w]] = Append(@, c)]
           /\ extra' = extra \cup {c} /\ wconn' = [wconn EXCEPT ![w] = c]
    BY <1>3 DEF Connected
  <2>2. active' \in [Pools -> Seq(Conn)]
    BY <2>1, Appended DEF TypeOK
  <2>3. 1 \in Chan
    BY DEF Chan, SshPoolAssumption
  <2>4. /\ st' \in [Conn -> {"new", "open", "dead", "closed", "half"}]
        /\ extra' \subseteq Conn /\ wconn' \in [Worker -> Conn \cup {NoConn}]
    BY <2>1 DEF TypeOK
  <2>5. /\ lock' \in [Pools -> Worker \cup {Main, Nobody}] /\ wchan' \in [Worker -> Chan]
        /\ wpc' \in [Worker -> {"idle", "asking", "connecting", "granted", "running", "counting"}]
    BY <1>3, <2>3 DEF Connected, Goto, TypeOK
  <2> QED
    BY <1>3, <2>2, <2>4, <2>5 DEF Connected, TypeOK, conns, pools, workers, main
<1>4. ASSUME NEW w \in Worker, ConnectFails(w) PROVE TypeOK'
  <2>1. /\ st' \in [Conn -> {"new", "open", "dead", "closed", "half"}]
        /\ par' \in [Conn -> 0..ParMax \cup {Closed}]
    BY <1>4 DEF ConnectFails, FailedConnect, TypeOK
  <2>2. 1 \in Pools /\ 1 \in Chan
    BY DEF Pools, Chan, SshPoolAssumption
  <2>3. /\ lock' \in [Pools -> Worker \cup {Main, Nobody}] /\ wpool' \in [Worker -> Pools]
        /\ wconn' \in [Worker -> Conn \cup {NoConn}] /\ wchan' \in [Worker -> Chan]
    BY <1>4, <2>2 DEF ConnectFails, Finish, TypeOK
  <2> QED
    BY <1>4, <2>1, <2>3 DEF ConnectFails, Finish, Goto, TypeOK, conns, pools, workers, main
<1>5. ASSUME NEW w \in Worker, TakeChan(w) PROVE TypeOK'
  <2>1. busy' \in [Conn -> [Chan -> BOOLEAN]]
    <3>1. CASE UNCHANGED busy
      BY <3>1 DEF TypeOK
    <3>2. CASE busy' = [busy EXCEPT ![wconn[w]][wchan[w]] = TRUE]
      BY <3>2 DEF TypeOK
    <3> QED
      BY <1>5, <3>1, <3>2 DEF TakeChan
  <2>2. \/ Goto(w, "running") /\ UNCHANGED wchan
        \/ wchan[w] < ParMax /\ wchan' = [wchan EXCEPT ![w] = wchan[w] + 1] /\ UNCHANGED wpc
        \/ Goto(w, "counting") /\ UNCHANGED wchan
    BY <1>5 DEF TakeChan
  <2>3. wchan \in [Worker -> Chan] /\ wchan[w] \in Chan
    BY DEF TypeOK
  <2>4. wchan' \in [Worker -> Chan]
    BY <2>2, <2>3 DEF Chan, SshPoolAssumption
  <2>5. wpc' \in [Worker -> {"idle", "asking", "connecting", "granted", "running", "counting"}]
    BY <2>2 DEF Goto, TypeOK
  <2> QED
    BY <1>5, <2>1, <2>4, <2>5 DEF TakeChan, TypeOK, conns, pools, workers, main
<1>6. ASSUME NEW w \in Worker, Answer(w) PROVE TypeOK'
  BY <1>6, ZenonT(60) DEF Answer, Goto, conns, pools, workers, main, TypeOK, Chan, Conn, Pools,
               Closed,
              SshPoolAssumption
<1>7. ASSUME NEW w \in Worker, Count(w) PROVE TypeOK'
  <2>1. /\ par \in [Conn -> 0..ParMax \cup {Closed}]
        /\ par' = [par EXCEPT ![wconn[w]] = IF @ > 0 THEN @ - 1 ELSE @]
    BY <1>7 DEF Count, TypeOK
  <2>2. ASSUME NEW c \in Conn
        PROVE  (IF par[c] > 0 THEN par[c] - 1 ELSE par[c]) \in 0..ParMax \cup {Closed}
    BY <2>1 DEF Closed, SshPoolAssumption
  <2>3. par' \in [Conn -> 0..ParMax \cup {Closed}]
    BY <2>1, <2>2
  <2>4. 1 \in Pools /\ 1 \in Chan
    BY DEF Pools, Chan, SshPoolAssumption
  <2> QED
    BY <1>7, <2>3, <2>4 DEF Count, Finish, Goto, TypeOK, conns, pools, workers, main
<1>8. ASSUME NEW c \in Conn, Drop(c) PROVE TypeOK'
  BY <1>8 DEF Drop, conns, pools, workers, main, TypeOK, Chan, Conn, Pools,
               Closed,
              SshPoolAssumption
<1>9. CASE CreatePool
  <2> DEFINE u == Cardinality({c \in Conn : st[c] # "new"})
  <2>1. u \in Nat
    BY FewConnections
  <2> HIDE DEF u
  <2>2. PICK n \in 0..PoolMin, h \in 0..PoolMin :
           /\ n + h <= PoolMin /\ u + n + h <= MaxConn
           /\ active' = [active EXCEPT ![made + 1] = [k \in 1..n |-> u + k]]
           /\ st' = [c \in Conn |-> IF c \in u + 1..u + n THEN "open"
                                   ELSE IF c \in u + n + 1..u + n + h THEN "half"
                                   ELSE st[c]]
           /\ par' = [c \in Conn |-> IF c \in u + n + 1..u + n + h THEN Closed ELSE par[c]]
    BY <1>9 DEF CreatePool, u
  <2>3. [k \in 1..n |-> u + k] \in Seq(Conn)
    <3>1. n \in Nat /\ \A k \in 1..n : u + k \in Conn
      BY <2>1, <2>2 DEF Conn, SshPoolAssumption
    <3> QED
      BY <3>1
  <2>4. active' \in [Pools -> Seq(Conn)]
    BY <2>2, <2>3 DEF TypeOK
  <2>5. st' \in [Conn -> {"new", "open", "dead", "closed", "half"}]
    BY <2>2 DEF TypeOK
  <2>6. par' \in [Conn -> 0..ParMax \cup {Closed}]
    BY <2>2 DEF TypeOK
  <2>7. dict' \in Pools \cup {0} /\ made' \in 0..MaxPool /\ normal' \in 0..Patience
    BY <1>9 DEF CreatePool, TypeOK, Pools, SshPoolAssumption
  <2> QED
    BY <1>9, <2>4, <2>5, <2>6, <2>7 DEF CreatePool, TypeOK, conns, pools, workers, main
<1>10. CASE BeginInitLoop
  BY <1>10 DEF BeginInitLoop, conns, pools, workers, main, TypeOK, Chan, Conn, Pools,
               Closed,
               SshPoolAssumption
<1>11. CASE LeaveCluster
  BY <1>11 DEF LeaveCluster, Walk, conns, pools, workers, main, TypeOK, Chan, Conn, Pools,
               Closed, SshPoolAssumption
<1>12. CASE SigTerm
  BY <1>12 DEF SigTerm, conns, pools, workers, main, TypeOK, Chan, Conn, Pools,
               Closed,
               SshPoolAssumption
<1>13. CASE AcquirePool
  BY <1>13 DEF AcquirePool, conns, pools, workers, main, TypeOK, Chan, Conn, Pools,
               Closed,
               SshPoolAssumption
<1>14. CASE EnterTry
  BY <1>14 DEF EnterTry, Walk, conns, pools, workers, main, TypeOK, Chan, Conn, Pools,
               Closed,
               SshPoolAssumption
<1>15. CASE Handle
  <2>1. /\ UNCHANGED <<conns, active, dict, made, closed, workers, intry, held, toadd, normal, sig>>
        /\ lock' = lock /\ goal' = "term" /\ mpc' \in {"walk", "exited"}
        /\ mi' \in {1, mi}
    BY <1>15 DEF Handle, Walk
  <2> QED
    BY <2>1 DEF TypeOK, conns, pools, workers, main
<1>16. CASE Skip
  BY <1>16, SMTT(30) DEF Skip, Proceeds, conns, pools, workers, main, TypeOK, Chan, Conn, Pools,
               Closed,
               SshPoolAssumption
<1>17. CASE BeginClose
  <2>1. active[dict] \in Seq(Conn) /\ mi \in Nat \ {0} /\ ~(mi > Len(active[dict]))
    BY <1>17 DEF BeginClose, AtEnd, Locked, Reserved, TypeOK
  <2>2. active[dict][mi] \in Conn
    BY <2>1
  <2> QED
    BY <1>17, <2>2 DEF BeginClose, TypeOK, conns, pools, workers, main
<1>18. CASE EndClose
  <2>1. mi \in DOMAIN active[dict] /\ active[dict] \in Seq(Conn) /\ mi + 1 \in Nat
    BY <1>18 DEF EndClose, Walked, Locked, TypeOK
  <2>2. active[dict][mi] \in Conn
    BY <2>1
  <2> QED
    BY <1>18, <2>1, <2>2 DEF EndClose, TypeOK, conns, pools, workers, main
<1>19. CASE EndCheck
  <2>1. dict \in Pools /\ dict # 0
    BY <1>19 DEF EndCheck, Locked, TypeOK
  <2>2. PICK kept \in Seq(Conn) :
           /\ active' = [active EXCEPT ![dict] = kept]
           /\ toadd' \in 0..PoolMin /\ normal' \in 0..Patience
    BY <1>19, <2>1, Remaining
  <2>3. active' \in [Pools -> Seq(Conn)]
    BY <2>1, <2>2 DEF TypeOK
  <2> QED
    BY <1>19, <2>2, <2>3 DEF EndCheck, TypeOK, conns, pools, workers, main
<1>20. CASE Add
  <2>1. active' \in [Pools -> Seq(Conn)]
    <3>1. CASE UNCHANGED active
      BY <3>1 DEF TypeOK
    <3>2. ASSUME NEW c \in Conn, active' = [active EXCEPT ![dict] = Append(@, c)]
          PROVE  active' \in [Pools -> Seq(Conn)]
      <4>1. dict \in Pools /\ active \in [Pools -> Seq(Conn)]
        BY <1>20 DEF Add, Locked, TypeOK
      <4> QED
        BY <3>2, <4>1, Appended
    <3> QED
      BY <1>20, <3>1, <3>2 DEF Add
  <2>2. /\ st' \in [Conn -> {"new", "open", "dead", "closed", "half"}]
        /\ par' \in [Conn -> 0..ParMax \cup {Closed}]
    BY <1>20 DEF Add, FailedConnect, TypeOK
  <2>3. toadd' \in 0..PoolMin
    BY <1>20 DEF Add, TypeOK, SshPoolAssumption
  <2> QED
    BY <1>20, <2>1, <2>2, <2>3 DEF Add, TypeOK, conns, pools, workers, main
<1>21. CASE ReleasePool
  BY <1>21 DEF ReleasePool, Proceeds, conns, pools, workers, main, TypeOK, Chan, Conn, Pools,
               Closed, SshPoolAssumption
<1>22. CASE EndClosing
  BY <1>22 DEF EndClosing, Proceeds, AtEnd, conns, pools, workers, main, TypeOK, Chan, Conn,
               Pools, Closed, SshPoolAssumption
<1>23. CASE Clear
  <2>1. dict \in Pools /\ goal \in {"remove", "leave", "term"}
    BY <1>23 DEF Clear, Walked, Locked, TypeOK
  <2>2. active' \in [Pools -> Seq(Conn)]
    <3>1. <<>> \in Seq(Conn)
      OBVIOUS
    <3> QED
      BY <1>23, <3>1 DEF Clear, TypeOK
  <2>3. lock' \in [Pools -> Worker \cup {Main, Nobody}] /\ closed' \subseteq Pools
    BY <1>23, <2>1 DEF Clear, TypeOK
  <2>4. mpc' \in {"idle", "out", "exited"}
    BY <1>23, <2>1 DEF Clear
  <2> QED
    BY <1>23, <2>2, <2>3, <2>4 DEF Clear, TypeOK, conns, pools, workers, main
<1>24. CASE UNCHANGED vars
  BY <1>24 DEF vars, conns, pools, workers, main, TypeOK, Chan, Conn, Pools,
               Closed,
               SshPoolAssumption
<1> QED
  BY <1>1, <1>2, <1>3, <1>4, <1>5, <1>6, <1>7, <1>8, <1>9, <1>10, <1>11, <1>12, <1>13, <1>14,
     <1>15, <1>16, <1>17, <1>18, <1>19, <1>20, <1>21, <1>22, <1>23, <1>24
     DEF Next, WorkerStep, MainStep

\* takes a lock from who has it,
LEMMA LockedNext ==
    ASSUME SshPoolAssumption, PoolInv, [Next]_vars
    PROVE  Locked'
<1> USE DEF PoolInv
<1>1. ASSUME NEW w \in Worker, Lookup(w) PROVE Locked'
  BY <1>1 DEF Lookup, Goto, conns, pools, workers, main, Locked, TypeOK, SshPoolAssumption
<1>2. ASSUME NEW w \in Worker, Ask(w) PROVE Locked'
  <2>1. CASE Goto(w, "granted") /\ UNCHANGED <<lock, wpool>>
    BY <1>2, <2>1 DEF Ask, Goto, Locked, TypeOK, conns, pools, workers, main
  <2>2. CASE lock' = [lock EXCEPT ![wpool[w]] = w] /\ Goto(w, "connecting") /\ UNCHANGED wpool
    BY <1>2, <2>2 DEF Ask, Goto, Locked, TypeOK, SshPoolAssumption, conns, pools, workers, main
  <2>3. CASE Finish(w) /\ UNCHANGED lock
    BY <1>2, <2>3 DEF Ask, Finish, Goto, Locked, TypeOK, conns, pools, workers, main
  <2> QED
    BY <1>2, <2>1, <2>2, <2>3 DEF Ask
<1>3. ASSUME NEW w \in Worker, Connected(w) PROVE Locked'
  BY <1>3 DEF Connected, Goto, IsNext, conns, pools, workers, main, Locked, TypeOK,
              SshPoolAssumption
<1>4. ASSUME NEW w \in Worker, ConnectFails(w) PROVE Locked'
  BY <1>4 DEF ConnectFails, Finish, Goto, FailedConnect, IsNext, conns, pools, workers, main,
              Locked, TypeOK, SshPoolAssumption
<1>5. ASSUME NEW w \in Worker, TakeChan(w) PROVE Locked'
  BY <1>5 DEF TakeChan, Goto, conns, pools, workers, main, Locked, TypeOK, SshPoolAssumption
<1>6. ASSUME NEW w \in Worker, Answer(w) PROVE Locked'
  BY <1>6 DEF Answer, Goto, conns, pools, workers, main, Locked, TypeOK, SshPoolAssumption
<1>7. ASSUME NEW w \in Worker, Count(w) PROVE Locked'
  BY <1>7 DEF Count, Finish, Goto, conns, pools, workers, main, Locked, TypeOK,
              SshPoolAssumption
<1>8. ASSUME NEW c \in Conn, Drop(c) PROVE Locked'
  BY <1>8 DEF Drop, conns, pools, workers, main, Locked, TypeOK, SshPoolAssumption
<1>9. CASE CreatePool
  BY <1>9 DEF CreatePool, conns, pools, workers, main, Locked, TypeOK, SshPoolAssumption
<1>10. CASE BeginInitLoop
  BY <1>10 DEF BeginInitLoop, conns, pools, workers, main, Locked, TypeOK, SshPoolAssumption
<1>11. CASE LeaveCluster
  BY <1>11 DEF LeaveCluster, Walk, conns, pools, workers, main, Locked, TypeOK,
               SshPoolAssumption
<1>12. CASE SigTerm
  BY <1>12 DEF SigTerm, conns, pools, workers, main, Locked, TypeOK, SshPoolAssumption
<1>13. CASE AcquirePool
  BY <1>13 DEF AcquirePool, conns, pools, workers, main, Locked, TypeOK, SshPoolAssumption
<1>14. CASE EnterTry
  BY <1>14 DEF EnterTry, Walk, conns, pools, workers, main, Locked, TypeOK, SshPoolAssumption
<1>15. CASE Handle
  BY <1>15 DEF Handle, Walk, conns, pools, workers, main, Locked, TypeOK, SshPoolAssumption
<1>16. CASE Skip
  BY <1>16 DEF Skip, Proceeds, conns, pools, workers, main, Locked, TypeOK, SshPoolAssumption
<1>17. CASE BeginClose
  BY <1>17 DEF BeginClose, Proceeds, AtEnd, conns, pools, workers, main, Locked, TypeOK,
               SshPoolAssumption
<1>18. CASE EndClose
  BY <1>18 DEF EndClose, Proceeds, conns, pools, workers, main, Locked, TypeOK,
               SshPoolAssumption
<1>19. CASE EndCheck
  BY <1>19 DEF EndCheck, Proceeds, AtEnd, conns, pools, workers, main, Locked, TypeOK,
               SshPoolAssumption
<1>20. CASE Add
  BY <1>20 DEF Add, Proceeds, FailedConnect, IsNext, conns, pools, workers, main, Locked,
               TypeOK, SshPoolAssumption
<1>21. CASE ReleasePool
  BY <1>21 DEF ReleasePool, Proceeds, conns, pools, workers, main, Locked, TypeOK,
               SshPoolAssumption
<1>22. CASE EndClosing
  BY <1>22 DEF EndClosing, Proceeds, AtEnd, conns, pools, workers, main, Locked, TypeOK,
               SshPoolAssumption
<1>23. CASE Clear
  BY <1>23 DEF Clear, Proceeds, Walked, conns, pools, workers, main, Locked, TypeOK,
               SshPoolAssumption
<1>24. CASE UNCHANGED vars
  BY <1>24 DEF vars, conns, pools, workers, main, Locked, TypeOK, SshPoolAssumption
<1> QED
  BY <1>1, <1>2, <1>3, <1>4, <1>5, <1>6, <1>7, <1>8, <1>9, <1>10, <1>11, <1>12, <1>13, <1>14,
     <1>15, <1>16, <1>17, <1>18, <1>19, <1>20, <1>21, <1>22, <1>23, <1>24
     DEF Next, WorkerStep, MainStep

\* uses up the place of a thread that connects,
LEMMA ReservedNext ==
    ASSUME SshPoolAssumption, PoolInv, [Next]_vars
    PROVE  Reserved'
<1> USE DEF PoolInv
<1>1. ASSUME NEW w \in Worker, Lookup(w) PROVE Reserved'
  BY <1>1 DEF Lookup, Goto, conns, pools, workers, main, Reserved, Locked, TypeOK, PoolBounded,
              SshPoolAssumption, Pools
<1>2. ASSUME NEW w \in Worker, Ask(w) PROVE Reserved'
  <2>1. CASE Goto(w, "granted") /\ UNCHANGED <<lock, wpool>>
    BY <1>2, <2>1 DEF Ask, Goto, Reserved, TypeOK, conns, pools, workers, main
  <2>2. CASE Len(active[wpool[w]]) < PoolMax /\ Goto(w, "connecting") /\ UNCHANGED wpool
    BY <1>2, <2>2 DEF Ask, Goto, Reserved, TypeOK, conns, pools, workers, main
  <2>3. CASE Finish(w) /\ UNCHANGED lock
    BY <1>2, <2>3 DEF Ask, Finish, Goto, Reserved, TypeOK, conns, pools, workers, main
  <2> QED
    BY <1>2, <2>1, <2>2, <2>3 DEF Ask
<1>3. ASSUME NEW w \in Worker, Connected(w) PROVE Reserved'
  BY <1>3 DEF Connected, Goto, IsNext, conns, pools, workers, main, Reserved, Locked, TypeOK,
              PoolBounded, SshPoolAssumption, Pools
<1>4. ASSUME NEW w \in Worker, ConnectFails(w) PROVE Reserved'
  BY <1>4 DEF ConnectFails, Finish, Goto, FailedConnect, IsNext, conns, pools, workers, main,
              Reserved, Locked, TypeOK, PoolBounded, SshPoolAssumption, Pools
<1>5. ASSUME NEW w \in Worker, TakeChan(w) PROVE Reserved'
  BY <1>5 DEF TakeChan, Goto, conns, pools, workers, main, Reserved, Locked, TypeOK,
              PoolBounded, SshPoolAssumption, Pools
<1>6. ASSUME NEW w \in Worker, Answer(w) PROVE Reserved'
  BY <1>6 DEF Answer, Goto, conns, pools, workers, main, Reserved, Locked, TypeOK, PoolBounded,
              SshPoolAssumption, Pools
<1>7. ASSUME NEW w \in Worker, Count(w) PROVE Reserved'
  BY <1>7 DEF Count, Finish, Goto, conns, pools, workers, main, Reserved, Locked, TypeOK,
              PoolBounded, SshPoolAssumption, Pools
<1>8. ASSUME NEW c \in Conn, Drop(c) PROVE Reserved'
  BY <1>8 DEF Drop, conns, pools, workers, main, Reserved, Locked, TypeOK, PoolBounded,
              SshPoolAssumption, Pools
<1>9. CASE CreatePool
  BY <1>9 DEF CreatePool, conns, pools, workers, main, Reserved, Locked, TypeOK, PoolBounded,
              SshPoolAssumption, Pools
<1>10. CASE BeginInitLoop
  BY <1>10 DEF BeginInitLoop, conns, pools, workers, main, Reserved, Locked, TypeOK,
               PoolBounded, SshPoolAssumption, Pools
<1>11. CASE LeaveCluster
  BY <1>11 DEF LeaveCluster, Walk, conns, pools, workers, main, Reserved, Locked, TypeOK,
               PoolBounded, SshPoolAssumption, Pools
<1>12. CASE SigTerm
  BY <1>12 DEF SigTerm, conns, pools, workers, main, Reserved, Locked, TypeOK, PoolBounded,
               SshPoolAssumption, Pools
<1>13. CASE AcquirePool
  BY <1>13 DEF AcquirePool, conns, pools, workers, main, Reserved, Locked, TypeOK, PoolBounded,
               SshPoolAssumption, Pools
<1>14. CASE EnterTry
  BY <1>14 DEF EnterTry, Walk, conns, pools, workers, main, Reserved, Locked, TypeOK,
               PoolBounded, SshPoolAssumption, Pools
<1>15. CASE Handle
  BY <1>15 DEF Handle, Walk, conns, pools, workers, main, Reserved, Locked, TypeOK, PoolBounded,
               SshPoolAssumption, Pools
<1>16. CASE Skip
  BY <1>16 DEF Skip, Proceeds, conns, pools, workers, main, Reserved, Locked, TypeOK,
               PoolBounded, SshPoolAssumption, Pools
<1>17. CASE BeginClose
  BY <1>17 DEF BeginClose, Proceeds, AtEnd, conns, pools, workers, main, Reserved, Locked,
               TypeOK, PoolBounded, SshPoolAssumption, Pools
<1>18. CASE EndClose
  BY <1>18 DEF EndClose, Proceeds, conns, pools, workers, main, Reserved, Locked, TypeOK,
               PoolBounded, SshPoolAssumption, Pools
<1>19. CASE EndCheck
  <2>1. dict \in Pools /\ dict # 0 /\ Len(active[dict]) <= PoolMax
    BY <1>19 DEF EndCheck, Locked, TypeOK, PoolBounded
  <2>2. PICK kept \in Seq(Conn) :
           /\ active' = [active EXCEPT ![dict] = kept] /\ Len(kept) <= Len(active[dict])
           /\ toadd' \in 0..PoolMin /\ (toadd' = 0 \/ Len(kept) + toadd' = PoolMin)
    BY <1>19, <2>1, Remaining
  <2>3. active'[dict] = kept /\ \A q \in Pools : q # dict => active'[q] = active[q]
    BY <2>1, <2>2 DEF TypeOK
  <2>4. /\ Len(kept) \in Nat /\ Len(active[dict]) \in Nat
        /\ PoolMin \in Nat /\ PoolMax \in Nat /\ PoolMin <= PoolMax
    BY <2>1 DEF TypeOK, SshPoolAssumption
  <2>5. Len(active'[dict]) + toadd' <= PoolMax /\ Len(active'[dict]) <= Len(active[dict])
    BY <2>1, <2>2, <2>3, <2>4
  <2>6. ASSUME NEW w \in Worker, wpc[w] = "connecting"
        PROVE  Len(active'[wpool[w]]) < PoolMax
    <3>1. wpool[w] \in Pools /\ Len(active[wpool[w]]) < PoolMax
      BY <2>6 DEF Reserved, TypeOK
    <3> QED
      BY <2>3, <2>4, <2>5, <3>1
  <2>7. UNCHANGED <<wpc, wpool, dict, made>> /\ mi' = 1
    BY <1>19 DEF EndCheck, conns, pools, workers, main
  <2> QED
    BY <2>5, <2>6, <2>7 DEF Reserved
<1>20. CASE Add
  <2>1. /\ dict \in Pools /\ dict # 0 /\ lock[dict] = Main
        /\ Len(active[dict]) + toadd <= PoolMax /\ toadd > 0 /\ toadd \in Nat
    BY <1>20 DEF Add, Reserved, Locked, TypeOK, SshPoolAssumption
  <2>2. /\ Len(active[dict]) \in Nat /\ UNCHANGED <<dict, made, mi, mpc, wpc, wpool>>
        /\ PoolMax \in Nat
    BY <1>20, <2>1 DEF Add, TypeOK, SshPoolAssumption, conns, pools, workers, main
  <2>3. CASE UNCHANGED active /\ toadd' \in {0, toadd - 1}
    BY <2>1, <2>2, <2>3 DEF Reserved
  <2>4. ASSUME NEW c \in Conn, active' = [active EXCEPT ![dict] = Append(@, c)],
               toadd' = toadd - 1
        PROVE  Reserved'
    <3>1. /\ \A q \in Pools : q # dict => active'[q] = active[q]
          /\ Len(active'[dict]) = Len(active[dict]) + 1
      BY <2>1, <2>4, Appended
    <3>2. Len(active'[dict]) + toadd' <= PoolMax
      BY <2>1, <2>2, <2>4, <3>1
    <3>3. ASSUME NEW w \in Worker, wpc[w] = "connecting"
          PROVE  Len(active'[wpool[w]]) < PoolMax
      <4>1. wpool[w] \in Pools /\ wpool[w] # dict
        BY <2>1, <3>3 DEF Locked, TypeOK, SshPoolAssumption
      <4> QED
        BY <3>1, <3>3, <4>1 DEF Reserved
    <3> QED
      BY <2>2, <3>2, <3>3 DEF Reserved
  <2> QED
    BY <1>20, <2>3, <2>4 DEF Add
<1>21. CASE ReleasePool
  BY <1>21 DEF ReleasePool, Proceeds, conns, pools, workers, main, Reserved, Locked, TypeOK,
               PoolBounded, SshPoolAssumption, Pools
<1>22. CASE EndClosing
  BY <1>22 DEF EndClosing, Proceeds, AtEnd, conns, pools, workers, main, Reserved, Locked,
               TypeOK, PoolBounded, SshPoolAssumption, Pools
<1>23. CASE Clear
  BY <1>23, SMTT(30) DEF Clear, Proceeds, Walked, conns, pools, workers, main, Reserved,
               Locked, TypeOK, PoolBounded, SshPoolAssumption, Pools
<1>24. CASE UNCHANGED vars
  BY <1>24 DEF vars, conns, pools, workers, main, Reserved, Locked, TypeOK, PoolBounded,
               SshPoolAssumption, Pools
<1> QED
  BY <1>1, <1>2, <1>3, <1>4, <1>5, <1>6, <1>7, <1>8, <1>9, <1>10, <1>11, <1>12, <1>13, <1>14,
     <1>15, <1>16, <1>17, <1>18, <1>19, <1>20, <1>21, <1>22, <1>23, <1>24
     DEF Next, WorkerStep, MainStep

\* makes a pool larger than its bound,
LEMMA PoolBoundedNext ==
    ASSUME SshPoolAssumption, PoolInv, [Next]_vars
    PROVE  PoolBounded'
<1> USE DEF PoolInv
<1>1. ASSUME NEW w \in Worker, Lookup(w) PROVE PoolBounded'
  BY <1>1 DEF Lookup, Goto, conns, pools, workers, main, PoolBounded, Reserved, TypeOK, Pools,
              SshPoolAssumption, Locked
<1>2. ASSUME NEW w \in Worker, Ask(w) PROVE PoolBounded'
  BY <1>2 DEF Ask, Available, Goto, Finish, conns, pools, workers, main, PoolBounded, Reserved,
              TypeOK, Pools, SshPoolAssumption, Locked
<1>3. ASSUME NEW w \in Worker, Connected(w) PROVE PoolBounded'
  BY <1>3 DEF Connected, Goto, IsNext, conns, pools, workers, main, PoolBounded, Reserved,
              TypeOK, Pools, SshPoolAssumption, Locked
<1>4. ASSUME NEW w \in Worker, ConnectFails(w) PROVE PoolBounded'
  BY <1>4 DEF ConnectFails, Finish, Goto, FailedConnect, IsNext, conns, pools, workers, main,
              PoolBounded, Reserved, TypeOK, Pools, SshPoolAssumption, Locked
<1>5. ASSUME NEW w \in Worker, TakeChan(w) PROVE PoolBounded'
  BY <1>5 DEF TakeChan, Goto, conns, pools, workers, main, PoolBounded, Reserved, TypeOK, Pools,
              SshPoolAssumption, Locked
<1>6. ASSUME NEW w \in Worker, Answer(w) PROVE PoolBounded'
  BY <1>6 DEF Answer, Goto, conns, pools, workers, main, PoolBounded, Reserved, TypeOK, Pools,
              SshPoolAssumption, Locked
<1>7. ASSUME NEW w \in Worker, Count(w) PROVE PoolBounded'
  BY <1>7 DEF Count, Finish, Goto, conns, pools, workers, main, PoolBounded, Reserved, TypeOK,
              Pools, SshPoolAssumption, Locked
<1>8. ASSUME NEW c \in Conn, Drop(c) PROVE PoolBounded'
  BY <1>8 DEF Drop, conns, pools, workers, main, PoolBounded, Reserved, TypeOK, Pools,
              SshPoolAssumption, Locked
<1>9. CASE CreatePool
  BY <1>9 DEF CreatePool, conns, pools, workers, main, PoolBounded, Reserved, TypeOK, Pools,
              SshPoolAssumption, Locked
<1>10. CASE BeginInitLoop
  BY <1>10 DEF BeginInitLoop, conns, pools, workers, main, PoolBounded, Reserved, TypeOK, Pools,
               SshPoolAssumption, Locked
<1>11. CASE LeaveCluster
  BY <1>11 DEF LeaveCluster, Walk, conns, pools, workers, main, PoolBounded, Reserved, TypeOK,
               Pools, SshPoolAssumption, Locked
<1>12. CASE SigTerm
  BY <1>12 DEF SigTerm, conns, pools, workers, main, PoolBounded, Reserved, TypeOK, Pools,
               SshPoolAssumption, Locked
<1>13. CASE AcquirePool
  BY <1>13 DEF AcquirePool, conns, pools, workers, main, PoolBounded, Reserved, TypeOK, Pools,
               SshPoolAssumption, Locked
<1>14. CASE EnterTry
  BY <1>14 DEF EnterTry, Walk, conns, pools, workers, main, PoolBounded, Reserved, TypeOK,
               Pools, SshPoolAssumption, Locked
<1>15. CASE Handle
  BY <1>15 DEF Handle, Walk, conns, pools, workers, main, PoolBounded, Reserved, TypeOK, Pools,
               SshPoolAssumption, Locked
<1>16. CASE Skip
  BY <1>16 DEF Skip, Proceeds, conns, pools, workers, main, PoolBounded, Reserved, TypeOK,
               Pools, SshPoolAssumption, Locked
<1>17. CASE BeginClose
  BY <1>17 DEF BeginClose, Proceeds, AtEnd, conns, pools, workers, main, PoolBounded, Reserved,
               TypeOK, Pools, SshPoolAssumption, Locked
<1>18. CASE EndClose
  BY <1>18 DEF EndClose, Proceeds, conns, pools, workers, main, PoolBounded, Reserved, TypeOK,
               Pools, SshPoolAssumption, Locked
<1>19. CASE EndCheck
  BY <1>19 DEF EndCheck, Proceeds, AtEnd, conns, pools, workers, main, PoolBounded, Reserved,
               TypeOK, Pools, SshPoolAssumption, Locked
<1>20. CASE Add
  <2>1. dict \in Pools /\ Len(active[dict]) + toadd <= PoolMax /\ toadd > 0 /\ toadd \in Nat
    BY <1>20 DEF Add, Reserved, Locked, TypeOK, SshPoolAssumption
  <2>2. CASE UNCHANGED active
    BY <2>2 DEF PoolBounded
  <2>3. ASSUME NEW c \in Conn, active' = [active EXCEPT ![dict] = Append(@, c)]
        PROVE  PoolBounded'
    <3>1. /\ \A q \in Pools : q # dict => active'[q] = active[q]
          /\ Len(active[dict]) \in Nat /\ Len(active'[dict]) = Len(active[dict]) + 1
      BY <2>1, <2>3, Appended
    <3>2. Len(active'[dict]) <= PoolMax
      BY <2>1, <3>1 DEF SshPoolAssumption
    <3> QED
      BY <3>1, <3>2 DEF PoolBounded
  <2> QED
    BY <1>20, <2>2, <2>3 DEF Add
<1>21. CASE ReleasePool
  BY <1>21 DEF ReleasePool, Proceeds, conns, pools, workers, main, PoolBounded, Reserved,
               TypeOK, Pools, SshPoolAssumption, Locked
<1>22. CASE EndClosing
  BY <1>22 DEF EndClosing, Proceeds, AtEnd, conns, pools, workers, main, PoolBounded, Reserved,
               TypeOK, Pools, SshPoolAssumption, Locked
<1>23. CASE Clear
  BY <1>23 DEF Clear, Proceeds, Walked, conns, pools, workers, main, PoolBounded, Reserved,
               TypeOK, Pools, SshPoolAssumption, Locked
<1>24. CASE UNCHANGED vars
  BY <1>24 DEF vars, conns, pools, workers, main, PoolBounded, Reserved, TypeOK, Pools,
               SshPoolAssumption, Locked
<1> QED
  BY <1>1, <1>2, <1>3, <1>4, <1>5, <1>6, <1>7, <1>8, <1>9, <1>10, <1>11, <1>12, <1>13, <1>14,
     <1>15, <1>16, <1>17, <1>18, <1>19, <1>20, <1>21, <1>22, <1>23, <1>24
     DEF Next, WorkerStep, MainStep

\* fills a pool that was given up,
LEMMA GivenNext ==
    ASSUME SshPoolAssumption, PoolInv, [Next]_vars
    PROVE  Given'
<1> USE DEF PoolInv
<1>1. ASSUME NEW w \in Worker, Lookup(w) PROVE Given'
  BY <1>1 DEF Lookup, Goto, conns, pools, workers, main, Given, Locked, Reserved, TypeOK, Pools,
              SshPoolAssumption
<1>2. ASSUME NEW w \in Worker, Ask(w) PROVE Given'
  <2>1. CASE Goto(w, "granted") /\ UNCHANGED wpool
    BY <1>2, <2>1 DEF Ask, Goto, Given, TypeOK, conns, pools, workers, main
  <2>2. CASE active[wpool[w]] # <<>> /\ Goto(w, "connecting") /\ UNCHANGED wpool
    BY <1>2, <2>2 DEF Ask, Goto, Given, TypeOK, conns, pools, workers, main
  <2>3. CASE Finish(w)
    BY <1>2, <2>3 DEF Ask, Finish, Goto, Given, TypeOK, conns, pools, workers, main
  <2> QED
    BY <1>2, <2>1, <2>2, <2>3 DEF Ask
<1>3. ASSUME NEW w \in Worker, Connected(w) PROVE Given'
  BY <1>3 DEF Connected, Goto, IsNext, conns, pools, workers, main, Given, Locked, Reserved,
              TypeOK, Pools, SshPoolAssumption
<1>4. ASSUME NEW w \in Worker, ConnectFails(w) PROVE Given'
  BY <1>4 DEF ConnectFails, Finish, Goto, FailedConnect, IsNext, conns, pools, workers, main,
              Given, Locked, Reserved, TypeOK, Pools, SshPoolAssumption
<1>5. ASSUME NEW w \in Worker, TakeChan(w) PROVE Given'
  BY <1>5 DEF TakeChan, Goto, conns, pools, workers, main, Given, Locked, Reserved, TypeOK,
              Pools, SshPoolAssumption
<1>6. ASSUME NEW w \in Worker, Answer(w) PROVE Given'
  BY <1>6 DEF Answer, Goto, conns, pools, workers, main, Given, Locked, Reserved, TypeOK, Pools,
              SshPoolAssumption
<1>7. ASSUME NEW w \in Worker, Count(w) PROVE Given'
  BY <1>7 DEF Count, Finish, Goto, conns, pools, workers, main, Given, Locked, Reserved, TypeOK,
              Pools, SshPoolAssumption
<1>8. ASSUME NEW c \in Conn, Drop(c) PROVE Given'
  BY <1>8 DEF Drop, conns, pools, workers, main, Given, Locked, Reserved, TypeOK, Pools,
              SshPoolAssumption
<1>9. CASE CreatePool
  BY <1>9 DEF CreatePool, conns, pools, workers, main, Given, Locked, Reserved, TypeOK, Pools,
              SshPoolAssumption
<1>10. CASE BeginInitLoop
  BY <1>10 DEF BeginInitLoop, conns, pools, workers, main, Given, Locked, Reserved, TypeOK,
               Pools, SshPoolAssumption
<1>11. CASE LeaveCluster
  BY <1>11 DEF LeaveCluster, Walk, conns, pools, workers, main, Given, Locked, Reserved, TypeOK,
               Pools, SshPoolAssumption
<1>12. CASE SigTerm
  BY <1>12 DEF SigTerm, conns, pools, workers, main, Given, Locked, Reserved, TypeOK, Pools,
               SshPoolAssumption
<1>13. CASE AcquirePool
  BY <1>13 DEF AcquirePool, conns, pools, workers, main, Given, Locked, Reserved, TypeOK, Pools,
               SshPoolAssumption
<1>14. CASE EnterTry
  BY <1>14 DEF EnterTry, Walk, conns, pools, workers, main, Given, Locked, Reserved, TypeOK,
               Pools, SshPoolAssumption
<1>15. CASE Handle
  BY <1>15 DEF Handle, Walk, conns, pools, workers, main, Given, Locked, Reserved, TypeOK,
               Pools, SshPoolAssumption
<1>16. CASE Skip
  BY <1>16 DEF Skip, Proceeds, conns, pools, workers, main, Given, Locked, Reserved, TypeOK,
               Pools, SshPoolAssumption
<1>17. CASE BeginClose
  BY <1>17 DEF BeginClose, Proceeds, AtEnd, conns, pools, workers, main, Given, Locked,
               Reserved, TypeOK, Pools, SshPoolAssumption
<1>18. CASE EndClose
  BY <1>18 DEF EndClose, Proceeds, conns, pools, workers, main, Given, Locked, Reserved, TypeOK,
               Pools, SshPoolAssumption
<1>19. CASE EndCheck
  BY <1>19 DEF EndCheck, Proceeds, AtEnd, conns, pools, workers, main, Given, Locked, Reserved,
               TypeOK, Pools, SshPoolAssumption
<1>20. CASE Add
  <2>1. UNCHANGED <<dict, made, closed, wpc, wpool>>
    BY <1>20 DEF Add, conns, pools, workers, main
  <2>2. \A p \in 1..made : p # dict => active'[p] = active[p]
    BY <1>20 DEF Add, TypeOK, Pools, SshPoolAssumption
  <2> QED
    BY <2>1, <2>2 DEF Given
<1>21. CASE ReleasePool
  BY <1>21 DEF ReleasePool, Proceeds, conns, pools, workers, main, Given, Locked, Reserved,
               TypeOK, Pools, SshPoolAssumption
<1>22. CASE EndClosing
  BY <1>22 DEF EndClosing, Proceeds, AtEnd, conns, pools, workers, main, Given, Locked,
               Reserved, TypeOK, Pools, SshPoolAssumption
<1>23. CASE Clear
  BY <1>23, SMTT(30) DEF Clear, Proceeds, Walked, conns, pools, workers, main, Given,
               Locked, Reserved, TypeOK, Pools, SshPoolAssumption
<1>24. CASE UNCHANGED vars
  BY <1>24 DEF vars, conns, pools, workers, main, Given, Locked, Reserved, TypeOK, Pools,
               SshPoolAssumption
<1> QED
  BY <1>1, <1>2, <1>3, <1>4, <1>5, <1>6, <1>7, <1>8, <1>9, <1>10, <1>11, <1>12, <1>13, <1>14,
     <1>15, <1>16, <1>17, <1>18, <1>19, <1>20, <1>21, <1>22, <1>23, <1>24
     DEF Next, WorkerStep, MainStep

\* undoes what a loop did,
LEMMA WalkedNext ==
    ASSUME SshPoolAssumption, PoolInv, [Next]_vars
    PROVE  Walked'
<1> USE DEF PoolInv
<1>1. ASSUME NEW w \in Worker, Lookup(w) PROVE Walked'
  BY <1>1 DEF Lookup, Goto, conns, pools, workers, main, Walked, Locked, TypeOK, Pools,
              SshPoolAssumption, Given
<1>2. ASSUME NEW w \in Worker, Ask(w) PROVE Walked'
  BY <1>2 DEF Ask, Available, Goto, Finish, conns, pools, workers, main, Walked, Locked, TypeOK,
              Pools, SshPoolAssumption, Given
<1>3. ASSUME NEW w \in Worker, Connected(w) PROVE Walked'
  <2>1. PICK c \in Conn :
           /\ st' = [st EXCEPT ![c] = "open"] /\ IsNext(c)
           /\ active' = [active EXCEPT ![wpool[w]] = Append(@, c)]
           /\ extra' = extra \cup {c}
    BY <1>3 DEF Connected
  <2>2. UNCHANGED <<mpc, goal, mi, dict>> /\ wpc[w] = "connecting"
    BY <1>3 DEF Connected, conns, pools, workers, main
  <2>3. SUFFICES ASSUME mpc \in {"walk", "closing", "clear"} PROVE Walked'
    BY <2>2 DEF Walked
  <2>4. dict \in Pools /\ wpool[w] \in Pools /\ mi \in Nat /\ mi # 0
    BY <2>3 DEF Locked, TypeOK, Reserved
  <2>5. \A k \in DOMAIN active[dict] : active[dict][k] \in Conn
    BY <2>4 DEF TypeOK
  <2>6. \A k \in DOMAIN active[dict] :
            st[active[dict][k]] = "closed" => st'[active[dict][k]] = "closed"
    BY <2>1, <2>5 DEF IsNext, TypeOK
  <2>7. CASE wpool[w] # dict
    <3>1. active'[dict] = active[dict]
      BY <2>1, <2>4, <2>7, Appended
    <3>2. active'[dict'] = active[dict] /\ extra \subseteq extra'
      BY <2>1, <2>2, <3>1
    <3>3. goal # "check" =>
              \A k \in DOMAIN active'[dict'] : k < mi => st'[active'[dict'][k]] = "closed"
      BY <2>3, <2>6, <3>2 DEF Walked
    <3>4. mpc = "clear" =>
              \A k \in DOMAIN active'[dict'] :
                   k < mi \/ (active'[dict'][k] \in extra' /\ goal # "remove")
      BY <2>3, <3>2 DEF Walked
    <3>5. /\ mi <= Len(active'[dict']) + 1
          /\ (mpc = "closing" => mi \in DOMAIN active'[dict'])
          /\ (mpc = "clear" => goal # "check")
      BY <2>3, <3>2 DEF Walked
    <3> QED
      BY <2>2, <3>3, <3>4, <3>5 DEF Walked
  <2>8. CASE wpool[w] = dict
    <3>1. /\ Len(active[dict]) \in Nat /\ DOMAIN active[dict] = 1..Len(active[dict])
          /\ DOMAIN active'[dict] = 1..(Len(active[dict]) + 1)
          /\ Len(active'[dict]) = Len(active[dict]) + 1
          /\ \A k \in DOMAIN active[dict] : active'[dict][k] = active[dict][k]
          /\ active'[dict][Len(active[dict]) + 1] = c
      BY <2>1, <2>4, <2>8, Appended
    <3>2. goal \notin {"check", "remove"}
      BY <2>2, <2>3, <2>8 DEF Locked, SshPoolAssumption
    <3> DEFINE L == Len(active[dict]) + 1
    <3>3. mi <= L /\ mi <= Len(active'[dict]) + 1
      BY <2>3, <2>4, <3>1 DEF Walked
    <3>4. \A k \in DOMAIN active'[dict] : k \in DOMAIN active[dict] \/ (k = L /\ ~(k < mi))
      <4>1. L \in Nat /\ mi \in Nat /\ ~(L < mi)
        BY <2>4, <3>1, <3>3
      <4>3. DOMAIN active'[dict] = 1..L /\ DOMAIN active[dict] = 1..(L - 1)
        BY <3>1
      <4> HIDE DEF L
      <4>2. ASSUME NEW k \in 1..L PROVE k \in 1..(L - 1) \/ (k = L /\ ~(k < mi))
        BY <4>1
      <4> QED
        BY <4>2, <4>3
    <3>5. \A k \in DOMAIN active'[dict] : k < mi => st'[active'[dict][k]] = "closed"
      BY <2>3, <2>6, <3>1, <3>2, <3>4 DEF Walked
    <3>6. mpc = "closing" => mi \in DOMAIN active'[dict]
      BY <2>3, <3>1 DEF Walked
    <3>7. mpc = "clear" => \A k \in DOMAIN active'[dict] : k < mi \/ active'[dict][k] \in extra'
      BY <2>1, <2>3, <3>1, <3>4 DEF Walked
    <3> QED
      BY <2>2, <3>2, <3>3, <3>5, <3>6, <3>7 DEF Walked
  <2> QED
    BY <2>7, <2>8
<1>4. ASSUME NEW w \in Worker, ConnectFails(w) PROVE Walked'
  BY <1>4 DEF ConnectFails, Finish, Goto, FailedConnect, IsNext, conns, pools, workers, main,
              Walked, Locked, TypeOK, Pools, SshPoolAssumption, Given
<1>5. ASSUME NEW w \in Worker, TakeChan(w) PROVE Walked'
  BY <1>5 DEF TakeChan, Goto, conns, pools, workers, main, Walked, Locked, TypeOK, Pools,
              SshPoolAssumption, Given
<1>6. ASSUME NEW w \in Worker, Answer(w) PROVE Walked'
  BY <1>6 DEF Answer, Goto, conns, pools, workers, main, Walked, Locked, TypeOK, Pools,
              SshPoolAssumption, Given
<1>7. ASSUME NEW w \in Worker, Count(w) PROVE Walked'
  BY <1>7 DEF Count, Finish, Goto, conns, pools, workers, main, Walked, Locked, TypeOK, Pools,
              SshPoolAssumption, Given
<1>8. ASSUME NEW c \in Conn, Drop(c) PROVE Walked'
  BY <1>8 DEF Drop, conns, pools, workers, main, Walked, Locked, TypeOK, Pools,
              SshPoolAssumption, Given
<1>9. CASE CreatePool
  BY <1>9 DEF CreatePool, conns, pools, workers, main, Walked, Locked, TypeOK, Pools,
              SshPoolAssumption, Given
<1>10. CASE BeginInitLoop
  BY <1>10 DEF BeginInitLoop, conns, pools, workers, main, Walked, Locked, TypeOK, Pools,
               SshPoolAssumption, Given
<1>11. CASE LeaveCluster
  BY <1>11 DEF LeaveCluster, Walk, conns, pools, workers, main, Walked, Locked, TypeOK, Pools,
               SshPoolAssumption, Given
<1>12. CASE SigTerm
  BY <1>12 DEF SigTerm, conns, pools, workers, main, Walked, Locked, TypeOK, Pools,
               SshPoolAssumption, Given
<1>13. CASE AcquirePool
  BY <1>13 DEF AcquirePool, conns, pools, workers, main, Walked, Locked, TypeOK, Pools,
               SshPoolAssumption, Given
<1>14. CASE EnterTry
  BY <1>14 DEF EnterTry, Walk, conns, pools, workers, main, Walked, Locked, TypeOK, Pools,
               SshPoolAssumption, Given
<1>15. CASE Handle
  BY <1>15 DEF Handle, Walk, conns, pools, workers, main, Walked, Locked, TypeOK, Pools,
               SshPoolAssumption, Given
<1>16. CASE Skip
  <2>1. mi + 1 <= Len(active[dict]) + 1
    <3>1. active[dict] \in Seq(Conn) /\ ~(mi > Len(active[dict])) /\ mi \in Nat
      BY <1>16 DEF Skip, AtEnd, Locked, TypeOK
    <3> QED
      BY <3>1
  <2> QED
    BY <1>16, <2>1 DEF Skip, Walked, conns, pools, workers, main
<1>17. CASE BeginClose
  <2>1. mi \in DOMAIN active[dict]
    BY <1>17 DEF BeginClose, AtEnd, Locked, Reserved, TypeOK
  <2> QED
    BY <1>17, <2>1 DEF BeginClose, Walked, conns, pools, workers, main
<1>18. CASE EndClose
  <2>1. /\ active[dict] \in Seq(Conn) /\ mi \in Nat /\ mi \in DOMAIN active[dict]
        /\ DOMAIN active[dict] = 1..Len(active[dict])
    BY <1>18 DEF EndClose, Walked, Locked, TypeOK
  <2>2. /\ mi + 1 <= Len(active[dict]) + 1
        /\ \A k \in DOMAIN active[dict] : k < mi + 1 => k < mi \/ k = mi
    BY <2>1
  <2>3. \A k \in DOMAIN active[dict] : active[dict][k] \in Conn
    BY <2>1
  <2>4. /\ st' = [st EXCEPT ![active[dict][mi]] = "closed"]
        /\ st \in [Conn -> {"new", "open", "dead", "closed", "half"}]
    BY <1>18 DEF EndClose, TypeOK
  <2>5. \A k \in DOMAIN active[dict] :
            k = mi \/ st[active[dict][k]] = "closed" => st'[active[dict][k]] = "closed"
    BY <2>1, <2>3, <2>4
  <2> QED
    BY <1>18, <2>2, <2>5 DEF EndClose, Walked, conns, pools, workers, main
<1>19. CASE EndCheck
  BY <1>19 DEF EndCheck, Proceeds, AtEnd, conns, pools, workers, main, Walked, Locked, TypeOK,
               Pools, SshPoolAssumption, Given
<1>20. CASE Add
  BY <1>20 DEF Add, Proceeds, FailedConnect, IsNext, conns, pools, workers, main, Walked,
               Locked, TypeOK, Pools, SshPoolAssumption, Given
<1>21. CASE ReleasePool
  BY <1>21 DEF ReleasePool, Proceeds, conns, pools, workers, main, Walked, Locked, TypeOK,
               Pools, SshPoolAssumption, Given
<1>22. CASE EndClosing
  <2>1. \A k \in DOMAIN active[dict] : k < mi
    <3>1. active[dict] \in Seq(Conn) /\ mi > Len(active[dict]) /\ mi \in Nat
      BY <1>22 DEF EndClosing, AtEnd, Locked, TypeOK
    <3> QED
      BY <3>1
  <2>2. /\ UNCHANGED <<mi, goal, active, dict, st, extra>> /\ mpc = "walk"
        /\ mpc' = "clear" /\ goal # "check"
    BY <1>22 DEF EndClosing, conns, pools, workers, main
  <2>3. \A k \in DOMAIN active'[dict'] : k < mi'
    BY <2>1, <2>2
  <2>4. \A k \in DOMAIN active'[dict'] : st'[active'[dict'][k]] = "closed"
    BY <2>1, <2>2 DEF Walked
  <2>5. mi' <= Len(active'[dict']) + 1
    BY <2>2 DEF Walked
  <2>6. mpc' = "clear" /\ goal' # "check"
    BY <2>2
  <2> QED
    BY <2>3, <2>4, <2>5, <2>6 DEF Walked
<1>23. CASE Clear
  BY <1>23 DEF Clear, Proceeds, Walked, conns, pools, workers, main, Walked, Locked, TypeOK,
               Pools, SshPoolAssumption, Given
<1>24. CASE UNCHANGED vars
  BY <1>24 DEF vars, conns, pools, workers, main, Walked, Locked, TypeOK, Pools,
               SshPoolAssumption, Given
<1> QED
  BY <1>1, <1>2, <1>3, <1>4, <1>5, <1>6, <1>7, <1>8, <1>9, <1>10, <1>11, <1>12, <1>13, <1>14,
     <1>15, <1>16, <1>17, <1>18, <1>19, <1>20, <1>21, <1>22, <1>23, <1>24
     DEF Next, WorkerStep, MainStep

\* hands out a connection that was not opened,
LEMMA UsedNext ==
    ASSUME SshPoolAssumption, PoolInv, [Next]_vars
    PROVE  Used'
<1> USE DEF PoolInv
<1>1. ASSUME NEW w \in Worker, Lookup(w) PROVE Used'
  BY <1>1 DEF Lookup, Goto, conns, pools, workers, main, Used, TypeOK, Walked, Locked
<1>2. ASSUME NEW w \in Worker, Ask(w) PROVE Used'
  <2>1. UNCHANGED <<st, active>> /\ wpc[w] = "asking"
    BY <1>2 DEF Ask, conns, pools, workers, main
  <2>2. \A v \in Worker : v # w => wpc'[v] = wpc[v] /\ wconn'[v] = wconn[v]
    BY <1>2 DEF Ask, Finish, Goto, TypeOK
  <2>3. ASSUME NEW k \in DOMAIN active[wpool[w]], wconn' = [wconn EXCEPT ![w] = active[wpool[w]][k]]
        PROVE  wconn'[w] \in Conn /\ st[wconn'[w]] # "new"
    <3>1. wpool[w] \in Pools /\ active[wpool[w]] \in Seq(Conn)
      BY DEF TypeOK
    <3>2. active[wpool[w]][k] \in Conn /\ wconn'[w] = active[wpool[w]][k]
      BY <2>3, <3>1 DEF TypeOK
    <3> QED
      BY <3>1, <3>2 DEF Used
  <2>4. wpc'[w] \in {"connecting", "idle"} \/ (wconn'[w] \in Conn /\ st[wconn'[w]] # "new")
    <3>1. \/ \E k \in DOMAIN active[wpool[w]] : wconn' = [wconn EXCEPT ![w] = active[wpool[w]][k]]
          \/ Goto(w, "connecting") \/ Finish(w)
      BY <1>2 DEF Ask
    <3>2. Goto(w, "connecting") \/ Finish(w) => wpc'[w] \in {"connecting", "idle"}
      BY DEF Finish, Goto, TypeOK
    <3> QED
      BY <2>3, <3>1, <3>2
  <2> QED
    BY <2>1, <2>2, <2>4 DEF Used
<1>3. ASSUME NEW w \in Worker, Connected(w) PROVE Used'
  BY <1>3 DEF Connected, Goto, IsNext, conns, pools, workers, main, Used, TypeOK, Walked, Locked
<1>4. ASSUME NEW w \in Worker, ConnectFails(w) PROVE Used'
  BY <1>4 DEF ConnectFails, Finish, Goto, FailedConnect, IsNext, conns, pools, workers, main,
              Used, TypeOK, Walked, Locked
<1>5. ASSUME NEW w \in Worker, TakeChan(w) PROVE Used'
  BY <1>5 DEF TakeChan, Goto, conns, pools, workers, main, Used, TypeOK, Walked, Locked
<1>6. ASSUME NEW w \in Worker, Answer(w) PROVE Used'
  BY <1>6 DEF Answer, Goto, conns, pools, workers, main, Used, TypeOK, Walked, Locked
<1>7. ASSUME NEW w \in Worker, Count(w) PROVE Used'
  BY <1>7 DEF Count, Finish, Goto, conns, pools, workers, main, Used, TypeOK, Walked, Locked
<1>8. ASSUME NEW c \in Conn, Drop(c) PROVE Used'
  BY <1>8 DEF Drop, conns, pools, workers, main, Used, TypeOK, Walked, Locked
<1>9. CASE CreatePool
  <2> DEFINE u == Cardinality({c \in Conn : st[c] # "new"})
  <2>2. u \in Nat
    BY FewConnections
  <2> HIDE DEF u
  <2>1. PICK n \in 0..PoolMin, h \in 0..PoolMin :
           /\ u + n + h <= MaxConn
           /\ active' = [active EXCEPT ![made + 1] = [k \in 1..n |-> u + k]]
           /\ st' = [c \in Conn |-> IF c \in u + 1..u + n THEN "open"
                                   ELSE IF c \in u + n + 1..u + n + h THEN "half"
                                   ELSE st[c]]
    BY <1>9 DEF CreatePool, u
  <2>3. \A k \in 1..n : u + k \in Conn /\ u + k \in u + 1..u + n
    BY <2>1, <2>2 DEF Conn, SshPoolAssumption
  <2>4. \A c \in Conn : st[c] # "new" => st'[c] # "new"
    BY <2>1
  <2>5. ASSUME NEW p \in Pools, NEW k \in DOMAIN active'[p] PROVE st'[active'[p][k]] # "new"
    <3>1. CASE p = made + 1
      <4>1. active'[p] = [i \in 1..n |-> u + i]
        BY <2>1, <3>1 DEF TypeOK
      <4>2. k \in 1..n /\ active'[p][k] = u + k
        BY <2>5, <4>1
      <4> QED
        BY <2>1, <2>3, <4>2
    <3>2. CASE p # made + 1
      <4>1. active'[p] = active[p] /\ active[p] \in Seq(Conn)
        BY <2>1, <3>2 DEF TypeOK
      <4>2. active[p][k] \in Conn /\ st[active[p][k]] # "new"
        BY <2>5, <4>1 DEF Used
      <4> QED
        BY <2>4, <4>1, <4>2
    <3> QED
      BY <3>1, <3>2
  <2>6. UNCHANGED <<wpc, wconn>>
    BY <1>9 DEF CreatePool, conns, pools, workers, main
  <2> QED
    BY <2>4, <2>5, <2>6 DEF Used
<1>10. CASE BeginInitLoop
  BY <1>10 DEF BeginInitLoop, conns, pools, workers, main, Used, TypeOK, Walked, Locked
<1>11. CASE LeaveCluster
  BY <1>11 DEF LeaveCluster, Walk, conns, pools, workers, main, Used, TypeOK, Walked, Locked
<1>12. CASE SigTerm
  BY <1>12 DEF SigTerm, conns, pools, workers, main, Used, TypeOK, Walked, Locked
<1>13. CASE AcquirePool
  BY <1>13 DEF AcquirePool, conns, pools, workers, main, Used, TypeOK, Walked, Locked
<1>14. CASE EnterTry
  BY <1>14 DEF EnterTry, Walk, conns, pools, workers, main, Used, TypeOK, Walked, Locked
<1>15. CASE Handle
  BY <1>15 DEF Handle, Walk, conns, pools, workers, main, Used, TypeOK, Walked, Locked
<1>16. CASE Skip
  BY <1>16 DEF Skip, Proceeds, conns, pools, workers, main, Used, TypeOK, Walked, Locked
<1>17. CASE BeginClose
  BY <1>17 DEF BeginClose, Proceeds, AtEnd, conns, pools, workers, main, Used, TypeOK, Walked,
               Locked
<1>18. CASE EndClose
  BY <1>18 DEF EndClose, Proceeds, conns, pools, workers, main, Used, TypeOK, Walked, Locked
<1>19. CASE EndCheck
  BY <1>19 DEF EndCheck, Proceeds, AtEnd, conns, pools, workers, main, Used, TypeOK, Walked,
               Locked
<1>20. CASE Add
  <2>1. UNCHANGED <<wpc, wconn>> /\ dict \in Pools
    BY <1>20 DEF Add, Locked, TypeOK, conns, pools, workers, main
  <2>2. \A c \in Conn : st[c] # "new" => st'[c] # "new"
    BY <1>20 DEF Add, FailedConnect, TypeOK
  <2>3. \A p \in Pools : \A k \in DOMAIN active[p] : active[p][k] \in Conn
    BY DEF TypeOK
  <2>4. CASE UNCHANGED active
    BY <2>1, <2>2, <2>3, <2>4 DEF Used
  <2>5. ASSUME NEW c \in Conn, st' = [st EXCEPT ![c] = "open"],
               active' = [active EXCEPT ![dict] = Append(@, c)]
        PROVE  Used'
    <3>1. /\ \A q \in Pools : q # dict => active'[q] = active[q]
          /\ DOMAIN active[dict] = 1..Len(active[dict]) /\ Len(active[dict]) \in Nat
          /\ DOMAIN active'[dict] = 1..(Len(active[dict]) + 1)
          /\ \A k \in DOMAIN active[dict] : active'[dict][k] = active[dict][k]
          /\ active'[dict][Len(active[dict]) + 1] = c
      BY <2>1, <2>5, Appended
    <3>2. st'[c] = "open"
      BY <2>5 DEF TypeOK
    <3>3. \A k \in DOMAIN active'[dict] : k \in DOMAIN active[dict] \/ k = Len(active[dict]) + 1
      BY <3>1
    <3>4. \A k \in DOMAIN active'[dict] : st'[active'[dict][k]] # "new"
      BY <2>1, <2>2, <2>3, <3>1, <3>2, <3>3 DEF Used
    <3> QED
      BY <2>1, <2>2, <2>3, <3>1, <3>4 DEF Used
  <2> QED
    BY <1>20, <2>4, <2>5 DEF Add
<1>21. CASE ReleasePool
  BY <1>21 DEF ReleasePool, Proceeds, conns, pools, workers, main, Used, TypeOK, Walked, Locked
<1>22. CASE EndClosing
  BY <1>22 DEF EndClosing, Proceeds, AtEnd, conns, pools, workers, main, Used, TypeOK, Walked,
               Locked
<1>23. CASE Clear
  BY <1>23 DEF Clear, Proceeds, Walked, conns, pools, workers, main, Used, TypeOK, Walked,
               Locked
<1>24. CASE UNCHANGED vars
  BY <1>24 DEF vars, conns, pools, workers, main, Used, TypeOK, Walked, Locked
<1> QED
  BY <1>1, <1>2, <1>3, <1>4, <1>5, <1>6, <1>7, <1>8, <1>9, <1>10, <1>11, <1>12, <1>13, <1>14,
     <1>15, <1>16, <1>17, <1>18, <1>19, <1>20, <1>21, <1>22, <1>23, <1>24
     DEF Next, WorkerStep, MainStep

\* loses a connection that was not opened on demand,
LEMMA OrphansNext ==
    ASSUME SshPoolAssumption, PoolInv, [Next]_vars
    PROVE  OrphansAreOnDemand'
<1> USE DEF PoolInv
<1>1. ASSUME NEW w \in Worker, Lookup(w) PROVE OrphansAreOnDemand'
  BY <1>1 DEF Lookup, Goto, conns, pools, workers, main, OrphansAreOnDemand, Pooled, Walked,
              Locked, Given, TypeOK
<1>2. ASSUME NEW w \in Worker, Ask(w) PROVE OrphansAreOnDemand'
  BY <1>2 DEF Ask, Available, Goto, Finish, conns, pools, workers, main, OrphansAreOnDemand,
              Pooled, Walked, Locked, Given, TypeOK
<1>3. ASSUME NEW w \in Worker, Connected(w) PROVE OrphansAreOnDemand'
  <2>1. PICK c \in Conn :
           /\ st' = [st EXCEPT ![c] = "open"]
           /\ active' = [active EXCEPT ![wpool[w]] = Append(@, c)]
           /\ extra' = extra \cup {c}
    BY <1>3 DEF Connected
  <2>2. /\ UNCHANGED <<dict, closed, made>> /\ wpc[w] = "connecting"
        /\ wpool[w] \in Pools /\ wpool[w] \in 1..made
    BY <1>3 DEF Connected, Reserved, TypeOK, conns, pools, workers, main
  <2>3. /\ \A q \in Pools : q # wpool[w] => active'[q] = active[q]
        /\ DOMAIN active[wpool[w]] \subseteq DOMAIN active'[wpool[w]]
        /\ \A k \in DOMAIN active[wpool[w]] : active'[wpool[w]][k] = active[wpool[w]][k]
        /\ \E k \in DOMAIN active'[wpool[w]] : active'[wpool[w]][k] = c
    BY <2>1, <2>2, Appended
  <2>4. \A d \in Conn : Pooled(d) => Pooled(d)'
    BY <2>2, <2>3 DEF Pooled, TypeOK
  <2>5. Pooled(c)' \/ closed # {}
    BY <2>2, <2>3 DEF Pooled, Given
  <2>6. \A d \in Conn : d # c => st'[d] = st[d]
    BY <2>1 DEF TypeOK
  <2> QED
    BY <2>1, <2>2, <2>4, <2>5, <2>6 DEF OrphansAreOnDemand
<1>4. ASSUME NEW w \in Worker, ConnectFails(w) PROVE OrphansAreOnDemand'
  BY <1>4 DEF ConnectFails, Finish, Goto, FailedConnect, IsNext, conns, pools, workers, main,
              OrphansAreOnDemand, Pooled, Walked, Locked, Given, TypeOK
<1>5. ASSUME NEW w \in Worker, TakeChan(w) PROVE OrphansAreOnDemand'
  BY <1>5 DEF TakeChan, Goto, conns, pools, workers, main, OrphansAreOnDemand, Pooled, Walked,
              Locked, Given, TypeOK
<1>6. ASSUME NEW w \in Worker, Answer(w) PROVE OrphansAreOnDemand'
  BY <1>6 DEF Answer, Goto, conns, pools, workers, main, OrphansAreOnDemand, Pooled, Walked,
              Locked, Given, TypeOK
<1>7. ASSUME NEW w \in Worker, Count(w) PROVE OrphansAreOnDemand'
  BY <1>7 DEF Count, Finish, Goto, conns, pools, workers, main, OrphansAreOnDemand, Pooled,
              Walked, Locked, Given, TypeOK
<1>8. ASSUME NEW c \in Conn, Drop(c) PROVE OrphansAreOnDemand'
  BY <1>8 DEF Drop, conns, pools, workers, main, OrphansAreOnDemand, Pooled, Walked, Locked,
              Given, TypeOK
<1>9. CASE CreatePool
  <2> DEFINE u == Cardinality({c \in Conn : st[c] # "new"})
  <2>2. u \in Nat
    BY FewConnections
  <2> HIDE DEF u
  <2>1. PICK n \in 0..PoolMin, h \in 0..PoolMin :
           /\ active' = [active EXCEPT ![made + 1] = [k \in 1..n |-> u + k]]
           /\ st' = [c \in Conn |-> IF c \in u + 1..u + n THEN "open"
                                   ELSE IF c \in u + n + 1..u + n + h THEN "half"
                                   ELSE st[c]]
    BY <1>9 DEF CreatePool, u
  <2>3. /\ dict = 0 /\ dict' = made + 1 /\ made + 1 \in Pools /\ dict' # 0
        /\ UNCHANGED <<extra, closed>>
    BY <1>9 DEF CreatePool, TypeOK, Pools, SshPoolAssumption
  <2>4. active'[dict'] = [k \in 1..n |-> u + k]
    BY <2>1, <2>3 DEF TypeOK
  <2>5. ASSUME NEW c \in Conn, c \in u + 1..u + n PROVE Pooled(c)'
    <3>1. c - u \in 1..n /\ u + (c - u) = c
      BY <2>1, <2>2, <2>5 DEF Conn, SshPoolAssumption
    <3> QED
      BY <2>3, <2>4, <3>1 DEF Pooled
  <2>6. \A c \in Conn :
            st'[c] \in {"open", "dead"} => c \in u + 1..u + n \/ st[c] \in {"open", "dead"}
    BY <2>1
  <2>7. \A c \in Conn : ~Pooled(c)
    BY <2>3 DEF Pooled
  <2> QED
    BY <2>3, <2>5, <2>6, <2>7 DEF OrphansAreOnDemand
<1>10. CASE BeginInitLoop
  BY <1>10 DEF BeginInitLoop, conns, pools, workers, main, OrphansAreOnDemand, Pooled, Walked,
               Locked, Given, TypeOK
<1>11. CASE LeaveCluster
  BY <1>11 DEF LeaveCluster, Walk, conns, pools, workers, main, OrphansAreOnDemand, Pooled,
               Walked, Locked, Given, TypeOK
<1>12. CASE SigTerm
  BY <1>12 DEF SigTerm, conns, pools, workers, main, OrphansAreOnDemand, Pooled, Walked, Locked,
               Given, TypeOK
<1>13. CASE AcquirePool
  BY <1>13 DEF AcquirePool, conns, pools, workers, main, OrphansAreOnDemand, Pooled, Walked,
               Locked, Given, TypeOK
<1>14. CASE EnterTry
  BY <1>14 DEF EnterTry, Walk, conns, pools, workers, main, OrphansAreOnDemand, Pooled, Walked,
               Locked, Given, TypeOK
<1>15. CASE Handle
  BY <1>15 DEF Handle, Walk, conns, pools, workers, main, OrphansAreOnDemand, Pooled, Walked,
               Locked, Given, TypeOK
<1>16. CASE Skip
  BY <1>16 DEF Skip, Proceeds, conns, pools, workers, main, OrphansAreOnDemand, Pooled, Walked,
               Locked, Given, TypeOK
<1>17. CASE BeginClose
  BY <1>17 DEF BeginClose, Proceeds, AtEnd, conns, pools, workers, main, OrphansAreOnDemand,
               Pooled, Walked, Locked, Given, TypeOK
<1>18. CASE EndClose
  BY <1>18 DEF EndClose, Proceeds, conns, pools, workers, main, OrphansAreOnDemand, Pooled,
               Walked, Locked, Given, TypeOK
<1>19. CASE EndCheck
  <2>1. dict \in Pools /\ dict # 0 /\ UNCHANGED <<dict, st, extra, closed>>
    BY <1>19 DEF EndCheck, Locked, TypeOK, conns, pools, workers, main
  <2>2. PICK kept \in Seq(Conn) :
           /\ active' = [active EXCEPT ![dict] = kept]
           /\ \A j \in DOMAIN active[dict] : st[active[dict][j]] # "closed" =>
                 \E k \in DOMAIN kept : kept[k] = active[dict][j]
    BY <1>19, <2>1, Remaining
  <2>3. active'[dict] = kept
    BY <2>1, <2>2 DEF TypeOK
  <2>4. \A c \in Conn : st[c] # "closed" /\ Pooled(c) => Pooled(c)'
    BY <2>1, <2>2, <2>3 DEF Pooled
  <2> QED
    BY <2>1, <2>4 DEF OrphansAreOnDemand
<1>20. CASE Add
  <2>1. dict \in Pools /\ dict # 0 /\ UNCHANGED <<dict, extra, closed>>
    BY <1>20 DEF Add, Locked, TypeOK, conns, pools, workers, main
  <2>2. CASE FailedConnect /\ UNCHANGED active
    BY <2>1, <2>2 DEF FailedConnect, OrphansAreOnDemand, Pooled, TypeOK
  <2>3. ASSUME NEW c \in Conn, st' = [st EXCEPT ![c] = "open"],
               active' = [active EXCEPT ![dict] = Append(@, c)]
        PROVE  OrphansAreOnDemand'
    <3>1. /\ DOMAIN active[dict] \subseteq DOMAIN active'[dict]
          /\ \A k \in DOMAIN active[dict] : active'[dict][k] = active[dict][k]
          /\ \E k \in DOMAIN active'[dict] : active'[dict][k] = c
      BY <2>1, <2>3, Appended
    <3>2. Pooled(c)' /\ \A d \in Conn : Pooled(d) => Pooled(d)'
      BY <2>1, <3>1 DEF Pooled
    <3>3. \A d \in Conn : d # c => st'[d] = st[d]
      BY <2>3 DEF TypeOK
    <3> QED
      BY <2>1, <3>2, <3>3 DEF OrphansAreOnDemand
  <2> QED
    BY <1>20, <2>2, <2>3 DEF Add
<1>21. CASE ReleasePool
  BY <1>21 DEF ReleasePool, Proceeds, conns, pools, workers, main, OrphansAreOnDemand, Pooled,
               Walked, Locked, Given, TypeOK
<1>22. CASE EndClosing
  BY <1>22 DEF EndClosing, Proceeds, AtEnd, conns, pools, workers, main, OrphansAreOnDemand,
               Pooled, Walked, Locked, Given, TypeOK
<1>23. CASE Clear
  BY <1>23 DEF Clear, Proceeds, Walked, conns, pools, workers, main, OrphansAreOnDemand, Pooled,
               Walked, Locked, Given, TypeOK
<1>24. CASE UNCHANGED vars
  BY <1>24 DEF vars, conns, pools, workers, main, OrphansAreOnDemand, Pooled, Walked, Locked,
               Given, TypeOK
<1> QED
  BY <1>1, <1>2, <1>3, <1>4, <1>5, <1>6, <1>7, <1>8, <1>9, <1>10, <1>11, <1>12, <1>13, <1>14,
     <1>15, <1>16, <1>17, <1>18, <1>19, <1>20, <1>21, <1>22, <1>23, <1>24
     DEF Next, WorkerStep, MainStep

\* puts a second command on a channel,
LEMMA TakenNext ==
    ASSUME SshPoolAssumption, PoolInv, [Next]_vars
    PROVE  Taken'
<1> USE DEF PoolInv
<1>1. ASSUME NEW w \in Worker, Lookup(w) PROVE Taken'
  BY <1>1 DEF Lookup, Goto, conns, pools, workers, main, Taken, Used, TypeOK, ChannelExclusive,
              Chan
<1>2. ASSUME NEW w \in Worker, Ask(w) PROVE Taken'
  <2>1. UNCHANGED busy /\ wpc[w] = "asking" /\ wpc'[w] # "running"
    BY <1>2 DEF Ask, Finish, Goto, TypeOK
  <2>2. \A v \in Worker :
            v # w => wpc'[v] = wpc[v] /\ wconn'[v] = wconn[v] /\ wchan'[v] = wchan[v]
    BY <1>2 DEF Ask, Finish, Goto, TypeOK
  <2> QED
    BY <2>1, <2>2 DEF Taken, ChannelExclusive
<1>3. ASSUME NEW w \in Worker, Connected(w) PROVE Taken'
  BY <1>3 DEF Connected, Goto, IsNext, conns, pools, workers, main, Taken, Used, TypeOK,
              ChannelExclusive, Chan
<1>4. ASSUME NEW w \in Worker, ConnectFails(w) PROVE Taken'
  BY <1>4 DEF ConnectFails, Finish, Goto, FailedConnect, IsNext, conns, pools, workers, main,
              Taken, Used, TypeOK, ChannelExclusive, Chan
<1>5. ASSUME NEW w \in Worker, TakeChan(w) PROVE Taken'
  <2>1. UNCHANGED wconn /\ wpc[w] = "granted" /\ wconn[w] \in Conn /\ wchan[w] \in Chan
    BY <1>5 DEF TakeChan, Used, TypeOK
  <2>2. \A v \in Worker : v # w => wpc'[v] = wpc[v] /\ wchan'[v] = wchan[v]
    BY <1>5 DEF TakeChan, Goto, TypeOK
  <2>3. CASE ~busy[wconn[w]][wchan[w]]
    <3>1. /\ busy' = [busy EXCEPT ![wconn[w]][wchan[w]] = TRUE] /\ UNCHANGED wchan
          /\ wpc'[w] = "running"
      BY <1>5, <2>3 DEF TakeChan, Goto, TypeOK
    <3>2. /\ busy'[wconn[w]][wchan[w]]
          /\ \A c \in Conn, k \in Chan : c # wconn[w] \/ k # wchan[w] => busy'[c][k] = busy[c][k]
      BY <2>1, <3>1 DEF TypeOK
    <3>3. \A v \in Worker : v # w /\ wpc[v] = "running" =>
              /\ wconn[v] \in Conn /\ wchan[v] \in Chan /\ busy[wconn[v]][wchan[v]]
              /\ wconn[v] # wconn[w] \/ wchan[v] # wchan[w]
      BY <2>3 DEF Taken, Used, TypeOK
    <3>4. \A v \in Worker : wpc'[v] = "running" => busy'[wconn'[v]][wchan'[v]]
      BY <2>1, <2>2, <3>1, <3>2, <3>3
    <3>5. ChannelExclusive'
      BY <2>1, <2>2, <3>1, <3>3 DEF Taken, ChannelExclusive
    <3>6. \A c \in Conn, k \in Chan : busy'[c][k] =>
              \E v \in Worker : wpc'[v] = "running" /\ wconn'[v] = c /\ wchan'[v] = k
      BY <2>1, <2>2, <3>1, <3>2 DEF Taken
    <3> QED
      BY <3>4, <3>5, <3>6 DEF Taken
  <2>4. CASE busy[wconn[w]][wchan[w]]
    <3>1. UNCHANGED busy /\ wpc'[w] # "running"
      BY <1>5, <2>4 DEF TakeChan, Goto, TypeOK
    <3> QED
      BY <2>1, <2>2, <3>1 DEF Taken, ChannelExclusive
  <2> QED
    BY <2>3, <2>4
<1>6. ASSUME NEW w \in Worker, Answer(w) PROVE Taken'
  <2>1. /\ UNCHANGED <<wconn, wchan>> /\ wpc[w] = "running" /\ wconn[w] \in Conn
        /\ wchan[w] \in Chan /\ wpc'[w] = "counting"
    BY <1>6 DEF Answer, Goto, Used, TypeOK
  <2>2. \A v \in Worker : v # w => wpc'[v] = wpc[v]
    BY <1>6 DEF Answer, Goto, TypeOK
  <2>3. /\ ~busy'[wconn[w]][wchan[w]]
        /\ \A c \in Conn, k \in Chan : c # wconn[w] \/ k # wchan[w] => busy'[c][k] = busy[c][k]
    BY <1>6, <2>1 DEF Answer, TypeOK
  <2>4. \A v \in Worker : wpc'[v] = "running" =>
            /\ v # w /\ wpc[v] = "running" /\ wconn[v] \in Conn /\ wchan[v] \in Chan
            /\ busy[wconn[v]][wchan[v]] /\ (wconn[v] # wconn[w] \/ wchan[v] # wchan[w])
    BY <2>1, <2>2 DEF Taken, ChannelExclusive, Used, TypeOK
  <2>5. \A v \in Worker : wpc'[v] = "running" => busy'[wconn'[v]][wchan'[v]]
    BY <2>1, <2>3, <2>4
  <2>6. ChannelExclusive'
    BY <2>1, <2>4 DEF Taken, ChannelExclusive
  <2>7. \A c \in Conn, k \in Chan : busy'[c][k] =>
            \E v \in Worker : wpc'[v] = "running" /\ wconn'[v] = c /\ wchan'[v] = k
    BY <2>1, <2>2, <2>3 DEF Taken
  <2> QED
    BY <2>5, <2>6, <2>7 DEF Taken
<1>7. ASSUME NEW w \in Worker, Count(w) PROVE Taken'
  BY <1>7 DEF Count, Finish, Goto, conns, pools, workers, main, Taken, Used, TypeOK,
              ChannelExclusive, Chan
<1>8. ASSUME NEW c \in Conn, Drop(c) PROVE Taken'
  BY <1>8 DEF Drop, conns, pools, workers, main, Taken, Used, TypeOK, ChannelExclusive, Chan
<1>9. CASE CreatePool
  BY <1>9 DEF CreatePool, conns, pools, workers, main, Taken, Used, TypeOK, ChannelExclusive,
              Chan
<1>10. CASE BeginInitLoop
  BY <1>10 DEF BeginInitLoop, conns, pools, workers, main, Taken, Used, TypeOK,
               ChannelExclusive, Chan
<1>11. CASE LeaveCluster
  BY <1>11 DEF LeaveCluster, Walk, conns, pools, workers, main, Taken, Used, TypeOK,
               ChannelExclusive, Chan
<1>12. CASE SigTerm
  BY <1>12 DEF SigTerm, conns, pools, workers, main, Taken, Used, TypeOK, ChannelExclusive, Chan
<1>13. CASE AcquirePool
  BY <1>13 DEF AcquirePool, conns, pools, workers, main, Taken, Used, TypeOK, ChannelExclusive,
               Chan
<1>14. CASE EnterTry
  BY <1>14 DEF EnterTry, Walk, conns, pools, workers, main, Taken, Used, TypeOK,
               ChannelExclusive, Chan
<1>15. CASE Handle
  BY <1>15 DEF Handle, Walk, conns, pools, workers, main, Taken, Used, TypeOK, ChannelExclusive,
               Chan
<1>16. CASE Skip
  BY <1>16 DEF Skip, Proceeds, conns, pools, workers, main, Taken, Used, TypeOK,
               ChannelExclusive, Chan
<1>17. CASE BeginClose
  BY <1>17 DEF BeginClose, Proceeds, AtEnd, conns, pools, workers, main, Taken, Used, TypeOK,
               ChannelExclusive, Chan
<1>18. CASE EndClose
  BY <1>18 DEF EndClose, Proceeds, conns, pools, workers, main, Taken, Used, TypeOK,
               ChannelExclusive, Chan
<1>19. CASE EndCheck
  BY <1>19 DEF EndCheck, Proceeds, AtEnd, conns, pools, workers, main, Taken, Used, TypeOK,
               ChannelExclusive, Chan
<1>20. CASE Add
  BY <1>20 DEF Add, Proceeds, FailedConnect, IsNext, conns, pools, workers, main, Taken, Used,
               TypeOK, ChannelExclusive, Chan
<1>21. CASE ReleasePool
  BY <1>21 DEF ReleasePool, Proceeds, conns, pools, workers, main, Taken, Used, TypeOK,
               ChannelExclusive, Chan
<1>22. CASE EndClosing
  BY <1>22 DEF EndClosing, Proceeds, AtEnd, conns, pools, workers, main, Taken, Used, TypeOK,
               ChannelExclusive, Chan
<1>23. CASE Clear
  BY <1>23 DEF Clear, Proceeds, Walked, conns, pools, workers, main, Taken, Used, TypeOK,
               ChannelExclusive, Chan
<1>24. CASE UNCHANGED vars
  BY <1>24 DEF vars, conns, pools, workers, main, Taken, Used, TypeOK, ChannelExclusive, Chan
<1> QED
  BY <1>1, <1>2, <1>3, <1>4, <1>5, <1>6, <1>7, <1>8, <1>9, <1>10, <1>11, <1>12, <1>13, <1>14,
     <1>15, <1>16, <1>17, <1>18, <1>19, <1>20, <1>21, <1>22, <1>23, <1>24
     DEF Next, WorkerStep, MainStep

\* miscounts the users,
LEMMA CountedNext ==
    ASSUME SshPoolAssumption, PoolInv, [Next]_vars
    PROVE  Counted'
<1> USE DEF PoolInv
<1>1. ASSUME NEW w \in Worker, Lookup(w) PROVE Counted'
  <2>1. /\ extra \subseteq extra' /\ \A d \in Conn : Users(d)' \subseteq Users(d)
        /\ \A d \in Conn : par'[d] >= 0 => par'[d] = par[d]
    BY <1>1 DEF Lookup, Goto, Users, TypeOK, Closed, conns, pools, workers, main
  <2> QED
    BY <2>1, NoMoreUsers
<1>2. ASSUME NEW w \in Worker, Ask(w) PROVE Counted'
  <2>1. UNCHANGED extra /\ wpc[w] = "asking"
    BY <1>2 DEF Ask
  <2>2. ASSUME Goto(w, "connecting") \/ Finish(w), UNCHANGED par
        PROVE  Counted'
    <3>1. \A d \in Conn : Users(d)' \subseteq Users(d)
      BY <1>2, <2>1, <2>2 DEF Ask, Goto, Finish, Users, TypeOK
    <3> QED
      BY <2>1, <2>2, <3>1, NoMoreUsers
  <2>3. ASSUME NEW k \in DOMAIN active[wpool[w]], Available(active[wpool[w]][k]),
               par' = [par EXCEPT ![active[wpool[w]][k]] = @ + 1],
               wconn' = [wconn EXCEPT ![w] = active[wpool[w]][k]], Goto(w, "granted")
        PROVE  Counted'
    <3> DEFINE a == active[wpool[w]][k]
    <3>1. a \in Conn
      BY DEF TypeOK
    <3>2. /\ par \in [Conn -> Int] /\ par'[a] = par[a] + 1 /\ par[a] >= 0
          /\ \A d \in Conn : d # a => par'[d] = par[d]
      BY <2>3, <3>1 DEF TypeOK, Closed, Available
    <3>3. \A v \in Worker : v # w => wpc'[v] = wpc[v] /\ wconn'[v] = wconn[v]
      BY <2>3 DEF Goto, TypeOK
    <3>4. wconn'[w] = a
      BY <2>3 DEF TypeOK
    <3> HIDE DEF a
    <3>5. ASSUME NEW d \in Conn
          PROVE  /\ IsFiniteSet(Users(d)')
                 /\ par'[d] >= 0 =>
                      Cardinality(Users(d)') <= par'[d] + (IF d \in extra' THEN 1 ELSE 0)
      <4>1. IsFiniteSet(Users(d))
        BY DEF Counted
      <4>2. CASE d = a
        <5>1. Users(d)' \subseteq Users(d) \cup {w}
          BY <3>3 DEF Users
        <5>2. /\ IsFiniteSet(Users(d)') /\ Cardinality(Users(d)') <= Cardinality(Users(d)) + 1
              /\ Cardinality(Users(d)') \in Nat /\ Cardinality(Users(d)) \in Nat
          BY <4>1, <5>1, OneMoreUser
        <5>3. Cardinality(Users(d)) <= par[d] + (IF d \in extra THEN 1 ELSE 0)
          BY <3>2, <4>2 DEF Counted, CountedUsers
        <5> QED
          BY <2>1, <3>2, <4>2, <5>2, <5>3
      <4>3. CASE d # a
        <5>1. Users(d)' \subseteq Users(d)
          BY <3>3, <3>4, <4>3 DEF Users
        <5>2. /\ IsFiniteSet(Users(d)') /\ Cardinality(Users(d)') <= Cardinality(Users(d))
              /\ Cardinality(Users(d)') \in Nat /\ Cardinality(Users(d)) \in Nat
          BY <4>1, <5>1, FS_Subset, FS_CardinalityType
        <5>3. par[d] >= 0 => Cardinality(Users(d)) <= par[d] + (IF d \in extra THEN 1 ELSE 0)
          BY DEF Counted, CountedUsers
        <5> QED
          BY <2>1, <3>2, <4>3, <5>2, <5>3
      <4> QED
        BY <4>2, <4>3
    <3> QED
      BY <3>5 DEF Counted, CountedUsers
  <2> QED
    BY <1>2, <2>2, <2>3 DEF Ask
<1>3. ASSUME NEW w \in Worker, Connected(w) PROVE Counted'
  <2>1. PICK c \in Conn :
           /\ IsNext(c) /\ extra' = extra \cup {c} /\ wconn' = [wconn EXCEPT ![w] = c]
    BY <1>3 DEF Connected
  <2>2. UNCHANGED par /\ wpc[w] = "connecting" /\ Goto(w, "granted") /\ par \in [Conn -> Int]
    BY <1>3 DEF Connected, TypeOK, Closed
  <2>3. \A v \in Worker : v # w => wpc'[v] = wpc[v] /\ wconn'[v] = wconn[v]
    BY <2>1, <2>2 DEF Goto, TypeOK
  <2>4. wconn'[w] = c
    BY <2>1 DEF TypeOK
  <2>5. ASSUME NEW d \in Conn
        PROVE  /\ IsFiniteSet(Users(d)')
               /\ par'[d] >= 0 =>
                      Cardinality(Users(d)') <= par'[d] + (IF d \in extra' THEN 1 ELSE 0)
    <3>1. CASE d = c
      <4>1. Users(c) = {}
        BY <2>1 DEF Users, Used, IsNext
      <4>2. Users(d)' \subseteq {} \cup {w}
        BY <2>3, <3>1, <4>1 DEF Users
      <4>3. IsFiniteSet({}) /\ Cardinality({}) = 0
        BY FS_EmptySet
      <4>4. IsFiniteSet(Users(d)') /\ Cardinality(Users(d)') <= 0 + 1
        BY <4>2, <4>3, OneMoreUser
      <4>5. Cardinality(Users(d)') \in Nat
        BY <4>4, FS_CardinalityType
      <4> QED
        BY <2>1, <2>2, <3>1, <4>4, <4>5
    <3>2. CASE d # c
      <4>1. IsFiniteSet(Users(d))
        BY DEF Counted
      <4>2. Users(d)' \subseteq Users(d)
        BY <2>3, <2>4, <3>2 DEF Users
      <4>3. /\ IsFiniteSet(Users(d)') /\ Cardinality(Users(d)') <= Cardinality(Users(d))
            /\ Cardinality(Users(d)') \in Nat /\ Cardinality(Users(d)) \in Nat
        BY <4>1, <4>2, FS_Subset, FS_CardinalityType
      <4>4. par[d] >= 0 => Cardinality(Users(d)) <= par[d] + (IF d \in extra THEN 1 ELSE 0)
        BY DEF Counted, CountedUsers
      <4> QED
        BY <2>1, <2>2, <3>2, <4>3, <4>4
    <3> QED
      BY <3>1, <3>2
  <2> QED
    BY <2>5 DEF Counted, CountedUsers
<1>4. ASSUME NEW w \in Worker, ConnectFails(w) PROVE Counted'
  <2>1. /\ extra \subseteq extra' /\ \A d \in Conn : Users(d)' \subseteq Users(d)
        /\ \A d \in Conn : par'[d] >= 0 => par'[d] = par[d]
    BY <1>4 DEF ConnectFails, Finish, Goto, FailedConnect, IsNext, Users, TypeOK, Closed, conns,
                pools, workers, main
  <2> QED
    BY <2>1, NoMoreUsers
<1>5. ASSUME NEW w \in Worker, TakeChan(w) PROVE Counted'
  <2>1. /\ extra \subseteq extra' /\ \A d \in Conn : Users(d)' \subseteq Users(d)
        /\ \A d \in Conn : par'[d] >= 0 => par'[d] = par[d]
    BY <1>5 DEF TakeChan, Goto, Users, TypeOK, Closed, conns, pools, workers, main
  <2> QED
    BY <2>1, NoMoreUsers
<1>6. ASSUME NEW w \in Worker, Answer(w) PROVE Counted'
  <2>1. /\ extra \subseteq extra' /\ \A d \in Conn : Users(d)' \subseteq Users(d)
        /\ \A d \in Conn : par'[d] >= 0 => par'[d] = par[d]
    BY <1>6 DEF Answer, Goto, Users, TypeOK, Closed, conns, pools, workers, main
  <2> QED
    BY <2>1, NoMoreUsers
<1>7. ASSUME NEW w \in Worker, Count(w) PROVE Counted'
  <2> DEFINE a == wconn[w]
  <2>1. /\ UNCHANGED extra /\ wpc[w] = "counting" /\ a \in Conn /\ Finish(w)
        /\ par' = [par EXCEPT ![a] = IF @ > 0 THEN @ - 1 ELSE @] /\ par \in [Conn -> Int]
    BY <1>7 DEF Count, Used, TypeOK, Closed
  <2>2. /\ par'[a] = IF par[a] > 0 THEN par[a] - 1 ELSE par[a]
        /\ \A d \in Conn : d # a => par'[d] = par[d]
    BY <2>1
  <2>3. \A v \in Worker : v # w => wpc'[v] = wpc[v] /\ wconn'[v] = wconn[v]
    BY <2>1 DEF Finish, Goto, TypeOK
  <2>4. wpc'[w] = "idle"
    BY <2>1 DEF Finish, Goto, TypeOK
  <2>5. ASSUME NEW d \in Conn
        PROVE  /\ IsFiniteSet(Users(d)')
               /\ par'[d] >= 0 =>
                      Cardinality(Users(d)') <= par'[d] + (IF d \in extra' THEN 1 ELSE 0)
    <3>1. IsFiniteSet(Users(d))
      BY DEF Counted
    <3>2. par[d] >= 0 => Cardinality(Users(d)) <= par[d] + (IF d \in extra THEN 1 ELSE 0)
      BY DEF Counted, CountedUsers
    <3>3. CASE d = a
      <4>1. w \in Users(d) /\ Users(d)' \subseteq Users(d) \ {w}
        BY <2>1, <2>3, <2>4, <3>3 DEF Users
      <4>2. /\ IsFiniteSet(Users(d) \ {w})
            /\ Cardinality(Users(d) \ {w}) = Cardinality(Users(d)) - 1
            /\ Cardinality(Users(d)) \in Nat
        BY <3>1, <4>1, FS_RemoveElement, FS_CardinalityType
      <4>3. /\ IsFiniteSet(Users(d)') /\ Cardinality(Users(d)') <= Cardinality(Users(d)) - 1
            /\ Cardinality(Users(d)') \in Nat
        BY <4>1, <4>2, FS_Subset, FS_CardinalityType
      <4> QED
        BY <2>1, <2>2, <3>2, <3>3, <4>2, <4>3
    <3>4. CASE d # a
      <4>1. Users(d)' \subseteq Users(d)
        BY <2>3, <2>4 DEF Users
      <4>2. /\ IsFiniteSet(Users(d)') /\ Cardinality(Users(d)') <= Cardinality(Users(d))
            /\ Cardinality(Users(d)') \in Nat /\ Cardinality(Users(d)) \in Nat
        BY <3>1, <4>1, FS_Subset, FS_CardinalityType
      <4> QED
        BY <2>1, <2>2, <3>2, <3>4, <4>2
    <3> QED
      BY <3>3, <3>4
  <2> QED
    BY <2>5 DEF Counted, CountedUsers
<1>8. ASSUME NEW c \in Conn, Drop(c) PROVE Counted'
  <2>1. /\ extra \subseteq extra' /\ \A d \in Conn : Users(d)' \subseteq Users(d)
        /\ \A d \in Conn : par'[d] >= 0 => par'[d] = par[d]
    BY <1>8 DEF Drop, Users, TypeOK, Closed, conns, pools, workers, main
  <2> QED
    BY <2>1, NoMoreUsers
<1>9. CASE CreatePool
  <2>1. /\ extra \subseteq extra' /\ \A d \in Conn : Users(d)' \subseteq Users(d)
        /\ \A d \in Conn : par'[d] >= 0 => par'[d] = par[d]
    BY <1>9 DEF CreatePool, Users, TypeOK, Closed, conns, pools, workers, main
  <2> QED
    BY <2>1, NoMoreUsers
<1>10. CASE BeginInitLoop
  <2>1. /\ extra \subseteq extra' /\ \A d \in Conn : Users(d)' \subseteq Users(d)
        /\ \A d \in Conn : par'[d] >= 0 => par'[d] = par[d]
    BY <1>10 DEF BeginInitLoop, Users, TypeOK, Closed, conns, pools, workers, main
  <2> QED
    BY <2>1, NoMoreUsers
<1>11. CASE LeaveCluster
  <2>1. /\ extra \subseteq extra' /\ \A d \in Conn : Users(d)' \subseteq Users(d)
        /\ \A d \in Conn : par'[d] >= 0 => par'[d] = par[d]
    BY <1>11 DEF LeaveCluster, Walk, Users, TypeOK, Closed, conns, pools, workers, main
  <2> QED
    BY <2>1, NoMoreUsers
<1>12. CASE SigTerm
  <2>1. /\ extra \subseteq extra' /\ \A d \in Conn : Users(d)' \subseteq Users(d)
        /\ \A d \in Conn : par'[d] >= 0 => par'[d] = par[d]
    BY <1>12 DEF SigTerm, Users, TypeOK, Closed, conns, pools, workers, main
  <2> QED
    BY <2>1, NoMoreUsers
<1>13. CASE AcquirePool
  <2>1. /\ extra \subseteq extra' /\ \A d \in Conn : Users(d)' \subseteq Users(d)
        /\ \A d \in Conn : par'[d] >= 0 => par'[d] = par[d]
    BY <1>13 DEF AcquirePool, Users, TypeOK, Closed, conns, pools, workers, main
  <2> QED
    BY <2>1, NoMoreUsers
<1>14. CASE EnterTry
  <2>1. /\ extra \subseteq extra' /\ \A d \in Conn : Users(d)' \subseteq Users(d)
        /\ \A d \in Conn : par'[d] >= 0 => par'[d] = par[d]
    BY <1>14 DEF EnterTry, Walk, Users, TypeOK, Closed, conns, pools, workers, main
  <2> QED
    BY <2>1, NoMoreUsers
<1>15. CASE Handle
  <2>1. /\ extra \subseteq extra' /\ \A d \in Conn : Users(d)' \subseteq Users(d)
        /\ \A d \in Conn : par'[d] >= 0 => par'[d] = par[d]
    BY <1>15 DEF Handle, Walk, Users, TypeOK, Closed, conns, pools, workers, main
  <2> QED
    BY <2>1, NoMoreUsers
<1>16. CASE Skip
  <2>1. /\ extra \subseteq extra' /\ \A d \in Conn : Users(d)' \subseteq Users(d)
        /\ \A d \in Conn : par'[d] >= 0 => par'[d] = par[d]
    BY <1>16 DEF Skip, Proceeds, Users, TypeOK, Closed, conns, pools, workers, main
  <2> QED
    BY <2>1, NoMoreUsers
<1>17. CASE BeginClose
  <2>1. /\ extra \subseteq extra' /\ \A d \in Conn : Users(d)' \subseteq Users(d)
        /\ \A d \in Conn : par'[d] >= 0 => par'[d] = par[d]
    BY <1>17 DEF BeginClose, Proceeds, AtEnd, Users, TypeOK, Closed, conns, pools, workers, main
  <2> QED
    BY <2>1, NoMoreUsers
<1>18. CASE EndClose
  <2>1. /\ extra \subseteq extra' /\ \A d \in Conn : Users(d)' \subseteq Users(d)
        /\ \A d \in Conn : par'[d] >= 0 => par'[d] = par[d]
    BY <1>18 DEF EndClose, Proceeds, Users, TypeOK, Closed, conns, pools, workers, main
  <2> QED
    BY <2>1, NoMoreUsers
<1>19. CASE EndCheck
  <2>1. /\ extra \subseteq extra' /\ \A d \in Conn : Users(d)' \subseteq Users(d)
        /\ \A d \in Conn : par'[d] >= 0 => par'[d] = par[d]
    BY <1>19 DEF EndCheck, Proceeds, AtEnd, Users, TypeOK, Closed, conns, pools, workers, main
  <2> QED
    BY <2>1, NoMoreUsers
<1>20. CASE Add
  <2>1. /\ extra \subseteq extra' /\ \A d \in Conn : Users(d)' \subseteq Users(d)
        /\ \A d \in Conn : par'[d] >= 0 => par'[d] = par[d]
    BY <1>20 DEF Add, Proceeds, FailedConnect, IsNext, Users, TypeOK, Closed, conns, pools,
                 workers, main
  <2> QED
    BY <2>1, NoMoreUsers
<1>21. CASE ReleasePool
  <2>1. /\ extra \subseteq extra' /\ \A d \in Conn : Users(d)' \subseteq Users(d)
        /\ \A d \in Conn : par'[d] >= 0 => par'[d] = par[d]
    BY <1>21 DEF ReleasePool, Proceeds, Users, TypeOK, Closed, conns, pools, workers, main
  <2> QED
    BY <2>1, NoMoreUsers
<1>22. CASE EndClosing
  <2>1. /\ extra \subseteq extra' /\ \A d \in Conn : Users(d)' \subseteq Users(d)
        /\ \A d \in Conn : par'[d] >= 0 => par'[d] = par[d]
    BY <1>22 DEF EndClosing, Proceeds, AtEnd, Users, TypeOK, Closed, conns, pools, workers, main
  <2> QED
    BY <2>1, NoMoreUsers
<1>23. CASE Clear
  <2>1. /\ extra \subseteq extra' /\ \A d \in Conn : Users(d)' \subseteq Users(d)
        /\ \A d \in Conn : par'[d] >= 0 => par'[d] = par[d]
    BY <1>23 DEF Clear, Proceeds, Users, TypeOK, Closed, conns, pools, workers, main
  <2> QED
    BY <2>1, NoMoreUsers
<1>24. CASE UNCHANGED vars
  <2>1. /\ extra \subseteq extra' /\ \A d \in Conn : Users(d)' \subseteq Users(d)
        /\ \A d \in Conn : par'[d] >= 0 => par'[d] = par[d]
    BY <1>24 DEF vars, Users, TypeOK, Closed, conns, pools, workers, main
  <2> QED
    BY <2>1, NoMoreUsers
<1> QED
  BY <1>1, <1>2, <1>3, <1>4, <1>5, <1>6, <1>7, <1>8, <1>9, <1>10, <1>11, <1>12, <1>13, <1>14,
     <1>15, <1>16, <1>17, <1>18, <1>19, <1>20, <1>21, <1>22, <1>23, <1>24
     DEF Next, WorkerStep, MainStep

\* or lets more users get behind a channel than there are channels.
LEMMA SpreadNext ==
    ASSUME SshPoolAssumption, PoolInv, [Next]_vars
    PROVE  Spread'
<1> USE DEF PoolInv
<1>1. ASSUME NEW w \in Worker, Lookup(w) PROVE Spread'
  <2>1. /\ extra \subseteq extra'
        /\ \A d \in Conn, k \in Chan : Behind(d, k)' \subseteq Behind(d, k)
    BY <1>1 DEF Lookup, Goto, Behind, TypeOK, Chan, conns, pools, workers, main
  <2> QED
    BY <2>1, NobodyMovesBack
<1>2. ASSUME NEW w \in Worker, Ask(w) PROVE Spread'
  <2>1. UNCHANGED extra /\ wpc[w] = "asking"
    BY <1>2 DEF Ask
  <2>2. ASSUME (Goto(w, "connecting") /\ UNCHANGED <<wconn, wchan>>) \/ Finish(w)
        PROVE  Spread'
    <3>1. \A d \in Conn, k \in Chan : Behind(d, k)' \subseteq Behind(d, k)
      BY <2>1, <2>2 DEF Goto, Finish, Behind, TypeOK
    <3> QED
      BY <2>1, <3>1, NobodyMovesBack
  <2>3. ASSUME NEW a \in Conn, wconn' = [wconn EXCEPT ![w] = a],
               wchan' = [wchan EXCEPT ![w] = 1], Goto(w, "granted"), par[a] >= 0,
               par' = [par EXCEPT ![a] = @ + 1]
        PROVE  Spread'
    <3>1. \A v \in Worker : v # w => /\ wpc'[v] = wpc[v] /\ wconn'[v] = wconn[v]
                                     /\ wchan'[v] = wchan[v]
      BY <2>3 DEF Goto, TypeOK
    <3>2. wconn'[w] = a /\ wchan'[w] = 1
      BY <2>3 DEF TypeOK
    <3>3. ASSUME NEW d \in Conn, NEW k \in Chan, d \notin extra
          PROVE  Cardinality(Behind(d, k)') <= ParMax - k + 1
      <4>1. IsFiniteSet(Users(d)) /\ Behind(d, k) \subseteq Users(d)
        BY DEF Counted, Behind, Users
      <4>2. IsFiniteSet(Behind(d, k)) /\ Cardinality(Behind(d, k)) \in Nat
        BY <4>1, FS_Subset, FS_CardinalityType
      <4>3. CASE d = a /\ k = 1
        <5>1. Cardinality(Users(d)') <= par'[d] /\ IsFiniteSet(Users(d)')
          <6>1. Counted' /\ d \notin extra' /\ par'[d] >= 0 /\ Cardinality(Users(d)') \in Nat
                /\ par'[d] \in Int
            <7>1. Counted' /\ TypeOK'
              BY CountedNext, TypeOKNext
            <7>2. IsFiniteSet(Users(d)')
              BY <7>1 DEF Counted
            <7>3. par'[d] = par[d] + 1 /\ par[d] \in Int
              BY <2>3, <4>3 DEF TypeOK, Closed
            <7> QED
              BY <2>1, <2>3, <4>3, <3>3, <7>1, <7>2, <7>3, FS_CardinalityType
          <6> QED
            BY <6>1 DEF Counted, CountedUsers
        <5>2. Behind(d, k)' \subseteq Users(d)'
          BY DEF Behind, Users
        <5>3. /\ Cardinality(Behind(d, k)') <= Cardinality(Users(d)')
              /\ Cardinality(Behind(d, k)') \in Nat /\ Cardinality(Users(d)') \in Nat
          BY <5>1, <5>2, FS_Subset, FS_CardinalityType
        <5>4. par'[d] <= ParMax /\ par'[d] \in Int
          <6>1. TypeOK'
            BY TypeOKNext
          <6> QED
            BY <6>1 DEF TypeOK, Closed, SshPoolAssumption
        <5> QED
          BY <4>3, <5>1, <5>3, <5>4 DEF SshPoolAssumption
      <4>4. CASE ~(d = a /\ k = 1)
        <5>1. Behind(d, k)' \subseteq Behind(d, k)
          BY <3>1, <3>2, <4>4 DEF Behind, Chan
        <5>2. /\ Cardinality(Behind(d, k)') <= Cardinality(Behind(d, k))
              /\ Cardinality(Behind(d, k)') \in Nat
          BY <4>2, <5>1, FS_Subset, FS_CardinalityType
        <5>3. Cardinality(Behind(d, k)) <= ParMax - k + 1
          BY <3>3 DEF Spread
        <5> QED
          BY <4>2, <5>2, <5>3 DEF Chan, SshPoolAssumption
      <4> QED
        BY <4>3, <4>4
    <3> QED
      BY <2>1, <3>3 DEF Spread
  <2>4. ASSUME NEW k \in DOMAIN active[wpool[w]], Available(active[wpool[w]][k]),
               par' = [par EXCEPT ![active[wpool[w]][k]] = @ + 1],
               wconn' = [wconn EXCEPT ![w] = active[wpool[w]][k]],
               wchan' = [wchan EXCEPT ![w] = 1], Goto(w, "granted")
        PROVE  Spread'
    <3>1. active[wpool[w]][k] \in Conn
      BY DEF TypeOK
    <3> QED
      BY <2>3, <2>4, <3>1 DEF Available
  <2> QED
    BY <1>2, <2>2, <2>4 DEF Ask
<1>3. ASSUME NEW w \in Worker, Connected(w) PROVE Spread'
  <2>1. PICK c \in Conn :
           /\ IsNext(c) /\ extra' = extra \cup {c} /\ wconn' = [wconn EXCEPT ![w] = c]
    BY <1>3 DEF Connected
  <2>2. \A v \in Worker : v # w => /\ wpc'[v] = wpc[v] /\ wconn'[v] = wconn[v]
                                   /\ wchan'[v] = wchan[v]
    BY <1>3, <2>1 DEF Connected, Goto, TypeOK
  <2>3. wconn'[w] = c
    BY <2>1 DEF TypeOK
  <2>4. ASSUME NEW d \in Conn, NEW k \in Chan, d \notin extra'
        PROVE  Cardinality(Behind(d, k)') <= ParMax - k + 1
    <3>1. Behind(d, k)' \subseteq Behind(d, k)
      BY <2>1, <2>2, <2>3, <2>4 DEF Behind
    <3>2. IsFiniteSet(Users(d)) /\ Behind(d, k) \subseteq Users(d)
      BY DEF Counted, Behind, Users
    <3>3. IsFiniteSet(Behind(d, k))
      BY <3>2, FS_Subset
    <3>4. /\ Cardinality(Behind(d, k)') <= Cardinality(Behind(d, k))
          /\ Cardinality(Behind(d, k)') \in Nat /\ Cardinality(Behind(d, k)) \in Nat
      BY <3>1, <3>3, FS_Subset, FS_CardinalityType
    <3>5. Cardinality(Behind(d, k)) <= ParMax - k + 1
      BY <2>1, <2>4 DEF Spread
    <3> QED
      BY <3>4, <3>5 DEF Chan, SshPoolAssumption
  <2> QED
    BY <2>4 DEF Spread
<1>4. ASSUME NEW w \in Worker, ConnectFails(w) PROVE Spread'
  <2>1. /\ extra \subseteq extra'
        /\ \A d \in Conn, k \in Chan : Behind(d, k)' \subseteq Behind(d, k)
    BY <1>4 DEF ConnectFails, Finish, Goto, FailedConnect, IsNext, Behind, TypeOK, Chan, conns,
                pools, workers, main
  <2> QED
    BY <2>1, NobodyMovesBack
<1>5. ASSUME NEW w \in Worker, TakeChan(w) PROVE Spread'
  <2> DEFINE c == wconn[w]
  <2>1. UNCHANGED <<extra, wconn>> /\ wpc[w] = "granted"
    BY <1>5 DEF TakeChan
  <2>2. CASE UNCHANGED wchan
    <3>1. \A d \in Conn, k \in Chan : Behind(d, k)' \subseteq Behind(d, k)
      BY <1>5, <2>1, <2>2 DEF TakeChan, Goto, Behind, TypeOK
    <3> QED
      BY <2>1, <3>1, NobodyMovesBack
  <2>3. CASE /\ busy[c][wchan[w]] /\ wchan[w] < ParMax
             /\ wchan' = [wchan EXCEPT ![w] = wchan[w] + 1] /\ UNCHANGED wpc
    <3>1. c \in Conn /\ wchan[w] \in Chan /\ wchan[w] \in Int /\ ParMax \in Nat
      BY <2>1 DEF Used, TypeOK, Chan, SshPoolAssumption
    <3>2. PICK v \in Worker : wpc[v] = "running" /\ wconn[v] = c /\ wchan[v] = wchan[w]
      BY <2>3, <3>1 DEF Taken
    <3>3. wchan'[w] = wchan[w] + 1 /\ \A u \in Worker : u # w => wchan'[u] = wchan[u]
      BY <2>3 DEF TypeOK
    <3>4. ASSUME NEW d \in Conn, NEW k \in Chan, d \notin extra
          PROVE  Cardinality(Behind(d, k)') <= ParMax - k + 1
      <4>1. IsFiniteSet(Users(d)) /\ Behind(d, k) \subseteq Users(d)
        BY DEF Counted, Behind, Users
      <4>2. IsFiniteSet(Behind(d, k)) /\ Cardinality(Behind(d, k)) \in Nat
        BY <4>1, FS_Subset, FS_CardinalityType
      <4>3. CASE d = c /\ k = wchan[w] + 1
        <5>1. wchan[w] \in Chan /\ IsFiniteSet(Behind(d, wchan[w]))
              /\ Cardinality(Behind(d, wchan[w])) \in Nat
              /\ Cardinality(Behind(d, wchan[w])) <= ParMax - wchan[w] + 1
          <6>1. Behind(d, wchan[w]) \subseteq Users(d)
            BY DEF Behind, Users
          <6>2. Cardinality(Behind(d, wchan[w])) <= ParMax - wchan[w] + 1
            BY <3>1, <3>4 DEF Spread
          <6> QED
            BY <3>1, <4>1, <6>1, <6>2, FS_Subset, FS_CardinalityType
        <5>2. v \in Behind(d, wchan[w]) /\ v # w /\ wchan[v] = wchan[w]
          BY <2>1, <3>1, <3>2, <4>3 DEF Behind
        <5>3. Behind(d, k)' \subseteq Behind(d, wchan[w]) \ {v}
          <6>1. ASSUME NEW u \in Behind(d, k)'
                PROVE  u \in Behind(d, wchan[w]) /\ u # v
            <7>1. /\ u \in Worker /\ wconn[u] = d /\ wpc[u] \in {"granted", "running"}
                  /\ wchan'[u] >= k
              BY <2>1, <2>3, <6>1 DEF Behind
            <7>2. CASE u = w
              BY <3>1, <5>2, <7>1, <7>2 DEF Behind
            <7>3. CASE u # w
              <8>1. wchan[u] >= wchan[w] + 1 /\ wchan[u] \in Int
                BY <3>3, <4>3, <7>1, <7>3 DEF TypeOK, Chan
              <8>2. u # v /\ wchan[u] >= wchan[w]
                BY <3>1, <5>2, <8>1
              <8> QED
                BY <7>1, <8>2 DEF Behind
            <7> QED
              BY <7>2, <7>3
          <6> QED
            BY <6>1
        <5>4. /\ IsFiniteSet(Behind(d, wchan[w]) \ {v})
              /\ Cardinality(Behind(d, wchan[w]) \ {v}) = Cardinality(Behind(d, wchan[w])) - 1
          BY <5>1, <5>2, FS_RemoveElement
        <5>5. /\ Cardinality(Behind(d, k)') <= Cardinality(Behind(d, wchan[w]) \ {v})
              /\ Cardinality(Behind(d, k)') \in Nat
          BY <5>3, <5>4, FS_Subset, FS_CardinalityType
        <5> QED
          BY <3>1, <4>3, <5>1, <5>4, <5>5
      <4>4. CASE ~(d = c /\ k = wchan[w] + 1)
        <5>1. Behind(d, k)' \subseteq Behind(d, k)
          <6>1. ASSUME NEW u \in Behind(d, k)'
                PROVE  u \in Behind(d, k)
            <7>1. /\ u \in Worker /\ wconn[u] = d /\ wpc[u] \in {"granted", "running"}
                  /\ wchan'[u] >= k
              BY <2>1, <2>3, <6>1 DEF Behind
            <7>2. wchan[u] >= k
              BY <3>1, <3>3, <4>4, <7>1 DEF Chan
            <7> QED
              BY <7>1, <7>2 DEF Behind
          <6> QED
            BY <6>1
        <5>2. /\ Cardinality(Behind(d, k)') <= Cardinality(Behind(d, k))
              /\ Cardinality(Behind(d, k)') \in Nat
          BY <4>2, <5>1, FS_Subset, FS_CardinalityType
        <5>3. Cardinality(Behind(d, k)) <= ParMax - k + 1
          BY <3>4 DEF Spread
        <5> QED
          BY <4>2, <5>2, <5>3 DEF Chan, SshPoolAssumption
      <4> QED
        BY <4>3, <4>4
    <3> QED
      BY <2>1, <3>4 DEF Spread
  <2> QED
    BY <1>5, <2>2, <2>3 DEF TakeChan
<1>6. ASSUME NEW w \in Worker, Answer(w) PROVE Spread'
  <2>1. /\ extra \subseteq extra'
        /\ \A d \in Conn, k \in Chan : Behind(d, k)' \subseteq Behind(d, k)
    BY <1>6 DEF Answer, Goto, Behind, TypeOK, Chan, conns, pools, workers, main
  <2> QED
    BY <2>1, NobodyMovesBack
<1>7. ASSUME NEW w \in Worker, Count(w) PROVE Spread'
  <2>1. /\ extra \subseteq extra'
        /\ \A d \in Conn, k \in Chan : Behind(d, k)' \subseteq Behind(d, k)
    BY <1>7 DEF Count, Finish, Goto, Behind, TypeOK, Chan, conns, pools, workers, main
  <2> QED
    BY <2>1, NobodyMovesBack
<1>8. ASSUME NEW c \in Conn, Drop(c) PROVE Spread'
  <2>1. extra \subseteq extra' /\ \A d \in Conn, k \in Chan : Behind(d, k)' = Behind(d, k)
    BY <1>8 DEF Drop, Behind, conns, pools, workers, main
  <2> QED
    BY <2>1, NobodyMovesBack
<1>9. CASE CreatePool
  <2>1. extra \subseteq extra' /\ \A d \in Conn, k \in Chan : Behind(d, k)' = Behind(d, k)
    BY <1>9 DEF CreatePool, Behind, conns, pools, workers, main
  <2> QED
    BY <2>1, NobodyMovesBack
<1>10. CASE BeginInitLoop
  <2>1. extra \subseteq extra' /\ \A d \in Conn, k \in Chan : Behind(d, k)' = Behind(d, k)
    BY <1>10 DEF BeginInitLoop, Behind, conns, pools, workers, main
  <2> QED
    BY <2>1, NobodyMovesBack
<1>11. CASE LeaveCluster
  <2>1. extra \subseteq extra' /\ \A d \in Conn, k \in Chan : Behind(d, k)' = Behind(d, k)
    BY <1>11 DEF LeaveCluster, Behind, conns, pools, workers, main
  <2> QED
    BY <2>1, NobodyMovesBack
<1>12. CASE SigTerm
  <2>1. extra \subseteq extra' /\ \A d \in Conn, k \in Chan : Behind(d, k)' = Behind(d, k)
    BY <1>12 DEF SigTerm, Behind, conns, pools, workers, main
  <2> QED
    BY <2>1, NobodyMovesBack
<1>13. CASE AcquirePool
  <2>1. extra \subseteq extra' /\ \A d \in Conn, k \in Chan : Behind(d, k)' = Behind(d, k)
    BY <1>13 DEF AcquirePool, Behind, conns, pools, workers, main
  <2> QED
    BY <2>1, NobodyMovesBack
<1>14. CASE EnterTry
  <2>1. extra \subseteq extra' /\ \A d \in Conn, k \in Chan : Behind(d, k)' = Behind(d, k)
    BY <1>14 DEF EnterTry, Behind, conns, pools, workers, main
  <2> QED
    BY <2>1, NobodyMovesBack
<1>15. CASE Handle
  <2>1. extra \subseteq extra' /\ \A d \in Conn, k \in Chan : Behind(d, k)' = Behind(d, k)
    BY <1>15 DEF Handle, Behind, conns, pools, workers, main
  <2> QED
    BY <2>1, NobodyMovesBack
<1>16. CASE Skip
  <2>1. extra \subseteq extra' /\ \A d \in Conn, k \in Chan : Behind(d, k)' = Behind(d, k)
    BY <1>16 DEF Skip, Behind, conns, pools, workers, main
  <2> QED
    BY <2>1, NobodyMovesBack
<1>17. CASE BeginClose
  <2>1. extra \subseteq extra' /\ \A d \in Conn, k \in Chan : Behind(d, k)' = Behind(d, k)
    BY <1>17 DEF BeginClose, Behind, conns, pools, workers, main
  <2> QED
    BY <2>1, NobodyMovesBack
<1>18. CASE EndClose
  <2>1. extra \subseteq extra' /\ \A d \in Conn, k \in Chan : Behind(d, k)' = Behind(d, k)
    BY <1>18 DEF EndClose, Behind, conns, pools, workers, main
  <2> QED
    BY <2>1, NobodyMovesBack
<1>19. CASE EndCheck
  <2>1. extra \subseteq extra' /\ \A d \in Conn, k \in Chan : Behind(d, k)' = Behind(d, k)
    BY <1>19 DEF EndCheck, Behind, conns, pools, workers, main
  <2> QED
    BY <2>1, NobodyMovesBack
<1>20. CASE Add
  <2>1. extra \subseteq extra' /\ \A d \in Conn, k \in Chan : Behind(d, k)' = Behind(d, k)
    BY <1>20 DEF Add, Behind, conns, pools, workers, main
  <2> QED
    BY <2>1, NobodyMovesBack
<1>21. CASE ReleasePool
  <2>1. extra \subseteq extra' /\ \A d \in Conn, k \in Chan : Behind(d, k)' = Behind(d, k)
    BY <1>21 DEF ReleasePool, Behind, conns, pools, workers, main
  <2> QED
    BY <2>1, NobodyMovesBack
<1>22. CASE EndClosing
  <2>1. extra \subseteq extra' /\ \A d \in Conn, k \in Chan : Behind(d, k)' = Behind(d, k)
    BY <1>22 DEF EndClosing, Behind, conns, pools, workers, main
  <2> QED
    BY <2>1, NobodyMovesBack
<1>23. CASE Clear
  <2>1. extra \subseteq extra' /\ \A d \in Conn, k \in Chan : Behind(d, k)' = Behind(d, k)
    BY <1>23 DEF Clear, Behind, conns, pools, workers, main
  <2> QED
    BY <2>1, NobodyMovesBack
<1>24. CASE UNCHANGED vars
  <2>1. extra \subseteq extra' /\ \A d \in Conn, k \in Chan : Behind(d, k)' = Behind(d, k)
    BY <1>24 DEF vars, Behind, conns, pools, workers, main
  <2> QED
    BY <2>1, NobodyMovesBack
<1> QED
  BY <1>1, <1>2, <1>3, <1>4, <1>5, <1>6, <1>7, <1>8, <1>9, <1>10, <1>11, <1>12, <1>13, <1>14,
     <1>15, <1>16, <1>17, <1>18, <1>19, <1>20, <1>21, <1>22, <1>23, <1>24
     DEF Next, WorkerStep, MainStep

\* All conjuncts together.
LEMMA PoolInvNext == SshPoolAssumption /\ PoolInv /\ [Next]_vars => PoolInv'
<1> SUFFICES ASSUME SshPoolAssumption, PoolInv, [Next]_vars PROVE PoolInv'
  OBVIOUS
<1>1. TypeOK' /\ Locked' /\ Reserved' /\ PoolBounded' /\ Given' /\ Walked' /\ Used'
  BY TypeOKNext, LockedNext, ReservedNext, PoolBoundedNext, GivenNext, WalkedNext, UsedNext
<1>2. OrphansAreOnDemand' /\ Counted' /\ Taken' /\ Spread'
  BY OrphansNext, CountedNext, TakenNext, SpreadNext
<1> QED
  BY <1>1, <1>2 DEF PoolInv

\* The invariant holds throughout.
LEMMA PoolInvHolds == SshPoolAssumption => (Spec => []PoolInv)
<1>1. SUFFICES ASSUME SshPoolAssumption PROVE Spec => []PoolInv
  OBVIOUS
<1>2. Init => PoolInv
  BY <1>1, PoolInvInit
<1>3. PoolInv /\ [Next]_vars => PoolInv'
  BY <1>1, PoolInvNext
<1> QED
  BY <1>2, <1>3, PTL DEF Spec

\* The variables of the pool have their types.
THEOREM PoolTypeHolds ==
    ASSUME SshPoolAssumption
    PROVE  Spec => []TypeOK
<1>1. PoolInv => TypeOK
  BY DEF PoolInv
<1> QED
  BY <1>1, PoolInvHolds, PTL

\* The pool never holds more than ssh_pool_max connections, though the bound is
\* checked before a connect that takes seconds.
THEOREM PoolBoundedHolds ==
    ASSUME SshPoolAssumption
    PROVE  Spec => []PoolBounded
<1>1. PoolInv => PoolBounded
  BY DEF PoolInv
<1> QED
  BY <1>1, PoolInvHolds, PTL

\* parallel_number counts the users of a connection, but for the one that opened
\* it on demand.
THEOREM CountedUsersHolds ==
    ASSUME SshPoolAssumption
    PROVE  Spec => []CountedUsers
<1>1. PoolInv => CountedUsers
  BY DEF PoolInv, Counted
<1> QED
  BY <1>1, PoolInvHolds, PTL

\* Two commands never share a channel.
THEOREM ChannelExclusiveHolds ==
    ASSUME SshPoolAssumption
    PROVE  Spec => []ChannelExclusive
<1>1. PoolInv => ChannelExclusive
  BY DEF PoolInv, Taken
<1> QED
  BY <1>1, PoolInvHolds, PTL

\* A pool that was closed under its lock stays empty.
THEOREM RemovedStaysEmptyHolds ==
    ASSUME SshPoolAssumption
    PROVE  Spec => []RemovedStaysEmpty
<1>1. PoolInv => RemovedStaysEmpty
  BY DEF PoolInv, Given, RemovedStaysEmpty
<1> QED
  BY <1>1, PoolInvHolds, PTL

\* Nobody closes a connection only if it was opened on demand while the pool was
\* given up.
THEOREM OrphansHold ==
    ASSUME SshPoolAssumption
    PROVE  Spec => []OrphansAreOnDemand
<1>1. PoolInv => OrphansAreOnDemand
  BY DEF PoolInv
<1> QED
  BY <1>1, PoolInvHolds, PTL

\* Two elements are more than one.
LEMMA TwoElements ==
    ASSUME NEW S, IsFiniteSet(S), NEW v \in S, NEW w \in S, v # w
    PROVE  Cardinality(S) # 1
<1>1. IsFiniteSet(S \ {v}) /\ Cardinality(S \ {v}) = Cardinality(S) - 1
  BY FS_RemoveElement
<1>2. w \in S \ {v}
  OBVIOUS
<1>3. Cardinality(S \ {v}) # 0
  BY <1>1, <1>2, FS_EmptySet
<1>4. Cardinality(S) \in Nat
  BY FS_CardinalityType
<1> QED
  BY <1>1, <1>3, <1>4

\* A command finds a channel on a connection that was not opened on demand: with
\* every channel it finds taken, the users still ahead of it are two fewer.
THEOREM ChannelFoundHolds ==
    ASSUME SshPoolAssumption
    PROVE  Spec => ChannelFound
<1> DEFINE Found == \A w \in Worker :
          wpc[w] = "granted" /\ wpc'[w] = "counting" => wconn[w] \in extra
<1>1. ASSUME PoolInv, [Next]_vars
      PROVE  [Found]_vars
  <2> SUFFICES ASSUME Next, NEW w \in Worker, wpc[w] = "granted", wpc'[w] = "counting",
                      wconn[w] \notin extra
               PROVE  FALSE
    BY <1>1
  <2> USE <1>1 DEF PoolInv
  <2>1. TakeChan(w)
    <3>1. ASSUME NEW v \in Worker, WorkerStep(v)
          PROVE  v = w /\ TakeChan(w)
      BY <3>1 DEF WorkerStep, Lookup, Ask, Connected, ConnectFails, TakeChan, Answer, Count,
             Goto, Finish, TypeOK
    <3>2. UNCHANGED workers => FALSE
      BY DEF workers
    <3>3. (\E c \in Conn : Drop(c)) \/ CreatePool \/ BeginInitLoop \/ LeaveCluster \/ SigTerm
          => UNCHANGED workers
      BY DEF Drop, CreatePool, BeginInitLoop, LeaveCluster, SigTerm
    <3>4. MainStep => UNCHANGED workers
      BY DEF MainStep, AcquirePool, EnterTry, Handle, Skip, BeginClose, EndClose, EndCheck, Add,
             ReleasePool, EndClosing, Clear
    <3> QED
      BY <3>1, <3>2, <3>3, <3>4 DEF Next
  <2>2. wconn[w] \in Conn /\ wchan[w] \in Chan
    BY DEF Used, TypeOK
  <2>3. busy[wconn[w]][wchan[w]] /\ ~(wchan[w] < ParMax)
    BY <2>1 DEF TakeChan, Goto, TypeOK
  <2>4. wchan[w] = ParMax /\ ParMax \in Chan /\ ParMax \in Nat
    BY <2>2, <2>3 DEF Chan, SshPoolAssumption
  <2>5. PICK v \in Worker : wpc[v] = "running" /\ wconn[v] = wconn[w] /\ wchan[v] = wchan[w]
    BY <2>2, <2>3 DEF Taken
  <2> DEFINE B == Behind(wconn[w], ParMax)
  <2>6. v \in B /\ w \in B /\ v # w
    BY <2>4, <2>5 DEF Behind
  <2>7. IsFiniteSet(B)
    <3>1. IsFiniteSet(Users(wconn[w])) /\ B \subseteq Users(wconn[w])
      BY <2>2 DEF Counted, Behind, Users
    <3> QED
      BY <3>1, FS_Subset
  <2>8. Cardinality(B) <= 1 /\ Cardinality(B) \in Nat
    <3>1. Cardinality(B) <= ParMax - ParMax + 1
      BY <2>2, <2>4 DEF Spread
    <3> HIDE DEF B
    <3> QED
      BY <2>4, <2>7, <3>1, FS_CardinalityType
  <2>9. Cardinality(B) # 1 /\ Cardinality(B) # 0
    <3> HIDE DEF B
    <3> QED
      BY <2>6, <2>7, TwoElements, FS_EmptySet
  <2> HIDE DEF B
  <2> QED
    BY <2>8, <2>9
<1>2. PoolInv /\ [Next]_vars => [Found]_vars
  BY <1>1
<1> QED
  BY <1>2, PoolInvHolds, PTL DEF Spec, ChannelFound

=============================================================================
