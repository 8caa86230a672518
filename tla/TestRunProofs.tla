---------------------------- MODULE TestRunProofs ----------------------------
(***************************************************************************)
(* Proofs about StateOrder, for any set of classes with ServiceState in it *)
(* and any distributions; about HostState, for any items, classes, orders  *)
(* that StateOrder allows, relations between items and bounds; then about  *)
(* TestRun: the run loop drives the host through behaviours of HostState   *)
(* only, so that what is proved of States.check holds in every run, for    *)
(* any list of tests and any bound on reruns.  Before these, about the     *)
(* service that keeps the results of runs: EntityCache, for any workers,   *)
(* attributes and number of changes, and DaemonGuardian, for any number of *)
(* guardians and instances, lost answers and crashes.                      *)
(***************************************************************************)
EXTENDS TestRun, StateOrder, EntityCache, DaemonGuardian, FiniteSetTheorems,
        SequenceTheorems, WellFoundedInduction, TLAPS

-----------------------------------------------------------------------------
(* The entity cache of metadash. *)

\* Type correctness: in particular what a creator stores is always a value,
\* never the "not cached" mark.
THEOREM CacheTypeCorrect == CacheSpec => []CacheTypeOK
<1> USE CacheAssumption
<1>1. CacheInit => CacheTypeOK
  BY DEF CacheInit, CacheTypeOK, Value, NotCached
<1>2. CacheTypeOK /\ [CacheNext]_cacheVars => CacheTypeOK'
  <2> SUFFICES ASSUME CacheTypeOK, [CacheNext]_cacheVars PROVE CacheTypeOK'
    OBVIOUS
  <2> USE DEF CacheTypeOK, Value, NotCached, Goto
  <2>1. ASSUME NEW w \in Worker, NEW a \in Attr, FetchRecord(w, a) PROVE CacheTypeOK'
    BY <2>1 DEF FetchRecord, database, store
  <2>2. ASSUME NEW w \in Worker, NEW a \in Attr, Flush(w, a) PROVE CacheTypeOK'
    <3>1. changes + 1 \in 0..MaxChange
      BY <2>2 DEF Flush
    <3>2. pending' \in [Worker -> [Attr -> (0..MaxChange) \cup {-1}]]
      BY <2>2, <3>1 DEF Flush
    <3> QED
      BY <2>2, <3>1, <3>2 DEF Flush, store
  <2>3. ASSUME NEW w \in Worker, StoreRecord(w) PROVE CacheTypeOK'
    BY <2>3 DEF StoreRecord, database
  <2>4. ASSUME NEW w \in Worker, Hit(w) PROVE CacheTypeOK'
    BY <2>4 DEF Hit, database, store
  <2>5. ASSUME NEW w \in Worker, Miss(w) PROVE CacheTypeOK'
    BY <2>5 DEF Miss, database
  <2>6. ASSUME NEW w \in Worker, Compute(w) PROVE CacheTypeOK'
    <3>1. Visible(w, attr[w]) \in 0..MaxChange
      BY DEF Visible
    <3> QED
      BY <2>6, <3>1 DEF Compute, database, store
  <2>7. ASSUME NEW w \in Worker, Fill(w) PROVE CacheTypeOK'
    BY <2>7 DEF Fill, database
  <2>8. ASSUME NEW w \in Worker, NEW a \in Attr, ClearOne(w, a) PROVE CacheTypeOK'
    BY <2>8 DEF ClearOne, database
  <2>9. ASSUME NEW w \in Worker, Cleared(w) PROVE CacheTypeOK'
    BY <2>9 DEF Cleared, database, store
  <2>10. ASSUME NEW w \in Worker, EndTransaction(w),
                committed' \in [Attr -> 0..MaxChange]
         PROVE CacheTypeOK'
    BY <2>10 DEF EndTransaction, store, locals
  <2>11. ASSUME NEW w \in Worker, Commit(w) PROVE CacheTypeOK'
    <3>1. \A a \in Attr : Visible(w, a) \in 0..MaxChange
      BY DEF Visible
    <3> QED
      BY <2>10, <2>11, <3>1 DEF Commit
  <2>12. ASSUME NEW w \in Worker, Rollback(w) PROVE CacheTypeOK'
    BY <2>10, <2>12 DEF Rollback
  <2>13. ASSUME NEW w \in Worker, ComputeRaises(w) PROVE CacheTypeOK'
    BY <2>13 DEF ComputeRaises, database
  <2>14. CASE Expire
    <3>1. lapses' \in 0..MaxLapse
      BY <2>14 DEF Expire
    <3>2. cache' \in [Attr -> (0..MaxChange) \cup {-1}]
      BY <2>14 DEF Expire
    <3>3. record' \subseteq Attr /\ raced' \subseteq Attr
      BY <2>14 DEF Expire
    <3> QED
      BY <2>14, <3>1, <3>2, <3>3 DEF Expire, database, locals
  <2>15. CASE UNCHANGED cacheVars
    BY <2>15 DEF cacheVars, database, store, locals
  <2> QED
    BY <2>1, <2>2, <2>3, <2>4, <2>5, <2>6, <2>7, <2>8, <2>9, <2>11, <2>12, <2>13,
       <2>14, <2>15
    DEF CacheNext, Get, Clear
<1> QED
  BY <1>1, <1>2, PTL DEF CacheSpec

\* A value is never created by two workers at a time.
THEOREM OneCreatorHolds == CacheSpec => []OneCreator
<1> USE CacheAssumption
<1>1. CacheInit => OneCreator
  BY DEF CacheInit, OneCreator
<1>2. CacheTypeOK /\ OneCreator /\ [CacheNext]_cacheVars => OneCreator'
  <2> SUFFICES ASSUME CacheTypeOK, OneCreator, [CacheNext]_cacheVars PROVE OneCreator'
    OBVIOUS
  <2> USE DEF CacheTypeOK, OneCreator, Goto
  <2>1. ASSUME NEW w \in Worker, NEW a \in Attr, FetchRecord(w, a)
        PROVE OneCreator'
    BY <2>1 DEF FetchRecord, database, store
  <2>2. ASSUME NEW w \in Worker, NEW a \in Attr, Flush(w, a) PROVE OneCreator'
    BY <2>2 DEF Flush, store
  <2>3. ASSUME NEW w \in Worker, StoreRecord(w) PROVE OneCreator'
    BY <2>3 DEF StoreRecord, database
  <2>4. ASSUME NEW w \in Worker, Hit(w) PROVE OneCreator'
    BY <2>4 DEF Hit, database, store
  <2>5. ASSUME NEW w \in Worker, Miss(w) PROVE OneCreator'
    BY <2>5 DEF Miss, database
  <2>6. ASSUME NEW w \in Worker, Compute(w) PROVE OneCreator'
    BY <2>6 DEF Compute, database, store
  <2>7. ASSUME NEW w \in Worker, Fill(w) PROVE OneCreator'
    BY <2>7 DEF Fill, database
  <2>8. ASSUME NEW w \in Worker, NEW a \in Attr, ClearOne(w, a)
        PROVE OneCreator'
    BY <2>8 DEF ClearOne, database
  <2>9. ASSUME NEW w \in Worker, Cleared(w) PROVE OneCreator'
    BY <2>9 DEF Cleared, database, store
  <2>10. ASSUME NEW w \in Worker, Commit(w) \/ Rollback(w) PROVE OneCreator'
    BY <2>10 DEF Commit, Rollback, EndTransaction, store, locals
  <2>11. ASSUME NEW w \in Worker, ComputeRaises(w) PROVE OneCreator'
    BY <2>11 DEF ComputeRaises, database
  <2>12. CASE Expire
    BY <2>12 DEF Expire, locals
  <2>13. CASE UNCHANGED cacheVars
    BY <2>13 DEF cacheVars, store, locals
  <2> QED
    BY <2>1, <2>2, <2>3, <2>4, <2>5, <2>6, <2>7, <2>8, <2>9, <2>10, <2>11, <2>12,
       <2>13
    DEF CacheNext, Get, Clear
<1> QED
  BY <1>1, <1>2, CacheTypeCorrect, PTL DEF CacheSpec

-----------------------------------------------------------------------------
(***************************************************************************)
(* StaleOnlyByRace speaks of attributes no transaction is changing.  Its   *)
(* induction needs to know what happens while one is: the cached value of  *)
(* an attribute in flux is about to be deleted by the worker that flushed  *)
(* the change, or it got there by a race; and a row is changed by one      *)
(* transaction at a time.                                                  *)
(***************************************************************************)
ToBeCleared(w, a) == pc[w] = "clear" /\ a \in copy[w] /\ pending[w][a] # NotCached

CachedInFlux ==
    \A a \in Attr : (cache[a] # NotCached /\ InFlux(a)) =>
        a \in raced \/ \E w \in Worker : ToBeCleared(w, a)

OneWriter ==
    \A a \in Attr, v, w \in Worker :
        (pending[v][a] # NotCached /\ pending[w][a] # NotCached) => v = w

CacheInv == CachedInFlux /\ OneWriter /\ StaleOnlyByRace

\* Steps that change neither the database nor the cache and move nobody in
\* or out of a clear preserve the invariant.
LEMMA CacheInvFrame ==
    ASSUME CacheInv,
           UNCHANGED <<committed, pending, cache, raced>>,
           \A w \in Worker : pc[w] = "clear" => pc'[w] = "clear" /\ copy'[w] = copy[w]
    PROVE  CacheInv'
  BY DEF CacheInv, CachedInFlux, OneWriter, StaleOnlyByRace, InFlux, ToBeCleared

\* A fill records itself as a race if a transaction is open or the value is
\* not the committed one.
LEMMA FillKeepsInv ==
    ASSUME CacheTypeOK, CacheInv, NEW w \in Worker, Fill(w)
    PROVE  CacheInv'
<1> USE DEF CacheTypeOK, CacheInv, InFlux, Fill, Goto, database
<1>1. CachedInFlux'
  BY DEF CachedInFlux, ToBeCleared
<1>2. OneWriter'
  BY DEF OneWriter
<1>3. StaleOnlyByRace'
  BY DEF StaleOnlyByRace
<1> QED
  BY <1>1, <1>2, <1>3

\* After a flush the cached value of the attribute is in the copy of the
\* record that will be deleted, or was missed.
LEMMA FlushKeepsInv ==
    ASSUME CacheTypeOK, CacheInv, NEW w \in Worker, NEW b \in Attr, Flush(w, b)
    PROVE  CacheInv'
<1> USE DEF CacheTypeOK, CacheInv, Flush, Goto, store
<1>1. /\ changes + 1 # NotCached
      /\ \A v \in Worker, a \in Attr :
            pending'[v][a] = IF v = w /\ a = b THEN changes + 1 ELSE pending[v][a]
  BY CacheAssumption DEF Value, NotCached
<1>2. OneWriter'
  BY <1>1 DEF OneWriter
<1>3. ASSUME NEW a \in Attr, cache'[a] # NotCached, InFlux(a)',
             a \notin raced'
      PROVE  \E v \in Worker : ToBeCleared(v, a)'
  <2>1. CASE a = b
    <3>1. a \in record
      BY <1>3, <2>1
    <3>2. ToBeCleared(w, a)'
      BY <1>1, <2>1, <3>1 DEF ToBeCleared
    <3> QED
      BY <3>2
  <2>2. CASE a # b
    <3>1. InFlux(a)
      BY <1>1, <1>3, <2>2 DEF InFlux
    <3>2. PICK v \in Worker : ToBeCleared(v, a)
      BY <1>3, <3>1 DEF CachedInFlux
    <3>3. v # w
      BY <3>2 DEF ToBeCleared
    <3>4. ToBeCleared(v, a)'
      BY <1>1, <3>2, <3>3 DEF ToBeCleared
    <3> QED
      BY <3>4
  <2> QED
    BY <2>1, <2>2
<1>4. CachedInFlux'
  BY <1>3 DEF CachedInFlux
<1>5. \A a \in Attr : InFlux(a) => InFlux(a)'
  BY <1>1 DEF InFlux
<1>6. StaleOnlyByRace'
  BY <1>1, <1>5 DEF StaleOnlyByRace, InFlux
<1> QED
  BY <1>2, <1>4, <1>6

\* Deleting a key from the cache, and from the copy of the one who does it.
LEMMA ClearOneKeepsInv ==
    ASSUME CacheTypeOK, CacheInv, NEW w \in Worker, NEW b \in Attr, ClearOne(w, b)
    PROVE  CacheInv'
<1> USE DEF CacheTypeOK, CacheInv, ClearOne, database
<1>1. OneWriter'
  BY DEF OneWriter
<1>2. ASSUME NEW a \in Attr, cache'[a] # NotCached, InFlux(a)', a \notin raced'
      PROVE  \E v \in Worker : ToBeCleared(v, a)'
  <2>1. a # b /\ cache[a] # NotCached /\ InFlux(a) /\ a \notin raced
    BY <1>2 DEF InFlux
  <2>2. PICK v \in Worker : ToBeCleared(v, a)
    BY <2>1 DEF CachedInFlux
  <2>3. ToBeCleared(v, a)'
    BY <2>1, <2>2 DEF ToBeCleared
  <2> QED
    BY <2>3
<1>3. CachedInFlux'
  BY <1>2 DEF CachedInFlux
<1>4. StaleOnlyByRace'
  BY DEF StaleOnlyByRace, InFlux
<1> QED
  BY <1>1, <1>3, <1>4

\* A key that expires takes a value away, never one back.
LEMMA ExpireKeepsInv == ASSUME CacheTypeOK, CacheInv, Expire PROVE CacheInv'
<1> USE DEF CacheTypeOK, CacheInv, Expire, database, locals
<1>1. UNCHANGED <<committed, pending, pc, copy>>
  OBVIOUS
<1>2. \A a \in Attr : (cache'[a] # NotCached /\ a \notin raced') =>
                         cache'[a] = cache[a] /\ a \notin raced
  OBVIOUS
<1>3. OneWriter'
  BY <1>1 DEF OneWriter
<1>4. CachedInFlux'
  BY <1>1, <1>2 DEF CachedInFlux, InFlux, ToBeCleared
<1>5. StaleOnlyByRace'
  BY <1>1, <1>2 DEF StaleOnlyByRace, InFlux
<1> QED
  BY <1>3, <1>4, <1>5

\* When a transaction ends, by commit or rollback, what is still cached of
\* the attributes it changed got there by a race.
LEMMA EndKeepsInv ==
    ASSUME CacheTypeOK, CacheInv, NEW w \in Worker, EndTransaction(w),
           \A a \in Attr : pending[w][a] = NotCached => committed'[a] = committed[a]
    PROVE  CacheInv'
<1> USE DEF CacheTypeOK, CacheInv, EndTransaction, store, locals
<1>1. \A v \in Worker, a \in Attr :
        pending'[v][a] = IF v = w THEN NotCached ELSE pending[v][a]
  OBVIOUS
<1>2. OneWriter'
  BY <1>1 DEF OneWriter
<1>3. \A a \in Attr : InFlux(a)' => InFlux(a)
  BY <1>1 DEF InFlux
<1>4. \A v \in Worker, a \in Attr : ToBeCleared(v, a) => ToBeCleared(v, a)'
  BY <1>1 DEF ToBeCleared
<1>5. CachedInFlux'
  BY <1>3, <1>4 DEF CachedInFlux
<1>6. ASSUME NEW a \in Attr, cache'[a] \notin {NotCached, committed'[a]},
             ~InFlux(a)'
      PROVE  a \in raced'
  <2>1. CASE pending[w][a] = NotCached
    <3>1. ~InFlux(a)
      BY <1>1, <1>6, <2>1 DEF InFlux
    <3> QED
      BY <1>6, <2>1, <3>1 DEF StaleOnlyByRace
  <2>2. CASE pending[w][a] # NotCached
    <3>1. \A v \in Worker : ~ToBeCleared(v, a)
      BY <2>2 DEF ToBeCleared, OneWriter
    <3>2. InFlux(a)
      BY <2>2 DEF InFlux
    <3> QED
      BY <1>6, <3>1, <3>2 DEF CachedInFlux
  <2> QED
    BY <2>1, <2>2
<1>7. StaleOnlyByRace'
  BY <1>6 DEF StaleOnlyByRace
<1> QED
  BY <1>2, <1>5, <1>7

\* Staleness has the three causes StaleOnlyByRace names, and no other, for
\* any number of workers, attributes and changes.
THEOREM StaleOnlyByRaceHolds == CacheSpec => []StaleOnlyByRace
<1>1. CacheInit => CacheInv
  BY DEF CacheInit, CacheInv, CachedInFlux, OneWriter, StaleOnlyByRace, InFlux,
         NotCached
<1>2. CacheTypeOK /\ CacheInv /\ [CacheNext]_cacheVars => CacheInv'
  <2> SUFFICES ASSUME CacheTypeOK, CacheInv, [CacheNext]_cacheVars PROVE CacheInv'
    OBVIOUS
  <2>1. ASSUME NEW w \in Worker, NEW a \in Attr, FetchRecord(w, a)
        PROVE CacheInv'
    BY <2>1, CacheInvFrame DEF FetchRecord, CacheTypeOK, Goto, database, store
  <2>2. ASSUME NEW w \in Worker, StoreRecord(w) PROVE CacheInv'
    BY <2>2, CacheInvFrame DEF StoreRecord, CacheTypeOK, Goto, database
  <2>3. ASSUME NEW w \in Worker, Hit(w) PROVE CacheInv'
    BY <2>3, CacheInvFrame DEF Hit, CacheTypeOK, Goto, database, store
  <2>4. ASSUME NEW w \in Worker, Miss(w) PROVE CacheInv'
    BY <2>4, CacheInvFrame DEF Miss, CacheTypeOK, Goto, database
  <2>5. ASSUME NEW w \in Worker, Compute(w) PROVE CacheInv'
    BY <2>5, CacheInvFrame DEF Compute, CacheTypeOK, Goto, database, store
  <2>6. ASSUME NEW w \in Worker, Cleared(w) PROVE CacheInv'
    <3>1. \A v \in Worker, a \in Attr : ToBeCleared(v, a) => ToBeCleared(v, a)'
      BY <2>6 DEF Cleared, CacheTypeOK, Goto, ToBeCleared, database
    <3> QED
      BY <2>6, <3>1
      DEF Cleared, CacheInv, CachedInFlux, OneWriter, StaleOnlyByRace, InFlux,
          database, store
  <2>7. ASSUME NEW w \in Worker, Commit(w) PROVE CacheInv'
    <3>1. \A a \in Attr : pending[w][a] = NotCached => committed'[a] = committed[a]
      BY <2>7 DEF Commit, Visible
    <3> QED
      BY <2>7, <3>1, EndKeepsInv DEF Commit
  <2>8. ASSUME NEW w \in Worker, Rollback(w) PROVE CacheInv'
    BY <2>8, EndKeepsInv DEF Rollback
  <2>9. ASSUME NEW w \in Worker, ComputeRaises(w) PROVE CacheInv'
    BY <2>9, CacheInvFrame DEF ComputeRaises, CacheTypeOK, Goto, database
  <2>10. CASE Expire
    BY <2>10, ExpireKeepsInv
  <2>11. CASE UNCHANGED cacheVars
    BY <2>11, CacheInvFrame DEF cacheVars, database, store, locals
  <2> QED
    BY <2>1, <2>2, <2>3, <2>4, <2>5, <2>6, <2>7, <2>8, <2>9, <2>10, <2>11,
       FillKeepsInv, FlushKeepsInv, ClearOneKeepsInv
    DEF CacheNext, Get, Clear
<1>3. CacheInv => StaleOnlyByRace
  BY DEF CacheInv
<1> QED
  BY <1>1, <1>2, <1>3, CacheTypeCorrect, PTL DEF CacheSpec

-----------------------------------------------------------------------------
(* The daemons and their guardian. *)

\* An admitted instance has asked about all and heard of one at most.
AdmittedInv ==
    \A d \in Instance :
        task[d] \in {"running", "stopping"} =>
            ~AnotherRunning(d) /\ Instance \subseteq asked[d]

\* An instance that has not started yet has asked nobody.
FreshInv ==
    \A d \in Instance : task[d] \in {"none", "queued"} => asked[d] = {}

\* An active instance that has asked about itself has heard of itself, unless
\* the answer was lost.
SelfInv ==
    \A d \in Instance :
        (Active(d) /\ d \in asked[d]) => (d \in heard[d] \/ d \in misled)

\* Of two active instances that have asked each other the one that asked
\* last heard of the other, unless the answer was lost: it asked when the
\* other was active already, since starting forgets whom one has asked.
MutualInv ==
    \A d, e \in Instance :
        (d # e /\ Active(d) /\ Active(e) /\ e \in asked[d] /\ d \in asked[e])
        => \/ e \in heard[d] \/ d \in heard[e]
           \/ d \in misled \/ e \in misled

GuardianInv ==
    /\ GuardianTypeOK /\ SpawnerHoldsMutex
    /\ AdmittedInv /\ FreshInv /\ SelfInv /\ MutualInv

LEMMA InitGuardianInv == GuardianInit => GuardianInv
  BY GuardianAssumption DEF GuardianInit, GuardianInv, GuardianTypeOK, SpawnerHoldsMutex,
     AdmittedInv, AnotherRunning, FreshInv, SelfInv, MutualInv, Active

\* The steps of a guardian, which do not touch what instances know.
LEMMA GuardianKeepsInv ==
    ASSUME GuardianInv, NEW g \in Guardian, GuardianStep(g) \/ Crash(g)
    PROVE  GuardianInv'
<1> USE GuardianAssumption DEF GuardianInv
<1>1. CASE Acquire(g)
  <2>1. GuardianTypeOK' /\ SpawnerHoldsMutex'
    BY <1>1 DEF Acquire, Guard, GuardianTypeOK, SpawnerHoldsMutex
  <2> QED
    BY <1>1, <2>1 DEF Acquire, AdmittedInv, AnotherRunning, FreshInv, SelfInv, MutualInv, Active
<1>2. CASE Inspect(g)
  <2>1. UNCHANGED <<mutex, task, asked, heard, crashes, misled>>
    BY <1>2 DEF Inspect
  <2>2. lost' \in 0..MaxLost
    BY <1>2 DEF Inspect, GuardianTypeOK
  <2>3. guard[g] = "sleep" /\ \E l \in {"release", "spawn"} : Guard(g, l)
    BY <1>2 DEF Inspect
  <2>4. GuardianTypeOK'
    BY <2>1, <2>2, <2>3 DEF Guard, GuardianTypeOK
  <2>5. SpawnerHoldsMutex'
    BY <2>1, <2>3 DEF Guard, GuardianTypeOK, SpawnerHoldsMutex
  <2> QED
    BY <2>1, <2>4, <2>5 DEF AdmittedInv, AnotherRunning, FreshInv, SelfInv, MutualInv, Active
<1>3. CASE Spawn(g)
  <2>1. /\ guard[g] = "spawn" /\ Guard(g, "release")
        /\ UNCHANGED <<mutex, asked, heard, lost, crashes, misled>>
    BY <1>3 DEF Spawn
  <2>2. task' = task \/ \E d \in Instance : task[d] = "none" /\ Task(d, "queued")
    BY <1>3 DEF Spawn
  <2>3. /\ task' \in [Instance -> {"none", "queued", "starting", "running", "stopping"}]
        /\ \A d \in Instance :
              task'[d] = task[d] \/ (task[d] = "none" /\ task'[d] = "queued")
    BY <2>2 DEF Task, GuardianTypeOK
  <2>4. GuardianTypeOK'
    BY <2>1, <2>3 DEF Guard, GuardianTypeOK
  <2>5. SpawnerHoldsMutex'
    BY <2>1 DEF Guard, GuardianTypeOK, SpawnerHoldsMutex
  <2>6. AdmittedInv' /\ FreshInv' /\ SelfInv' /\ MutualInv'
    BY <2>1, <2>3 DEF AdmittedInv, AnotherRunning, FreshInv, SelfInv, MutualInv, Active
  <2> QED
    BY <2>4, <2>5, <2>6
<1>4. CASE Release(g)
  <2>1. GuardianTypeOK' /\ SpawnerHoldsMutex'
    BY <1>4 DEF Release, Guard, GuardianTypeOK, SpawnerHoldsMutex
  <2> QED
    BY <1>4, <2>1 DEF Release, AdmittedInv, AnotherRunning, FreshInv, SelfInv, MutualInv, Active
<1>5. CASE Crash(g)
  <2>1. GuardianTypeOK' /\ SpawnerHoldsMutex'
    BY <1>5 DEF Crash, Guard, GuardianTypeOK, SpawnerHoldsMutex
  <2> QED
    BY <1>5, <2>1 DEF Crash, AdmittedInv, AnotherRunning, FreshInv, SelfInv, MutualInv, Active
<1> QED
  BY <1>1, <1>2, <1>3, <1>4, <1>5 DEF GuardianStep

\* Starting: the instance has asked nobody, so nothing is claimed of it yet.
LEMMA StartKeepsInv ==
    ASSUME GuardianInv, NEW d \in Instance, Start(d) PROVE GuardianInv'
<1> USE DEF GuardianInv
<1>1. GuardianTypeOK' /\ SpawnerHoldsMutex'
  BY DEF Start, Task, GuardianTypeOK, SpawnerHoldsMutex
<1>2. /\ task'[d] = "starting" /\ asked[d] = {}
      /\ \A e \in Instance \ {d} : task'[e] = task[e]
      /\ UNCHANGED <<asked, heard, misled>>
  BY DEF Start, Task, GuardianTypeOK, FreshInv
<1>3. AdmittedInv' /\ FreshInv' /\ SelfInv'
  BY <1>2 DEF AdmittedInv, AnotherRunning, FreshInv, SelfInv, Active
<1>4. MutualInv'
  BY <1>2 DEF MutualInv, Active
<1> QED
  BY <1>1, <1>3, <1>4

LEMMA AskKeepsInv ==
    ASSUME GuardianInv, NEW d \in Instance, NEW e \in Instance, Ask(d, e)
    PROVE  GuardianInv'
<1> USE DEF GuardianInv
<1>1. /\ task[d] = "starting"
      /\ asked' = [asked EXCEPT ![d] = @ \cup {e}]
      /\ UNCHANGED <<mutex, guard, task, crashes>>
  BY DEF Ask
<1>2. /\ heard' \in [Instance -> SUBSET Instance]
      /\ \A f \in Instance \ {d} : heard'[f] = heard[f]
      /\ heard[d] \subseteq heard'[d]
  BY DEF Ask, GuardianTypeOK
<1>3. misled \subseteq misled' /\ misled' \subseteq misled \cup {d} /\ lost' \in 0..MaxLost
  BY GuardianAssumption DEF Ask, GuardianTypeOK
<1>4. Active(e) => e \in heard'[d] \/ d \in misled'
  BY DEF Ask, GuardianTypeOK
<1>5. GuardianTypeOK'
  BY <1>1, <1>2, <1>3 DEF GuardianTypeOK
<1>6. SpawnerHoldsMutex'
  BY <1>1 DEF SpawnerHoldsMutex
<1>7. AdmittedInv' /\ FreshInv' /\ SelfInv'
  <2>1. AdmittedInv'
    BY <1>1, <1>2 DEF AdmittedInv, AnotherRunning, GuardianTypeOK
  <2>2. SelfInv'
    BY <1>1, <1>2, <1>3, <1>4 DEF SelfInv, Active, GuardianTypeOK
  <2>3. FreshInv'
    BY <1>1 DEF FreshInv, GuardianTypeOK
  <2> QED
    BY <2>1, <2>2, <2>3
<1>8. MutualInv'
  <2> SUFFICES ASSUME NEW a \in Instance, NEW b \in Instance, a # b,
                      Active(a), Active(b), b \in asked'[a], a \in asked'[b]
               PROVE  \/ b \in heard'[a] \/ a \in heard'[b]
                      \/ a \in misled' \/ b \in misled'
    BY <1>1 DEF MutualInv, Active
  <2>1. CASE b \in asked[a] /\ a \in asked[b]
    BY <1>2, <1>3, <2>1 DEF MutualInv
  <2>2. CASE ~(b \in asked[a] /\ a \in asked[b])
    <3>1. (a = d /\ b = e) \/ (a = e /\ b = d)
      BY <1>1, <2>2 DEF GuardianTypeOK
    <3> QED
      BY <1>4, <3>1
  <2> QED
    BY <2>1, <2>2
<1> QED
  BY <1>5, <1>6, <1>7, <1>8

\* Being admitted and being stopped.
LEMMA RunKeepsInv ==
    ASSUME GuardianInv, NEW d \in Instance,
           Admit(d) \/ StopDuplicate(d) \/ StopShutdown(d)
    PROVE  GuardianInv'
<1> USE DEF GuardianInv
<1>1. /\ UNCHANGED <<mutex, guard, asked, heard, lost, crashes, misled>>
      /\ \E l \in {"running", "stopping"} : Task(d, l)
      /\ Active(d) /\ ~AnotherRunning(d) /\ Instance \subseteq asked[d]
  BY DEF Admit, AskedAll, StopDuplicate, StopShutdown, AdmittedInv, Active
<1>2. GuardianTypeOK'
  BY <1>1 DEF Task, GuardianTypeOK
<1>3. SpawnerHoldsMutex'
  BY <1>1 DEF SpawnerHoldsMutex
<1>4. AdmittedInv'
  BY <1>1 DEF Task, AdmittedInv, AnotherRunning, GuardianTypeOK
<1>5. \A e \in Instance : Active(e)' <=> Active(e)
  BY <1>1 DEF Task, Active, GuardianTypeOK
<1>6. FreshInv'
  BY <1>1 DEF Task, FreshInv, GuardianTypeOK
<1>7. SelfInv' /\ MutualInv'
  BY <1>1, <1>5 DEF SelfInv, MutualInv
<1> QED
  BY <1>2, <1>3, <1>4, <1>6, <1>7

\* Giving up and ending.
LEMMA LeaveKeepsInv ==
    ASSUME GuardianInv, NEW d \in Instance, GiveUp(d) \/ End(d)
    PROVE  GuardianInv'
<1> USE DEF GuardianInv
<1>1. lost' = lost /\ Leave(d)
  BY DEF GiveUp, End, Leave
<1>2. /\ task'[d] = "none" /\ asked'[d] = {}
      /\ \A e \in Instance \ {d} : /\ task'[e] = task[e] /\ asked'[e] = asked[e]
                                   /\ heard'[e] = heard[e]
                                   /\ e \in misled' <=> e \in misled
  BY <1>1 DEF Leave, Task, GuardianTypeOK
<1>3. GuardianTypeOK'
  BY <1>1 DEF Leave, Task, GuardianTypeOK
<1>4. SpawnerHoldsMutex'
  BY <1>1 DEF Leave, SpawnerHoldsMutex
<1>5. AdmittedInv' /\ FreshInv'
  BY <1>2 DEF AdmittedInv, AnotherRunning, FreshInv
<1>6. SelfInv' /\ MutualInv'
  BY <1>2 DEF SelfInv, MutualInv, Active
<1> QED
  BY <1>3, <1>4, <1>5, <1>6

LEMMA StepKeepsGuardianInv == GuardianInv /\ [GuardianNext]_guardianVars => GuardianInv'
<1> SUFFICES ASSUME GuardianInv, [GuardianNext]_guardianVars PROVE GuardianInv'
  OBVIOUS
<1>1. ASSUME NEW g \in Guardian, GuardianStep(g) \/ Crash(g) PROVE GuardianInv'
  BY <1>1, GuardianKeepsInv
<1>2. ASSUME NEW d \in Instance, StartStep(d) PROVE GuardianInv'
  BY <1>2, StartKeepsInv, AskKeepsInv, RunKeepsInv, LeaveKeepsInv DEF StartStep
<1>3. ASSUME NEW d \in Instance, StopDuplicate(d) \/ StopShutdown(d) \/ End(d)
      PROVE  GuardianInv'
  BY <1>3, RunKeepsInv, LeaveKeepsInv
<1>4. CASE UNCHANGED guardianVars
  BY <1>4 DEF GuardianInv, GuardianTypeOK, SpawnerHoldsMutex, AdmittedInv,
     AnotherRunning, FreshInv, SelfInv, MutualInv, Active, guardianVars
<1> QED
  BY <1>1, <1>2, <1>3, <1>4 DEF GuardianNext

LEMMA GuardianInvHolds == GuardianSpec => []GuardianInv
  BY InitGuardianInv, StepKeepsGuardianInv, PTL DEF GuardianSpec

-----------------------------------------------------------------------------
\* Every variable keeps its type.
THEOREM DaemonTypesHold == GuardianSpec => []GuardianTypeOK
<1>1. GuardianInv => GuardianTypeOK
  BY DEF GuardianInv
<1> QED
  BY <1>1, GuardianInvHolds, PTL

\* Between its question and the spawn a guardian holds the lock, whatever
\* other guardians do and whoever of them is killed.
THEOREM SpawnerHolds == GuardianSpec => []SpawnerHoldsMutex
<1>1. GuardianInv => SpawnerHoldsMutex
  BY DEF GuardianInv
<1> QED
  BY <1>1, GuardianInvHolds, PTL

\* Two instances run at the same time only if an answer was lost.
THEOREM OnlyOneHolds == GuardianSpec => []OnlyOneRuns
<1>1. GuardianInv => OnlyOneRuns
  <2> SUFFICES ASSUME GuardianInv, NEW d \in Instance, NEW e \in Instance, d # e,
                      task[d] = "running", task[e] = "running"
               PROVE  d \in misled \/ e \in misled
    BY DEF OnlyOneRuns
  <2>1. /\ ~AnotherRunning(d) /\ d \in asked[d] /\ e \in asked[d]
        /\ ~AnotherRunning(e) /\ e \in asked[e] /\ d \in asked[e]
    BY DEF GuardianInv, AdmittedInv
  <2>2. /\ d \in heard[d] \/ d \in misled
        /\ e \in heard[e] \/ e \in misled
    BY <2>1 DEF GuardianInv, SelfInv, Active
  <2>3. \/ e \in heard[d] \/ d \in heard[e]
        \/ d \in misled \/ e \in misled
    BY <2>1 DEF GuardianInv, MutualInv, Active
  <2> QED
    BY <2>1, <2>2, <2>3 DEF AnotherRunning
<1> QED
  BY <1>1, GuardianInvHolds, PTL

-----------------------------------------------------------------------------
(* The order of the classes. *)

\* What Front, Last and RemoveAt of a sequence are made of.
LEMMA FrontAndLast ==
    ASSUME NEW S, NEW s \in Seq(S), s # <<>>
    PROVE  /\ Len(s) \in Nat \ {0} /\ DOMAIN s = 1..Len(s)
           /\ Last(s) = s[Len(s)] /\ Last(s) \in S
           /\ Front(s) \in Seq(S) /\ Len(Front(s)) = Len(s) - 1
           /\ DOMAIN Front(s) = 1..(Len(s) - 1)
           /\ \A k \in 1..(Len(s) - 1) : Front(s)[k] = s[k]
<1>1. Len(s) \in Nat \ {0} /\ DOMAIN s = 1..Len(s)
  OBVIOUS
<1>2. Last(s) = s[Len(s)] /\ Last(s) \in S
  BY <1>1 DEF Last
<1>3. /\ Front(s) = SubSeq(s, 1, Len(s) - 1)
      /\ Len(s) - 1 \in 0..Len(s)
  BY <1>1 DEF Front
<1>4. /\ Front(s) \in Seq(S) /\ Len(Front(s)) = Len(s) - 1
      /\ \A k \in 1..(Len(s) - 1) : Front(s)[k] = s[k]
  BY <1>1, <1>3
<1> QED
  BY <1>1, <1>2, <1>4

\* A sequence whose last element was replaced.
LEMMA LastReplaced ==
    ASSUME NEW S, NEW s \in Seq(S), s # <<>>, NEW e \in S
    PROVE  LET r == Append(Front(s), e)
           IN  /\ r \in Seq(S) /\ Len(r) = Len(s) /\ DOMAIN r = 1..Len(s)
               /\ r[Len(s)] = e /\ \A k \in 1..(Len(s) - 1) : r[k] = s[k]
BY FrontAndLast

\* A sequence with one more element.
LEMMA AppendedAt ==
    ASSUME NEW S, NEW s \in Seq(S), NEW e \in S
    PROVE  /\ Append(s, e) \in Seq(S) /\ Len(s) \in Nat /\ DOMAIN s = 1..Len(s)
           /\ DOMAIN Append(s, e) = 1..(Len(s) + 1) /\ Append(s, e)[Len(s) + 1] = e
           /\ \A k \in 1..Len(s) : Append(s, e)[k] = s[k]
OBVIOUS

\* A sequence without its first element.
LEMMA HeadAndTail ==
    ASSUME NEW S, NEW s \in Seq(S), s # <<>>
    PROVE  /\ Tail(s) \in Seq(S) /\ Head(s) \in S
           /\ ToSet(s) = {Head(s)} \cup ToSet(Tail(s))
<1>1. /\ Len(s) \in Nat \ {0} /\ DOMAIN s = 1..Len(s)
      /\ Tail(s) \in Seq(S) /\ DOMAIN Tail(s) = 1..(Len(s) - 1)
      /\ Head(s) = s[1] /\ \A k \in 1..(Len(s) - 1) : Tail(s)[k] = s[k + 1]
  OBVIOUS
<1>2. \A k \in 2..Len(s) : k - 1 \in DOMAIN Tail(s) /\ Tail(s)[k - 1] = s[k]
  BY <1>1
<1>3. \A k \in DOMAIN s : k = 1 \/ k \in 2..Len(s)
  BY <1>1
<1>4. \A k \in DOMAIN Tail(s) : k + 1 \in DOMAIN s
  BY <1>1
<1>5. \A k \in DOMAIN s : s[k] = Head(s) \/ s[k] \in ToSet(Tail(s))
  <2> TAKE k \in DOMAIN s
  <2>1. CASE k = 1
    BY <2>1, <1>1
  <2>2. CASE k \in 2..Len(s)
    BY <2>2, <1>2 DEF ToSet
  <2> QED
    BY <1>3, <2>1, <2>2
<1>6. Head(s) \in ToSet(s)
  BY <1>1 DEF ToSet
<1>7. ToSet(Tail(s)) \subseteq ToSet(s)
  BY <1>1, <1>4 DEF ToSet
<1> QED
  BY <1>1, <1>5, <1>6, <1>7 DEF ToSet

\* A sequence with one element taken out.
LEMMA RemoveAtProperties ==
    ASSUME NEW S, NEW s \in Seq(S), NEW i \in 1..Len(s)
    PROVE  /\ RemoveAt(s, i) \in Seq(S)
           /\ Len(RemoveAt(s, i)) = Len(s) - 1
           /\ DOMAIN RemoveAt(s, i) = 1..(Len(s) - 1)
           /\ \A k \in 1..(Len(s) - 1) :
                 RemoveAt(s, i)[k] = IF k < i THEN s[k] ELSE s[k + 1]
<1> DEFINE a == SubSeq(s, 1, i - 1)
           b == SubSeq(s, i + 1, Len(s))
<1>1. /\ a \in Seq(S) /\ Len(a) = i - 1
      /\ \A k \in 1..(i - 1) : a[k] = s[k]
  OBVIOUS
<1>2. /\ b \in Seq(S) /\ Len(b) = Len(s) - i
      /\ \A k \in 1..(Len(s) - i) : b[k] = s[k + i]
  OBVIOUS
<1>3. RemoveAt(s, i) = a \o b
  BY DEF RemoveAt
<1> HIDE DEF a, b
<1>4. a \o b \in Seq(S) /\ Len(a \o b) = Len(s) - 1
  <2>1. a \o b \in Seq(S) /\ Len(a \o b) = Len(a) + Len(b)
    BY <1>1, <1>2, ConcatProperties
  <2>2. Len(s) \in Nat /\ i \in Nat
    OBVIOUS
  <2> QED
    BY <2>1, <2>2, <1>1, <1>2
<1>5. ASSUME NEW k \in 1..(Len(s) - 1)
      PROVE  (a \o b)[k] = IF k < i THEN s[k] ELSE s[k + 1]
  <2>1. CASE k < i
    BY <2>1, <1>1, <1>2
  <2>2. CASE ~(k < i)
    <3>1. (a \o b)[k] = b[k - (i - 1)]
      BY <2>2, <1>1, <1>2
    <3>2. k - (i - 1) \in 1..(Len(s) - i) /\ (k - (i - 1)) + i = k + 1
      BY <2>2
    <3> QED
      BY <3>1, <3>2, <2>2, <1>2
  <2> QED
    BY <2>1, <2>2
<1> QED
  BY <1>3, <1>4, <1>5

\* A class blacklisted anywhere depends on ServiceState, which never is.
LEMMA BlackedFacts ==
    ASSUME NEW d, NEW c \in BlackedFor(d)
    PROVE  c # "ServiceState" /\ "ServiceState" \in DependsOn(c)
<1>1. c \in {"LIOFileioState", "LIOISCSIState", "TgtState"}
  BY DEF BlackedFor
<1>2. DependList(c)[1] = "ServiceState" /\ 1 \in DOMAIN DependList(c)
  BY <1>1 DEF DependList
<1> QED
  BY <1>1, <1>2 DEF DependsOn

\* The dependencies of a class are classes.
LEMMA DependListType ==
    ASSUME NEW c
    PROVE  /\ DependList(c) \in Seq(AllClasses)
           /\ DependsOn(c) = ToSet(DependList(c))
<1>1. DependList(c) \in
         {<<>>, <<"MountState">>, <<"ServiceState">>,
          <<"ServiceState", "LVMState", "PoolState">>,
          <<"ServiceState", "LVMState", "ISCSIState">>,
          <<"ServiceState", "LVMState", "ISCSIState", "LIOISCSIState">>}
  BY DEF DependList
<1>2. /\ <<>> \in Seq(AllClasses)
      /\ <<"MountState">> \in Seq(AllClasses) /\ <<"ServiceState">> \in Seq(AllClasses)
      /\ <<"ServiceState", "LVMState", "PoolState">> \in Seq(AllClasses)
      /\ <<"ServiceState", "LVMState", "ISCSIState">> \in Seq(AllClasses)
      /\ <<"ServiceState", "LVMState", "ISCSIState", "LIOISCSIState">> \in Seq(AllClasses)
  BY DEF AllClasses
<1> QED
  BY <1>1, <1>2 DEF DependsOn, ToSet

\* There are finitely many classes.
LEMMA ClassIsFinite == \A S \in SUBSET Class : IsFiniteSet(S) /\ Cardinality(S) \in Nat
<1>1. IsFiniteSet(AllClasses)
  <2>1. \A S, x : IsFiniteSet(S) => IsFiniteSet(S \cup {x})
    BY FS_AddElement
  <2>2. IsFiniteSet({"ServiceState", "DomainState", "NetworkState", "PoolState"})
    <3>1. IsFiniteSet((({"ServiceState"} \cup {"DomainState"}) \cup {"NetworkState"})
                      \cup {"PoolState"})
      BY <2>1, FS_Singleton
    <3> QED
      BY <3>1
  <2>3. IsFiniteSet({"SecretState", "MountState", "ExportfsState", "DirState", "FileState"})
    <3>1. IsFiniteSet(((({"SecretState"} \cup {"MountState"}) \cup {"ExportfsState"})
                      \cup {"DirState"}) \cup {"FileState"})
      BY <2>1, FS_Singleton
    <3> QED
      BY <3>1
  <2>4. IsFiniteSet({"LVMState", "ISCSIState", "LIOISCSIState", "LIOFileioState", "TgtState"})
    <3>1. IsFiniteSet(((({"LVMState"} \cup {"ISCSIState"}) \cup {"LIOISCSIState"})
                      \cup {"LIOFileioState"}) \cup {"TgtState"})
      BY <2>1, FS_Singleton
    <3> QED
      BY <3>1
  <2>5. AllClasses = ({"ServiceState", "DomainState", "NetworkState", "PoolState"}
           \cup {"SecretState", "MountState", "ExportfsState", "DirState", "FileState"})
           \cup {"LVMState", "ISCSIState", "LIOISCSIState", "LIOFileioState", "TgtState"}
    BY DEF AllClasses
  <2> QED
    BY <2>2, <2>3, <2>4, <2>5, FS_Union
<1> QED
  BY <1>1, FS_Subset, FS_CardinalityType, ClassAssumption

-----------------------------------------------------------------------------
(***************************************************************************)
(* The inductive invariant.                                                *)
(***************************************************************************)

Frames == [name : Class, deps : Seq(AllClasses)]

TypeInv ==
    /\ unseen \subseteq Class
    /\ stack \in Seq(Frames)
    /\ ordered \in Seq(Class)
    /\ index \in Nat
    /\ informed \subseteq Class
    /\ dropped \subseteq Class

\* The loop of States.__init__ starts when the walk is over.
PhaseInv ==
    /\ index = 0 => informed = {} /\ dropped = {}
    /\ index > 0 => Encapsulated

Visiting == {stack[k].name : k \in DOMAIN stack}

\* Of a class being visited, every dependency is still to be visited, or has
\* been placed, or is the next class on the stack: whether the dependencies
\* have cycles does not matter.
StackInv ==
    /\ \A k \in DOMAIN stack : \A d \in DependsOn(stack[k].name) \cap Class :
          \/ d \in ToSet(stack[k].deps)
          \/ d \in ToSet(ordered)
          \/ k < Len(stack) /\ stack[k + 1].name = d
    /\ Class \subseteq unseen \cup Visiting \cup ToSet(ordered) \cup dropped

OrderInv ==
    /\ IsInjective(ordered)
    /\ ToSet(ordered) \cap dropped = {}
    /\ \A k \in DOMAIN ordered : \A d \in DependsOn(ordered[k]) \cap (Class \ dropped) :
          \E j \in 1..(k - 1) : ordered[j] = d

\* What the loop has passed without looking at it.
Passed == {ordered[k] : k \in {j \in DOMAIN ordered : j < index}} \ informed

LoopInv ==
    /\ dropped = informed \cap BlackedFor(dist)
    /\ Class \subseteq informed \cup ToSet(ordered)
    /\ \A k \in DOMAIN ordered : k >= index => ordered[k] \notin informed
    /\ index > 0 => \/ "ServiceState" \in informed
                  \/ \E k \in DOMAIN ordered : k >= index /\ ordered[k] = "ServiceState"
    /\ Cardinality(Passed) <= Cardinality(dropped)

IInv == TypeInv /\ PhaseInv /\ StackInv /\ OrderInv /\ (index > 0 => LoopInv)

-----------------------------------------------------------------------------
(***************************************************************************)
(* The walk of encapsulate_states.                                         *)
(***************************************************************************)

\* The invariant holds before the first class is visited.
LEMMA InitHolds == OrderInit => IInv
<1> SUFFICES ASSUME OrderInit PROVE IInv
  OBVIOUS
<1>1. TypeInv /\ PhaseInv /\ StackInv /\ OrderInv
  BY DEF OrderInit, TypeInv, PhaseInv, StackInv, OrderInv, ToSet, IsInjective, Visiting
<1> QED
  BY <1>1 DEF OrderInit, IInv

\* While the walk goes on, the loop over the list has not begun.
WalkInv == TypeInv /\ PhaseInv /\ StackInv /\ OrderInv

\* The walk begins with the next class ...
LEMMA WalkNext ==
    ASSUME WalkInv, NEW c \in Class, NextState(c)
    PROVE  WalkInv' /\ index' = 0
<1> USE DEF NextState
<1>1. /\ index = 0 /\ stack = <<>> /\ stack' = <<Frame(c)>>
      /\ Frame(c) \in Frames /\ Frame(c).name = c /\ Frame(c).deps = DependList(c)
  BY DependListType DEF Frame, Frames
<1>2. TypeInv'
  BY <1>1 DEF WalkInv, TypeInv
<1>3. PhaseInv'
  BY DEF WalkInv, PhaseInv
<1>4. DOMAIN stack' = {1} /\ stack'[1] = Frame(c) /\ Len(stack') = 1
  BY <1>1
<1>5. StackInv'
  <2>1. \A d \in DependsOn(c) : d \in ToSet(stack'[1].deps)
    BY <1>1, <1>4, DependListType
  <2>2. Visiting = {} /\ Visiting' = {c}
    <3>1. DOMAIN stack = {}
      BY <1>1
    <3> QED
      BY <3>1, <1>1, <1>4 DEF Visiting
  <2>3. (Class \subseteq unseen \cup Visiting \cup ToSet(ordered) \cup dropped)'
    BY <2>2 DEF WalkInv, StackInv
  <2>4. \A k \in DOMAIN stack' : \A d \in DependsOn(stack'[k].name) \cap Class :
           d \in ToSet(stack'[k].deps)
    BY <2>1, <1>4, <1>1
  <2> QED
    BY <2>3, <2>4 DEF StackInv
<1>6. OrderInv'
  BY DEF WalkInv, OrderInv
<1> QED
  BY <1>1, <1>2, <1>3, <1>5, <1>6 DEF WalkInv

\* (A frame with other dependencies left.)
LEMMA FrameExcept ==
    ASSUME NEW f \in Frames, NEW v
    PROVE  [f EXCEPT !.deps = v] = [name |-> f.name, deps |-> v]
BY DEF Frames

\* ... goes down to a dependency ...
LEMMA WalkVisit ==
    ASSUME WalkInv, VisitDependency
    PROVE  WalkInv' /\ index' = 0
<1> DEFINE top  == Last(stack)
           cut  == [top EXCEPT !.deps = Tail(@)]
           rest == Append(Front(stack), cut)
           dep  == Head(top.deps)
           n    == Len(stack)
<1>1. stack \in Seq(Frames) /\ stack # <<>> /\ ordered \in Seq(Class)
  BY DEF WalkInv, TypeInv, VisitDependency
<1>2. /\ n \in Nat \ {0} /\ DOMAIN stack = 1..n
      /\ top = stack[n] /\ top \in Frames
      /\ Front(stack) \in Seq(Frames) /\ Len(Front(stack)) = n - 1
      /\ \A k \in 1..(n - 1) : Front(stack)[k] = stack[k]
  BY <1>1, FrontAndLast
<1>3. top.name \in Class /\ top.deps \in Seq(AllClasses) /\ top.deps # <<>>
  BY <1>2 DEF Frames, VisitDependency
<1>4. /\ cut \in Frames /\ cut.name = top.name /\ cut.deps = Tail(top.deps)
      /\ ToSet(top.deps) \subseteq {dep} \cup ToSet(cut.deps)
  <2> HIDE DEF top
  <2>1. Tail(top.deps) \in Seq(AllClasses) /\ ToSet(top.deps) = {dep} \cup ToSet(Tail(top.deps))
    BY <1>3, HeadAndTail
  <2>2. cut = [name |-> top.name, deps |-> Tail(top.deps)]
    BY <1>2, FrameExcept DEF Frames
  <2> HIDE DEF cut
  <2> QED
    BY <1>3, <2>1, <2>2 DEF Frames
<1>5. /\ rest \in Seq(Frames) /\ Len(rest) = n /\ DOMAIN rest = 1..n
      /\ rest[n] = cut /\ \A k \in 1..(n - 1) : rest[k] = stack[k]
  <2> HIDE DEF cut
  <2> QED
    BY <1>1, <1>4, LastReplaced
<1>6. index = 0
  BY <1>1 DEF WalkInv, TypeInv, PhaseInv, VisitDependency, Encapsulated
<1>7. \/ dep \in Class /\ stack' = Append(rest, Frame(dep))
      \/ dep \notin Class /\ stack' = rest
  BY DEF VisitDependency
<1>8. /\ \A c \in Class : Frame(c) \in Frames /\ Frame(c).name = c
                         /\ ToSet(Frame(c).deps) = DependsOn(c)
  BY DependListType DEF Frame, Frames
<1> HIDE DEF top, cut, rest, dep, n
<1>9. /\ stack' \in Seq(Frames) /\ Len(stack') \in Nat /\ DOMAIN stack' = 1..Len(stack')
      /\ n <= Len(stack') /\ \A k \in 1..n : stack'[k] = rest[k]
      /\ \A k \in (n + 1)..Len(stack') :
            k = n + 1 /\ dep \in Class /\ stack'[k] = Frame(dep)
      /\ dep \in Class => Len(stack') = n + 1
  <2>1. CASE dep \in Class /\ stack' = Append(rest, Frame(dep))
    BY <2>1, <1>2, <1>5, <1>8
  <2>2. CASE dep \notin Class /\ stack' = rest
    BY <2>2, <1>2, <1>5
  <2> QED
    BY <1>7, <2>1, <2>2
<1>10. n \in Nat /\ Len(stack') \in Nat /\ DOMAIN stack' = 1..Len(stack') /\ n <= Len(stack')
  BY <1>2, <1>9
<1>14. TypeInv' /\ PhaseInv' /\ OrderInv' /\ index' = 0
  BY <1>6, <1>9 DEF WalkInv, TypeInv, PhaseInv, OrderInv, VisitDependency
<1>15. \A k \in 1..n : stack'[k].name = stack[k].name
  <2>1. ASSUME NEW k \in 1..(n - 1) PROVE stack'[k] = stack[k] /\ k \in 1..n
    <3>1. k \in 1..n
      BY <1>2
    <3> QED
      BY <3>1, <1>5, <1>9
  <2>2. stack'[n] = cut /\ n \in 1..n
    <3>1. n \in 1..n
      BY <1>2
    <3>2. stack'[n] = rest[n] /\ rest[n] = cut
      BY <3>1, <1>5, <1>9
    <3> QED
      BY <3>1, <3>2
  <2>3. \A k \in 1..n : k = n \/ k \in 1..(n - 1)
    BY <1>2
  <2> QED
    BY <2>1, <2>2, <2>3, <1>2, <1>4
<1>11. Visiting \subseteq Visiting'
  <2>1. \A k \in 1..n : k \in DOMAIN stack'
    BY <1>10
  <2> QED
    BY <2>1, <1>2, <1>15 DEF Visiting
<1>12. ASSUME NEW k \in DOMAIN stack', NEW d \in DependsOn(stack'[k].name) \cap Class
       PROVE  \/ d \in ToSet(stack'[k].deps)
              \/ d \in ToSet(ordered)
              \/ k < Len(stack') /\ stack'[k + 1].name = d
  <2>1. CASE k \in 1..(n - 1)
    <3>1. k \in 1..n /\ k + 1 \in 1..n /\ k < n /\ n <= Len(stack')
      BY <2>1, <1>10
    <3>2. stack'[k] = stack[k] /\ stack'[k + 1].name = stack[k + 1].name
      BY <2>1, <3>1, <1>5, <1>9, <1>15
    <3>3. \/ d \in ToSet(stack[k].deps) \/ d \in ToSet(ordered)
          \/ k < n /\ stack[k + 1].name = d
      BY <3>1, <1>2, <3>2 DEF WalkInv, StackInv, n
    <3>4. k < Len(stack')
      BY <3>1, <1>10
    <3> QED
      BY <3>2, <3>3, <3>4
  <2>2. CASE k = n
    <3>1. stack'[k] = cut /\ stack[n].name = cut.name /\ stack[n].deps = top.deps
      <4>1. n \in 1..n
        BY <1>2
      <4>2. stack'[n] = rest[n]
        BY <4>1, <1>9
      <4>3. rest[n] = cut
        BY <1>5
      <4>4. stack[n] = top /\ cut.name = top.name
        BY <1>2, <1>4
      <4> QED
        BY <2>2, <4>2, <4>3, <4>4
    <3>2. d \in ToSet(stack[n].deps) \/ d \in ToSet(ordered)
      BY <3>1, <1>2 DEF WalkInv, StackInv, n
    <3>3. CASE d = dep
      <4>1. Len(stack') = n + 1 /\ stack'[n + 1] = Frame(dep)
        BY <3>3, <1>9, <1>2
      <4> QED
        BY <4>1, <3>3, <2>2, <1>2, <1>8
    <3>4. CASE d # dep
      BY <3>1, <3>2, <3>4, <1>4
    <3> QED
      BY <3>3, <3>4
  <2>3. CASE k \in (n + 1)..Len(stack')
    BY <2>3, <1>8, <1>9
  <2> QED
    <3>1. k \in 1..(n - 1) \/ k = n \/ k \in (n + 1)..Len(stack')
      BY <1>2, <1>10
    <3> QED
      BY <3>1, <2>1, <2>2, <2>3
<1>13. StackInv'
  BY <1>11, <1>12 DEF StackInv, WalkInv, VisitDependency
<1> QED
  BY <1>14, <1>13 DEF WalkInv

\* ... and comes back to the class that asked for it.
LEMMA WalkReturn ==
    ASSUME WalkInv, ReturnFromUpdate
    PROVE  WalkInv' /\ index' = 0
<1> DEFINE n == Len(stack)
           c == stack[n].name
<1>1. /\ stack \in Seq(Frames) /\ stack # <<>> /\ ordered \in Seq(Class)
      /\ stack' = Front(stack) /\ ordered' = AppendOnce(ordered, Last(stack).name)
      /\ Last(stack).deps = <<>> /\ dropped' = dropped /\ unseen' = unseen
  BY DEF WalkInv, TypeInv, ReturnFromUpdate
<1>2. /\ n \in Nat \ {0} /\ DOMAIN stack = 1..n
      /\ Last(stack) = stack[n] /\ Last(stack) \in Frames
      /\ stack' \in Seq(Frames) /\ Len(stack') = n - 1 /\ DOMAIN stack' = 1..(n - 1)
      /\ \A k \in 1..(n - 1) : stack'[k] = stack[k]
  BY <1>1, FrontAndLast
<1>3. c \in Class /\ stack[n].deps = <<>> /\ Last(stack).name = c
  BY <1>1, <1>2 DEF Frames
<1>4. index = 0 /\ dropped = {} /\ informed = {}
  BY <1>1 DEF WalkInv, TypeInv, PhaseInv, ReturnFromUpdate, Encapsulated
<1> HIDE DEF n, c
<1>5. \/ c \in ToSet(ordered) /\ ordered' = ordered
      \/ c \notin ToSet(ordered) /\ ordered' = Append(ordered, c)
  BY <1>1, <1>3 DEF AppendOnce
<1>6. /\ ordered' \in Seq(Class) /\ ToSet(ordered') = ToSet(ordered) \cup {c}
      /\ Len(ordered) \in Nat /\ DOMAIN ordered = 1..Len(ordered)
      /\ \A k \in DOMAIN ordered : k \in DOMAIN ordered' /\ ordered'[k] = ordered[k]
      /\ \A k \in DOMAIN ordered' \ DOMAIN ordered :
            k = Len(ordered) + 1 /\ ordered'[k] = c /\ c \notin ToSet(ordered)
  <2>1. CASE c \in ToSet(ordered) /\ ordered' = ordered
    BY <2>1, <1>1
  <2>2. CASE c \notin ToSet(ordered) /\ ordered' = Append(ordered, c)
    <3>1. /\ ordered' \in Seq(Class) /\ Len(ordered) \in Nat
          /\ DOMAIN ordered = 1..Len(ordered) /\ DOMAIN ordered' = 1..(Len(ordered) + 1)
          /\ ordered'[Len(ordered) + 1] = c
          /\ \A k \in 1..Len(ordered) : ordered'[k] = ordered[k]
      <4>1. ordered \in Seq(Class) /\ c \in Class /\ ordered' = Append(ordered, c)
        BY <2>2, <1>1, <1>3
      <4>2. /\ Append(ordered, c) \in Seq(Class) /\ Len(ordered) \in Nat
            /\ DOMAIN ordered = 1..Len(ordered)
            /\ DOMAIN Append(ordered, c) = 1..(Len(ordered) + 1)
            /\ Append(ordered, c)[Len(ordered) + 1] = c
            /\ \A k \in 1..Len(ordered) : Append(ordered, c)[k] = ordered[k]
        BY <4>1, AppendedAt
      <4> QED
        BY <4>1, <4>2
    <3>2. \A k \in DOMAIN ordered' : k \in DOMAIN ordered \/ k = Len(ordered) + 1
      BY <3>1
    <3>3. DOMAIN ordered \subseteq DOMAIN ordered' /\ Len(ordered) + 1 \in DOMAIN ordered'
      BY <3>1
    <3>4. ToSet(ordered') = ToSet(ordered) \cup {c}
      BY <3>1, <3>2, <3>3 DEF ToSet
    <3> QED
      BY <2>2, <3>1, <3>2, <3>3, <3>4
  <2> QED
    BY <1>5, <2>1, <2>2
<1>7. \A d \in DependsOn(c) \cap Class : d \in ToSet(ordered)
  <2>1. ToSet(stack[n].deps) = {} /\ n \in DOMAIN stack /\ ~(n < n)
    BY <1>2, <1>3 DEF ToSet
  <2> QED
    BY <2>1 DEF WalkInv, StackInv, c, n
<1>8. TypeInv' /\ PhaseInv' /\ index' = 0
  BY <1>1, <1>2, <1>4, <1>6 DEF WalkInv, TypeInv, PhaseInv, ReturnFromUpdate
<1>9. OrderInv'
  <2>1. IsInjective(ordered')
    <3> SUFFICES ASSUME NEW a \in DOMAIN ordered', NEW b \in DOMAIN ordered',
                        ordered'[a] = ordered'[b]
                 PROVE  a = b
      BY DEF IsInjective
    <3>1. CASE a \in DOMAIN ordered /\ b \in DOMAIN ordered
      BY <3>1, <1>6 DEF WalkInv, OrderInv, IsInjective
    <3>2. CASE a \notin DOMAIN ordered /\ b \notin DOMAIN ordered
      BY <3>2, <1>6
    <3>3. CASE a \in DOMAIN ordered /\ b \notin DOMAIN ordered
      BY <3>3, <1>6 DEF ToSet
    <3>4. CASE a \notin DOMAIN ordered /\ b \in DOMAIN ordered
      BY <3>4, <1>6 DEF ToSet
    <3> QED
      BY <3>1, <3>2, <3>3, <3>4
  <2>2. ASSUME NEW k \in DOMAIN ordered', NEW d \in DependsOn(ordered'[k]) \cap Class
        PROVE  \E j \in 1..(k - 1) : ordered'[j] = d
    <3>1. CASE k \in DOMAIN ordered
      <4>1. PICK j \in 1..(k - 1) : ordered[j] = d
        BY <2>2, <3>1, <1>4, <1>6 DEF WalkInv, OrderInv
      <4>2. j \in DOMAIN ordered
        BY <3>1, <1>6
      <4> QED
        BY <4>1, <4>2, <1>6
    <3>2. CASE k \notin DOMAIN ordered
      <4>1. k = Len(ordered) + 1 /\ d \in ToSet(ordered)
        BY <2>2, <3>2, <1>6, <1>7
      <4>2. PICK j \in DOMAIN ordered : ordered[j] = d
        BY <4>1 DEF ToSet
      <4>3. j \in 1..(k - 1)
        BY <4>1, <1>6
      <4> QED
        BY <4>2, <4>3, <1>6
    <3> QED
      BY <3>1, <3>2
  <2> QED
    BY <2>1, <2>2, <1>1, <1>4 DEF OrderInv
<1>10. StackInv'
  <2>1. ASSUME NEW k \in DOMAIN stack', NEW d \in DependsOn(stack'[k].name) \cap Class
        PROVE  \/ d \in ToSet(stack'[k].deps)
               \/ d \in ToSet(ordered')
               \/ k < Len(stack') /\ stack'[k + 1].name = d
    <3>1. k \in DOMAIN stack /\ stack'[k] = stack[k] /\ k < n /\ k \in 1..(n - 1)
      BY <1>2
    <3>2. \/ d \in ToSet(stack[k].deps) \/ d \in ToSet(ordered)
          \/ k < n /\ stack[k + 1].name = d
      BY <2>1, <3>1 DEF WalkInv, StackInv, n
    <3>3. CASE stack[k + 1].name = d
      <4>1. k + 1 = n \/ (k + 1 \in 1..(n - 1) /\ k < Len(stack'))
        BY <3>1, <1>2
      <4> QED
        BY <4>1, <3>3, <1>2, <1>6 DEF c
    <3> QED
      BY <3>1, <3>2, <3>3, <1>6
  <2>2. Visiting \subseteq Visiting' \cup {c}
    <3>1. \A k \in DOMAIN stack : k = n \/ k \in DOMAIN stack'
      BY <1>2
    <3> QED
      BY <3>1, <1>2 DEF Visiting, c
  <2>3. (Class \subseteq unseen \cup Visiting \cup ToSet(ordered) \cup dropped)'
    BY <2>2, <1>1, <1>6 DEF WalkInv, StackInv
  <2> QED
    BY <2>1, <2>3 DEF StackInv
<1> QED
  BY <1>8, <1>9, <1>10 DEF WalkInv

-----------------------------------------------------------------------------
(***************************************************************************)
(* The loop of States.__init__.                                            *)
(***************************************************************************)

\* All classes are in the list when the classes are told the distribution.
LEMMA LoopStarts ==
    ASSUME IInv, StartInform
    PROVE  IInv'
<1>1. index = 0 /\ index' = 1 /\ unseen = {} /\ stack = <<>> /\ informed = {} /\ dropped = {}
  BY DEF IInv, PhaseInv, StartInform, Encapsulated
<1>2. UNCHANGED <<unseen, stack, ordered, dist, informed, dropped>>
  BY DEF StartInform
<1>3. TypeInv' /\ PhaseInv' /\ StackInv' /\ OrderInv'
  BY <1>1, <1>2 DEF IInv, TypeInv, PhaseInv, StackInv, OrderInv, Encapsulated,
                    Visiting
<1>4. Class \subseteq ToSet(ordered)
  <2>1. Visiting = {}
    <3>1. DOMAIN stack = {}
      BY <1>1
    <3> QED
      BY <3>1 DEF Visiting
  <2> QED
    BY <2>1, <1>1 DEF IInv, StackInv
<1>5. ordered \in Seq(Class) /\ DOMAIN ordered = 1..Len(ordered) /\ Len(ordered) \in Nat
  BY DEF IInv, TypeInv
<1>6. LoopInv'
  <2>1. Passed' = {}
    BY <1>1, <1>2, <1>5 DEF Passed
  <2>2. PICK k \in DOMAIN ordered : ordered[k] = "ServiceState"
    BY <1>4, ClassAssumption DEF ToSet
  <2>3. k >= 1
    BY <1>5
  <2> QED
    <3>1. Cardinality(Passed') <= Cardinality(dropped')
      BY <2>1, <1>1, <1>2, FS_EmptySet
    <3>2. dropped' = informed' \cap BlackedFor(dist)'
      BY <1>1, <1>2
    <3>3. (index > 0 => \/ "ServiceState" \in informed
                    \/ \E i \in DOMAIN ordered : i >= index /\ ordered[i] = "ServiceState")'
      BY <2>2, <2>3, <1>1, <1>2
    <3> QED
      BY <3>1, <3>2, <3>3, <1>1, <1>2, <1>4 DEF LoopInv
<1> QED
  BY <1>3, <1>6 DEF IInv

\* What an iteration does, when the class at index stays and when it goes.
LEMMA InformKeeps ==
    ASSUME IInv, Inform, ordered[index] \notin BlackedFor(dist)
    PROVE  IInv'
<1> DEFINE c == ordered[index]
<1>1. /\ index \in 1..Len(ordered) /\ index' = index + 1 /\ informed' = informed \cup {c}
      /\ UNCHANGED <<unseen, stack, ordered, dist, dropped>>
  BY DEF Inform
<1>2. /\ ordered \in Seq(Class) /\ DOMAIN ordered = 1..Len(ordered) /\ Len(ordered) \in Nat
      /\ index \in Nat /\ index > 0 /\ c \in Class /\ informed \subseteq Class
  BY <1>1 DEF IInv, TypeInv
<1>3. LoopInv
  BY <1>2 DEF IInv
<1> HIDE DEF c
<1>4. TypeInv' /\ PhaseInv' /\ StackInv' /\ OrderInv'
  BY <1>1, <1>2 DEF IInv, TypeInv, PhaseInv, StackInv, OrderInv, Encapsulated,
                    Visiting
<1>5. Passed' \subseteq Passed
  <2>1. \A j \in DOMAIN ordered : j < index + 1 => j < index \/ j = index
    BY <1>2
  <2> QED
    BY <2>1, <1>1 DEF Passed, c
<1>6. Cardinality(Passed') <= Cardinality(Passed) /\ Cardinality(Passed') \in Nat
      /\ Cardinality(Passed) \in Nat /\ Cardinality(dropped) \in Nat
  <2>1. Passed \subseteq Class /\ dropped \subseteq Class
    BY <1>2 DEF Passed, IInv, TypeInv
  <2>2. IsFiniteSet(Passed)
    BY <2>1, ClassIsFinite
  <2> HIDE DEF Passed
  <2> QED
    BY <1>5, <2>1, <2>2, FS_Subset, ClassIsFinite
<1>7. ASSUME NEW k \in DOMAIN ordered, k >= index + 1
      PROVE  ordered[k] \notin informed'
  <2>1. k # index /\ k >= index /\ index \in DOMAIN ordered
    BY <1>1, <1>2, <1>7
  <2>2. ordered[k] # c
    BY <2>1 DEF IInv, OrderInv, IsInjective, c
  <2> QED
    BY <2>1, <2>2, <1>1, <1>3 DEF LoopInv
<1>8. \/ "ServiceState" \in informed'
      \/ \E k \in DOMAIN ordered : k >= index + 1 /\ ordered[k] = "ServiceState"
  <2>1. CASE "ServiceState" \in informed
    BY <2>1, <1>1
  <2>2. ASSUME NEW k \in DOMAIN ordered, k >= index, ordered[k] = "ServiceState"
        PROVE  k = index \/ k >= index + 1
    BY <2>2, <1>2
  <2> QED
    BY <2>1, <2>2, <1>1, <1>2, <1>3 DEF LoopInv, c
<1>9. LoopInv'
  <2>1. dropped' = informed' \cap BlackedFor(dist')
    BY <1>1, <1>3 DEF LoopInv, c
  <2>2. (Cardinality(Passed) <= Cardinality(dropped))'
    BY <1>1, <1>3, <1>6 DEF LoopInv
  <2>3. (Class \subseteq informed \cup ToSet(ordered))'
    BY <1>1, <1>3 DEF LoopInv
  <2> QED
    BY <2>1, <2>2, <2>3, <1>1, <1>7, <1>8 DEF LoopInv
<1> QED
  BY <1>4, <1>9 DEF IInv

\* A class that does not support the distribution is taken out of the list.
LEMMA InformDrops ==
    ASSUME IInv, Inform, ordered[index] \in BlackedFor(dist)
    PROVE  IInv'
<1> DEFINE c == ordered[index]
           n == Len(ordered)
<1>1. /\ index \in 1..n /\ index' = index + 1 /\ informed' = informed \cup {c}
      /\ ordered' = RemoveAt(ordered, index) /\ dropped' = dropped \cup {c}
      /\ UNCHANGED <<unseen, stack, dist>>
  BY DEF Inform
<1>2. /\ ordered \in Seq(Class) /\ DOMAIN ordered = 1..n /\ n \in Nat
      /\ index \in Nat /\ index > 0 /\ c \in Class
      /\ informed \subseteq Class /\ dropped \subseteq Class
  BY <1>1 DEF IInv, TypeInv
<1>3. LoopInv /\ OrderInv
  BY <1>2 DEF IInv
<1>4. c \in BlackedFor(dist)
  OBVIOUS
<1> HIDE DEF c, n
<1>5. /\ ordered' \in Seq(Class) /\ DOMAIN ordered' = 1..(n - 1)
      /\ \A k \in 1..(n - 1) : ordered'[k] = IF k < index THEN ordered[k] ELSE ordered[k + 1]
  <2>1. index \in 1..Len(ordered)
    BY <1>1 DEF n
  <2> QED
    BY <2>1, <1>1, <1>2, RemoveAtProperties DEF n
\* Where an element was before the removal.
<1> DEFINE Old(k) == IF k < index THEN k ELSE k + 1
<1>6. ASSUME NEW k \in 1..(n - 1)
      PROVE  /\ Old(k) \in 1..n /\ Old(k) # index /\ ordered'[k] = ordered[Old(k)]
             /\ ordered'[k] # c /\ (k >= index => Old(k) = k + 1)
  <2>1. Old(k) \in 1..n /\ Old(k) # index /\ (k >= index => Old(k) = k + 1)
    BY <1>1, <1>2
  <2>2. ordered'[k] = ordered[Old(k)]
    BY <1>5
  <2> HIDE DEF Old
  <2>3. ordered[Old(k)] # c
    BY <2>1, <1>1, <1>2, <1>3 DEF OrderInv, IsInjective, c
  <2> QED
    BY <2>1, <2>2, <2>3
<1>7. ASSUME NEW i \in 1..n, i # index
      PROVE  \E k \in 1..(n - 1) : i = Old(k) /\ ordered'[k] = ordered[i]
                                    /\ (i < index => k = i) /\ (i > index => k = i - 1)
  <2>1. CASE i < index
    <3>1. i \in 1..(n - 1) /\ i = Old(i)
      BY <2>1, <1>1, <1>2
    <3> QED
      BY <3>1, <2>1, <1>1, <1>2, <1>5
  <2>2. CASE i > index
    <3>1. i - 1 \in 1..(n - 1) /\ i = Old(i - 1) /\ ~(i - 1 < index) /\ (i - 1) + 1 = i
      BY <2>2, <1>1, <1>2
    <3> QED
      BY <3>1, <2>2, <1>1, <1>2, <1>5
  <2> QED
    BY <1>7, <1>1, <1>2, <2>1, <2>2
<1>8. ASSUME NEW a \in 1..(n - 1), NEW b \in 1..(n - 1), Old(a) = Old(b)
      PROVE  a = b
  BY <1>8, <1>1, <1>2
<1>9. ASSUME NEW a \in 1..(n - 1), NEW b \in 1..(n - 1), Old(a) < Old(b)
      PROVE  a < b
  BY <1>9, <1>1, <1>2
<1> HIDE DEF Old
<1>10. ToSet(ordered') = ToSet(ordered) \ {c}
  <2>1. ASSUME NEW k \in 1..(n - 1)
        PROVE  ordered'[k] \in ToSet(ordered) \ {c}
    BY <1>2, <1>6 DEF ToSet
  <2>2. ASSUME NEW i \in 1..n, ordered[i] # c
        PROVE  ordered[i] \in ToSet(ordered')
    <3>1. PICK k \in 1..(n - 1) : ordered'[k] = ordered[i]
      BY <2>2, <1>7 DEF c
    <3> QED
      BY <3>1, <1>5 DEF ToSet
  <2>3. ToSet(ordered') \subseteq ToSet(ordered) \ {c}
    BY <2>1, <1>5 DEF ToSet
  <2>4. ToSet(ordered) \ {c} \subseteq ToSet(ordered')
    BY <2>2, <1>2 DEF ToSet
  <2> QED
    BY <2>3, <2>4
<1>11. c \notin informed /\ c \notin dropped /\ c # "ServiceState"
       /\ "ServiceState" \in DependsOn(c) /\ "ServiceState" \notin BlackedFor(dist)
  <2>1. c \notin informed
    BY <1>1, <1>2, <1>3 DEF LoopInv, c
  <2>2. c # "ServiceState" /\ "ServiceState" \in DependsOn(c)
        /\ "ServiceState" \notin BlackedFor(dist)
    BY <1>4, BlackedFacts
  <2> QED
    BY <2>1, <2>2, <1>3 DEF LoopInv
<1>12. TypeInv' /\ PhaseInv'
  BY <1>1, <1>2, <1>5 DEF IInv, TypeInv, PhaseInv, Encapsulated
<1>13. StackInv'
  <2>1. stack = <<>> /\ unseen = {}
    BY <1>2 DEF IInv, PhaseInv, Encapsulated
  <2>2. DOMAIN stack = {}
    BY <2>1
  <2>3. Class \subseteq ToSet(ordered) \cup dropped
    BY <2>1, <2>2 DEF IInv, StackInv, Visiting
  <2> QED
    BY <2>2, <2>3, <1>1, <1>10 DEF StackInv
<1>14. OrderInv'
  <2>1. IsInjective(ordered')
    BY <1>2, <1>3, <1>5, <1>6, <1>8 DEF OrderInv, IsInjective
  <2>2. ASSUME NEW k \in DOMAIN ordered',
               NEW d \in DependsOn(ordered'[k]) \cap (Class \ dropped')
        PROVE  \E j \in 1..(k - 1) : ordered'[j] = d
    <3>1. k \in 1..(n - 1) /\ Old(k) \in 1..n /\ ordered'[k] = ordered[Old(k)]
      BY <1>5, <1>6
    <3>2. d \in Class \ dropped /\ d # c
      BY <1>1
    <3>3. PICK i \in 1..(Old(k) - 1) : ordered[i] = d
      BY <2>2, <3>1, <3>2, <1>2, <1>3 DEF OrderInv
    <3>4. i \in 1..n /\ i # index /\ i < Old(k)
      BY <3>1, <3>2, <3>3, <1>2 DEF c
    <3>5. PICK j \in 1..(n - 1) : i = Old(j) /\ ordered'[j] = d
      BY <3>3, <3>4, <1>7
    <3>6. j < k
      BY <3>1, <3>4, <3>5, <1>9
    <3> QED
      BY <3>1, <3>5, <3>6, <1>2
  <2>3. ToSet(ordered') \cap dropped' = {}
    BY <1>1, <1>3, <1>10 DEF OrderInv
  <2> QED
    BY <2>1, <2>2, <2>3 DEF OrderInv
<1>15. \A k \in DOMAIN ordered' : k >= index' => ordered'[k] \notin informed'
  <2> SUFFICES ASSUME NEW k \in 1..(n - 1), k >= index + 1
               PROVE  ordered'[k] \notin informed'
    BY <1>1, <1>5
  <2>1. k >= index /\ k + 1 >= index
    BY <1>2
  <2>2. k + 1 \in DOMAIN ordered /\ ordered'[k] = ordered[k + 1]
    BY <2>1, <1>2, <1>6
  <2>3. ordered[k + 1] \notin informed
    BY <2>1, <2>2, <1>3 DEF LoopInv
  <2> QED
    BY <2>2, <2>3, <1>1, <1>6
\* ServiceState stands before what is removed, so it is informed already.
<1>16. "ServiceState" \in informed
  <2>1. PICK j \in 1..(index - 1) : ordered[j] = "ServiceState"
    <3>1. "ServiceState" \in Class \ dropped
      BY <1>3, <1>11, ClassAssumption DEF LoopInv
    <3> QED
      BY <3>1, <1>1, <1>2, <1>3, <1>11 DEF OrderInv, c
  <2>2. ASSUME NEW k \in DOMAIN ordered, k >= index, ordered[k] = "ServiceState"
        PROVE  FALSE
    <3>1. j \in DOMAIN ordered /\ j # k
      BY <2>2, <1>1, <1>2
    <3> QED
      BY <3>1, <2>1, <2>2, <1>3 DEF OrderInv, IsInjective
  <2> QED
    BY <2>2, <1>2, <1>3 DEF LoopInv
\* The loop passes one more element unseen, the one that followed.
<1>17. Cardinality(Passed') <= Cardinality(dropped')
  <2>1. Passed' \subseteq Passed \cup {ordered'[index]}
    <3>1. ASSUME NEW k \in 1..(n - 1), k < index + 1, k # index
          PROVE  k \in DOMAIN ordered /\ k < index /\ ordered'[k] = ordered[k]
      BY <3>1, <1>2, <1>5
    <3> QED
      BY <3>1, <1>1, <1>5 DEF Passed
  <2>2. Passed \subseteq Class
    BY <1>2 DEF Passed
  <2>3. /\ IsFiniteSet(Passed \cup {ordered'[index]})
        /\ Cardinality(Passed \cup {ordered'[index]}) \in Nat
        /\ Cardinality(Passed \cup {ordered'[index]}) <= Cardinality(Passed) + 1
        /\ Cardinality(Passed) \in Nat
    <3> HIDE DEF Passed
    <3>1. IsFiniteSet(Passed) /\ Cardinality(Passed) \in Nat
      BY <2>2, ClassIsFinite
    <3> DEFINE x == ordered'[index]
    <3> HIDE DEF x
    <3>2. /\ IsFiniteSet(Passed \cup {x})
          /\ Cardinality(Passed \cup {x})
                = IF x \in Passed THEN Cardinality(Passed) ELSE Cardinality(Passed) + 1
      BY <3>1, FS_AddElement
    <3> QED
      BY <3>1, <3>2 DEF x
  <2>4. Cardinality(Passed') <= Cardinality(Passed \cup {ordered'[index]})
        /\ Cardinality(Passed') \in Nat
    <3> HIDE DEF Passed
    <3> QED
      BY <2>1, <2>3, FS_Subset, FS_CardinalityType
  <2>5. Cardinality(dropped') = Cardinality(dropped) + 1 /\ Cardinality(dropped) \in Nat
    <3>1. IsFiniteSet(dropped) /\ Cardinality(dropped) \in Nat
      BY <1>2, ClassIsFinite
    <3> QED
      BY <3>1, <1>1, <1>11, FS_AddElement
  <2>6. Cardinality(Passed) <= Cardinality(dropped)
    BY <1>3 DEF LoopInv
  <2> QED
    BY <2>3, <2>4, <2>5, <2>6
<1>18. LoopInv'
  <2>1. dropped' = informed' \cap BlackedFor(dist')
    BY <1>1, <1>3, <1>4 DEF LoopInv
  <2>2. (Class \subseteq informed \cup ToSet(ordered))'
    BY <1>1, <1>3, <1>10 DEF LoopInv
  <2>3. "ServiceState" \in informed'
    BY <1>1, <1>16
  <2> QED
    BY <2>1, <2>2, <2>3, <1>15, <1>17 DEF LoopInv
<1> QED
  BY <1>12, <1>13, <1>14, <1>18 DEF IInv

\* No step breaks the invariant.
LEMMA StepKeeps == IInv /\ [OrderNext]_orderVars => IInv'
<1> SUFFICES ASSUME IInv, [OrderNext]_orderVars PROVE IInv'
  OBVIOUS
<1>1. WalkInv
  BY DEF IInv, WalkInv
<1>2. WalkInv' /\ index' = 0 => IInv'
  BY DEF IInv, WalkInv
<1>3. ASSUME NEW c \in Class, NextState(c) PROVE IInv'
  BY <1>1, <1>2, <1>3, WalkNext
<1>4. CASE VisitDependency
  BY <1>1, <1>2, <1>4, WalkVisit
<1>5. CASE ReturnFromUpdate
  BY <1>1, <1>2, <1>5, WalkReturn
<1>6. CASE StartInform
  BY <1>6, LoopStarts
<1>7. CASE Inform
  BY <1>7, InformKeeps, InformDrops
<1>8. CASE UNCHANGED orderVars
  BY <1>8 DEF IInv, TypeInv, PhaseInv, StackInv, OrderInv, LoopInv, orderVars,
              Encapsulated, Visiting, Passed
<1> QED
  BY <1>3, <1>4, <1>5, <1>6, <1>7, <1>8 DEF OrderNext

\* It holds throughout, for any set of classes.
THEOREM InvariantHolds == OrderSpec => []IInv
BY InitHolds, StepKeeps, PTL DEF OrderSpec

-----------------------------------------------------------------------------
(***************************************************************************)
(* What follows for the list.                                              *)
(***************************************************************************)

\* In whatever order the dict yields the classes, and whatever loops their
\* dependencies form, every class stands behind the ones it depends on and
\* none stands twice (dependency_update).
THEOREM DependenciesAlways == OrderSpec => []DependenciesFirst
<1>1. IInv => DependenciesFirst
  <2> SUFFICES ASSUME IInv, NEW c \in ToSet(ordered), NEW d \in DependsOn(c),
                      d \in Class \ dropped
               PROVE  d \in ToSet(ordered) /\ Position(d) < Position(c)
    BY DEF DependenciesFirst, IInv, OrderInv
  <2>1. ordered \in Seq(Class) /\ DOMAIN ordered = 1..Len(ordered) /\ Len(ordered) \in Nat
    BY DEF IInv, TypeInv
  <2>2. \A k \in DOMAIN ordered : Position(ordered[k]) = k
    BY DEF Position, IInv, OrderInv, IsInjective
  <2>3. PICK k \in DOMAIN ordered : ordered[k] = c
    BY DEF ToSet
  <2>4. PICK j \in 1..(k - 1) : ordered[j] = d
    BY <2>3 DEF IInv, OrderInv
  <2>5. j \in DOMAIN ordered /\ j < k
    BY <2>1, <2>3
  <2> QED
    BY <2>2, <2>3, <2>4, <2>5 DEF ToSet
<1> QED
  BY <1>1, InvariantHolds, PTL

\* The list always holds every class but the dropped ones.
LEMMA Complete == IInv /\ Encapsulated => ToSet(ordered) = Class \ dropped
<1> SUFFICES ASSUME IInv, Encapsulated PROVE ToSet(ordered) = Class \ dropped
  OBVIOUS
<1>1. DOMAIN stack = {}
  BY DEF Encapsulated
<1>2. Class \subseteq ToSet(ordered) \cup dropped
  BY <1>1 DEF IInv, StackInv, Encapsulated, Visiting
<1>3. ToSet(ordered) \subseteq Class
  BY DEF IInv, TypeInv, ToSet
<1> QED
  BY <1>2, <1>3 DEF IInv, OrderInv

\* Neither the visits that are skipped nor the removals during the loop lose
\* a class (encapsulate_states, States.__init__).
THEOREM NothingLostAlways == OrderSpec => []NothingLost
<1>1. IInv => NothingLost
  BY Complete DEF NothingLost
<1> QED
  BY <1>1, InvariantHolds, PTL

\* ServiceState learns the distribution, though the loop skips elements.
THEOREM ServiceIsInformedAlways == OrderSpec => []ServiceIsInformed
<1>1. IInv => ServiceIsInformed
  <2> SUFFICES ASSUME IInv, Built, index > 0 PROVE "ServiceState" \in informed
    BY DEF ServiceIsInformed
  <2>1. \A k \in DOMAIN ordered : ~(k >= index)
    BY DEF IInv, TypeInv, Built
  <2> QED
    BY <2>1 DEF IInv, LoopInv
<1> QED
  BY <1>1, InvariantHolds, PTL

\* At most one class stays uninformed per class removed, and a blacklisted
\* class that stays is one of those.
THEOREM SkippedAlways == OrderSpec => []SkippedBehindRemoved
<1>1. IInv => SkippedBehindRemoved
  <2> SUFFICES ASSUME IInv, Built, index > 0
               PROVE  /\ Cardinality(Class \ informed) <= Cardinality(dropped)
                      /\ \A c \in Class \ informed : c \in ToSet(ordered)
                      /\ BlackedFor(dist) \cap ToSet(ordered) \subseteq Class \ informed
    BY DEF SkippedBehindRemoved
  <2>1. \A k \in DOMAIN ordered : k < index
    BY DEF IInv, TypeInv, Built
  <2>2. ToSet(ordered) \subseteq Class /\ dropped \subseteq Class
    BY DEF IInv, TypeInv, ToSet
  <2>3. Class \ informed \subseteq Passed
    BY <2>1 DEF IInv, LoopInv, Passed, ToSet
  <2>4. Passed \subseteq Class
    BY DEF IInv, TypeInv, Passed
  <2>5. Cardinality(Class \ informed) <= Cardinality(Passed)
        /\ Cardinality(Class \ informed) \in Nat /\ Cardinality(Passed) \in Nat
        /\ Cardinality(dropped) \in Nat
    <3> HIDE DEF Passed
    <3> QED
      BY <2>2, <2>3, <2>4, ClassIsFinite, FS_Subset
  <2>6. Cardinality(Passed) <= Cardinality(dropped)
    BY DEF IInv, LoopInv
  <2>7. \A c \in Class \ informed : c \in ToSet(ordered)
    BY DEF IInv, LoopInv
  <2>8. BlackedFor(dist) \cap ToSet(ordered) \subseteq Class \ informed
    BY <2>2 DEF IInv, LoopInv, OrderInv
  <2> QED
    BY <2>5, <2>6, <2>7, <2>8
<1> QED
  BY <1>1, InvariantHolds, PTL

\* What HostState assumes of the list it is given: with the dropped classes
\* away, a sequence of all the others in which what a class depends on
\* stands before it.  Here the loop is over.
Delivers ==
    (Built /\ index > 0) =>
        /\ ordered \in Seq(Class \ dropped)
        /\ \A c \in Class \ dropped : \E k \in DOMAIN ordered : ordered[k] = c
        /\ \A j, k \in DOMAIN ordered : ordered[j] \in DependsOn(ordered[k]) => j < k

\* The list that States works with satisfies OrdersAssumption of HostState.
THEOREM DeliversAnOrder == OrderSpec => []Delivers
<1>1. IInv => Delivers
  <2> SUFFICES ASSUME IInv, index > 0
               PROVE  /\ ordered \in Seq(Class \ dropped)
                      /\ \A c \in Class \ dropped : \E k \in DOMAIN ordered : ordered[k] = c
                      /\ \A j, k \in DOMAIN ordered :
                            ordered[j] \in DependsOn(ordered[k]) => j < k
    BY DEF Delivers
  <2>1. ToSet(ordered) = Class \ dropped
    BY Complete DEF IInv, PhaseInv
  <2>2. ordered \in Seq(Class) /\ DOMAIN ordered = 1..Len(ordered) /\ Len(ordered) \in Nat
    BY DEF IInv, TypeInv
  <2>3. \A k \in 1..Len(ordered) : ordered[k] \in Class \ dropped
    BY <2>1, <2>2 DEF ToSet
  <2>4. ordered \in Seq(Class \ dropped)
    BY <2>2, <2>3
  <2>5. ASSUME NEW j \in DOMAIN ordered, NEW k \in DOMAIN ordered,
               ordered[j] \in DependsOn(ordered[k])
        PROVE  j < k
    <3>1. PICK i \in 1..(k - 1) : ordered[i] = ordered[j]
      BY <2>2, <2>3, <2>5 DEF IInv, OrderInv
    <3>2. i \in DOMAIN ordered /\ i < k
      BY <2>2, <3>1
    <3> QED
      BY <3>1, <3>2 DEF IInv, OrderInv, IsInjective
  <2> QED
    BY <2>1, <2>4, <2>5 DEF ToSet
<1> QED
  BY <1>1, InvariantHolds, PTL

-----------------------------------------------------------------------------
(* The host. *)

\* What any order gives: its length, its classes, and ServiceState before
\* every class that virsh reads.
LEMMA OrderFacts ==
    ASSUME NEW o \in Orders
    PROVE  /\ Len(o) \in Nat
           /\ \A k \in 1..Len(o) : o[k] \in Class
           /\ \A i \in Item : \E k \in 1..Len(o) : o[k] = ClassOf[i]
           /\ \A k \in 1..Len(o) : o[k] \in VirshClasses =>
                 \E j \in 1..(k - 1) : o[j] = "ServiceState"
<1>1. o \in Seq(Class) /\ Len(o) \in Nat /\ DOMAIN o = 1..Len(o)
  BY OrdersAssumption
<1>2. \A k \in 1..Len(o) : o[k] \in Class
  BY <1>1
<1>3. \A i \in Item : \E k \in 1..Len(o) : o[k] = ClassOf[i]
  BY <1>1, HostAssumption, OrdersAssumption
<1>4. ASSUME NEW k \in 1..Len(o), o[k] \in VirshClasses
      PROVE  \E j \in 1..(k - 1) : o[j] = "ServiceState"
  <2>1. PICK j \in 1..Len(o) : o[j] = "ServiceState"
    BY <1>3, HostAssumption
  <2>2. "ServiceState" \in DependsOn(o[k])
    <3>1. DependList(o[k]) = <<"ServiceState">>
      BY <1>4 DEF VirshClasses, DependList
    <3> QED
      BY <3>1 DEF DependsOn
  <2>3. j < k
    BY <1>1, <2>1, <2>2, OrdersAssumption
  <2> QED
    BY <2>1, <2>3
<1> QED
  BY <1>1, <1>2, <1>3, <1>4

\* What restore may leave is a condition, and a service's one of the two a
\* service can be in.
ServiceSafe(i, v) == ClassOf[i] = "ServiceState" => v \in {"base", "other"}

\* Whatever restore or removal leaves of an item is a condition it may be in.
LEMMA OutcomeFacts ==
    ASSUME TypeOK, NEW i \in Item, ServiceSafe(i, host[i])
    PROVE  \A v \in Restored(i) \cup HalfRestored(i) \cup HalfRemoved(i) :
              v \in Condition /\ ServiceSafe(i, v)
<1> USE DEF ServiceSafe, Condition
<1>1. host[i] \in Condition
  BY DEF TypeOK
<1>2. \A v \in HalfRestored(i) \cup HalfRemoved(i) : v \in Condition /\ ServiceSafe(i, v)
  BY <1>1 DEF HalfRestored, HalfRemoved, Rebuilds
<1>3. \A v \in RestoredMisread(i) : v \in Condition /\ ServiceSafe(i, v)
  BY <1>1 DEF RestoredMisread, Rebuilds
<1>4. \A v \in Restored(i) : v \in Condition /\ ServiceSafe(i, v)
  BY <1>1, <1>3 DEF Restored, RestoredRebuilt, RestoredMount, RestoredSession,
                    RestoredLuns, RestoredDir, Rebuilds, PathClasses
<1> QED
  BY <1>2, <1>4

\* Handling an item changes that item only.
Handles(i) == RemoveCreated(i) \/ RestoreDeleted(i) \/ RestoreChanged(i)

\* Handling an item changes that item only, and takes it off the list.
LEMMA HandleEffect ==
    ASSUME TypeOK, NEW i \in Item, ServiceSafe(i, host[i]), Handles(i)
    PROVE  /\ phase = "check" /\ i \in work /\ work' = work \ {i}
           /\ \E v \in Condition :
                 ServiceSafe(i, v) /\ host' = [host EXCEPT ![i] = v]
           /\ UNCHANGED <<memory, current, pos, msg, phase, shocks>>
           /\ flaky' \in BOOLEAN /\ faults' \in 0..MaxFaults
           /\ flaky => flaky'
<1>1. ASSUME Sound
      PROVE  flaky' \in BOOLEAN /\ faults' \in 0..MaxFaults /\ (flaky => flaky')
  <2>1. flaky' = flaky /\ faults' = faults
    BY <1>1 DEF Sound
  <2> QED
    BY <2>1, Zenon DEF TypeOK
<1>2. ASSUME Fault
      PROVE  flaky' \in BOOLEAN /\ faults' \in 0..MaxFaults /\ (flaky => flaky')
  <2>1. faults' \in 0..MaxFaults
    <3>1. faults \in 0..MaxFaults /\ faults < MaxFaults /\ faults' = faults + 1
      BY <1>2 DEF Fault, TypeOK
    <3> QED
      BY <3>1, HostAssumption
  <2>2. flaky' = TRUE
    BY <1>2 DEF Fault
  <2> QED
    BY <2>1, <2>2, Zenon
<1>3. /\ host = [host EXCEPT ![i] = host[i]]
      /\ host[i] \in Condition
      /\ ServiceSafe(i, "absent") \/ ClassOf[i] \in RefusesRemove
  BY DEF TypeOK, ServiceSafe, RefusesRemove
<1>4. CASE RemoveCreated(i)
  <2>1. phase = "check" /\ i \in Created /\ Handled(i)
    BY <1>4 DEF RemoveCreated
  <2>2. Sound \/ Fault
    BY <1>4 DEF RemoveCreated
  <2>3. \E v \in Condition : ServiceSafe(i, v) /\ host' = [host EXCEPT ![i] = v]
    <3>1. CASE Become(i, IF Removable(i) THEN {"absent"} ELSE {host[i]})
      BY <1>3, <3>1 DEF Become, Removable, Condition
    <3>2. CASE UNCHANGED host
      BY <1>3, <3>2
    <3>3. CASE Become(i, HalfRemoved(i))
      BY <3>3, OutcomeFacts DEF Become
    <3> QED
      BY <1>4, <3>1, <3>2, <3>3 DEF RemoveCreated
  <2> QED
    BY <1>1, <1>2, <2>1, <2>2, <2>3 DEF Handled, Created
<1>5. CASE RestoreDeleted(i)
  <2>1. phase = "check" /\ i \in Deleted /\ Handled(i)
    BY <1>5 DEF RestoreDeleted
  <2>2. Sound \/ Fault
    BY <1>5 DEF RestoreDeleted
  <2>3. \E v \in Condition : ServiceSafe(i, v) /\ host' = [host EXCEPT ![i] = v]
    BY <1>5, OutcomeFacts DEF RestoreDeleted, Become
  <2> QED
    BY <1>1, <1>2, <2>1, <2>2, <2>3 DEF Handled, Deleted
<1>6. CASE RestoreChanged(i)
  <2>1. phase = "check" /\ i \in Changed /\ Handled(i)
    BY <1>6 DEF RestoreChanged
  <2>2. Sound \/ Fault
    BY <1>6 DEF RestoreChanged
  <2>3. \E v \in Condition : ServiceSafe(i, v) /\ host' = [host EXCEPT ![i] = v]
    BY <1>6, OutcomeFacts DEF RestoreChanged, Become
  <2> QED
    BY <1>1, <1>2, <2>1, <2>2, <2>3 DEF Handled, Changed
<1> QED
  BY <1>4, <1>5, <1>6 DEF Handles

-----------------------------------------------------------------------------
(***************************************************************************)
(* The inductive invariant.                                                *)
(***************************************************************************)

\* A service is never absent; libvirtd is in the snapshot.
ServiceInv ==
    /\ \A i \in Item : ServiceSafe(i, host[i])
    /\ origin[Libvirtd] = "base"
    /\ phase = "start" => host = origin
    /\ phase # "start" => backup[Libvirtd] = "base"

\* What is handled was reported, is what the comparison found, and is what
\* the read showed unless the read showed nothing.
WorkInv ==
    /\ work \subseteq msg
    /\ msg \cap PermitNames = {}
    /\ phase # "check" => work = {}
    /\ \A i \in work :
          /\ current[i] = host[i] \/ current[i] = "absent"
          /\ ~Permissible(backup[i], current[i])

\* The classes read so far by a check are those in front of pos; as long as
\* nothing was found, none of them differs from the snapshot.
ReadSoFar(i) == \E k \in 1..(pos - 1) : order[k] = ClassOf[i]

SoFarClean ==
    \A i \in Item \ PermitNames : ReadSoFar(i) => Permissible(host[i], backup[i])

CleanInv ==
    /\ phase = "report" => pos > Len(order)
    /\ (phase \in {"check", "report"} /\ msg = {} /\ ~flaky /\ served) => SoFarClean

HostInv == TypeOK /\ ServiceInv /\ WorkInv /\ CleanInv

\* The invariant holds before the first backup.
LEMMA InitHostInv == Init => HostInv
<1> SUFFICES ASSUME Init PROVE HostInv
  OBVIOUS
<1>1. TypeOK
  <2>1. pos \in 1..(Len(order) + 1)
    BY OrderFacts DEF Init
  <2>2. faults \in 0..MaxFaults /\ shocks \in 0..MaxShocks
    BY HostAssumption DEF Init
  <2> QED
    BY <2>1, <2>2 DEF Init, TypeOK, Condition
<1>2. ServiceInv
  BY HostAssumption DEF Init, ServiceInv, ServiceSafe, Fixed, RefusesRemove
<1>3. WorkInv
  BY DEF Init, WorkInv
<1>4. CleanInv
  BY DEF Init, CleanInv
<1> QED
  BY <1>1, <1>2, <1>3, <1>4 DEF HostInv

\* While the service is as snapshotted, virsh answers as it did then.
LEMMA ServiceUp ==
    ASSUME HostInv, phase # "start", served,
           Permissible(host[Libvirtd], backup[Libvirtd])
    PROVE  Up
<1>1. host[Libvirtd] \in {"base", "other"} /\ backup[Libvirtd] = "base"
  BY HostAssumption DEF HostInv, ServiceInv, ServiceSafe
<1>2. host[Libvirtd] = "base"
  BY <1>1 DEF Permissible
<1> QED
  BY <1>2, Zenon DEF Up

\* A backup takes the host as it is.
LEMMA BackupKeepsInv == ASSUME HostInv, Backup PROVE HostInv'
<1>1. phase = "start" /\ phase' = "test"
      /\ UNCHANGED <<host, origin, served, order, current, pos, work, msg, shocks>>
  BY DEF Backup
<1>2. PICK blind \in SUBSET (AllClasses \ {"ServiceState"}) :
         backup' = [i \in Item |-> Seen(i, blind)]
  <2>1. /\ Unreachable \subseteq AllClasses \ {"ServiceState"}
        /\ \A c \in ToolClasses :
              Unreachable \cup {c} \subseteq AllClasses \ {"ServiceState"}
    BY DEF Unreachable, Reachable, ToolClasses, VirshClasses, AllClasses
  <2> QED
    BY <2>1 DEF Backup
<1>3. host = origin /\ origin[Libvirtd] = "base"
  BY <1>1 DEF HostInv, ServiceInv
<1>4. backup' \in [Item -> {"absent", "base"}] /\ backup'[Libvirtd] = "base"
  BY <1>2, <1>3, HostAssumption DEF Seen, HostInv, TypeOK
<1>5. flaky' \in BOOLEAN /\ faults' \in 0..MaxFaults
  <2>1. CASE Sound
    BY <2>1, Zenon DEF Sound, HostInv, TypeOK
  <2>2. CASE Fault
    <3>1. faults' \in 0..MaxFaults
      <4>1. faults \in 0..MaxFaults /\ faults < MaxFaults /\ faults' = faults + 1
        BY <2>2 DEF Fault, HostInv, TypeOK
      <4> QED
        BY <4>1, HostAssumption
    <3>2. flaky' = TRUE
      BY <2>2 DEF Fault
    <3> QED
      BY <3>1, <3>2, Zenon
  <2> QED
    BY <2>1, <2>2 DEF Backup
<1>6. TypeOK'
  BY <1>1, <1>4, <1>5, Zenon DEF HostInv, TypeOK
<1>7. ServiceInv'
  BY <1>1, <1>4 DEF HostInv, ServiceInv, ServiceSafe
<1>8. WorkInv'
  BY <1>1 DEF HostInv, WorkInv
<1>9. CleanInv'
  BY <1>1 DEF CleanInv
<1> QED
  BY <1>6, <1>7, <1>8, <1>9 DEF HostInv

\* What a test does to an item is found at the next check.
LEMMA DisturbKeepsInv ==
    ASSUME HostInv, NEW i \in Item, NEW v \in Condition, Disturb(i, v)
    PROVE  HostInv'
<1>1. /\ phase = "test" /\ phase' = "test"
      /\ host' = [host EXCEPT ![i] = v]
      /\ UNCHANGED <<memory, check, faults>>
      /\ v \in Conditions(ClassOf[i])
      /\ shocks < MaxShocks /\ shocks' = shocks + 1
  BY DEF Disturb
<1>2. ServiceSafe(i, v)
  BY <1>1 DEF Conditions, ServiceSafe
<1>3. shocks' \in 0..MaxShocks
  BY <1>1, HostAssumption DEF HostInv, TypeOK
<1>4. TypeOK'
  <2>1. host' \in [Item -> Condition]
    BY <1>1 DEF HostInv, TypeOK
  <2> QED
    BY <1>1, <1>3, <2>1, Zenon DEF HostInv, TypeOK, memory, check
<1>5. ServiceInv'
  BY <1>1, <1>2 DEF HostInv, TypeOK, ServiceInv, ServiceSafe, memory
<1>6. WorkInv'
  BY <1>1 DEF HostInv, WorkInv, check
<1>7. CleanInv'
  BY <1>1 DEF CleanInv
<1> QED
  BY <1>4, <1>5, <1>6, <1>7 DEF HostInv

\* A check begins with an empty report.
LEMMA BeginCheckKeepsInv == ASSUME HostInv, BeginCheck PROVE HostInv'
<1>1. /\ phase = "test" /\ phase' = "check"
      /\ pos' = 1 /\ msg' = {} /\ flaky' = FALSE
      /\ UNCHANGED <<host, memory, current, work, faults, shocks>>
  BY DEF BeginCheck
<1>2. TypeOK'
  <2>1. pos' \in 1..(Len(order) + 1)
    BY <1>1, OrderFacts DEF HostInv, TypeOK
  <2> QED
    BY <1>1, <2>1, Zenon DEF HostInv, TypeOK, memory
<1>3. ServiceInv'
  BY <1>1 DEF HostInv, ServiceInv, ServiceSafe, memory
<1>4. WorkInv'
  BY <1>1 DEF HostInv, WorkInv
<1>5. CleanInv'
  BY <1>1 DEF CleanInv, SoFarClean, ReadSoFar
<1> QED
  BY <1>2, <1>3, <1>4, <1>5 DEF HostInv

\* What one comparison finds, and what it leaves unfound.
LEMMA ReadClassKeepsInv == ASSUME HostInv, ReadClass PROVE HostInv'
<1> DEFINE c == order[pos]
<1>1. /\ phase = "check" /\ phase' = "check"
      /\ work = {} /\ pos <= Len(order) /\ pos' = pos + 1
      /\ UNCHANGED <<host, memory, shocks>>
  BY DEF ReadClass
<1>2. /\ order \in Orders /\ Len(order) \in Nat /\ pos \in 1..Len(order)
      /\ c \in Class
  BY <1>1, OrderFacts DEF HostInv, TypeOK
<1>3. PICK blind : Compare(c, blind) /\ ((Sound /\ blind = Unreachable) \/ Fault)
  BY DEF ReadClass
<1>4. flaky' \in BOOLEAN /\ faults' \in 0..MaxFaults
  <2>1. CASE Sound
    BY <2>1, Zenon DEF Sound, HostInv, TypeOK
  <2>2. CASE Fault
    <3>1. faults' \in 0..MaxFaults
      <4>1. faults \in 0..MaxFaults /\ faults < MaxFaults /\ faults' = faults + 1
        BY <2>2 DEF Fault, HostInv, TypeOK
      <4> QED
        BY <4>1, HostAssumption
    <3>2. flaky' = TRUE
      BY <2>2 DEF Fault
    <3> QED
      BY <3>1, <3>2, Zenon
  <2> QED
    BY <1>3, <2>1, <2>2
<1> DEFINE diff == {i \in OfClass(c) \ PermitNames :
                       ~Permissible(backup[i], Seen(i, blind))}
<1>5. /\ diff \subseteq Item \ PermitNames
      /\ msg' = msg \cup diff /\ (work' = diff \/ work' = {})
      /\ \A i \in diff : /\ current'[i] = Seen(i, blind)
                         /\ ~Permissible(backup[i], current'[i])
      /\ current' \in [Item -> Condition]
  <2>1. /\ current' = [i \in Item |-> IF ClassOf[i] = c THEN Seen(i, blind)
                                                      ELSE current[i]]
        /\ msg' = msg \cup diff /\ (work' = diff \/ work' = {})
    BY <1>3 DEF Compare
  <2>2. \A i \in Item : Seen(i, blind) \in Condition
    BY DEF Seen, HostInv, TypeOK, Condition
  <2>3. \A i \in diff : i \in Item \ PermitNames /\ ClassOf[i] = c
                        /\ ~Permissible(backup[i], Seen(i, blind))
    BY DEF OfClass
  <2> QED
    BY <2>1, <2>2, <2>3 DEF HostInv, TypeOK
<1>6. TypeOK'
  <2>1. pos' \in 1..(Len(order) + 1)
    BY <1>1, <1>2
  <2>2. work' \subseteq Item /\ msg' \subseteq Item
    BY <1>5 DEF HostInv, TypeOK
  <2> QED
    BY <1>1, <1>4, <1>5, <2>1, <2>2, Zenon DEF HostInv, TypeOK, memory
<1>7. ServiceInv'
  BY <1>1 DEF HostInv, ServiceInv, ServiceSafe, memory
<1>8. WorkInv'
  <2>1. work' \subseteq msg' /\ msg' \cap PermitNames = {}
    BY <1>5 DEF HostInv, WorkInv
  <2>2. ASSUME NEW i \in work'
        PROVE  /\ current'[i] = host'[i] \/ current'[i] = "absent"
               /\ ~Permissible(backup'[i], current'[i])
    BY <1>1, <1>5, <2>2 DEF Seen, memory
  <2> QED
    BY <1>1, <2>1, <2>2 DEF WorkInv, Permissible
<1>9. ASSUME msg' = {}, ~flaky', served' PROVE SoFarClean'
  <2>1. ~Fault /\ Sound
    BY <1>3, <1>9, Zenon DEF Fault
  <2>2. served /\ ~flaky /\ blind = Unreachable
    <3>1. flaky' = flaky /\ served' = served
      BY <1>1, <2>1 DEF Sound, memory
    <3> QED
      BY <1>3, <1>9, <2>1, <3>1, Zenon
  <2>3. msg = {} /\ diff = {}
    BY <1>5, <1>9
  <2>4. SoFarClean
    BY <1>1, <2>2, <2>3, Zenon DEF HostInv, CleanInv
  <2>5. Reachable(c)
    <3>1. SUFFICES ASSUME c \in VirshClasses PROVE Up
      BY DEF Reachable
    <3>2. PICK j \in 1..(pos - 1) : order[j] = "ServiceState"
      BY <1>2, <3>1, OrderFacts
    <3>3. ReadSoFar(Libvirtd)
      BY <3>2, HostAssumption DEF ReadSoFar
    <3>4. Permissible(host[Libvirtd], backup[Libvirtd])
      BY <2>4, <3>3, HostAssumption DEF SoFarClean
    <3> QED
      BY <1>1, <2>2, <3>4, ServiceUp
  <2>6. ASSUME NEW i \in Item \ PermitNames, ClassOf[i] = c
        PROVE  Permissible(host[i], backup[i])
    <3>1. Seen(i, blind) = host[i]
      BY <2>2, <2>5, <2>6 DEF Seen, Unreachable
    <3>2. Permissible(backup[i], Seen(i, blind))
      BY <2>3, <2>6 DEF OfClass
    <3> QED
      BY <3>1, <3>2 DEF Permissible
  <2>7. ASSUME NEW i \in Item \ PermitNames, ReadSoFar(i)'
        PROVE  Permissible(host[i], backup[i])
    <3>1. PICK k \in 1..pos : order[k] = ClassOf[i]
      BY <1>1, <1>2, <2>7 DEF ReadSoFar, memory
    <3>2. CASE k = pos
      BY <2>6, <3>1, <3>2
    <3>3. CASE k # pos
      <4>1. ReadSoFar(i)
        BY <1>2, <3>1, <3>3 DEF ReadSoFar
      <4> QED
        BY <2>4, <4>1 DEF SoFarClean
    <3> QED
      BY <3>2, <3>3
  <2> QED
    BY <1>1, <2>7 DEF SoFarClean, Permissible, memory
<1>10. CleanInv'
  BY <1>1, <1>9 DEF CleanInv
<1> QED
  BY <1>6, <1>7, <1>8, <1>10 DEF HostInv

\* Removing, restoring and repairing an item.
LEMMA HandleKeepsInv == ASSUME HostInv, NEW i \in Item, Handles(i) PROVE HostInv'
<1>1. TypeOK /\ ServiceSafe(i, host[i])
  BY DEF HostInv, ServiceInv
<1>2. /\ phase = "check" /\ i \in work /\ work' = work \ {i}
      /\ UNCHANGED <<memory, current, pos, msg, phase, shocks>>
      /\ flaky' \in BOOLEAN /\ faults' \in 0..MaxFaults
  BY <1>1, HandleEffect
<1>3. PICK v \in Condition : ServiceSafe(i, v) /\ host' = [host EXCEPT ![i] = v]
  BY <1>1, HandleEffect
<1>4. TypeOK'
  <2>1. host' \in [Item -> Condition] /\ work' \subseteq Item
    BY <1>1, <1>2, <1>3 DEF TypeOK
  <2> QED
    BY <1>1, <1>2, <2>1, Zenon DEF TypeOK, memory
<1>5. ServiceInv'
  BY <1>1, <1>2, <1>3 DEF HostInv, TypeOK, ServiceInv, ServiceSafe, memory
<1>6. WorkInv'
  BY <1>1, <1>2, <1>3 DEF HostInv, TypeOK, WorkInv, Permissible, memory
<1>7. CleanInv'
  <2>1. msg' # {}
    BY <1>2 DEF HostInv, WorkInv
  <2> QED
    BY <1>2, <2>1 DEF CleanInv
<1> QED
  BY <1>4, <1>5, <1>6, <1>7 DEF HostInv

\* Steps that change nothing but the phase.
LEMMA PhaseKeepsInv ==
    ASSUME HostInv, ReadRaises \/ EndCheck \/ NextTest PROVE HostInv'
<1>1. UNCHANGED <<host, memory, check, faults, shocks>>
  BY DEF ReadRaises, EndCheck, NextTest
<1>2. /\ phase' \in {"raised", "report", "test"} /\ phase # "start"
      /\ phase' = "report" => phase = "check" /\ pos > Len(order)
      /\ work = {}
  BY DEF ReadRaises, EndCheck, NextTest, HostInv, WorkInv
<1>3. TypeOK'
  BY <1>1, <1>2, Zenon DEF HostInv, TypeOK, memory, check
<1>4. ServiceInv'
  BY <1>1, <1>2 DEF HostInv, ServiceInv, ServiceSafe, memory
<1>5. WorkInv'
  BY <1>1, <1>2 DEF HostInv, WorkInv, Permissible, memory, check
<1>6. CleanInv'
  BY <1>1, <1>2 DEF HostInv, CleanInv, SoFarClean, ReadSoFar, Permissible,
     memory, check
<1> QED
  BY <1>3, <1>4, <1>5, <1>6 DEF HostInv

\* No step of the state monitor or of a test breaks the invariant.
LEMMA StepKeepsInv == HostInv /\ [Next]_vars => HostInv'
<1> SUFFICES ASSUME HostInv, [Next]_vars PROVE HostInv'
  OBVIOUS
<1>1. CASE Backup
  BY <1>1, BackupKeepsInv
<1>2. ASSUME NEW i \in Item, NEW v \in Condition, Disturb(i, v) PROVE HostInv'
  BY <1>2, DisturbKeepsInv
<1>3. CASE BeginCheck
  BY <1>3, BeginCheckKeepsInv
<1>4. CASE ReadClass
  BY <1>4, ReadClassKeepsInv
<1>5. CASE ReadRaises \/ EndCheck \/ NextTest
  BY <1>5, PhaseKeepsInv
<1>6. CASE Handle
  BY <1>6, HandleKeepsInv DEF Handle, Handles
<1>7. CASE UNCHANGED vars
  BY <1>7 DEF HostInv, TypeOK, ServiceInv, ServiceSafe, WorkInv, CleanInv,
     SoFarClean, ReadSoFar, Permissible, vars, memory, check
<1> QED
  BY <1>1, <1>2, <1>3, <1>4, <1>5, <1>6, <1>7 DEF Next, CheckStep

\* So it always holds.
LEMMA InvHolds == Spec => []HostInv
  BY InitHostInv, StepKeepsInv, PTL DEF Spec

-----------------------------------------------------------------------------
\* Every variable of the state monitor keeps its type.
THEOREM TypeCorrect == Spec => []TypeOK
<1>1. HostInv => TypeOK
  BY DEF HostInv
<1> QED
  BY <1>1, InvHolds, PTL

\* A check that reports nothing leaves a host that is as snapshotted.
THEOREM CleanReportHolds == Spec => []CleanReportIsClean
<1>1. HostInv => CleanReportIsClean
  <2> SUFFICES ASSUME HostInv, phase = "report", msg = {}, ~flaky, served,
                      NEW i \in Item \ PermitNames
               PROVE  Permissible(host[i], backup[i])
    BY DEF CleanReportIsClean
  <2>1. SoFarClean /\ pos > Len(order)
    BY Zenon DEF HostInv, CleanInv
  <2>2. order \in Orders /\ pos \in 1..(Len(order) + 1) /\ Len(order) \in Nat
    BY OrderFacts DEF HostInv, TypeOK
  <2>3. PICK k \in 1..Len(order) : order[k] = ClassOf[i]
    BY <2>2, OrderFacts
  <2>4. ReadSoFar(i)
    BY <2>1, <2>2, <2>3 DEF ReadSoFar
  <2> QED
    BY <2>1, <2>4 DEF SoFarClean
<1> QED
  BY <1>1, InvHolds, PTL

\* While a check runs only handling an item changes the host, and only that
\* item.
LEMMA OnlyHandlingChanges ==
    ASSUME HostInv, [Next]_vars, phase = "check"
    PROVE  \/ host' = host /\ (msg' = msg \/ ReadClass)
           \/ \E j \in Item : /\ Handles(j) /\ j \in work /\ msg' = msg
                              /\ \A i \in Item \ {j} : host'[i] = host[i]
<1>1. CASE Backup
  BY <1>1 DEF Backup
<1>2. ASSUME NEW i \in Item, NEW v \in Condition, Disturb(i, v) PROVE FALSE
  BY <1>2 DEF Disturb
<1>3. CASE BeginCheck
  BY <1>3 DEF BeginCheck
<1>4. CASE ReadClass
  BY <1>4 DEF ReadClass
<1>5. CASE ReadRaises \/ EndCheck \/ NextTest
  BY <1>5 DEF ReadRaises, EndCheck, NextTest, check
<1>6. ASSUME NEW j \in Item, Handles(j)
      PROVE  /\ j \in work /\ msg' = msg
             /\ \A i \in Item \ {j} : host'[i] = host[i]
  BY <1>6, HandleEffect DEF HostInv, ServiceInv, TypeOK
<1>7. CASE UNCHANGED vars
  BY <1>7 DEF vars, check
<1> QED
  BY <1>1, <1>2, <1>3, <1>4, <1>5, <1>6, <1>7 DEF Next, CheckStep, Handle, Handles

\* Recovery touches an intact resource only if the snapshot or the check
\* misread it.
THEOREM IntactHolds == Spec => IntactIsLeftAlone
<1> DEFINE Harmless ==
       \A i \in Item :
          (/\ phase = "check"
           /\ host[i] \in {"base", "drift"} /\ host'[i] # host[i])
          => (backup[i] = "absent" \/ current[i] = "absent")
<1>1. HostInv /\ [Next]_vars => Harmless
  <2> SUFFICES ASSUME HostInv, [Next]_vars, phase = "check", NEW i \in Item,
                      host[i] \in {"base", "drift"}, host'[i] # host[i]
               PROVE  backup[i] = "absent" \/ current[i] = "absent"
    OBVIOUS
  <2>1. i \in work
    BY OnlyHandlingChanges
  <2>2. /\ current[i] = host[i] \/ current[i] = "absent"
        /\ ~Permissible(backup[i], current[i])
        /\ backup[i] \in {"absent", "base"}
    BY <2>1 DEF HostInv, WorkInv, TypeOK
  <2> QED
    BY <2>2 DEF Permissible
<1>2. Spec => [][Harmless]_vars
  BY <1>1, InvHolds, PTL DEF Spec
<1> QED
  BY <1>2 DEF IntactIsLeftAlone

\* What permit_names lists is never touched or reported by a check.
THEOREM PermittedHolds == Spec => PermittedIsLeftAlone
<1> DEFINE Untouched ==
       \A i \in PermitNames :
          phase = "check" => host'[i] = host[i] /\ i \notin msg'
<1>1. HostInv /\ [Next]_vars => Untouched
  <2> SUFFICES ASSUME HostInv, [Next]_vars, phase = "check", NEW i \in PermitNames
               PROVE  host'[i] = host[i] /\ i \notin msg'
    OBVIOUS
  <2>1. i \in Item /\ i \notin msg /\ i \notin work
    BY HostAssumption DEF HostInv, WorkInv
  <2>2. i \notin msg'
    <3>1. HostInv'
      BY StepKeepsInv
    <3> QED
      BY <3>1 DEF HostInv, WorkInv
  <2>3. host'[i] = host[i]
    BY <2>1, OnlyHandlingChanges
  <2> QED
    BY <2>2, <2>3
<1>2. Spec => [][Untouched]_vars
  BY <1>1, InvHolds, PTL DEF Spec
<1> QED
  BY <1>2 DEF PermittedIsLeftAlone

-----------------------------------------------------------------------------
(***************************************************************************)
(* What a check removes.                                                   *)
(***************************************************************************)

Doomed(i) ==
    /\ backup[i] = "absent" /\ UsersFirst(i)
    /\ ClassOf[i] \notin RefusesRemove \cup {"ExportfsState"}

\* A check in which every command answered as the model says.
Steady == phase \in {"check", "report"} /\ ~flaky /\ served /\ Recover

\* What is to be handled is of the class read last; libvirtd is never missed.
WorkIsOfClass ==
    /\ \A i \in work : /\ i \in Item \ PermitNames
                       /\ pos > 1 /\ ClassOf[i] = order[pos - 1]
    /\ Libvirtd \in work => current[Libvirtd] # "absent"

\* Once the services are restored, libvirtd runs as it did.
ServiceHealed == ReadSoFar(Libvirtd) /\ Libvirtd \notin work => host[Libvirtd] = "base"

\* What was created is gone when its class is done, unless something holds it.
Swept(i) == ReadSoFar(i) /\ i \notin work /\ Doomed(i) /\ Present(i) => Pinned(i)

RemovedInv ==
    /\ WorkIsOfClass
    /\ Steady => ServiceHealed /\ \A i \in Item \ PermitNames : Swept(i)

\* Behind the services, every class can be read and removed from.
LEMMA HealedReaches ==
    ASSUME HostInv, WorkIsOfClass, ServiceHealed, phase # "start", served,
           NEW k \in 1..Len(order), k <= pos,
           k = pos => work = {},
           work # {} => k = pos - 1
    PROVE  Reachable(order[k])
<1> SUFFICES ASSUME order[k] \in VirshClasses PROVE Up
  BY DEF Reachable
<1>1. order \in Orders /\ pos \in 1..(Len(order) + 1) /\ Len(order) \in Nat
  BY OrderFacts DEF HostInv, TypeOK
<1>2. PICK j \in 1..(k - 1) : order[j] = "ServiceState"
  BY <1>1, OrderFacts
<1>3. ReadSoFar(Libvirtd)
  BY <1>1, <1>2, HostAssumption DEF ReadSoFar
<1>4. Libvirtd \notin work
  <2>1. ASSUME Libvirtd \in work PROVE FALSE
    <3>1. order[k] = "ServiceState"
      BY <2>1, HostAssumption DEF WorkIsOfClass
    <3> QED
      BY <3>1 DEF VirshClasses
  <2> QED
    BY <2>1
<1>5. host[Libvirtd] = "base"
  BY <1>3, <1>4 DEF ServiceHealed
<1> QED
  BY <1>5, Zenon DEF Up

\* Reading a class lists what is to be handled, or finds nothing.
LEMMA ReadKeepsRemoved ==
    ASSUME HostInv, RemovedInv, ReadClass
    PROVE  RemovedInv'
<1> DEFINE c == order[pos]
<1>1. /\ phase = "check" /\ phase' = "check"
      /\ work = {} /\ pos <= Len(order) /\ pos' = pos + 1
      /\ UNCHANGED <<host, memory, shocks>>
  BY DEF ReadClass
<1>2. /\ order \in Orders /\ Len(order) \in Nat /\ pos \in 1..Len(order)
      /\ pos' - 1 = pos /\ order' = order /\ backup' = backup /\ served' = served
  BY <1>1, OrderFacts DEF HostInv, TypeOK, memory
<1>3. PICK blind \in SUBSET (AllClasses \ {"ServiceState"}) :
         Compare(c, blind) /\ ((Sound /\ blind = Unreachable) \/ Fault)
  <2>1. /\ Unreachable \subseteq AllClasses \ {"ServiceState"}
        /\ \A d \in ToolClasses :
              Unreachable \cup {d} \subseteq AllClasses \ {"ServiceState"}
    BY DEF Unreachable, Reachable, ToolClasses, VirshClasses, AllClasses
  <2> QED
    BY <2>1 DEF ReadClass
<1> DEFINE diff == {i \in OfClass(c) \ PermitNames :
                       ~Permissible(backup[i], Seen(i, blind))}
<1>4. /\ \A i \in Item : ClassOf[i] = c => current'[i] = Seen(i, blind)
      /\ work' = IF Recover THEN diff ELSE {}
  BY <1>3 DEF Compare
<1>5. \A i \in diff : i \in Item \ PermitNames /\ ClassOf[i] = c
  BY DEF OfClass
<1>6. WorkIsOfClass'
  <2>1. ASSUME NEW i \in work' PROVE i \in Item \ PermitNames /\ ClassOf[i] = c
    <3> HIDE DEF diff
    <3> QED
      BY <1>4, <1>5, <2>1
  <2>2. pos' > 1 /\ order'[pos' - 1] = c
    BY <1>1, <1>2
  <2>3. Libvirtd \in work' => current'[Libvirtd] # "absent"
    <3>1. Seen(Libvirtd, blind) = host[Libvirtd] /\ host[Libvirtd] # "absent"
      BY HostAssumption DEF Seen, HostInv, ServiceInv, ServiceSafe
    <3> QED
      BY <1>4, <2>1, <3>1, HostAssumption
  <2> QED
    BY <2>1, <2>2, <2>3 DEF WorkIsOfClass
<1>7. ASSUME Steady' PROVE ServiceHealed' /\ \A i \in Item \ PermitNames : Swept(i)'
  <2>1. Sound /\ blind = Unreachable
    BY <1>3, <1>7, Zenon DEF Steady, Fault
  <2>2. Steady
    BY <1>1, <1>2, <1>7, <2>1 DEF Steady, Sound
  <2>3. ServiceHealed /\ WorkIsOfClass /\ \A i \in Item \ PermitNames : Swept(i)
    BY <2>2 DEF RemovedInv
  <2>4. Reachable(c)
    BY <1>1, <1>2, <2>2, <2>3, HealedReaches DEF Steady
  <2>5. ASSUME NEW i \in Item, ClassOf[i] = c PROVE Seen(i, blind) = host[i]
    BY <2>1, <2>4, <2>5 DEF Seen, Unreachable
  <2>6. ASSUME NEW i \in Item \ PermitNames, ClassOf[i] = c, i \notin work'
        PROVE  Permissible(backup[i], host[i])
    <3>1. i \notin diff
      BY <1>4, <2>2, <2>6 DEF Steady
    <3> QED
      BY <2>5, <2>6, <3>1 DEF OfClass
  <2>7. ASSUME NEW i \in Item, ReadSoFar(i)', ClassOf[i] # c PROVE ReadSoFar(i)
    <3>1. PICK k \in 1..(pos' - 1) : order'[k] = ClassOf[i]
      BY <2>7 DEF ReadSoFar
    <3>2. k \in 1..pos /\ k # pos
      BY <1>2, <2>7, <3>1
    <3> QED
      BY <1>2, <3>1, <3>2 DEF ReadSoFar
  <2>8. ServiceHealed'
    <3> SUFFICES ASSUME ReadSoFar(Libvirtd)', Libvirtd \notin work'
                 PROVE  host[Libvirtd] = "base"
      BY <1>1 DEF ServiceHealed
    <3>1. CASE ClassOf[Libvirtd] # c
      BY <1>1, <2>3, <2>7, <3>1, HostAssumption DEF ServiceHealed
    <3>2. CASE ClassOf[Libvirtd] = c
      <4>1. Permissible(backup[Libvirtd], host[Libvirtd])
        BY <2>6, <3>2, HostAssumption
      <4>2. host[Libvirtd] \in {"base", "other"} /\ backup[Libvirtd] = "base"
        BY <1>1, HostAssumption DEF HostInv, ServiceInv, ServiceSafe
      <4> QED
        BY <4>1, <4>2 DEF Permissible
    <3> QED
      BY <3>1, <3>2
  <2>9. ASSUME NEW i \in Item \ PermitNames PROVE Swept(i)'
    <3> SUFFICES ASSUME ReadSoFar(i)', i \notin work', Doomed(i)', Present(i)'
                 PROVE  Pinned(i)'
      BY DEF Swept
    <3>1. Doomed(i) /\ Present(i)
      BY <1>1, <1>2 DEF Doomed, Present
    <3>2. CASE ClassOf[i] = c
      <4>1. Permissible("absent", host[i])
        BY <2>6, <3>1, <3>2 DEF Doomed
      <4> QED
        BY <4>1, <3>1 DEF Permissible, Present
    <3>3. CASE ClassOf[i] # c
      <4>1. Pinned(i)
        BY <1>1, <2>3, <2>7, <3>1, <3>3 DEF Swept
      <4> QED
        BY <4>1, <1>1 DEF Pinned, Present
    <3> QED
      BY <3>2, <3>3
  <2> QED
    BY <2>8, <2>9
<1> QED
  BY <1>6, <1>7 DEF RemovedInv

\* What is handled is off the list for good, or reported.
LEMMA HandleKeepsRemoved ==
    ASSUME HostInv, RemovedInv, NEW j \in Item, Handles(j)
    PROVE  RemovedInv'
<1>1. TypeOK /\ ServiceSafe(j, host[j])
  BY DEF HostInv, ServiceInv
<1>2. /\ phase = "check" /\ j \in work /\ work' = work \ {j}
      /\ UNCHANGED <<memory, current, pos, msg, phase, shocks>>
      /\ flaky => flaky'
  BY <1>1, HandleEffect
<1>3. PICK v \in Condition : host' = [host EXCEPT ![j] = v]
  BY <1>1, HandleEffect
<1>4. /\ order \in Orders /\ Len(order) \in Nat /\ pos \in 1..(Len(order) + 1)
      /\ order' = order /\ backup' = backup /\ served' = served
      /\ \A i \in Item : i # j => host'[i] = host[i]
      /\ \A i : ReadSoFar(i)' <=> ReadSoFar(i)
      /\ \A i : Doomed(i)' <=> Doomed(i)
  BY <1>1, <1>2, <1>3, OrderFacts DEF TypeOK, memory, ReadSoFar, Doomed
<1>5. WorkIsOfClass /\ pos > 1 /\ ClassOf[j] = order[pos - 1] /\ pos - 1 \in 1..Len(order)
  BY <1>2, <1>4 DEF RemovedInv, WorkIsOfClass
<1>6. WorkIsOfClass'
  BY <1>2, <1>4, <1>5 DEF WorkIsOfClass
<1>7. ASSUME Steady' PROVE ServiceHealed' /\ \A i \in Item \ PermitNames : Swept(i)'
  <2>1. ~flaky' /\ Steady
    BY <1>2, <1>4, <1>7 DEF Steady
  <2>2. ~Fault
    BY <2>1, Zenon DEF Fault
  <2>3. ServiceHealed /\ \A i \in Item \ PermitNames : Swept(i)
    BY <2>1 DEF RemovedInv
  <2>4. ServiceHealed'
    <3> SUFFICES ASSUME ReadSoFar(Libvirtd), Libvirtd \notin work'
                 PROVE  host'[Libvirtd] = "base"
      BY <1>4 DEF ServiceHealed
    <3>1. CASE Libvirtd # j
      BY <1>2, <1>4, <2>3, <3>1, HostAssumption DEF ServiceHealed
    <3>2. CASE Libvirtd = j
      <4>1. backup[j] = "base" /\ current[j] # "absent" /\ ClassOf[j] = "ServiceState"
        BY <1>2, <1>5, <3>2, HostAssumption DEF HostInv, ServiceInv, WorkIsOfClass
      <4>2. j \notin Created /\ j \notin Deleted
        BY <4>1 DEF Created, Deleted
      <4>3. RestoreChanged(j)
        BY <4>2 DEF Handles, RemoveCreated, RestoreDeleted
      <4>4. Restored(j) = {"base"}
        BY <4>1 DEF Restored, Misread, Rebuilds
      <4>5. Become(j, Restored(j))
        BY <2>2, <4>3 DEF RestoreChanged
      <4> QED
        BY <1>1, <3>2, <4>4, <4>5 DEF Become, TypeOK
    <3> QED
      BY <3>1, <3>2
  <2>5. ASSUME NEW i \in Item \ PermitNames PROVE Swept(i)'
    <3> SUFFICES ASSUME ReadSoFar(i), i \notin work', Doomed(i), Present(i)'
                 PROVE  Pinned(i)'
      BY <1>4 DEF Swept
    <3>1. CASE i = j
      <4>1. j \in Created /\ j \notin Deleted /\ j \notin Changed
        BY <1>2, <3>1 DEF Doomed, Created, Deleted, Changed
      <4>2. RemoveCreated(j)
        BY <4>1 DEF Handles, RestoreDeleted, RestoreChanged
      <4>3. Become(j, IF Removable(j) THEN {"absent"} ELSE {host[j]})
        BY <2>2, <3>1, <4>2 DEF RemoveCreated, Doomed
      <4>4. host'[j] # "absent"
        BY <3>1 DEF Present
      <4>5. ~Removable(j) /\ host' = [host EXCEPT ![j] = host[j]]
        BY <1>1, <4>3, <4>4 DEF Become, TypeOK
      <4>6. host' = host
        BY <1>1, <4>5 DEF TypeOK
      <4>7. Reachable(ClassOf[j])
        <5>1. work # {} /\ pos - 1 <= pos /\ pos - 1 # pos
          BY <1>2, <1>4
        <5> QED
          BY <1>2, <1>5, <2>1, <2>3, <5>1, HealedReaches DEF Steady
      <4>8. Pinned(j)
        BY <3>1, <4>5, <4>7 DEF Removable, Doomed
      <4> QED
        BY <3>1, <4>6, <4>8 DEF Pinned, Present
    <3>2. CASE i # j
      <4>1. Pinned(i)
        BY <1>2, <1>4, <2>3, <3>2 DEF Swept, Present
      <4>2. PICK u \in Item : <<u, i>> \in Pins /\ Present(u)
        BY <4>1 DEF Pinned
      <4>3. u # j
        <5> SUFFICES ASSUME u = j PROVE FALSE
          OBVIOUS
        <5>1. PICK k \in 1..(pos - 1) : order[k] = ClassOf[i]
          BY DEF ReadSoFar
        <5>2. order[pos - 1] \in DependsOn(order[k])
          BY <1>5, <4>2, <5>1 DEF Doomed, UsersFirst
        <5>3. DOMAIN order = 1..Len(order) /\ k \in 1..Len(order)
          BY <1>4, <5>1, OrdersAssumption
        <5>4. pos - 1 < k
          BY <1>4, <1>5, <5>2, <5>3, OrdersAssumption
        <5> QED
          BY <1>4, <5>1, <5>4
      <4>4. Present(u)'
        BY <1>4, <4>2, <4>3 DEF Present
      <4> QED
        BY <4>2, <4>4 DEF Pinned
    <3> QED
      BY <3>1, <3>2
  <2> QED
    BY <2>4, <2>5
<1> QED
  BY <1>6, <1>7 DEF RemovedInv

\* No step forgets an item that was created.
LEMMA StepKeepsRemoved ==
    HostInv /\ RemovedInv /\ [Next]_vars => RemovedInv'
<1> SUFFICES ASSUME HostInv, RemovedInv, [Next]_vars PROVE RemovedInv'
  OBVIOUS
<1>1. HostInv'
  BY StepKeepsInv
<1>2. ASSUME phase' \notin {"check", "report"} PROVE RemovedInv'
  <2>1. work' = {}
    BY <1>1, <1>2 DEF HostInv, WorkInv
  <2> QED
    BY <1>2, <2>1 DEF RemovedInv, WorkIsOfClass, Steady
<1>3. CASE Backup \/ ReadRaises \/ NextTest \/ \E i \in Item, v \in Condition : Disturb(i, v)
  <2>1. phase' \notin {"check", "report"}
    BY <1>3 DEF Backup, ReadRaises, NextTest, Disturb
  <2> QED
    BY <1>2, <2>1
<1>4. CASE BeginCheck
  <2>1. pos' = 1 /\ work' = {}
    BY <1>4 DEF BeginCheck, HostInv, WorkInv
  <2>2. \A i : ~ReadSoFar(i)'
    BY <2>1 DEF ReadSoFar
  <2> QED
    BY <2>1, <2>2 DEF RemovedInv, WorkIsOfClass, ServiceHealed, Swept
<1>5. CASE ReadClass
  BY <1>5, ReadKeepsRemoved
<1>6. CASE Handle
  BY <1>6, HandleKeepsRemoved DEF Handle, Handles
<1>7. CASE EndCheck \/ UNCHANGED vars
  <2>1. /\ UNCHANGED <<host, memory, check>>
        /\ phase' = phase \/ (phase = "check" /\ phase' = "report")
    BY <1>7 DEF EndCheck, vars
  <2> QED
    BY <2>1 DEF RemovedInv, WorkIsOfClass, Steady, ServiceHealed, Swept, ReadSoFar,
                Doomed, Present, Pinned, memory, check
<1> QED
  BY <1>3, <1>4, <1>5, <1>6, <1>7 DEF Next, CheckStep

\* A check whose commands answer removes everything that tests created and
\* that nothing of the snapshot holds, in whatever order they created it and
\* for any relation of users and used along the order of the classes.
THEOREM RemovedHolds == Spec => []CreatedIsRemoved
<1>1. Init => RemovedInv
  BY DEF Init, RemovedInv, WorkIsOfClass, Steady
<1>2. HostInv /\ RemovedInv => CreatedIsRemoved
  <2> SUFFICES ASSUME HostInv, RemovedInv, phase = "report", ~flaky, served, Recover,
                      NEW i \in Item \ PermitNames,
                      backup[i] = "absent", Present(i), UsersFirst(i),
                      ClassOf[i] \notin RefusesRemove \cup {"ExportfsState"}
               PROVE  Pinned(i)
    BY DEF CreatedIsRemoved
  <2>1. Swept(i) /\ Doomed(i) /\ i \notin work
    BY DEF RemovedInv, Steady, Doomed, HostInv, WorkInv
  <2>2. order \in Orders /\ pos \in 1..(Len(order) + 1) /\ Len(order) \in Nat
        /\ pos > Len(order)
    BY OrderFacts DEF HostInv, TypeOK, CleanInv
  <2>3. PICK k \in 1..Len(order) : order[k] = ClassOf[i]
    BY <2>2, OrderFacts
  <2>4. ReadSoFar(i)
    BY <2>2, <2>3 DEF ReadSoFar
  <2> QED
    BY <2>1, <2>4 DEF Swept
<1> QED
  BY <1>1, <1>2, StepKeepsRemoved, InvHolds, PTL DEF Spec

-----------------------------------------------------------------------------
(***************************************************************************)
(* The run loop.                                                           *)
(***************************************************************************)

\* Every step of the runner is a step of the host model or leaves it alone.
LEMMA StepIsHostStep == RunNext => [Next]_vars
<1> SUFFICES ASSUME RunNext PROVE [Next]_vars
  OBVIOUS
<1>1. CASE UNCHANGED vars
  BY <1>1
<1>2. CASE PrepareState
  BY <1>2 DEF PrepareState, Next
<1>3. ASSUME NEW i \in Item, NEW v \in Condition, TestDisturbs(i, v)
      PROVE  Next
  BY <1>3 DEF TestDisturbs, Next
<1>4. CASE SaveWrites
  BY <1>4 DEF SaveWrites, Next, CheckStep
<1>5. CASE Checking
  BY <1>5 DEF Checking, Next, CheckStep
<1>6. CASE ProcessDiff
  BY <1>6 DEF ProcessDiff, Next
<1>7. CASE CheckRaises
  BY <1>7 DEF CheckRaises, Next, CheckStep
<1>8. CASE PrepareTests \/ StartTest \/ EndAttempt \/ Accept \/ Rerun
           \/ RestoreFails \/ UpdateReport \/ SaveOpens \/ EndLoop \/ Finish \/ Kill
  BY <1>8 DEF PrepareTests, StartTest, EndAttempt, Accept, Rerun, RestoreFails,
     UpdateReport, SaveOpens, EndLoop, Finish, Kill
<1> QED
  BY <1>1, <1>2, <1>3, <1>4, <1>5, <1>6, <1>7, <1>8 DEF RunNext, RunStep

\* The run loop implements the host model: States.backup runs once, before
\* the first test, and no test changes the host during a check.
THEOREM RunImplementsHost == RunSpec => HostSpec
<1>1. RunInit => Init
  BY DEF RunInit
<1>2. [RunNext]_allvars => [Next]_vars
  <2>1. UNCHANGED allvars => UNCHANGED vars
    BY DEF allvars
  <2> QED
    BY <2>1, StepIsHostStep
<1> QED
  BY <1>1, <1>2, PTL DEF RunSpec, HostSpec, Spec

\* So in a run, too, a check that reports nothing leaves a clean host, and
\* one that repairs the host leaves intact resources alone.
COROLLARY ChecksOfARun ==
    RunSpec => []CleanReportIsClean /\ IntactIsLeftAlone /\ PermittedIsLeftAlone
<1>1. RunSpec => Spec
  BY RunImplementsHost DEF HostSpec
<1> QED
  BY <1>1, CleanReportHolds, IntactHolds, PermittedHolds, PTL

-----------------------------------------------------------------------------
(***************************************************************************)
(* The guest image.                                                        *)
(***************************************************************************)

\* Where a corruption that the last attempt showed must be repaired already;
\* not while it is still to be decided about, nor once the run breaks off.
ImageInv ==
    (/\ stage \in {"prepare", "snapshot", "loop", "attempt", "update",
                   "truncate", "checking"}
     /\ NeedRerun)
    => image = "clean"

\* No step of a run makes the image dirty unseen.
LEMMA StepKeepsImage == ImageInv /\ [RunNext]_allvars => ImageInv'
<1> SUFFICES ASSUME ImageInv, [RunNext]_allvars PROVE ImageInv'
  OBVIOUS
<1> USE DEF ImageInv, NeedRerun
<1>1. CASE PrepareTests
  BY <1>1 DEF PrepareTests
<1>2. CASE PrepareState
  BY <1>2 DEF PrepareState
<1>3. CASE StartTest
  BY <1>3 DEF StartTest
<1>4. ASSUME NEW i \in Item, NEW v \in Condition, TestDisturbs(i, v)
      PROVE  ImageInv'
  BY <1>4 DEF TestDisturbs, run
<1>5. CASE EndAttempt
  BY <1>5 DEF EndAttempt
<1>6. CASE Accept
  BY <1>6 DEF Accept
<1>7. CASE Rerun
  BY <1>7 DEF Rerun
<1>8. CASE RestoreFails
  BY <1>8 DEF RestoreFails
<1>9. CASE UpdateReport
  BY <1>9 DEF UpdateReport
<1>10. CASE SaveOpens
  BY <1>10 DEF SaveOpens
<1>11. CASE SaveWrites
  BY <1>11 DEF SaveWrites
<1>12. CASE Checking
  BY <1>12 DEF Checking, run
<1>13. CASE ProcessDiff
  BY <1>13 DEF ProcessDiff
<1>14. CASE CheckRaises
  BY <1>14 DEF CheckRaises
<1>15. CASE EndLoop
  BY <1>15 DEF EndLoop
<1>16. CASE Finish
  BY <1>16 DEF Finish
<1>17. CASE Kill
  BY <1>17 DEF Kill
<1>18. CASE UNCHANGED allvars
  BY <1>18 DEF allvars, run
<1> QED
  BY <1>1, <1>2, <1>3, <1>4, <1>5, <1>6, <1>7, <1>8, <1>9, <1>10, <1>11, <1>12,
     <1>13, <1>14, <1>15, <1>16, <1>17, <1>18 DEF RunNext, RunStep

\* An attempt is started only with no corruption known, and a result is
\* recorded only after the repair, whatever the bound on reruns is.
THEOREM RepairHolds == RunSpec => []SeenCorruptionIsRepaired
<1>1. RunInit => ImageInv
  BY DEF RunInit, ImageInv, NeedRerun, NoResult, Failed
<1>2. ImageInv => SeenCorruptionIsRepaired
  BY DEF ImageInv, NeedRerun, SeenCorruptionIsRepaired
<1> QED
  BY <1>1, <1>2, StepKeepsImage, PTL DEF RunSpec

-----------------------------------------------------------------------------
(***************************************************************************)
(* The list that prepare_tests leaves.                                     *)
(***************************************************************************)

\* A set of numbers that is not empty has a least element: what is proved
\* below of a recursive function is proved of a least counterexample.
LEMMA LeastNumber ==
    ASSUME NEW T \in SUBSET Nat, T # {}
    PROVE  \E n \in T : \A m \in T : n <= m
<1> DEFINE R == {ss \in Nat \X Nat : ss[1] < ss[2]}
<1>1. IsWellFoundedOn(R, Nat)
  BY NatLessThanWellFounded DEF OpToRel
<1>2. PICK x \in T : \A y \in T : ~ (<<y, x>> \in R)
  <2> HIDE DEF R
  <2> QED
    BY <1>1, WFMin
<1>3. ASSUME NEW y \in T PROVE x <= y
  <2>1. x \in Nat /\ y \in Nat
    OBVIOUS
  <2>2. y < x => <<y, x>> \in R
    <3>1. ASSUME y < x PROVE <<y, x>>[1] < <<y, x>>[2]
      BY <3>1
    <3>2. <<y, x>> \in Nat \X Nat
      BY <2>1
    <3> QED
      BY <3>1, <3>2
  <2> HIDE DEF R
  <2> QED
    BY <1>2, <2>1, <2>2
<1> QED
  BY <1>3

\* One step of the loop over the listed tests.
Kept(f, n) ==
    IF n = 0 THEN <<>>
    ELSE IF Listed[n] \in Range(Blacked) THEN f[n - 1]
    ELSE Append(f[n - 1], Listed[n])

\* The recursion defines a function.
LEMMA UnblackedDefined ==
    \A n \in 0..Len(Listed) : Unblacked[n] = Kept(Unblacked, n)
<1> DEFINE L == Len(Listed)
           Bad == {m \in 0..L : ~\E f : f = [n \in 0..m |-> Kept(f, n)]}
<1>1. L \in Nat
  BY RunAssumption
<1> HIDE DEF L
<1>2. Bad = {}
  <2> SUFFICES ASSUME Bad # {} PROVE FALSE
    OBVIOUS
  <2>1. Bad \in SUBSET Nat
    BY <1>1
  <2>2. PICK m \in Bad : \A k \in Bad : m <= k
    <3> HIDE DEF Bad
    <3> QED
      BY <2>1, LeastNumber
  <2>3. m \in 0..L /\ ~\E f : f = [n \in 0..m |-> Kept(f, n)]
    OBVIOUS
  <2>4. CASE m = 0
    <3>1. [n \in 0..0 |-> <<>>] = [n \in 0..0 |-> Kept([k \in 0..0 |-> <<>>], n)]
      BY DEF Kept
    <3> QED
      BY <2>3, <2>4, <3>1
  <2>5. CASE m # 0
    <3>1. m - 1 \in 0..L /\ ~(m <= m - 1)
      BY <2>3, <2>5, <1>1
    <3>2. m - 1 \notin Bad
      <4> HIDE DEF Bad
      <4> QED
        BY <2>2, <3>1
    <3>3. PICK f : f = [n \in 0..(m - 1) |-> Kept(f, n)]
      BY <3>1, <3>2
    <3> DEFINE g == [n \in 0..m |-> IF n < m THEN f[n] ELSE Kept(f, m)]
    <3>4. ASSUME NEW n \in 0..m PROVE g[n] = Kept(g, n)
      <4>1. CASE n = 0
        <5>1. 0 \in 0..(m - 1) /\ 0 < m
          BY <2>3, <2>5, <1>1
        <5>2. f[0] = <<>>
          BY <3>3, <5>1 DEF Kept
        <5> QED
          BY <4>1, <5>1, <5>2 DEF Kept
      <4>2. CASE n # 0 /\ n < m
        <5>1. n \in 0..(m - 1) /\ n - 1 \in 0..m /\ n - 1 < m
          BY <4>2, <2>3, <1>1
        <5>2. g[n] = f[n] /\ g[n - 1] = f[n - 1]
          BY <5>1, <4>2
        <5>3. f[n] = Kept(f, n)
          BY <3>3, <5>1
        <5> QED
          BY <5>2, <5>3, <4>2 DEF Kept
      <4>3. CASE n = m
        <5>1. m - 1 \in 0..m /\ m - 1 < m /\ ~(m < m)
          BY <2>3, <2>5, <1>1
        <5>2. g[m] = Kept(f, m) /\ g[m - 1] = f[m - 1]
          BY <5>1, <4>3
        <5> QED
          BY <5>2, <4>3, <2>5 DEF Kept
      <4> QED
        BY <4>1, <4>2, <4>3, <2>3, <1>1
    <3>5. g = [n \in 0..m |-> g[n]]
      OBVIOUS
    <3>6. [n \in 0..m |-> g[n]] = [n \in 0..m |-> Kept(g, n)]
      <4> HIDE DEF g
      <4> QED
        BY <3>4
    <3>7. g = [n \in 0..m |-> Kept(g, n)]
      <4> HIDE DEF g
      <4> QED
        BY <3>5, <3>6
    <3> HIDE DEF g
    <3> QED
      BY <2>3, <3>7
  <2> QED
    BY <2>4, <2>5
<1>3. \E f : f = [n \in 0..L |-> Kept(f, n)]
  <2>1. L \in 0..L
    BY <1>1
  <2> QED
    BY <1>2, <2>1
<1>4. Unblacked = [n \in 0..L |-> Kept(Unblacked, n)]
  BY <1>3 DEF Unblacked, Kept, L
<1> QED
  BY <1>4 DEF L

\* A sequence with one more element.
LEMMA AppendedTo ==
    ASSUME NEW S, NEW s \in Seq(S), NEW e \in S
    PROVE  /\ Append(s, e) \in Seq(S) /\ Len(s) \in Nat /\ DOMAIN s = 1..Len(s)
           /\ Len(Append(s, e)) = Len(s) + 1
           /\ DOMAIN Append(s, e) = 1..(Len(s) + 1) /\ Append(s, e)[Len(s) + 1] = e
           /\ \A k \in 1..Len(s) : Append(s, e)[k] = s[k]
           /\ Range(Append(s, e)) = Range(s) \cup {e}
<1>1. /\ Append(s, e) \in Seq(S) /\ Len(s) \in Nat /\ DOMAIN s = 1..Len(s)
      /\ Len(Append(s, e)) = Len(s) + 1
      /\ DOMAIN Append(s, e) = 1..(Len(s) + 1) /\ Append(s, e)[Len(s) + 1] = e
      /\ \A k \in 1..Len(s) : Append(s, e)[k] = s[k]
  OBVIOUS
<1> DEFINE r == Append(s, e)
<1> HIDE DEF r
<1>2. \A k \in DOMAIN r : k = Len(s) + 1 \/ k \in DOMAIN s
  BY <1>1 DEF r
<1>3. DOMAIN s \subseteq DOMAIN r /\ Len(s) + 1 \in DOMAIN r
  BY <1>1 DEF r
<1>4. Range(r) = Range(s) \cup {e}
  BY <1>1, <1>2, <1>3 DEF Range, r
<1> QED
  BY <1>1, <1>4 DEF r

\* What the loop keeps of the first n tests: each that no entry hits, once.
KeptOf(s, n) ==
    /\ s \in Seq(Range(Listed)) /\ IsInjective(s)
    /\ Range(s) = {Listed[k] : k \in 1..n} \ Range(Blacked)

\* Taking away the blacklist leaves the listed tests that are not on it, in order.
LEMMA UnblackedIsRight == \A n \in 0..Len(Listed) : KeptOf(Unblacked[n], n)
<1> DEFINE L == Len(Listed)
           Bad == {n \in 0..L : ~KeptOf(Unblacked[n], n)}
<1>1. /\ L \in Nat /\ Listed \in Seq(Range(Listed)) /\ IsInjective(Listed)
      /\ DOMAIN Listed = 1..L
  BY RunAssumption
<1>2. KeptOf(Unblacked[0], 0)
  <2>1. Unblacked[0] = <<>>
    BY <1>1, UnblackedDefined DEF Kept
  <2>2. KeptOf(<<>>, 0)
    BY DEF KeptOf, IsInjective, Range
  <2> QED
    BY <2>1, <2>2
<1>3. ASSUME NEW n \in 1..L, KeptOf(Unblacked[n - 1], n - 1)
      PROVE  KeptOf(Unblacked[n], n)
  <2> DEFINE s == Unblacked[n - 1]
             t == Listed[n]
  <2>1. /\ s \in Seq(Range(Listed)) /\ IsInjective(s)
        /\ Range(s) = {Listed[k] : k \in 1..(n - 1)} \ Range(Blacked)
    BY <1>3 DEF KeptOf
  <2>2. Unblacked[n] = IF t \in Range(Blacked) THEN s ELSE Append(s, t)
    BY <1>1, UnblackedDefined DEF Kept
  <2>3. t \in Range(Listed) /\ n \in DOMAIN Listed
    BY <1>1
  <2>4. {Listed[k] : k \in 1..n} = {Listed[k] : k \in 1..(n - 1)} \cup {t}
    <3>1. \A k \in 1..n : k = n \/ k \in 1..(n - 1)
      BY <1>1
    <3>2. \A k \in 1..(n - 1) : k \in 1..n
      BY <1>1
    <3> QED
      BY <3>1, <3>2
  <2>5. t \notin Range(s)
    <3>1. \A k \in 1..(n - 1) : k \in DOMAIN Listed /\ k # n
      BY <1>1
    <3> QED
      BY <2>1, <2>3, <3>1, <1>1 DEF IsInjective
  <2> HIDE DEF s, t
  <2>6. CASE t \in Range(Blacked)
    BY <2>1, <2>2, <2>4, <2>6 DEF KeptOf
  <2>7. CASE t \notin Range(Blacked)
    <3>1. /\ Append(s, t) \in Seq(Range(Listed)) /\ Len(s) \in Nat
          /\ DOMAIN s = 1..Len(s)
          /\ DOMAIN Append(s, t) = 1..(Len(s) + 1) /\ Append(s, t)[Len(s) + 1] = t
          /\ \A k \in 1..Len(s) : Append(s, t)[k] = s[k]
          /\ Range(Append(s, t)) = Range(s) \cup {t}
      BY <2>1, <2>3, AppendedTo
    <3>2. \A a \in 1..Len(s) : s[a] \in Range(s)
      BY <3>1 DEF Range
    <3>3. \A a \in 1..(Len(s) + 1) : a \in 1..Len(s) \/ a = Len(s) + 1
      BY <3>1
    <3>4. IsInjective(Append(s, t))
      BY <2>1, <2>5, <3>1, <3>2, <3>3 DEF IsInjective
    <3> QED
      BY <2>1, <2>2, <2>4, <2>7, <3>1, <3>4 DEF KeptOf
  <2> QED
    BY <2>6, <2>7
<1> HIDE DEF L
<1>4. Bad = {}
  <2> SUFFICES ASSUME Bad # {} PROVE FALSE
    OBVIOUS
  <2>1. PICK m \in Bad : \A k \in Bad : m <= k
    <3>1. Bad \in SUBSET Nat
      BY <1>1
    <3> HIDE DEF Bad
    <3> QED
      BY <3>1, LeastNumber
  <2>2. m \in 1..L /\ ~KeptOf(Unblacked[m], m)
    BY <1>1, <1>2
  <2>3. m - 1 \in 0..L /\ ~(m <= m - 1)
    BY <1>1, <2>2
  <2>4. m - 1 \notin Bad
    <3> HIDE DEF Bad
    <3> QED
      BY <2>1, <2>3
  <2> QED
    BY <1>3, <2>2, <2>3, <2>4
<1> QED
  BY <1>4 DEF L

\* The tests to run are the listed ones that no blacklist entry skips.
LEMMA TestsToRun ==
    LET kept == Unblacked[Len(Listed)]
    IN  /\ kept \in Seq(Range(Listed)) /\ IsInjective(kept)
        /\ Range(kept) = Range(Listed) \ Range(Blacked)
<1>1. Len(Listed) \in 0..Len(Listed) /\ DOMAIN Listed = 1..Len(Listed)
  BY RunAssumption
<1> QED
  BY <1>1, UnblackedIsRight DEF KeptOf, Range

-----------------------------------------------------------------------------
(***************************************************************************)
(* The report and the file of a run.                                       *)
(***************************************************************************)

Running == {"snapshot", "loop", "attempt", "decide", "update", "truncate", "checking"}
Trying == {"attempt", "decide", "update", "truncate", "checking"}

ReportTest == Range(Listed) \cup {"no_test"}
ReportStatus == Status \cup {"NOTESTS"}
ReportEntry == [test : ReportTest, status : ReportStatus, was : ReportStatus]

RunTypes ==
    /\ stage \in Running \cup Ended \cup {"prepare", "finally"}
    /\ tests \in Seq(Range(Listed))
    /\ idx \in 1..(Len(tests) + 1)
    /\ result \in Result
    /\ report \in Seq(ReportEntry) /\ file \in Seq(ReportEntry)
    /\ torn \in BOOLEAN
    /\ checked \subseteq 1..(idx - 1) /\ dirty \subseteq checked

\* The list of tests is made once, and the loop stays inside it.
TestsInv ==
    /\ stage = "prepare" => tests = <<>> /\ report = <<>>
    /\ stage \in {"prepare", "snapshot"} => idx = 1
    /\ tests # <<>> => tests = Unblacked[Len(Listed)]
    /\ stage \in Running \cup {"finally", "done"} => tests # <<>>
    /\ stage \in Trying => idx <= Len(tests)

\* The report is the skipped tests and the first n of those to run.
ReportIs(n) ==
    /\ n \in 0..Len(tests) /\ Len(report) = Place(n)
    /\ \A k \in 1..Len(Blacked) : report[k].test = Blacked[k]
    /\ \A k \in 1..n : report[Place(k)].test = tests[k]

\* An exception or a kill comes before or after the current test is recorded.
ReportInv ==
    /\ stage \in Running => ReportIs(Recorded)
    /\ tests # <<>> => ReportIs(idx - 1) \/ ReportIs(idx)

\* The file agrees with the first n entries of the report.
Agrees(n) ==
    /\ n <= Len(file) /\ n <= Len(report)
    /\ \A k \in 1..n : file[k] = report[k]

SavedInv ==
    /\ idx > 1 => Agrees(Place(idx - 1))
    /\ stage = "checking" => Agrees(Place(idx))
    /\ stage = "done" => file = report /\ torn = FALSE

\* The entry of the current test tells the status that decides about the
\* check; on the way to the next test the check was done or left out.
HostClean == \A i \in Item \ PermitNames : Permissible(host[i], backup[i])

CheckedInv ==
    /\ stage \in {"truncate", "checking"} => report[Place(idx)].was = result.status
    /\ stage = "loop" /\ idx > 1 =>
          /\ idx - 1 \notin checked => NoCheck \/ report[Place(idx - 1)].was = "INVALID"
          /\ (idx - 1 \in checked \ dirty /\ ~flaky /\ served) => HostClean

RunInv == RunTypes /\ TestsInv /\ ReportInv /\ SavedInv /\ CheckedInv

\* The places of the tests in the report grow with them.
LEMMA Places ==
    /\ Len(Blacked) \in Nat /\ Blacked \in Seq(Range(Listed))
    /\ \A n \in Nat : Place(n) \in Nat /\ Place(n) >= n /\ Place(n + 1) = Place(n) + 1
    /\ \A m, n \in Nat : m <= n => Place(m) <= Place(n)
<1>1. Len(Blacked) \in Nat /\ Blacked \in Seq(Range(Listed))
  BY RunAssumption
<1> QED
  BY <1>1 DEF Place

\* A run starts with nothing prepared, reported or saved.
LEMMA InitRunInv == RunInit => RunInv
<1> SUFFICES ASSUME RunInit PROVE RunInv
  OBVIOUS
<1>1. /\ stage = "prepare" /\ tests = <<>> /\ idx = 1 /\ result = NoResult
      /\ report = <<>> /\ file = <<>> /\ torn = FALSE /\ checked = {} /\ dirty = {}
  BY DEF RunInit
<1>2. RunTypes
  <2>1. idx \in 1..(Len(tests) + 1)
    BY <1>1
  <2>2. result \in Result
    BY <1>1 DEF NoResult, Result, Status
  <2>3. tests \in Seq(Range(Listed)) /\ report \in Seq(ReportEntry) /\ file \in Seq(ReportEntry)
    BY <1>1
  <2> QED
    BY <1>1, <2>1, <2>2, <2>3 DEF RunTypes
<1>3. TestsInv /\ ReportInv /\ SavedInv /\ CheckedInv
  BY <1>1 DEF TestsInv, ReportInv, SavedInv, CheckedInv, Running, Trying
<1> QED
  BY <1>2, <1>3 DEF RunInv

\* Steps that record nothing: the run goes on, is broken off, or the host
\* alone changes.
Quiet ==
    /\ UNCHANGED <<tests, idx, report, file, checked, dirty>>
    /\ torn' \in BOOLEAN /\ result' \in Result
    /\ \/ /\ stage' = stage /\ result' = result
          /\ stage = "loop" => UNCHANGED vars
          /\ stage = "done" => torn' = torn
       \/ stage' = "killed"
       \/ stage' = "finally" /\ stage \in Running
       \/ stage = "snapshot" /\ stage' = "loop"
       \/ /\ stage \in {"loop", "attempt", "decide"}
          /\ stage' \in {"attempt", "decide", "update"}
          /\ idx <= Len(tests)

\* Steps that touch neither the tests nor the reports keep the invariant ...
LEMMA QuietKeepsInv == ASSUME RunInv, Quiet PROVE RunInv'
<1>1. /\ UNCHANGED <<tests, idx, report, file, checked, dirty>>
      /\ torn' \in BOOLEAN /\ result' \in Result
  BY DEF Quiet
<1>2. RunTypes'
  <2>1. stage' \in Running \cup Ended \cup {"prepare", "finally"}
    BY DEF Quiet, RunInv, RunTypes, Running, Ended
  <2> QED
    BY <1>1, <2>1, Zenon DEF RunInv, RunTypes
<1>3. TestsInv'
  BY <1>1 DEF Quiet, RunInv, TestsInv, Running, Trying
<1>4. \A n : ReportIs(n)' <=> ReportIs(n)
  BY <1>1 DEF ReportIs, Place
<1>5. ReportInv'
  <2>1. stage' \in Running => stage \in Running /\ Recorded' = Recorded
    BY <1>1 DEF Quiet, Running, Recorded
  <2> QED
    BY <1>1, <1>4, <2>1 DEF RunInv, ReportInv
<1>6. SavedInv'
  BY <1>1 DEF Quiet, RunInv, SavedInv, Agrees, Place
<1>7. CheckedInv'
  <2>1. stage' \in {"truncate", "checking"} => stage' = stage /\ result' = result
    BY DEF Quiet
  <2>2. stage' = "loop" => (stage = "loop" /\ UNCHANGED vars) \/ idx = 1
    BY DEF Quiet, RunInv, TestsInv
  <2>3. UNCHANGED vars => (HostClean' <=> HostClean) /\ flaky' = flaky /\ served' = served
    BY DEF vars, memory, check, HostClean, Permissible
  <2> QED
    BY <1>1, <2>1, <2>2, <2>3 DEF RunInv, CheckedInv, Place
<1> QED
  BY <1>2, <1>3, <1>5, <1>6, <1>7 DEF RunInv

\* ... and most steps are of that kind.
LEMMA QuietSteps ==
    ASSUME RunInv,
           \/ PrepareState \/ StartTest \/ EndAttempt \/ Accept \/ Rerun
           \/ RestoreFails \/ SaveOpens \/ Checking \/ CheckRaises \/ EndLoop
           \/ Kill \/ UNCHANGED allvars
           \/ \E i \in Item, v \in Condition : TestDisturbs(i, v)
    PROVE  Quiet
<1>1. torn \in BOOLEAN /\ result \in Result /\ (stage \in Trying => idx <= Len(tests))
  BY DEF RunInv, RunTypes, TestsInv
<1>2. CASE PrepareState
  BY <1>1, <1>2 DEF PrepareState, Quiet
<1>3. CASE StartTest
  BY <1>1, <1>3 DEF StartTest, Quiet, Running
<1>4. CASE EndAttempt
  BY <1>1, <1>4 DEF EndAttempt, Quiet, Running, Trying
<1>5. CASE Accept
  BY <1>1, <1>5 DEF Accept, Quiet, Trying
<1>6. CASE Rerun
  BY <1>1, <1>6 DEF Rerun, Quiet, Trying
<1>7. CASE RestoreFails
  BY <1>1, <1>7 DEF RestoreFails, Quiet, Running
<1>8. CASE SaveOpens
  BY <1>1, <1>8 DEF SaveOpens, Quiet
<1>9. CASE Checking
  BY <1>1, <1>9 DEF Checking, Quiet, run
<1>10. CASE CheckRaises
  BY <1>1, <1>10 DEF CheckRaises, Quiet, Running
<1>11. CASE EndLoop
  BY <1>1, <1>11 DEF EndLoop, Quiet, Running
<1>12. CASE Kill
  BY <1>1, <1>12 DEF Kill, Quiet
<1>13. CASE UNCHANGED allvars
  BY <1>1, <1>13 DEF allvars, Quiet, run
<1>14. CASE \E i \in Item, v \in Condition : TestDisturbs(i, v)
  BY <1>1, <1>14 DEF TestDisturbs, Quiet, run
<1> QED
  BY <1>2, <1>3, <1>4, <1>5, <1>6, <1>7, <1>8, <1>9, <1>10, <1>11, <1>12, <1>13, <1>14

\* The tests are prepared: those of the blacklist are reported first.
LEMMA PrepareKeepsInv == ASSUME RunInv, PrepareTests PROVE RunInv'
<1>1. /\ stage = "prepare" /\ idx = 1 /\ file' = file /\ idx' = idx /\ torn' = torn
      /\ result' = result /\ checked' = checked /\ dirty' = dirty
      /\ tests' = Unblacked[Len(Listed)]
      /\ \/ /\ tests' = <<>> /\ stage' = "refused"
            /\ report' = Append(Skips, Entry("no_test", "NOTESTS", "NOTESTS"))
         \/ tests' # <<>> /\ stage' = "snapshot" /\ report' = Skips
  BY DEF PrepareTests, RunInv, TestsInv
<1>2. /\ Skips \in Seq(ReportEntry) /\ Len(Skips) = Len(Blacked)
      /\ \A k \in 1..Len(Blacked) : Skips[k].test = Blacked[k]
  <2>1. /\ Blacked \in Seq(Range(Listed)) /\ DOMAIN Blacked = 1..Len(Blacked)
        /\ Len(Blacked) \in Nat
    BY RunAssumption
  <2>2. \A t \in Range(Listed) : Entry(t, "SKIP", "SKIP") \in ReportEntry
                                /\ Entry(t, "SKIP", "SKIP").test = t
    BY DEF Entry, ReportEntry, ReportTest, ReportStatus, Status
  <2> QED
    BY <2>1, <2>2 DEF Skips
<1>3. tests' \in Seq(Range(Listed)) /\ Len(tests') \in Nat
  BY <1>1, TestsToRun
<1>4. report' \in Seq(ReportEntry)
  <2>1. Entry("no_test", "NOTESTS", "NOTESTS") \in ReportEntry
    BY DEF Entry, ReportEntry, ReportTest, ReportStatus
  <2> QED
    BY <1>1, <1>2, <2>1
<1>5. RunTypes'
  <2>1. stage' \in Running \cup Ended \cup {"prepare", "finally"}
    BY <1>1 DEF Running, Ended
  <2>2. idx' \in 1..(Len(tests') + 1) /\ checked' \subseteq 1..(idx' - 1)
    BY <1>1, <1>3 DEF RunInv, RunTypes
  <2> QED
    BY <1>1, <1>3, <1>4, <2>1, <2>2, Zenon DEF RunInv, RunTypes
<1>6. TestsInv'
  BY <1>1 DEF TestsInv, Running, Trying
<1>7. ReportInv'
  <2>1. tests' # <<>> => (ReportIs(0))' /\ Recorded' = 0 /\ idx' - 1 = 0
    <3> SUFFICES ASSUME tests' # <<>>
                 PROVE  (ReportIs(0))' /\ Recorded' = 0 /\ idx' - 1 = 0
      OBVIOUS
    <3>1. Recorded' = 0 /\ idx' - 1 = 0
      BY <1>1 DEF Recorded
    <3>2. Len(report') = Len(Blacked) + 0 /\ report' = Skips /\ 0 \in 0..Len(tests')
      <4>1. report' = Skips /\ 0 \in 0..Len(tests')
        BY <1>1, <1>3
      <4>2. Len(Skips) = Len(Blacked) + 0
        BY <1>2, Places
      <4> QED
        BY <4>1, <4>2
    <3>3. (ReportIs(0))'
      BY <1>2, <3>2 DEF ReportIs, Place
    <3> QED
      BY <3>1, <3>3
  <2>2. stage' \in Running => tests' # <<>>
    BY <1>1 DEF Running
  <2> QED
    BY <2>1, <2>2 DEF ReportInv
<1>8. SavedInv' /\ CheckedInv'
  BY <1>1 DEF SavedInv, CheckedInv
<1> QED
  BY <1>5, <1>6, <1>7, <1>8 DEF RunInv

\* One result is added to the report.
LEMMA UpdateKeepsInv == ASSUME RunInv, UpdateReport PROVE RunInv'
<1> DEFINE t == tests[idx]
           e == Entry(t, Reported(t), result.status)
<1>1. /\ stage = "update" /\ idx \in 1..Len(tests)
      /\ UNCHANGED <<tests, idx, result, file, torn, checked, dirty>>
      /\ \/ stage' = "finally" /\ report' = report
         \/ stage' = "truncate" /\ report' = Append(report, e) /\ Reported(t) # "ODD"
  <2>1. stage = "update" /\ idx <= Len(tests) /\ idx \in 1..(Len(tests) + 1)
        /\ Len(tests) \in Nat
    BY DEF UpdateReport, RunInv, RunTypes, TestsInv, Trying
  <2> QED
    BY <2>1 DEF UpdateReport
<1>2. CASE stage' = "finally" /\ report' = report
  <2>1. Quiet
    BY <1>1, <1>2 DEF Quiet, RunInv, RunTypes, Running
  <2> QED
    BY <2>1, QuietKeepsInv
<1>3. CASE stage' = "truncate" /\ report' = Append(report, e)
  <2>1. e \in ReportEntry /\ e.test = t /\ e.was = result.status
    <3>1. result.status \in Status /\ t \in Range(Listed)
      BY <1>1 DEF RunInv, RunTypes, Result
    <3>2. Reported(t) \in Status
      BY <3>1 DEF Reported, Status
    <3> HIDE DEF t
    <3> QED
      BY <3>1, <3>2 DEF Entry, ReportEntry, ReportTest, ReportStatus
  <2> HIDE DEF e
  <2>2. /\ report \in Seq(ReportEntry) /\ Len(report) \in Nat
        /\ ReportIs(idx - 1) /\ Len(report) = Place(idx - 1)
        /\ Place(idx) = Len(report) + 1 /\ Place(idx) \in Nat
    <3>1. ReportIs(idx - 1)
      BY <1>1 DEF RunInv, ReportInv, Recorded, Running
    <3>2. report \in Seq(ReportEntry)
      BY DEF RunInv, RunTypes
    <3>3. idx - 1 \in Nat /\ (idx - 1) + 1 = idx
      BY <1>1
    <3> QED
      BY <3>1, <3>2, <3>3, Places DEF ReportIs
  <2>3. /\ report' \in Seq(ReportEntry) /\ Len(report') = Place(idx)
        /\ report'[Place(idx)] = e
        /\ \A k \in 1..Place(idx - 1) : report'[k] = report[k]
    BY <1>3, <2>1, <2>2, AppendedTo
  <2>4. RunTypes'
    <3>1. stage' \in Running \cup Ended \cup {"prepare", "finally"}
      BY <1>3 DEF Running
    <3> QED
      BY <1>1, <2>3, <3>1, Zenon DEF RunInv, RunTypes
  <2>5. TestsInv'
    BY <1>1, <1>3 DEF RunInv, TestsInv, Running, Trying
  <2>6. ReportIs(idx)'
    <3>1. \A k \in 1..Len(Blacked) : report'[k].test = Blacked[k]
      <4>1. \A k \in 1..Len(Blacked) : k \in 1..Place(idx - 1)
        BY <1>1, Places DEF Place
      <4> QED
        BY <2>2, <2>3, <4>1 DEF ReportIs
    <3>2. ASSUME NEW k \in 1..idx PROVE report'[Place(k)].test = tests[k]
      <4>1. CASE k = idx
        BY <2>1, <2>3, <4>1
      <4>2. CASE k # idx
        <5>1. Len(Blacked) \in Nat /\ k \in 1..(idx - 1)
          BY <1>1, <4>2, Places
        <5>2. Place(k) \in 1..Place(idx - 1)
          BY <5>1, <1>1 DEF Place
        <5> QED
          BY <2>2, <2>3, <5>1, <5>2 DEF ReportIs
      <4> QED
        BY <4>1, <4>2
    <3>3. idx \in 0..Len(tests)
      BY <1>1
    <3> QED
      BY <1>1, <2>3, <3>1, <3>2, <3>3, Zenon DEF ReportIs, Place
  <2>7. ReportInv'
    BY <1>1, <1>3, <2>6 DEF ReportInv, Recorded
  <2>8. SavedInv'
    <3>1. idx > 1 => Agrees(Place(idx - 1))
      BY DEF RunInv, SavedInv
    <3>2. Agrees(Place(idx - 1)) => Agrees(Place(idx - 1))'
      <4>1. Place(idx - 1) <= Len(report') /\ Place(idx - 1)' = Place(idx - 1)
        BY <1>1, <2>2, <2>3 DEF Place
      <4> QED
        BY <1>1, <2>3, <4>1 DEF Agrees
    <3> QED
      BY <1>1, <1>3, <3>1, <3>2 DEF SavedInv
  <2>9. CheckedInv'
    BY <1>1, <1>3, <2>1, <2>3 DEF CheckedInv, Place
  <2> QED
    BY <2>4, <2>5, <2>7, <2>8, <2>9 DEF RunInv
<1> QED
  BY <1>1, <1>2, <1>3

\* A save that ends writes the whole report; the check may then begin.
LEMMA WritesKeepsInv == ASSUME RunInv, SaveWrites PROVE RunInv'
<1>1. /\ stage = "truncate" /\ idx \in 1..Len(tests) /\ Len(tests) \in Nat
      /\ torn' = FALSE /\ file' = report
      /\ UNCHANGED <<tests, result, report, checked, dirty>>
      /\ \/ Unchecked /\ stage' = "loop" /\ idx' = idx + 1
         \/ stage' = "checking" /\ idx' = idx
  <2>1. stage = "truncate" /\ idx <= Len(tests) /\ idx \in 1..(Len(tests) + 1)
        /\ Len(tests) \in Nat
    BY DEF SaveWrites, RunInv, RunTypes, TestsInv, Trying
  <2> QED
    BY <2>1 DEF SaveWrites
<1>2. /\ ReportIs(idx) /\ Len(report) = Place(idx) /\ Place(idx) \in Nat
      /\ report[Place(idx)].was = result.status
  <2>1. ReportIs(idx)
    BY <1>1 DEF RunInv, ReportInv, Recorded, Running
  <2>2. report[Place(idx)].was = result.status
    BY <1>1 DEF RunInv, CheckedInv
  <2> QED
    BY <1>1, <2>1, <2>2, Places DEF ReportIs
<1>3. RunTypes'
  <2>1. stage' \in Running \cup Ended \cup {"prepare", "finally"}
    BY <1>1 DEF Running
  <2>2. idx' \in 1..(Len(tests') + 1)
    BY <1>1
  <2>3. checked' \subseteq 1..(idx' - 1)
    <3>1. checked \subseteq 1..(idx - 1)
      BY DEF RunInv, RunTypes
    <3> QED
      BY <1>1, <3>1
  <2> QED
    BY <1>1, <2>1, <2>2, <2>3, Zenon DEF RunInv, RunTypes
<1>4. TestsInv'
  <2>1. stage' \in {"loop", "checking"} /\ tests' = tests
        /\ (stage' = "checking" => idx' <= Len(tests'))
    BY <1>1
  <2> QED
    BY <1>1, <2>1 DEF RunInv, TestsInv, Running, Trying
<1>6. ReportInv'
  <2>1. \A n : ReportIs(n)' <=> ReportIs(n)
    BY <1>1 DEF ReportIs, Place
  <2>2. Recorded' = idx
    BY <1>1 DEF Recorded
  <2>3. idx' = idx \/ idx' - 1 = idx
    BY <1>1
  <2> QED
    BY <1>2, <2>1, <2>2, <2>3 DEF ReportInv
<1>7. SavedInv'
  <2>1. \A n \in Nat : n <= Place(idx) => Agrees(n)'
    BY <1>1, <1>2 DEF Agrees
  <2>2. Place(idx' - 1) \in Nat /\ Place(idx' - 1) <= Place(idx)
    <3>1. idx' - 1 \in Nat /\ idx \in Nat /\ idx' - 1 <= idx
      BY <1>1
    <3> QED
      BY <3>1, Places
  <2>3. stage' = "checking" => idx' = idx
    BY <1>1
  <2>4. stage' # "done"
    BY <1>1
  <2> QED
    BY <1>2, <2>1, <2>2, <2>3, <2>4 DEF SavedInv, Place
<1>8. CheckedInv'
  <2>1. CASE stage' = "checking" /\ idx' = idx
    BY <1>1, <1>2, <2>1 DEF CheckedInv, Place
  <2>2. CASE Unchecked /\ stage' = "loop" /\ idx' = idx + 1
    <3>1. idx' - 1 = idx /\ idx \notin checked'
      BY <1>1, <2>2 DEF RunInv, RunTypes
    <3>2. NoCheck \/ report'[Place(idx)].was = "INVALID"
      BY <1>1, <1>2, <2>2 DEF Unchecked
    <3> QED
      BY <2>2, <3>1, <3>2 DEF CheckedInv, Place
  <2> QED
    BY <1>1, <2>1, <2>2
<1> QED
  BY <1>3, <1>4, <1>6, <1>7, <1>8 DEF RunInv

\* A check that reports nothing hands the next test a clean host.
LEMMA ProcessKeepsInv ==
    ASSUME RunInv, CleanReportIsClean, ProcessDiff
    PROVE  RunInv'
<1>1. /\ stage = "checking" /\ idx \in 1..Len(tests) /\ Len(tests) \in Nat
      /\ UNCHANGED <<tests, result, report, file, torn>>
      /\ stage' = "loop" /\ idx' = idx + 1
      /\ checked' = checked \cup {idx}
      /\ dirty' = IF msg # {} THEN dirty \cup {idx} ELSE dirty
      /\ phase = "report" /\ UNCHANGED <<host, memory, check>>
  <2>1. stage = "checking" /\ idx <= Len(tests) /\ idx \in 1..(Len(tests) + 1)
        /\ Len(tests) \in Nat
    BY DEF ProcessDiff, RunInv, RunTypes, TestsInv, Trying
  <2> QED
    BY <2>1 DEF ProcessDiff, NextTest
<1>2. ReportIs(idx) /\ Agrees(Place(idx)) /\ idx' - 1 = idx /\ idx \in Nat
  BY <1>1 DEF RunInv, ReportInv, SavedInv, Recorded, Running
<1>3. RunTypes'
  <2>1. stage' \in Running \cup Ended \cup {"prepare", "finally"}
    BY <1>1 DEF Running
  <2>2. idx' \in 1..(Len(tests') + 1)
    BY <1>1
  <2>3. checked' \subseteq 1..(idx' - 1) /\ dirty' \subseteq checked'
    <3>1. checked \subseteq 1..(idx - 1) /\ dirty \subseteq checked
      BY DEF RunInv, RunTypes
    <3> QED
      BY <1>1, <3>1
  <2> QED
    BY <1>1, <2>1, <2>2, <2>3, Zenon DEF RunInv, RunTypes
<1>4. TestsInv'
  BY <1>1 DEF RunInv, TestsInv, Running, Trying
<1>5. ReportInv'
  <2>1. Recorded' = idx
    BY <1>1, <1>2 DEF Recorded
  <2>2. \A n : ReportIs(n)' <=> ReportIs(n)
    BY <1>1 DEF ReportIs, Place
  <2> QED
    BY <1>2, <2>1, <2>2 DEF ReportInv
<1>6. SavedInv'
  BY <1>1, <1>2 DEF SavedInv, Agrees, Place
<1>7. CheckedInv'
  <2>1. idx \in checked'
    BY <1>1
  <2>2. ASSUME idx \notin dirty', ~flaky', served' PROVE HostClean'
    <3>1. msg = {}
      BY <1>1, <2>2
    <3>2. flaky' = flaky /\ served' = served /\ host' = host /\ backup' = backup
      BY <1>1 DEF memory, check
    <3>3. HostClean
      BY <1>1, <2>2, <3>1, <3>2, Zenon DEF CleanReportIsClean, HostClean
    <3> QED
      BY <3>2, <3>3 DEF HostClean, Permissible
  <2> QED
    BY <1>1, <1>2, <2>1, <2>2 DEF CheckedInv
<1> QED
  BY <1>3, <1>4, <1>5, <1>6, <1>7 DEF RunInv

\* The report is saved for the last time.
LEMMA FinishKeepsInv == ASSUME RunInv, Finish PROVE RunInv'
<1>1. /\ stage = "finally" /\ stage' = "done" /\ torn' = FALSE /\ file' = report
      /\ UNCHANGED <<tests, idx, result, report, checked, dirty>>
  BY DEF Finish
<1>2. RunTypes'
  <2>1. stage' \in Running \cup Ended \cup {"prepare", "finally"}
    BY <1>1 DEF Ended
  <2> QED
    BY <1>1, <2>1, Zenon DEF RunInv, RunTypes
<1>3. TestsInv'
  BY <1>1 DEF RunInv, TestsInv, Running, Trying
<1>4. ReportInv'
  <2>1. \A n : ReportIs(n)' <=> ReportIs(n)
    BY <1>1 DEF ReportIs, Place
  <2> QED
    BY <1>1, <2>1 DEF RunInv, ReportInv, Running
<1>5. SavedInv'
  <2>1. idx > 1 => Agrees(Place(idx - 1))
    BY DEF RunInv, SavedInv
  <2> QED
    BY <1>1, <2>1 DEF SavedInv, Agrees, Place
<1>6. CheckedInv'
  BY <1>1 DEF CheckedInv
<1> QED
  BY <1>2, <1>3, <1>4, <1>5, <1>6 DEF RunInv

\* No step of a run breaks the invariant, as long as clean reports are clean.
LEMMA StepKeepsRunInv ==
    RunInv /\ CleanReportIsClean /\ [RunNext]_allvars => RunInv'
<1> SUFFICES ASSUME RunInv, CleanReportIsClean, [RunNext]_allvars PROVE RunInv'
  OBVIOUS
<1>1. CASE PrepareTests
  BY <1>1, PrepareKeepsInv
<1>2. CASE UpdateReport
  BY <1>2, UpdateKeepsInv
<1>3. CASE SaveWrites
  BY <1>3, WritesKeepsInv
<1>4. CASE ProcessDiff
  BY <1>4, ProcessKeepsInv
<1>5. CASE Finish
  BY <1>5, FinishKeepsInv
<1> QED
  BY <1>1, <1>2, <1>3, <1>4, <1>5, QuietSteps, QuietKeepsInv DEF RunNext, RunStep

\* So it holds in every run.
LEMMA RunInvHolds == RunSpec => []RunInv
<1>1. RunSpec => []CleanReportIsClean
  BY ChecksOfARun, PTL
<1> QED
  BY <1>1, InitRunInv, StepKeepsRunInv, PTL DEF RunSpec

-----------------------------------------------------------------------------
\* The names of a report that has recorded the first n tests.
LEMMA ReportedNames ==
    ASSUME RunInv, NEW n, ReportIs(n)
    PROVE  /\ TestsOf(report) = Blacked \o SubSeq(tests, 1, n)
           /\ Range(TestsOf(report)) = Range(Blacked) \cup {tests[k] : k \in 1..n}
<1> DEFINE b == Len(Blacked)
           s == SubSeq(tests, 1, n)
<1>1. /\ Blacked \in Seq(Range(Listed)) /\ b \in Nat /\ DOMAIN Blacked = 1..b
      /\ tests \in Seq(Range(Listed)) /\ Len(tests) \in Nat /\ n \in 0..Len(tests)
      /\ DOMAIN report = 1..(b + n)
  BY RunAssumption DEF RunInv, RunTypes, ReportIs, Place
<1>2. s \in Seq(Range(Listed)) /\ Len(s) = n /\ \A k \in 1..n : s[k] = tests[k]
  BY <1>1
<1> HIDE DEF s, b
<1>3. /\ DOMAIN (Blacked \o s) = 1..(b + n)
      /\ \A k \in 1..b : (Blacked \o s)[k] = Blacked[k]
      /\ \A k \in 1..n : (Blacked \o s)[b + k] = s[k]
      /\ Blacked \o s \in Seq(Range(Listed)) /\ Len(Blacked \o s) = b + n
  BY <1>1, <1>2, SMTT(30) DEF b
<1>4. \A k \in 1..(b + n) : k \in 1..b \/ \E j \in 1..n : k = b + j
  <2> TAKE k \in 1..(b + n)
  <2>1. k \in 1..b \/ (k - b \in 1..n /\ k = b + (k - b))
    BY <1>1
  <2> QED
    BY <2>1
<1>5. \A k \in 1..(b + n) : report[k].test = (Blacked \o s)[k]
  <2>1. \A k \in 1..b : report[k].test = (Blacked \o s)[k]
    BY <1>3 DEF ReportIs, b
  <2>2. \A k \in 1..n : report[b + k].test = (Blacked \o s)[b + k]
    BY <1>2, <1>3 DEF ReportIs, Place, b
  <2> QED
    BY <1>4, <2>1, <2>2
<1>6. TestsOf(report) = Blacked \o s
  <2>1. Blacked \o s = [k \in 1..(b + n) |-> (Blacked \o s)[k]]
    <3> DEFINE q == Blacked \o s
    <3>1. q \in Seq(Range(Listed)) /\ Len(q) = b + n
      BY <1>3
    <3> HIDE DEF q
    <3>2. q = [k \in 1..Len(q) |-> q[k]]
      BY <3>1
    <3> QED
      BY <3>1, <3>2 DEF q
  <2>2. TestsOf(report) = [k \in 1..(b + n) |-> report[k].test]
    BY <1>1 DEF TestsOf
  <2> QED
    BY <1>5, <2>1, <2>2
<1>7. Range(Blacked \o s) = Range(Blacked) \cup {tests[k] : k \in 1..n}
  <2>1. \A k \in 1..b : k \in 1..(b + n)
    BY <1>1
  <2>2. \A k \in 1..n : b + k \in 1..(b + n)
    BY <1>1
  <2>3. \A k \in 1..b : Blacked[k] \in Range(Blacked \o s)
    BY <1>3, <2>1 DEF Range
  <2>4. \A k \in 1..n : tests[k] \in Range(Blacked \o s)
    BY <1>2, <1>3, <2>2 DEF Range
  <2>5. \A k \in 1..(b + n) :
           (Blacked \o s)[k] \in Range(Blacked) \cup {tests[j] : j \in 1..n}
    <3>1. \A k \in 1..b : (Blacked \o s)[k] \in Range(Blacked)
      BY <1>1, <1>3 DEF Range
    <3>2. \A k \in 1..n : (Blacked \o s)[b + k] \in {tests[j] : j \in 1..n}
      BY <1>2, <1>3
    <3> QED
      BY <3>1, <3>2, <1>4
  <2>6. Range(Blacked) = {Blacked[k] : k \in 1..b}
    BY <1>1 DEF Range
  <2>7. Range(Blacked \o s) = {(Blacked \o s)[k] : k \in 1..(b + n)}
    BY <1>3 DEF Range
  <2> QED
    BY <2>3, <2>4, <2>5, <2>6, <2>7
<1> QED
  BY <1>6, <1>7 DEF s

\* Each test that ran is in the report once, in its place, however often it
\* was tried and whatever ended the run, for any list, blacklist and bound.
THEOREM ReportedHolds == RunSpec => []ReportedOnceInOrder
<1>1. RunInv => ReportedOnceInOrder
  <2> SUFFICES ASSUME RunInv PROVE ReportedOnceInOrder
    OBVIOUS
  <2>1. ASSUME stage \notin Ended \cup {"prepare", "finally"}
        PROVE  TestsOf(report) = Blacked \o SubSeq(tests, 1, Recorded)
    <3>1. stage \in Running
      BY <2>1 DEF RunInv, RunTypes
    <3>2. ReportIs(Recorded)
      BY <3>1 DEF RunInv, ReportInv
    <3> QED
      BY <3>2, ReportedNames
  <2>2. ASSUME tests # <<>>
        PROVE  \E n \in 0..Len(tests) : TestsOf(report) = Blacked \o SubSeq(tests, 1, n)
    <3>1. PICK n : ReportIs(n)
      BY <2>2 DEF RunInv, ReportInv
    <3>2. n \in 0..Len(tests)
      BY <3>1 DEF ReportIs
    <3> QED
      BY <3>1, <3>2, ReportedNames
  <2>3. ASSUME stage = "done", idx > Len(tests)
        PROVE  report # <<>> /\ ToSet(TestsOf(report)) = ToSet(Listed)
    <3>1. tests # <<>> /\ tests = Unblacked[Len(Listed)]
      BY <2>3 DEF RunInv, TestsInv
    <3>2. tests \in Seq(Range(Listed)) /\ Len(tests) \in Nat /\ idx - 1 = Len(tests)
          /\ idx \notin 0..Len(tests)
      BY <2>3 DEF RunInv, RunTypes
    <3>3. ReportIs(Len(tests))
      BY <3>1, <3>2 DEF RunInv, ReportInv, ReportIs
    <3>4. Range(TestsOf(report)) = Range(Blacked) \cup {tests[k] : k \in 1..Len(tests)}
      BY <3>3, ReportedNames
    <3>5. {tests[k] : k \in 1..Len(tests)} = Range(Listed) \ Range(Blacked)
      <4>1. Range(tests) = Range(Listed) \ Range(Blacked)
        BY <3>1, TestsToRun
      <4>2. DOMAIN tests = 1..Len(tests)
        BY <3>2
      <4> QED
        BY <4>1, <4>2 DEF Range
    <3>6. Range(Blacked) \subseteq Range(Listed)
      <4>1. Blacked \in Seq(Range(Listed)) /\ DOMAIN Blacked = 1..Len(Blacked)
        BY RunAssumption
      <4>2. \A k \in DOMAIN Blacked : Blacked[k] \in Range(Listed)
        BY <4>1
      <4> QED
        BY <4>2 DEF Range
    <3>7. Len(report) # 0
      <4>1. Len(tests) # 0
        BY <3>1, <3>2
      <4>2. Len(report) = Place(Len(tests)) /\ Place(Len(tests)) >= Len(tests)
            /\ Place(Len(tests)) \in Nat
        BY <3>2, <3>3, Places DEF ReportIs
      <4> QED
        BY <4>1, <4>2, <3>2
    <3>8. ToSet(TestsOf(report)) = Range(TestsOf(report)) /\ ToSet(Listed) = Range(Listed)
      BY DEF ToSet, Range
    <3> QED
      BY <3>4, <3>5, <3>6, <3>7, <3>8
  <2> QED
    BY <2>1, <2>2, <2>3 DEF ReportedOnceInOrder
<1> QED
  BY <1>1, RunInvHolds, PTL

\* The file never falls behind the tests that are over, and holds the whole
\* report of a run that ends by itself.
THEOREM SavedHolds == RunSpec => []ResultsAreSaved
<1>1. RunInv => ResultsAreSaved
  <2> SUFFICES ASSUME RunInv PROVE ResultsAreSaved
    OBVIOUS
  <2>1. ASSUME idx > 1 PROVE IsPrefix(SubSeq(report, 1, Place(idx - 1)), file)
    <3> DEFINE n == Place(idx - 1)
               p == SubSeq(report, 1, n)
    <3>1. /\ report \in Seq(ReportEntry) /\ file \in Seq(ReportEntry)
          /\ idx - 1 \in Nat /\ Agrees(n)
      BY <2>1 DEF RunInv, RunTypes, SavedInv
    <3>2. n \in Nat
      BY <3>1, Places
    <3> HIDE DEF n
    <3>3. n <= Len(report) /\ n <= Len(file) /\ \A k \in 1..n : file[k] = report[k]
      BY <3>1 DEF Agrees
    <3>4. p \in Seq(ReportEntry) /\ Len(p) = n /\ \A k \in 1..n : p[k] = report[k]
      BY <3>1, <3>2, <3>3
    <3> HIDE DEF p
    <3>5. SubSeq(p, 1, n) = [k \in 1..n |-> p[k]]
      BY <3>2, <3>4
    <3>6. SubSeq(file, 1, n) = [k \in 1..n |-> file[k]]
      BY <3>1, <3>2, <3>3
    <3>7. IsPrefix(p, file)
      BY <3>3, <3>4, <3>5, <3>6 DEF IsPrefix
    <3> QED
      BY <3>7 DEF p, n
  <2>2. stage = "done" => file = report /\ ~torn
    BY DEF RunInv, SavedInv
  <2> QED
    BY <2>1, <2>2 DEF ResultsAreSaved
<1> QED
  BY <1>1, RunInvHolds, PTL

\* No test but the first starts on a host that was not checked for a reason
\* other than an INVALID result or --no-check, and what a check passed as
\* clean is clean when the next test starts.
THEOREM CheckedHostHolds == RunSpec => []StartsOnCheckedHost
<1>1. RunInv => StartsOnCheckedHost
  BY DEF RunInv, CheckedInv, StartsOnCheckedHost, PreviousEntry, HostClean
<1> QED
  BY <1>1, RunInvHolds, PTL
=============================================================================
