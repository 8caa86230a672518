----------------------------- MODULE EntityCache -----------------------------
(***************************************************************************)
(* metadash's cache of entity attributes: metadash/cache/manager.py over a *)
(* dogpile region backed by redis, and the SQLAlchemy hooks of             *)
(* metadash/models/base that clear it.                                     *)
(*                                                                         *)
(* For one entity the store holds the cached value of each attribute and   *)
(* the record, a list of the store keys that belong to the entity, which   *)
(* is all that clear_entity_cache knows of.  Workers of the web server and *)
(* celery read attributes through the cache and change them in database    *)
(* transactions; the hook that clears the cache runs when a change is      *)
(* flushed, before the transaction commits.  Every access to the store or  *)
(* the database is a step of its own.                                      *)
(*                                                                         *)
(* A value is abstracted to the number of the change that made it.  The    *)
(* record is a list with repetitions in the code; only which keys it holds *)
(* matters.                                                                *)
(***************************************************************************)
EXTENDS Integers

CONSTANTS
    Worker,      \* processes sharing the store
    NoWorker,    \* holder of a free mutex
    Attr,        \* cacheable attributes of the entity
    MaxChange,   \* bound: number of changes
    MaxLapse     \* bound: number of keys that expire

ASSUME CacheAssumption ==
    NoWorker \notin Worker /\ MaxChange \in Nat /\ MaxLapse \in Nat

NotCached == -1

VARIABLES
    committed,  \* what the database shows of each attribute
    pending,    \* what each worker's transaction has flushed, or NotCached
    changes,    \* number of changes so far
    cache,      \* store: value of each attribute, or NotCached
    record,     \* store: the attributes the entity's record lists
    lock,       \* store: dogpile's mutex of each attribute
    pc,         \* where each worker is
    attr,       \* the attribute it works on
    copy,       \* its copy of the record
    value,      \* the value it has computed
    open,       \* it has flushed changes that are not committed
    lapses,     \* number of keys that expired so far
    raced       \* ghost: attributes cached or missed in a race, see below

database == <<committed, pending, changes, open>>
store    == <<cache, record, lock, lapses>>
locals   == <<pc, attr, copy, value>>
cacheVars     == <<database, store, locals, raced>>

Value == 0..MaxChange

CacheTypeOK ==
    /\ committed \in [Attr -> Value]
    /\ pending \in [Worker -> [Attr -> Value \cup {NotCached}]]
    /\ changes \in Value
    /\ cache \in [Attr -> Value \cup {NotCached}]
    /\ record \subseteq Attr
    /\ lock \in [Attr -> Worker \cup {NoWorker}]
    /\ pc \in [Worker -> {"idle", "listed", "lookup", "compute", "fill", "clear"}]
    /\ attr \in [Worker -> Attr]
    /\ copy \in [Worker -> SUBSET Attr]
    /\ value \in [Worker -> Value]
    /\ open \in [Worker -> BOOLEAN]
    /\ lapses \in 0..MaxLapse
    /\ raced \subseteq Attr

CacheInit ==
    /\ committed = [a \in Attr |-> 0]
    /\ pending = [w \in Worker |-> [a \in Attr |-> NotCached]]
    /\ changes = 0
    /\ cache = [a \in Attr |-> NotCached]
    /\ record = {}
    /\ lock = [a \in Attr |-> NoWorker]
    /\ pc = [w \in Worker |-> "idle"]
    /\ attr \in [Worker -> Attr]
    /\ copy = [w \in Worker |-> {}]
    /\ value = [w \in Worker |-> 0]
    /\ open = [w \in Worker |-> FALSE]
    /\ lapses = 0
    /\ raced = {}

Goto(w, label) == pc' = [pc EXCEPT ![w] = label]

\* The value a worker's transaction sees.
Visible(w, a) == IF pending[w][a] # NotCached THEN pending[w][a] ELSE committed[a]

\* Somebody has flushed a change of a and not committed it.
InFlux(a) == \E w \in Worker : pending[w][a] # NotCached

-----------------------------------------------------------------------------
\* get_or_create_entity_cache: fetch the record, or create an empty one, ...
FetchRecord(w, a) ==
    /\ pc[w] = "idle"
    /\ attr' = [attr EXCEPT ![w] = a]
    /\ copy' = [copy EXCEPT ![w] = record]
    /\ Goto(w, "listed")
    /\ UNCHANGED <<database, store, value, raced>>

\* ... add the key to the copy and store it, over whatever is there now, ...
StoreRecord(w) ==
    /\ pc[w] = "listed"
    /\ record' = copy[w] \cup {attr[w]}
    /\ copy' = [copy EXCEPT ![w] = {}]
    /\ Goto(w, "lookup")
    /\ UNCHANGED <<database, cache, lock, lapses, attr, value, raced>>

\* ... and look the value up.
Hit(w) ==
    /\ pc[w] = "lookup" /\ cache[attr[w]] # NotCached
    /\ Goto(w, "idle")
    /\ UNCHANGED <<database, store, attr, copy, value, raced>>

\* (Mutant of Miss: the mutex is taken from its holder.)
BugMiss(w) ==
    /\ pc[w] = "lookup" /\ cache[attr[w]] = NotCached
    /\ lock' = [lock EXCEPT ![attr[w]] = w]
    /\ Goto(w, "compute")
    /\ UNCHANGED <<database, cache, record, lapses, attr, copy, value, raced>>

\* A miss: the one who gets the mutex creates the value, others wait and
\* look again.
Miss(w) ==
    /\ pc[w] = "lookup" /\ cache[attr[w]] = NotCached
    /\ lock[attr[w]] = NoWorker
    /\ lock' = [lock EXCEPT ![attr[w]] = w]
    /\ Goto(w, "compute")
    /\ UNCHANGED <<database, cache, record, lapses, attr, copy, value, raced>>

\* (Mutant of Compute: only the worker's own transaction is read.)
BugCompute(w) ==
    /\ pc[w] = "compute"
    /\ value' = [value EXCEPT ![w] = pending[w][attr[w]]]
    /\ Goto(w, "fill")
    /\ UNCHANGED <<database, store, attr, copy, raced>>

\* The creator reads the attribute from the database.
Compute(w) ==
    /\ pc[w] = "compute"
    /\ value' = [value EXCEPT ![w] = Visible(w, attr[w])]
    /\ Goto(w, "fill")
    /\ UNCHANGED <<database, store, attr, copy, raced>>

\* The attribute does not exist or cannot be formatted: dogpile releases the
\* mutex and the exception leaves get_or_create.
ComputeRaises(w) ==
    /\ pc[w] = "compute"
    /\ lock' = [lock EXCEPT ![attr[w]] = NoWorker]
    /\ Goto(w, "idle")
    /\ UNCHANGED <<database, cache, record, lapses, attr, copy, value, raced>>

\* (Mutant of Fill: the mutex is not released.)
BugFill(w) ==
    /\ pc[w] = "fill"
    /\ cache' = [cache EXCEPT ![attr[w]] = value[w]]
    /\ raced' = IF value[w] # committed[attr[w]] \/ InFlux(attr[w])
                  THEN raced \cup {attr[w]} ELSE raced
    /\ value' = [value EXCEPT ![w] = 0]
    /\ Goto(w, "idle")
    /\ UNCHANGED <<database, record, lock, lapses, attr, copy>>

\* The value is stored and the mutex released.  The fill is a race if the
\* value is already outdated, or not yet committed, or about to change.
Fill(w) ==
    /\ pc[w] = "fill"
    /\ cache' = [cache EXCEPT ![attr[w]] = value[w]]
    /\ lock' = [lock EXCEPT ![attr[w]] = NoWorker]
    /\ raced' = IF value[w] # committed[attr[w]] \/ InFlux(attr[w])
                  THEN raced \cup {attr[w]} ELSE raced
    /\ value' = [value EXCEPT ![w] = 0]
    /\ Goto(w, "idle")
    /\ UNCHANGED <<database, record, lapses, attr, copy>>

\* A row of the entity is flushed; the row stays locked until the end of the
\* transaction.  The after_update hook starts clear_entity_cache, which
\* fetches the record.  An attribute that is cached and not in the record is
\* missed.
Flush(w, a) ==
    /\ pc[w] = "idle" /\ changes < MaxChange
    /\ \A v \in Worker \ {w} : pending[v][a] = NotCached
    /\ changes' = changes + 1
    /\ pending' = [pending EXCEPT ![w][a] = changes + 1]
    /\ open' = [open EXCEPT ![w] = TRUE]
    /\ copy' = [copy EXCEPT ![w] = record]
    /\ raced' = IF cache[a] # NotCached /\ a \notin record
                  THEN raced \cup {a} ELSE raced
    /\ Goto(w, "clear")
    /\ UNCHANGED <<committed, store, attr, value>>

\* (Mutant of ClearOne: the key is forgotten and not deleted.)
BugClearOne(w, a) ==
    /\ pc[w] = "clear" /\ a \in copy[w]
    /\ copy' = [copy EXCEPT ![w] = @ \ {a}]
    /\ UNCHANGED <<database, store, pc, attr, value, raced>>

\* The keys of the record are deleted one by one.
ClearOne(w, a) ==
    /\ pc[w] = "clear" /\ a \in copy[w]
    /\ cache' = [cache EXCEPT ![a] = NotCached]
    /\ raced' = raced \ {a}
    /\ copy' = [copy EXCEPT ![w] = @ \ {a}]
    /\ UNCHANGED <<database, record, lock, lapses, pc, attr, value>>

Cleared(w) ==
    /\ pc[w] = "clear" /\ copy[w] = {}
    /\ Goto(w, "idle")
    /\ UNCHANGED <<database, store, attr, copy, value, raced>>

EndTransaction(w) ==
    /\ pc[w] = "idle" /\ open[w]
    /\ pending' = [pending EXCEPT ![w] = [a \in Attr |-> NotCached]]
    /\ open' = [open EXCEPT ![w] = FALSE]
    /\ UNCHANGED <<changes, store, locals, raced>>

Commit(w) ==
    /\ committed' = [a \in Attr |-> Visible(w, a)]
    /\ EndTransaction(w)

\* A handler that raises: the session is removed without a commit.
Rollback(w) ==
    /\ UNCHANGED committed
    /\ EndTransaction(w)

\* redis drops a key a day after it was last stored.  The record may go
\* before the values it lists: each was stored after the record was.
Expire ==
    /\ lapses < MaxLapse
    /\ lapses' = lapses + 1
    /\ \/ record # {} /\ record' = {} /\ UNCHANGED <<cache, raced>>
       \/ \E a \in Attr : /\ cache[a] # NotCached
                          /\ cache' = [cache EXCEPT ![a] = NotCached]
                          /\ raced' = raced \ {a}
                          /\ UNCHANGED record
    /\ UNCHANGED <<database, lock, locals>>

Get(w) ==
    \/ StoreRecord(w) \/ Hit(w) \/ Miss(w)
    \/ Compute(w) \/ ComputeRaises(w) \/ Fill(w)

Clear(w) == (\E a \in Attr : ClearOne(w, a)) \/ Cleared(w)

CacheNext ==
    \/ \E w \in Worker :
          \/ \E a \in Attr : FetchRecord(w, a) \/ Flush(w, a)
          \/ Get(w)
          \/ Clear(w)
          \/ Commit(w) \/ Rollback(w)
    \/ Expire

CacheSpec == CacheInit /\ [][CacheNext]_cacheVars

\* A request that has begun to read or to clear is carried on; nothing forces
\* anyone to begin one, or to end a transaction.
CacheFairness == \A w \in Worker : WF_cacheVars(Get(w)) /\ WF_cacheVars(Clear(w))

FairCacheSpec == CacheSpec /\ CacheFairness

-----------------------------------------------------------------------------
\* A cached value that is not what the database shows, with no transaction
\* on the attribute under way, has one of three causes: it was computed
\* before a change and stored after it, it was stored while a change was
\* flushed and not ended, or the record did not list it when a change was
\* flushed (another reader's record overwrote it, or the record expired).
\* In every other interleaving of readers, clears, commits and rollbacks the
\* cache is right.
StaleOnlyByRace ==
    \A a \in Attr :
        (cache[a] \notin {NotCached, committed[a]} /\ ~InFlux(a)) => a \in raced

\* The mutex of an attribute is held by the worker that creates its value
\* and by nobody else, so a value is never created twice at a time.
OneCreator ==
    \A w \in Worker, a \in Attr :
        lock[a] = w <=> (pc[w] \in {"compute", "fill"} /\ attr[w] = a)

\* Every read ends, although it may have to wait for other creators and may
\* find the value it waited for deleted again - provided creators do not keep
\* raising: the mutex is not fair, so a reader may lose every race for it
\* against readers that leave nothing behind.
CreatorsStopRaising == <>[][\A w \in Worker : ~ComputeRaises(w)]_cacheVars

GetReturns ==
    CreatorsStopRaising => \A w \in Worker : pc[w] = "listed" ~> pc[w] = "idle"

-----------------------------------------------------------------------------
\* What the hooks are for: "Clear related cache after attribute updated"
\* (models/base/attribute.py).  Once nobody is at work and every transaction
\* has ended, no cached value is outdated.
ClearedAfterUpdate ==
    (\A w \in Worker : pc[w] = "idle" /\ ~open[w]) =>
        \A a \in Attr : cache[a] \in {NotCached, committed[a]}
=============================================================================
