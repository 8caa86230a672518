----------------------------- MODULE CloudLease -----------------------------
(***************************************************************************)
(* Virtual machines leased from OpenStack: reserve_openstack_systems       *)
(* (provision/osp.py), which `ci provision --target ci-osp` calls before   *)
(* it writes the id of the node to the env file, and teardown_ciosp        *)
(* (commands/teardown.py), which looks for the node by id and name.        *)
(* All jobs of the team share one tenant, so nodes of others are listed    *)
(* as well; the teardown may be run again after it failed.                 *)
(***************************************************************************)
EXTENDS Integers, FiniteSets

CONSTANTS
    Other,   \* nodes of other jobs
    Mine,    \* the node this job creates
    MaxTear, \* teardowns that are run (bound)
    NoNode   \* no node

CloudLeaseAssumption == Mine \notin Other /\ NoNode \notin Other \cup {Mine} /\ MaxTear \in Nat

VARIABLES
    lease,    \* where the provisioning is
    server,   \* node -> its status, on the server
    ip,       \* node -> whether a floating IP is associated with it
    leaked,   \* floating IPs whose node is gone
    recorded, \* CIOSP_NODEID is in the env file
    named,    \* other nodes that have the name JSLAVENAME of this job
    byname,   \* whether the teardown is given the name
    bulk,     \* --bulk
    tearpc,   \* where the teardown is
    chosen,   \* nodes it still has to delete
    victim,   \* the one it is at
    unsure,   \* wait_for gave up on it
    tears,    \* teardowns so far
    picked    \* nodes it chose, and how many there were (history)

args  == <<named, byname, bulk>>
cloud == <<server, ip, leaked>>
tear  == <<tearpc, chosen, victim, unsure, tears, picked>>
vars  == <<lease, recorded, args, cloud, tear>>

Node   == Other \cup {Mine}
Listed == {n \in Node : server[n] \notin {"none", "deleted"}}
Over   == lease \in {"ok", "failed"}

TypeOK ==
    /\ lease \in {"create", "wait", "active", "port", "reserved", "ok", "failed"}
    /\ server \in [Node -> {"none", "BUILD", "ACTIVE", "ERROR", "deleting", "deleted"}]
    /\ ip \in [Node -> BOOLEAN] /\ leaked \subseteq Node
    /\ recorded \in BOOLEAN /\ byname \in BOOLEAN /\ bulk \in BOOLEAN
    /\ named \subseteq Other
    /\ tearpc \in {"none", "look", "delete", "wait", "free", "done", "failed"}
    /\ chosen \subseteq Node /\ victim \in Node \cup {NoNode}
    /\ unsure \in BOOLEAN /\ tears \in 0..MaxTear
    /\ picked \subseteq Node

Init ==
    /\ lease = "create"
    /\ server \in {s \in [Node -> {"none", "ACTIVE"}] : s[Mine] = "none"}
    /\ ip = [n \in Node |-> server[n] = "ACTIVE"] /\ leaked = {}
    /\ recorded = FALSE
    /\ named \in SUBSET Other /\ byname \in BOOLEAN /\ bulk \in BOOLEAN
    /\ tearpc = "none" /\ chosen = {} /\ victim = NoNode /\ unsure = FALSE
    /\ tears = 0 /\ picked = {}

-----------------------------------------------------------------------------
(* reserve_openstack_systems, and the line of run() behind it. *)

Create ==
    /\ lease = "create"
    /\ \/ server' = [server EXCEPT ![Mine] = "BUILD"] /\ lease' = "wait"
       \/ lease' = "failed" /\ UNCHANGED server
    /\ UNCHANGED <<recorded, args, ip, leaked, tear>>

\* (Mutant of Built: a node in ERROR is taken as well.)
BugBuilt ==
    /\ lease = "wait"
    /\ \/ server[Mine] # "BUILD" /\ lease' = "active"
       \/ server[Mine] = "BUILD" /\ lease' = "failed"
    /\ UNCHANGED <<recorded, args, cloud, tear>>

\* wait_for_node_building: the node left BUILD, or 20 minutes are over and
\* wait_for returned None.
Built ==
    /\ lease = "wait"
    /\ \/ server[Mine] # "BUILD" /\ lease' = IF server[Mine] = "ACTIVE" THEN "active" ELSE "failed"
       \/ server[Mine] = "BUILD" /\ lease' = "failed"
    /\ UNCHANGED <<recorded, args, cloud, tear>>

\* create_floatingip, or something before it raised.
Associate ==
    /\ lease = "active"
    /\ \/ ip' = [ip EXCEPT ![Mine] = TRUE] /\ lease' = "reserved"
       \/ lease' = "failed" /\ UNCHANGED ip
    /\ UNCHANGED <<recorded, args, server, leaked, tear>>

Record ==
    /\ lease = "reserved"
    /\ recorded' = TRUE
    /\ lease' = "ok"
    /\ UNCHANGED <<args, cloud, tear>>

-----------------------------------------------------------------------------
(* The cloud. *)

\* (Mutant of Builds: a node may be stopped.)
BugBuilds ==
    /\ server[Mine] \in {"BUILD", "ACTIVE"}
    /\ \E s \in {"ACTIVE", "ERROR", "SHUTOFF"} : server' = [server EXCEPT ![Mine] = s]
    /\ UNCHANGED <<lease, recorded, args, ip, leaked, tear>>

Builds ==
    /\ server[Mine] = "BUILD"
    /\ \E s \in {"ACTIVE", "ERROR"} : server' = [server EXCEPT ![Mine] = s]
    /\ UNCHANGED <<lease, recorded, args, ip, leaked, tear>>

\* Deleting a node leaves its floating IP, associated with nothing.
Deletes(n) ==
    /\ server[n] = "deleting"
    /\ server' = [server EXCEPT ![n] = "deleted"]
    /\ ip' = [ip EXCEPT ![n] = FALSE]
    /\ leaked' = IF ip[n] THEN leaked \cup {n} ELSE leaked
    /\ UNCHANGED <<lease, recorded, args, tear>>

-----------------------------------------------------------------------------
(* teardown_ciosp *)

\* The nodes that pass the filters; a filter that is not given passes all.
Selected ==
    {n \in Listed : /\ recorded => n = Mine
                    /\ byname => n \in named \cup {Mine}}

\* (Mutant of Choose: the guard of --bulk is missing.)
BugChoose ==
    /\ Over /\ tearpc \in {"none", "failed"} /\ tears < MaxTear
    /\ tears' = tears + 1
    /\ chosen' = Selected /\ picked' = Selected
    /\ tearpc' = IF Selected = {} THEN "failed" ELSE "look"
    /\ victim' = NoNode /\ unsure' = FALSE
    /\ UNCHANGED <<lease, recorded, args, cloud>>

\* One node, or several with --bulk.
Choose ==
    /\ Over /\ tearpc \in {"none", "failed"} /\ tears < MaxTear
    /\ tears' = tears + 1
    /\ IF Selected = {} \/ (Cardinality(Selected) > 1 /\ ~bulk)
         THEN tearpc' = "failed" /\ chosen' = {} /\ picked' = {}
         ELSE tearpc' = "look" /\ chosen' = Selected /\ picked' = Selected
    /\ victim' = NoNode /\ unsure' = FALSE
    /\ UNCHANGED <<lease, recorded, args, cloud>>

\* The floating IP is looked up first; unpacking none raises.
Look ==
    /\ tearpc = "look"
    /\ IF chosen = {} THEN tearpc' = "done" /\ UNCHANGED <<chosen, victim>>
       ELSE \E n \in chosen :
               /\ chosen' = chosen \ {n}
               /\ victim' = n
               /\ tearpc' = IF ip[n] THEN "delete" ELSE "failed"
    /\ UNCHANGED <<lease, recorded, args, cloud, unsure, tears, picked>>

\* (Mutant of Delete: only the address is given back.)
BugDelete ==
    /\ tearpc = "delete"
    /\ tearpc' = "free"
    /\ UNCHANGED <<lease, recorded, args, cloud, chosen, victim, unsure, tears, picked>>

\* (Mutant of Delete: a node that is gone is deleted once more.)
BugDeleteAgain ==
    /\ tearpc = "delete"
    /\ \/ server' = [server EXCEPT ![victim] = "deleting"] /\ tearpc' = "wait"
       \/ tearpc' = "failed" /\ UNCHANGED server
    /\ UNCHANGED <<lease, recorded, args, ip, leaked, chosen, victim, unsure, tears, picked>>

\* nova.servers.delete fails on a node that is gone by now: an earlier teardown
\* that was cut short had asked for it.
Delete ==
    /\ tearpc = "delete"
    /\ \/ /\ server[victim] # "deleted"
          /\ server' = [server EXCEPT ![victim] = "deleting"]
          /\ tearpc' = "wait"
       \/ tearpc' = "failed" /\ UNCHANGED server
    /\ UNCHANGED <<lease, recorded, args, ip, leaked, chosen, victim, unsure, tears, picked>>

\* wait_for(_node_deleted): it is gone, or 20 minutes are over, which nobody
\* notices, or the request fails.
Wait ==
    /\ tearpc = "wait"
    /\ \/ server[victim] = "deleted" /\ tearpc' = "free" /\ UNCHANGED unsure
       \/ server[victim] # "deleted" /\ tearpc' = "free" /\ unsure' = TRUE
       \/ tearpc' = "failed" /\ unsure' = TRUE
    /\ UNCHANGED <<lease, recorded, args, cloud, chosen, victim, tears, picked>>

\* (Mutant of Free: the IP is freed only with its node gone.)
BugFree ==
    /\ tearpc = "free"
    /\ IF unsure THEN UNCHANGED <<ip, leaked>>
       ELSE ip' = [ip EXCEPT ![victim] = FALSE] /\ UNCHANGED leaked
    /\ tearpc' = "look"
    /\ UNCHANGED <<lease, recorded, args, server, chosen, victim, unsure, tears, picked>>

\* nova.floating_ips.delete
Free ==
    /\ tearpc = "free"
    /\ ip' = [ip EXCEPT ![victim] = FALSE]
    /\ leaked' = leaked \ {victim}
    /\ tearpc' = "look"
    /\ UNCHANGED <<lease, recorded, args, server, chosen, victim, unsure, tears, picked>>

-----------------------------------------------------------------------------
Reserve == Create \/ Built \/ Associate \/ Record
TearStep == Choose \/ Look \/ Delete \/ Wait \/ Free

Next == Reserve \/ Builds \/ (\E n \in Node : Deletes(n)) \/ TearStep

Spec == Init /\ [][Next]_vars

FairSpec ==
    /\ Spec /\ WF_vars(Reserve) /\ WF_vars(Builds) /\ WF_vars(TearStep)
    /\ \A n \in Node : WF_vars(Deletes(n))

-----------------------------------------------------------------------------
(* Properties. *)

\* The node of this job is what is taken and given back.
Held == IF server[Mine] = "none" THEN "unused"
        ELSE IF server[Mine] = "deleted" THEN "freed" ELSE "held"

Taken == INSTANCE Lease WITH
    Resource <- {Mine},
    holding  <- [n \in {Mine} |-> Held],
    noted    <- IF recorded THEN {Mine} ELSE {},
    over     <- Over

\* However teardowns and their failures follow each other, the node is created
\* and deleted once and is recorded while it is there.
KeepsLease == Taken!Spec

\* A node of another job is only deleted if this one's id is not in the env
\* file, which is so whenever its provisioning failed; then either --bulk was
\* given or the other node was the only one the name or nothing at all chose.
OthersAreSpared ==
    \A n \in picked \cap Other : ~recorded /\ (bulk \/ picked = {n})

\* The recorded node is usable: it was active and has its address, until a
\* teardown begins.
RecordedIsUsable == recorded /\ tears = 0 => server[Mine] = "ACTIVE" /\ ip[Mine]

\* A teardown that ends well leaves none of its nodes, unless it gave up
\* waiting for one, and then that node has no address any more: the next
\* teardown fails on it.
DoneIsDone ==
    tearpc = "done" => \A n \in picked : server[n] = "deleted" \/ (unsure /\ ~ip[n])

\* A teardown that ends well leaves no address behind, although a node that is
\* deleted late drops its address at any moment.
AddressIsFreed == tearpc = "done" => picked \cap leaked = {}

\* A teardown of the recorded node gets rid of it, unless a request failed.
TeardownDeletes ==
    (recorded /\ tearpc = "look") ~> (server[Mine] = "deleted" \/ tearpc = "failed")
=============================================================================
