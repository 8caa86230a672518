----------------------------- MODULE RemoteFiles -----------------------------
(***************************************************************************)
(* Files kept alike on all hosts by salt (cli/SaltRunner.py behind         *)
(* cli/RemoteRunner.py): run_copy_with_rollback, and record_node_SN of     *)
(* cli/fedora_util.py, which appends the serial numbers of nodes to        *)
(* node_sn and copies that file everywhere.                                *)
(*                                                                         *)
(* A salt call waits some seconds for the answers of the hosts.  A host    *)
(* may do what it was asked, fail, or not answer in time; in that case it  *)
(* may still do it later.                                                  *)
(***************************************************************************)
EXTENDS Integers, FiniteSets

CONSTANTS
    Host,     \* hosts salt knows
    Console,  \* hosts on which record_node_SN is called
    Node,     \* nodes of one call of it
    Unpacks,  \* hosts whose name can be unpacked into three values
    MaxLines, \* lines of a node in a file (bound)
    Copies    \* whether a file is copied with rollback

RemoteAssumption ==
    /\ Console \subseteq Host /\ Host # {} /\ IsFiniteSet(Host) /\ Unpacks \subseteq Host
    /\ MaxLines \in Nat /\ Copies \in BOOLEAN

VARIABLES
    sn,       \* host -> its node_sn: how many lines each node has
    cached,   \* nodes with /usr/bin/.fru_info.txt
    late,     \* copies that a host may still make: <<host, content>>
    sncall,   \* console -> where its call is
    unread,   \* nodes it has still to look at
    serials,  \* nodes it has a serial number of
    error,    \* have_error
    ret,      \* what the call returned
    roll,     \* where run_copy_with_rollback is
    retcode,  \* host -> retcode of the copy
    staged,   \* hosts that have the source file
    installed \* hosts on which it was moved to its destination

record == <<sn, cached, late, sncall, unread, serials, error, ret>>
copy   == <<roll, retcode, staged, installed>>
vars   == <<record, copy>>

File  == [Node -> 0..MaxLines]
Empty == [n \in Node |-> 0]

TypeOK ==
    /\ sn \in [Host -> File] /\ cached \subseteq Node
    /\ late \subseteq Host \X File
    /\ sncall \in [Console -> {"idle", "scan", "append", "copy", "raised"}]
    /\ unread \in [Console -> SUBSET Node] /\ serials \in [Console -> SUBSET Node]
    /\ error \in [Console -> BOOLEAN] /\ ret \in [Console -> {"none", "ok", "error"}]
    /\ roll \in {"copy", "decide", "false", "raised"}
    /\ retcode \in [Host -> {-1, 0, 1}]
    /\ staged \subseteq Host /\ installed \subseteq Host

Init ==
    /\ sn = [h \in Host |-> Empty] /\ cached \in SUBSET Node /\ late = {}
    /\ sncall = [c \in Console |-> "idle"] /\ unread = [c \in Console |-> {}]
    /\ serials = [c \in Console |-> {}] /\ error = [c \in Console |-> FALSE]
    /\ ret = [c \in Console |-> "none"]
    /\ roll = "copy" /\ retcode = [h \in Host |-> -1] /\ staged = {} /\ installed = {}

-----------------------------------------------------------------------------
(* record_node_SN. *)

Call(c) ==
    /\ sncall[c] = "idle" /\ \A n \in Node : sn[c][n] < MaxLines
    /\ sncall' = [sncall EXCEPT ![c] = "scan"] /\ unread' = [unread EXCEPT ![c] = Node]
    /\ serials' = [serials EXCEPT ![c] = {}] /\ error' = [error EXCEPT ![c] = FALSE]
    /\ ret' = [ret EXCEPT ![c] = "none"]
    /\ UNCHANGED <<sn, cached, late, copy>>

\* get_serila_number: the cache of the node, or ipmitool, which fills it, or the
\* UUID of dmidecode, which does not.
Serial(n, ok) ==
    \/ n \in cached /\ ok = TRUE /\ UNCHANGED cached
    \/ n \notin cached /\ ok = TRUE /\ cached' = cached \cup {n}
    \/ n \notin cached /\ ok \in BOOLEAN /\ UNCHANGED cached

\* One node.  The file is searched for its host name but holds addresses, so the
\* node is never found there.  An address that is missing raises IndexError.
Look(c, n) ==
    /\ sncall[c] = "scan" /\ n \in unread[c]
    /\ unread' = [unread EXCEPT ![c] = @ \ {n}]
    /\ \E ok \in BOOLEAN :
           /\ Serial(n, ok)
           /\ serials' = IF ok THEN [serials EXCEPT ![c] = @ \cup {n}] ELSE serials
           /\ error' = [error EXCEPT ![c] = @ \/ ~ok]
           /\ \/ UNCHANGED sncall
              \/ ok /\ sncall' = [sncall EXCEPT ![c] = "raised"]
    /\ UNCHANGED <<sn, late, ret, copy>>

\* (Mutant of Decide: an error of one node does not stop the others.)
BugDecide(c) ==
    /\ sncall[c] = "scan" /\ unread[c] = {}
    /\ sncall' = [sncall EXCEPT ![c] = "append"]
    /\ UNCHANGED <<sn, cached, late, unread, serials, error, ret, copy>>
Decide(c) ==
    /\ sncall[c] = "scan" /\ unread[c] = {}
    /\ \/ error[c] /\ ret' = [ret EXCEPT ![c] = "error"] /\ sncall' = [sncall EXCEPT ![c] = "idle"]
       \/ ~error[c] /\ UNCHANGED ret /\ sncall' = [sncall EXCEPT ![c] = "append"]
    /\ UNCHANGED <<sn, cached, late, unread, serials, error, copy>>

\* (Mutant of AppendLines: every name of a node in /etc/hosts gets a line.)
BugAppendLines(c) ==
    /\ sncall[c] = "append"
    /\ \A n \in Node : sn[c][n] < MaxLines
    /\ sn' = [sn EXCEPT ![c] = [n \in Node |-> @[n] + (IF n \in serials[c] THEN 3 ELSE 0)]]
    /\ sncall' = [sncall EXCEPT ![c] = "copy"]
    /\ UNCHANGED <<cached, late, unread, serials, error, ret, copy>>
\* echo .. >> node_sn, on the console's own host.
AppendLines(c) ==
    /\ sncall[c] = "append"
    /\ \A n \in Node : sn[c][n] < MaxLines
    /\ sn' = [sn EXCEPT ![c] = [n \in Node |-> @[n] + (IF n \in serials[c] THEN 1 ELSE 0)]]
    /\ sncall' = [sncall EXCEPT ![c] = "copy"]
    /\ UNCHANGED <<cached, late, unread, serials, error, ret, copy>>

\* (Mutant of CopyOut: only the new lines are sent.)
BugCopyOut(c) ==
    /\ sncall[c] = "copy"
    /\ \E n \in Node : sn' = [h \in Host |-> [sn[h] EXCEPT ![n] = sn[c][n]]]
    /\ sncall' = [sncall EXCEPT ![c] = "idle"] /\ ret' = [ret EXCEPT ![c] = "ok"]
    /\ UNCHANGED <<cached, late, unread, serials, error, copy>>
\* run_copy to '*': its result is not looked at.
CopyOut(c) ==
    /\ sncall[c] = "copy"
    /\ \E now, soon \in SUBSET Host :
           /\ now \cap soon = {}
           /\ sn' = [h \in Host |-> IF h \in now THEN sn[c] ELSE sn[h]]
           /\ late' = late \cup {<<h, sn[c]>> : h \in soon}
    /\ sncall' = [sncall EXCEPT ![c] = "idle"] /\ ret' = [ret EXCEPT ![c] = "ok"]
    /\ UNCHANGED <<cached, unread, serials, error, copy>>

\* A host does what it was asked after the caller stopped waiting.
CopyLate(h, f) ==
    /\ <<h, f>> \in late
    /\ sn' = [sn EXCEPT ![h] = f] /\ late' = late \ {<<h, f>>}
    /\ UNCHANGED <<cached, sncall, unread, serials, error, ret, copy>>

-----------------------------------------------------------------------------
(* run_copy_with_rollback: src to src, then mv src dest on all or rm src.   *)

\* Zero is answered by those only that have the file.
CopyFile ==
    /\ Copies /\ roll = "copy"
    /\ \E got \in SUBSET Host :
           /\ staged' = got
           /\ retcode' \in [Host -> {-1, 0, 1}]
           /\ \A h \in Host : retcode'[h] = 0 => h \in got
    /\ roll' = "decide"
    /\ UNCHANGED <<record, installed>>

\* (Mutant of Evaluate: files are moved wherever they are.)
BugEvaluate ==
    /\ roll = "decide"
    /\ roll' = "false" /\ installed' = staged
    /\ UNCHANGED <<record, retcode, staged>>
\* The comprehension unpacks every KEY of the answers into three names: a host
\* name raises ValueError unless it has three letters, and then none of them
\* says success.
Evaluate ==
    /\ roll = "decide"
    /\ roll' = IF Host \subseteq Unpacks THEN "false" ELSE "raised"
    /\ UNCHANGED <<record, retcode, staged, installed>>

Next ==
    \/ \E c \in Console :
           Call(c) \/ Decide(c) \/ AppendLines(c) \/ CopyOut(c) \/ \E n \in Node : Look(c, n)
    \/ \E j \in late : CopyLate(j[1], j[2])
    \/ CopyFile \/ Evaluate

Spec == Init /\ [][Next]_vars

-----------------------------------------------------------------------------
(* What the code keeps. *)

\* The nodes of a call get their lines together or not at all, on every host,
\* whatever fails, arrives late or is overwritten.
CallsAreWhole == \A h \in Host, m, n \in Node : sn[h][m] = sn[h][n]

\* A call that returned success had a serial number of every node.
OkIsComplete == \A c \in Console : ret[c] = "ok" => serials[c] = Node

\* Nothing was moved to its destination by a call that did not return True.
FailureInstallsNothing == roll \in {"false", "raised"} => installed = {}

=============================================================================
