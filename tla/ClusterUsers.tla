---------------------------- MODULE ClusterUsers ----------------------------
(***************************************************************************)
(* Local users and groups of a cluster (cli/fedora_admin_user_local).      *)
(* A command changes the files of the host it runs on and copies them to   *)
(* all hosts with salt: the three files of a user in an archive that is    *)
(* unpacked there, a single file as it is.  Samba keeps passwords of its   *)
(* own on every host.  A file is what it says of the users and groups.     *)
(***************************************************************************)
EXTENDS FiniteSets, Integers

CONSTANTS
    Host, Console, \* the hosts, and those on which commands are run
    User, Group,   \* names
    Default,       \* default_group
    System,        \* users and groups with an id below get_min_uid()
    Domain,        \* users and groups that winbind lists
    Pw,            \* passwords
    Fails,         \* whether commands may fail and hosts may not answer
    MaxCalls       \* calls of a console (bound)

ClusterUsersAssumption ==
    /\ Console \subseteq Host /\ IsFiniteSet(Host) /\ Default \in Group \ System
    /\ User # {} /\ Pw # {} /\ Fails \in BOOLEAN /\ MaxCalls \in Nat /\ {"", "locked"} \cap (Group \cup Pw) = {}

VARIABLES
    etc,     \* host -> passwd: user -> group, shadow: user -> password, groups
    smb,     \* host -> user -> its password for samba
    archive, \* host -> /etc/.local_user.tar.gz: none or one set of files
    call,    \* console -> the call that is running
    answer,  \* console -> what its last call returned
    alone,   \* consoles of whose last call no other one began or was under way
    deaf,    \* console -> hosts that missed a remote command of its last call
    left     \* console -> calls it may still make

vars == <<etc, smb, archive, call, answer, alone, deaf, left>>

None   == ""
Locked == "locked"
Files  == [passwd : [User -> Group \cup {None}], shadow : [User -> Pw \cup {None, Locked}],
           group : SUBSET Group]
Ops    == {"useradd", "userdel", "passwd", "usermod", "groupadd", "groupdel"}
Steps  == {"idle", "local", "pack", "stage", "unpack", "samba", "send"}
Calls  == [op : Ops, user : User, group : Group, pw : Pw, at : Steps, more : BOOLEAN]

TypeOK ==
    /\ etc \in [Host -> Files] /\ smb \in [Host -> [User -> Pw \cup {None}]]
    /\ \A h \in Host : Cardinality(archive[h]) <= 1 /\ \A f \in archive[h] : f \in Files
    /\ call \in [Console -> Calls] /\ answer \in [Console -> {"", "ok", "error"}]
    /\ alone \subseteq Console /\ deaf \in [Console -> SUBSET Host]
    /\ left \in [Console -> 0..MaxCalls]

Init ==
    /\ etc = [h \in Host |->
                 [passwd |-> [u \in User |-> IF u \in System THEN Default ELSE None],
                  shadow |-> [u \in User |-> IF u \in System THEN Locked ELSE None],
                  group  |-> {Default} \cup (Group \cap System)]]
    /\ smb = [h \in Host |-> [u \in User |-> None]] /\ archive = [h \in Host |-> {}]
    /\ call = [c \in Console |-> CHOOSE d \in Calls : d.at = "idle"]
    /\ answer = [c \in Console |-> ""] /\ alone = {} /\ deaf = [c \in Console |-> {}]
    /\ left = [c \in Console |-> MaxCalls]

-----------------------------------------------------------------------------
(* Calls.  One that is refused changes nothing. *)

At(c, s)     == call[c].at = s
Goto(c, s)   == call' = [call EXCEPT ![c].at = s]
Busy         == {c \in Console : ~At(c, "idle")}
Has(h, u)    == etc[h].passwd[u] # None
HasGroup(h, g) == g \in etc[h].group

Accepted(c, op, u, g) ==
    CASE op = "useradd"  -> u \notin Domain /\ ~Has(c, u) /\ (HasGroup(c, g) => g \notin System)
      [] op = "userdel"  -> Has(c, u) /\ u \notin System
      [] op = "passwd"   -> Has(c, u) /\ u \notin System
      [] op = "usermod"  -> Has(c, u) /\ u \notin System /\ HasGroup(c, g) /\ g \notin System
      [] op = "groupadd" -> g \notin Domain /\ ~HasGroup(c, g)
      [] op = "groupdel" -> HasGroup(c, g) /\ g \notin System /\ g # Default

Begin(c, op, u, g, p, more) ==
    /\ At(c, "idle") /\ left[c] > 0 /\ Accepted(c, op, u, g)
    /\ more => op = "passwd"
    /\ call' = [call EXCEPT ![c] = [op |-> op, user |-> u, group |-> g, pw |-> p,
                                    at |-> "local", more |-> more]]
    /\ answer' = [answer EXCEPT ![c] = ""] /\ left' = [left EXCEPT ![c] = @ - 1]
    /\ alone' = IF Busy = {} THEN {c} ELSE {}
    /\ deaf' = [deaf EXCEPT ![c] = {}]
    /\ UNCHANGED <<etc, smb, archive>>

End(c, r) == Goto(c, "idle") /\ answer' = [answer EXCEPT ![c] = r]

\* What the commands of a call make of the files of its host, and what is next:
\* one that fails ends the call and leaves what those before it did.
Local(c, files, passwords, next) ==
    /\ At(c, "local")
    /\ etc' = [etc EXCEPT ![c] = files] /\ smb' = [smb EXCEPT ![c] = passwords]
    /\ IF next = "error" THEN End(c, "error") ELSE Goto(c, next) /\ UNCHANGED answer
    /\ UNCHANGED <<archive, alone, deaf, left>>

\* groupadd's result is not looked at; useradd, passwd and smbpasswd follow.
UserAdd(c) ==
    LET d == call[c]
        f == [etc[c] EXCEPT !.group = IF d.group = Default THEN @ ELSE @ \cup {d.group}]
        a == [f EXCEPT !.passwd[d.user] = d.group, !.shadow[d.user] = Locked]
        p == [a EXCEPT !.shadow[d.user] = d.pw]
    IN /\ d.op = "useradd"
       /\ \/ (Fails \/ Has(c, d.user) \/ d.group \notin f.group) /\ Local(c, f, smb[c], "error")
          \/ /\ ~Has(c, d.user) /\ d.group \in f.group
             /\ \/ Fails /\ (Local(c, a, smb[c], "error") \/ Local(c, p, smb[c], "error"))
                \/ Local(c, p, [smb[c] EXCEPT ![d.user] = d.pw], "pack")

\* smbpasswd -x is not looked at.
UserDel(c) ==
    LET d == call[c]
        f == [etc[c] EXCEPT !.passwd[d.user] = None, !.shadow[d.user] = None]
    IN /\ d.op = "userdel"
       /\ \E s \in {smb[c], [smb[c] EXCEPT ![d.user] = None]} :
              /\ s = smb[c] => Fails \/ smb[c][d.user] = None
              /\ \/ Has(c, d.user) /\ Local(c, f, s, "pack")
                 \/ (Fails \/ ~Has(c, d.user)) /\ Local(c, etc[c], s, "error")

\* passwd is not looked at.
Passwd(c) ==
    LET d == call[c]
    IN /\ d.op = "passwd"
       /\ \/ Has(c, d.user) /\ Local(c, [etc[c] EXCEPT !.shadow[d.user] = d.pw], smb[c], "send")
          \/ (Fails \/ ~Has(c, d.user)) /\ Local(c, etc[c], smb[c], "send")

UserMod(c) ==
    LET d == call[c]
    IN /\ d.op = "usermod"
       /\ \/ /\ Has(c, d.user) /\ HasGroup(c, d.group) /\ d.group \notin System
             /\ Local(c, [etc[c] EXCEPT !.passwd[d.user] = d.group], smb[c], "send")
          \/ (Fails \/ ~Has(c, d.user) \/ ~HasGroup(c, d.group) \/ d.group \in System)
             /\ Local(c, etc[c], smb[c], "error")

GroupAdd(c) ==
    LET d == call[c]
    IN /\ d.op = "groupadd"
       /\ \/ /\ ~HasGroup(c, d.group)
             /\ Local(c, [etc[c] EXCEPT !.group = @ \cup {d.group}], smb[c], "send")
          \/ (Fails \/ HasGroup(c, d.group)) /\ Local(c, etc[c], smb[c], "error")

\* groupdel refuses the primary group of a user.
Primary(c, g) == \E u \in User : etc[c].passwd[u] = g
\* (Mutant of GroupDel: it is forced.)
BugGroupDel(c) ==
    LET d == call[c]
    IN /\ d.op = "groupdel"
       /\ Local(c, [etc[c] EXCEPT !.group = @ \ {d.group}], smb[c], "send")
GroupDel(c) ==
    LET d == call[c]
    IN /\ d.op = "groupdel"
       /\ \/ /\ HasGroup(c, d.group) /\ ~Primary(c, d.group)
             /\ Local(c, [etc[c] EXCEPT !.group = @ \ {d.group}], smb[c], "send")
          \/ (Fails \/ ~HasGroup(c, d.group) \/ Primary(c, d.group)) /\ Local(c, etc[c], smb[c], "error")

-----------------------------------------------------------------------------
(* The other hosts. *)

\* tar czvf
Pack(c) ==
    /\ At(c, "pack")
    /\ \/ archive' = [archive EXCEPT ![c] = {etc[c]}] /\ Goto(c, "stage") /\ UNCHANGED answer
       \/ Fails /\ End(c, "error") /\ UNCHANGED archive
    /\ UNCHANGED <<etc, smb, alone, deaf, left>>

Reached == IF Fails THEN SUBSET Host ELSE {Host}

\* synchronize_file: a host that did not get the archive ends the call.
\* (Mutant: nobody looks who got it.)
BugStage(c) ==
    /\ At(c, "stage")
    /\ \E got \in Reached :
           archive' = [h \in Host |-> IF h \in got THEN archive[c] ELSE archive[h]]
    /\ Goto(c, "unpack") /\ UNCHANGED <<answer, etc, smb, alone, deaf, left>>
Stage(c) ==
    /\ At(c, "stage")
    /\ \E got \in Reached :
           /\ archive' = [h \in Host |-> IF h \in got THEN archive[c] ELSE archive[h]]
           /\ IF got = Host THEN Goto(c, "unpack") /\ UNCHANGED answer ELSE End(c, "error")
    /\ UNCHANGED <<etc, smb, alone, deaf, left>>

\* tar xvf ..; rm -f ..: nobody looks who did it, but salt itself may fail.
Unpack(c) ==
    /\ At(c, "unpack")
    /\ \E did \in Reached :
           /\ etc' = [h \in Host |-> IF h \in did /\ archive[h] # {}
                                     THEN CHOOSE f \in archive[h] : TRUE ELSE etc[h]]
           /\ archive' = [h \in Host |-> IF h \in did THEN {} ELSE archive[h]]
           /\ deaf' = [deaf EXCEPT ![c] = @ \cup (Host \ did)]
    /\ \/ Goto(c, "samba") /\ UNCHANGED answer
       \/ Fails /\ End(c, "error")
    /\ UNCHANGED <<smb, alone, left>>

\* smbpasswd on all hosts, for a user they have; then what is left of 'set'.
Samba(c) ==
    /\ At(c, "samba")
    /\ \E did \in Reached :
           /\ smb' = [h \in Host |->
                         IF h \notin did THEN smb[h]
                         ELSE IF call[c].op = "userdel" THEN [smb[h] EXCEPT ![call[c].user] = None]
                         ELSE IF Has(h, call[c].user) THEN [smb[h] EXCEPT ![call[c].user] = call[c].pw]
                         ELSE smb[h]]
           /\ deaf' = [deaf EXCEPT ![c] = @ \cup (Host \ did)]
    /\ \/ ~call[c].more /\ End(c, "ok")
       \/ /\ call[c].more /\ UNCHANGED answer
          /\ call' = [call EXCEPT ![c].op = "usermod", ![c].at = "local", ![c].more = FALSE]
       \/ Fails /\ End(c, "error")
    /\ UNCHANGED <<etc, archive, alone, left>>

\* The file that a call copies as it is.
Sent(op) == CASE op = "passwd" -> "shadow" [] op = "usermod" -> "passwd" [] OTHER -> "group"

\* salt-cp may say so or not when a host did not get the file; run_remote_copy does.
Send(c) ==
    LET f == Sent(call[c].op) IN
    /\ At(c, "send")
    /\ \E got \in Reached :
           /\ etc' = [h \in Host |-> IF h \in got THEN [etc[h] EXCEPT ![f] = etc[c][f]] ELSE etc[h]]
           /\ \/ /\ got = Host \/ f # "group"
                 /\ deaf' = [deaf EXCEPT ![c] = @ \cup (Host \ got)]
                 /\ IF f = "shadow" THEN Goto(c, "samba") /\ UNCHANGED answer ELSE End(c, "ok")
              \/ got # Host /\ End(c, "error") /\ UNCHANGED deaf
    /\ UNCHANGED <<smb, archive, alone, left>>

LocalStep(c) == UserAdd(c) \/ UserDel(c) \/ Passwd(c) \/ UserMod(c) \/ GroupAdd(c) \/ GroupDel(c)

Next ==
    \E c \in Console :
        \/ \E op \in Ops, u \in User, g \in Group, p \in Pw, more \in BOOLEAN : Begin(c, op, u, g, p, more)
        \/ LocalStep(c) \/ Pack(c) \/ Stage(c) \/ Unpack(c) \/ Samba(c) \/ Send(c)

Spec == Init /\ [][Next]_vars

-----------------------------------------------------------------------------
(* What the code keeps. *)

\* The files a call is about.
About(op) == IF op \in {"useradd", "userdel"} THEN {"passwd", "shadow", "group"} ELSE {Sent(op)}

\* After a call that succeeded, and that no other call met, every host that did
\* what it was told has the files of the console's host, whatever went wrong
\* before.
OkIsEverywhere ==
    \A c \in alone : answer[c] = "ok" =>
        \A h \in Host \ deaf[c], f \in About(call[c].op) : etc[h][f] = etc[c][f]

\* Such a call gave the user the same password for samba, or none.
SambaFollows ==
    \A c \in alone : answer[c] = "ok" /\ call[c].op \in {"useradd", "userdel"} =>
        \A h \in Host \ deaf[c] :
            smb[h][call[c].user] = IF call[c].op = "useradd" THEN etc[c].shadow[call[c].user] ELSE None

\* A user's group is there on the host where commands run one at a time.
GroupsAreThere ==
    \A c \in Console : Cardinality(Console) = 1 =>
        \A u \in User : Has(c, u) => etc[c].passwd[u] \in etc[c].group
=============================================================================
