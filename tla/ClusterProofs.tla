---------------------------- MODULE ClusterProofs ----------------------------
(***************************************************************************)
(* What is kept alike on all hosts of a cluster, for any number of hosts,  *)
(* consoles, users, nodes, disks and tasks: the files of local users and   *)
(* groups (ClusterUsers), those that salt copies (RemoteFiles), and the    *)
(* weights of the disks, which one task at a time may change after it has  *)
(* compared them (CapacityBalance).                                        *)
(***************************************************************************)
EXTENDS ClusterUsers, FiniteSetTheorems, NaturalsInduction, WellFoundedInduction, TLAPS

(* The constants and variables of the files that salt copies. *)
CONSTANTS Node, Unpacks, MaxLines, Copies
VARIABLES sn, cached, late, sncall, unread, serials, error, ret, roll, retcode, staged, installed

Remote == INSTANCE RemoteFiles

(* Those of the balancing. *)
CONSTANTS
    Erasure, Replicated, Parts, FailureDomain, StrictPool, MinDisks, MaxDisks, Version, MaxChange,
    Nobody
VARIABLES disks, weight, changes, task, same, least, holder, progress, reweighs, passed

Balance == INSTANCE CapacityBalance WITH
    Domain <- FailureDomain, Strict <- StrictPool, None <- Nobody

-----------------------------------------------------------------------------
(* Local users and groups.  That every host has the console's files after  *)
(* a call is not inductive: the invariant says how far they have come at   *)
(* each step of a call that met no other one (Spreading), that such a call *)
(* is the only one that runs (Lone), and that what a step of useradd left  *)
(* behind is what its call asks for.                                       *)

\* An archive is there or not.
Archived ==
    /\ archive = [h \in Host |-> archive[h]]
    /\ \A h \in Host : archive[h] = {} \/ \E f \in Files : archive[h] = {f}

\* The groups of the users of some files are in them.
Grouped(f) == \A u \in User : f.passwd[u] # None => f.passwd[u] \in f.group

\* What the types leave open of a call that runs.
OrderedAt(c) ==
    /\ call[c].at \in {"pack", "stage", "unpack"} => call[c].op \in {"useradd", "userdel"}
    /\ call[c].at = "samba" => call[c].op \in {"useradd", "userdel", "passwd"}
    /\ call[c].at = "send" => call[c].op \notin {"useradd", "userdel"}
    /\ call[c].at # "idle" => answer[c] = "" /\ (call[c].more => call[c].op = "passwd")
Ordered == \A c \in Console : OrderedAt(c)

\* No call runs beside one that met no other.
Lone == \A c \in alone : \A d \in Console : d # c => At(d, "idle")

\* A single console's calls meet no other, and its users have their groups.
OneConsole ==
    \A c \in Console : Console = {c} => (At(c, "idle") \/ c \in alone) /\ Grouped(etc[c])

\* How far the files of the console's host have come.
Spreading ==
    \A c \in alone :
        /\ At(c, "stage") => archive[c] = {etc[c]}
        /\ At(c, "unpack") => \A h \in Host : archive[h] = {etc[c]}
        /\ At(c, "samba") =>
               \A h \in Host \ deaf[c], f \in About(call[c].op) : etc[h][f] = etc[c][f]
        /\ call[c].op = "useradd" /\ call[c].at \in {"pack", "stage", "unpack", "samba"} =>
               /\ etc[c].passwd[call[c].user] = call[c].group
               /\ etc[c].shadow[call[c].user] = call[c].pw

Types ==
    /\ etc \in [Host -> Files] /\ smb \in [Host -> [User -> Pw \cup {None}]]
    /\ Archived
    /\ call \in [Console -> Calls] /\ answer \in [Console -> {"", "ok", "error"}]
    /\ alone \subseteq Console /\ deaf \in [Console -> SUBSET Host]
    /\ left \in [Console -> 0..MaxCalls]

UsersInv ==
    /\ Types /\ Ordered /\ Lone /\ OneConsole /\ Spreading /\ OkIsEverywhere /\ SambaFollows

\* The parts of the invariant imply the type invariant of the component.
LEMMA TypesOK == Types => TypeOK
<1> SUFFICES ASSUME Types PROVE TypeOK
  OBVIOUS
<1>1. ASSUME NEW h \in Host
      PROVE  Cardinality(archive[h]) <= 1 /\ \A f \in archive[h] : f \in Files
  <2>1. CASE archive[h] = {}
    BY <2>1, FS_EmptySet
  <2>2. CASE \E f \in Files : archive[h] = {f}
    BY <2>2, FS_Singleton
  <2> QED
    BY <2>1, <2>2 DEF Types, Archived
<1> QED
  BY <1>1 DEF Types, TypeOK

\* The invariant holds in every initial state.
LEMMA UsersInvInit == ClusterUsersAssumption /\ Init => UsersInv
<1> SUFFICES ASSUME ClusterUsersAssumption, Init PROVE UsersInv
  OBVIOUS
<1> DEFINE first == CHOOSE d \in Calls : d.at = "idle"
<1>1. first \in Calls /\ first.at = "idle"
  <2>1. PICK u \in User : TRUE
    BY DEF ClusterUsersAssumption
  <2>2. PICK p \in Pw : TRUE
    BY DEF ClusterUsersAssumption
  <2>3. [op |-> "useradd", user |-> u, group |-> Default, pw |-> p, at |-> "idle", more |-> FALSE]
        \in Calls
    BY <2>1, <2>2 DEF Calls, Ops, Steps, ClusterUsersAssumption
  <2> QED
    BY <2>3
<1>2. call = [c \in Console |-> first]
  BY DEF Init
<1> HIDE DEF first
<1>3. etc \in [Host -> Files]
  BY DEF Init, Files, ClusterUsersAssumption
<1>4. Types
  <2>1. smb \in [Host -> [User -> Pw \cup {None}]] /\ call \in [Console -> Calls]
    BY <1>1, <1>2 DEF Init
  <2>2. /\ answer \in [Console -> {"", "ok", "error"}] /\ alone \subseteq Console
        /\ deaf \in [Console -> SUBSET Host] /\ left \in [Console -> 0..MaxCalls]
    <3>0. MaxCalls \in Nat
      BY DEF ClusterUsersAssumption
    <3>1. MaxCalls \in 0..MaxCalls
      BY <3>0
    <3> QED
      BY <3>1 DEF Init
  <2>3. Archived
    BY DEF Init, Archived
  <2> QED
    BY <1>3, <2>1, <2>2, <2>3 DEF Types
<1>5. Ordered /\ Lone /\ Spreading /\ OkIsEverywhere /\ SambaFollows
  BY <1>1, <1>2 DEF Init, Ordered, OrderedAt, Lone, Spreading, OkIsEverywhere, SambaFollows
<1>6. OneConsole
  BY <1>1, <1>2 DEF Init, OneConsole, At, Grouped, ClusterUsersAssumption
<1> QED
  BY <1>4, <1>5, <1>6 DEF UsersInv

\* What the commands of a call make of its host.
LEMMA LocalEffect ==
    ASSUME ClusterUsersAssumption, UsersInv, NEW c \in Console, LocalStep(c)
    PROVE  \E files \in Files, passwords \in [User -> Pw \cup {None}],
              next \in {"error", "pack", "send"} :
              /\ Local(c, files, passwords, next)
              /\ next = "pack" => call[c].op \in {"useradd", "userdel"}
              /\ next = "send" => call[c].op \notin {"useradd", "userdel"}
              /\ next = "pack" /\ call[c].op = "useradd" =>
                     /\ files.passwd[call[c].user] = call[c].group
                     /\ files.shadow[call[c].user] = call[c].pw
              /\ Grouped(etc[c]) => Grouped(files)
<1> USE DEF UsersInv, Types
<1> DEFINE d == call[c]
           e == etc[c]
           Good(files, passwords, next) ==
              /\ files \in Files /\ passwords \in [User -> Pw \cup {None}]
              /\ next \in {"error", "pack", "send"}
              /\ next = "pack" => d.op \in {"useradd", "userdel"}
              /\ next = "send" => d.op \notin {"useradd", "userdel"}
              /\ next = "pack" /\ d.op = "useradd" =>
                     files.passwd[d.user] = d.group /\ files.shadow[d.user] = d.pw
              /\ Grouped(e) => Grouped(files)
<1> SUFFICES \E files \in Files, passwords \in [User -> Pw \cup {None}],
                next \in {"error", "pack", "send"} :
                Local(c, files, passwords, next) /\ Good(files, passwords, next)
  OBVIOUS
<1>1. /\ d \in Calls /\ d.user \in User /\ d.group \in Group /\ d.pw \in Pw
      /\ e \in Files /\ smb[c] \in [User -> Pw \cup {None}] /\ d.group # None
  BY DEF Calls, ClusterUsersAssumption, None
<1>2. /\ e.passwd \in [User -> Group \cup {None}] /\ e.shadow \in [User -> Pw \cup {None, Locked}]
      /\ e.group \subseteq Group
  BY <1>1 DEF Files
<1>4. ASSUME NEW f \in Files, NEW s \in [User -> Pw \cup {None}],
             NEW n \in {"error", "pack", "send"},
             Good(f, s, n), Local(c, f, s, n)
      PROVE  \E files \in Files, passwords \in [User -> Pw \cup {None}],
                next \in {"error", "pack", "send"} :
                Local(c, files, passwords, next) /\ Good(files, passwords, next)
  BY <1>4
<1>5. CASE UserAdd(c)
  <2> DEFINE f == [e EXCEPT !.group = IF d.group = Default THEN @ ELSE @ \cup {d.group}]
             a == [f EXCEPT !.passwd[d.user] = d.group, !.shadow[d.user] = Locked]
             p == [a EXCEPT !.shadow[d.user] = d.pw]
             s == [smb[c] EXCEPT ![d.user] = d.pw]
  <2>1. f \in Files /\ Good(f, smb[c], "error")
    BY <1>1, <1>2 DEF Files, Grouped
  <2>2. /\ a \in Files /\ a.passwd = [e.passwd EXCEPT ![d.user] = d.group] /\ a.group = f.group
        /\ a.shadow = [e.shadow EXCEPT ![d.user] = Locked]
    BY <1>1, <1>2 DEF Files
  <2>3. /\ p \in Files /\ p.passwd = a.passwd /\ p.group = f.group
        /\ p.shadow = [a.shadow EXCEPT ![d.user] = d.pw]
    <3> HIDE DEF a
    <3> QED
      BY <1>1, <2>2 DEF Files
  <2>4. s \in [User -> Pw \cup {None}]
    BY <1>1
  <2>5. d.op = "useradd"
    BY <1>5 DEF UserAdd
  <2>6. ASSUME d.group \in f.group
        PROVE  Good(a, smb[c], "error") /\ Good(p, smb[c], "error") /\ Good(p, s, "pack")
    <3>1. \A x \in e.group : x \in f.group
      BY <1>1, <1>2 DEF Files
    <3> HIDE DEF a, p, f, s
    <3>2. p.shadow[d.user] = d.pw /\ p.passwd[d.user] = d.group
      BY <1>1, <1>2, <2>2, <2>3, ZenonT(60)
    <3>3. Grouped(e) => Grouped(a) /\ Grouped(p)
      <4> SUFFICES ASSUME Grouped(e), NEW u \in User, a.passwd[u] # None
                   PROVE  a.passwd[u] \in f.group
        BY <2>2, <2>3 DEF Grouped
      <4>1. a.passwd[u] = IF u = d.user THEN d.group ELSE e.passwd[u]
        BY <1>1, <1>2, <2>2
      <4> QED
        BY <2>6, <3>1, <4>1 DEF Grouped
    <3> QED
      BY <1>1, <2>2, <2>3, <2>4, <2>5, <3>2, <3>3
  <2>7. \/ Local(c, f, smb[c], "error")
        \/ d.group \in f.group /\ \/ Local(c, a, smb[c], "error")
                                  \/ Local(c, p, smb[c], "error")
                                  \/ Local(c, p, s, "pack")
    BY <1>5 DEF UserAdd
  <2> HIDE DEF Good, a, p, f, s
  <2> QED
    BY <1>1, <1>4, <2>1, <2>2, <2>3, <2>4, <2>6, <2>7 DEF Good
<1>6. CASE UserDel(c)
  <2> DEFINE f == [e EXCEPT !.passwd[d.user] = None, !.shadow[d.user] = None]
  <2>1. f \in Files /\ d.op = "userdel"
    BY <1>1, <1>2, <1>6 DEF Files, UserDel
  <2>2. Grouped(e) => Grouped(f)
    BY <1>1, <1>2 DEF Files, Grouped
  <2>3. PICK s \in {smb[c], [smb[c] EXCEPT ![d.user] = None]} :
           Local(c, f, s, "pack") \/ Local(c, e, s, "error")
    BY <1>6 DEF UserDel
  <2>4. s \in [User -> Pw \cup {None}]
    BY <1>1
  <2>5. Good(f, s, "pack") /\ Good(e, s, "error")
    <3> HIDE DEF f
    <3> QED
      BY <1>1, <2>1, <2>2, <2>4
  <2> HIDE DEF Good, f
  <2> QED
    <3>1. CASE Local(c, f, s, "pack")
      <4>1. f \in Files /\ s \in [User -> Pw \cup {None}] /\ Good(f, s, "pack")
        BY <2>1, <2>4, <2>5
      <4> QED
        BY <1>4, <3>1, <4>1
    <3>2. CASE Local(c, e, s, "error")
      <4>1. e \in Files /\ s \in [User -> Pw \cup {None}] /\ Good(e, s, "error")
        BY <1>1, <2>4, <2>5
      <4> QED
        BY <1>4, <3>2, <4>1
    <3> QED
      BY <2>3, <3>1, <3>2
<1>7. CASE Passwd(c)
  <2> DEFINE f == [e EXCEPT !.shadow[d.user] = d.pw]
  <2>1. f \in Files /\ (Grouped(e) => Grouped(f))
    BY <1>1, <1>2 DEF Files, Grouped
  <2>2. d.op = "passwd" /\ (Local(c, f, smb[c], "send") \/ Local(c, e, smb[c], "send"))
    BY <1>7 DEF Passwd
  <2>3. Good(f, smb[c], "send") /\ Good(e, smb[c], "send")
    <3> HIDE DEF f
    <3> QED
      BY <1>1, <2>1, <2>2
  <2> HIDE DEF Good, f
  <2> QED
    BY <1>1, <1>4, <2>1, <2>2, <2>3
<1>8. CASE UserMod(c)
  <2> DEFINE f == [e EXCEPT !.passwd[d.user] = d.group]
  <2>1. f \in Files
    BY <1>1, <1>2 DEF Files
  <2>2. /\ d.op = "usermod"
        /\ \/ d.group \in e.group /\ Local(c, f, smb[c], "send")
           \/ Local(c, e, smb[c], "error")
    BY <1>8 DEF UserMod, HasGroup
  <2>3. d.group \in e.group /\ Grouped(e) => Grouped(f)
    BY <1>1, <1>2 DEF Files, Grouped
  <2>4. Good(e, smb[c], "error") /\ (d.group \in e.group => Good(f, smb[c], "send"))
    <3> HIDE DEF f
    <3> QED
      BY <1>1, <2>1, <2>2, <2>3
  <2> HIDE DEF Good, f
  <2> QED
    <3>1. CASE Local(c, e, smb[c], "error")
      BY <1>1, <1>4, <2>4, <3>1
    <3>2. CASE d.group \in e.group /\ Local(c, f, smb[c], "send")
      <4>1. f \in Files /\ smb[c] \in [User -> Pw \cup {None}] /\ Good(f, smb[c], "send")
        BY <1>1, <2>1, <2>4, <3>2
      <4> QED
        BY <1>4, <3>2, <4>1
    <3> QED
      BY <2>2, <3>1, <3>2
<1>9. CASE GroupAdd(c)
  <2> DEFINE f == [e EXCEPT !.group = @ \cup {d.group}]
  <2>1. f \in Files /\ (Grouped(e) => Grouped(f))
    BY <1>1, <1>2 DEF Files, Grouped
  <2>2. d.op = "groupadd" /\ (Local(c, f, smb[c], "send") \/ Local(c, e, smb[c], "error"))
    BY <1>9 DEF GroupAdd
  <2>3. Good(f, smb[c], "send") /\ Good(e, smb[c], "error")
    <3> HIDE DEF f
    <3> QED
      BY <1>1, <2>1, <2>2
  <2> HIDE DEF Good, f
  <2> QED
    BY <1>1, <1>4, <2>1, <2>2, <2>3
<1>10. CASE GroupDel(c)
  <2> DEFINE f == [e EXCEPT !.group = @ \ {d.group}]
  <2>1. f \in Files
    BY <1>1, <1>2 DEF Files
  <2>2. /\ d.op = "groupdel"
        /\ \/ ~Primary(c, d.group) /\ Local(c, f, smb[c], "send")
           \/ Local(c, e, smb[c], "error")
    BY <1>10 DEF GroupDel
  <2>3. ~Primary(c, d.group) /\ Grouped(e) => Grouped(f)
    BY <1>1, <1>2 DEF Files, Grouped, Primary
  <2>4. Good(e, smb[c], "error") /\ (~Primary(c, d.group) => Good(f, smb[c], "send"))
    <3> HIDE DEF f
    <3> QED
      BY <1>1, <2>1, <2>2, <2>3
  <2> HIDE DEF Good, f
  <2> QED
    <3>1. CASE Local(c, e, smb[c], "error")
      BY <1>1, <1>4, <2>4, <3>1
    <3>2. CASE ~Primary(c, d.group) /\ Local(c, f, smb[c], "send")
      <4>1. f \in Files /\ smb[c] \in [User -> Pw \cup {None}] /\ Good(f, smb[c], "send")
        BY <1>1, <2>1, <2>4, <3>2
      <4> QED
        BY <1>4, <3>2, <4>1
    <3> QED
      BY <2>2, <3>1, <3>2
<1> HIDE DEF Good
<1> QED
  BY <1>5, <1>6, <1>7, <1>8, <1>9, <1>10 DEF LocalStep

\* A call that runs beside another one met it.
LEMMA OnlyOne ==
    ASSUME UsersInv, NEW c \in Console, ~At(c, "idle"), NEW e \in alone
    PROVE  e = c
  BY DEF UsersInv, Lone

\* A call that begins breaks nothing: it is alone if nobody else is busy.
LEMMA BeginKeeps ==
    ASSUME ClusterUsersAssumption, UsersInv, NEW c \in Console, NEW op \in Ops, NEW u \in User,
           NEW g \in Group, NEW p \in Pw, NEW more \in BOOLEAN, Begin(c, op, u, g, p, more)
    PROVE  UsersInv'
<1> DEFINE new == [op |-> op, user |-> u, group |-> g, pw |-> p, at |-> "local", more |-> more]
<1>1. /\ Types /\ Ordered /\ OneConsole /\ Lone
      /\ At(c, "idle") /\ left[c] > 0 /\ (more => op = "passwd")
      /\ call' = [call EXCEPT ![c] = new] /\ answer' = [answer EXCEPT ![c] = ""]
      /\ left' = [left EXCEPT ![c] = @ - 1] /\ deaf' = [deaf EXCEPT ![c] = {}]
      /\ alone' = IF Busy = {} THEN {c} ELSE {}
      /\ etc' = etc /\ smb' = smb /\ archive' = archive
  BY DEF Begin, UsersInv
<1>2. new \in Calls
  BY DEF Calls, Steps
<1>3. /\ new.at = "local" /\ new.op = op /\ (new.more => new.op = "passwd")
  BY <1>1
<1> HIDE DEF new
<1>4. call \in [Console -> Calls] /\ answer \in [Console -> {"", "ok", "error"}]
  BY <1>1 DEF Types
<1>5. /\ call'[c] = new /\ answer'[c] = ""
      /\ \A d \in Console : d # c => call'[d] = call[d] /\ answer'[d] = answer[d]
  BY <1>1, <1>4
<1>6. Types'
  <2>1. left' \in [Console -> 0..MaxCalls]
    <3>1. left \in [Console -> 0..MaxCalls] /\ MaxCalls \in Nat
      BY <1>1 DEF Types, ClusterUsersAssumption
    <3>2. left[c] - 1 \in 0..MaxCalls
      <4>1. left[c] \in 0..MaxCalls /\ MaxCalls \in Nat
        BY <3>1
      <4>2. left[c] > 0
        BY <1>1
      <4> QED
        BY <4>1, <4>2
    <3> QED
      BY <1>1, <3>1, <3>2
  <2>2. call' \in [Console -> Calls] /\ answer' \in [Console -> {"", "ok", "error"}]
    BY <1>1, <1>2, <1>4
  <2> QED
    BY <1>1, <2>1, <2>2 DEF Types, Archived
<1>7. Ordered'
  <2>1. \A d \in Console : OrderedAt(d)' = IF d = c THEN TRUE ELSE OrderedAt(d)
    <3> SUFFICES ASSUME NEW d \in Console PROVE OrderedAt(d)' = IF d = c THEN TRUE ELSE OrderedAt(d)
      OBVIOUS
    <3>1. CASE d = c
      BY <1>3, <1>5, <3>1 DEF OrderedAt
    <3>2. CASE d # c
      BY <1>5, <3>2 DEF OrderedAt
    <3> QED
      BY <3>1, <3>2
  <2> QED
    BY <1>1, <2>1 DEF Ordered
<1>8. Lone'
  BY <1>1, <1>5 DEF Lone, At, Busy
<1>9. OneConsole'
  <2> SUFFICES ASSUME NEW d \in Console, Console = {d}
               PROVE  (d \in alone' /\ Grouped(etc[d]))
    BY <1>1 DEF OneConsole, Grouped
  <2>1. d = c /\ Busy = {}
    BY <1>1 DEF Busy
  <2> QED
    BY <1>1, <2>1 DEF OneConsole
<1>10. Spreading' /\ OkIsEverywhere' /\ SambaFollows'
  BY <1>1, <1>3, <1>5 DEF Spreading, OkIsEverywhere, SambaFollows, At
<1> QED
  BY <1>6, <1>7, <1>8, <1>9, <1>10 DEF UsersInv

\* A step of a call that runs: its console's entries change, nobody else's.
LEMMA StepKeeps ==
    ASSUME UsersInv, NEW c \in Console, ~At(c, "idle"), alone' = alone,
           NEW new \in Calls, NEW r \in {"ok", "error"},
           call' = [call EXCEPT ![c] = new],
           answer' = IF new.at = "idle" THEN [answer EXCEPT ![c] = r] ELSE answer,
           new.at \in {"pack", "stage", "unpack"} => new.op \in {"useradd", "userdel"},
           new.at = "samba" => new.op \in {"useradd", "userdel", "passwd"},
           new.at = "send" => new.op \notin {"useradd", "userdel"},
           new.more => new.op = "passwd",
           c \in alone => (Grouped(etc[c]) => Grouped(etc'[c]))
    PROVE  /\ call' \in [Console -> Calls] /\ answer' \in [Console -> {"", "ok", "error"}]
           /\ call'[c] = new /\ answer'[c] = (IF new.at = "idle" THEN r ELSE "")
           /\ Ordered' /\ Lone' /\ OneConsole' /\ \A e \in alone : e = c
<1>1. /\ call \in [Console -> Calls] /\ answer \in [Console -> {"", "ok", "error"}]
      /\ Ordered /\ Lone /\ OneConsole
  BY DEF UsersInv, Types
<1>2. answer[c] = ""
  BY <1>1 DEF At, Ordered, OrderedAt
<1>3. /\ call' \in [Console -> Calls] /\ call'[c] = new
      /\ \A d \in Console : d # c => call'[d] = call[d]
  BY <1>1
<1>4. /\ answer' \in [Console -> {"", "ok", "error"}]
      /\ answer'[c] = (IF new.at = "idle" THEN r ELSE "")
  BY <1>1, <1>2
<1>5. \A d \in Console : d # c => answer'[d] = answer[d]
  BY <1>1
<1>6. \A e \in alone : e = c
  BY OnlyOne
<1>7. Ordered'
  <2> SUFFICES ASSUME NEW d \in Console PROVE OrderedAt(d)'
    BY DEF Ordered
  <2>1. CASE d = c
    BY <1>3, <1>4, <2>1 DEF OrderedAt
  <2>2. CASE d # c
    <3>1. OrderedAt(d)
      BY <1>1 DEF Ordered
    <3> QED
      BY <1>3, <1>5, <2>2, <3>1 DEF OrderedAt
  <2> QED
    BY <2>1, <2>2
<1>8. Lone'
  BY <1>1, <1>3, <1>6 DEF Lone, At
<1>9. OneConsole'
  <2> SUFFICES ASSUME NEW d \in Console, Console = {d}
               PROVE  d \in alone' /\ Grouped(etc'[d])
    BY DEF OneConsole, Grouped
  <2>1. d = c
    OBVIOUS
  <2> QED
    BY <1>1, <2>1 DEF OneConsole
<1> QED
  BY <1>3, <1>4, <1>6, <1>7, <1>8, <1>9

\* What is left to show of a step: the entries of the console that made it.
LEMMA SpreadingOfOne ==
    ASSUME NEW c \in Console, alone' = alone, \A e \in alone : e = c, NEW new, call'[c] = new,
           c \in alone /\ new.at = "stage" => archive'[c] = {etc'[c]},
           c \in alone /\ new.at = "unpack" => \A h \in Host : archive'[h] = {etc'[c]},
           c \in alone /\ new.at = "samba" =>
               \A h \in Host \ deaf'[c], f \in About(new.op) : etc'[h][f] = etc'[c][f],
           c \in alone /\ new.op = "useradd" /\ new.at \in {"pack", "stage", "unpack", "samba"} =>
               etc'[c].passwd[new.user] = new.group /\ etc'[c].shadow[new.user] = new.pw
    PROVE  Spreading'
  BY DEF Spreading, At

\* The same for what a call says at its end.
LEMMA EndsOfOne ==
    ASSUME NEW c \in Console, alone' = alone, \A e \in alone : e = c, NEW new, call'[c] = new,
           c \in alone /\ answer'[c] = "ok" =>
               \A h \in Host \ deaf'[c], f \in About(new.op) : etc'[h][f] = etc'[c][f],
           c \in alone /\ answer'[c] = "ok" /\ new.op \in {"useradd", "userdel"} =>
               \A h \in Host \ deaf'[c] :
                   smb'[h][new.user] = IF new.op = "useradd" THEN etc'[c].shadow[new.user] ELSE None
    PROVE  OkIsEverywhere' /\ SambaFollows'
  BY DEF OkIsEverywhere, SambaFollows

\* Goto changes where a call is, and nothing else about it.
LEMMA Moved ==
    ASSUME UsersInv, NEW c \in Console, NEW s \in Steps, Goto(c, s)
    PROVE  \E new \in Calls :
              /\ call' = [call EXCEPT ![c] = new]
              /\ new.at = s /\ new.op = call[c].op /\ new.user = call[c].user
              /\ new.group = call[c].group /\ new.pw = call[c].pw /\ new.more = call[c].more
<1>1. call \in [Console -> Calls] /\ call[c] \in Calls
  BY DEF UsersInv, Types
<1> DEFINE new == [call[c] EXCEPT !.at = s]
<1>2. /\ new \in Calls /\ new.at = s /\ new.op = call[c].op /\ new.user = call[c].user
      /\ new.group = call[c].group /\ new.pw = call[c].pw /\ new.more = call[c].more
  BY <1>1 DEF Calls
<1>3. call' = [call EXCEPT ![c] = new]
  BY <1>1 DEF Goto
<1> HIDE DEF new
<1> QED
  BY <1>2, <1>3

\* Nor do the commands on the console's own host.
LEMMA LocalKeeps ==
    ASSUME ClusterUsersAssumption, UsersInv, NEW c \in Console, LocalStep(c)
    PROVE  UsersInv'
<1>1. PICK files \in Files, passwords \in [User -> Pw \cup {None}],
           next \in {"error", "pack", "send"} :
          /\ Local(c, files, passwords, next)
          /\ next = "pack" => call[c].op \in {"useradd", "userdel"}
          /\ next = "send" => call[c].op \notin {"useradd", "userdel"}
          /\ next = "pack" /\ call[c].op = "useradd" =>
                 /\ files.passwd[call[c].user] = call[c].group
                 /\ files.shadow[call[c].user] = call[c].pw
          /\ Grouped(etc[c]) => Grouped(files)
  BY LocalEffect
<1> DEFINE to == IF next = "error" THEN "idle" ELSE next
<1>2. /\ Types /\ At(c, "local") /\ c \in Host
      /\ etc' = [etc EXCEPT ![c] = files] /\ smb' = [smb EXCEPT ![c] = passwords]
      /\ Goto(c, to) /\ archive' = archive /\ alone' = alone /\ deaf' = deaf /\ left' = left
      /\ answer' = IF to = "idle" THEN [answer EXCEPT ![c] = "error"] ELSE answer
  BY <1>1 DEF Local, End, UsersInv, ClusterUsersAssumption
<1>3. ~At(c, "idle") /\ (call[c].more => call[c].op = "passwd") /\ to \in {"idle", "pack", "send"}
  BY <1>2 DEF At, Ordered, OrderedAt, UsersInv
<1>4. to = "pack" <=> next = "pack"
  OBVIOUS
<1>5. to = "send" <=> next = "send"
  OBVIOUS
<1> HIDE DEF to
<1>6. /\ etc' \in [Host -> Files] /\ smb' \in [Host -> [User -> Pw \cup {None}]] /\ etc'[c] = files
  BY <1>2 DEF Types
<1>7. PICK new \in Calls :
              /\ call' = [call EXCEPT ![c] = new]
              /\ new.at = to /\ new.op = call[c].op /\ new.user = call[c].user
              /\ new.group = call[c].group /\ new.pw = call[c].pw /\ new.more = call[c].more
  BY <1>2, <1>3, Moved DEF Steps
<1>8. /\ call' \in [Console -> Calls] /\ answer' \in [Console -> {"", "ok", "error"}]
      /\ call'[c] = new /\ answer'[c] = (IF new.at = "idle" THEN "error" ELSE "")
      /\ Ordered' /\ Lone' /\ OneConsole' /\ \A e \in alone : e = c
  <2>1. /\ new.at \in {"pack", "stage", "unpack"} => new.op \in {"useradd", "userdel"}
        /\ new.at = "samba" => new.op \in {"useradd", "userdel", "passwd"}
        /\ new.at = "send" => new.op \notin {"useradd", "userdel"}
        /\ new.more => new.op = "passwd"
    BY <1>1, <1>3, <1>4, <1>5, <1>7
  <2>2. Grouped(etc[c]) => Grouped(etc'[c])
    BY <1>1, <1>6
  <2>3. answer' = IF new.at = "idle" THEN [answer EXCEPT ![c] = "error"] ELSE answer
    BY <1>2, <1>7
  <2> QED
    BY <1>2, <1>3, <1>7, <2>1, <2>2, <2>3, StepKeeps
<1>9. Types'
  BY <1>2, <1>6, <1>8 DEF Types, Archived
<1>10. Spreading'
  <2> SUFFICES ASSUME new.op = "useradd", new.at \in {"pack", "stage", "unpack", "samba"}
               PROVE  etc'[c].passwd[new.user] = new.group /\ etc'[c].shadow[new.user] = new.pw
    BY <1>2, <1>3, <1>7, <1>8, ZenonT(60) DEF Spreading, At
  <2> QED
    BY <1>1, <1>3, <1>4, <1>6, <1>7
<1>11. OkIsEverywhere' /\ SambaFollows'
  BY <1>2, <1>8 DEF OkIsEverywhere, SambaFollows
<1> QED
  BY <1>8, <1>9, <1>10, <1>11 DEF UsersInv

\* Nor does the archive that is made there,
LEMMA PackKeeps ==
    ASSUME ClusterUsersAssumption, UsersInv, NEW c \in Console, Pack(c)
    PROVE  UsersInv'
<1>1. /\ Types /\ At(c, "pack") /\ ~At(c, "idle") /\ c \in Host
      /\ etc' = etc /\ smb' = smb /\ alone' = alone /\ deaf' = deaf /\ left' = left
      /\ call[c].op \in {"useradd", "userdel"} /\ (call[c].more => call[c].op = "passwd")
  BY DEF Pack, UsersInv, At, Ordered, OrderedAt, ClusterUsersAssumption
<1>2. PICK to \in {"stage", "idle"} :
          /\ Goto(c, to)
          /\ answer' = IF to = "idle" THEN [answer EXCEPT ![c] = "error"] ELSE answer
          /\ archive' = IF to = "stage" THEN [archive EXCEPT ![c] = {etc[c]}] ELSE archive
  BY DEF Pack, End
<1>3. PICK new \in Calls :
              /\ call' = [call EXCEPT ![c] = new]
              /\ new.at = to /\ new.op = call[c].op /\ new.user = call[c].user
              /\ new.group = call[c].group /\ new.pw = call[c].pw /\ new.more = call[c].more
  BY <1>2, Moved DEF Steps
<1>4. /\ call' \in [Console -> Calls] /\ answer' \in [Console -> {"", "ok", "error"}]
      /\ call'[c] = new /\ answer'[c] = (IF new.at = "idle" THEN "error" ELSE "")
      /\ Ordered' /\ Lone' /\ OneConsole' /\ \A e \in alone : e = c
  BY <1>1, <1>2, <1>3, StepKeeps
<1>5. etc[c] \in Files
  BY <1>1 DEF Types
<1>6. Archived'
  <2>1. \A h \in Host : archive'[h] = archive[h] \/ archive'[h] = {etc[c]}
    BY <1>1, <1>2 DEF Types, Archived
  <2>2. archive' = [h \in Host |-> archive'[h]]
    BY <1>1, <1>2 DEF Types, Archived
  <2> QED
    BY <1>1, <1>5, <2>1, <2>2 DEF Types, Archived
<1>7. Types'
  BY <1>1, <1>4, <1>6 DEF Types
<1>8. Spreading'
  <2>1. new.at = "stage" => archive'[c] = {etc'[c]}
    BY <1>1, <1>2, <1>3 DEF Types, Archived
  <2>2. c \in alone /\ call[c].op = "useradd" =>
            etc[c].passwd[call[c].user] = call[c].group /\ etc[c].shadow[call[c].user] = call[c].pw
    BY <1>1 DEF UsersInv, Spreading, At
  <2> QED
    BY <1>1, <1>3, <1>4, <2>1, <2>2 DEF Spreading, At
<1>9. OkIsEverywhere' /\ SambaFollows'
  BY <1>1, <1>4 DEF OkIsEverywhere, SambaFollows
<1> QED
  BY <1>4, <1>7, <1>8, <1>9 DEF UsersInv

\* its copies on the other hosts,
LEMMA StageKeeps ==
    ASSUME ClusterUsersAssumption, UsersInv, NEW c \in Console, Stage(c)
    PROVE  UsersInv'
<1>1. /\ Types /\ At(c, "stage") /\ ~At(c, "idle") /\ c \in Host
      /\ etc' = etc /\ smb' = smb /\ alone' = alone /\ deaf' = deaf /\ left' = left
      /\ call[c].op \in {"useradd", "userdel"} /\ (call[c].more => call[c].op = "passwd")
  BY DEF Stage, UsersInv, At, Ordered, OrderedAt, ClusterUsersAssumption
<1>2. PICK got \in Reached, to \in {"unpack", "idle"} :
          /\ Goto(c, to) /\ (to = "unpack" => got = Host)
          /\ answer' = IF to = "idle" THEN [answer EXCEPT ![c] = "error"] ELSE answer
          /\ archive' = [h \in Host |-> IF h \in got THEN archive[c] ELSE archive[h]]
  <2>1. PICK got \in Reached :
          /\ archive' = [h \in Host |-> IF h \in got THEN archive[c] ELSE archive[h]]
          /\ IF got = Host THEN Goto(c, "unpack") /\ UNCHANGED answer ELSE End(c, "error")
    BY DEF Stage
  <2>2. CASE got = Host
    BY <2>1, <2>2
  <2>3. CASE got # Host
    BY <2>1, <2>3 DEF End
  <2> QED
    BY <2>2, <2>3
<1>3. PICK new \in Calls :
              /\ call' = [call EXCEPT ![c] = new]
              /\ new.at = to /\ new.op = call[c].op /\ new.user = call[c].user
              /\ new.group = call[c].group /\ new.pw = call[c].pw /\ new.more = call[c].more
  BY <1>2, Moved DEF Steps
<1>4. /\ call' \in [Console -> Calls] /\ answer' \in [Console -> {"", "ok", "error"}]
      /\ call'[c] = new /\ answer'[c] = (IF new.at = "idle" THEN "error" ELSE "")
      /\ Ordered' /\ Lone' /\ OneConsole' /\ \A e \in alone : e = c
  BY <1>1, <1>2, <1>3, StepKeeps
<1>5. Archived'
  <2>1. \A h \in Host : archive'[h] = archive[h] \/ archive'[h] = archive[c]
    BY <1>2
  <2> QED
    BY <1>1, <1>2, <2>1 DEF Types, Archived
<1>6. Types'
  BY <1>1, <1>4, <1>5 DEF Types
<1>7. Spreading'
  <2>1. c \in alone /\ new.at = "unpack" => \A h \in Host : archive'[h] = {etc'[c]}
    BY <1>1, <1>2, <1>3 DEF UsersInv, Spreading
  <2>2. c \in alone /\ call[c].op = "useradd" =>
            etc[c].passwd[call[c].user] = call[c].group /\ etc[c].shadow[call[c].user] = call[c].pw
    BY <1>1 DEF UsersInv, Spreading, At
  <2> QED
    BY <1>1, <1>3, <1>4, <2>1, <2>2, SpreadingOfOne, ZenonT(60)
<1>8. OkIsEverywhere' /\ SambaFollows'
  BY <1>1, <1>4 DEF OkIsEverywhere, SambaFollows
<1> QED
  BY <1>4, <1>6, <1>7, <1>8 DEF UsersInv

\* what is unpacked on those that do what they are told,
LEMMA UnpackKeeps ==
    ASSUME ClusterUsersAssumption, UsersInv, NEW c \in Console, Unpack(c)
    PROVE  UsersInv'
<1>1. /\ Types /\ At(c, "unpack") /\ ~At(c, "idle") /\ c \in Host
      /\ smb' = smb /\ alone' = alone /\ left' = left
      /\ call[c].op \in {"useradd", "userdel"} /\ (call[c].more => call[c].op = "passwd")
  BY DEF Unpack, UsersInv, At, Ordered, OrderedAt, ClusterUsersAssumption
<1>2. PICK did \in Reached, to \in {"samba", "idle"} :
          /\ Goto(c, to)
          /\ answer' = IF to = "idle" THEN [answer EXCEPT ![c] = "error"] ELSE answer
          /\ etc' = [h \in Host |-> IF h \in did /\ archive[h] # {}
                                    THEN CHOOSE f \in archive[h] : TRUE ELSE etc[h]]
          /\ archive' = [h \in Host |-> IF h \in did THEN {} ELSE archive[h]]
          /\ deaf' = [deaf EXCEPT ![c] = @ \cup (Host \ did)]
  BY DEF Unpack, End
<1>3. PICK new \in Calls :
              /\ call' = [call EXCEPT ![c] = new]
              /\ new.at = to /\ new.op = call[c].op /\ new.user = call[c].user
              /\ new.group = call[c].group /\ new.pw = call[c].pw /\ new.more = call[c].more
  BY <1>2, Moved DEF Steps
<1>4. /\ call' \in [Console -> Calls] /\ answer' \in [Console -> {"", "ok", "error"}]
      /\ call'[c] = new /\ answer'[c] = (IF new.at = "idle" THEN "error" ELSE "")
      /\ Ordered' /\ Lone' /\ OneConsole' /\ \A e \in alone : e = c
  <2>1. c \in alone => etc'[c] = etc[c]
    <3>1. c \in alone => archive[c] = {etc[c]}
      BY <1>1 DEF UsersInv, Spreading
    <3>2. \A x : (CHOOSE f \in {x} : TRUE) = x
      OBVIOUS
    <3> QED
      BY <1>1, <1>2, <3>1, <3>2
  <2>2. c \in alone => (Grouped(etc[c]) => Grouped(etc'[c]))
    BY <2>1
  <2> QED
    BY <1>1, <1>2, <1>3, <2>2, StepKeeps, ZenonT(60)
<1>5. etc' \in [Host -> Files]
  <2> SUFFICES ASSUME NEW h \in Host, archive[h] # {}
               PROVE  (CHOOSE f \in archive[h] : TRUE) \in Files
    BY <1>1, <1>2 DEF Types
  <2>1. PICK x \in Files : archive[h] = {x}
    BY <1>1 DEF Types, Archived
  <2> QED
    BY <2>1
<1>6. Archived'
  BY <1>1, <1>2 DEF Types, Archived
<1>7. deaf' \in [Console -> SUBSET Host] /\ Host \ deaf'[c] \subseteq did \cap (Host \ deaf[c])
  BY <1>1, <1>2 DEF Types
<1>8. Types'
  BY <1>1, <1>4, <1>5, <1>6, <1>7 DEF Types
<1>9. Spreading'
  <2> SUFFICES ASSUME c \in alone
               PROVE  /\ \A h \in Host \ deaf'[c], f \in About(new.op) : etc'[h][f] = etc'[c][f]
                      /\ new.op = "useradd" => /\ etc'[c].passwd[new.user] = new.group
                                               /\ etc'[c].shadow[new.user] = new.pw
    BY <1>1, <1>2, <1>3, <1>4, SpreadingOfOne
  <2>1. /\ \A h \in Host : archive[h] = {etc[c]}
        /\ call[c].op = "useradd" => /\ etc[c].passwd[call[c].user] = call[c].group
                                     /\ etc[c].shadow[call[c].user] = call[c].pw
    BY <1>1 DEF UsersInv, Spreading, At
  <2>2. \A x : (CHOOSE f \in {x} : TRUE) = x
    OBVIOUS
  <2>3. etc'[c] = etc[c] /\ \A h \in did \cap Host : etc'[h] = etc[c]
    BY <1>1, <1>2, <2>1, <2>2
  <2> QED
    BY <1>3, <1>7, <2>1, <2>3
<1>10. OkIsEverywhere' /\ SambaFollows'
  BY <1>1, <1>4 DEF OkIsEverywhere, SambaFollows
<1> QED
  BY <1>4, <1>8, <1>9, <1>10 DEF UsersInv

\* a file that is copied as it is,
LEMMA SendKeeps ==
    ASSUME ClusterUsersAssumption, UsersInv, NEW c \in Console, Send(c)
    PROVE  UsersInv'
<1> DEFINE f == Sent(call[c].op)
<1>1. /\ Types /\ At(c, "send") /\ ~At(c, "idle") /\ c \in Host
      /\ smb' = smb /\ archive' = archive /\ alone' = alone /\ left' = left
      /\ call[c].op \notin {"useradd", "userdel"} /\ (call[c].more => call[c].op = "passwd")
  BY DEF Send, UsersInv, At, Ordered, OrderedAt, ClusterUsersAssumption
<1>2. PICK got \in Reached :
          /\ etc' = [h \in Host |-> IF h \in got THEN [etc[h] EXCEPT ![f] = etc[c][f]] ELSE etc[h]]
          /\ \/ /\ got = Host \/ f # "group"
                /\ deaf' = [deaf EXCEPT ![c] = @ \cup (Host \ got)]
                /\ IF f = "shadow" THEN Goto(c, "samba") /\ UNCHANGED answer ELSE End(c, "ok")
             \/ got # Host /\ End(c, "error") /\ UNCHANGED deaf
  BY DEF Send
<1>3. f \in {"passwd", "shadow", "group"} /\ (f = "shadow" <=> call[c].op = "passwd")
  BY DEF Sent
<1>4. About(call[c].op) = {f}
  BY <1>1 DEF About
<1> HIDE DEF f
<1>5. etc[c] \in Files /\ \A h \in Host : etc[h] \in Files
  BY <1>1 DEF Types
<1>6. \A h \in Host : /\ [etc[h] EXCEPT ![f] = etc[c][f]] \in Files
                      /\ [etc[h] EXCEPT ![f] = etc[c][f]][f] = etc[c][f]
  <2> SUFFICES ASSUME NEW h \in Host
               PROVE  /\ [etc[h] EXCEPT ![f] = etc[c][f]] \in Files
                      /\ [etc[h] EXCEPT ![f] = etc[c][f]][f] = etc[c][f]
    OBVIOUS
  <2>1. CASE f = "passwd"
    BY <1>5, <2>1 DEF Files
  <2>2. CASE f = "shadow"
    BY <1>5, <2>2 DEF Files
  <2>3. CASE f = "group"
    BY <1>5, <2>3 DEF Files
  <2> QED
    BY <1>3, <2>1, <2>2, <2>3
<1>7. etc' \in [Host -> Files] /\ \A h \in got \cap Host : etc'[h][f] = etc[c][f]
  BY <1>2, <1>5, <1>6
<1>8. etc'[c] = etc[c]
  <2>1. [etc[c] EXCEPT ![f] = etc[c][f]] = etc[c]
    <3>1. CASE f = "passwd"
      BY <1>5, <3>1 DEF Files
    <3>2. CASE f = "shadow"
      BY <1>5, <3>2 DEF Files
    <3>3. CASE f = "group"
      BY <1>5, <3>3 DEF Files
    <3> QED
      BY <1>3, <3>1, <3>2, <3>3
  <2> QED
    BY <1>1, <1>2, <2>1
<1>9. PICK to \in {"samba", "idle"}, r \in {"ok", "error"} :
          /\ Goto(c, to) /\ (to = "samba" => f = "shadow")
          /\ answer' = IF to = "idle" THEN [answer EXCEPT ![c] = r] ELSE answer
          /\ \/ deaf' = [deaf EXCEPT ![c] = @ \cup (Host \ got)]
             \/ to = "idle" /\ r = "error" /\ deaf' = deaf
  <2>1. CASE End(c, "error") /\ deaf' = deaf
    BY <2>1 DEF End
  <2>2. CASE End(c, "ok") /\ deaf' = [deaf EXCEPT ![c] = @ \cup (Host \ got)]
    BY <2>2 DEF End
  <2>3. CASE f = "shadow" /\ Goto(c, "samba") /\ answer' = answer
             /\ deaf' = [deaf EXCEPT ![c] = @ \cup (Host \ got)]
    BY <2>3
  <2> QED
    BY <1>2, <2>1, <2>2, <2>3
<1>10. PICK new \in Calls :
              /\ call' = [call EXCEPT ![c] = new]
              /\ new.at = to /\ new.op = call[c].op /\ new.user = call[c].user
              /\ new.group = call[c].group /\ new.pw = call[c].pw /\ new.more = call[c].more
  BY <1>9, Moved DEF Steps
<1>11. /\ call' \in [Console -> Calls] /\ answer' \in [Console -> {"", "ok", "error"}]
       /\ call'[c] = new /\ answer'[c] = (IF new.at = "idle" THEN r ELSE "")
       /\ Ordered' /\ Lone' /\ OneConsole' /\ \A e \in alone : e = c
  <2>1. new.at = "samba" => new.op \in {"useradd", "userdel", "passwd"}
    BY <1>3, <1>9, <1>10
  <2> QED
    BY <1>1, <1>8, <1>9, <1>10, <2>1, StepKeeps
<1>12. /\ deaf' \in [Console -> SUBSET Host]
       /\ answer'[c] = "ok" \/ to = "samba" => Host \ deaf'[c] \subseteq got \cap Host
  <2>1. deaf \in [Console -> SUBSET Host]
    BY <1>1 DEF Types
  <2>2. CASE deaf' = [deaf EXCEPT ![c] = @ \cup (Host \ got)]
    BY <2>1, <2>2
  <2>3. CASE to = "idle" /\ r = "error" /\ deaf' = deaf
    BY <1>10, <1>11, <2>1, <2>3
  <2> QED
    BY <1>9, <2>2, <2>3
<1>13. Types'
  BY <1>1, <1>7, <1>11, <1>12 DEF Types, Archived
<1>14. Spreading'
  <2>1. new.at = "samba" =>
            \A h \in Host \ deaf'[c], x \in About(new.op) : etc'[h][x] = etc'[c][x]
    BY <1>4, <1>7, <1>8, <1>10, <1>12
  <2> QED
    BY <1>1, <1>9, <1>10, <1>11, <2>1, SpreadingOfOne
<1>15. OkIsEverywhere' /\ SambaFollows'
  <2>1. answer'[c] = "ok" =>
            \A h \in Host \ deaf'[c], x \in About(new.op) : etc'[h][x] = etc'[c][x]
    BY <1>4, <1>7, <1>8, <1>10, <1>12
  <2> QED
    <3>1. new.op \notin {"useradd", "userdel"} /\ alone' = alone
      BY <1>1, <1>10
    <3>2. call'[c] = new /\ \A e \in alone : e = c
      BY <1>11
    <3> QED
      BY <2>1, <3>1, <3>2, EndsOfOne
<1> QED
  BY <1>11, <1>13, <1>14, <1>15 DEF UsersInv

\* or the passwords of samba, which end the call or are followed by usermod.
LEMMA SambaKeeps ==
    ASSUME ClusterUsersAssumption, UsersInv, NEW c \in Console, Samba(c)
    PROVE  UsersInv'
<1>1. /\ Types /\ At(c, "samba") /\ ~At(c, "idle") /\ c \in Host /\ call[c] \in Calls
      /\ etc' = etc /\ archive' = archive /\ alone' = alone /\ left' = left
      /\ call[c].op \in {"useradd", "userdel", "passwd"} /\ (call[c].more => call[c].op = "passwd")
  BY DEF Samba, UsersInv, At, Ordered, OrderedAt, ClusterUsersAssumption, Types
<1>2. PICK did \in Reached :
          /\ smb' = [h \in Host |->
                         IF h \notin did THEN smb[h]
                         ELSE IF call[c].op = "userdel" THEN [smb[h] EXCEPT ![call[c].user] = None]
                         ELSE IF Has(h, call[c].user)
                         THEN [smb[h] EXCEPT ![call[c].user] = call[c].pw]
                         ELSE smb[h]]
          /\ deaf' = [deaf EXCEPT ![c] = @ \cup (Host \ did)]
  BY DEF Samba
<1>3. PICK new \in Calls, r \in {"ok", "error"} :
          /\ call' = [call EXCEPT ![c] = new]
          /\ answer' = IF new.at = "idle" THEN [answer EXCEPT ![c] = r] ELSE answer
          /\ new.user = call[c].user /\ new.group = call[c].group /\ new.pw = call[c].pw
          /\ \/ new.at = "idle" /\ new.op = call[c].op /\ new.more = call[c].more
             \/ new.at = "local" /\ new.op = "usermod" /\ ~new.more
  <2>1. CASE End(c, "ok") \/ End(c, "error")
    <3>1. PICK r \in {"ok", "error"} : Goto(c, "idle") /\ answer' = [answer EXCEPT ![c] = r]
      BY <2>1 DEF End
    <3>2. PICK new \in Calls :
              /\ call' = [call EXCEPT ![c] = new]
              /\ new.at = "idle" /\ new.op = call[c].op /\ new.user = call[c].user
              /\ new.group = call[c].group /\ new.pw = call[c].pw /\ new.more = call[c].more
      BY <3>1, Moved DEF Steps
    <3> QED
      BY <3>1, <3>2
  <2>2. CASE /\ UNCHANGED answer
             /\ call' = [call EXCEPT ![c].op = "usermod", ![c].at = "local", ![c].more = FALSE]
    <3> DEFINE new == [call[c] EXCEPT !.op = "usermod", !.at = "local", !.more = FALSE]
    <3>1. /\ new \in Calls /\ new.user = call[c].user /\ new.group = call[c].group
          /\ new.pw = call[c].pw /\ new.at = "local" /\ new.op = "usermod" /\ ~new.more
      BY <1>1 DEF Calls, Ops, Steps
    <3>2. call' = [call EXCEPT ![c] = new] /\ answer' = answer
      BY <1>1, <2>2 DEF Types
    <3> HIDE DEF new
    <3> QED
      BY <3>1, <3>2
  <2> QED
    BY <2>1, <2>2 DEF Samba
<1>4. /\ call' \in [Console -> Calls] /\ answer' \in [Console -> {"", "ok", "error"}]
      /\ call'[c] = new /\ answer'[c] = (IF new.at = "idle" THEN r ELSE "")
      /\ Ordered' /\ Lone' /\ OneConsole' /\ \A e \in alone : e = c
  <2>1. new.more => new.op = "passwd"
    BY <1>1, <1>3
  <2>2. new.at \in {"idle", "local"}
    BY <1>3
  <2>3. Grouped(etc[c]) => Grouped(etc'[c])
    BY <1>1
  <2> QED
    BY <1>1, <1>3, <2>1, <2>2, <2>3, StepKeeps
<1>5. /\ call[c].user \in User /\ call[c].pw \in Pw /\ etc \in [Host -> Files]
      /\ smb \in [Host -> [User -> Pw \cup {None}]] /\ deaf \in [Console -> SUBSET Host]
  BY <1>1 DEF Calls, Types
<1>6. smb' \in [Host -> [User -> Pw \cup {None}]]
  BY <1>2, <1>5
<1>7. deaf' \in [Console -> SUBSET Host] /\ Host \ deaf'[c] \subseteq did \cap (Host \ deaf[c])
  BY <1>2, <1>5
<1>8. Types'
  BY <1>1, <1>4, <1>6, <1>7 DEF Types, Archived
<1>9. Spreading'
  <2>1. new.at \notin {"pack", "stage", "unpack", "samba"}
    BY <1>3
  <2> QED
    BY <1>1, <1>4, <2>1, SpreadingOfOne
<1>10. OkIsEverywhere' /\ SambaFollows'
  <2> SUFFICES ASSUME c \in alone, answer'[c] = "ok", NEW h \in Host \ deaf'[c]
               PROVE  /\ \A x \in About(new.op) : etc'[h][x] = etc'[c][x]
                      /\ new.op \in {"useradd", "userdel"} =>
                             smb'[h][new.user] = IF new.op = "useradd" THEN etc'[c].shadow[new.user]
                                                 ELSE None
    <3>1. alone' = alone
      BY <1>1
    <3>2. call'[c] = new /\ \A e \in alone : e = c
      BY <1>4
    <3> QED
      BY <3>1, <3>2, EndsOfOne
  <2>1. new.op = call[c].op /\ new.user = call[c].user
    BY <1>3, <1>4
  <2>2. h \in did /\ h \in Host \ deaf[c]
    BY <1>7
  <2>3. \A x \in About(call[c].op) : etc[h][x] = etc[c][x]
    BY <1>1, <2>2 DEF UsersInv, Spreading
  <2>4. ASSUME call[c].op = "userdel"
        PROVE  smb'[h][call[c].user] = None
    BY <1>2, <1>5, <2>2, <2>4
  <2>5. ASSUME call[c].op = "useradd"
        PROVE  smb'[h][call[c].user] = etc'[c].shadow[call[c].user]
    <3>1. etc[c].passwd[call[c].user] = call[c].group /\ etc[c].shadow[call[c].user] = call[c].pw
      BY <1>1, <2>5 DEF UsersInv, Spreading, At
    <3>2. etc[h].passwd = etc[c].passwd
      BY <2>3, <2>5 DEF About
    <3>3. call[c].group # None
      BY <1>1 DEF Calls, ClusterUsersAssumption, None
    <3>4. Has(h, call[c].user)
      BY <3>1, <3>2, <3>3 DEF Has
    <3> QED
      BY <1>1, <1>2, <1>5, <2>2, <2>5, <3>1, <3>4
  <2> QED
    BY <1>1, <2>1, <2>3, <2>4, <2>5
<1> QED
  BY <1>4, <1>8, <1>9, <1>10 DEF UsersInv

\* No step breaks the invariant.
LEMMA UsersInvNext == ClusterUsersAssumption /\ UsersInv /\ [Next]_vars => UsersInv'
<1> SUFFICES ASSUME ClusterUsersAssumption, UsersInv, [Next]_vars PROVE UsersInv'
  OBVIOUS
<1>1. CASE UNCHANGED vars
  <2>1. /\ etc' = etc /\ smb' = smb /\ archive' = archive /\ call' = call /\ answer' = answer
        /\ alone' = alone /\ deaf' = deaf /\ left' = left
    BY <1>1 DEF vars
  <2>2. Types' /\ Ordered' /\ Lone'
    BY <2>1 DEF UsersInv, Types, Archived, Ordered, OrderedAt, Lone, At
  <2>3. OneConsole'
    BY <2>1 DEF UsersInv, OneConsole, Grouped, At
  <2>4. Spreading' /\ OkIsEverywhere' /\ SambaFollows'
    BY <2>1 DEF UsersInv, Spreading, OkIsEverywhere, SambaFollows, At
  <2> QED
    BY <2>2, <2>3, <2>4 DEF UsersInv
<1>2. CASE Next
  <2>1. PICK c \in Console :
            \/ \E op \in Ops, u \in User, g \in Group, p \in Pw, more \in BOOLEAN :
                   Begin(c, op, u, g, p, more)
            \/ LocalStep(c) \/ Pack(c) \/ Stage(c) \/ Unpack(c) \/ Samba(c) \/ Send(c)
    BY <1>2 DEF Next
  <2>2. CASE \E op \in Ops, u \in User, g \in Group, p \in Pw, more \in BOOLEAN :
                 Begin(c, op, u, g, p, more)
    BY <2>2, BeginKeeps
  <2> QED
    BY <2>1, <2>2, LocalKeeps, PackKeeps, StageKeeps, UnpackKeeps, SambaKeeps, SendKeeps
<1> QED
  BY <1>1, <1>2

\* The invariant holds throughout.
LEMMA UsersInvHolds == ASSUME ClusterUsersAssumption PROVE Spec => []UsersInv
<1>1. ClusterUsersAssumption
  OBVIOUS
<1>2. Init => UsersInv
  BY <1>1, UsersInvInit
<1>3. UsersInv /\ [Next]_vars => UsersInv'
  BY <1>1, UsersInvNext
<1> QED
  BY <1>2, <1>3, PTL DEF Spec

\* The files, calls and archives have their types; an archive is there once.
THEOREM UsersTypeHolds == ASSUME ClusterUsersAssumption PROVE Spec => []TypeOK
<1>1. UsersInv => TypeOK
  BY TypesOK DEF UsersInv
<1> QED
  BY <1>1, UsersInvHolds, PTL

\* A call that succeeded, and that no other one met, left the files of the
\* console on every host that did what it was told, whatever failed before.
THEOREM OkIsEverywhereHolds == ASSUME ClusterUsersAssumption PROVE Spec => []OkIsEverywhere
<1>1. UsersInv => OkIsEverywhere
  BY DEF UsersInv
<1> QED
  BY <1>1, UsersInvHolds, PTL

\* It gave the user the same password for samba there, or none.
THEOREM SambaFollowsHolds == ASSUME ClusterUsersAssumption PROVE Spec => []SambaFollows
<1>1. UsersInv => SambaFollows
  BY DEF UsersInv
<1> QED
  BY <1>1, UsersInvHolds, PTL

\* Where commands run on one host only, the group of a user is there.
THEOREM GroupsAreThereHolds == ASSUME ClusterUsersAssumption PROVE Spec => []GroupsAreThere
<1>1. ASSUME UsersInv PROVE GroupsAreThere
  <2> SUFFICES ASSUME NEW c \in Console, Cardinality(Console) = 1 PROVE Grouped(etc[c])
    BY DEF GroupsAreThere, Grouped, Has
  <2>1. IsFiniteSet(Console)
    BY FS_Subset DEF ClusterUsersAssumption
  <2>2. \E d : Console = {d}
    BY <2>1, FS_Singleton
  <2>3. Console = {c}
    BY <2>2
  <2> QED
    BY <1>1, <2>3 DEF UsersInv, OneConsole
<1> QED
  BY <1>1, UsersInvHolds, PTL

-----------------------------------------------------------------------------
(* Files that salt copies.  What a host has is whole because every copy,   *)
(* also one still to come (LateIsWhole), was whole when it was sent, and   *)
(* a call gets to its copy only with a number of every node (Collected).   *)

\* What is still to be copied is whole as well.
LateIsWhole == \A j \in late : \A m, n \in Node : j[2][m] = j[2][n]

\* A call that found no error has the numbers of all nodes it looked at; while it
\* runs it has returned nothing.
Collected ==
    \A c \in Console :
        /\ sncall[c] = "scan" /\ ~error[c] => serials[c] \cup unread[c] = Node
        /\ sncall[c] \in {"append", "copy"} => serials[c] = Node
        /\ sncall[c] \in {"scan", "append", "copy"} => ret[c] = "none"

RemoteInv ==
    /\ Remote!TypeOK /\ Remote!CallsAreWhole /\ LateIsWhole /\ Collected
    /\ Remote!OkIsComplete /\ installed = {}

\* The invariant holds in every initial state.
LEMMA RemoteInvInit == Remote!RemoteAssumption /\ Remote!Init => RemoteInv
  BY DEF Remote!RemoteAssumption, Remote!Init, RemoteInv, Remote!TypeOK,
         Remote!CallsAreWhole, LateIsWhole, Collected, Remote!OkIsComplete,
         Remote!File, Remote!Empty

\* No step of a call, of a host or of the copy with rollback breaks it.
LEMMA RemoteInvNext ==
    ASSUME Remote!RemoteAssumption, RemoteInv, [Remote!Next]_(Remote!vars)
    PROVE  RemoteInv'
<1> USE DEF Remote!RemoteAssumption, RemoteInv, Remote!TypeOK, Remote!CallsAreWhole,
            LateIsWhole, Collected, Remote!OkIsComplete,
           Remote!record, Remote!copy
<1>1. ASSUME NEW c \in Console, Remote!Call(c) PROVE RemoteInv'
  BY <1>1 DEF Remote!Call
<1>2. ASSUME NEW c \in Console, NEW n \in Node, Remote!Look(c, n) PROVE RemoteInv'
  <2>1. PICK ok \in BOOLEAN :
           /\ cached' \subseteq Node
           /\ serials' = IF ok THEN [serials EXCEPT ![c] = @ \cup {n}] ELSE serials
           /\ error' = [error EXCEPT ![c] = @ \/ ~ok]
           /\ sncall' = sncall \/ sncall' = [sncall EXCEPT ![c] = "raised"]
    BY <1>2 DEF Remote!Look, Remote!Serial
  <2>2. /\ UNCHANGED <<sn, late, ret, roll, retcode, staged, installed>> /\ sncall[c] = "scan"
        /\ unread' = [unread EXCEPT ![c] = @ \ {n}] /\ n \in unread[c]
    BY <1>2 DEF Remote!Look
  <2>3. Remote!TypeOK' /\ Remote!CallsAreWhole' /\ LateIsWhole' /\ installed' = {}
    BY <2>1, <2>2
  <2>4. ASSUME NEW d \in Console, d # c
        PROVE  /\ sncall'[d] = sncall[d] /\ serials'[d] = serials[d]
               /\ error'[d] = error[d] /\ unread'[d] = unread[d]
    BY <2>1, <2>2, <2>4
  <2>5. sncall'[c] = "scan" /\ ~error'[c] => serials'[c] \cup unread'[c] = Node
    <3> SUFFICES ASSUME ~error'[c] PROVE serials'[c] \cup unread'[c] = Node
      OBVIOUS
    <3>1. ok /\ ~error[c]
      BY <2>1
    <3>2. serials'[c] = serials[c] \cup {n} /\ unread'[c] = unread[c] \ {n}
      BY <2>1, <2>2, <3>1
    <3>3. serials[c] \cup unread[c] = Node
      BY <2>2, <3>1
    <3> QED
      BY <2>2, <3>2, <3>3
  <2>6. ret'[c] = "none" /\ sncall'[c] \in {"scan", "raised"}
    BY <2>1, <2>2
  <2> HIDE DEF RemoteInv, Remote!TypeOK, Remote!CallsAreWhole, LateIsWhole
  <2>7. Collected' /\ Remote!OkIsComplete'
    BY <2>2, <2>4, <2>5, <2>6 DEF RemoteInv
  <2> QED
    BY <2>3, <2>7 DEF RemoteInv
<1>3. ASSUME NEW c \in Console, Remote!Decide(c) PROVE RemoteInv'
  <2>1. /\ UNCHANGED <<sn, cached, late, unread, serials, error, roll, retcode, staged, installed>>
        /\ sncall[c] = "scan" /\ unread[c] = {}
    BY <1>3 DEF Remote!Decide
  <2>2. CASE /\ error[c] /\ ret' = [ret EXCEPT ![c] = "error"]
             /\ sncall' = [sncall EXCEPT ![c] = "idle"]
    BY <2>1, <2>2
  <2>3. CASE ~error[c] /\ ret' = ret /\ sncall' = [sncall EXCEPT ![c] = "append"]
    <3>1. serials[c] = Node /\ ret[c] = "none"
      BY <2>1, <2>3
    <3>2. sncall'[c] = "append" /\ \A d \in Console : d # c => sncall'[d] = sncall[d]
      BY <2>3
    <3>3. Remote!TypeOK' /\ Remote!CallsAreWhole' /\ LateIsWhole' /\ installed' = {}
      BY <2>1, <2>3
    <3> HIDE DEF RemoteInv, Remote!TypeOK, Remote!CallsAreWhole, LateIsWhole
    <3> QED
      BY <2>1, <2>3, <3>1, <3>2, <3>3 DEF RemoteInv
  <2> QED
    BY <1>3, <2>2, <2>3 DEF Remote!Decide
<1>4. ASSUME NEW c \in Console, Remote!AppendLines(c) PROVE RemoteInv'
  BY <1>4 DEF Remote!AppendLines, Remote!File
<1>5. ASSUME NEW c \in Console, Remote!CopyOut(c) PROVE RemoteInv'
  BY <1>5 DEF Remote!CopyOut
<1>6. ASSUME NEW j \in late, Remote!CopyLate(j[1], j[2]) PROVE RemoteInv'
  BY <1>6 DEF Remote!CopyLate
<1>7. CASE Remote!CopyFile \/ Remote!Evaluate
  BY <1>7 DEF Remote!CopyFile, Remote!Evaluate
<1>8. CASE UNCHANGED Remote!vars
  BY <1>8 DEF Remote!vars
<1> QED
  BY <1>1, <1>2, <1>3, <1>4, <1>5, <1>6, <1>7, <1>8 DEF Remote!Next

\* The invariant holds throughout.
LEMMA RemoteInvHolds ==
    ASSUME Remote!RemoteAssumption
    PROVE  Remote!Spec => []RemoteInv
<1>1. Remote!Init => RemoteInv
  BY RemoteInvInit
<1>2. RemoteInv /\ [Remote!Next]_(Remote!vars) => RemoteInv'
  BY RemoteInvNext
<1> QED
  BY <1>1, <1>2, PTL DEF Remote!Spec

\* The variables of the copies have their types.
THEOREM RemoteTypeHolds ==
    ASSUME Remote!RemoteAssumption
    PROVE  Remote!Spec => []Remote!TypeOK
<1>1. RemoteInv => Remote!TypeOK
  BY DEF RemoteInv
<1> QED
  BY <1>1, RemoteInvHolds, PTL

\* The nodes of a call get their lines together or not at all, on every host,
\* whatever fails, arrives late or is overwritten.
THEOREM CallsAreWholeHolds ==
    ASSUME Remote!RemoteAssumption
    PROVE  Remote!Spec => []Remote!CallsAreWhole
<1>1. RemoteInv => Remote!CallsAreWhole
  BY DEF RemoteInv
<1> QED
  BY <1>1, RemoteInvHolds, PTL

\* A call that returned success had a serial number of every node.
THEOREM OkIsCompleteHolds ==
    ASSUME Remote!RemoteAssumption
    PROVE  Remote!Spec => []Remote!OkIsComplete
<1>1. RemoteInv => Remote!OkIsComplete
  BY DEF RemoteInv
<1> QED
  BY <1>1, RemoteInvHolds, PTL

\* Nothing is moved to its destination by a call that does not return True.
THEOREM FailureInstallsNothingHolds ==
    ASSUME Remote!RemoteAssumption
    PROVE  Remote!Spec => []Remote!FailureInstallsNothing
<1>1. RemoteInv => Remote!FailureInstallsNothing
  BY DEF RemoteInv, Remote!FailureInstallsNothing
<1> QED
  BY <1>1, RemoteInvHolds, PTL

-----------------------------------------------------------------------------
(* The balancing.  Which weights may be changed depends on what a task has *)
(* passed so far (Passing) and on the disks it counted (Granted), not on   *)
(* those that are there when it runs the script.                           *)

\* The component counts as this module does.
LEMMA SameCount ==
    /\ \A S : Balance!Cardinality(S) = Cardinality(S)
    /\ \A S : Balance!IsFiniteSet(S) <=> IsFiniteSet(S)
  BY DEF Balance!Cardinality, Cardinality, Balance!IsFiniteSet, IsFiniteSet

\* Steps of a task before its weights are changed.
Before == {"count", "query", "compare", "weigh", "lock", "commit", "enable", "refused"}

\* Each node is a host of the pool, so the nodes are compared.
NodesAreHosts == Parts = Cardinality(Node)

\* How far a task is and what it has passed.
Passing ==
    /\ \A t \in Balance!Task : task[t] \in Before => reweighs[t] = 0
    /\ \A t \in Balance!Task : task[t] = "again" => t \in Replicated /\ reweighs[t] <= 1
    /\ \A t \in Balance!Task : task[t] = "script" => reweighs[t] = 0
    /\ \A t \in Erasure : reweighs[t] <= 1
    /\ \A t \in Replicated : NodesAreHosts =>
          /\ task[t] = "weigh" => "disks" \in passed[t]
          /\ task[t] \in {"lock", "commit", "enable", "script", "again"} \/ reweighs[t] > 0
                => passed[t] = {"disks", "weights"}

\* What 4+2:1 found before it went on, and who has the lock.
Granted ==
    /\ \A t \in Erasure : StrictPool /\ task[t] \notin {"count", "refused"} => least[t] >= MinDisks
    /\ holder # Nobody => task[holder] = "commit"

BalanceInv == Balance!TypeOK /\ Passing /\ Granted

\* The invariant holds in every initial state.
LEMMA BalanceInvInit ==
    Balance!BalanceAssumption /\ Balance!Init => Balance!TypeOK /\ Passing /\ Granted
  BY DEF Balance!BalanceAssumption, Balance!Init, Balance!TypeOK, Passing, Granted, Before,
         Balance!Task

\* A set of numbers that is not empty has a least one.
LEMMA LeastNumber ==
    ASSUME NEW T \in SUBSET Nat, T # {}
    PROVE  \E n \in T : \A m \in T : n <= m
<1> DEFINE R == {ss \in Nat \X Nat : ss[1] < ss[2]}
<1>1. IsWellFoundedOn(R, Nat)
  BY NatLessThanWellFounded DEF OpToRel
<1>2. PICK x \in T : \A y \in T : ~ (<<y, x>> \in R)
  <2> HIDE DEF R
  <2> QED
    BY <1>1, WFMin
<1>3. ASSUME NEW y \in T PROVE x <= y
  <2>1. x \in Nat /\ y \in Nat
    OBVIOUS
  <2>2. y < x => <<y, x>> \in R
    <3>1. ASSUME y < x PROVE <<y, x>>[1] < <<y, x>>[2]
      BY <3>1
    <3>2. <<y, x>> \in Nat \X Nat
      BY <2>1
    <3> QED
      BY <3>1, <3>2
  <2> HIDE DEF R
  <2> QED
    BY <1>2, <2>1, <2>2
<1> QED
  BY <1>3

\* The least number of disks is one of a node.
LEMMA LeastIsThere == Balance!BalanceAssumption /\ Balance!TypeOK => Balance!Least \in 0..MaxDisks
<1> SUFFICES ASSUME Balance!BalanceAssumption, Balance!TypeOK PROVE Balance!Least \in 0..MaxDisks
  OBVIOUS
<1> DEFINE D == {disks[n] : n \in Node}
<1>1. /\ D # {} /\ D \in SUBSET Nat /\ D \subseteq 0..MaxDisks
      /\ \A d \in D : (\A n \in Node : d <= disks[n]) <=> (\A e \in D : d <= e)
  BY DEF Balance!BalanceAssumption, Balance!TypeOK
<1>2. Balance!Least = CHOOSE d \in D : \A n \in Node : d <= disks[n]
  BY DEF Balance!Least
<1>3. \E d \in D : \A n \in Node : d <= disks[n]
  <2>1. \E d \in D : \A e \in D : d <= e
    <3> HIDE DEF D
    <3> QED
      BY <1>1, LeastNumber
  <2> QED
    BY <1>1, <2>1
<1>4. Balance!Least \in D
  BY <1>2, <1>3
<1> QED
  BY <1>1, <1>4

\* No step breaks the types,
LEMMA BalanceTypeNext ==
    ASSUME Balance!BalanceAssumption, BalanceInv, [Balance!Next]_(Balance!vars)
    PROVE  Balance!TypeOK'
<1> USE DEF BalanceInv, Balance!BalanceAssumption, Balance!cluster, Balance!locals,
            Balance!effects
<1>1. ASSUME NEW t \in Balance!Task, Balance!CountDisks(t) PROVE Balance!TypeOK'
  BY <1>1, LeastIsThere DEF Balance!CountDisks, Balance!AskDisks, Balance!Go, Balance!TypeOK
<1>2. ASSUME NEW t \in Balance!Task, Balance!Query(t) PROVE Balance!TypeOK'
  BY <1>2 DEF Balance!Query, Balance!Go, Balance!TypeOK, Passing, Before, Balance!Task
<1>3. ASSUME NEW t \in Balance!Task, Balance!CompareDisks(t) PROVE Balance!TypeOK'
  BY <1>3, LeastIsThere DEF Balance!CompareDisks, Balance!AskDisks, Balance!Go,
                            Balance!TypeOK
<1>4. ASSUME NEW t \in Balance!Task, Balance!CompareWeights(t) PROVE Balance!TypeOK'
  BY <1>4 DEF Balance!CompareWeights, Balance!Go, Balance!TypeOK, Passing, Before,
              Balance!Task
<1>5. ASSUME NEW t \in Balance!Task, Balance!Lock(t) PROVE Balance!TypeOK'
  BY <1>5 DEF Balance!Lock, Balance!Go, Balance!TypeOK, Passing, Before, Balance!Task
<1>6. ASSUME NEW t \in Balance!Task, Balance!Commit(t) PROVE Balance!TypeOK'
  BY <1>6, ZenonT(60) DEF Balance!Commit, Balance!Start, Balance!Works, Balance!Go, Balance!TypeOK,
              Passing, Before, Balance!Task
<1>7. ASSUME NEW t \in Balance!Task, Balance!Enable(t) PROVE Balance!TypeOK'
  BY <1>7 DEF Balance!Enable, Balance!Works, Balance!Go, Balance!TypeOK, Passing, Before,
              Balance!Task
<1>8. ASSUME NEW t \in Balance!Task, Balance!Script(t) PROVE Balance!TypeOK'
  BY <1>8 DEF Balance!Script, Balance!Reweight, Balance!Twice, Balance!Go, Balance!TypeOK,
              Passing, Before, Balance!Task
<1>9. ASSUME NEW t \in Balance!Task, Balance!Again(t) PROVE Balance!TypeOK'
  BY <1>9 DEF Balance!Again, Balance!Reweight, Balance!Go, Balance!TypeOK, Passing, Before,
              Balance!Task
<1>10. ASSUME NEW n \in Node, Balance!DiskChanges(n) PROVE Balance!TypeOK'
  BY <1>10 DEF Balance!DiskChanges, Balance!TypeOK, Passing, Before, Balance!Task
<1>11. CASE UNCHANGED Balance!vars
  BY <1>11 DEF Balance!vars, Balance!TypeOK, Passing, Before, Balance!Task
<1> QED
  BY <1>1, <1>2, <1>3, <1>4, <1>5, <1>6, <1>7, <1>8, <1>9, <1>10, <1>11
     DEF Balance!Next, Balance!Step

\* what was passed before the weights were changed,
LEMMA PassingNext ==
    ASSUME Balance!BalanceAssumption, BalanceInv, [Balance!Next]_(Balance!vars)
    PROVE  Passing'
<1> USE DEF BalanceInv, Balance!BalanceAssumption, Balance!cluster, Balance!locals,
            Balance!effects
<1>1. ASSUME NEW t \in Balance!Task, Balance!CountDisks(t) PROVE Passing'
  BY <1>1 DEF Balance!CountDisks, Balance!AskDisks, Balance!Go, Balance!TypeOK, Passing,
              Before, Balance!Task, Granted
<1>2. ASSUME NEW t \in Balance!Task, Balance!Query(t) PROVE Passing'
  <2>1. Cardinality(Node) * 1 = Cardinality(Node)
    <3>1. Cardinality(Node) \in Nat
      BY SameCount, FS_CardinalityType
    <3> QED
      BY <3>1
  <2>2. ASSUME t \in Replicated, NodesAreHosts
        PROVE  task'[t] \in {"compare", "refused"}
    BY <1>2, <2>1, <2>2, SameCount DEF Balance!Query, Balance!Go, NodesAreHosts, Balance!TypeOK,
                            Balance!Task
  <2>3. /\ UNCHANGED <<reweighs, passed>> /\ task[t] = "query"
        /\ task'[t] \in {"refused", "compare", "lock"}
        /\ \A u \in Balance!Task : u # t => task'[u] = task[u]
    BY <1>2 DEF Balance!Query, Balance!Go, Balance!TypeOK
  <2> HIDE DEF Balance!BalanceAssumption, Balance!cluster, Balance!effects
  <2> QED
    BY <2>2, <2>3 DEF Passing, Before, Balance!Task
<1>3. ASSUME NEW t \in Balance!Task, Balance!CompareDisks(t) PROVE Passing'
  BY <1>3 DEF Balance!CompareDisks, Balance!AskDisks, Balance!Go, Balance!TypeOK, Passing,
              Before, Balance!Task, Granted
<1>4. ASSUME NEW t \in Balance!Task, Balance!CompareWeights(t) PROVE Passing'
  BY <1>4 DEF Balance!CompareWeights, Balance!Go, Balance!TypeOK, Passing, Before,
              Balance!Task, Granted
<1>5. ASSUME NEW t \in Balance!Task, Balance!Lock(t) PROVE Passing'
  BY <1>5 DEF Balance!Lock, Balance!Go, Balance!TypeOK, Passing, Before, Balance!Task,
              Granted
<1>6. ASSUME NEW t \in Balance!Task, Balance!Commit(t) PROVE Passing'
  BY <1>6 DEF Balance!Commit, Balance!Start, Balance!Works, Balance!Go, Balance!TypeOK,
              Passing, Before, Balance!Task, Granted
<1>7. ASSUME NEW t \in Balance!Task, Balance!Enable(t) PROVE Passing'
  BY <1>7 DEF Balance!Enable, Balance!Works, Balance!Go, Balance!TypeOK, Passing, Before,
              Balance!Task, Granted
<1>8. ASSUME NEW t \in Balance!Task, Balance!Script(t) PROVE Passing'
  BY <1>8 DEF Balance!Script, Balance!Reweight, Balance!Twice, Balance!Go, Balance!TypeOK,
              Passing, Before, Balance!Task, Granted
<1>9. ASSUME NEW t \in Balance!Task, Balance!Again(t) PROVE Passing'
  BY <1>9 DEF Balance!Again, Balance!Reweight, Balance!Go, Balance!TypeOK, Passing, Before,
              Balance!Task, Granted
<1>10. ASSUME NEW n \in Node, Balance!DiskChanges(n) PROVE Passing'
  BY <1>10 DEF Balance!DiskChanges, Balance!TypeOK, Passing, Before, Balance!Task, Granted
<1>11. CASE UNCHANGED Balance!vars
  BY <1>11 DEF Balance!vars, Balance!TypeOK, Passing, Before, Balance!Task, Granted
<1> QED
  BY <1>1, <1>2, <1>3, <1>4, <1>5, <1>6, <1>7, <1>8, <1>9, <1>10, <1>11
     DEF Balance!Next, Balance!Step

\* or who has the lock and how many disks were found.
LEMMA GrantedNext ==
    ASSUME Balance!BalanceAssumption, BalanceInv, [Balance!Next]_(Balance!vars)
    PROVE  Granted'
<1> USE DEF BalanceInv, Balance!BalanceAssumption, Balance!cluster, Balance!locals,
            Balance!effects
<1>1. ASSUME NEW t \in Balance!Task, Balance!CountDisks(t) PROVE Granted'
  <2>1. least'[t] \in Nat /\ MinDisks \in Nat
    BY BalanceTypeNext DEF Balance!TypeOK
  <2> QED
    BY <1>1, <2>1 DEF Balance!CountDisks, Balance!AskDisks, Balance!Go, Balance!TypeOK,
                      Granted, Balance!Task
<1>2. ASSUME NEW t \in Balance!Task, Balance!Query(t) PROVE Granted'
  BY <1>2 DEF Balance!Query, Balance!Go, Balance!TypeOK, Granted, Balance!Task
<1>3. ASSUME NEW t \in Balance!Task, Balance!CompareDisks(t) PROVE Granted'
  BY <1>3 DEF Balance!CompareDisks, Balance!AskDisks, Balance!Go, Balance!TypeOK, Granted,
              Balance!Task
<1>4. ASSUME NEW t \in Balance!Task, Balance!CompareWeights(t) PROVE Granted'
  BY <1>4 DEF Balance!CompareWeights, Balance!Go, Balance!TypeOK, Granted, Balance!Task
<1>5. ASSUME NEW t \in Balance!Task, Balance!Lock(t) PROVE Granted'
  BY <1>5 DEF Balance!Lock, Balance!Go, Balance!TypeOK, Granted, Balance!Task
<1>6. ASSUME NEW t \in Balance!Task, Balance!Commit(t) PROVE Granted'
  BY <1>6 DEF Balance!Commit, Balance!Start, Balance!Works, Balance!Go, Balance!TypeOK,
              Granted, Balance!Task
<1>7. ASSUME NEW t \in Balance!Task, Balance!Enable(t) PROVE Granted'
  BY <1>7 DEF Balance!Enable, Balance!Works, Balance!Go, Balance!TypeOK, Granted,
              Balance!Task
<1>8. ASSUME NEW t \in Balance!Task, Balance!Script(t) PROVE Granted'
  BY <1>8 DEF Balance!Script, Balance!Reweight, Balance!Twice, Balance!Go, Balance!TypeOK,
              Granted, Balance!Task
<1>9. ASSUME NEW t \in Balance!Task, Balance!Again(t) PROVE Granted'
  BY <1>9 DEF Balance!Again, Balance!Reweight, Balance!Go, Balance!TypeOK, Granted,
              Balance!Task
<1>10. ASSUME NEW n \in Node, Balance!DiskChanges(n) PROVE Granted'
  BY <1>10 DEF Balance!DiskChanges, Balance!TypeOK, Granted, Balance!Task
<1>11. CASE UNCHANGED Balance!vars
  BY <1>11 DEF Balance!vars, Balance!TypeOK, Granted, Balance!Task
<1> QED
  BY <1>1, <1>2, <1>3, <1>4, <1>5, <1>6, <1>7, <1>8, <1>9, <1>10, <1>11
     DEF Balance!Next, Balance!Step

\* The invariant holds throughout.
LEMMA BalanceInvHolds ==
    ASSUME Balance!BalanceAssumption
    PROVE  Balance!Spec => []BalanceInv
<1>1. Balance!Init => BalanceInv
  BY BalanceInvInit DEF BalanceInv
<1>2. BalanceInv /\ [Balance!Next]_(Balance!vars) => BalanceInv'
  BY BalanceTypeNext, PassingNext, GrantedNext DEF BalanceInv
<1> QED
  BY <1>1, <1>2, PTL DEF Balance!Spec

\* The variables of the balancing have their types.
THEOREM BalanceTypeHolds ==
    ASSUME Balance!BalanceAssumption
    PROVE  Balance!Spec => []Balance!TypeOK
<1>1. BalanceInv => Balance!TypeOK
  BY DEF BalanceInv
<1> QED
  BY <1>1, BalanceInvHolds, PTL

\* Whatever fails, a replicated pool with a part on every node is reweighted only
\* after both comparisons passed.
THEOREM ReplicatedIsComparedHolds ==
    ASSUME Balance!BalanceAssumption
    PROVE  Balance!Spec => []Balance!ReplicatedIsCompared
<1>1. ASSUME BalanceInv PROVE Balance!ReplicatedIsCompared
  <2>1. ASSUME NEW t \in Replicated, reweighs[t] > 0, Parts = Cardinality(Node)
        PROVE  passed[t] = {"disks", "weights"}
    BY <1>1, <2>1 DEF BalanceInv, Passing, NodesAreHosts
  <2> QED
    BY <2>1, SameCount DEF Balance!ReplicatedIsCompared
<1> QED
  BY <1>1, BalanceInvHolds, PTL

\* 4+2:1 is balanced only with the disks it asks for, though disks go in between.
THEOREM StrictHasDisksHolds ==
    ASSUME Balance!BalanceAssumption
    PROVE  Balance!Spec => []Balance!StrictHasDisks
<1>1. ASSUME BalanceInv PROVE Balance!StrictHasDisks
  <2>1. ASSUME NEW t \in Erasure, StrictPool, reweighs[t] > 0
        PROVE  least[t] >= MinDisks
    <3>1. task[t] \notin Before
      BY <1>1, <2>1 DEF BalanceInv, Passing, Balance!Task
    <3> QED
      BY <1>1, <2>1, <3>1 DEF BalanceInv, Granted, Before
  <2> QED
    BY <2>1 DEF Balance!StrictHasDisks
<1> QED
  BY <1>1, BalanceInvHolds, PTL

\* The weights of an erasure coded pool are computed once.
THEOREM ErasureRunsOnceHolds ==
    ASSUME Balance!BalanceAssumption
    PROVE  Balance!Spec => []Balance!ErasureRunsOnce
<1>1. BalanceInv => Balance!ErasureRunsOnce
  BY DEF BalanceInv, Passing, Balance!ErasureRunsOnce
<1> QED
  BY <1>1, BalanceInvHolds, PTL

\* Whoever ended does not hold the lock of the commit.
THEOREM LockIsReturnedHolds ==
    ASSUME Balance!BalanceAssumption
    PROVE  Balance!Spec => []Balance!LockIsReturned
<1>1. BalanceInv => Balance!LockIsReturned
  BY DEF BalanceInv, Granted, Balance!LockIsReturned, Balance!Ended
<1> QED
  BY <1>1, BalanceInvHolds, PTL
=============================================================================
