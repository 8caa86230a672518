------------------------------ MODULE GuestPrep ------------------------------
(***************************************************************************)
(* What avocado-vt runs find on their host: the image of the main guest    *)
(* and its backup, the guests, the network and the mounted guests of v2v   *)
(* as prepare_image, prepare_run and custom_prepare of libvirt_ci/runner/  *)
(* set them up before the snapshot is taken (HostState) and the tests run  *)
(* (TestRun).  Runs follow each other on a host.  One may be killed at any *)
(* step or end with an exception, and leaves what it did, its guests       *)
(* running.                                                                *)
(***************************************************************************)
EXTENDS Naturals

CONSTANTS
    Main,       \* the main guest
    Extra,      \* --additional-vms
    V2v,        \* the guests that the v2v source has an xml of
    Options,    \* of [url, retain, net, extra, v2v : BOOLEAN], v2v : V2vModes
    MaxRuns, MaxKills, MaxFaults  \* bounds: runs, kills, commands that fail

V2vModes == {"no", "function", "listed"}
GuestPrepAssumption ==
    /\ Options # {}
    /\ Main \notin Extra \cup V2v /\ Extra \cap V2v = {}
    /\ Options \subseteq [url : BOOLEAN, retain : BOOLEAN, net : BOOLEAN, extra : BOOLEAN,
                          v2v : V2vModes]
    /\ {MaxRuns, MaxKills, MaxFaults} \subseteq Nat

VARIABLES
    image, imgcopy,  \* img_path and its .backup: "none", "half", "dirty" or "clean"
    guest,    \* each guest: the run that defined it (0: none) and whether it runs
    network,  \* net_name: whether it is defined, active, and as --netxml says
    mounted,  \* whether the v2v source is mounted
    snapshot, \* what States.backup() saw: defined guests, the mount
    prep,     \* the run: its step, options, and what happened to it
    mishaps   \* numbers of runs, kills and faults

gvars == <<image, imgcopy, guest, network, mounted, snapshot, prep, mishaps>>
host  == <<guest, network, mounted, snapshot>>
files == <<image, imgcopy>>

Guest   == {Main} \cup Extra \cup V2v
Defined == {g \in Guest : guest[g].by # 0}
Absent  == [by |-> 0, runs |-> FALSE]
Copying == {"downloading", "copying", "restoring"}

TypeOK ==
    /\ image \in {"none", "half", "dirty", "clean"} /\ imgcopy \in {"none", "half", "dirty", "clean"}
    /\ guest \in [Guest -> [by : 0..MaxRuns, runs : BOOLEAN]]
    /\ network \in [def : BOOLEAN, on : BOOLEAN, own : BOOLEAN] /\ mounted \in BOOLEAN
    /\ snapshot \in [def : SUBSET Guest, mount : BOOLEAN]
    /\ prep \in [at : Copying \cup {"idle", "download", "copy", "prepare", "remove", "net", "install",
                                     "clone", "v2v", "define", "snapshot", "test"},
                 opt : Options, todo : SUBSET Guest, lost : SUBSET Guest, wrote : BOOLEAN]
    /\ mishaps \in [runs : 0..MaxRuns, kills : 0..MaxKills, faults : 0..MaxFaults]

Init ==
    /\ image = "none" /\ imgcopy = "none" /\ guest = [g \in Guest |-> Absent]
    /\ network = [def |-> TRUE, on |-> TRUE, own |-> FALSE] /\ mounted = FALSE
    /\ snapshot = [def |-> {}, mount |-> FALSE]
    /\ prep = [at |-> "idle", opt |-> CHOOSE o \in Options : TRUE, todo |-> {}, lost |-> {},
               wrote |-> FALSE]
    /\ mishaps = [runs |-> 0, kills |-> 0, faults |-> 0]

Goto(a) == prep' = [prep EXCEPT !.at = a]
Raises  == Goto("idle")
Fault   == mishaps.faults < MaxFaults /\ mishaps' = [mishaps EXCEPT !.faults = @ + 1]
Me      == mishaps.runs
NewGuest(g) == guest' = [guest EXCEPT ![g] = [by |-> Me, runs |-> FALSE]]
Lose(g) == prep' = [prep EXCEPT !.lost = @ \cup {g}, !.todo = @ \ {g}]
Done(g) == prep' = [prep EXCEPT !.todo = @ \ {g}]

-----------------------------------------------------------------------------
\* prepare_framework downloads the image if it was told from where, and backs it up.
Start(o) ==
    /\ prep.at = "idle" /\ Me < MaxRuns
    /\ prep' = [at |-> IF o.url THEN "download" ELSE "prepare", opt |-> o, todo |-> {},
                lost |-> {}, wrote |-> FALSE]
    /\ mishaps' = [mishaps EXCEPT !.runs = @ + 1] /\ UNCHANGED <<files, host>>

\* A guest that runs writes to its disk; what is being copied to it then is spoilt.
GuestWrites ==
    /\ guest[Main].runs /\ image # "none"
    /\ image' = IF image = "clean" THEN "dirty" ELSE image
    /\ prep' = [prep EXCEPT !.wrote = @ \/ prep.at \in Copying \cup {"remove"}]
    /\ UNCHANGED <<imgcopy, host, mishaps>>

\* A file is cut off when it is opened for writing, and is whole at the end.
Arrives(content) == IF prep.wrote /\ content = "clean" THEN "dirty" ELSE content

Download ==
    /\ prep.at = "download" /\ image' = "half" /\ Goto("downloading")
    /\ UNCHANGED <<imgcopy, host, mishaps>>
\* (Mutant: what did not arrive whole is kept.)
BugDownloaded ==
    /\ prep.at = "downloading" /\ Goto("copy")
    /\ \/ image' = Arrives("clean") /\ UNCHANGED mishaps
       \/ Fault /\ UNCHANGED image
    /\ UNCHANGED <<imgcopy, host>>
Downloaded ==
    /\ prep.at = "downloading"
    /\ \/ /\ image' = Arrives("clean") /\ Goto("copy") /\ UNCHANGED mishaps
       \/ /\ Fault /\ Raises /\ UNCHANGED image
    /\ UNCHANGED <<imgcopy, host>>

BackupImage ==
    /\ prep.at = "copy" /\ imgcopy' = "half" /\ Goto("copying")
    /\ UNCHANGED <<image, host, mishaps>>
BackedUp ==
    /\ prep.at = "copying" /\ imgcopy' = Arrives(image) /\ Goto("prepare")
    /\ UNCHANGED <<image, host, mishaps>>

\* prepare_run restores the image before anything is done to the guests.
\* (Mutant: an image that is there is taken as it is.)
BugRestoreImage ==
    /\ prep.at = "prepare"
    /\ IF imgcopy = "none" THEN Raises /\ UNCHANGED image
       ELSE IF image = "none" THEN image' = "half" /\ prep' = [prep EXCEPT !.at = "restoring"]
       ELSE UNCHANGED image /\ Goto(IF prep.opt.retain THEN "snapshot" ELSE "remove")
    /\ UNCHANGED <<imgcopy, host, mishaps>>
RestoreImage ==
    /\ prep.at = "prepare"
    /\ IF imgcopy = "none" THEN Raises /\ UNCHANGED image
       ELSE image' = "half" /\ Goto("restoring")
    /\ UNCHANGED <<imgcopy, host, mishaps>>

\* custom_prepare returns at once with --retain-vm.
RestoredImage ==
    /\ prep.at = "restoring" /\ image' = Arrives(imgcopy)
    /\ prep' = [prep EXCEPT !.at = IF prep.opt.retain THEN "snapshot" ELSE "remove",
                            !.todo = {Main} \cup (IF prep.opt.extra THEN Extra ELSE {})]
    /\ UNCHANGED <<imgcopy, host, mishaps>>

\* clean_vm: a guest that cannot be destroyed is killed by its process; whether
\* undefine succeeds is not looked at.
RemoveVM(g) ==
    /\ prep.at = "remove" /\ g \in prep.todo /\ Done(g)
    /\ \/ guest' = [guest EXCEPT ![g] = Absent] /\ UNCHANGED mishaps
       \/ Fault /\ guest' = [guest EXCEPT ![g].runs = FALSE]
    /\ UNCHANGED <<files, network, mounted, snapshot>>
Removed ==
    /\ prep.at = "remove" /\ prep.todo = {} /\ Goto(IF prep.opt.net THEN "net" ELSE "install")
    /\ UNCHANGED <<files, host, mishaps>>

\* _prepare_network: destroy and undefine without a look at the result, define and start.
\* (Mutant: what net-start says is not looked at either.)
BugPrepareNetwork ==
    /\ prep.at = "net"
    /\ \/ network' = [def |-> TRUE, on |-> TRUE, own |-> TRUE] /\ Goto("install")
          /\ UNCHANGED mishaps
       \/ Fault /\ network' = [def |-> TRUE, on |-> FALSE, own |-> TRUE] /\ Goto("install")
    /\ UNCHANGED <<files, guest, mounted, snapshot>>
PrepareNetwork ==
    /\ prep.at = "net"
    /\ \/ network' = [def |-> TRUE, on |-> TRUE, own |-> TRUE] /\ Goto("install")
          /\ UNCHANGED mishaps
       \/ /\ Fault   \* net-destroy: only what is not active can be started
          /\ network' = [def |-> TRUE, on |-> TRUE, own |-> ~network.on]
          /\ IF network.on THEN Raises ELSE Goto("install")
       \/ Fault /\ network' = [def |-> FALSE, on |-> FALSE, own |-> FALSE] /\ Raises  \* define
       \/ Fault /\ network' = [def |-> TRUE, on |-> FALSE, own |-> TRUE] /\ Raises    \* start
    /\ UNCHANGED <<files, guest, mounted, snapshot>>

\* _install_vm: virsh define or virt-install, which refuse a name that is taken.
InstallVM ==
    /\ prep.at = "install"
    /\ \/ /\ guest[Main].by = 0 /\ UNCHANGED mishaps
          /\ NewGuest(Main)
          /\ prep' = [prep EXCEPT !.at = "clone", !.todo = IF prep.opt.extra THEN Extra ELSE {}]
       \/ guest[Main].by # 0 /\ Raises /\ UNCHANGED <<guest, mishaps>>
       \/ guest[Main].by = 0 /\ Fault /\ Raises /\ UNCHANGED guest
    /\ UNCHANGED <<files, network, mounted, snapshot>>

\* _install_additional_vms does not look at what virt-clone says.
CloneVM(g) ==
    /\ prep.at = "clone" /\ g \in prep.todo
    /\ \/ /\ guest[g].by = 0 /\ Done(g) /\ UNCHANGED mishaps
          /\ NewGuest(g)
       \/ guest[g].by # 0 /\ Lose(g) /\ UNCHANGED <<guest, mishaps>>
       \/ guest[g].by = 0 /\ Fault /\ Lose(g) /\ UNCHANGED guest
    /\ UNCHANGED <<files, network, mounted, snapshot>>
Cloned ==
    /\ prep.at = "clone" /\ prep.todo = {}
    /\ Goto(IF prep.opt.v2v = "no" THEN "snapshot" ELSE "v2v")
    /\ UNCHANGED <<files, host, mishaps>>

\* _prepare_v2v_vms: a mount that fails leaves no xml files to be found, unless the
\* source was mounted before.
MountSource ==
    /\ prep.at = "v2v"
    /\ \/ mounted' = TRUE /\ UNCHANGED mishaps
       \/ Fault /\ UNCHANGED mounted
    /\ prep' = [prep EXCEPT !.at = "define", !.todo = IF mounted' THEN V2v ELSE {},
                            !.lost = @ \cup (IF mounted' THEN {} ELSE V2v)]
    /\ UNCHANGED <<files, guest, network, snapshot>>

\* For a function job all are defined, else those that domstate does not know.
DefineVM(g) ==
    /\ prep.at = "define" /\ g \in prep.todo
    /\ \/ /\ prep.opt.v2v = "listed" /\ guest[g].by # 0 /\ Done(g)
          /\ UNCHANGED <<guest, mishaps>>
       \/ /\ prep.opt.v2v = "function" \/ guest[g].by = 0
          /\ \/ guest' = [guest EXCEPT ![g].by = Me] /\ Done(g) /\ UNCHANGED mishaps
             \/ Fault /\ Lose(g) /\ UNCHANGED guest
    /\ UNCHANGED <<files, network, mounted, snapshot>>
DefinedAll ==
    /\ prep.at = "define" /\ prep.todo = {} /\ Goto("snapshot")
    /\ UNCHANGED <<files, host, mishaps>>

-----------------------------------------------------------------------------
\* prepare_state, with the v2v guests and their mount in the snapshot.
\* (Mutant: as the docstring of _prepare_v2v_vms has it, taken before them.)
BugPrepareState ==
    /\ prep.at = "snapshot" /\ Goto("test")
    /\ snapshot' = [def |-> Defined \ V2v, mount |-> FALSE]
    /\ UNCHANGED <<files, guest, network, mounted, mishaps>>
PrepareState ==
    /\ prep.at = "snapshot" /\ Goto("test")
    /\ snapshot' = [def |-> Defined, mount |-> mounted]
    /\ UNCHANGED <<files, guest, network, mounted, mishaps>>

\* A test starts the main guest, or removes one, or defines one of a name it knows.
Test ==
    /\ prep.at = "test"
    /\ \/ Main \in Defined /\ guest' = [guest EXCEPT ![Main].runs = TRUE]
       \/ \E g \in Defined : guest' = [guest EXCEPT ![g] = Absent]
       \/ \E g \in Guest \ Defined : NewGuest(g)
    /\ UNCHANGED <<files, network, mounted, snapshot, prep, mishaps>>

\* States.check puts back what the snapshot has (HostState), and the run ends.
Check ==
    /\ prep.at = "test" /\ Goto("idle") /\ mounted' = snapshot.mount
    /\ guest' = [g \in Guest |-> IF g \notin snapshot.def THEN Absent
                                 ELSE [by |-> IF guest[g].by = 0 THEN Me ELSE guest[g].by,
                                       runs |-> FALSE]]
    /\ UNCHANGED <<files, network, snapshot, mishaps>>

Kill ==
    /\ prep.at # "idle" /\ mishaps.kills < MaxKills /\ Goto("idle")
    /\ mishaps' = [mishaps EXCEPT !.kills = @ + 1] /\ UNCHANGED <<files, host>>

Next ==
    \/ \E o \in Options : Start(o)
    \/ GuestWrites \/ Download \/ Downloaded \/ BackupImage \/ BackedUp
    \/ RestoreImage \/ RestoredImage
    \/ \E g \in Guest : RemoveVM(g) \/ CloneVM(g) \/ DefineVM(g)
    \/ Removed \/ PrepareNetwork \/ InstallVM \/ Cloned \/ MountSource \/ DefinedAll
    \/ PrepareState \/ Test \/ Check \/ Kill

Spec == Init /\ [][Next]_gvars

-----------------------------------------------------------------------------
(* What the code keeps. *)

Ready == prep.at = "snapshot"

\* Tests start on a restored image, unless a guest of an earlier run wrote to it while
\* it was downloaded, backed up or restored, or the backup is not whole.
ImageIsFresh ==
    Ready /\ ~prep.opt.retain => image = "clean" \/ prep.wrote \/ imgcopy # "clean"

\* The backup is not whole only while it is written or after somebody was killed there,
\* and it is spoilt only by a guest that ran on.
BackupIsWhole == imgcopy = "half" => prep.at = "copying" \/ mishaps.kills > 0

\* The tests find the guests and the network that were asked for: the main guest is
\* new and does not run, an additional one is new or failed to be cloned, those of v2v
\* are defined or were looked for in vain.
ReadyAsAsked ==
    Ready /\ ~prep.opt.retain =>
        /\ guest[Main] = [by |-> Me, runs |-> FALSE]
        /\ prep.opt.extra => \A g \in Extra \ prep.lost : guest[g] = [by |-> Me, runs |-> FALSE]
        /\ prep.opt.v2v # "no" => V2v \subseteq Defined \cup prep.lost
        /\ prep.opt.net => network = [def |-> TRUE, on |-> TRUE, own |-> TRUE]

\* The guests of v2v and their mount outlive the run that made them: no check takes
\* them for something a test left.
V2vStays ==
    [][prep.at = "test" /\ prep'.at = "idle" /\ mounted /\ mishaps' = mishaps =>
          mounted' /\ \A g \in V2v : guest[g].by \in 1..(Me - 1) => guest'[g].by # 0]_gvars
=============================================================================
