---------------------------- MODULE StateClasses ----------------------------
(***************************************************************************)
(* The State subclasses of libvirt_ci/state.py: which resource classes of  *)
(* a test host are monitored, which of them a class lists in its           *)
(* depend_states attribute, and through which tool each one is read.       *)
(* The class names are those of the source.                                *)
(***************************************************************************)

CONSTANT Class   \* the leaf subclasses of State that are monitored

AllClasses ==
    {"ServiceState", "DomainState", "NetworkState", "PoolState",
     "SecretState", "MountState", "ExportfsState", "DirState", "FileState",
     "LVMState", "ISCSIState", "LIOISCSIState", "LIOFileioState", "TgtState"}

\* The depend_states attribute, in the order of the list in the class body.
DependList(c) ==
    CASE c = "ServiceState"   -> <<>>
      [] c = "ExportfsState"  -> <<"MountState">>
      [] c = "ISCSIState"     -> <<"ServiceState", "LVMState", "PoolState">>
      [] c = "LIOISCSIState"  -> <<"ServiceState", "LVMState", "ISCSIState">>
      [] c = "LIOFileioState" -> <<"ServiceState", "LVMState", "ISCSIState",
                                   "LIOISCSIState">>
      [] c = "TgtState"       -> <<"ServiceState", "LVMState", "ISCSIState">>
      [] OTHER                -> <<"ServiceState">>

DependsOn(c) == LET d == DependList(c) IN {d[k] : k \in DOMAIN d}

\* The classes whose get_names runs virsh: an unreachable libvirtd makes
\* virsh print nothing, which reads as "no resource of this kind".
VirshClasses == {"DomainState", "NetworkState", "PoolState", "SecretState"}

\* The classes read by a command whose failure is not noticed either: its
\* output is empty, or get_names swallows the exception and returns [].
ToolClasses == VirshClasses \cup
    {"ExportfsState", "LVMState", "ISCSIState", "LIOISCSIState",
     "LIOFileioState", "TgtState"}

\* The classes whose names are a constant of the code and whose get_info
\* raises (listdir, open) when the directory or the file is not there.
PathClasses == {"DirState", "FileState"}

\* remove() raises without doing anything (Service, Dir, File).
RefusesRemove == PathClasses \cup {"ServiceState"}
=============================================================================
