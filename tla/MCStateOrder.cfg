\* The classes that storage tests use: the whole dependency chain of iSCSI and
\* LIO, the mount/export pair, and one class that depends on ServiceState only.
CONSTANTS
    Class = {"ServiceState", "PoolState", "LVMState", "ISCSIState", "LIOISCSIState",
             "LIOFileioState", "TgtState", "MountState", "ExportfsState"}
    Dist = {"rhel6", "rhel7", "ubuntu"}
SPECIFICATION OrderSpec
INVARIANTS
    DependenciesFirst
    NothingLost
    ServiceIsInformed
    SkippedBehindRemoved
\* The construction ends when the list is built.
CHECK_DEADLOCK FALSE
