---------------------------- MODULE MCHostState ----------------------------
\* HostState on small hosts.  Orders holds the topological orders of the
\* classes under observation, the ones StateOrder shows the code to build.
EXTENDS HostState, SequencesExt

CONSTANTS libvirtd, dom, net, images, vg, session, target, fileio, exports

TopologicalOrders(S) ==
    {o \in SetToSeqs(S) :
        \A j, k \in DOMAIN o : o[j] \in DependsOn(o[k]) => j < k}

\* A guest on a network that a test tears down; the pool "images".
GuestItem == {libvirtd, dom, net, images}
GuestClass == {"ServiceState", "DomainState", "NetworkState", "PoolState"}
GuestClassOf == (libvirtd :> "ServiceState") @@ (dom :> "DomainState")
                @@ (net :> "NetworkState") @@ (images :> "PoolState")
GuestNeeds == {<<dom, net>>}
GuestOrders == TopologicalOrders(GuestClass)

\* A volume group on an iSCSI disk that the host itself serves from a file.
StorageItem == {libvirtd, vg, session, target, fileio, exports}
StorageClass == {"ServiceState", "LVMState", "ISCSIState", "LIOISCSIState",
                 "LIOFileioState", "FileState"}
StorageClassOf == (libvirtd :> "ServiceState") @@ (vg :> "LVMState")
                  @@ (session :> "ISCSIState") @@ (target :> "LIOISCSIState")
                  @@ (fileio :> "LIOFileioState") @@ (exports :> "FileState")
StorageUses == {<<vg, session>>, <<session, target>>, <<target, fileio>>}
StorageOrders == TopologicalOrders(StorageClass)
=============================================================================
