------------------------------ MODULE MCTestRun ------------------------------
\* TestRun on a host of a service, a guest and a configuration file, with
\* two tests to run and one on the blacklist twice.
EXTENDS TestRun

CONSTANTS libvirtd, dom, exports, t1, t2, t3

SmallItem == {libvirtd, dom, exports}
SmallClass == {"ServiceState", "DomainState", "FileState"}
SmallClassOf == (libvirtd :> "ServiceState") @@ (dom :> "DomainState")
                @@ (exports :> "FileState")
SmallOrders == {<<"ServiceState", "FileState", "DomainState">>,
                <<"ServiceState", "DomainState", "FileState">>}

ThreeListed == <<t1, t2, t3>>
TwiceBlacked == <<t2, t2>>
=============================================================================
