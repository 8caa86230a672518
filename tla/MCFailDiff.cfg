CONSTANTS
    libvirtd = libvirtd
    dom = dom
    exports = exports
    t1 = t1
    t2 = t2
    t3 = t3
    Class <- SmallClass
    Orders <- SmallOrders
    Item <- SmallItem
    ClassOf <- SmallClassOf
    PermitNames = {}
    Libvirtd = libvirtd
    Needs = {}
    Pins = {}
    Recover = TRUE
    MaxShocks = 1
    MaxFaults = 0
    Listed <- ThreeListed
    Blacked <- TwiceBlacked
    Ignored = {t3}
    MaxRerun = 3
    NoCheck = FALSE
    FailDiff = TRUE
SPECIFICATION RunSpec
INVARIANT
    FailDiffReported
CHECK_DEADLOCK FALSE
