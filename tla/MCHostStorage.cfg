CONSTANTS
    libvirtd = libvirtd
    dom = dom
    net = net
    images = images
    vg = vg
    session = session
    target = target
    fileio = fileio
    exports = exports
    Class <- StorageClass
    Orders <- StorageOrders
    Item <- StorageItem
    ClassOf <- StorageClassOf
    PermitNames = {}
    Libvirtd = libvirtd
    Needs <- StorageUses
    Pins <- StorageUses
    Recover = TRUE
    MaxShocks = 3
    MaxFaults = 1
SPECIFICATION Spec
INVARIANTS
    CreatedIsRemoved
\* A configuration file that a test deletes ends the run.
CHECK_DEADLOCK FALSE
