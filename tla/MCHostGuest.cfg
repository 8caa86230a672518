CONSTANTS
    libvirtd = libvirtd
    dom = dom
    net = net
    images = images
    vg = vg
    session = session
    target = target
    fileio = fileio
    exports = exports
    Class <- GuestClass
    Orders <- GuestOrders
    Item <- GuestItem
    ClassOf <- GuestClassOf
    PermitNames = {images}
    Libvirtd = libvirtd
    Needs <- GuestNeeds
    Pins = {}
    Recover = TRUE
    MaxShocks = 3
    MaxFaults = 1
SPECIFICATION FairSpec
INVARIANTS
    TypeOK
    CleanReportIsClean
PROPERTIES
    IntactIsLeftAlone
    PermittedIsLeftAlone
    
CHECK_DEADLOCK FALSE
