SPECIFICATION UnionSpec
CONSTANTS
    o1 = o1  o2 = o2  c1 = c1  c2 = c2  w1 = w1  w2 = w2  s1 = s1  s2 = s2
    n1 = n1  n2 = n2
    pr1 = pr1  pr12 = pr12  fix = fix  chg = chg
    u1 = u1  u2 = u2  u3 = u3  h1 = h1  h2 = h2
    j1 = j1  j2 = j2
    t1 = t1  t2 = t2  t3 = t3  t4 = t4  virsh = virsh  dump = dump  list = list
    vol = vol  rep1 = rep1  rep2 = rep2  noonly = noonly  new1 = new1  new2 = new2
    mvm = mvm  xvm = xvm  vvm = vvm
    Card = {c1, c2}  Obj = {o1, o2}  NoObj = NoObj  Opened = {c1}
    Limit = 3  FeeRate = 1  Price = {1, 2}  DiskFails = FALSE  MaxCalls = 2
    Worker = {w1, w2}  MaxConn = 2  MaxPool = 1  PoolMin = 1  PoolMax = 1  ParMax = 2
    Patience = 0
    Slot = {s1, s2}  MaxExist = 2  TestFrom = 2  MaxFailed = 2  NoSlot = NoSlot
    Erasure = {e1}  Replicated = {r1}  Nodes = {n1, n2}  Parts = 2  FailureDomain = 0
    Strict = FALSE  MinDisks = 2  MaxDisks = 3  Version = "new"  MaxChange = 1
    Hosts = {h1, h2}  Consoles = {h1, h2}  Solo = {h3, h4}  SoloConsoles = {h3}
    Unpacks = {}  MaxLines = 1  SoloLines = 2
    LoginName = {"u", "root"}  GroupName = {"d", "g"}  Default = "d"  System = {"root"}
    Domain = {}  Password = {"p"}  MaxAdmin = 1  MaxSolo = 2
    UploadCase = {t1, t2, t3}  Forced = FALSE  Dated = TRUE  Submit = TRUE  MaxUploads = 3
    ReportJob = {j1, j2}  ResultCase = {t1}  ResultTag = {t3}  MaxGroupings = 2
    Message = {"m"}  Passed = 0  Threshold = 60  MaxReports = 2  People = TRUE
SYMMETRY Swap
INVARIANTS
    TypesOK
    
    
    ConnectionsAreShared
    
    
    
    
PROPERTIES
    StepsAreLawful
CHECK_DEADLOCK FALSE
