SPECIFICATION UnionSpec
CONSTANTS
    s1 = s1  pr1 = pr1  fix = fix
    Worker = {w1}  MaxConn = 3  MaxPool = 1  PoolMin = 1  PoolMax = 2  ParMax = 1
    Patience = 1
    Recipe = {worker, resource}  Machines = {m1}  MaxJobs = 2  MaxSigs = 1
    Other = {n1, n2}  Mine = mine  MaxTear = 2  NoNode = NoNode
    Erasure = {e1}  Replicated = {r1}  Hosts = {n1, n3}  Parts = 4  Domain = 1
    MinDisks = 2  MaxDisks = 3  Version = "old"  MaxChange = 1
    Name <- Names
    Test <- Tests
    Patterns <- Lists
INVARIANTS
    TypesOK
    AnswerIsRight
    
PROPERTIES
    CallsEnd
    ServicesStop
    LeasesEnd
    LeasesAreKept
CHECK_DEADLOCK FALSE
