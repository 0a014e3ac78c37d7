SPECIFICATION JobsSpec
CONSTANTS
    w1 = w1
    w2 = w2
    r1 = r1
    r2 = r2
    b1 = b1
    b2 = b2
    home = home
    own = own
    o1 = o1
    s1 = s1
    k1 = k1
    Workers = {w1, w2}
    UsageDays = {1}
    MaxDay = 4
    TrialDays = 1
    Month = 1
    Year = 2
    DueDays = 0
    PastDueAfter = 1
    SuspendAfter = 2
    MaxPatches = 1
    Staff = {w1, w2}
    Readers = {r1}
    Hosts = {home, own}
    Home = home
    Quota = 1
    MaxChanges = 1
    Managers = {w1, w2}
    Builds = {b1, b2}
    Runners = {r1, r2}
    Versions <- Numbering
    MaxReady = 2
    Orders = {o1}
    SubOrders = {s1}
    OrderOf <- OneVendor
    CodOrders = {o1}
    Consignments = {k1}
INVARIANTS
    BillingSafe
    DomainsSafe
    BuildsSafe
PROPERTIES
    Dunned
    HostsFollow
    QueueEmpties
    ReturnArrives
CHECK_DEADLOCK FALSE
