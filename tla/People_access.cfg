SPECIFICATION PeopleSpec
CONSTANTS
    c1 = c1
    c2 = c2
    k1 = k1
    k2 = k2
    g1 = g1
    g2 = g2
    u1 = u1
    u2 = u2
    u3 = u3
    h1 = h1
    f1 = f1
    f2 = f2
    s1 = s1
    s2 = s2
    i1 = i1
    i2 = i2
    r1 = r1
    p1 = p1
    Photos = {u1, u2}
    Pictures = {i1, i2}
    Broken = {i2}
    Files = {f1, f2}
    Skus = {s1, s2}
    Rows <- Csv
    Room = 2
    MaxCrashes = 1
    Devices = {c1, c2}
    Customers = {k1, k2}
    Handles = {h1}
    Families = {g1, g2}
    Requests = {r1}
    MaxCodes = 1
    MaxTries = 1
    MaxTokens = 2
    Desks = {c1, c2}
    Items = {k1, k2}
    Readers = {h1}
    MaxEdits = 2
    MaxLetters = 2
    Callers = {c1, c2}
    Tickets = {k1, k2}
    MaxPosts = 3
    People = {u1, u2, u3}
    Founder = u1
    Seats = 2
    MaxActs = 4
    Clerks = {c1, c2}
    Shops = {s1, s2}
    Papers = {p1}
    MaxUses = 1
    PlanLimit = 2
    MaxEvents <- Histories
    Tabs = {c1, c2}
    Tokens = {s1, s2}
    Clock = 4
    ReauthTtl = 2
    HoldTime = 2
    MaxChanges = 2
INVARIANTS
    VendorsSafe
    IntakeSafe
    ReviewsSafe
    SupportSafe
    TeamSafe
PROPERTIES
    DestinationSafe
    AccountsSafe
SYMMETRY Symmetry
CHECK_DEADLOCK FALSE
