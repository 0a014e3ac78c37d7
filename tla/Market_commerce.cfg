SPECIFICATION MarketSpec
CONSTANTS
    c1 = c1
    c2 = c2
    s1 = s1
    p1 = p1
    p2 = p2
    d1 = d1
    d2 = d2
    i1 = i1
    i2 = i2
    l1 = l1
    l2 = l2
    l3 = l3
    Agents = {c1, c2}
    Parcels = {p1, p2}
    Cases = {d1, d2}
    MaxWords = 1
    Editors = {c1, c2}
    Variants = {i1, i2}
    Prices = {1, 2}
    MaxStock = 1
    MaxHandled = 2
    Hands = {c1, c2}
    Buyers = {s1}
    MaxFacts = 2
    MaxMoods = 1
    MaxLost = 1
    Designers = {c1, c2}
    Palettes = {l1, l2, l3}
    Legible = {l1, l2}
    Presets = {l1}
    Minimal = l1
    Accents = {i1, i2}
    Readable <- Reads
    MaxVersions = 2
    MaxDrafts = 4
INVARIANTS
    DisputesSafe
    CatalogSafe
    ModeratedFirst
    NotificationsSafe
    ThemeSafe
PROPERTIES
    OverdueEscalates
    TakenDownLeaves
    CacheCatchesUp
CHECK_DEADLOCK FALSE
