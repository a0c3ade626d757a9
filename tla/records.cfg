\* A few requests that may overlap, one machine at a time.
SPECIFICATION Spec
CONSTANTS
    Machines = {"vault", "routes", "keys", "bots", "gallery", "works", "package", "screens"}
    MaxOthers = 1
    MaxSaves = 1
    MaxVisits = 2
    WithControlPlane = FALSE
    MaxSecrets = 1
    None = None
    Bots = {b1}
    BotIds = {b1, b2}
    Ids = {i1}
    Urls = {l1, l2}
    Savers = {a1}
    Uses = {x1}
    MaxBorn = 2
    OneAtATime = TRUE
    Models = {m1, m2, m3}
    Routed = {b1}
    Txs = {q1, q2}
    OneNewAtATime = TRUE
    MaxCredentials = 3
    Owner = p1
    People = {p1, p2}
    MaxAsked = 3
    Shown = {n1}
    Decisions = {}
    Customs = {n2}
    Browsers = {w1, w2}
    Editors = {e1}
    MaxDrafts = 2
    Works = {k1}
    Profiles = {g1}
    Updates = {d1, d2}
    MaxTexts = 3
    Admins = {}
    MaxEdits = 3
    Boots = {o1, o2}
    Writers = {w1, w2}
    Curators = {w2}
    MaxWrites = 2
    b1 = b1
INVARIANTS TypeOK SecretsKept ShelfKept PackageKept ScreensKept
PROPERTY BotsKept
CHECK_DEADLOCK FALSE
