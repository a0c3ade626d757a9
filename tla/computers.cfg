\* Each machine at the size at which its hazards happen; the README gives the reasons.
SPECIFICATION Spec
CONSTANTS
    BotCalls = {b1, b2}
    Person = person
    Fields = {f1, f2}
    OneSecret = TRUE
    PageStays = TRUE
    Ring = 2
    MaxTakes = 2
    Bots = {b1, b2}
    Calls = {c1, c2}
    Contexts = {x1, x2, x3}
    MaxLive = 1
    Patient = TRUE
    MovedBots = {b1}
    Nodes = {n1}
    Local = local
    WorkspaceFiles = {w1}
    ProfileFiles = {p1}
    Moves = {m1, m2}
    Tokens = {t1}
    Joins = {j1, j2}
    Quiet = TRUE
    Answering = TRUE
    Threads = {th1}
    HarnessTurns = {k1, k2}
    Sessions = {x1}
    Engines = {"pi", "opencode", "other"}
    MaxEvents = 3
    Root <- OneRoot
    Paths <- FewPaths
    Links <- FewLinks
    Requests <- FewRequests
    MaxHops = 4
    MaxOutput = 2
    MaxWritten = 6
    Daemons = TRUE
INVARIANTS TypeOK PersonKept ProfilesKept MeshKept ToolsKept
CHECK_DEADLOCK FALSE
