\* A few requests, one machine at a time; two runs, two firings and a restart.
SPECIFICATION Spec
CONSTANTS
    Machines = {"runner", "engine", "people", "calls", "skills", "turn", "loop"}
    Runs = {r1, r2}
    Viewers = {v1}
    Supersede = FALSE
    MaxRestarts = 1
    TriggerIds = {tr1}
    Firings = {f1, f2}
    NoSchedule = NoSchedule
    MaxFaults = 1
    Persons = {p1, p2, p3}
    Configured = {p3}
    Founders = {p1, p2}
    MaxActs = 5
    MaxSecrets = 2
    NoOne = NoOne
    Patient = TRUE
    Curated = {drive}
    Custom = {own}
    Tools = {t1, t2}
    WriteTools = {t1}
    Bots = {b1}
    Calls = {c1}
    MaxEdits = 4
    Users = {u1, u2, admin}
    Admins = {admin}
    BotIds = {b1, b2}
    Slugs = {s1}
    ToolRefs = {t1, t2}
    Floor = 1
    MaxRequests = 3
    Deployment = Deployment
    Absent = Absent
    Askers = {p1}
    RunBots = {b1, b2, b3}
    Remote = {b2, b3}
    Turns = {r1}
    Ttl = 1
    MaxTime = 2
    MaxChanges = 2
    Legacy = FALSE
    MaxCalls = 3
    MaxAnswers = 3
    MaxRuns = 2
    ReadBack = FALSE
    u1 = u1  b1 = b1  b2 = b2
INVARIANTS TypeOK ThreadKept FiringsTold PeopleKept CallsKept WordsAreOwners RunsKept
CHECK_DEADLOCK FALSE
