\* Anything overlaps: two replicas, a restart of the computer, a crash of a server.
CONSTANTS
    c1 = c1  c2 = c2  c3 = c3  c4 = c4
    s1 = s1  s2 = s2
    p1 = p1  p2 = p2
    Calls = {c1, c2}
    Servers = {s1, s2}
    ServerOf <- TwoServers
    Pages = {p1, p2}
    Policies <- MCPolicies
    ReportsSessions = TRUE
    Sequential = FALSE
    MaxGen = 1
    MaxRun = 2
    MaxCrashes = 1
SPECIFICATION Spec

INVARIANTS RecordedFirst TrailTellsOutcome
CHECK_DEADLOCK FALSE
