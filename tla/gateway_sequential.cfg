\* One call at a time, a provider that reports sessions, one server.
CONSTANTS
    c1 = c1  c2 = c2  c3 = c3  c4 = c4
    s1 = s1  s2 = s2
    p1 = p1  p2 = p2
    Calls = {c1, c2, c3}
    Servers = {s1}
    ServerOf <- OneServer
    Pages = {p1, p2}
    Policies <- OnePolicy
    ReportsSessions = TRUE
    Sequential = TRUE
    MaxGen = 2
    MaxRun = 2
    MaxCrashes = 0
SPECIFICATION Spec
SYMMETRY Symmetric
INVARIANT JudgedIsActedOn
CHECK_DEADLOCK FALSE
