\* Two administrators change the policy at once; no connection fails.
CONSTANTS
    Servers = {s1, s2}
    Requests = {r1, r2}
    Refreshes = {1, 2}
    Policies = {"shipped", "strict"}
    Configured = "shipped"
    NoRow = NoRow
    OneAtATime = FALSE
    MaxDrops = 0
SPECIFICATION FairSpec
INVARIANTS SettledAgrees
CHECK_DEADLOCK FALSE
