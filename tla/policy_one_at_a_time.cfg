\* Changes that wait for one another, with lost connections, restarts and failed re-reads.
CONSTANTS
    Servers = {s1, s2}
    Requests = {r1, r2}
    Refreshes = {1, 2}
    Policies = {"shipped", "strict"}
    Configured = "shipped"
    NoRow = NoRow
    OneAtATime = TRUE
    MaxDrops = 2
SPECIFICATION FairSpec
INVARIANTS TypeOK SettledAgrees
PROPERTIES Converges
CHECK_DEADLOCK FALSE
