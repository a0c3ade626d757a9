\* A restore with autostart installed.
SPECIFICATION Spec
CONSTANTS
    Machines = {"slice"}
    Streams = {s1, s2}
    Stall = 2
    MaxChunks = 1
    MaxFaults = 1
    MaxTyped = 2
    Turns = {u1, u2}
    MaxGaps = 1
    Detaches = TRUE
    Bots = {b1, b2}
    Calls = {k1}
    Wait = 1
    Limit = 1
    MaxMoves = 2
    MaxCalls = 2
    Channels = {c1, c2}
    MaxSaid = 3
    MaxDrops = 1
    Keys = {key1}
    NoKey = NoKey
    Guarded = TRUE
    MaxCommands = 3
    MaxCrashes = 1
    Keep = 2
    Servers = {v1, v2}
    Days = 2
    Fine = 1
    PageSize = 1
    Batch = 1
    MaxBatches = 2
    MaxRows = 3
    MaxTime = 4
    Free = Free
INVARIANT RestoreIsWhole
CHECK_DEADLOCK FALSE
