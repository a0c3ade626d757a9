------------------------------ MODULE Profiles ------------------------------
(***************************************************************************)
(* The browsers of one computer (createProfiles): one Chromium per Bot on  *)
(* that Bot's profile directory, started on first use, closed by stop, by  *)
(* reset, by the cap and by the idle sweep.  Calls interleave at every     *)
(* await: of a launch, and of a close, of which the code sees only that    *)
(* close() returned.  Nothing tells it that the process is gone: the two   *)
(* seconds closeAndWait adds are a delay before the same next step.        *)
(***************************************************************************)
EXTENDS Naturals, Sequences, FiniteSets, SequencesExt

CONSTANTS
    Bots,
    Calls,       \* requests under way at a time
    Contexts,    \* browser contexts, each launched at most once: bounds the launches
    MaxLive,     \* MAX_LIVE_BROWSERS, at least 1
    Patient      \* no request for a Bot comes while its browser is being closed, and no
                 \* reset while it is being started

None == "none"

VARIABLES
    live,       \* the map of live browsers: per Bot its context, or None
    used,       \* Bots by usedAt, the least recently used first
    starting,   \* the map of launches in flight
    chromium,   \* each context: the Bot it belongs to and what its process does
    profile,    \* the profile directories that exist
    call,       \* each request: what it is doing, for which Bot, awaiting which context
    torn        \* history: Bots whose directory was deleted under an open browser

vars == <<live, used, starting, chromium, profile, call, torn>>

\* A context is up, half (its page was closed), closing until close() returns, and closed
\* while the process may still write its profile; the process runs until it is gone.
ProcessStates == {"unborn", "up", "half", "closing", "closed", "gone"}
Open(b) == {x \in Contexts : chromium[x].bot = b /\ chromium[x].is \in {"up", "half", "closing"}}
Processes(b) == {x \in Contexts : chromium[x].bot = b /\ chromium[x].is \notin {"unborn", "gone"}}

\* What an awaited close() returns on: the context was closed, or its process had ended.
Returned(x) == chromium[x].is \in {"closed", "gone"}

Waiting == {"idle", "joined", "dropping", "launching", "capping", "stopping", "wiping"}
CallType == [at : Waiting, bot : Bots \union {None}, on : Contexts \union {None}, then : {"stop", "reset", None}]
IdleCall == [at |-> "idle", bot |-> None, on |-> None, then |-> None]

TypeOK ==
    /\ live \in [Bots -> Contexts \union {None}]
    /\ used \in Seq(Bots) /\ Range(used) = {b \in Bots : live[b] # None} /\ Len(used) <= MaxLive
    /\ starting \in [Bots -> Calls \union {None}]
    /\ chromium \in [Contexts -> [bot : Bots \union {None}, is : ProcessStates]]
    /\ profile \subseteq Bots /\ torn \subseteq Bots
    /\ call \in [Calls -> CallType]

Init ==
    /\ live = [b \in Bots |-> None]
    /\ used = <<>>
    /\ starting = [b \in Bots |-> None]
    /\ chromium = [x \in Contexts |-> [bot |-> None, is |-> "unborn"]]
    /\ profile = {} /\ torn = {}
    /\ call = [c \in Calls |-> IdleCall]

Without(b) ==
    IF b \in Range(used) THEN RemoveAt(used, CHOOSE i \in DOMAIN used : used[i] = b) ELSE used
Set(c, at, b, x) == call' = [call EXCEPT ![c] = [@ EXCEPT !.at = at, !.bot = b, !.on = x]]
Done(c) == call' = [call EXCEPT ![c] = IdleCall]
Is(x, state) == [chromium EXCEPT ![x].is = IF @ \in {"up", "half"} THEN state ELSE @]

Closing(b) == \/ \E x \in Open(b) : chromium[x].is = "closing"
              \/ \E c \in Calls : call[c].bot = b /\ call[c].at \in {"dropping", "stopping", "wiping"}

-----------------------------------------------------------------------------
(* page *)

\* A request for a Bot arrives.
Asks(c, b) == call[c].at = "idle" /\ (Patient => ~Closing(b))

Healthy(b) == live[b] # None /\ chromium[live[b]].is = "up"

\* A launch is under way: wait for it.
PageJoins(c, b) ==
    /\ Asks(c, b) /\ starting[b] # None
    /\ Set(c, "joined", b, None)
    /\ UNCHANGED <<live, used, starting, chromium, profile, torn>>

PageHits(c, b) ==
    /\ Asks(c, b) /\ starting[b] = None /\ Healthy(b)
    /\ used' = Append(Without(b), b)
    /\ UNCHANGED <<live, starting, chromium, profile, call, torn>>

\* The browser went away, or its page did: its context is closed, which is awaited.
PageDrops(c, b) ==
    /\ Asks(c, b) /\ starting[b] = None /\ live[b] # None /\ ~Healthy(b)
    /\ chromium' = Is(live[b], "closing")
    /\ Set(c, "dropping", b, live[b])
    /\ UNCHANGED <<live, used, starting, profile, torn>>

\* close() returned, which is all this path waits for; whatever the map has by now is
\* dropped, and a launch begins.
Dropped(c) ==
    LET b == call[c].bot IN
    /\ call[c].at = "dropping" /\ Returned(call[c].on)
    /\ live' = [live EXCEPT ![b] = None]
    /\ used' = Without(b)
    /\ starting' = [starting EXCEPT ![b] = c]
    /\ Set(c, "launching", b, None)
    /\ UNCHANGED <<chromium, profile, torn>>

\* A page that looks for a live browser only.
PageStartsAnyway(c, b) ==
    /\ Asks(c, b) /\ live[b] = None
    /\ starting' = [starting EXCEPT ![b] = c]
    /\ Set(c, "launching", b, None)
    /\ UNCHANGED <<live, used, chromium, profile, torn>>

PageStarts(c, b) ==
    /\ Asks(c, b) /\ starting[b] = None /\ live[b] = None
    /\ starting' = [starting EXCEPT ![b] = c]
    /\ Set(c, "launching", b, None)
    /\ UNCHANGED <<live, used, chromium, profile, torn>>

\* chooseEvictions: the least recently used, as many as are too many.
ChooseEvictions(order) == SubSeq(order, 1, Len(order) - MaxLive)

\* Chromium is up on the profile; the map has it, and then the cap is enforced.  With one
\* launch at most one browser is too many, and it leaves the map before the first await.
Launched(c) ==
    LET b == call[c].bot
        order == Append(Without(b), b)
        evicted == IF Len(order) > MaxLive THEN Range(ChooseEvictions(order)) ELSE {}
    IN  /\ call[c].at = "launching"
        /\ \E x \in Contexts :
              /\ chromium[x].is = "unborn"
              /\ LET map == [live EXCEPT ![b] = x]
                 IN  /\ live' = [o \in Bots |-> IF o \in evicted THEN None ELSE map[o]]
                     /\ chromium' = [y \in Contexts |->
                            IF y = x THEN [bot |-> b, is |-> "up"]
                            ELSE IF \E o \in evicted : live[o] = y /\ chromium[y].is \in {"up", "half"}
                            THEN [chromium[y] EXCEPT !.is = "closing"] ELSE chromium[y]]
                     /\ Set(c, "capping", b, IF evicted = {} THEN None
                                             ELSE live[CHOOSE o \in evicted : TRUE])
        /\ used' = IF evicted = {} THEN order ELSE SubSeq(order, Len(order) - MaxLive + 1, Len(order))
        /\ profile' = profile \union {b}
        /\ UNCHANGED <<starting, torn>>

\* The launch is over, with its eviction, or it failed; the entry is cleared either way.
LaunchEnds(c) ==
    /\ \/ call[c].at = "capping" /\ (call[c].on # None => Returned(call[c].on))
       \/ call[c].at = "launching"
    /\ starting' = [starting EXCEPT ![call[c].bot] = None]
    /\ call' = [d \in Calls |-> IF d = c \/ (call[d].at = "joined" /\ call[d].bot = call[c].bot)
                                THEN IdleCall ELSE call[d]]
    /\ UNCHANGED <<live, used, chromium, profile, torn>>

-----------------------------------------------------------------------------
(* stop, reset and the idle sweep *)

\* The browser leaves the map at once and is closed, which is awaited.
Evict(b) ==
    /\ live' = [live EXCEPT ![b] = None]
    /\ used' = Without(b)
    /\ chromium' = Is(live[b], "closing")

Stop(c, b, then) ==
    /\ Asks(c, b) /\ live[b] # None
    /\ Patient /\ then = "reset" => starting[b] = None
    /\ Evict(b)
    /\ call' = [call EXCEPT ![c] = [at |-> "stopping", bot |-> b, on |-> live[b], then |-> then]]
    /\ UNCHANGED <<starting, profile, torn>>

\* stop answers false when no browser is live; reset goes on to delete the directory.
ResetCold(c, b) ==
    /\ Asks(c, b) /\ live[b] = None
    /\ Patient => starting[b] = None
    /\ call' = [call EXCEPT ![c] = [at |-> "wiping", bot |-> b, on |-> None, then |-> "reset"]]
    /\ UNCHANGED <<live, used, starting, chromium, profile, torn>>

\* A reset that does not wait for the browser to be closed.
StoppedEarly(c) ==
    /\ call[c].at = "stopping"
    /\ IF call[c].then = "reset" THEN Set(c, "wiping", call[c].bot, None) ELSE Done(c)
    /\ UNCHANGED <<live, used, starting, chromium, profile, torn>>

Stopped(c) ==
    /\ call[c].at = "stopping" /\ Returned(call[c].on)
    /\ IF call[c].then = "reset" THEN Set(c, "wiping", call[c].bot, None) ELSE Done(c)
    /\ UNCHANGED <<live, used, starting, chromium, profile, torn>>

Wipe(c) ==
    LET b == call[c].bot IN
    /\ call[c].at = "wiping"
    /\ profile' = profile \ {b}
    /\ torn' = IF Open(b) # {} THEN torn \union {b} ELSE torn
    /\ Done(c)
    /\ UNCHANGED <<live, used, starting, chromium>>

\* The sweep closes a browser nothing has touched for long enough.
SweepIdle(b) ==
    /\ live[b] # None /\ Evict(b)
    /\ UNCHANGED <<starting, profile, call, torn>>

-----------------------------------------------------------------------------
(* Chromium *)

CloseReturns(x) ==
    /\ chromium[x].is = "closing"
    /\ chromium' = [chromium EXCEPT ![x].is = "closed"]
    /\ UNCHANGED <<live, used, starting, profile, call, torn>>

\* A process ends, closed or not.
Exits(x) ==
    /\ chromium[x].is \in {"up", "half", "closing", "closed"}
    /\ chromium' = [chromium EXCEPT ![x].is = "gone"]
    /\ UNCHANGED <<live, used, starting, profile, call, torn>>

PageCloses(x) ==
    /\ chromium[x].is = "up"
    /\ chromium' = [chromium EXCEPT ![x].is = "half"]
    /\ UNCHANGED <<live, used, starting, profile, call, torn>>

Next ==
    \/ \E c \in Calls :
          \/ \E b \in Bots :
                \/ PageJoins(c, b) \/ PageHits(c, b) \/ PageDrops(c, b) \/ PageStarts(c, b)
                \/ \E then \in {"stop", "reset"} : Stop(c, b, then)
                \/ ResetCold(c, b)
          \/ Dropped(c) \/ Launched(c) \/ LaunchEnds(c) \/ Stopped(c) \/ Wipe(c)
    \/ \E b \in Bots : SweepIdle(b)
    \/ \E x \in Contexts : CloseReturns(x) \/ Exits(x) \/ PageCloses(x)

Spec == Init /\ [][Next]_vars

-----------------------------------------------------------------------------
\* No two open browsers on one profile directory: a call that arrives during a launch waits
\* for it, and the next browser is started when close() of the one before it has returned.
OneOpenPerProfile == \A b \in Bots : Cardinality(Open(b)) <= 1

\* No directory is deleted under an open browser: a reset closes it first, and waits for that.
WipedAtRest == torn = {}

\* What the comments on page and reset say of processes, which the code cannot see: it does
\* not hold, since a process may outlive its close().
OneProcessPerProfile == \A b \in Bots : Cardinality(Processes(b)) <= 1
=============================================================================
