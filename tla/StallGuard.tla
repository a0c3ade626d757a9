----------------------------- MODULE StallGuard -----------------------------
(***************************************************************************)
(* The watch on the streams of Bots (createStallGuard, TurnWatchdog): a    *)
(* pump per stream moves the Bot's chunks into a relay, a sweeper ends the *)
(* streams that have been silent for Stall ticks.  JavaScript runs one     *)
(* step at a time, so each turn of the pump and each sweep is an action.   *)
(***************************************************************************)
EXTENDS Naturals, FiniteSets

CONSTANTS
    Streams,     \* responses of Bots, each opened at most once
    Stall,       \* stallMs, in ticks of the clock
    MaxChunks    \* bound on the chunks of one stream

VARIABLES
    pump,      \* where the pump of each stream is
    sse,       \* whether a sentence may be written into the relay
    tracked,   \* the guard's map of open streams
    watched,   \* the watchdog's map of open streams
    quiet,     \* ticks since lastChunkAt
    paused,    \* the watchdog's clock of the stream is stopped
    sweeper,   \* the interval timer is armed
    relay,     \* what was done to the relay: how many chunks, and how it was ended
    rows,      \* stall rows in the audit trail
    owed,      \* streams given up whose row is still to be inserted
    mute,      \* the Bot will never say anything again
    silence,   \* history: ticks the pump has really waited for the Bot
    blamed,    \* history: the silence for which each stream was given up
    stopped    \* stop was called

vars == <<pump, sse, tracked, watched, quiet, paused, sweeper, relay, rows, owed, mute,
          silence, blamed, stopped>>

Endings == {"close", "abort", "sentence"}

TypeOK ==
    /\ pump \in [Streams -> {"unopened", "reading", "writing", "over"}]
    /\ sse \in [Streams -> BOOLEAN]
    /\ tracked \subseteq Streams /\ watched \subseteq Streams
    /\ quiet \in [Streams -> 0..Stall] /\ silence \in [Streams -> 0..Stall]
    /\ blamed \in [Streams -> 0..Stall]
    /\ paused \in [Streams -> BOOLEAN] /\ mute \in [Streams -> BOOLEAN]
    /\ sweeper \in BOOLEAN /\ stopped \in BOOLEAN
    /\ relay \in [Streams -> [chunks : 0..MaxChunks, ends : [Endings -> 0..2]]]
    /\ rows \subseteq Streams /\ owed \subseteq Streams

Init ==
    /\ pump = [s \in Streams |-> "unopened"]
    /\ sse \in [Streams -> BOOLEAN]
    /\ tracked = {} /\ watched = {}
    /\ quiet = [s \in Streams |-> 0] /\ silence = quiet /\ blamed = quiet
    /\ paused = [s \in Streams |-> FALSE] /\ mute = paused
    /\ sweeper = FALSE /\ stopped = FALSE
    /\ relay = [s \in Streams |-> [chunks |-> 0, ends |-> [e \in Endings |-> 0]]]
    /\ rows = {} /\ owed = {}

End(s, e) == [relay[s] EXCEPT !.ends[e] = @ + 1]

\* watch: the response is ok and has a body, so it is tracked, watched and pumped.
Open(s) ==
    /\ pump[s] = "unopened"
    /\ pump' = [pump EXCEPT ![s] = "reading"]
    /\ tracked' = tracked \union {s}
    /\ watched' = watched \union {s}
    /\ quiet' = [quiet EXCEPT ![s] = 0]
    /\ paused' = [paused EXCEPT ![s] = FALSE]
    /\ sweeper' = TRUE
    /\ UNCHANGED <<sse, relay, rows, owed, mute, silence, blamed, stopped>>

-----------------------------------------------------------------------------
(* The pump *)

\* A pump that leaves the clock running across the handover.
ChunkUnpaused(s) ==
    /\ pump[s] = "reading" /\ s \in tracked /\ ~mute[s]
    /\ relay[s].chunks < MaxChunks
    /\ pump' = [pump EXCEPT ![s] = "writing"]
    /\ quiet' = [quiet EXCEPT ![s] = 0]
    /\ relay' = [relay EXCEPT ![s].chunks = @ + 1]
    /\ silence' = [silence EXCEPT ![s] = 0]
    /\ UNCHANGED <<sse, tracked, watched, paused, sweeper, rows, owed, mute, blamed, stopped>>

\* A read resolves with a chunk: record, pause, and the write is awaited.
Chunk(s) ==
    /\ pump[s] = "reading" /\ s \in tracked /\ ~mute[s]
    /\ relay[s].chunks < MaxChunks
    /\ pump' = [pump EXCEPT ![s] = "writing"]
    /\ quiet' = [quiet EXCEPT ![s] = 0]
    /\ paused' = [paused EXCEPT ![s] = TRUE]
    /\ relay' = [relay EXCEPT ![s].chunks = @ + 1]
    /\ silence' = [silence EXCEPT ![s] = 0]
    /\ UNCHANGED <<sse, tracked, watched, sweeper, rows, owed, mute, blamed, stopped>>

\* The reader of the relay takes the chunk: the write resolves, resume.
Taken(s) ==
    /\ pump[s] = "writing"
    /\ pump' = [pump EXCEPT ![s] = "reading"]
    /\ quiet' = [quiet EXCEPT ![s] = IF s \in watched THEN 0 ELSE @]
    /\ paused' = [paused EXCEPT ![s] = IF s \in watched THEN FALSE ELSE @]
    /\ UNCHANGED <<sse, tracked, watched, sweeper, relay, rows, owed, mute, silence, blamed, stopped>>

\* release answers only the first caller, and takes the stream off both maps.
Released(s) == tracked' = tracked \ {s} /\ watched' = watched \ {s}

\* An end that does not ask whether the stream was ended already.
PumpEndsAnyway(s, e) ==
    /\ pump' = [pump EXCEPT ![s] = "over"]
    /\ Released(s)
    /\ relay' = [relay EXCEPT ![s] = End(s, e)]
    /\ UNCHANGED <<sse, quiet, paused, sweeper, rows, owed, mute, silence, blamed, stopped>>

\* The pump's end: the Bot closed the stream, or a read or a write threw.
PumpEnds(s, e) ==
    /\ pump' = [pump EXCEPT ![s] = "over"]
    /\ Released(s)
    /\ relay' = IF s \in tracked THEN [relay EXCEPT ![s] = End(s, e)] ELSE relay
    /\ UNCHANGED <<sse, quiet, paused, sweeper, rows, owed, mute, silence, blamed, stopped>>

BotEnds(s) == pump[s] = "reading" /\ s \in tracked /\ ~mute[s] /\ PumpEnds(s, "close")

BotBreaks(s) == pump[s] = "reading" /\ s \in tracked /\ ~mute[s] /\ PumpEnds(s, "abort")

ReaderGone(s) == pump[s] = "writing" /\ PumpEnds(s, "abort")

\* The read that cancelUpstream cancelled resolves as done.
Cancelled(s) == pump[s] = "reading" /\ s \notin tracked /\ PumpEnds(s, "close")

-----------------------------------------------------------------------------
(* The sweeper *)

Silent == {s \in watched : ~paused[s] /\ quiet[s] >= Stall}

\* A sweep after which the timer is cleared whatever is left to watch.
SweepOnce ==
    /\ sweeper
    /\ watched' = watched \ Silent
    /\ tracked' = tracked \ Silent
    /\ relay' = [s \in Streams |->
                    IF s \in Silent \intersect tracked
                    THEN IF sse[s] THEN [End(s, "close") EXCEPT !.ends["sentence"] = @ + 1]
                                   ELSE End(s, "close")
                    ELSE relay[s]]
    /\ owed' = owed \union (Silent \intersect tracked)
    /\ blamed' = [s \in Streams |-> IF s \in Silent THEN silence[s] ELSE blamed[s]]
    /\ sweeper' = FALSE
    /\ UNCHANGED <<pump, sse, quiet, paused, rows, mute, silence, stopped>>

\* giveUp for each silent stream, up to the insert of its row; with nothing left to
\* watch the timer is cleared.
Sweep ==
    /\ sweeper
    /\ watched' = watched \ Silent
    /\ tracked' = tracked \ Silent
    /\ relay' = [s \in Streams |->
                    IF s \in Silent \intersect tracked
                    THEN IF sse[s] THEN [End(s, "close") EXCEPT !.ends["sentence"] = @ + 1]
                                   ELSE End(s, "close")
                    ELSE relay[s]]
    /\ owed' = owed \union (Silent \intersect tracked)
    /\ blamed' = [s \in Streams |-> IF s \in Silent THEN silence[s] ELSE blamed[s]]
    /\ sweeper' = (watched' # {})
    /\ UNCHANGED <<pump, sse, quiet, paused, rows, mute, silence, stopped>>

\* The insert of the row, which may fail and is not tried again.
Recorded(s) ==
    /\ s \in owed
    /\ owed' = owed \ {s}
    /\ \/ rows' = rows \union {s}
       \/ UNCHANGED rows
    /\ UNCHANGED <<pump, sse, tracked, watched, quiet, paused, sweeper, relay, mute, silence,
                   blamed, stopped>>

Disarm ==
    /\ ~stopped /\ stopped' = TRUE
    /\ sweeper' = FALSE
    /\ UNCHANGED <<pump, sse, tracked, watched, quiet, paused, relay, rows, owed, mute, silence,
                   blamed>>

-----------------------------------------------------------------------------
(* The Bot and the clock *)

GoesMute(s) ==
    /\ pump[s] \in {"reading", "writing"} /\ ~mute[s]
    /\ mute' = [mute EXCEPT ![s] = TRUE]
    /\ UNCHANGED <<pump, sse, tracked, watched, quiet, paused, sweeper, relay, rows, owed, silence,
                   blamed, stopped>>

Up(n) == IF n < Stall THEN n + 1 ELSE n

Tick ==
    /\ quiet' = [s \in Streams |-> IF s \in watched THEN Up(quiet[s]) ELSE quiet[s]]
    /\ silence' = [s \in Streams |-> IF pump[s] = "reading" THEN Up(silence[s]) ELSE silence[s]]
    /\ <<quiet, silence>>' # <<quiet, silence>>
    /\ UNCHANGED <<pump, sse, tracked, watched, paused, sweeper, relay, rows, owed, mute, blamed,
                   stopped>>

Next ==
    \/ \E s \in Streams :
          \/ Open(s) \/ Chunk(s) \/ Taken(s)
          \/ BotEnds(s) \/ BotBreaks(s) \/ ReaderGone(s) \/ Cancelled(s)
          \/ Recorded(s) \/ GoesMute(s)
    \/ Sweep \/ Disarm \/ Tick

\* The event loop fires the armed timer, and time passes.
Fairness == WF_vars(Sweep) /\ WF_vars(Tick)

Spec == Init /\ [][Next]_vars /\ Fairness

-----------------------------------------------------------------------------
\* What whoever reads a relay is promised: see Relay.
Ends(s) == relay[s].ends["close"] + relay[s].ends["abort"]
Promise == INSTANCE Relay WITH
    carried <- [s \in Streams |-> relay[s].chunks],
    ended <- [s \in Streams |-> Ends(s)],
    opened <- {s \in Streams : pump[s] # "unopened"}

\* The pump and the sweeper between them keep the promise of a relay: a stream is ended
\* once, by one of them, and nothing is written into it afterwards.
RelayKept == Promise!Spec

\* A Bot is given up only for Stall ticks in which the pump was waiting for it; the time
\* a reader of the relay takes is never counted against the Bot.
BlameIsEarned ==
    \A s \in Streams :
        /\ s \in owed \union rows => blamed[s] = Stall
        /\ relay[s].ends["sentence"] = 1 => blamed[s] = Stall /\ relay[s].ends["abort"] = 0

\* A Bot that goes silent while its pump waits has its stream ended.
SilentEnds ==
    \A s \in Streams :
        (mute[s] /\ pump[s] = "reading") ~>
            (stopped \/ Ends(s) = 1)
=============================================================================
