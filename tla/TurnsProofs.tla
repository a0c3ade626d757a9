---------------------------- MODULE TurnsProofs ----------------------------
(***************************************************************************)
(* What holds of the machines of MCTurns whatever the constants: for each  *)
(* an invariant that its own steps preserve, and the properties that the   *)
(* run checks as its consequences.                                         *)
(***************************************************************************)
EXTENDS MCTurns, FiniteSetTheorems, TLAPS

-----------------------------------------------------------------------------
(***************************************************************************)
(* The stall guard.                                                        *)
(***************************************************************************)

\* A step of the composition is a step of the guard or leaves its state alone.
LEMMA GuardSteps == [Next]_vars => [Guard!Next]_guardVars
  BY DEF Next, vars, GuardStep, BrowserStep, HostStep

\* The guard and the watchdog track the same streams, those whose pump is still at work; and the
\* watchdog's clock of a stream never runs ahead of the Bot's own silence.
Watching ==
    /\ tracked = watched
    /\ \A s \in watched :
         /\ pump[s] \in {"reading", "writing"}
         /\ pump[s] = "writing" => paused[s]
         /\ ~paused[s] => quiet[s] <= silence[s]

\* A stream has an end exactly when it is opened and no longer watched, and then one.
Ended ==
    /\ \A s \in Streams :
         \/ s \in watched \/ pump[s] = "unopened"
         \/ relay[s].ends["close"] = 1 /\ relay[s].ends["abort"] = 0
         \/ relay[s].ends["close"] = 0 /\ relay[s].ends["abort"] = 1
    /\ \A s \in Streams : s \in watched \/ pump[s] = "unopened" =>
         /\ relay[s].ends["close"] = 0 /\ relay[s].ends["abort"] = 0
         /\ relay[s].ends["sentence"] = 0

\* What was said of a Bot was earned by Stall ticks of silence.
Blamed ==
    /\ \A s \in owed \union rows : blamed[s] = Stall
    /\ \A s \in Streams : relay[s].ends["sentence"] \in {0, 1}
    /\ \A s \in Streams : relay[s].ends["sentence"] = 1 =>
         blamed[s] = Stall /\ relay[s].ends["abort"] = 0

GuardInv == Guard!TypeOK /\ Watching /\ Ended /\ Blamed

\* PumpEnds, which four actions share: the pump is over and the end is the pump's if it was first.
LEMMA PumpEndKeeps ==
  ASSUME GuardInv, NEW s \in Streams, NEW e \in {"close", "abort"},
         pump[s] \in {"reading", "writing"}, Guard!PumpEnds(s, e)
  PROVE  GuardInv'
<1> USE GuardAssumption DEF GuardInv, Guard!TypeOK, Guard!Endings
<1>1. \A t \in Streams : t # s => relay'[t] = relay[t]
  BY DEF Guard!PumpEnds
<1>2. CASE s \in tracked
  <2>1. relay'[s] = [relay[s] EXCEPT !.ends[e] = @ + 1]
    BY <1>2 DEF Guard!PumpEnds, Guard!End
  <2>2. relay[s].ends["close"] = 0 /\ relay[s].ends["abort"] = 0 /\ relay[s].ends["sentence"] = 0
    BY <1>2 DEF Watching, Ended
  <2>3. /\ relay'[s].ends[e] = 1
        /\ \A f \in {"close", "abort", "sentence"} \ {e} : relay'[s].ends[f] = 0
    BY <2>1, <2>2
  <2>4. Guard!TypeOK'
    <3>1. relay'[s] \in [chunks : 0..MaxChunks, ends : [{"close", "abort", "sentence"} -> 0..2]]
      BY <2>1, <2>2
    <3>2. relay' = [relay EXCEPT ![s] = relay'[s]]
      BY <1>2 DEF Guard!PumpEnds, Guard!End
    <3> QED
      BY <3>1, <3>2 DEF Guard!PumpEnds, Guard!Released
  <2>5. Watching'
    BY DEF Guard!PumpEnds, Guard!Released, Watching
  <2>6. Ended'
    <3>1. pump'[s] = "over" /\ \A t \in Streams : t # s => pump'[t] = pump[t]
      BY DEF Guard!PumpEnds
    <3>2. watched' = watched \ {s}
      BY DEF Guard!PumpEnds, Guard!Released
    <3> QED
      BY <1>1, <2>3, <3>1, <3>2 DEF Ended
  <2>7. Blamed'
    BY <1>1, <2>2, <2>3 DEF Guard!PumpEnds, Blamed
  <2> QED
    BY <2>4, <2>5, <2>6, <2>7
<1>3. CASE s \notin tracked
  <2>1. relay' = relay /\ tracked' = tracked /\ watched' = watched
    BY <1>3 DEF Guard!PumpEnds, Guard!Released, Watching
  <2> QED
    BY <1>3, <2>1 DEF Guard!PumpEnds, Watching, Ended, Blamed
<1> QED
  BY <1>2, <1>3

\* A sweep ends what is silent: it had no end yet, and its silence was the Bot's.
LEMMA SweepKeeps ==
  ASSUME GuardInv, Guard!Sweep
  PROVE  GuardInv'
<1> USE GuardAssumption DEF GuardInv, Guard!TypeOK, Guard!Endings
<1>1. \A s \in Streams \ Guard!Silent : relay'[s] = relay[s] /\ blamed'[s] = blamed[s]
  BY DEF Guard!Sweep
<1>2. \A s \in Guard!Silent : s \in Streams /\ s \in watched /\ silence[s] = Stall
  <2> SUFFICES ASSUME NEW s \in Guard!Silent PROVE s \in Streams /\ s \in watched /\ silence[s] = Stall
    OBVIOUS
  <2>1. s \in watched /\ ~paused[s] /\ quiet[s] >= Stall
    BY DEF Guard!Silent
  <2>2. s \in Streams /\ quiet[s] \in 0..Stall /\ silence[s] \in 0..Stall
    BY <2>1
  <2>3. quiet[s] <= silence[s]
    BY <2>1 DEF Watching
  <2>4. \A q, r \in 0..Stall : q >= Stall /\ q <= r => r = Stall
    BY GuardAssumption
  <2> QED
    BY <2>1, <2>2, <2>3, <2>4
<1>3. \A s \in Guard!Silent :
        /\ relay[s].ends["close"] = 0 /\ relay[s].ends["abort"] = 0 /\ relay[s].ends["sentence"] = 0
        /\ blamed'[s] = Stall
  <2>1. blamed' = [s \in Streams |-> IF s \in Guard!Silent THEN silence[s] ELSE blamed[s]]
    BY DEF Guard!Sweep
  <2> QED
    BY <1>2, <2>1 DEF Ended
<1>4. ASSUME NEW s \in Guard!Silent
      PROVE  /\ relay'[s].chunks = relay[s].chunks
             /\ relay'[s] \in [chunks : 0..MaxChunks, ends : [{"close", "abort", "sentence"} -> 0..2]]
             /\ relay'[s].ends["close"] = 1 /\ relay'[s].ends["abort"] = 0
             /\ relay'[s].ends["sentence"] \in {0, 1}
  <2>1. relay[s].chunks \in 0..MaxChunks
        /\ relay[s].ends \in [{"close", "abort", "sentence"} -> 0..2]
        /\ s \in Streams
    BY <1>2
  <2>2. relay'[s] = IF sse[s] THEN [Guard!End(s, "close") EXCEPT !.ends["sentence"] = @ + 1]
                    ELSE Guard!End(s, "close")
    BY <1>2, <2>1 DEF Guard!Sweep, Watching
  <2>3. relay[s].ends["close"] = 0 /\ relay[s].ends["abort"] = 0 /\ relay[s].ends["sentence"] = 0
    BY <1>3
  <2>4. CASE sse[s]
    <3> DEFINE closed == Guard!End(s, "close")
    <3>1. /\ closed \in [chunks : 0..MaxChunks, ends : [{"close", "abort", "sentence"} -> 0..2]]
          /\ closed.chunks = relay[s].chunks
          /\ closed.ends["close"] = 1 /\ closed.ends["abort"] = 0 /\ closed.ends["sentence"] = 0
      BY <2>1, <2>3 DEF Guard!End
    <3>2. relay'[s] = [closed EXCEPT !.ends["sentence"] = @ + 1]
      BY <2>2, <2>4
    <3> HIDE DEF closed
    <3> QED
      BY <3>1, <3>2
  <2>5. CASE ~sse[s]
    BY <2>1, <2>2, <2>3, <2>5 DEF Guard!End
  <2> QED
    BY <2>4, <2>5
<1>5. Guard!TypeOK'
  <2>1. relay' \in [Streams -> [chunks : 0..MaxChunks, ends : [{"close", "abort", "sentence"} -> 0..2]]]
    <3>1. relay' = [s \in Streams |-> relay'[s]]
      BY DEF Guard!Sweep
    <3> QED
      BY <1>1, <1>4, <3>1
  <2> QED
    BY <2>1 DEF Guard!Sweep
<1>6. Watching'
  BY DEF Guard!Sweep, Watching
<1>7. Ended'
  <2>1. watched' = watched \ Guard!Silent /\ pump' = pump
    BY DEF Guard!Sweep
  <2>2. \A s \in Streams : s \in watched' => s \in watched /\ s \notin Guard!Silent
    BY <2>1
  <2>3. ASSUME NEW s \in Streams
        PROVE  \/ s \in watched' \/ pump'[s] = "unopened"
               \/ relay'[s].ends["close"] = 1 /\ relay'[s].ends["abort"] = 0
               \/ relay'[s].ends["close"] = 0 /\ relay'[s].ends["abort"] = 1
    BY <1>1, <1>4, <2>1 DEF Ended
  <2>4. ASSUME NEW s \in Streams, s \in watched' \/ pump'[s] = "unopened"
        PROVE  relay'[s].ends["close"] = 0 /\ relay'[s].ends["abort"] = 0
               /\ relay'[s].ends["sentence"] = 0
    <3>1. s \notin Guard!Silent
      BY <1>2, <2>1, <2>2, <2>4 DEF Watching
    <3> QED
      BY <1>1, <2>1, <2>2, <2>4, <3>1 DEF Ended
  <2> QED
    BY <2>3, <2>4 DEF Ended
<1>8. Blamed'
  BY <1>1, <1>2, <1>3, <1>4 DEF Guard!Sweep, Blamed
<1> QED
  BY <1>5, <1>6, <1>7, <1>8

\* Every chunk, pause, tick and end keeps the guard in step with its streams.
LEMMA GuardInvStays == GuardInv /\ [Guard!Next]_guardVars => GuardInv'
<1> SUFFICES ASSUME GuardInv, [Guard!Next]_guardVars PROVE GuardInv'
  OBVIOUS
<1> USE GuardAssumption DEF GuardInv, Guard!TypeOK, Guard!Endings, Watching, Ended, Blamed
<1>1. ASSUME NEW s \in Streams, Guard!Open(s) PROVE GuardInv'
  BY <1>1 DEF Guard!Open
<1>2. ASSUME NEW s \in Streams, Guard!Chunk(s) PROVE GuardInv'
  <2>1. relay'[s].chunks \in 0..MaxChunks /\ relay'[s].ends = relay[s].ends
        /\ \A t \in Streams : t # s => relay'[t] = relay[t]
    BY <1>2 DEF Guard!Chunk
  <2>2. \A t \in Streams : relay'[t].ends = relay[t].ends
    BY <2>1
  <2>3. Guard!TypeOK'
    BY <1>2, <2>1 DEF Guard!Chunk
  <2>4. Watching' /\ Ended' /\ Blamed'
    BY <1>2, <2>2 DEF Guard!Chunk
  <2> QED
    BY <2>3, <2>4
<1>3. ASSUME NEW s \in Streams, Guard!Taken(s) PROVE GuardInv'
  <2>1. Guard!TypeOK'
    <3>1. paused' \in [Streams -> BOOLEAN]
      BY <1>3, Zenon DEF Guard!Taken
    <3>2. quiet' \in [Streams -> 0..Stall]
      BY <1>3 DEF Guard!Taken
    <3> QED
      BY <1>3, <3>1, <3>2 DEF Guard!Taken
  <2>4. Watching'
    BY <1>3 DEF Guard!Taken
  <2>2. Ended'
    BY <1>3 DEF Guard!Taken
  <2>3. Blamed'
    BY <1>3 DEF Guard!Taken
  <2> QED
    BY <2>1, <2>2, <2>3, <2>4
<1>4. ASSUME NEW s \in Streams,
             Guard!BotEnds(s) \/ Guard!BotBreaks(s) \/ Guard!ReaderGone(s) \/ Guard!Cancelled(s)
      PROVE  GuardInv'
  <2>1. PICK e \in {"close", "abort"} :
               pump[s] \in {"reading", "writing"} /\ Guard!PumpEnds(s, e)
    BY <1>4 DEF Guard!BotEnds, Guard!BotBreaks, Guard!ReaderGone, Guard!Cancelled
  <2> QED
    BY <2>1, PumpEndKeeps
<1>5. ASSUME NEW s \in Streams, Guard!Recorded(s) PROVE GuardInv'
  BY <1>5 DEF Guard!Recorded
<1>6. ASSUME NEW s \in Streams, Guard!GoesMute(s) PROVE GuardInv'
  BY <1>6 DEF Guard!GoesMute
<1>7. CASE Guard!Sweep
  BY <1>7, SweepKeeps
<1>8. CASE Guard!Disarm
  BY <1>8 DEF Guard!Disarm
<1>9. CASE Guard!Tick
  BY <1>9 DEF Guard!Tick, Guard!Up
<1>10. CASE UNCHANGED guardVars
  BY <1>10 DEF guardVars
<1> QED
  BY <1>1, <1>2, <1>3, <1>4, <1>5, <1>6, <1>7, <1>8, <1>9, <1>10 DEF Guard!Next

\* So it is so in every behaviour.
LEMMA GuardInvAlways == Spec => []GuardInv
<1>1. ASSUME Guard!Init PROVE GuardInv
  <2>1. Guard!TypeOK
    <3>1. relay \in [Streams -> [chunks : 0..MaxChunks, ends : [Guard!Endings -> 0..2]]]
      BY <1>1, GuardAssumption DEF Guard!Init, Guard!Endings
    <3>2. paused \in [Streams -> BOOLEAN] /\ mute \in [Streams -> BOOLEAN]
      BY <1>1, Zenon DEF Guard!Init
    <3>3. /\ quiet \in [Streams -> 0..Stall] /\ silence \in [Streams -> 0..Stall]
          /\ blamed \in [Streams -> 0..Stall]
          /\ pump \in [Streams -> {"unopened", "reading", "writing", "over"}]
      BY <1>1, GuardAssumption DEF Guard!Init
    <3>4. /\ sse \in [Streams -> BOOLEAN] /\ sweeper \in BOOLEAN /\ stopped \in BOOLEAN
          /\ tracked = {} /\ watched = {} /\ rows = {} /\ owed = {}
      BY <1>1, Zenon DEF Guard!Init
    <3> QED
      BY <3>1, <3>2, <3>3, <3>4 DEF Guard!TypeOK
  <2>2. Watching /\ Ended /\ Blamed
    BY <1>1 DEF Guard!Init, Guard!Endings, Watching, Ended, Blamed
  <2> QED
    BY <2>1, <2>2 DEF GuardInv
<1> QED
  BY <1>1, GuardInvStays, GuardSteps, PTL DEF Spec, Init

\* A Bot is given up only for a silence of its own, whatever its readers do meanwhile (the clock
\* that createStallGuard pauses while a write is awaited).
THEOREM BlameIsEarnedAlways == Spec => []BlameIsEarned
<1>1. GuardInv => BlameIsEarned
  BY DEF GuardInv, Blamed, BlameIsEarned, Guard!BlameIsEarned, Guard!TypeOK
<1> QED
  BY <1>1, GuardInvAlways, PTL

(***************************************************************************)
(* The guard implements a relay: every step of its machine is one of       *)
(* Relay's, or leaves what a reader sees alone.                            *)
(***************************************************************************)

\* What a reader sees of the streams.
seenOpened == {s \in Streams : pump[s] # "unopened"}
seenCarried == [s \in Streams |-> relay[s].chunks]
seenEnded == [s \in Streams |-> Guard!Ends(s)]

\* A stream that is watched has not ended; one that was has, once.
LEMMA EndsKnown ==
  ASSUME GuardInv, NEW s \in Streams
  PROVE  /\ s \in watched \/ pump[s] = "unopened" => Guard!Ends(s) = 0
         /\ s \notin watched /\ pump[s] # "unopened" => Guard!Ends(s) = 1
  BY DEF GuardInv, Ended, Guard!Ends

\* A pump that ends finishes its stream if it was the first to, and is not seen otherwise.
LEMMA PumpEndIsSeen ==
  ASSUME GuardInv, GuardInv', NEW s \in Streams, NEW e \in {"close", "abort"},
         pump[s] \in {"reading", "writing"}, Guard!PumpEnds(s, e)
  PROVE  Guard!Promise!Finish({s}) \/ UNCHANGED <<seenOpened, seenCarried, seenEnded>>
<1> USE DEF seenOpened, seenCarried, seenEnded
<1>1. seenOpened' = seenOpened
  BY DEF Guard!PumpEnds, GuardInv, Guard!TypeOK
<1>2. seenCarried' = seenCarried
  BY DEF Guard!PumpEnds, Guard!End, GuardInv, Guard!TypeOK
<1>3. \A t \in Streams : t # s => relay'[t] = relay[t]
  BY DEF Guard!PumpEnds, GuardInv, Guard!TypeOK
<1>4. pump'[s] = "over" /\ watched' = watched \ {s} /\ s \notin watched'
  BY DEF Guard!PumpEnds, Guard!Released, GuardInv, Guard!TypeOK
<1>5. Guard!Ends(s)' = 1
  BY <1>4, EndsKnown DEF GuardInv, Ended, Guard!Ends
<1>6. CASE s \in watched
  <2>1. Guard!Ends(s) = 0
    BY <1>6, EndsKnown
  <2>2. seenEnded' = [t \in Streams |-> IF t \in {s} THEN 1 ELSE seenEnded[t]]
    BY <1>3, <1>5 DEF Guard!Ends
  <2> QED
    BY <1>1, <1>2, <2>1, <2>2 DEF Guard!Promise!Finish, Guard!Promise!Live
<1>7. CASE s \notin watched
  <2>1. relay' = relay
    BY <1>7 DEF Guard!PumpEnds, GuardInv, Watching
  <2> QED
    BY <1>1, <1>2, <2>1 DEF Guard!Ends
<1> QED
  BY <1>6, <1>7

\* A sweep finishes all that are silent at once.
LEMMA SweepIsSeen ==
  ASSUME GuardInv, GuardInv', Guard!Sweep
  PROVE  \/ \E S \in SUBSET Streams : Guard!Promise!Finish(S)
         \/ UNCHANGED <<seenOpened, seenCarried, seenEnded>>
<1> USE DEF seenOpened, seenCarried, seenEnded
<1>1. Guard!Silent \in SUBSET Streams /\ Guard!Silent \subseteq watched /\ tracked = watched
  BY DEF Guard!Silent, GuardInv, Guard!TypeOK, Watching
<1>2. \A s \in Guard!Silent : pump[s] # "unopened" /\ Guard!Ends(s) = 0
  BY <1>1, EndsKnown DEF GuardInv, Watching
<1>3. pump' = pump /\ watched' = watched \ Guard!Silent
  BY DEF Guard!Sweep
<1>4. \A s \in Guard!Silent : Guard!Ends(s)' = 1
  BY <1>1, <1>2, <1>3 DEF GuardInv, Ended, Guard!Ends
<1>5. \A s \in Streams \ Guard!Silent : relay'[s] = relay[s]
  BY DEF Guard!Sweep
<1>6. seenCarried' = seenCarried
  <2>1. \A s \in Streams : relay'[s].chunks = relay[s].chunks
    <3> SUFFICES ASSUME NEW s \in Streams PROVE relay'[s].chunks = relay[s].chunks
      OBVIOUS
    <3>1. relay[s] \in [chunks : 0..MaxChunks, ends : [Guard!Endings -> 0..2]]
      BY DEF GuardInv, Guard!TypeOK
    <3>2. Guard!End(s, "close").chunks = relay[s].chunks
          /\ "ends" \in DOMAIN Guard!End(s, "close") /\ "chunks" \in DOMAIN Guard!End(s, "close")
      BY <3>1 DEF Guard!End
    <3>3. [Guard!End(s, "close") EXCEPT !.ends["sentence"] = @ + 1].chunks = relay[s].chunks
      BY <3>1, <3>2 DEF Guard!End
    <3>4. relay'[s] = relay[s] \/ relay'[s] = Guard!End(s, "close")
          \/ relay'[s] = [Guard!End(s, "close") EXCEPT !.ends["sentence"] = @ + 1]
      BY DEF Guard!Sweep
    <3> QED
      BY <3>2, <3>3, <3>4
  <2> QED
    BY <2>1
<1>7. seenEnded' = [s \in Streams |-> IF s \in Guard!Silent THEN 1 ELSE seenEnded[s]]
  BY <1>1, <1>4, <1>5 DEF Guard!Ends
<1>8. CASE Guard!Silent = {}
  BY <1>3, <1>6, <1>7, <1>8
<1>9. CASE Guard!Silent # {}
  <2>1. \A s \in Guard!Silent : s \in seenOpened /\ seenEnded[s] = 0
    BY <1>1, <1>2
  <2>2. Guard!Promise!Finish(Guard!Silent)
    BY <1>3, <1>6, <1>7, <1>9, <2>1 DEF Guard!Promise!Finish, Guard!Promise!Live
  <2> QED
    BY <1>1, <2>2
<1> QED
  BY <1>8, <1>9

\* A step of the guard is, to who is handed the stream, one of its promise or none.
LEMMA GuardStepIsSeen ==
  GuardInv /\ GuardInv' /\ [Guard!Next]_guardVars => [Guard!Promise!Next]_(Guard!Promise!vars)
<1> SUFFICES ASSUME GuardInv, GuardInv', [Guard!Next]_guardVars
             PROVE  Guard!Promise!Next \/ UNCHANGED <<seenOpened, seenCarried, seenEnded>>
  BY DEF Guard!Promise!vars, seenOpened, seenCarried, seenEnded
<1> USE DEF seenOpened, seenCarried, seenEnded, GuardInv, Guard!TypeOK
<1>1. ASSUME NEW s \in Streams, Guard!Open(s) PROVE Guard!Promise!Next
  <2>1. seenOpened' = seenOpened \union {s} /\ s \notin seenOpened
    BY <1>1 DEF Guard!Open
  <2>2. UNCHANGED <<seenCarried, seenEnded>>
    BY <1>1 DEF Guard!Open, Guard!Ends
  <2> QED
    BY <2>1, <2>2 DEF Guard!Promise!Next, Guard!Promise!Begin
<1>2. ASSUME NEW s \in Streams, Guard!Chunk(s) PROVE Guard!Promise!Next
  <2>1. seenOpened' = seenOpened /\ s \in seenOpened
    BY <1>2 DEF Guard!Chunk
  <2>2. seenEnded' = seenEnded /\ seenEnded[s] = 0
    BY <1>2, EndsKnown DEF Guard!Chunk, Guard!Ends, Watching
  <2>3. seenCarried' = [seenCarried EXCEPT ![s] = @ + 1]
    <3>1. relay'[s].chunks = relay[s].chunks + 1 /\ \A t \in Streams : t # s => relay'[t] = relay[t]
      BY <1>2 DEF Guard!Chunk
    <3> QED
      BY <3>1
  <2> QED
    BY <2>1, <2>2, <2>3 DEF Guard!Promise!Next, Guard!Promise!Carry, Guard!Promise!Live
<1>3. ASSUME NEW s \in Streams, Guard!Taken(s) PROVE UNCHANGED <<seenOpened, seenCarried, seenEnded>>
  BY <1>3 DEF Guard!Taken, Guard!Ends
<1>4. ASSUME NEW s \in Streams,
             Guard!BotEnds(s) \/ Guard!BotBreaks(s) \/ Guard!ReaderGone(s) \/ Guard!Cancelled(s)
      PROVE  Guard!Promise!Next \/ UNCHANGED <<seenOpened, seenCarried, seenEnded>>
  <2>1. PICK e \in {"close", "abort"} :
               pump[s] \in {"reading", "writing"} /\ Guard!PumpEnds(s, e)
    BY <1>4 DEF Guard!BotEnds, Guard!BotBreaks, Guard!ReaderGone, Guard!Cancelled
  <2>2. {s} \in SUBSET Streams
    OBVIOUS
  <2> QED
    BY <2>1, <2>2, PumpEndIsSeen DEF Guard!Promise!Next
<1>5. ASSUME NEW s \in Streams, Guard!Recorded(s) \/ Guard!GoesMute(s)
      PROVE  UNCHANGED <<seenOpened, seenCarried, seenEnded>>
  BY <1>5 DEF Guard!Recorded, Guard!GoesMute, Guard!Ends
<1>6. CASE Guard!Sweep
  BY <1>6, SweepIsSeen DEF Guard!Promise!Next
<1>7. CASE Guard!Disarm \/ Guard!Tick \/ UNCHANGED guardVars
  BY <1>7 DEF Guard!Disarm, Guard!Tick, guardVars, Guard!Ends
<1> QED
  BY <1>1, <1>2, <1>3, <1>4, <1>5, <1>6, <1>7 DEF Guard!Next

\* createStallGuard keeps the promise of a relay: a stream carries chunks until it is ended, by the
\* Bot or by the sweep and once, and none after.
THEOREM RelayKeptAlways == Spec => RelayKept
<1>1. Init => Guard!Promise!Init
  BY DEF Init, Guard!Init, Guard!Promise!Init, Guard!Ends, Guard!Endings
<1> QED
  BY <1>1, GuardInvAlways, GuardSteps, GuardStepIsSeen, PTL
  DEF Spec, RelayKept, Guard!RelayKept, Guard!Promise!Spec

-----------------------------------------------------------------------------
(***************************************************************************)
(* The computer tools of the page.                                         *)
(***************************************************************************)

\* A step of the composition is one of the assistant, or leaves it as it was.
LEMMA ToolSteps == [Next]_vars => [Tool!Next]_assistVars
  BY DEF Next, vars, GuardStep, BrowserStep, HostStep, browserVars

\* A call remembers the computer its request went to, and every list holds what came from there.
CallsAreSomewhere ==
    /\ call = [k \in Calls |-> call[k]]
    /\ \A k \in Calls : "at" \in DOMAIN call[k] /\ call[k].at \in Tool!Computers
ListsAreOwn ==
    /\ log \in [Tool!Computers -> Seq(Tool!Computers)]
    /\ \A c \in Tool!Computers : \A i \in DOMAIN log[c] : log[c][i] = c
    /\ \A x \in browsed : x[1] = x[2]

AssistInv == surface \in Tool!Computers /\ CallsAreSomewhere /\ ListsAreOwn

\* Recorded puts one more entry at the end and may drop the oldest.
LEMMA RecordedIsOwn ==
  ASSUME NEW S, NEW entries \in Seq(S), NEW e \in S, \A i \in DOMAIN entries : entries[i] = e
  PROVE  /\ Tool!Recorded(entries, e) \in Seq(S)
         /\ \A i \in DOMAIN Tool!Recorded(entries, e) : Tool!Recorded(entries, e)[i] = e
<1> DEFINE all == Append(entries, e)
<1>1. all \in Seq(S) /\ all # <<>> /\ \A i \in DOMAIN all : all[i] = e
  OBVIOUS
<1>2. Tail(all) \in Seq(S) /\ \A i \in DOMAIN Tail(all) : Tail(all)[i] = e
  BY <1>1
<1> QED
  BY <1>1, <1>2 DEF Tool!Recorded

\* Every call, poll and switch keeps the pane to its own Bot.
LEMMA AssistInvStays == AssistInv /\ [Tool!Next]_assistVars => AssistInv'
<1> SUFFICES ASSUME AssistInv, [Tool!Next]_assistVars PROVE AssistInv'
  OBVIOUS
<1> USE DEF AssistInv, CallsAreSomewhere, ListsAreOwn
<1>1. ASSUME NEW b \in Bots, Tool!Open(b) PROVE AssistInv'
  BY <1>1 DEF Tool!Open, Tool!Computers
<1>2. ASSUME NEW k \in Calls, NEW b \in Bots, NEW kind \in Tool!Kinds, Tool!Begin(k, b, kind)
      PROVE  AssistInv'
  BY <1>2 DEF Tool!Begin, Tool!Nobody, Tool!Computers
<1>3. ASSUME NEW k \in Calls, Tool!Serve(k) PROVE AssistInv'
  <2>1. PICK ok : call' = [call EXCEPT ![k].pc = "answer", ![k].ok = ok]
    BY <1>3 DEF Tool!Serve
  <2>2. UNCHANGED <<surface, log, browsed>>
    BY <1>3 DEF Tool!Serve
  <2>3. CallsAreSomewhere'
    BY <2>1, <2>2
  <2> QED
    BY <2>2, <2>3
<1>4. ASSUME NEW k \in Calls, Tool!Answer(k) PROVE AssistInv'
  <2>1. CallsAreSomewhere'
    BY <1>4 DEF Tool!Answer, Tool!Nobody, Tool!Computers, Tool!Kinds, Tool!Default
  <2>2. call[k].at \in Tool!Computers
    OBVIOUS
  <2>3. /\ log' \in [Tool!Computers -> Seq(Tool!Computers)]
        /\ \A c \in Tool!Computers : \A i \in DOMAIN log'[c] : log'[c][i] = c
    BY <1>4, <2>2, RecordedIsOwn DEF Tool!Answer
  <2>4. \A x \in browsed' : x[1] = x[2]
    BY <1>4 DEF Tool!Answer
  <2> QED
    BY <1>4, <2>1, <2>3, <2>4 DEF Tool!Answer
<1>5. ASSUME NEW k \in Calls,
             Tool!BeginWait(k) \/ Tool!WaitForPerson(k) \/ Tool!GiveUp(k) \/ Tool!Stop(k)
      PROVE  AssistInv'
  BY <1>5 DEF Tool!BeginWait, Tool!WaitForPerson, Tool!GiveUp, Tool!Stop, Tool!Nobody,
              Tool!Computers, Tool!Kinds, Tool!Default
<1>6. ASSUME NEW c \in Tool!Computers, Tool!SetComputerState(c) PROVE AssistInv'
  BY <1>6 DEF Tool!SetComputerState
<1>7. CASE Tool!Tick
  BY <1>7 DEF Tool!Tick
<1>8. CASE Tool!PollControl
  BY <1>8 DEF Tool!PollControl
<1>9. ASSUME NEW c, NEW kind PROVE call' = Tool!Helped(c, kind) => CallsAreSomewhere'
  BY DEF Tool!Helped
<1>10. CASE Tool!TakeControl \/ Tool!HandBack \/ Tool!SupplySecret
  <2>1. CallsAreSomewhere'
    BY <1>9, <1>10 DEF Tool!TakeControl, Tool!HandBack, Tool!SupplySecret
  <2> QED
    BY <1>10, <2>1 DEF Tool!TakeControl, Tool!HandBack, Tool!SupplySecret
<1>11. CASE UNCHANGED assistVars
  BY <1>11 DEF assistVars
<1> QED
  BY <1>1, <1>2, <1>3, <1>4, <1>5, <1>6, <1>7, <1>8, <1>10, <1>11 DEF Tool!Next

\* The pane of a computer lists what was done on that computer, and shows its screen only, however
\* the person moves between conversations while a call is out (copilot/computer-tools.tsx reads the
\* holder once, before the request).
THEOREM PaneTellsOwnAlways == Spec => []PaneTellsOwn
<1>1. Init => AssistInv
  BY DEF Init, Tool!Init, AssistInv, CallsAreSomewhere, ListsAreOwn, Tool!Nobody,
         Tool!Computers, Tool!Kinds, Tool!Default
<1>2. AssistInv => PaneTellsOwn
  BY DEF AssistInv, ListsAreOwn, PaneTellsOwn, Tool!PaneTellsOwn
<1> QED
  BY <1>1, <1>2, AssistInvStays, ToolSteps, PTL DEF Spec

-----------------------------------------------------------------------------
(***************************************************************************)
(* The conversation.                                                       *)
(***************************************************************************)

\* A step of the composition is one of the conversation, or leaves it as it was.
LEMMA ChatSteps == [Next]_vars => [Chat!Next]_chatVars
  BY DEF Next, vars, GuardStep, BrowserStep, HostStep, browserVars

\* What is typed, in some order: each message is its number.
Words(n) == Seq(1..n)
Ascending(s) == \A i, j \in 1..Len(s) : i < j => s[i] < s[j]
Before(s, t) == \A i \in 1..Len(s), j \in 1..Len(t) : s[i] < t[j]
\* What is in the composer's box, as a sequence of one or none.
Boxed == IF box = 0 THEN <<>> ELSE <<box>>

Phases == {"none", "ready", "join", "run", "gap"}
TurnsOf(n) ==
    [Turns -> [phase : Phases, says : Words(n), agent : {"provisional", "runtime"}, gaps : Nat]]

ChatTypes ==
    /\ typed \in Nat /\ box \in 0..typed
    /\ queue \in Words(typed) /\ stored \in Words(typed)
    /\ turn \in TurnsOf(typed)

\* A browser tool executes only in the gap of its turn, so without buttons, where there is one turn
\* at a time, none does when a turn delivers.
OneAtATime ==
    /\ calls \subseteq {t \in Turns : turn[t].phase = "gap"}
    /\ ~mixed /\ (forged => buttons)
    /\ buttons \/ \A t, u \in Turns : turn[t].phase # "none" /\ turn[u].phase # "none" => t = u

\* What was delivered was typed before what is about to be, that before what is parked, and that
\* before what is in the box.
Undelivered(t) == turn[t].phase \in {"ready", "join"}
InOrder ==
    \/ buttons
    \/ /\ Ascending(stored) /\ Ascending(queue)
       /\ Before(stored, queue) /\ Before(stored, Boxed) /\ Before(queue, Boxed)
       /\ \A t \in Turns : Undelivered(t) =>
            /\ Ascending(turn[t].says)
            /\ Before(stored, turn[t].says) /\ Before(turn[t].says, queue)
            /\ Before(turn[t].says, Boxed)

ChatInv == ChatTypes /\ OneAtATime /\ InOrder

\* Sequences of messages, and what is in them.
LEMMA WordsHold ==
  ASSUME NEW n \in Nat
  PROVE  /\ <<>> \in Words(n)
         /\ \A e \in 1..n : <<e>> \in Words(n) /\ Len(<<e>>) = 1 /\ <<e>>[1] = e
         /\ \A s \in Words(n) : DOMAIN s = 1..Len(s) /\ \A i \in 1..Len(s) : s[i] \in 1..n
         /\ \A m \in Nat : n <= m => Words(n) \subseteq Words(m)
<1>1. ASSUME NEW m \in Nat, n <= m PROVE Words(n) \subseteq Words(m)
  <2>1. 1..n \subseteq 1..m
    BY <1>1
  <2> QED
    BY <2>1 DEF Words
<1>2. ASSUME NEW e \in 1..n PROVE <<e>> \in Words(n) /\ Len(<<e>>) = 1 /\ <<e>>[1] = e
  BY DEF Words
<1>3. ASSUME NEW s \in Words(n)
      PROVE  DOMAIN s = 1..Len(s) /\ \A i \in 1..Len(s) : s[i] \in 1..n
  BY DEF Words
<1>4. <<>> \in Words(n)
  BY DEF Words
<1> QED
  BY <1>1, <1>2, <1>3, <1>4

\* A later message goes last: order is kept.
LEMMA AppendKeepsOrder ==
  ASSUME NEW n \in Nat, NEW s \in Words(n), NEW e \in 1..n, Ascending(s), Before(s, <<e>>)
  PROVE  /\ Append(s, e) \in Words(n) /\ Ascending(Append(s, e))
         /\ \A r \in Words(n) : Before(r, s) /\ Before(r, <<e>>) => Before(r, Append(s, e))
<1> DEFINE all == Append(s, e)
<1>1. /\ all \in Words(n) /\ Len(all) = Len(s) + 1
      /\ \A i \in 1..Len(s) : all[i] = s[i]
      /\ all[Len(s) + 1] = e
  BY DEF Words
<1>2. /\ Len(<<e>>) = 1 /\ <<e>>[1] = e /\ Len(s) \in Nat
      /\ \A i \in 1..Len(s) : s[i] \in 1..n
  BY DEF Words
<1>3. \A i \in 1..Len(s) : s[i] < e
  BY <1>2 DEF Before
<1> HIDE DEF all
<1>4. Ascending(all)
  <2> SUFFICES ASSUME NEW i \in 1..Len(all), NEW j \in 1..Len(all), i < j PROVE all[i] < all[j]
    BY DEF Ascending
  <2>1. i \in 1..Len(s) /\ (j \in 1..Len(s) \/ j = Len(s) + 1)
    BY <1>1, <1>2
  <2> QED
    BY <1>1, <1>2, <1>3, <2>1 DEF Ascending
<1>5. ASSUME NEW r \in Words(n), Before(r, s), Before(r, <<e>>) PROVE Before(r, all)
  <2>1. \A i \in 1..Len(r) : r[i] < e
    BY <1>2, <1>5 DEF Before
  <2> SUFFICES ASSUME NEW i \in 1..Len(r), NEW j \in 1..Len(all) PROVE r[i] < all[j]
    BY DEF Before
  <2>2. j \in 1..Len(s) \/ j = Len(s) + 1
    BY <1>1, <1>2
  <2> QED
    BY <1>1, <1>2, <1>5, <2>1, <2>2 DEF Before
<1> QED
  BY <1>1, <1>4, <1>5 DEF all

\* So it is for a queue that follows another.
LEMMA ConcatKeepsOrder ==
  ASSUME NEW n \in Nat, NEW s \in Words(n), NEW t \in Words(n),
         Ascending(s), Ascending(t), Before(s, t)
  PROVE  /\ s \o t \in Words(n) /\ Ascending(s \o t)
         /\ \A r \in Words(n) : Before(s, r) /\ Before(t, r) => Before(s \o t, r)
<1> DEFINE all == s \o t
<1>1. /\ all \in Words(n) /\ Len(all) = Len(s) + Len(t)
      /\ Len(s) \in Nat /\ Len(t) \in Nat
  BY DEF Words
<1>2. \A i \in 1..Len(s) : all[i] = s[i] /\ s[i] \in 1..n
  BY DEF Words
<1>3. \A i \in 1..Len(t) : all[Len(s) + i] = t[i] /\ t[i] \in 1..n
  BY DEF Words
<1> HIDE DEF all
<1>4. ASSUME NEW i \in 1..Len(all)
      PROVE  \/ i \in 1..Len(s)
             \/ i - Len(s) \in 1..Len(t) /\ i = Len(s) + (i - Len(s))
  BY <1>1
<1>5. ASSUME NEW i \in 1..Len(all), NEW j \in 1..Len(all), i < j PROVE all[i] < all[j]
  <2>1. CASE j \in 1..Len(s)
    <3>1. i \in 1..Len(s)
      BY <1>1, <1>5, <2>1
    <3> QED
      BY <1>2, <1>5, <2>1, <3>1 DEF Ascending
  <2>2. CASE i \in 1..Len(s) /\ j \notin 1..Len(s)
    BY <1>2, <1>3, <1>4, <2>2 DEF Before
  <2>3. CASE i \notin 1..Len(s)
    <3>1. j \notin 1..Len(s) /\ i - Len(s) < j - Len(s)
      BY <1>1, <1>5, <2>3
    <3> QED
      BY <1>3, <1>4, <2>3, <3>1 DEF Ascending
  <2> QED
    BY <2>1, <2>2, <2>3
<1>6. ASSUME NEW r \in Words(n), Before(s, r), Before(t, r) PROVE Before(all, r)
  BY <1>2, <1>3, <1>4, <1>6 DEF Before
<1> QED
  BY <1>1, <1>5, <1>6 DEF all, Ascending

\* And for a queue that one message leaves.
LEMMA RemoveKeepsOrder ==
  ASSUME NEW n \in Nat, NEW s \in Words(n), NEW i \in 1..Len(s)
  PROVE  /\ Chat!RemoveAt(s, i) \in Words(n)
         /\ Ascending(s) => Ascending(Chat!RemoveAt(s, i))
         /\ \A r \in Words(n) : /\ Before(r, s) => Before(r, Chat!RemoveAt(s, i))
                                /\ Before(s, r) => Before(Chat!RemoveAt(s, i), r)
<1> DEFINE rest == Chat!RemoveAt(s, i)
           head == SubSeq(s, 1, i - 1)
           tail == SubSeq(s, i + 1, Len(s))
<1>1. head \in Words(n) /\ Len(head) = i - 1
  BY DEF Words
<1>2. \A j \in 1..(i - 1) : head[j] = s[j]
  BY DEF Words
<1>3. tail \in Words(n) /\ Len(tail) = Len(s) - i
  BY DEF Words
<1>4. \A j \in 1..(Len(s) - i) : tail[j] = s[j + i]
  BY DEF Words
<1>5. rest = head \o tail
  BY DEF Chat!RemoveAt
<1> HIDE DEF head, tail, rest
<1>6. rest \in Words(n) /\ Len(rest) = Len(s) - 1 /\ Len(s) \in Nat
  <2> DEFINE S == Seq(1..n)
  <2>0. head \in S /\ tail \in S
    BY <1>1, <1>3 DEF Words
  <2>1. rest \in Words(n) /\ Len(rest) = Len(head) + Len(tail)
    BY ONLY <2>0, <1>5 DEF Words
  <2>2. Len(s) \in Nat
    BY DEF Words
  <2>3. Len(rest) = Len(s) - 1
    BY <1>1, <1>3, <2>1, <2>2
  <2> QED
    BY <2>1, <2>2, <2>3
<1>7. \A j \in 1..Len(head) : rest[j] = head[j]
  BY <1>1, <1>3, <1>5
<1>8. \A j \in 1..Len(tail) : rest[Len(head) + j] = tail[j]
  <2>1. head \in Seq(1..n) /\ tail \in Seq(1..n)
    BY <1>1, <1>3 DEF Words
  <2> QED
    BY ONLY <2>1, <1>5 DEF Words
<1>9. \A j \in 1..Len(rest) : j < i => j \in 1..Len(s) /\ rest[j] = s[j]
  BY <1>1, <1>2, <1>6, <1>7
<1>10. ASSUME NEW j \in 1..Len(rest), j >= i PROVE j + 1 \in 1..Len(s) /\ rest[j] = s[j + 1]
  <2>1. /\ j - (i - 1) \in 1..Len(tail) /\ Len(head) + (j - (i - 1)) = j
        /\ j - (i - 1) + i = j + 1 /\ j + 1 \in 1..Len(s)
    BY <1>1, <1>3, <1>6, <1>10
  <2>2. rest[j] = tail[j - (i - 1)]
    BY <1>8, <2>1
  <2> QED
    BY <1>3, <1>4, <2>1, <2>2
<1>11. \A j \in 1..Len(s) : s[j] \in 1..n
  BY DEF Words
<1>12. ASSUME Ascending(s), NEW j \in 1..Len(rest), NEW k \in 1..Len(rest), j < k
       PROVE  rest[j] < rest[k]
  <2>1. CASE k < i
    <3>1. j < i
      BY <1>6, <1>12, <2>1
    <3> QED
      BY <1>9, <1>11, <1>12, <2>1, <3>1 DEF Ascending
  <2>2. CASE j < i /\ k >= i
    <3>1. j < k + 1
      BY <1>6, <1>12
    <3> QED
      BY <1>9, <1>10, <1>11, <1>12, <2>2, <3>1 DEF Ascending
  <2>3. CASE j >= i
    <3>1. k >= i /\ j + 1 < k + 1
      BY <1>6, <1>12, <2>3
    <3> QED
      BY <1>10, <1>11, <1>12, <2>3, <3>1 DEF Ascending
  <2> QED
    BY <1>6, <2>1, <2>2, <2>3
<1>13. ASSUME NEW j \in 1..Len(rest) PROVE \E k \in 1..Len(s) : rest[j] = s[k]
  <2>1. CASE j < i
    BY <1>9, <2>1
  <2>2. CASE j >= i
    BY <1>10, <2>2
  <2> QED
    BY <1>6, <2>1, <2>2
<1>14. \A r \in Words(n) : /\ Before(r, s) => Before(r, rest)
                           /\ Before(s, r) => Before(rest, r)
  BY <1>11, <1>13 DEF Before
<1> QED
  BY <1>6, <1>12, <1>14 DEF rest, Ascending

\* The fields of a turn.
LEMMA TurnFields ==
  ASSUME NEW n \in Nat, NEW q \in TurnsOf(n), NEW t \in Turns
  PROVE  q[t].says \in Words(n) /\ q[t].phase \in Phases
  BY DEF TurnsOf

\* Every key, effect and end of a turn keeps the messages in the order they were typed.
LEMMA ChatInvStays == ChatInv /\ [Chat!Next]_chatVars => ChatInv'
<1> SUFFICES ASSUME ChatInv, [Chat!Next]_chatVars PROVE ChatInv'
  OBVIOUS
<1>0. /\ ChatTypes /\ OneAtATime /\ InOrder /\ typed \in Nat /\ <<>> \in Words(typed)
      /\ turn \in TurnsOf(typed)
  BY WordsHold DEF ChatInv, ChatTypes
<1>11. /\ stored \in Words(typed) /\ queue \in Words(typed)
       /\ \A t \in Turns : turn[t].says \in Words(typed) /\ turn[t].phase \in Phases
  BY <1>0, TurnFields DEF ChatTypes
<1>13. Boxed \in Words(typed) /\ (box = 0 \/ box \in 1..typed)
  <2>1. box = 0 \/ box \in 1..typed
    BY <1>0 DEF ChatTypes
  <2> QED
    BY <1>0, <2>1, WordsHold DEF Boxed
<1>15. \A n \in Nat : n >= typed => Words(typed) \subseteq Words(n)
  BY <1>0, WordsHold
<1> USE DEF ChatInv
<1>1. CASE UNCHANGED chatVars
  BY <1>1 DEF chatVars, ChatTypes, OneAtATime, InOrder, Before, Boxed, Undelivered
<1>2. CASE Chat!Type
  <2>0. /\ typed' = typed + 1 /\ box' = typed' /\ box = 0
        /\ UNCHANGED <<stored, queue, turn, calls, forged, mixed, buttons>>
    BY <1>2 DEF Chat!Type
  <2>1. ChatTypes'
    <3>1. typed' \in Nat /\ typed' >= typed /\ box' \in 0..typed'
      BY <1>0, <2>0
    <3>2. turn \in TurnsOf(typed')
      BY <1>0, <1>15, <3>1 DEF TurnsOf
    <3> QED
      BY <1>11, <1>15, <2>0, <3>1, <3>2 DEF ChatTypes
  <2>2. OneAtATime'
    BY <1>0, <2>0 DEF OneAtATime
  <2>3. ASSUME NEW s \in Words(typed) PROVE Before(s, <<typed'>>)
    <3>1. \A i \in 1..Len(s) : s[i] \in 1..typed
      BY <1>0, WordsHold
    <3>2. \A i \in 1..Len(s) : s[i] < typed'
      BY <1>0, <2>0, <3>1
    <3>3. Len(<<typed'>>) = 1 /\ <<typed'>>[1] = typed'
      BY <1>0, <2>0, WordsHold
    <3> QED
      BY <3>2, <3>3 DEF Before
  <2>4. Boxed' = <<typed'>>
    BY <1>0, <2>0 DEF Boxed
  <2>5. InOrder'
    BY <1>0, <1>11, <2>0, <2>3, <2>4 DEF InOrder, Undelivered
  <2> QED
    BY <2>1, <2>2, <2>5
<1>3. CASE Chat!TakeBack
  <2> PICK i \in DOMAIN queue : queue' = Chat!RemoveAt(queue, i)
    BY <1>3 DEF Chat!TakeBack
  <2>0. UNCHANGED <<stored, box, turn, calls, forged, mixed, typed, buttons>>
    BY <1>3 DEF Chat!TakeBack
  <2>9. i \in 1..Len(queue)
    BY <1>0, <1>11, WordsHold
  <2> DEFINE rest == Chat!RemoveAt(queue, i)
  <2>3. /\ rest \in Words(typed)
        /\ Ascending(queue) => Ascending(rest)
        /\ \A r \in Words(typed) : /\ Before(r, queue) => Before(r, rest)
                                   /\ Before(queue, r) => Before(rest, r)
    BY <1>0, <1>11, <2>9, RemoveKeepsOrder
  <2>5. queue' = rest
    OBVIOUS
  <2> HIDE DEF rest
  <2>1. ChatTypes'
    BY <1>0, <2>0, <2>3, <2>5 DEF ChatTypes
  <2>2. OneAtATime'
    BY <1>0, <2>0 DEF OneAtATime
  <2>4. InOrder'
    BY <1>0, <1>11, <1>13, <2>0, <2>3, <2>5 DEF InOrder, Undelivered, Boxed
  <2> QED
    BY <2>1, <2>2, <2>4
<1>4. CASE \/ Chat!Delete \/ Chat!BecomeReady \/ Chat!ConnectEnds \/ Chat!Deadline \/ Chat!Detached
           \/ Chat!Grace \/ Chat!Restore
  <2>0. UNCHANGED <<stored, box, queue, turn, calls, forged, mixed, typed, buttons>>
    BY <1>4 DEF Chat!Delete, Chat!BecomeReady, Chat!ConnectEnds, Chat!Deadline, Chat!Detached,
                Chat!Grace, Chat!Restore
  <2> QED
    BY <1>0, <2>0 DEF ChatTypes, OneAtATime, InOrder, Before, Boxed, Undelivered
<1>16. \A r : Before(r, <<>>) /\ Before(<<>>, r)
  BY DEF Before
<1>17. Ascending(<<>>)
  BY DEF Ascending
<1>5. ASSUME NEW t \in Turns, Chat!Submit(t) PROVE ChatInv'
  <2>0. /\ box \in 1..typed /\ box' = 0 /\ Boxed = <<box>> /\ Boxed' = <<>>
        /\ UNCHANGED <<stored, calls, forged, mixed, typed, buttons>>
    BY <1>13, <1>5 DEF Chat!Submit, Boxed
  <2>1. ~buttons => Before(queue, <<box>>) /\ Ascending(queue)
    BY <1>0, <2>0 DEF InOrder
  <2>2. ~buttons => /\ Ascending(Append(queue, box))
                    /\ \A r \in Words(typed) : Before(r, queue) /\ Before(r, <<box>>)
                                                  => Before(r, Append(queue, box))
    BY <1>0, <1>11, <2>0, <2>1, AppendKeepsOrder
  <2>3. Append(queue, box) \in Words(typed)
    BY <1>11, <2>0 DEF Words
  <2>6. box' \in 0..typed
    BY <1>0, <2>0
  <2>4. CASE Chat!InFlight
    <3>1. queue' = Append(queue, box) /\ turn' = turn
      BY <1>5, <2>4 DEF Chat!Submit
    <3>2. ChatTypes'
      BY <1>0, <1>11, <2>0, <2>3, <2>6, <3>1 DEF ChatTypes
    <3>3. OneAtATime'
      BY <1>0, <2>0, <3>1 DEF OneAtATime
    <3>4. InOrder'
      BY <1>0, <1>11, <1>16, <2>0, <2>2, <3>1 DEF InOrder, Undelivered
    <3> QED
      BY <3>2, <3>3, <3>4
  <2>5. CASE ~Chat!InFlight
    <3>1. /\ queue' = <<>> /\ \A u \in Turns : turn[u].phase = "none"
          /\ turn' = [turn EXCEPT ![t] = [phase |-> "ready", says |-> Append(queue, box),
                                          agent |-> "provisional", gaps |-> 0]]
      BY <1>5, <2>5 DEF Chat!Submit, Chat!Say, Chat!InFlight
    <3>5. /\ turn' \in TurnsOf(typed) /\ turn'[t].phase = "ready"
          /\ turn'[t].says = Append(queue, box)
          /\ \A u \in Turns : u # t => turn'[u] = turn[u]
      BY <1>0, <2>3, <3>1 DEF TurnsOf, Phases
    <3>2. ChatTypes'
      BY <1>0, <2>0, <2>6, <3>1, <3>5 DEF ChatTypes
    <3>3. OneAtATime'
      BY <1>0, <2>0, <3>1, <3>5 DEF OneAtATime
    <3>4. InOrder'
      BY <1>0, <1>11, <1>16, <1>17, <2>0, <2>2, <3>1, <3>5 DEF InOrder, Undelivered
    <3> QED
      BY <3>2, <3>3, <3>4
  <2> QED
    BY <2>4, <2>5
<1>6. ASSUME NEW t \in Turns, Chat!Drain(t) PROVE ChatInv'
  <2>0. /\ queue' = <<>> /\ \A u \in Turns : turn[u].phase = "none"
        /\ turn' = [turn EXCEPT ![t] = [phase |-> "ready", says |-> queue,
                                        agent |-> "provisional", gaps |-> 0]]
        /\ UNCHANGED <<stored, box, calls, forged, typed, buttons>>
    BY <1>6 DEF Chat!Drain, Chat!Say, Chat!InFlight
  <2>1. ~mixed'
    BY <1>0, <1>6 DEF Chat!Drain, OneAtATime
  <2>2. /\ turn' \in TurnsOf(typed) /\ turn'[t].phase = "ready" /\ turn'[t].says = queue
        /\ \A u \in Turns : u # t => turn'[u] = turn[u]
    BY <1>0, <1>11, <2>0 DEF TurnsOf, Phases
  <2>3. ChatTypes'
    BY <1>0, <2>0, <2>2 DEF ChatTypes
  <2>5. OneAtATime'
    BY <1>0, <2>0, <2>1, <2>2 DEF OneAtATime
  <2>6. InOrder'
    BY <1>0, <1>11, <1>16, <1>17, <2>0, <2>2 DEF InOrder, Undelivered, Boxed
  <2> QED
    BY <2>3, <2>5, <2>6
<1>7. ASSUME NEW t \in Turns, Chat!AskFromComponent(t) PROVE ChatInv'
  <2>0. /\ buttons /\ typed' = typed + 1 /\ turn[t].phase = "none"
        /\ turn' = [turn EXCEPT ![t] = [phase |-> "ready", says |-> <<typed'>>,
                                        agent |-> "provisional", gaps |-> 0]]
        /\ UNCHANGED <<stored, box, queue, calls, forged, mixed, buttons>>
    BY <1>7 DEF Chat!AskFromComponent, Chat!Say
  <2>1. /\ typed' \in Nat /\ typed' >= typed /\ typed' \in 1..typed' /\ box \in 0..typed'
    BY <1>0, <2>0 DEF ChatTypes
  <2>5. Words(typed) \subseteq Words(typed') /\ <<typed'>> \in Words(typed')
    BY <1>15, <2>1, WordsHold
  <2>3. /\ turn' \in TurnsOf(typed') /\ turn'[t].phase = "ready"
        /\ \A u \in Turns : u # t => turn'[u] = turn[u]
    BY <1>0, <2>0, <2>5 DEF TurnsOf, Phases
  <2>2. ChatTypes'
    BY <1>11, <2>0, <2>1, <2>3, <2>5 DEF ChatTypes
  <2>4. OneAtATime'
    BY <1>0, <2>0, <2>3 DEF OneAtATime
  <2> QED
    BY <2>0, <2>2, <2>4 DEF InOrder
<1>8. ASSUME NEW t \in Turns, Chat!AwaitReady(t) PROVE ChatInv'
  <2>0. /\ turn[t].phase = "ready"
        /\ turn' = [turn EXCEPT ![t].phase = "join"]
        /\ UNCHANGED <<stored, box, queue, calls, forged, mixed, typed, buttons>>
    BY <1>8 DEF Chat!AwaitReady
  <2>2. /\ turn' \in TurnsOf(typed) /\ turn'[t].phase = "join" /\ turn'[t].says = turn[t].says
        /\ \A u \in Turns : u # t => turn'[u] = turn[u]
    BY <1>0, <2>0 DEF TurnsOf, Phases
  <2>3. ChatTypes'
    BY <1>0, <2>0, <2>2 DEF ChatTypes
  <2>4. OneAtATime'
    BY <1>0, <2>0, <2>2 DEF OneAtATime
  <2>5. InOrder'
    BY <1>0, <2>0, <2>2 DEF InOrder, Undelivered, Boxed
  <2> QED
    BY <2>3, <2>4, <2>5
<1>9. ASSUME NEW t \in Turns, Chat!Deliver(t) PROVE ChatInv'
  <2> DEFINE w == turn[t].says
  <2>0. /\ turn[t].phase \in {"ready", "join"} /\ forged' = (forged \/ calls # {})
        /\ \E a \in Chat!Agents : turn' = [turn EXCEPT ![t].phase = "run", ![t].agent = a]
        /\ stored' = stored \o w \/ stored' = stored
        /\ UNCHANGED <<box, queue, calls, mixed, typed, buttons>>
    BY <1>9 DEF Chat!Deliver, Chat!MayDeliver, Chat!Handed, Chat!TornDown, Chat!Unanswered,
                Chat!Rendered, Chat!Agents
  <2>1. "run" \in Phases
    BY DEF Phases
  <2>4. /\ turn' \in TurnsOf(typed) /\ turn'[t].phase = "run"
        /\ \A u \in Turns : u # t => turn'[u] = turn[u]
    <3>1. PICK a \in Chat!Agents : turn' = [turn EXCEPT ![t].phase = "run", ![t].agent = a]
      BY <2>0
    <3>2. a \in {"provisional", "runtime"}
      BY DEF Chat!Agents
    <3>3. turn \in TurnsOf(typed)
      BY <1>0 DEF ChatTypes
    <3> QED
      BY <2>1, <3>1, <3>2, <3>3 DEF TurnsOf
  <2>8. ~buttons => Ascending(stored) /\ Ascending(w) /\ Before(stored, w)
    BY <1>0, <2>0 DEF InOrder, Undelivered
  <2>2. ~buttons => /\ Ascending(stored')
                    /\ \A r \in Words(typed) : Before(stored, r) /\ Before(w, r)
                                                  => Before(stored', r)
    <3>1. CASE stored' = stored \o w
      BY <1>0, <1>11, <2>8, <3>1, ConcatKeepsOrder
    <3>2. CASE stored' = stored
      BY <2>8, <3>2
    <3> QED
      BY <2>0, <3>1, <3>2
  <2>9. stored' \in Words(typed)
    <3>1. stored \o w \in Words(typed)
      BY <1>11 DEF Words
    <3> QED
      BY <1>11, <2>0, <3>1
  <2>3. ChatTypes'
    BY <1>0, <2>0, <2>4, <2>9 DEF ChatTypes
  <2>5. ~buttons => calls = {} /\ \A u \in Turns : u # t => turn[u].phase = "none"
    BY <1>0, <2>0 DEF OneAtATime
  <2>6. OneAtATime'
    BY <1>0, <2>0, <2>4, <2>5 DEF OneAtATime
  <2>7. InOrder'
    BY <1>0, <1>11, <1>13, <2>0, <2>2, <2>4, <2>5 DEF InOrder, Undelivered, Boxed
  <2> QED
    BY <2>3, <2>6, <2>7
<1>10. ASSUME NEW t \in Turns, Chat!CallTool(t) \/ Chat!AnswerTool(t) \/ Chat!EndTurn(t)
       PROVE  ChatInv'
  <2>0. /\ turn[t].phase \in {"run", "gap"} /\ calls' \ {t} = calls \ {t}
        /\ UNCHANGED <<stored, box, queue, forged, mixed, typed, buttons>>
    BY <1>10 DEF Chat!CallTool, Chat!AnswerTool, Chat!EndTurn
  <2>1. {"run", "gap"} \subseteq Phases
    BY DEF Phases
  <2>3. /\ turn' \in TurnsOf(typed) /\ turn'[t].phase \in {"run", "gap", "none"}
        /\ t \in calls' => turn'[t].phase = "gap"
        /\ \A u \in Turns : u # t => turn'[u] = turn[u]
    <3>1. CASE Chat!CallTool(t)
      BY <1>0, <2>1, <3>1 DEF TurnsOf, Phases, Chat!CallTool
    <3>2. CASE Chat!AnswerTool(t)
      BY <1>0, <2>1, <3>2 DEF TurnsOf, Phases, Chat!AnswerTool
    <3>3. CASE Chat!EndTurn(t)
      BY <1>0, <2>1, <3>3 DEF TurnsOf, Phases, Chat!NoTurn, Chat!EndTurn
    <3> QED
      BY <1>10, <3>1, <3>2, <3>3
  <2>2. ChatTypes'
    BY <1>0, <2>0, <2>3 DEF ChatTypes
  <2>4. OneAtATime'
    BY <1>0, <2>0, <2>3 DEF OneAtATime
  <2>5. InOrder'
    BY <1>0, <2>0, <2>3 DEF InOrder, Undelivered, Boxed
  <2> QED
    BY <2>2, <2>4, <2>5
<1> QED
  BY <1>1, <1>2, <1>3, <1>4, <1>5, <1>6, <1>7, <1>8, <1>9, <1>10 DEF Chat!Next

\* It holds at the start.
LEMMA ChatInvBegins == Init => ChatInv
<1> SUFFICES ASSUME Init PROVE ChatInv
  OBVIOUS
<1>1. Chat!Init
  BY DEF Init
<1>2. <<>> \in Words(typed)
  BY DEF Words
<1>3. ChatTypes
  BY <1>1, <1>2 DEF ChatTypes, TurnsOf, Phases, Chat!Init, Chat!NoTurn
<1>4. OneAtATime
  BY <1>1 DEF OneAtATime, Chat!Init, Chat!NoTurn
<1>5. InOrder
  BY <1>1 DEF InOrder, Chat!Init, Chat!NoTurn, Boxed, Undelivered, Ascending, Before
<1> QED
  BY <1>3, <1>4, <1>5 DEF ChatInv

\* The gate: a join that is over, or has only the history left to read, has a connect in flight only if
\* that outlived its grace, so only then can a turn that waited for the gate lose its message.
GateInv ==
    /\ join = "none" <=> ~ready
    /\ join \in {"restoring", "over"} /\ connect => outlived
    /\ erased # {} => outlived

\* Every step of the join and every turn keeps to it.
LEMMA GateInvStays == GateInv /\ [Chat!Next]_chatVars => GateInv'
<1> SUFFICES ASSUME GateInv, [Chat!Next]_chatVars PROVE GateInv'
  OBVIOUS
<1> USE DEF GateInv
<1>1. ASSUME UNCHANGED <<ready, join, connect, erased, outlived>> PROVE GateInv'
  BY <1>1
<1>2. CASE Chat!Type \/ Chat!TakeBack \/ Chat!Delete
  BY <1>1, <1>2 DEF Chat!Type, Chat!TakeBack, Chat!Delete
<1>3. CASE Chat!BecomeReady
  BY <1>3 DEF Chat!BecomeReady
<1>4. CASE Chat!ConnectEnds
  <2>1. /\ connect' = FALSE /\ join' = IF join \in {"connecting", "grace"} THEN "restoring" ELSE join
        /\ UNCHANGED <<ready, erased, outlived>>
    BY <1>4 DEF Chat!ConnectEnds
  <2> QED
    BY <2>1
<1>5. CASE Chat!Deadline \/ Chat!Detached \/ Chat!Grace
  BY <1>5 DEF Chat!Deadline, Chat!Detached, Chat!Grace
<1>6. CASE Chat!Restore
  <2>1. join = "restoring" /\ join' = "over" /\ UNCHANGED <<ready, connect, erased, outlived>>
    BY <1>6 DEF Chat!Restore
  <2> QED
    BY <2>1
<1>7. ASSUME NEW t \in Turns, Chat!Deliver(t) PROVE GateInv'
  <2>1. UNCHANGED <<ready, join, outlived>>
    BY <1>7 DEF Chat!Deliver
  <2>2. CASE Chat!Handed(t)
    BY <1>1, <2>1, <2>2 DEF Chat!Handed
  <2>3. CASE Chat!TornDown(t)
    <3>1. join = "over" /\ connect
      BY <1>7, <2>3 DEF Chat!Deliver, Chat!MayDeliver, Chat!TornDown
    <3> QED
      BY <2>1, <3>1
  <2> QED
    BY <1>7, <2>2, <2>3 DEF Chat!Deliver
<1>8. ASSUME NEW t \in Turns,
              \/ Chat!Submit(t) \/ Chat!Drain(t) \/ Chat!AskFromComponent(t) \/ Chat!CallTool(t)
              \/ Chat!AwaitReady(t) \/ Chat!AnswerTool(t) \/ Chat!EndTurn(t)
      PROVE  GateInv'
  BY <1>1, <1>8 DEF Chat!Submit, Chat!Drain, Chat!AskFromComponent, Chat!CallTool, Chat!AwaitReady,
                    Chat!AnswerTool, Chat!EndTurn
<1>9. CASE UNCHANGED chatVars
  BY <1>1, <1>9 DEF chatVars
<1> QED
  BY <1>2, <1>3, <1>4, <1>5, <1>6, <1>7, <1>8, <1>9 DEF Chat!Next

\* A person's words: a message parked behind a turn is sent when that turn is over and never into
\* it, so a call of a browser tool that is still executing is never answered by the repair of the
\* history; and what is typed in the composer reaches the thread in the order it was typed, however
\* it was parked, taken back, drained and delivered (both but for the buttons a Bot draws).  A message
\* is erased only under a connect that outlived the deadline, the detach and the grace of its join.
THEOREM QueueKeptAlways == Spec => []QueueKept
<1>1. Init => ChatInv /\ GateInv
  <2>1. Init => GateInv
    BY DEF Init, Chat!Init, GateInv
  <2> QED
    BY <2>1, ChatInvBegins
<1>2. ChatInv /\ GateInv => QueueKept
  <2> SUFFICES ASSUME ChatInv, GateInv PROVE QueueKept
    OBVIOUS
  <2>1. DOMAIN stored = 1..Len(stored)
    BY WordsHold DEF ChatInv, ChatTypes
  <2> QED
    BY <2>1 DEF ChatInv, OneAtATime, InOrder, Ascending, GateInv, QueueKept,
                Chat!DrainedBetweenTurns, Chat!SaidInOrder, Chat!ErasedOnlyLate
<1> QED
  BY <1>1, <1>2, ChatInvStays, GateInvStays, ChatSteps, PTL DEF Spec

-----------------------------------------------------------------------------
(***************************************************************************)
(* The list of channels.                                                   *)
(***************************************************************************)

\* A step of the composition is one of the roster, or leaves it as it was.
LEMMA RosterSteps == [Next]_vars => [Sidebar!Next]_rosterVars
  BY DEF Next, vars, GuardStep, BrowserStep, HostStep, browserVars

\* What is on its way is about channels, and names times that have passed; a list that was read names
\* channels that exist.
Events == Channels \X Nat
RosterInv ==
    /\ said \in Nat /\ socket \in {"open", "closed"}
    /\ last \in [Channels -> Nat] /\ \A c \in Channels : last[c] <= said
    /\ reports \subseteq Events /\ \A r \in reports : r[2] <= said
    /\ notified \in Seq(Events) /\ inbox \in Seq(Events)
    /\ list \in [Channels -> Nat] /\ \A c \in Channels : list[c] # 0 => last[c] # 0
    /\ fetch.rows \in [Channels -> Nat] /\ \A c \in Channels : fetch.rows[c] # 0 => last[c] # 0

\* Every report, event, loss and list keeps to it, and takes no channel back.
LEMMA RosterInvStays ==
  RosterInv /\ [Sidebar!Next]_rosterVars =>
    RosterInv' /\ \A c \in Channels : last'[c] >= last[c]
<1> SUFFICES ASSUME RosterInv, [Sidebar!Next]_rosterVars
    PROVE  RosterInv' /\ \A c \in Channels : last'[c] >= last[c]
  OBVIOUS
<1> DEFINE Stays == RosterInv' /\ \A c \in Channels : last'[c] >= last[c]
<1> USE DEF RosterInv
<1>0. /\ Sidebar!NoFetch.rows \in [Channels -> Nat] /\ \A c \in Channels : Sidebar!NoFetch.rows[c] = 0
      /\ Sidebar!Asked.rows = Sidebar!NoFetch.rows
  BY DEF Sidebar!NoFetch, Sidebar!Asked
<1>1. ASSUME NEW c \in Channels, Sidebar!Create(c) PROVE Stays
  <2>1. said' = said + 1 /\ last' = [last EXCEPT ![c] = said'] /\ last[c] = 0
    BY <1>1 DEF Sidebar!Create
  <2>2. /\ last' \in [Channels -> Nat] /\ said' \in Nat
        /\ \A d \in Channels : last'[d] <= said' /\ last'[d] >= last[d] /\ (last[d] # 0 => last'[d] # 0)
    BY <2>1
  <2>3. UNCHANGED <<reports, notified, inbox, socket, list>> /\ fetch' \in {fetch, Sidebar!Asked}
    BY <1>1 DEF Sidebar!Create
  <2>4. \A r \in reports : r[2] <= said'
    BY <2>1 DEF Events
  <2> QED
    BY <1>0, <2>2, <2>3, <2>4
<1>2. ASSUME NEW c \in Channels, Sidebar!Report(c) PROVE Stays
  <2>1. said' = said + 1 /\ reports' = reports \cup {<<c, said'>>}
    BY <1>2 DEF Sidebar!Report
  <2>2. said' \in Nat /\ reports' \subseteq Events /\ \A r \in reports' : r[2] <= said'
    BY <2>1 DEF Events
  <2> QED
    BY <1>2, <2>1, <2>2 DEF Sidebar!Report
<1>3. ASSUME NEW r, Sidebar!LoseReport(r) PROVE Stays
  BY <1>3 DEF Sidebar!LoseReport
<1>4. ASSUME NEW r, Sidebar!RecordActivity(r) PROVE Stays
  <2>1. r \in reports /\ r[1] \in Channels /\ r[2] \in Nat /\ r[2] <= said /\ r \in Events
    BY <1>4 DEF Sidebar!RecordActivity, Events
  <2>2. reports' \subseteq reports /\ UNCHANGED <<said, inbox, socket, fetch, list>>
    BY <1>4 DEF Sidebar!RecordActivity
  <2>3. CASE last[r[1]] < r[2]
    <3>1. last' = [last EXCEPT ![r[1]] = r[2]] /\ notified' = Append(notified, r)
      BY <1>4, <2>3 DEF Sidebar!RecordActivity
    <3>2. /\ last' \in [Channels -> Nat]
          /\ \A d \in Channels : last'[d] <= said /\ last'[d] >= last[d] /\ (last[d] # 0 => last'[d] # 0)
      BY <2>1, <2>3, <3>1
    <3>3. notified' \in Seq(Events)
      BY <2>1, <3>1
    <3> QED
      BY <2>2, <3>2, <3>3
  <2>4. CASE ~(last[r[1]] < r[2])
    BY <1>4, <2>2, <2>4 DEF Sidebar!RecordActivity
  <2> QED
    BY <2>3, <2>4
<1>5. CASE Sidebar!DeliverEvent
  <2>1. Head(notified) \in Events /\ Tail(notified) \in Seq(Events)
    BY <1>5 DEF Sidebar!DeliverEvent
  <2>2. notified' \in Seq(Events) /\ inbox' \in Seq(Events)
    BY <1>5, <2>1 DEF Sidebar!DeliverEvent
  <2> QED
    BY <1>5, <2>2 DEF Sidebar!DeliverEvent
<1>6. CASE Sidebar!OnOpen
  BY <1>0, <1>6 DEF Sidebar!OnOpen
<1>7. CASE Sidebar!OnClose
  <2>1. inbox' = <<>> /\ UNCHANGED <<said, reports, last, notified, fetch, list>> /\ socket' = "closed"
    BY <1>7 DEF Sidebar!OnClose
  <2> QED
    BY <2>1
<1>8. CASE Sidebar!OnMessage
  <2>1. Head(inbox) \in Events /\ Tail(inbox) \in Seq(Events)
    BY <1>8 DEF Sidebar!OnMessage
  <2>2. Head(inbox)[1] \in Channels /\ Head(inbox)[2] \in Nat
    BY <2>1 DEF Events
  <2>3. UNCHANGED <<said, reports, last, notified, socket>> /\ inbox' \in Seq(Events)
    BY <1>8, <2>1 DEF Sidebar!OnMessage
  <2>4. CASE list[Head(inbox)[1]] # 0
    <3>1. list' = [list EXCEPT ![Head(inbox)[1]] = Head(inbox)[2]] /\ fetch' = fetch
      BY <1>8, <2>4 DEF Sidebar!OnMessage
    <3>2. list' \in [Channels -> Nat] /\ \A c \in Channels : list'[c] # 0 => last[c] # 0
      BY <2>2, <2>4, <3>1
    <3> QED
      BY <2>3, <3>1, <3>2
  <2>5. CASE list[Head(inbox)[1]] = 0
    BY <1>0, <1>8, <2>3, <2>5 DEF Sidebar!OnMessage
  <2> QED
    BY <2>4, <2>5
<1>9. CASE Sidebar!ReadList
  BY <1>9 DEF Sidebar!ReadList
<1>10. CASE Sidebar!ListArrives
  BY <1>0, <1>10 DEF Sidebar!ListArrives
<1>11. CASE UNCHANGED rosterVars
  BY <1>11 DEF rosterVars
<1> QED
  BY <1>1, <1>2, <1>3, <1>4, <1>5, <1>6, <1>7, <1>8, <1>9, <1>10, <1>11 DEF Sidebar!Next

\* RosterInv in every state.
LEMMA RosterInvAlways == Spec => []RosterInv
<1>1. Init => RosterInv
  BY DEF Init, Sidebar!Init, RosterInv, Sidebar!NoFetch, Events
<1> QED
  BY <1>1, RosterInvStays, RosterSteps, PTL DEF Spec

\* The last thing said in a channel is never replaced by an earlier one, however its reports are
\* lost and reordered (recordActivity compares the times).
THEOREM LastMovesForwardAlways == Spec => Sidebar!LastMovesForward
<1>1. RosterInv /\ [Next]_vars => [\A c \in Channels : last'[c] >= last[c]]_Sidebar!vars
  <2> SUFFICES ASSUME RosterInv, [Next]_vars PROVE \A c \in Channels : last'[c] >= last[c]
    OBVIOUS
  <2>1. [Sidebar!Next]_rosterVars
    BY RosterSteps
  <2> QED
    BY <2>1, RosterInvStays
<1> QED
  BY <1>1, RosterInvAlways, PTL DEF Spec, Sidebar!LastMovesForward

-----------------------------------------------------------------------------
(***************************************************************************)
(* The machine's master key.                                               *)
(***************************************************************************)

\* A step of the composition is one of the machine, or leaves it as it was.
LEMMA SliceSteps == [Next]_vars => [Host!Next]_sliceVars
  BY DEF Next, vars, GuardStep, BrowserStep, HostStep, hostVars

\* While the key is moved there is one in the env file, and before it is taken out there the keychain
\* has the same; so the key a server reads is always the one it read first.
KeyInv ==
    /\ command \in {"add key", "read key", "strip key"} => envKey # NoKey
    /\ command = "strip key" => keychain = envKey
    /\ server => serverKey = Host!KeyEncryptionKey
    /\ \A k \in sealed : k = Host!KeyEncryptionKey

\* Every step of a start, a crash and a command keeps to it.
LEMMA KeyInvStays == KeyInv /\ [Host!Next]_sliceVars => KeyInv'
<1> SUFFICES ASSUME KeyInv, [Host!Next]_sliceVars PROVE KeyInv'
  OBVIOUS
<1> USE DEF KeyInv, Host!KeyEncryptionKey, Host!stackVars, Host!keyVars, Host!dataVars, Host!guardVars,
            Host!countVars
<1>1. ASSUME NEW w \in Host!Starters, Host!StackStep(w) PROVE KeyInv'
  <2>1. CASE Host!EnsurePostgres(w)
    BY <2>1 DEF Host!EnsurePostgres
  <2>2. CASE Host!Migrate(w)
    BY <2>2 DEF Host!Migrate
  <2>3. CASE Host!StartSupervisor(w)
    BY <2>3 DEF Host!StartSupervisor
  <2>4. CASE Host!StartServer(w)
    BY <2>4 DEF Host!StartServer
  <2> QED
    BY <1>1, <2>1, <2>2, <2>3, <2>4 DEF Host!StackStep
<1>2. CASE Host!ServerSeals
  BY <1>2 DEF Host!ServerSeals
<1>3. CASE Host!Crash
  <2>1. UNCHANGED <<envKey, keychain, sealed, command>>
    BY <1>3 DEF Host!Crash
  <2>2. CASE server' = FALSE
    BY <2>1, <2>2
  <2>3. CASE UNCHANGED <<server, serverKey>>
    BY <2>1, <2>3
  <2>4. server' = FALSE \/ UNCHANGED <<server, serverKey>>
    BY <1>3 DEF Host!Crash
  <2> QED
    BY <2>2, <2>3, <2>4
<1>4. ASSUME Host!Up \/ Host!Backup \/ Host!Restore \/ Host!KeyKeychain PROVE KeyInv'
  <2>1. CASE Host!Up
    BY <2>1 DEF Host!Up, Host!MayCommand
  <2>2. CASE Host!Backup
    BY <2>2 DEF Host!Backup, Host!MayCommand
  <2>3. CASE Host!Restore
    BY <2>3 DEF Host!Restore, Host!MayCommand
  <2>4. CASE Host!KeyKeychain
    BY <2>4 DEF Host!KeyKeychain, Host!MayCommand
  <2> QED
    BY <1>4, <2>1, <2>2, <2>3, <2>4
<1>9. CASE Host!Down
  BY <1>9 DEF Host!Down, Host!MayCommand
<1>10. CASE Host!DownServer
  BY <1>10 DEF Host!DownServer
<1>11. CASE Host!DownPostgres
  BY <1>11 DEF Host!DownPostgres
<1>5. ASSUME Host!RestoreDrop \/ Host!RestoreCreate \/ Host!RestoreLoad PROVE KeyInv'
  <2>1. command' \in {"none", "recreate", "load"} /\ UNCHANGED <<server, serverKey, envKey, keychain, sealed>>
    <3>1. CASE Host!RestoreDrop
      BY <3>1 DEF Host!RestoreDrop
    <3>2. CASE Host!RestoreCreate
      BY <3>2 DEF Host!RestoreCreate
    <3>3. CASE Host!RestoreLoad
      BY <3>3 DEF Host!RestoreLoad
    <3> QED
      BY <1>5, <3>1, <3>2, <3>3
  <2> QED
    BY <2>1
<1>6. ASSUME Host!KeyAdd \/ Host!KeyReadBack \/ Host!KeyStrip PROVE KeyInv'
  <2>1. CASE Host!KeyAdd
    BY <2>1 DEF Host!KeyAdd
  <2>2. CASE Host!KeyReadBack
    BY <2>2 DEF Host!KeyReadBack
  <2>3. CASE Host!KeyStrip
    BY <2>3 DEF Host!KeyStrip
  <2> QED
    BY <1>6, <2>1, <2>2, <2>3
<1>7. ASSUME Host!Keeper \/ Host!NewDay PROVE KeyInv'
  <2>1. UNCHANGED <<server, serverKey, envKey, keychain, sealed, command>>
    <3>1. CASE Host!GuardLook
      BY <3>1 DEF Host!GuardLook
    <3>2. CASE Host!GuardBooted
      BY <3>2 DEF Host!GuardBooted
    <3>3. CASE Host!GuardDaily
      BY <3>3 DEF Host!GuardDaily
    <3>4. CASE Host!NewDay
      BY <3>4 DEF Host!NewDay
    <3> QED
      BY <1>7, <3>1, <3>2, <3>3, <3>4 DEF Host!Keeper
  <2> QED
    BY <2>1
<1>8. CASE UNCHANGED sliceVars
  BY <1>8 DEF sliceVars
<1> QED
  BY <1>1, <1>2, <1>3, <1>4, <1>5, <1>6, <1>7, <1>8, <1>9, <1>10, <1>11 DEF Host!Next, Host!Operator

\* No key that rows of the vault are sealed under is lost, whichever step of its move to the keychain
\* fails: the server that is started next reads it (keyCmd, keyEncryptionKey).
THEOREM KeyKeptAlways == Spec => []Host!KeyKept
<1>1. Init => KeyInv
  BY DEF Init, Host!Init, KeyInv, Host!KeyEncryptionKey
<1>2. KeyInv => Host!KeyKept
  BY DEF KeyInv, Host!KeyKept
<1> QED
  BY <1>1, <1>2, KeyInvStays, SliceSteps, PTL DEF Spec

-----------------------------------------------------------------------------
(***************************************************************************)
(* The audit trail.                                                        *)
(***************************************************************************)

\* A step of the composition is one of the trail, or leaves it as it was.
LEMMA TrailSteps == [Next]_vars => [Audit!Next]_trailVars
  BY DEF Next, vars, GuardStep, BrowserStep, HostStep, hostVars

\* A set of numbers that is not empty has a least one.
LEMMA Least ==
  ASSUME NEW S \in SUBSET Nat, S # {}
  PROVE  \E n \in S : \A m \in S : n <= m
<1> DEFINE T == {0..m : m \in S}
           R == StrictSubsetOrdering(Nat)
<1>1. T \in SUBSET FiniteSubsetsOf(Nat)
  <2>1. ASSUME NEW m \in Nat PROVE 0..m \in FiniteSubsetsOf(Nat)
    <3>1. IsFiniteSet(0..m)
      BY FS_Interval
    <3>2. 0..m \in SUBSET Nat
      OBVIOUS
    <3> QED
      BY <3>1, <3>2 DEF FiniteSubsetsOf
  <2> HIDE DEF R
  <2> QED
    BY <2>1
<1>2. PICK x \in T : \A y \in T : ~(<<y, x>> \in R)
  <2> HIDE DEF R, T
  <2>1. T # {}
    BY DEF T
  <2>2. IsWellFoundedOn(R, FiniteSubsetsOf(Nat))
    BY FS_StrictSubsetOrderingWellFounded DEF R
  <2> QED
    BY <2>1, <2>2, <1>1, WFMin, SMTT(30)
<1>3. PICK n \in S : x = 0..n
  BY <1>2
<1>4. ASSUME NEW m \in S, m < n PROVE FALSE
  <2>1. 0..m \subseteq 0..n /\ n \in 0..n /\ n \notin 0..m
    BY <1>4
  <2>2. 0..m \in SUBSET Nat /\ 0..n \in SUBSET Nat
    OBVIOUS
  <2>3. <<0..m, 0..n>> \in R
    BY <2>1, <2>2 DEF StrictSubsetOrdering
  <2> HIDE DEF R
  <2> QED
    BY <2>3, <1>2, <1>3
<1> QED
  BY <1>4

Rows == [at : Nat, id : Nat]
\* The rows of M that come before r on the pages.
Above(M, r) == {t \in M : Audit!Newer(t, r)}

\* The order of the pages is total.
LEMMA NewerIsTotal ==
  ASSUME NEW r \in Rows, NEW s \in Rows, NEW t \in Rows
  PROVE  /\ ~Audit!Newer(r, r)
         /\ Audit!Newer(r, s) \/ Audit!Newer(s, r) \/ r = s
         /\ Audit!Newer(r, s) /\ Audit!Newer(s, t) => Audit!Newer(r, t)
<1>1. /\ r.at \in Nat /\ r.id \in Nat /\ s.at \in Nat /\ s.id \in Nat /\ t.at \in Nat /\ t.id \in Nat
      /\ (r.at = s.at /\ r.id = s.id => r = s)
  BY DEF Rows
<1> QED
  BY <1>1 DEF Audit!Newer

\* How many rows are above another is a number, and larger for the older row.
LEMMA AboveCounts ==
  ASSUME NEW M, M \subseteq Rows, IsFiniteSet(M), NEW r \in M
  PROVE  /\ IsFiniteSet(Above(M, r)) /\ Cardinality(Above(M, r)) \in Nat
         /\ Cardinality(Above(M, r)) < Cardinality(M)
         /\ \A t \in M : Audit!Newer(r, t) => Cardinality(Above(M, r)) < Cardinality(Above(M, t))
<1>1. \A t \in M : IsFiniteSet(Above(M, t)) /\ Cardinality(Above(M, t)) \in Nat
  <2> TAKE t \in M
  <2>1. Above(M, t) \subseteq M
    BY DEF Above
  <2> QED
    BY <2>1, FS_Subset, FS_CardinalityType
<1>2. r \notin Above(M, r)
  BY NewerIsTotal DEF Above
<1>3. /\ IsFiniteSet(Above(M, r) \cup {r})
      /\ Cardinality(Above(M, r) \cup {r}) = Cardinality(Above(M, r)) + 1
  BY <1>1, <1>2, FS_AddElement
<1>4. Cardinality(Above(M, r)) < Cardinality(M)
  <2>1. Above(M, r) \cup {r} \subseteq M
    BY DEF Above
  <2>2. Cardinality(Above(M, r) \cup {r}) <= Cardinality(M) /\ Cardinality(M) \in Nat
    BY <2>1, FS_Subset, FS_CardinalityType
  <2> QED
    BY <1>1, <1>3, <2>2
<1>5. ASSUME NEW t \in M, Audit!Newer(r, t)
      PROVE  Cardinality(Above(M, r)) < Cardinality(Above(M, t))
  <2>1. Above(M, r) \cup {r} \subseteq Above(M, t)
    <3> SUFFICES ASSUME NEW u \in M, Audit!Newer(u, r) PROVE Audit!Newer(u, t)
      BY <1>5 DEF Above
    <3> QED
      BY <1>5, NewerIsTotal
  <2>2. Cardinality(Above(M, r) \cup {r}) <= Cardinality(Above(M, t))
    BY <1>1, <2>1, FS_Subset
  <2> QED
    BY <1>1, <1>3, <2>2
<1> QED
  BY <1>1, <1>4, <1>5

\* What fits on a page is on it; otherwise the page has a last row, and what is not on it comes later.
LEMMA NewestIs ==
  ASSUME NEW M, M \subseteq Rows, IsFiniteSet(M)
  PROVE  /\ Cardinality(M) <= PageSize => Audit!NewestOf(M) = M
         /\ M # {} => \E final \in Audit!NewestOf(M) : \A t \in Audit!NewestOf(M) : t = final \/ Audit!Newer(t, final)
         /\ \A r \in Audit!NewestOf(M), t \in M \ Audit!NewestOf(M) : Audit!Newer(r, t)
<1> DEFINE C(r) == Cardinality(Above(M, r))
<1>0. PageSize \in Nat /\ PageSize > 0
  BY TrailAssumption
<1>1. /\ \A r \in M : C(r) \in Nat /\ C(r) < Cardinality(M)
      /\ \A r, t \in M : Audit!Newer(r, t) => C(r) < C(t)
      /\ Cardinality(M) \in Nat
  BY AboveCounts, FS_CardinalityType
<1>2. Audit!NewestOf(M) = {r \in M : C(r) < PageSize}
  BY DEF Audit!NewestOf, Above, Audit!Cardinality, Cardinality
<1>3. \A r, t \in M : Audit!Newer(r, t) \/ Audit!Newer(t, r) \/ r = t
  BY NewerIsTotal
<1> HIDE DEF C
<1>4. Cardinality(M) <= PageSize => Audit!NewestOf(M) = M
  BY <1>0, <1>1, <1>2
<1>5. ASSUME NEW r \in Audit!NewestOf(M), NEW t \in M \ Audit!NewestOf(M) PROVE Audit!Newer(r, t)
  <2>1. r \in M /\ t \in M /\ C(r) < PageSize /\ ~(C(t) < PageSize) /\ r # t
    BY <1>2
  <2> QED
    BY <1>0, <1>1, <1>3, <2>1
<1>6. ASSUME M # {}
      PROVE  \E final \in Audit!NewestOf(M) : \A t \in Audit!NewestOf(M) : t = final \/ Audit!Newer(t, final)
  <2>1. Audit!NewestOf(M) # {}
    <3> DEFINE S == {C(r) : r \in M}
    <3>1. S \in SUBSET Nat /\ S # {}
      BY <1>1, <1>6
    <3> HIDE DEF S
    <3>2. PICK n \in S : \A m \in S : n <= m
      BY <3>1, Least
    <3>3. PICK r \in M : n = C(r)
      BY <3>2 DEF S
    <3>4. \A t \in M : C(t) \in S
      BY DEF S
    <3>5. \A t \in M : ~Audit!Newer(t, r)
      BY <1>1, <3>2, <3>3, <3>4
    <3>6. Above(M, r) = {}
      BY <3>5 DEF Above
    <3>7. C(r) = 0
      BY <3>6, FS_EmptySet DEF C
    <3> QED
      BY <1>0, <1>2, <3>7
  <2> DEFINE S == {PageSize - C(r) : r \in Audit!NewestOf(M)}
  <2>2. S \in SUBSET Nat /\ S # {}
    BY <1>0, <1>1, <1>2, <2>1
  <2> HIDE DEF S
  <2>3. PICK n \in S : \A m \in S : n <= m
    BY <2>2, Least
  <2>4. PICK final \in Audit!NewestOf(M) : n = PageSize - C(final)
    BY <2>3 DEF S
  <2>5. ASSUME NEW t \in Audit!NewestOf(M) PROVE t = final \/ Audit!Newer(t, final)
    <3>1. PageSize - C(t) \in S /\ t \in M /\ final \in M
      BY <1>2 DEF S
    <3>2. C(t) <= C(final)
      BY <1>0, <1>1, <2>3, <2>4, <3>1
    <3> QED
      BY <1>1, <1>3, <3>1, <3>2
  <2> QED
    BY <2>5
<1> QED
  BY <1>4, <1>5, <1>6

\* The reader's place parts what was shown from what is still to come.
Behind(r) == r.at < cursor.at \/ (r.at = cursor.at /\ r.id < cursor.id)
PageInv ==
    /\ clock \in Nat /\ trail \subseteq Rows /\ IsFiniteSet(trail) /\ seen \subseteq Rows
    /\ twice = FALSE
    /\ \/ cursor = Audit!Unread /\ seen = {}
       \/ /\ cursor \in [is : {"page"}, at : Nat, id : Nat]
          /\ \A r \in seen : ~Behind(r)
          /\ \A r \in (trail \cap before) \ seen : Behind(r)
       \/ cursor = Audit!Over /\ trail \cap before \subseteq seen

\* One page: it begins where the last one ended and leaves out nothing above its end.
LEMMA ListKeeps == Fine = 1 /\ PageInv /\ Audit!List => PageInv'
<1> SUFFICES ASSUME Fine = 1, PageInv, Audit!List PROVE PageInv'
  OBVIOUS
<1> DEFINE M == IF cursor = Audit!Unread THEN trail ELSE Audit!After
           page == Audit!NewestOf(M)
           final == Audit!LastOf(page)
<1>0. /\ clock \in Nat /\ trail \subseteq Rows /\ IsFiniteSet(trail) /\ seen \subseteq Rows
      /\ UNCHANGED <<clock, trail>> /\ twice = FALSE
  BY DEF PageInv, Audit!List
<1>1. /\ cursor # Audit!Over
      /\ cursor' = IF Cardinality(M) > PageSize
                   THEN [is |-> "page", at |-> Audit!ISOString(final.at), id |-> final.id]
                   ELSE Audit!Over
      /\ before' = IF cursor = Audit!Unread THEN trail ELSE before
      /\ seen' = seen \cup page
      /\ (page \cap seen = {} => twice' = FALSE)
  <2>1. Audit!Cardinality(M) = Cardinality(M)
    BY DEF Audit!Cardinality, Cardinality
  <2>2. page \cap seen = {} => twice' = FALSE
    BY <1>0 DEF Audit!List
  <2>3. /\ cursor # Audit!Over /\ seen' = seen \cup page
        /\ before' = IF cursor = Audit!Unread THEN trail ELSE before
    BY DEF Audit!List
  <2>4. cursor' = IF Audit!Cardinality(M) > PageSize
                  THEN [is |-> "page", at |-> Audit!ISOString(final.at), id |-> final.id]
                  ELSE Audit!Over
    BY DEF Audit!List
  <2> QED
    BY <2>1, <2>2, <2>3, <2>4
<1>2. M \subseteq trail
  BY DEF Audit!After
<1>3. /\ \A r \in M : r \notin seen
      /\ (trail \cap before') \ seen \subseteq M
  <2>1. CASE cursor = Audit!Unread
    <3>1. seen = {}
      BY <1>1, <2>1 DEF PageInv, Audit!Unread, Audit!Over
    <3> QED
      BY <1>1, <2>1, <3>1
  <2>2. CASE cursor # Audit!Unread
    <3>1. /\ \A r \in seen : ~Behind(r)
          /\ \A r \in (trail \cap before) \ seen : Behind(r)
      BY <1>1, <2>2 DEF PageInv
    <3>2. M = {r \in trail : Behind(r)} /\ before' = before
      BY <1>1, <2>2 DEF Audit!After, Behind
    <3> QED
      BY <3>1, <3>2
  <2> QED
    BY <2>1, <2>2
<1>4. M \subseteq Rows /\ IsFiniteSet(M) /\ Cardinality(M) \in Nat
  BY <1>0, <1>2, FS_Subset, FS_CardinalityType
<1>5. page \subseteq M
  BY DEF Audit!NewestOf
<1>6. /\ Cardinality(M) <= PageSize => page = M
      /\ M # {} => \E r \in page : \A t \in page : t = r \/ Audit!Newer(t, r)
      /\ \A r \in page, t \in M \ page : Audit!Newer(r, t)
  BY <1>4, NewestIs
<1>7. PageSize \in Nat
  BY TrailAssumption
<1>8. seen' \subseteq Rows /\ twice' = FALSE
  BY <1>0, <1>1, <1>3, <1>4, <1>5
<1>9. CASE Cardinality(M) > PageSize
  <2>1. M # {}
    BY <1>7, <1>9, FS_EmptySet
  <2>2. final \in page /\ \A t \in page : t = final \/ Audit!Newer(t, final)
    BY <1>6, <2>1 DEF Audit!LastOf
  <2>3. final \in Rows /\ final.at \in Nat /\ final.id \in Nat
    BY <1>4, <1>5, <2>2 DEF Rows
  <2>4. Audit!ISOString(final.at) = final.at
    BY <2>3 DEF Audit!ISOString
  <2> HIDE DEF final, page, M
  <2>5. cursor' = [is |-> "page", at |-> final.at, id |-> final.id]
    BY <1>1, <1>9, <2>4
  <2>6. \A r \in Rows : Behind(r)' <=> Audit!Newer(final, r)
    BY <2>3, <2>5 DEF Behind, Audit!Newer, Rows
  <2>7. ASSUME NEW r \in seen' PROVE ~Behind(r)'
    <3>1. CASE r \in page
      <4>1. r = final \/ Audit!Newer(r, final)
        BY <2>2, <3>1
      <4>2. ~Audit!Newer(final, r)
        BY <1>8, <2>3, <4>1, NewerIsTotal
      <4> QED
        BY <1>8, <2>6, <4>2
    <3>2. CASE r \in seen
      <4>1. r \in Rows /\ seen # {}
        BY <1>0, <3>2
      <4>2. /\ cursor \in [is : {"page"}, at : Nat, id : Nat] /\ cursor # Audit!Unread
            /\ ~Behind(r)
        BY <1>1, <3>2, <4>1 DEF PageInv, Audit!Unread
      <4>3. Behind(final)
        BY <1>5, <2>2, <4>2 DEF Behind, Audit!After, M
      <4>4. ~Audit!Newer(final, r)
        BY <2>3, <4>1, <4>2, <4>3 DEF Audit!Newer, Behind, Rows
      <4> QED
        BY <2>6, <4>1, <4>4
    <3> QED
      BY <1>1, <3>1, <3>2
  <2>8. ASSUME NEW r \in (trail' \cap before') \ seen' PROVE Behind(r)'
    <3>1. r \in M /\ r \notin page /\ r \in Rows
      BY <1>0, <1>1, <1>3
    <3>2. Audit!Newer(final, r)
      BY <1>6, <2>2, <3>1
    <3> QED
      BY <2>6, <3>1, <3>2
  <2>9. cursor' \in [is : {"page"}, at : Nat, id : Nat]
    BY <2>3, <2>5
  <2> QED
    BY <1>0, <1>8, <2>7, <2>8, <2>9 DEF PageInv
<1>10. CASE ~(Cardinality(M) > PageSize)
  <2>1. page = M /\ cursor' = Audit!Over
    BY <1>1, <1>4, <1>6, <1>7, <1>10
  <2>2. trail' \cap before' \subseteq seen'
    BY <1>0, <1>1, <1>3, <2>1
  <2> QED
    BY <1>0, <1>8, <2>1, <2>2 DEF PageInv
<1> QED
  BY <1>9, <1>10

\* Rows that come and go, and the pages, keep to it.
LEMMA PageInvStays == Fine = 1 /\ PageInv /\ [Audit!Next]_trailVars => PageInv'
<1> SUFFICES ASSUME Fine = 1, PageInv, [Audit!Next]_trailVars PROVE PageInv'
  OBVIOUS
<1>1. CASE Audit!Pass
  BY <1>1 DEF Audit!Pass, Audit!readerVars, Audit!sweepVars, PageInv, Behind
<1>2. CASE Audit!Insert
  <2>1. PICK id \in 1..MaxRows :
          /\ \A r \in trail \cup before \cup seen : r.id # id
          /\ trail' = trail \cup {[at |-> clock, id |-> id]}
    BY <1>2 DEF Audit!Insert
  <2> DEFINE new == [at |-> clock, id |-> id]
  <2>2. new \in Rows /\ new.id = id
    BY TrailAssumption DEF PageInv, Rows
  <2>3. new \notin before /\ new \notin trail
    BY <2>1, <2>2
  <2>4. UNCHANGED <<clock, cursor, before, seen, twice>>
    BY <1>2 DEF Audit!Insert, Audit!readerVars
  <2> HIDE DEF new
  <2>5. trail' = trail \cup {new}
    BY <2>1 DEF new
  <2>6. IsFiniteSet(trail') /\ trail' \subseteq Rows /\ trail' \cap before = trail \cap before
    BY <2>2, <2>3, <2>5, FS_AddElement DEF PageInv
  <2> QED
    BY <2>4, <2>6 DEF PageInv, Behind
<1>3. CASE Audit!List
  BY <1>3, ListKeeps
<1>4. ASSUME NEW s \in Servers, Audit!BeginSweep(s) \/ Audit!DeleteBatch(s) \/ Audit!SweepFails(s)
      PROVE  PageInv'
  <2>1. trail' \subseteq trail
    BY <1>4 DEF Audit!BeginSweep, Audit!DeleteBatch, Audit!SweepFails
  <2>2. UNCHANGED <<clock, cursor, before, seen, twice>>
    BY <1>4 DEF Audit!BeginSweep, Audit!DeleteBatch, Audit!SweepFails, Audit!readerVars
  <2>3. IsFiniteSet(trail')
    BY <2>1, FS_Subset DEF PageInv
  <2> QED
    BY <2>1, <2>2, <2>3 DEF PageInv, Behind
<1>5. CASE UNCHANGED trailVars
  BY <1>5 DEF trailVars, PageInv, Behind
<1> QED
  BY <1>1, <1>2, <1>3, <1>4, <1>5 DEF Audit!Next

\* When no two rows share a millisecond without sharing their time: whatever is added and removed
\* between two pages, reading to the end shows every row that was there at the first page and that
\* retention has not taken, and none twice (createAuditReader's list and its cursor).
THEOREM PagesMissNothingAlways == Fine = 1 => (Spec => []Audit!PagesMissNothing)
<1> SUFFICES ASSUME Fine = 1 PROVE Spec => []Audit!PagesMissNothing
  OBVIOUS
<1>1. Init => PageInv
  <2> SUFFICES ASSUME Audit!Init PROVE PageInv
    BY DEF Init
  <2> QED
    BY FS_EmptySet DEF Audit!Init, PageInv
<1>2. PageInv => Audit!PagesMissNothing
  BY DEF PageInv, Audit!PagesMissNothing, Audit!Unread, Audit!Over
<1>3. PageInv /\ [Next]_vars => PageInv'
  BY PageInvStays, TrailSteps
<1> QED
  BY <1>1, <1>2, <1>3, PTL DEF Spec

-----------------------------------------------------------------------------
(***************************************************************************)
(* The shape of the states, which the invariants above do not all need.    *)
(***************************************************************************)

\* The sweep: one server at a time, which holds the lock.
SweepInv ==
    /\ clock \in Nat /\ clock > 0 /\ trail \subseteq Rows /\ Audit!TypeOK
    /\ sweep = [s \in Servers |-> sweep[s]]

\* Rows come with the clock's time, and whoever ends or fails a sweep gives the lock back.
LEMMA SweepInvStays == SweepInv /\ [Audit!Next]_trailVars => SweepInv'
<1> SUFFICES ASSUME SweepInv, [Audit!Next]_trailVars PROVE SweepInv'
  OBVIOUS
<1> USE TrailAssumption DEF SweepInv, Audit!TypeOK
<1>1. CASE Audit!Pass
  <2>1. clock' = clock + 1 /\ UNCHANGED <<trail, sweep, lock, failures>>
    BY <1>1 DEF Audit!Pass, Audit!sweepVars
  <2>2. \A r \in trail : r.at \in 1..clock'
    BY <2>1
  <2> QED
    BY <2>1, <2>2
<1>2. CASE Audit!Insert
  <2>1. PICK id \in 1..MaxRows : trail' = trail \cup {[at |-> clock, id |-> id]}
    BY <1>2 DEF Audit!Insert
  <2>2. UNCHANGED <<clock, sweep, lock, failures>>
    BY <1>2 DEF Audit!Insert, Audit!sweepVars
  <2>3. clock \in 1..clock
    OBVIOUS
  <2>4. [at |-> clock, id |-> id] \in Rows
    BY DEF Rows
  <2> QED
    BY <2>1, <2>2, <2>3, <2>4
<1>3. CASE Audit!List
  BY <1>3 DEF Audit!List, Audit!sweepVars
<1>4. ASSUME NEW s \in Servers, Audit!BeginSweep(s) PROVE SweepInv'
  BY <1>4 DEF Audit!BeginSweep, Audit!NotSweeping
<1>5. ASSUME NEW s \in Servers, Audit!DeleteBatch(s) PROVE SweepInv'
  <2>1. /\ sweep[s] # Audit!NotSweeping /\ trail' \subseteq trail /\ UNCHANGED <<clock, failures>>
        /\ \/ sweep' = [sweep EXCEPT ![s] = Audit!NotSweeping] /\ lock' = Free
           \/ /\ sweep' = [sweep EXCEPT ![s] = @ + 1] /\ sweep[s] + 1 # MaxBatches
              /\ lock' = lock
    BY <1>5 DEF Audit!DeleteBatch
  <2>2. lock = s
    BY <2>1
  <2>3. \A t \in Servers : sweep'[t] # Audit!NotSweeping <=> lock' = t
    BY <2>1, <2>2 DEF Audit!NotSweeping
  <2> QED
    BY <2>1, <2>3
<1>6. ASSUME NEW s \in Servers, Audit!SweepFails(s) PROVE SweepInv'
  BY <1>6 DEF Audit!SweepFails, Audit!NotSweeping
<1>7. CASE UNCHANGED trailVars
  BY <1>7 DEF trailVars
<1> QED
  BY <1>1, <1>2, <1>3, <1>4, <1>5, <1>6, <1>7 DEF Audit!Next

\* The tools of the page: what waits has not waited too long, and what is wanted is a call's secret.
Controls == [holder : {"bot", "human"}, requested : BOOLEAN, age : Nat, wanted : 0..MaxCalls]
ToolInv ==
    /\ made \in 0..MaxCalls
    /\ control \in [Tool!Computers -> Controls]
    /\ \A k \in Calls : /\ call[k].pc \in {"idle", "sent", "answer", "waiting"}
                        /\ call[k].waited \in 0..Wait /\ call[k].id \in 0..MaxCalls
    /\ \A c \in Tool!Computers : Len(log[c]) <= Limit

\* Nobody's call and a control state at rest.
LEMMA AtRestIs ==
  /\ Tool!AtRest \in Controls
  /\ [Tool!AtRest EXCEPT !.holder = "human"] \in Controls
  /\ Tool!Nobody.pc = "idle" /\ Tool!Nobody.waited = 0 /\ Tool!Nobody.id = 0
<1>1. 0 \in 0..MaxCalls
  BY AssistAssumption
<1>2. Tool!AtRest \in Controls
  BY <1>1 DEF Controls, Tool!AtRest
<1>3. \A s \in Controls : [s EXCEPT !.holder = "human"] \in Controls
  BY DEF Controls
<1>4. Tool!Nobody.pc = "idle" /\ Tool!Nobody.waited = 0 /\ Tool!Nobody.id = 0
  BY DEF Tool!Nobody
<1> QED
  BY <1>2, <1>3, <1>4

\* A control state that was read is one.
LEMMA ReadIs ==
  ASSUME control \in [Tool!Computers -> Controls], NEW c \in Tool!Computers
  PROVE  Tool!Read(c) \in Controls
  BY DEF Tool!Read, Controls

\* Recorded keeps the limit.
LEMMA RecordedFits ==
  ASSUME NEW S, NEW entries \in Seq(S), NEW e \in S, Len(entries) <= Limit
  PROVE  Len(Tool!Recorded(entries, e)) <= Limit
  BY AssistAssumption DEF Tool!Recorded

\* Every call, poll and switch keeps to it.
LEMMA ToolInvStays == AssistInv /\ ToolInv /\ [Tool!Next]_assistVars => ToolInv'
<1> SUFFICES ASSUME AssistInv, ToolInv, [Tool!Next]_assistVars PROVE ToolInv'
  OBVIOUS
<1>0. /\ made \in 0..MaxCalls /\ control \in [Tool!Computers -> Controls]
      /\ surface \in Tool!Computers /\ call = [k \in Calls |-> call[k]]
      /\ \A k \in Calls : call[k].at \in Tool!Computers
      /\ Wait \in Nat /\ MaxCalls \in Nat /\ Limit \in Nat
      /\ \A k \in Calls : /\ call[k].pc \in {"idle", "sent", "answer", "waiting"}
                          /\ call[k].waited \in 0..Wait /\ call[k].id \in 0..MaxCalls
      /\ \A c \in Tool!Computers : Len(log[c]) <= Limit
  BY AssistAssumption DEF AssistInv, CallsAreSomewhere, ToolInv
<1> DEFINE CallsFit == \A k \in Calls : /\ call[k].pc \in {"idle", "sent", "answer", "waiting"}
                                        /\ call[k].waited \in 0..Wait /\ call[k].id \in 0..MaxCalls
<1>1. ASSUME NEW k \in Calls, call' = [call EXCEPT ![k] = Tool!Nobody] PROVE CallsFit'
  BY <1>0, <1>1, AtRestIs
<1>2. ASSUME NEW c, NEW kind, call' = Tool!Helped(c, kind) PROVE CallsFit'
  BY <1>0, <1>2 DEF Tool!Helped
<1>3. ASSUME NEW b \in Bots, Tool!Open(b) PROVE ToolInv'
  BY <1>0, <1>3 DEF Tool!Open, ToolInv
<1>4. ASSUME NEW k \in Calls, NEW b \in Bots, NEW kind \in Tool!Kinds, Tool!Begin(k, b, kind)
      PROVE  ToolInv'
  <2>1. /\ made' = made + 1 /\ made < MaxCalls /\ UNCHANGED <<control, log>>
        /\ call' = [call EXCEPT ![k] = [Tool!Nobody EXCEPT !.pc = "sent", !.of = b, !.at = surface,
                                                          !.kind = kind, !.id = made']]
    BY <1>4 DEF Tool!Begin
  <2>2. made' \in 0..MaxCalls
    BY <1>0, <2>1
  <2>3. CallsFit'
    BY <1>0, <2>1, <2>2 DEF Tool!Nobody
  <2> QED
    BY <1>0, <2>1, <2>2, <2>3 DEF ToolInv
<1>5. ASSUME NEW k \in Calls, Tool!Serve(k) PROVE ToolInv'
  <2>1. PICK ok \in BOOLEAN :
          /\ call' = [call EXCEPT ![k].pc = "answer", ![k].ok = ok]
          /\ control' = CASE ok /\ call[k].kind = "help" ->
                               [control EXCEPT ![call[k].at].requested = TRUE, ![call[k].at].age = 0]
                          [] ok /\ call[k].kind = "secret" ->
                               [control EXCEPT ![call[k].at].wanted = call[k].id]
                          [] OTHER -> control
    BY <1>5 DEF Tool!Serve
  <2>2. CallsFit'
    BY <1>0, <2>1
  <2>3. control' \in [Tool!Computers -> Controls]
    <3>1. CASE ok /\ call[k].kind = "help"
      BY <1>0, <2>1, <3>1 DEF Controls
    <3>2. CASE ~(ok /\ call[k].kind = "help") /\ ok /\ call[k].kind = "secret"
      BY <1>0, <2>1, <3>2 DEF Controls
    <3>3. CASE ~(ok /\ call[k].kind = "help") /\ ~(ok /\ call[k].kind = "secret")
      BY <1>0, <2>1, <3>3
    <3> QED
      BY <3>1, <3>2, <3>3
  <2> QED
    BY <1>0, <1>5, <2>2, <2>3 DEF Tool!Serve, ToolInv
<1>6. ASSUME NEW k \in Calls, Tool!Answer(k) PROVE ToolInv'
  <2>1. CallsFit'
    BY <1>1, <1>6 DEF Tool!Answer
  <2>2. \A c \in Tool!Computers : Len(log'[c]) <= Limit
    <3>1. \/ log' = log
          \/ log' = [log EXCEPT ![call[k].at] = Tool!Recorded(log[call[k].at], call[k].at)]
      BY <1>6 DEF Tool!Answer
    <3>2. log \in [Tool!Computers -> Seq(Tool!Computers)]
      BY DEF AssistInv, ListsAreOwn
    <3>3. Len(Tool!Recorded(log[call[k].at], call[k].at)) <= Limit
      BY <1>0, <3>2, RecordedFits
    <3> QED
      BY <1>0, <3>1, <3>2, <3>3
  <2> QED
    BY <1>0, <1>6, <2>1, <2>2 DEF Tool!Answer, ToolInv
<1>7. ASSUME NEW k \in Calls, Tool!BeginWait(k) PROVE ToolInv'
  <2>1. CallsFit'
    <3>1. call' = [call EXCEPT ![k] = Tool!Nobody] \/ call' = [call EXCEPT ![k] = [call[k] EXCEPT !.pc = "waiting"]]
      BY <1>7 DEF Tool!BeginWait
    <3>2. ASSUME call' = [call EXCEPT ![k] = [call[k] EXCEPT !.pc = "waiting"]] PROVE CallsFit'
      BY <1>0, <3>2
    <3> QED
      BY <1>1, <3>1, <3>2
  <2> QED
    BY <1>0, <1>7, <2>1 DEF Tool!BeginWait, ToolInv
<1>8. ASSUME NEW k \in Calls, Tool!WaitForPerson(k) PROVE ToolInv'
  <2>1. CallsFit'
    BY <1>1, <1>8 DEF Tool!WaitForPerson
  <2>2. control' \in [Tool!Computers -> Controls]
    BY <1>0, <1>8, ReadIs DEF Tool!WaitForPerson
  <2> QED
    BY <1>0, <1>8, <2>1, <2>2 DEF Tool!WaitForPerson, ToolInv
<1>9. ASSUME NEW k \in Calls, Tool!GiveUp(k) \/ Tool!Stop(k) PROVE ToolInv'
  <2>1. CallsFit' /\ UNCHANGED <<control, log, made>>
    BY <1>1, <1>9 DEF Tool!GiveUp, Tool!Stop
  <2> QED
    BY <1>0, <2>1 DEF ToolInv
<1>10. ASSUME NEW c \in Tool!Computers, Tool!SetComputerState(c) PROVE ToolInv'
  BY <1>0, <1>10, AtRestIs DEF Tool!SetComputerState, ToolInv
<1>11. CASE Tool!Tick
  <2>1. CallsFit'
    <3>1. /\ \A k \in Calls : call[k].pc = "waiting" => call[k].waited < Wait
          /\ call' = [k \in Calls |-> IF call[k].pc = "waiting"
                                      THEN [call[k] EXCEPT !.waited = @ + 1] ELSE call[k]]
      BY <1>11 DEF Tool!Tick
    <3> SUFFICES ASSUME NEW k \in Calls
          PROVE  /\ call'[k].pc \in {"idle", "sent", "answer", "waiting"}
                 /\ call'[k].waited \in 0..Wait /\ call'[k].id \in 0..MaxCalls
      OBVIOUS
    <3>2. CASE call[k].pc = "waiting"
      <4>1. call'[k] = [call[k] EXCEPT !.waited = @ + 1]
        BY <3>1, <3>2
      <4>2. /\ call'[k].pc = call[k].pc /\ call'[k].id = call[k].id
            /\ call'[k].waited = call[k].waited + 1 \/ call'[k].waited = call[k].waited
        BY <4>1
      <4> QED
        BY <1>0, <3>1, <3>2, <4>2
    <3>3. CASE call[k].pc # "waiting"
      BY <1>0, <3>1, <3>3
    <3> QED
      BY <3>2, <3>3
  <2>2. control' \in [Tool!Computers -> Controls]
    <3>1. control' = [c \in Tool!Computers |-> IF control[c].requested /\ control[c].age <= Wait
                                       THEN [control[c] EXCEPT !.age = @ + 1] ELSE control[c]]
      BY <1>11 DEF Tool!Tick
    <3>2. \A s \in Controls : [s EXCEPT !.age = @ + 1] \in Controls
      BY DEF Controls
    <3> QED
      BY <1>0, <3>1, <3>2
  <2> QED
    BY <1>0, <1>11, <2>1, <2>2 DEF Tool!Tick, ToolInv
<1>12. CASE Tool!PollControl
  BY <1>0, <1>12, ReadIs DEF Tool!PollControl, ToolInv
<1>13. CASE Tool!TakeControl \/ Tool!HandBack
  <2>1. CallsFit'
    BY <1>2, <1>13 DEF Tool!TakeControl, Tool!HandBack
  <2>2. control' \in [Tool!Computers -> Controls]
    BY <1>0, <1>13, AtRestIs DEF Tool!TakeControl, Tool!HandBack
  <2> QED
    BY <1>0, <1>13, <2>1, <2>2 DEF Tool!TakeControl, Tool!HandBack, ToolInv
<1>14. CASE Tool!SupplySecret
  <2>1. CallsFit'
    <3>1. call' = call \/ call' = Tool!Helped(surface, "secret")
      BY <1>14 DEF Tool!SupplySecret
    <3> QED
      BY <1>0, <1>2, <3>1
  <2>2. control' \in [Tool!Computers -> Controls]
    <3>1. control' = [control EXCEPT ![surface].wanted = 0]
      BY <1>14 DEF Tool!SupplySecret
    <3>2. \A s \in Controls : [s EXCEPT !.wanted = 0] \in Controls
      <4>1. 0 \in 0..MaxCalls
        BY <1>0
      <4> QED
        BY ONLY <4>1 DEF Controls
    <3> QED
      BY <1>0, <3>1, <3>2
  <2> QED
    BY <1>0, <1>14, <2>1, <2>2 DEF Tool!SupplySecret, ToolInv
<1>15. CASE UNCHANGED assistVars
  BY <1>0, <1>15 DEF assistVars, ToolInv
<1> QED
  BY <1>3, <1>4, <1>5, <1>6, <1>7, <1>8, <1>9, <1>10, <1>11, <1>12, <1>13, <1>14, <1>15 DEF Tool!Next

\* The join has a connect to wait for, and what is shown was typed.
JoinInv ==
    /\ join \in {"none", "connecting", "detaching", "grace", "restoring", "over"}
    /\ join = "none" <=> ~ready
    /\ join \in {"connecting", "grace"} => connect
    /\ shown \in [Chat!Agents -> Words(typed)]

\* Every step of the join and every turn keeps to it.
LEMMA JoinInvStays == ChatInv /\ JoinInv /\ [Chat!Next]_chatVars => JoinInv'
<1> SUFFICES ASSUME ChatInv, JoinInv, [Chat!Next]_chatVars PROVE JoinInv'
  OBVIOUS
<1>0. /\ typed \in Nat /\ stored \in Words(typed) /\ shown \in [Chat!Agents -> Words(typed)]
      /\ \A t \in Turns : turn[t].says \in Words(typed)
      /\ \A n \in Nat : n >= typed => Words(typed) \subseteq Words(n)
      /\ join \in {"none", "connecting", "detaching", "grace", "restoring", "over"}
      /\ (join = "none" <=> ~ready)
      /\ (join \in {"connecting", "grace"} => connect)
  BY WordsHold, TurnFields DEF ChatInv, ChatTypes, JoinInv
<1>1. ASSUME typed' = typed + 1, UNCHANGED <<ready, join, connect, shown>> PROVE JoinInv'
  <2>1. Words(typed) \subseteq Words(typed')
    BY <1>0, <1>1
  <2>2. shown' \in [Chat!Agents -> Words(typed')]
    BY <1>0, <1>1, <2>1
  <2> QED
    BY <1>0, <1>1, <2>2 DEF JoinInv
<1>2. ASSUME UNCHANGED <<ready, join, connect, shown, typed>> PROVE JoinInv'
  BY <1>0, <1>2 DEF JoinInv
<1>3. CASE Chat!Type
  BY <1>1, <1>3 DEF Chat!Type
<1>4. CASE Chat!TakeBack \/ Chat!Delete
  BY <1>2, <1>4 DEF Chat!TakeBack, Chat!Delete
<1>5. CASE Chat!BecomeReady
  BY <1>0, <1>5 DEF Chat!BecomeReady, JoinInv
<1>6. CASE Chat!ConnectEnds
  <2>1. shown' \in [Chat!Agents -> Words(typed)] /\ UNCHANGED <<ready, typed>>
    BY <1>0, <1>6 DEF Chat!ConnectEnds
  <2>2. join' = IF join \in {"connecting", "grace"} THEN "restoring" ELSE join
    BY <1>6 DEF Chat!ConnectEnds
  <2> QED
    BY <1>0, <2>1, <2>2 DEF JoinInv
<1>7. CASE Chat!Deadline \/ Chat!Detached \/ Chat!Grace
  BY <1>0, <1>7 DEF Chat!Deadline, Chat!Detached, Chat!Grace, JoinInv
<1>8. CASE Chat!Restore
  <2>1. shown' \in [Chat!Agents -> Words(typed)] /\ UNCHANGED <<ready, connect, typed>>
    BY <1>0, <1>8 DEF Chat!Restore
  <2>2. join = "restoring" /\ join' = "over"
    BY <1>8 DEF Chat!Restore
  <2> QED
    BY <1>0, <2>1, <2>2 DEF JoinInv
<1>9. ASSUME NEW t \in Turns, Chat!Deliver(t) PROVE JoinInv'
  <2>1. UNCHANGED <<ready, join, typed>>
    BY <1>9 DEF Chat!Deliver
  <2>2. CASE Chat!Handed(t)
    <3>1. shown' = [shown EXCEPT ![Chat!Rendered] = @ \o turn[t].says] /\ connect' = connect
      BY <2>2 DEF Chat!Handed
    <3>2. \A s \in Words(typed) : s \o turn[t].says \in Words(typed)
      BY <1>0 DEF Words
    <3>3. shown' \in [Chat!Agents -> Words(typed)]
      BY <1>0, <3>1, <3>2
    <3> QED
      BY <1>0, <2>1, <3>1, <3>3 DEF JoinInv
  <2>3. CASE Chat!TornDown(t)
    <3>1. join = "over"
      BY <1>9, <2>3 DEF Chat!Deliver, Chat!MayDeliver, Chat!TornDown
    <3>2. shown' \in [Chat!Agents -> Words(typed)]
      BY <1>0, <2>3 DEF Chat!TornDown
    <3> QED
      BY <1>0, <2>1, <3>1, <3>2 DEF JoinInv
  <2> QED
    BY <1>9, <2>2, <2>3 DEF Chat!Deliver
<1>10. ASSUME NEW t \in Turns, Chat!AskFromComponent(t) PROVE JoinInv'
  BY <1>1, <1>10 DEF Chat!AskFromComponent
<1>11. ASSUME NEW t \in Turns,
              \/ Chat!Submit(t) \/ Chat!Drain(t) \/ Chat!CallTool(t) \/ Chat!AwaitReady(t)
              \/ Chat!AnswerTool(t) \/ Chat!EndTurn(t)
       PROVE  JoinInv'
  BY <1>2, <1>11 DEF Chat!Submit, Chat!Drain, Chat!CallTool, Chat!AwaitReady,
                     Chat!AnswerTool, Chat!EndTurn
<1>12. CASE UNCHANGED chatVars
  BY <1>2, <1>12 DEF chatVars
<1> QED
  BY <1>3, <1>4, <1>5, <1>6, <1>7, <1>8, <1>9, <1>10, <1>11, <1>12 DEF Chat!Next

\* Every state of every machine has its shape: among it, that the guard and its streams stay in their
\* bounds, that a join that waits has a connect to wait for, that nobody is waited for too long, that
\* the tab knows no channel that is not there, and that one server sweeps, the one with the lock.
THEOREM TypeCorrect == Spec => []TypeOK
<1>1. Init => SweepInv /\ ToolInv /\ JoinInv /\ AssistInv /\ ChatInv
  <2> SUFFICES ASSUME Init PROVE SweepInv /\ ToolInv /\ JoinInv /\ AssistInv /\ ChatInv
    OBVIOUS
  <2>1. SweepInv
    BY TrailAssumption DEF Init, Audit!Init, SweepInv, Audit!TypeOK, Audit!NotSweeping
  <2>2. ToolInv
    BY AssistAssumption, AtRestIs DEF Init, Tool!Init, ToolInv
  <2>3. JoinInv
    BY WordsHold DEF Init, Chat!Init, JoinInv
  <2>4. AssistInv
    BY DEF Init, Tool!Init, AssistInv, CallsAreSomewhere, ListsAreOwn, Tool!Nobody,
           Tool!Computers, Tool!Kinds, Tool!Default
  <2>5. ChatInv
    BY ChatInvBegins
  <2> QED
    BY <2>1, <2>2, <2>3, <2>4, <2>5
<1>2. /\ SweepInv /\ [Next]_vars => SweepInv'
      /\ AssistInv /\ ToolInv /\ [Next]_vars => AssistInv' /\ ToolInv'
      /\ ChatInv /\ JoinInv /\ [Next]_vars => ChatInv' /\ JoinInv'
  BY SweepInvStays, TrailSteps, AssistInvStays, ToolInvStays, ToolSteps, ChatInvStays, JoinInvStays, ChatSteps
<1>3. GuardInv /\ ChatInv /\ JoinInv /\ ToolInv /\ AssistInv /\ RosterInv /\ SweepInv => TypeOK
  <2> SUFFICES ASSUME GuardInv, ChatInv, JoinInv, ToolInv, AssistInv, RosterInv, SweepInv PROVE TypeOK
    OBVIOUS
  <2>1. Chat!TypeOK
    <3>1. \A a \in Chat!Agents : Chat!Range(shown[a]) \subseteq 1..typed
      BY WordsHold DEF Chat!Range, ChatInv, ChatTypes, JoinInv
    <3> QED
      BY <3>1 DEF Chat!TypeOK, JoinInv, ChatInv, OneAtATime
  <2>2. Tool!TypeOK
    BY AssistAssumption DEF Tool!TypeOK, ToolInv, AssistInv, Controls
  <2>3. Sidebar!TypeOK
    BY DEF Sidebar!TypeOK, RosterInv
  <2>4. Guard!TypeOK /\ Audit!TypeOK
    BY DEF GuardInv, SweepInv
  <2> QED
    BY <2>1, <2>2, <2>3, <2>4 DEF TypeOK
<1> QED
  BY <1>1, <1>2, <1>3, GuardInvAlways, RosterInvAlways, PTL DEF Spec
=============================================================================
