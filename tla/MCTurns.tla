------------------------------ MODULE MCTurns ------------------------------
(***************************************************************************)
(* What must go on while a Bot works, for TLC: on the server the stall     *)
(* guard; in the browser the conversation, the tools that wait for a       *)
(* person and the channel roster; under them the host that keeps the stack *)
(* up.  Here they share no state, so a behaviour is one of one machine:    *)
(* Init chooses it among Machines, and the state spaces add up.            *)
(***************************************************************************)
EXTENDS Naturals, Sequences

CONSTANTS Machines,
          Streams, Stall, MaxChunks,
          MaxTyped, Turns, MaxGaps, Detaches,
          Bots, Calls, Wait, Limit, MaxMoves, MaxCalls,
          Channels, MaxSaid, MaxDrops,
          Keys, NoKey, Guarded, MaxCommands, MaxCrashes, MaxFaults, Keep,
          Servers, Days, Fine, PageSize, Batch, MaxBatches, MaxRows, MaxTime, Free

\* What the proofs ask of the constants: the clock and the bound on chunks are numbers.
ASSUME GuardAssumption == Stall \in Nat /\ MaxChunks \in Nat

\* The waits of the page's tools, the pane's limit and the bound on calls are numbers.
ASSUME AssistAssumption == Wait \in Nat /\ Limit \in Nat /\ MaxCalls \in Nat

\* A page has a row (list's limit is at least 1), a sweep a batch (MAX_BATCHES), and that nobody holds
\* the lock is not a server.
ASSUME TrailAssumption ==
    /\ PageSize \in Nat \ {0} /\ MaxBatches # 0 /\ Free \notin Servers
    /\ MaxRows \in Nat /\ MaxFaults \in Nat

VARIABLES
    machine,
    pump, sse, tracked, watched, quiet, paused, sweeper, relay, rows, owed, mute, silence,
    blamed, stopped,
    ready, join, connect, shown, stored, erased, outlived, box, queue, turn, calls, forged, mixed, typed,
    takenBack, active, buttons,
    surface, control, view, call, log, browsed, told, strayed, visited, moves, made,
    said, reports, last, notified, inbox, socket, drops, fetch, list, overtaken,
    postgres, supervisor, server, database, backups, envKey, keychain, serverKey, sealed, up,
    command, restored, guard, due, commands, crashes, faults,
    clock, trail, sweep, lock, failures, cursor, before, seen, twice

guardVars == <<pump, sse, tracked, watched, quiet, paused, sweeper, relay, rows, owed, mute,
               silence, blamed, stopped>>
chatVars == <<ready, join, connect, shown, stored, erased, outlived, box, queue, turn, calls,
              forged, mixed, typed, takenBack, active, buttons>>
assistVars == <<surface, control, view, call, log, browsed, told, strayed, visited, moves, made>>
rosterVars == <<said, reports, last, notified, inbox, socket, drops, fetch, list, overtaken>>
browserVars == <<chatVars, assistVars, rosterVars>>
sliceVars == <<postgres, supervisor, server, database, backups, envKey, keychain, serverKey,
               sealed, up, command, restored, guard, due, commands, crashes, faults>>
trailVars == <<clock, trail, sweep, lock, failures, cursor, before, seen, twice>>
hostVars == <<sliceVars, trailVars>>
vars == <<machine, guardVars, browserVars, hostVars>>

Guard == INSTANCE StallGuard
Chat == INSTANCE Conversation
Tool == INSTANCE Assist
Sidebar == INSTANCE Activity
Host == INSTANCE Slice
Audit == INSTANCE Trail

Init ==
    /\ machine \in Machines
    /\ Guard!Init /\ (machine # "guard" => \A s \in Streams : sse[s])
    /\ Chat!Init /\ (machine # "chat" => buttons)
    /\ Tool!Init /\ Sidebar!Init /\ Host!Init /\ Audit!Init

GuardStep ==
    machine = "guard" /\ Guard!Next /\ UNCHANGED <<machine, browserVars, hostVars>>

BrowserStep ==
    /\ \/ machine = "chat" /\ Chat!Next /\ UNCHANGED <<assistVars, rosterVars>>
       \/ machine = "assist" /\ Tool!Next /\ UNCHANGED <<chatVars, rosterVars>>
       \/ machine = "roster" /\ Sidebar!Next /\ UNCHANGED <<chatVars, assistVars>>
    /\ UNCHANGED <<machine, guardVars, hostVars>>

HostStep ==
    /\ \/ machine = "slice" /\ Host!Next /\ UNCHANGED trailVars
       \/ machine = "trail" /\ Audit!Next /\ UNCHANGED sliceVars
    /\ UNCHANGED <<machine, guardVars, browserVars>>

Next == GuardStep \/ BrowserStep \/ HostStep

\* The fairness of each machine, asked of the behaviours that are its own.
Fairness ==
    /\ WF_guardVars(machine = "guard" /\ Guard!Sweep) /\ WF_guardVars(machine = "guard" /\ Guard!Tick)
    /\ WF_chatVars(machine = "chat" /\ Chat!Deadline) /\ WF_chatVars(machine = "chat" /\ Chat!Grace)
    /\ WF_chatVars(machine = "chat" /\ Chat!Restore)
    /\ Detaches => WF_chatVars(machine = "chat" /\ Chat!Detached)
    /\ \A t \in Turns : /\ WF_chatVars(machine = "chat" /\ Chat!Drain(t))
                       /\ WF_chatVars(machine = "chat" /\ Chat!Going(t))
                       /\ SF_chatVars(machine = "chat" /\ Chat!EndTurn(t))
    /\ WF_assistVars(machine = "assist" /\ Tool!Tick)
    /\ \A k \in Calls : WF_assistVars(machine = "assist" /\ Tool!Step(k))
    /\ WF_rosterVars(machine = "roster" /\ Sidebar!DeliverEvent)
    /\ WF_rosterVars(machine = "roster" /\ Sidebar!OnOpen)
    /\ WF_rosterVars(machine = "roster" /\ Sidebar!OnMessage)
    /\ WF_rosterVars(machine = "roster" /\ Sidebar!ReadList)
    /\ WF_rosterVars(machine = "roster" /\ Sidebar!ListArrives)
    /\ WF_sliceVars(machine = "slice" /\ Host!Keeper)
    /\ \A w \in Host!Starters : WF_sliceVars(machine = "slice" /\ Host!StackStep(w))
    /\ WF_sliceVars(machine = "slice" /\ Host!CommandStep)
    /\ WF_trailVars(machine = "trail" /\ \E s \in Servers : Audit!BeginSweep(s))
    /\ WF_trailVars(machine = "trail" /\ \E s \in Servers : Audit!DeleteBatch(s))

Spec == Init /\ [][Next]_vars /\ Fairness

-----------------------------------------------------------------------------
\* The state of the machines has the shape the code gives it.
TypeOK ==
    /\ Guard!TypeOK /\ Chat!TypeOK /\ Tool!TypeOK /\ Sidebar!TypeOK /\ Audit!TypeOK

\* StallGuard: nobody is blamed for a slow reader.
BlameIsEarned == Guard!BlameIsEarned

\* StallGuard implements Relay.
RelayKept == Guard!RelayKept

\* StallGuard: a silent Bot's stream is ended.
SilentEnds == Guard!SilentEnds

\* Conversation: a parked message starts a turn of its own, and what a person typed reaches the
\* thread in the order it was typed; what was erased was said under a connect that outlived its grace.
QueueKept == Chat!DrainedBetweenTurns /\ Chat!SaidInOrder /\ Chat!ErasedOnlyLate

\* Conversation: no turn leaves a parked message unsaid.
NeverSilent == Chat!NeverSilent

\* Assist: the pane of a computer lists what happened on it.
PaneTellsOwn == Tool!PaneTellsOwn

\* Assist: no call waits for its person for ever.
WaitEnds == Tool!WaitEnds

\* Assist: a Bot's tools act on the Bot's own computer.
ActsOnOwnComputer == Tool!ActsOnOwnComputer

\* Assist: a secret reported as entered was received by a field.
DeliveredMeansReceived == Tool!DeliveredMeansReceived

\* Activity: the time of a channel's last message never goes back, and the roster comes to show
\* the newest of every channel.
RosterKept == Sidebar!LastMovesForward /\ (machine = "roster" => Sidebar!RosterCatchesUp)

\* Slice: no key in use is lost, and the guard brings the server and the supervisor back.
StackKept == []Host!KeyKept /\ (machine = "slice" => Host!StackComesBack)

\* Slice: the guard brings the whole stack back, Postgres too.
StackOutlives == machine = "slice" => Host!StackOutlives

\* Trail: reading to the end misses nothing, and old rows go in the end.
TrailKept == []Audit!PagesMissNothing /\ (machine = "trail" => Audit!OldRowsGo)

\* Slice: what a restore says is there is there.
RestoreIsWhole == Host!RestoreIsWhole
=============================================================================
