---------------------------- MODULE Conversation ----------------------------
(***************************************************************************)
(* One channel's conversation in one tab: the composer and its queue       *)
(* (app/src/components/channels/composer), the view that drains the queue  *)
(* (conversation-view.tsx), and the chat that joins the thread, says what  *)
(* was typed and runs the Bot (channel-chat.tsx, with lib/copilot's        *)
(* join-thread.ts, thread-messages.ts and repair-history.ts).              *)
(*                                                                         *)
(* A message is a number, in the order they are typed.  useAgent hands out *)
(* a provisional agent until the runtime's own is ready, and each has its  *)
(* own list of messages.  A turn is in flight from the moment it is sent,  *)
(* waits for the agent and for the join, and is then several runs in a     *)
(* row, with the Bot's call of a browser tool executing in between.        *)
(***************************************************************************)
EXTENDS Naturals, Sequences, FiniteSets, SequencesExt

CONSTANTS MaxTyped,     \* how many messages a person types
          Turns,        \* turns in flight at once
          MaxGaps,      \* how many browser tools a turn calls
          Detaches      \* detach() settles: the library's promise, see Detached

VARIABLES
    ready,      \* isReady: the runtime's agent is there
    join,       \* the join effect: not started, connecting, detaching, in its grace, restoring, over
    connect,    \* whether the connect itself is still in flight
    shown,      \* the messages of the agents, provisional and runtime
    stored,     \* the messages the thread holds on the server
    erased,     \* the messages a connect that was torn down took with it
    outlived,   \* a connect outlived its grace
    box,        \* what is typed and not sent, 0 for nothing
    queue,      \* the messages parked behind the turn
    turn,       \* the turns in flight
    calls,      \* the browser tools that are executing, by turn
    forged,     \* a result was made up for a tool that was still executing
    mixed,      \* a parked message was sent into a turn in flight
    typed,      \* how many messages were typed
    takenBack,  \* the messages a person took out of the queue
    active,     \* the coworker is not deleted
    buttons     \* what the Bot draws has a button that says something

vars == <<ready, join, connect, shown, stored, erased, outlived, box, queue, turn, calls, forged,
          mixed, typed, takenBack, active, buttons>>

Agents == {"provisional", "runtime"}
NoTurn == [phase |-> "none", says |-> <<>>, agent |-> "provisional", gaps |-> 0]
Rendered == IF ready THEN "runtime" ELSE "provisional"

Init ==
    /\ ready = FALSE
    /\ join = "none"
    /\ connect = FALSE
    /\ shown = [a \in Agents |-> <<>>]
    /\ stored = <<>>
    /\ erased = {} /\ outlived = FALSE
    /\ box = 0
    /\ queue = <<>>
    /\ turn = [t \in Turns |-> NoTurn]
    /\ calls = {}
    /\ forged = FALSE
    /\ mixed = FALSE
    /\ typed = 0
    /\ takenBack = {}
    /\ active = TRUE
    /\ buttons \in BOOLEAN

\* turnsInFlight, and with it `pending': the turn and not the run.
InFlight == \E t \in Turns : turn[t].phase # "none"

\* A wrong reading: the run on the wire, as agent.isRunning has it.
OnTheWire == \E t \in Turns : turn[t].phase = "run" /\ turn[t].agent = Rendered

-----------------------------------------------------------------------------
\* The composer takes one more message into its box.
Type ==
    /\ active /\ box = 0 /\ typed < MaxTyped
    /\ typed' = typed + 1
    /\ box' = typed'
    /\ UNCHANGED <<ready, join, connect, shown, stored, erased, outlived, queue, turn, calls,
                   forged, mixed, takenBack, active, buttons>>

\* say: a turn begins, and waits for what it has to wait for.
Say(t, says) ==
    /\ turn[t].phase = "none"
    /\ turn' = [turn EXCEPT ![t] = [phase |-> "ready", says |-> says, agent |-> "provisional",
                                    gaps |-> 0]]

\* A wrong variant: parked and sent are told apart by the run.
SubmitByRun(t) ==
    /\ box # 0 /\ active
    /\ box' = 0
    /\ IF OnTheWire
       THEN queue' = Append(queue, box) /\ UNCHANGED turn
       ELSE queue' = <<>> /\ Say(t, Append(queue, box))
    /\ UNCHANGED <<ready, join, connect, shown, stored, erased, outlived, calls, forged, mixed,
                   typed, takenBack, active, buttons>>

\* submitDraft and reduceQueue's submit: behind a turn the message is parked, otherwise it is sent,
\* and takes with it whatever waits.
Submit(t) ==
    /\ box # 0 /\ active
    /\ box' = 0
    /\ IF InFlight
       THEN queue' = Append(queue, box) /\ UNCHANGED turn
       ELSE queue' = <<>> /\ Say(t, Append(queue, box))
    /\ UNCHANGED <<ready, join, connect, shown, stored, erased, outlived, calls, forged, mixed,
                   typed, takenBack, active, buttons>>

\* A wrong variant: the queue is drained when no run is on the wire.
DrainByRun(t) ==
    /\ active /\ queue # <<>> /\ ~OnTheWire
    /\ Say(t, queue)
    /\ mixed' = (mixed \/ InFlight)
    /\ queue' = <<>>
    /\ UNCHANGED <<ready, join, connect, shown, stored, erased, outlived, box, calls, forged,
                   typed, takenBack, active, buttons>>

\* The drain of conversation-view.tsx: when the turn is over, however it ended, and the channel is
\* not disabled, everything parked is one turn.
Drain(t) ==
    /\ active /\ queue # <<>> /\ ~InFlight
    /\ Say(t, queue)
    /\ mixed' = (mixed \/ InFlight)
    /\ queue' = <<>>
    /\ UNCHANGED <<ready, join, connect, shown, stored, erased, outlived, box, calls, forged,
                   typed, takenBack, active, buttons>>

\* reduceQueue's remove.
TakeBack ==
    \E i \in DOMAIN queue :
        /\ queue' = RemoveAt(queue, i)
        /\ takenBack' = takenBack \cup {queue[i]}
        /\ UNCHANGED <<ready, join, connect, shown, stored, erased, outlived, box, turn, calls,
                       forged, mixed, typed, active, buttons>>

\* A button of a drawn component says something, whatever is in flight.
AskFromComponent(t) ==
    /\ buttons /\ typed < MaxTyped
    /\ typed' = typed + 1
    /\ Say(t, <<typed'>>)
    /\ UNCHANGED <<ready, join, connect, shown, stored, erased, outlived, box, queue, calls,
                   forged, mixed, takenBack, active, buttons>>

\* The coworker is deleted: nothing more is typed, sent or drained.
Delete ==
    /\ active
    /\ active' = FALSE
    /\ UNCHANGED <<ready, join, connect, shown, stored, erased, outlived, box, queue, turn, calls,
                   forged, mixed, typed, takenBack, buttons>>

-----------------------------------------------------------------------------
\* The runtime's agent is there, and the join effect begins to connect it.
BecomeReady ==
    /\ ~ready
    /\ ready' = TRUE
    /\ join' = "connecting"
    /\ connect' = TRUE
    /\ UNCHANGED <<shown, stored, erased, outlived, box, queue, turn, calls, forged, mixed, typed,
                   takenBack, active, buttons>>

\* A connect that ends, or that is ended, replaces the agent's messages by the thread's; it may also
\* fail and replace nothing.  Whoever awaits the detach learns of it afterwards.
ConnectEnds ==
    /\ connect
    /\ connect' = FALSE
    /\ shown' \in {[shown EXCEPT !["runtime"] = stored], shown}
    /\ join' = IF join \in {"connecting", "grace"} THEN "restoring" ELSE join
    /\ UNCHANGED <<ready, stored, erased, outlived, box, queue, turn, calls, forged, mixed, typed,
                   takenBack, active, buttons>>

\* joinWithin: at the deadline the connect is asked to end.
Deadline ==
    /\ join = "connecting"
    /\ join' = "detaching"
    /\ UNCHANGED <<ready, connect, shown, stored, erased, outlived, box, queue, turn, calls,
                   forged, mixed, typed, takenBack, active, buttons>>

\* `await detach()': nothing bounds this wait.  Afterwards the connect that ended is a join that is
\* over, and one that did not end is given a grace.
Detached ==
    /\ join = "detaching"
    /\ join' = IF connect THEN "grace" ELSE "restoring"
    /\ UNCHANGED <<ready, connect, shown, stored, erased, outlived, box, queue, turn, calls,
                   forged, mixed, typed, takenBack, active, buttons>>

\* A wrong variant: nothing bounds the wait for a connect that was asked to end.
NoGrace ==
    /\ FALSE
    /\ UNCHANGED vars

\* After the grace the join goes on without the connect.
Grace ==
    /\ join = "grace"
    /\ join' = "restoring"
    /\ outlived' = TRUE
    /\ UNCHANGED <<ready, connect, shown, stored, erased, box, queue, turn, calls, forged, mixed,
                   typed, takenBack, active, buttons>>

\* readThreadMessages: the stored messages, or none when they cannot be read; messages that are
\* already there are never overwritten.  Either way the gate opens.
Restore ==
    /\ join = "restoring"
    /\ join' = "over"
    /\ shown' \in {IF shown["runtime"] = <<>> THEN [shown EXCEPT !["runtime"] = stored] ELSE shown,
                   shown}
    /\ UNCHANGED <<ready, connect, stored, erased, outlived, box, queue, turn, calls, forged,
                   mixed, typed, takenBack, active, buttons>>

-----------------------------------------------------------------------------
\* deliver waits for the runtime's agent, and with one there for the join's gate.
AwaitReady(t) ==
    /\ turn[t].phase = "ready" /\ ready
    /\ turn' = [turn EXCEPT ![t].phase = "join"]
    /\ UNCHANGED <<ready, join, connect, shown, stored, erased, outlived, box, queue, calls,
                   forged, mixed, typed, takenBack, active, buttons>>

\* It waits for an agent only so long, and for the gate until the join is over.
MayDeliver(t) ==
    \/ turn[t].phase = "ready" /\ ~ready
    \/ turn[t].phase = "join" /\ join = "over"

\* repairUnansweredToolCalls finds calls without a result: here those that are still executing.
Unanswered == calls # {}

\* The run hands the messages of its agent to the thread.
Handed(t) ==
    /\ shown' = [shown EXCEPT ![Rendered] = @ \o turn[t].says]
    /\ stored' = stored \o turn[t].says
    /\ UNCHANGED <<connect, erased>>

\* A connect that is still in flight is torn down by the run, and ends by replacing the messages:
\* before the run read them, and what was just added is erased, or after.
TornDown(t) ==
    /\ connect /\ ready
    /\ connect' = FALSE
    /\ shown' = [shown EXCEPT !["runtime"] = stored]
    /\ \/ erased' = erased \cup Range(turn[t].says) /\ UNCHANGED stored
       \/ stored' = stored \o turn[t].says /\ UNCHANGED erased

\* The rest of deliver, in one go: the message is added to the agent on screen, a call without a
\* result is given one, and the run begins.
Deliver(t) ==
    /\ MayDeliver(t)
    /\ Handed(t) \/ TornDown(t)
    /\ forged' = (forged \/ Unanswered)
    /\ turn' = [turn EXCEPT ![t].phase = "run", ![t].agent = Rendered]
    /\ UNCHANGED <<ready, join, outlived, box, queue, calls, mixed, typed, takenBack, active,
                   buttons>>

\* The Bot calls a browser tool: the run ends so that the browser can answer, and the next one
\* carries the answer.
CallTool(t) ==
    /\ turn[t].phase = "run" /\ turn[t].gaps < MaxGaps
    /\ calls' = calls \cup {t}
    /\ turn' = [turn EXCEPT ![t].phase = "gap", ![t].gaps = @ + 1]
    /\ UNCHANGED <<ready, join, connect, shown, stored, erased, outlived, box, queue, forged,
                   mixed, typed, takenBack, active, buttons>>

AnswerTool(t) ==
    /\ turn[t].phase = "gap"
    /\ calls' = calls \ {t}
    /\ turn' = [turn EXCEPT ![t].phase = "run"]
    /\ UNCHANGED <<ready, join, connect, shown, stored, erased, outlived, box, queue, forged,
                   mixed, typed, takenBack, active, buttons>>

\* The run finishes, fails or is stopped, the tool it was executing with it: the turn is over.
EndTurn(t) ==
    /\ turn[t].phase \in {"run", "gap"}
    /\ turn' = [turn EXCEPT ![t] = NoTurn]
    /\ calls' = calls \ {t}
    /\ UNCHANGED <<ready, join, connect, shown, stored, erased, outlived, box, queue, forged,
                   mixed, typed, takenBack, active, buttons>>

Going(t) == AwaitReady(t) \/ Deliver(t) \/ AnswerTool(t) \/ EndTurn(t)

Next ==
    \/ Type \/ TakeBack \/ Delete \/ BecomeReady \/ ConnectEnds \/ Deadline \/ Detached \/ Grace
    \/ Restore
    \/ \E t \in Turns : \/ Submit(t) \/ Drain(t) \/ AskFromComponent(t) \/ CallTool(t)
                        \/ AwaitReady(t) \/ Deliver(t) \/ AnswerTool(t) \/ EndTurn(t)

\* Timers fire, requests are answered or fail, effects run, and a turn does not last for ever (the
\* stall guard ends a silent one).  That a connect ever ends is nobody's promise; that a detach
\* settles, whatever became of the connect, is assumed where Detaches says so.
Fairness ==
    /\ WF_vars(Deadline) /\ WF_vars(Grace) /\ WF_vars(Restore)
    /\ Detaches => WF_vars(Detached)
    /\ \A t \in Turns : WF_vars(Drain(t)) /\ WF_vars(Going(t)) /\ SF_vars(EndTurn(t))

Spec == Init /\ [][Next]_vars /\ Fairness

-----------------------------------------------------------------------------
\* The state has the shape the code gives it, and the join has a connect to wait for.
TypeOK ==
    /\ join \in {"none", "connecting", "detaching", "grace", "restoring", "over"}
    /\ join = "none" <=> ~ready
    /\ join \in {"connecting", "grace"} => connect
    /\ calls \subseteq {t \in Turns : turn[t].phase = "gap"}
    /\ \A a \in Agents : Range(shown[a]) \subseteq 1..typed

\* A parked message runs when the turn is over and never in the middle of one, so that no result is
\* made up for a browser tool that is still executing (only a drawn button can have that happen).
DrainedBetweenTurns == ~mixed /\ (forged => buttons)

\* What is said in the composer is said in the order it was typed.
SaidInOrder == buttons \/ \A i, j \in DOMAIN stored : i < j => stored[i] < stored[j]

\* No message is added under a connect that may still erase it, but when the connect outlived the
\* deadline, the detach and the grace (deliver: "EVERY TURN WAITS FOR THE JOIN").
ErasedOnlyLate == erased # {} => outlived

\* What was sent or parked is said in the end, unless it is taken back or the coworker is deleted:
\* no connect, however it hangs, silences the conversation.  A connect that outlived its grace may
\* erase a message, and its turn runs without it.
NeverSilent ==
    \A m \in 1..MaxTyped :
        (typed >= m /\ box # m) ~> (m \in Range(stored) \cup takenBack \cup erased \/ ~active)
=============================================================================
