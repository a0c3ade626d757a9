------------------------------ MODULE Harness ------------------------------
(***************************************************************************)
(* A coding agent driven headless inside a computer (createHarness): one   *)
(* process per turn, resumed from the session its thread had last time,    *)
(* its output turned into AG-UI events, and each tool it wants to use      *)
(* decided and recorded by the server first.                               *)
(***************************************************************************)
EXTENDS Naturals, Sequences, FiniteSets

CONSTANTS
    Threads, Turns,
    Sessions,     \* engine sessions, each opened once: bounds the fresh starts
    Engines,      \* the engines a request may name: claude-code, pi, opencode, or another
    MaxEvents     \* bound on the events of one turn

None == "none"

\* What an adapter makes of its engine's stream: whether a line can end the turn well, and
\* whether a clean exit does.
ClaudeCode == [endsInStream |-> TRUE, finishOnExit |-> FALSE]
Pi == [endsInStream |-> TRUE, finishOnExit |-> FALSE]
OpenCode == [endsInStream |-> FALSE, finishOnExit |-> TRUE]
Adapters == [name \in {"claude-code", "pi", "opencode"} |->
                IF name = "claude-code" THEN ClaudeCode ELSE IF name = "pi" THEN Pi ELSE OpenCode]

VARIABLES
    session,   \* the workspace: the session each thread had last time with each engine
    home,      \* the home directory: the sessions the engine still has
    turn,      \* each turn: its thread, its attempt, what that attempt has seen
    said,      \* each turn: the events of its stream
    tool,      \* each turn: the tool call its engine is at
    rows,      \* the audit trail: per turn, the decisions recorded
    used       \* history: per turn, the tools used

vars == <<session, home, turn, said, tool, rows, used>>

\* A turn is idle, on an attempt that resumes, on a fresh one, closed, gone with its
\* client, or dead with its computer.  It keeps the session of an attempt that was killed,
\* whose lines may still come, and whether they have said anything; late says that a line
\* was delivered after its attempt had ended.
TurnType == [at : {"idle", "resumed", "fresh", "closed", "gone", "dead"},
             thread : Threads, engine : Engines, resume : Sessions \union {None}, finished : BOOLEAN,
             sawWork : BOOLEAN, killed : Sessions \union {None}, killedSaid : BOOLEAN, late : BOOLEAN]
NewTurn == [at |-> "idle", thread |-> CHOOSE t \in Threads : TRUE, engine |-> CHOOSE e \in Engines : TRUE,
            resume |-> None, finished |-> FALSE, sawWork |-> FALSE,
            killed |-> None, killedSaid |-> FALSE, late |-> FALSE]
Events == {"RUN_STARTED", "work", "RUN_FINISHED", "RUN_ERROR"}
Terminal == {"RUN_FINISHED", "RUN_ERROR"}

TypeOK ==
    /\ session \in [Engines \X Threads -> Sessions \union {None}] /\ home \subseteq Sessions
    /\ turn \in [Turns -> TurnType]
    /\ said \in [Turns -> Seq(Events)]
    /\ tool \in [Turns -> {"none", "asked", "allowed"}]
    /\ rows \in [Turns -> Nat] /\ used \in [Turns -> Nat]

Init ==
    /\ session = [k \in Engines \X Threads |-> None] /\ home = {}
    /\ turn = [r \in Turns |-> NewTurn]
    /\ said = [r \in Turns |-> <<>>]
    /\ tool = [r \in Turns |-> "none"]
    /\ rows = [r \in Turns |-> 0] /\ used = [r \in Turns |-> 0]

\* The file a session id is kept in.
Key(r) == <<turn[r].engine, turn[r].thread>>
Running(r) == turn[r].at \in {"resumed", "fresh"}
Engaged(r) == Running(r) \/ turn[r].at = "gone"
Says(r, event) == said' = [said EXCEPT ![r] = Append(@, event)]
Room(r) == Len(said[r]) < MaxEvents
governed == <<rows, used>>

-----------------------------------------------------------------------------
(* run *)

\* The thread is free.  No such harness, or no user message: the error is the turn.
\* Otherwise the engine starts, resumed if the workspace remembers a session.
Run(r, e, t, prompt) ==
    /\ turn[r].at = "idle"
    /\ \A o \in Turns : Running(o) => turn[o].thread # t
    /\ IF e \notin DOMAIN Adapters \/ ~prompt
       THEN /\ turn' = [turn EXCEPT ![r] = [@ EXCEPT !.at = "closed", !.thread = t, !.engine = e]]
            /\ said' = [said EXCEPT ![r] = <<"RUN_STARTED", "RUN_ERROR">>]
       ELSE /\ turn' = [turn EXCEPT ![r] =
                  [NewTurn EXCEPT !.at = IF session[<<e, t>>] = None THEN "fresh" ELSE "resumed",
                                  !.thread = t, !.engine = e, !.resume = session[<<e, t>>]]]
            /\ Says(r, "RUN_STARTED")
    /\ UNCHANGED <<session, home, tool, governed>>

\* A resumed attempt that fails before any work: the session is forgotten, and the turn
\* starts again without it.  An attempt that was killed for it is still read.
StaleResume(r, killed) ==
    /\ session' = [session EXCEPT ![Key(r)] = None]
    /\ turn' = [turn EXCEPT ![r] = [turn[r] EXCEPT !.at = "fresh", !.resume = None, !.finished = FALSE,
                                                  !.killed = killed, !.late = @ \/ turn[r].finished]]
    /\ tool' = [tool EXCEPT ![r] = "none"]
    /\ UNCHANGED <<home, said, governed>>

Resumable(r) == turn[r].resume = None \/ turn[r].resume \in home

\* Every line is read as it comes, one after the line that ended the attempt too: those are
\* late, and bounded by MaxEvents.
Speaks(r) == Running(r) /\ tool[r] = "none" /\ (turn[r].finished => Room(r))
Sees(r, row) == turn' = [turn EXCEPT ![r] = [row EXCEPT !.late = @ \/ turn[r].finished]]

\* A line that carries the session of a fresh run: it is written into the workspace.
Remember(r) ==
    /\ Engaged(r) /\ turn[r].resume = None /\ session[Key(r)] \in {None, turn[r].killed}
    /\ \E s \in Sessions \ home :
          /\ home' = home \union {s}
          /\ session' = [session EXCEPT ![Key(r)] = s]
    /\ UNCHANGED <<turn, said, tool, governed>>

\* A line of text, or of a tool's result.
Work(r) ==
    /\ Speaks(r) /\ Resumable(r) /\ Room(r)
    /\ Says(r, "work")
    /\ Sees(r, [turn[r] EXCEPT !.sawWork = TRUE])
    /\ UNCHANGED <<session, home, tool, governed>>

\* The engine's last line says that it ended well.
EndLine(r) ==
    /\ Speaks(r) /\ Resumable(r)
    /\ Adapters[turn[r].engine].endsInStream
    /\ Says(r, "RUN_FINISHED")
    /\ Sees(r, [turn[r] EXCEPT !.finished = TRUE])
    /\ UNCHANGED <<session, home, tool, governed>>

\* Or that it failed, which is what an engine says at once of a session it does not have.
ErrorLine(r) ==
    /\ Speaks(r)
    /\ IF turn[r].resume # None /\ ~turn[r].sawWork
       THEN StaleResume(r, turn[r].resume)
       ELSE /\ Says(r, "RUN_ERROR")
            /\ Sees(r, [turn[r] EXCEPT !.finished = TRUE])
            /\ UNCHANGED <<session, home, tool, governed>>

\* A line of the attempt that was killed, into the stream of the fresh one: text, or an
\* ending, of which an error counts as stale until there was text.
KilledLine(r, event) ==
    /\ turn[r].at = "fresh" /\ turn[r].killed # None /\ Room(r)
    /\ event = "RUN_FINISHED" => Adapters[turn[r].engine].endsInStream
    /\ event = "RUN_ERROR" => turn[r].killedSaid
    /\ Says(r, event)
    /\ turn' = [turn EXCEPT ![r] = [turn[r] EXCEPT !.killedSaid = @ \/ event = "work", !.late = TRUE]]
    /\ UNCHANGED <<session, home, tool, governed>>

\* Or one that carries the session it was resumed from, which is written back.
KilledRemembers(r) ==
    /\ turn[r].killed # None
    /\ session' = [session EXCEPT ![Key(r)] = turn[r].killed]
    /\ UNCHANGED <<home, turn, said, tool, governed>>

\* An exit that ends every turn, one that has ended included.
ExitsTwice(r, clean) ==
    /\ Running(r)
    /\ Says(r, IF Adapters[turn[r].engine].finishOnExit /\ clean THEN "RUN_FINISHED" ELSE "RUN_ERROR")
    /\ turn' = [turn EXCEPT ![r].at = "closed"]
    /\ tool' = [tool EXCEPT ![r] = "none"]
    /\ UNCHANGED <<session, home, governed>>

\* The process exits.  A turn that has not ended is ended by the exit.
Exits(r, clean) ==
    /\ Running(r)
    /\ IF ~turn[r].finished /\ turn[r].resume # None /\ ~turn[r].sawWork
       THEN StaleResume(r, None)
       ELSE /\ IF turn[r].finished THEN said' = said
               ELSE Says(r, IF Adapters[turn[r].engine].finishOnExit /\ clean THEN "RUN_FINISHED" ELSE "RUN_ERROR")
            /\ turn' = [turn EXCEPT ![r].at = "closed"]
            /\ tool' = [tool EXCEPT ![r] = "none"]
            /\ UNCHANGED <<session, home, governed>>

\* The client goes away.  The stream has no cancel: nothing tells the engine, whose process
\* works on, unread.
HangUp(r) ==
    /\ Running(r)
    /\ turn' = [turn EXCEPT ![r].at = "gone"]
    /\ UNCHANGED <<session, home, said, tool, governed>>

\* The computer is rebuilt: the workspace stays, the home directory does not.
Rebuild ==
    /\ home # {}
    /\ home' = {}
    /\ turn' = [r \in Turns |-> [turn[r] EXCEPT !.at = IF Engaged(r) THEN "dead" ELSE @, !.killed = None]]
    /\ tool' = [r \in Turns |-> "none"]
    /\ UNCHANGED <<session, said, governed>>

-----------------------------------------------------------------------------
(* The engine's tools, and the route that decides them *)

AskTool(r) ==
    /\ Speaks(r) /\ Resumable(r) /\ Room(r)
    /\ Says(r, "work")
    /\ Sees(r, [turn[r] EXCEPT !.sawWork = TRUE])
    /\ tool' = [tool EXCEPT ![r] = "asked"]
    /\ UNCHANGED <<session, home, governed>>

\* A decision that answers before its row is written.
DecideUnrecorded(r, allowed, recorded) ==
    /\ Engaged(r) /\ tool[r] = "asked"
    /\ rows' = IF recorded THEN [rows EXCEPT ![r] = @ + 1] ELSE rows
    /\ tool' = [tool EXCEPT ![r] = IF allowed THEN "allowed" ELSE "none"]
    /\ UNCHANGED <<session, home, turn, said, used>>

\* The boundaries in force are evaluated, the row is written, and the answer follows.  A row that cannot
\* be written is a 500, and the hook refuses on anything but a yes.
Decide(r, allowed, recorded) ==
    /\ Engaged(r) /\ tool[r] = "asked"
    /\ rows' = IF recorded THEN [rows EXCEPT ![r] = @ + 1] ELSE rows
    /\ tool' = [tool EXCEPT ![r] = IF allowed /\ recorded THEN "allowed" ELSE "none"]
    /\ UNCHANGED <<session, home, turn, said, used>>

Use(r) ==
    /\ Engaged(r) /\ tool[r] = "allowed"
    /\ used' = [used EXCEPT ![r] = @ + 1]
    /\ tool' = [tool EXCEPT ![r] = "none"]
    /\ UNCHANGED <<session, home, turn, said, rows>>

Next ==
    \/ \E r \in Turns :
          \/ \E e \in Engines, t \in Threads, prompt \in BOOLEAN : Run(r, e, t, prompt)
          \/ KilledRemembers(r) \/ \E event \in Events \ {"RUN_STARTED"} : KilledLine(r, event)
          \/ Remember(r) \/ Work(r) \/ EndLine(r) \/ ErrorLine(r) \/ HangUp(r)
          \/ AskTool(r) \/ Use(r)
          \/ \E clean \in BOOLEAN : Exits(r, clean)
          \/ \E allowed, recorded \in BOOLEAN : Decide(r, allowed, recorded)
    \/ Rebuild

Spec == Init /\ [][Next]_vars

-----------------------------------------------------------------------------
\* A stream that closes has ended, whatever its engine said, exited with or was killed for.
EndingTold ==
    \A r \in Turns : turn[r].at = "closed" => \E i \in DOMAIN said[r] : said[r][i] \in Terminal

\* The harness ends it once, with its last event, by a line of the engine or by the exit and
\* not by both, a fresh attempt after a stale one included: a second ending, or an event
\* after it, is a line the engine said after its attempt had ended.
OneEnding ==
    \A r \in Turns : turn[r].at = "closed" /\ ~turn[r].late =>
        /\ said[r][Len(said[r])] \in Terminal
        /\ \A i \in 1..(Len(said[r]) - 1) : said[r][i] \notin Terminal

\* Every tool a harness has used, after its client went away too, has its row.
UsedIsRecorded == \A r \in Turns : used[r] <= rows[r]
=============================================================================
