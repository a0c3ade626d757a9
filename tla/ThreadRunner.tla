---------------------------- MODULE ThreadRunner ----------------------------
(***************************************************************************)
(* The runner that owns the threads of a deployment (PostgresAgentRunner): *)
(* one thread, the process's copy of it, its rows in thread_runs, the runs *)
(* asked of it and the connections that watch it.  Every await of run,     *)
(* connect and finalizeRun is a step boundary.                             *)
(*                                                                         *)
(* A run's events are told apart as far as connect tells them apart: text  *)
(* carries a messageId, start and end carry none.                          *)
(***************************************************************************)
EXTENDS Naturals, Sequences, FiniteSets, SequencesExt

CONSTANTS
    Runs,         \* the runs a client may ask for, each by its runId
    Viewers,      \* connections
    Supersede,    \* onConcurrentRun = "supersede" rather than "throw"
    MaxRestarts   \* bound on restarts of the process

None == "none"   \* null, of currentRunId and of subject

Events == {"start", "text", "end"}

VARIABLES
    stored,    \* thread_runs: records of a run and its sequence
    thread,    \* ThreadState: the process's copy
    stage,     \* where each run stands
    spoken,    \* the events of each run, as pushed to its liveSubject
    owns,      \* ownsThread, as finalizeRun read it before its await
    viewer,    \* each connection: its state and the run it subscribes to
    shown,     \* how often each connection was sent each event
    due,       \* history: the runs a connection found when it was served
    happened,  \* history: the runs in the order they were added to the thread
    restarts

vars == <<stored, thread, stage, spoken, owns, viewer, shown, due,
          happened, restarts>>

Fresh == [runs |-> <<>>, hydrated |-> "no", isRunning |-> FALSE,
          currentRunId |-> None, stopRequested |-> FALSE, subject |-> None]

Under == {"running", "persisting", "closing"}   \* a turn is being taken

TypeOK ==
    /\ stored \in SUBSET [run : Runs, sequence : 0..(Cardinality(Runs) - 1)]
    /\ thread \in [runs : Seq(Runs), hydrated : {"no", "loading", "yes", "failed"},
                   isRunning : BOOLEAN, currentRunId : Runs \union {None},
                   stopRequested : BOOLEAN, subject : Runs \union {None}]
    /\ stage \in [Runs -> {"unasked", "hydrating", "refused", "done", "lost"} \union Under]
    /\ spoken \in [Runs -> SUBSET Events]
    /\ owns \in [Runs -> BOOLEAN]
    /\ viewer \in [Viewers -> [at : {"away", "hydrating", "watching", "closed"},
                               live : Runs \union {None}]]
    /\ shown \in [Viewers -> [Runs \X Events -> 0..2]]
    /\ due \in [Viewers -> SUBSET Runs]
    /\ happened \in Seq(Runs)
    /\ restarts \in 0..MaxRestarts

Init ==
    /\ stored = {}
    /\ thread = Fresh
    /\ stage = [r \in Runs |-> "unasked"]
    /\ spoken = [r \in Runs |-> {}]
    /\ owns = [r \in Runs |-> FALSE]
    /\ viewer = [v \in Viewers |-> [at |-> "away", live |-> None]]
    /\ shown = [v \in Viewers |-> [e \in Runs \X Events |-> 0]]
    /\ due = [v \in Viewers |-> {}]
    /\ happened = <<>>
    /\ restarts = 0

-----------------------------------------------------------------------------
(* hydrate: shared by whoever awaits it, and done once per process. *)

Hydrating(h) == IF h = "no" THEN "loading" ELSE h

\* The rows in the order of their sequence; rows with one sequence come in any order.
Loaded == {s \in [1..Cardinality(stored) -> {row.run : row \in stored}] :
              /\ \A row \in stored : \E i \in DOMAIN s : s[i] = row.run
              /\ \A a, b \in stored, i, j \in DOMAIN s :
                    s[i] = a.run /\ s[j] = b.run /\ a.sequence < b.sequence => i < j}

\* A hydrate that finds the thread and leaves its runs unread.
HydrateThreadOnly ==
    /\ thread.hydrated = "loading"
    /\ thread' = [thread EXCEPT !.hydrated = "yes"]
    /\ UNCHANGED <<stored, stage, spoken, owns, viewer, shown, due, happened, restarts>>

\* The two selects, and state.runs filled from them.
Hydrate ==
    /\ thread.hydrated = "loading"
    /\ \E s \in Loaded : thread' = [thread EXCEPT !.hydrated = "yes", !.runs = s]
    /\ UNCHANGED <<stored, stage, spoken, owns, viewer, shown, due, happened, restarts>>

\* A select that rejects: the rejected promise stays in state.hydrated.
HydrateFails ==
    /\ thread.hydrated = "loading"
    /\ thread' = [thread EXCEPT !.hydrated = "failed"]
    /\ UNCHANGED <<stored, stage, spoken, owns, viewer, shown, due, happened, restarts>>

-----------------------------------------------------------------------------
(* run and startRun *)

Run(r) ==
    /\ stage[r] = "unasked"
    /\ stage' = [stage EXCEPT ![r] = "hydrating"]
    /\ thread' = [thread EXCEPT !.hydrated = Hydrating(@)]
    /\ UNCHANGED <<stored, spoken, owns, viewer, shown, due, happened, restarts>>

Refuse(r) ==
    /\ stage[r] = "hydrating"
    /\ \/ thread.hydrated = "failed"
       \/ /\ thread.hydrated = "yes"
          /\ (thread.isRunning \/ thread.stopRequested) /\ ~Supersede
    /\ stage' = [stage EXCEPT ![r] = "refused"]
    /\ UNCHANGED <<stored, thread, spoken, owns, viewer, shown, due, happened, restarts>>

\* startRun; a superseded run is told to stop and its agent aborted.
StartRun(r) ==
    /\ stage[r] = "hydrating" /\ thread.hydrated = "yes"
    /\ Supersede \/ ~(thread.isRunning \/ thread.stopRequested)
    /\ stage' = [stage EXCEPT ![r] = "running"]
    /\ thread' = [thread EXCEPT !.isRunning = TRUE, !.currentRunId = r,
                                !.stopRequested = FALSE, !.subject = r]
    /\ UNCHANGED <<stored, spoken, owns, viewer, shown, due, happened, restarts>>

-----------------------------------------------------------------------------
(* The agent's events, and the end of the run *)

\* What a subscriber is sent of a live event: connect skips a text it has replayed already.
Sent(v, r, e) ==
    /\ viewer[v].at = "watching" /\ viewer[v].live = r
    /\ ~(e = "text" /\ shown[v][<<r, e>>] > 0)

Broadcast(r, e) ==
    /\ spoken' = [spoken EXCEPT ![r] = @ \union {e}]
    /\ shown' = [v \in Viewers |->
                    IF Sent(v, r, e) THEN [shown[v] EXCEPT ![<<r, e>>] = @ + 1] ELSE shown[v]]

Emit(r, e) ==
    /\ stage[r] = "running"
    /\ e \in {"start", "text"} \ spoken[r]
    /\ e = "text" => "start" \in spoken[r]
    /\ Broadcast(r, e)
    /\ UNCHANGED <<stored, thread, stage, owns, viewer, due, happened, restarts>>

\* The agent has ended, well or not: finalizeRun up to the await of persistRun.  A run that
\* failed before its first event is not written down and goes straight on to close.
Finalize(r) ==
    /\ stage[r] = "running"
    /\ owns' = [owns EXCEPT ![r] = thread.currentRunId = r]
    /\ \E isError \in BOOLEAN :
          stage' = [stage EXCEPT ![r] = IF owns'[r] /\ (~isError \/ spoken[r] # {})
                                        THEN "persisting" ELSE "closing"]
    /\ Broadcast(r, "end")
    /\ UNCHANGED <<stored, thread, viewer, due, happened, restarts>>

\* A sequence counted from one.
PersistFromOne(r) ==
    /\ stage[r] = "persisting"
    /\ stored' = IF \E row \in stored : row.run = r THEN stored
                 ELSE stored \union {[run |-> r, sequence |-> Len(thread.runs) + 1]}
    /\ thread' = [thread EXCEPT !.runs = Append(@, r)]
    /\ happened' = Append(happened, r)
    /\ stage' = [stage EXCEPT ![r] = "closing"]
    /\ UNCHANGED <<spoken, owns, viewer, shown, due, restarts>>

\* The transaction of persistRun commits and the run is added to the copy.
Persist(r) ==
    /\ stage[r] = "persisting"
    /\ stored' = IF \E row \in stored : row.run = r THEN stored
                 ELSE stored \union {[run |-> r, sequence |-> Len(thread.runs)]}
    /\ thread' = [thread EXCEPT !.runs = Append(@, r)]
    /\ happened' = Append(happened, r)
    /\ stage' = [stage EXCEPT ![r] = "closing"]
    /\ UNCHANGED <<spoken, owns, viewer, shown, due, restarts>>

\* The rest of finalizeRun: the thread is let go, its subscribers complete.
LetGo(t, r) ==
    LET free == IF owns[r] THEN [t EXCEPT !.currentRunId = None, !.stopRequested = FALSE,
                                          !.isRunning = FALSE]
                           ELSE t
    IN  [free EXCEPT !.subject = IF @ = r THEN None ELSE @]

Complete(r) ==
    viewer' = [v \in Viewers |-> IF viewer[v].at = "watching" /\ viewer[v].live = r
                                 THEN [viewer[v] EXCEPT !.at = "closed"] ELSE viewer[v]]

\* The transaction fails: the copy keeps the run, and nothing is awaited before the end.
PersistFails(r) ==
    /\ stage[r] = "persisting"
    /\ thread' = LetGo([thread EXCEPT !.runs = Append(@, r)], r)
    /\ happened' = Append(happened, r)
    /\ stage' = [stage EXCEPT ![r] = "done"]
    /\ Complete(r)
    /\ UNCHANGED <<stored, spoken, owns, shown, due, restarts>>

Close(r) ==
    /\ stage[r] = "closing"
    /\ stage' = [stage EXCEPT ![r] = "done"]
    /\ thread' = LetGo(thread, r)
    /\ Complete(r)
    /\ UNCHANGED <<stored, spoken, owns, shown, due, happened, restarts>>

-----------------------------------------------------------------------------
(* stop *)

MayStop == thread.isRunning /\ ~thread.stopRequested /\ thread.currentRunId # None

\* A stop that only says the thread is not running.
StopForgets ==
    /\ MayStop
    /\ thread' = [thread EXCEPT !.isRunning = FALSE]
    /\ UNCHANGED <<stored, stage, spoken, owns, viewer, shown, due, happened, restarts>>

Stop ==
    /\ MayStop
    /\ thread' = [thread EXCEPT !.stopRequested = TRUE, !.isRunning = FALSE]
    /\ UNCHANGED <<stored, stage, spoken, owns, viewer, shown, due, happened, restarts>>

-----------------------------------------------------------------------------
(* connect *)

Connect(v) ==
    /\ viewer[v].at = "away"
    /\ viewer' = [viewer EXCEPT ![v].at = "hydrating"]
    /\ thread' = [thread EXCEPT !.hydrated = Hydrating(@)]
    /\ UNCHANGED <<stored, stage, spoken, owns, shown, due, happened, restarts>>

ConnectFails(v) ==
    /\ viewer[v].at = "hydrating" /\ thread.hydrated = "failed"
    /\ viewer' = [viewer EXCEPT ![v].at = "away"]
    /\ UNCHANGED <<stored, thread, stage, spoken, owns, shown, due, happened, restarts>>

\* A replay that skips nothing.
ReplayedTwice(past, live, r, e) ==
    (IF r \in past /\ e \in spoken[r] THEN 1 ELSE 0)
      + (IF r = live /\ e \in spoken[r] THEN 1 ELSE 0)

\* How often event e of run r is sent: from the past runs, then from the live one's
\* replay, where a text that was just replayed is skipped.
Replayed(past, live, r, e) ==
    (IF r \in past /\ e \in spoken[r] THEN 1 ELSE 0)
      + (IF r = live /\ e \in spoken[r] /\ ~(e = "text" /\ r \in past) THEN 1 ELSE 0)

\* The turn a connection is subscribed to.  A thread without past runs answers with nothing
\* unless a turn is running on it, which one that was told to stop no longer is.
Live ==
    IF /\ thread.runs # <<>> \/ thread.isRunning
       /\ thread.isRunning \/ thread.stopRequested
    THEN thread.subject ELSE None

\* The past runs and the live one; a connection that is subscribed to nothing is complete.
Serve(v) ==
    LET past == Range(thread.runs)
        live == Live
    IN  /\ viewer[v].at = "hydrating" /\ thread.hydrated = "yes"
        /\ viewer' = [viewer EXCEPT ![v] = [at |-> IF live = None THEN "closed" ELSE "watching",
                                            live |-> live]]
        /\ shown' = [shown EXCEPT ![v] = [p \in Runs \X Events |->
                                             Replayed(past, live, p[1], p[2])]]
        /\ due' = [due EXCEPT ![v] = (past \union {live}) \ {None}]
        /\ UNCHANGED <<stored, thread, stage, spoken, owns, happened, restarts>>

-----------------------------------------------------------------------------
\* The process dies and is started again: the rows are what is left.
Restart ==
    /\ restarts < MaxRestarts
    /\ restarts' = restarts + 1
    /\ thread' = Fresh
    /\ stage' = [r \in Runs |-> IF stage[r] \in Under \union {"hydrating"} THEN "lost" ELSE stage[r]]
    /\ viewer' = [v \in Viewers |-> [at |-> "away", live |-> None]]
    /\ UNCHANGED <<stored, spoken, owns, shown, due, happened>>

Next ==
    \/ \E r \in Runs :
          \/ Run(r) \/ Refuse(r) \/ StartRun(r)
          \/ \E e \in Events : Emit(r, e)
          \/ Finalize(r) \/ Persist(r) \/ PersistFails(r) \/ Close(r)
    \/ \E v \in Viewers : Connect(v) \/ ConnectFails(v) \/ Serve(v)
    \/ Hydrate \/ HydrateFails \/ Stop \/ Restart

Spec == Init /\ [][Next]_vars

-----------------------------------------------------------------------------
\* Unless runs supersede one another, one turn at a time is taken on a thread, also
\* while a stopped one is still ending: startRun refuses on stopRequested as well.
OneTurnAtATime ==
    ~Supersede => Cardinality({r \in Runs : stage[r] \in Under}) <= 1

\* A connection that ran to its end was sent each text of the runs it found exactly once,
\* wherever between the agent, the row and the end of the run it was opened: the past runs,
\* and the one under way but for a first turn that has been told to stop (Live).
ShownOnce ==
    \A v \in Viewers : viewer[v].at = "closed" =>
        \A r \in due[v] : "text" \in spoken[r] => shown[v][<<r, "text">>] = 1

InOrder == \A a, b \in stored : a.sequence < b.sequence <=>
    \E i, j \in DOMAIN happened : happened[i] = a.run /\ happened[j] = b.run /\ i < j

\* The column `sequence` is what replay goes by: as long as no row was lost, the rows of
\* a thread are in the order in which its turns were taken, through restarts.
RowsInOrder == (\A i \in DOMAIN happened : \E a \in stored : a.run = happened[i]) => InOrder

\* The same whatever happens to a row, as the column's comment has it.
SequenceIsMonotonic == InOrder
=============================================================================
