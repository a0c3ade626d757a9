------------------------------- MODULE Assist -------------------------------
(***************************************************************************)
(* A Bot's computer tools as one tab of the app runs them                  *)
(* (app/src/lib/copilot/computer-tools.tsx with active-bot.tsx and         *)
(* lib/computers), and the card through which a person answers             *)
(* (components/computer/computer-view.tsx).                                *)
(*                                                                         *)
(* The tools are registered once for the whole app.  A handler learns      *)
(* which computer to call from the surface that is mounted when it runs,   *)
(* and a run goes on when its person opens another conversation.  Two      *)
(* tools wait for the person: they poll the computer's control state until *)
(* it looks answered, Stop is pressed, or Wait ticks have passed; the      *)
(* computer itself drops an unanswered request for help after Wait ticks,  *)
(* counted from when it heard the request.                                 *)
(***************************************************************************)
EXTENDS Naturals, Sequences, FiniteSets

CONSTANTS Bots,         \* each has a conversation and a computer
          Calls,        \* tool calls of runs, in flight at once
          Wait,         \* WAIT_FOR_PERSON_MS and HELP_REQUEST_TTL_MS, in ticks
          Limit,        \* how many activities the pane keeps
          MaxMoves,     \* how often the person opens another conversation
          MaxCalls      \* how many calls are made

VARIABLES
    surface,    \* holder.current: the Bot of the mounted conversation, or the default
    control,    \* each computer's control state
    view,       \* what the card of the mounted conversation last read of it
    call,       \* the calls in flight
    log,        \* byComputer: what the pane of each computer lists, by the computer it happened on
    browsed,    \* the computers whose screen the pane may show, and those really browsed
    told,       \* what a Bot was told that is not so
    strayed,    \* a call reached a computer that is not its Bot's
    visited,    \* the Bots whose conversation was opened, each of which may have a run going
    moves, made

vars == <<surface, control, view, call, log, browsed, told, strayed, visited, moves, made>>

Default == "default"
Computers == Bots \cup {Default}
Kinds == {"navigate", "page", "file", "help", "secret"}

AtRest == [holder |-> "bot", requested |-> FALSE, age |-> 0, wanted |-> 0]
Nobody == [pc |-> "idle", of |-> Default, at |-> Default, kind |-> "page", waited |-> 0, id |-> 0,
           ok |-> FALSE, helped |-> FALSE]

Init ==
    /\ surface = Default
    /\ control = [c \in Computers |-> AtRest]
    /\ view = AtRest
    /\ call = [k \in Calls |-> Nobody]
    /\ log = [c \in Computers |-> <<>>]
    /\ browsed = {}
    /\ told = {}
    /\ strayed = FALSE
    /\ visited = {}
    /\ moves = 0
    /\ made = 0

-----------------------------------------------------------------------------
\* useActiveBot: a conversation announces its Bot while it is mounted, and leaving one restores what
\* was there before it.  The card is mounted anew and has read nothing.
Open(b) ==
    /\ b # surface /\ moves < MaxMoves
    /\ surface' = b
    /\ view' = AtRest
    /\ visited' = visited \cup {b}
    /\ moves' = moves + 1
    /\ UNCHANGED <<control, call, log, browsed, told, strayed, made>>

\* A run of Bot b calls a tool.  The run began where its conversation was mounted, and may have
\* outlived the visit.  The handler reads the holder and sends its request.
Begin(k, b, kind) ==
    /\ call[k].pc = "idle" /\ made < MaxCalls
    /\ b \in visited
    /\ made' = made + 1
    /\ strayed' = (strayed \/ surface # b)
    /\ call' = [call EXCEPT ![k] = [Nobody EXCEPT !.pc = "sent", !.of = b, !.at = surface,
                                                  !.kind = kind, !.id = made']]
    /\ UNCHANGED <<surface, control, view, log, browsed, told, visited, moves>>

\* The computer serves the request, unless the gateway refuses it, a person has the wheel, or nothing
\* can be reached.  A request for help or for a secret changes only the control state.
Serve(k) ==
    LET c == call[k].at IN
    /\ call[k].pc = "sent"
    /\ \E ok \in BOOLEAN :
        /\ ok /\ call[k].kind \in {"navigate", "page"} => control[c].holder = "bot"
        /\ call' = [call EXCEPT ![k].pc = "answer", ![k].ok = ok]
        /\ control' = CASE ok /\ call[k].kind = "help" ->
                             [control EXCEPT ![c].requested = TRUE, ![c].age = 0]
                        [] ok /\ call[k].kind = "secret" -> [control EXCEPT ![c].wanted = call[k].id]
                        [] OTHER -> control
    /\ UNCHANGED <<surface, view, log, browsed, told, strayed, visited, moves, made>>

\* A wrong variant: it keeps them all.
RecordedAll(entries, e) == Append(entries, e)

\* What the pane keeps of a call: the most recent Limit.
Recorded(entries, e) ==
    LET all == Append(entries, e) IN
    IF Len(all) > Limit THEN Tail(all) ELSE all

\* A wrong variant: the holder is read again when the answer is there.
AnswerByHolder(k) ==
    /\ call[k].pc = "answer" /\ call[k].kind \notin {"help", "secret"}
    /\ log' = IF call[k].kind = "file"
              THEN [log EXCEPT ![surface] = Recorded(@, call[k].at)] ELSE log
    /\ browsed' = IF call[k].kind = "navigate" /\ call[k].ok
                  THEN browsed \cup {<<surface, call[k].at>>} ELSE browsed
    /\ call' = [call EXCEPT ![k] = Nobody]
    /\ UNCHANGED <<surface, control, view, told, strayed, visited, moves, made>>

\* The answer of a tool that does not wait: a page that opened is noted, and a command or a file call
\* is recorded whether it worked or not.
Answer(k) ==
    /\ call[k].pc = "answer" /\ call[k].kind \notin {"help", "secret"}
    /\ log' = IF call[k].kind = "file"
              THEN [log EXCEPT ![call[k].at] = Recorded(@, call[k].at)] ELSE log
    /\ browsed' = IF call[k].kind = "navigate" /\ call[k].ok
                  THEN browsed \cup {<<call[k].at, call[k].at>>} ELSE browsed
    /\ call' = [call EXCEPT ![k] = Nobody]
    /\ UNCHANGED <<surface, control, view, told, strayed, visited, moves, made>>

\* A tool that waits begins to, if its request was taken; its deadline is counted from here.
BeginWait(k) ==
    /\ call[k].pc = "answer" /\ call[k].kind \in {"help", "secret"}
    /\ call' = [call EXCEPT ![k] = IF call[k].ok THEN [call[k] EXCEPT !.pc = "waiting"] ELSE Nobody]
    /\ UNCHANGED <<surface, control, view, log, browsed, told, strayed, visited, moves, made>>

-----------------------------------------------------------------------------
\* `get' of control.ts: an ask nobody answered is dropped when it is read too late.
Read(c) ==
    IF control[c].requested /\ control[c].holder = "bot" /\ control[c].age > Wait
    THEN [control[c] EXCEPT !.requested = FALSE] ELSE control[c]

\* What each of the two tools takes for an answer.
Done(kind, state) ==
    IF kind = "help" THEN state.holder = "bot" /\ ~state.requested ELSE state.wanted = 0

\* waitForPerson, one poll before the deadline.  A read that fails is no answer.  Told it is answered,
\* the Bot is told that the person did it.
WaitForPerson(k) ==
    LET c == call[k].at
        state == Read(c) IN
    /\ call[k].pc = "waiting" /\ call[k].waited < Wait
    /\ control' = [control EXCEPT ![c] = state]
    /\ Done(call[k].kind, state)
    /\ told' = IF call[k].helped THEN told ELSE told \cup {call[k].kind}
    /\ call' = [call EXCEPT ![k] = Nobody]
    /\ UNCHANGED <<surface, view, log, browsed, strayed, visited, moves, made>>

\* A wrong variant: it never gives up.
NeverGiveUp(k) ==
    /\ FALSE
    /\ UNCHANGED vars

\* At the deadline the Bot is told that nobody came.
GiveUp(k) ==
    /\ call[k].pc = "waiting" /\ call[k].waited >= Wait
    /\ call' = [call EXCEPT ![k] = Nobody]
    /\ UNCHANGED <<surface, control, view, log, browsed, told, strayed, visited, moves, made>>

\* Stop, which reaches a request and a wait alike.  What the computer already did stands.
Stop(k) ==
    /\ call[k].pc \in {"sent", "waiting"}
    /\ call' = [call EXCEPT ![k] = Nobody]
    /\ UNCHANGED <<surface, control, view, log, browsed, told, strayed, visited, moves, made>>

\* Time passes for the asks and for the waits; no handler oversleeps by more than one poll.
Tick ==
    /\ \A k \in Calls : call[k].pc = "waiting" => call[k].waited < Wait
    /\ \/ \E k \in Calls : call[k].pc = "waiting"
       \/ \E c \in Computers : control[c].requested /\ control[c].age <= Wait
    /\ call' = [k \in Calls |-> IF call[k].pc = "waiting"
                                THEN [call[k] EXCEPT !.waited = @ + 1] ELSE call[k]]
    /\ control' = [c \in Computers |-> IF control[c].requested /\ control[c].age <= Wait
                                       THEN [control[c] EXCEPT !.age = @ + 1] ELSE control[c]]
    /\ UNCHANGED <<surface, view, log, browsed, told, strayed, visited, moves, made>>

-----------------------------------------------------------------------------
\* The card polls the control state of the computer of the conversation it is in.
PollControl ==
    /\ surface # Default
    /\ control' = [control EXCEPT ![surface] = Read(surface)]
    /\ view' = control'[surface]
    /\ view' # view
    /\ UNCHANGED <<surface, call, log, browsed, told, strayed, visited, moves, made>>

\* Those that wait on c for a person's help, or for the value that was wanted there, have it.
Helped(c, kind) ==
    [k \in Calls |-> IF call[k].at = c /\ call[k].kind = kind /\ call[k].pc \in {"answer", "waiting"}
                     THEN [call[k] EXCEPT !.helped = TRUE] ELSE call[k]]

\* Take control, offered whenever the card does not show that the person has it.
TakeControl ==
    /\ surface # Default /\ view.holder = "bot"
    /\ control' = [control EXCEPT ![surface] = [AtRest EXCEPT !.holder = "human"]]
    /\ view' = control'[surface]
    /\ call' = Helped(surface, "help")
    /\ UNCHANGED <<surface, log, browsed, told, strayed, visited, moves, made>>

\* Hand back.
HandBack ==
    /\ surface # Default /\ view.holder = "human"
    /\ control' = [control EXCEPT ![surface] = AtRest]
    /\ view' = AtRest
    /\ call' = Helped(surface, "help")
    /\ UNCHANGED <<surface, log, browsed, told, strayed, visited, moves, made>>

\* An administrator stops or wipes a computer, from another page: its control state begins anew.  What
\* the pane lists of it stays, for nothing calls clearActivity.
SetComputerState(c) ==
    /\ control[c] # AtRest
    /\ control' = [control EXCEPT ![c] = AtRest]
    /\ UNCHANGED <<surface, view, call, log, browsed, told, strayed, visited, moves, made>>

\* The masked box: the value reaches the field, or the field is gone and the request is closed all
\* the same, or nothing was wanted any more; then the state is read again.
SupplySecret ==
    /\ surface # Default /\ view.wanted # 0
    /\ \E reached \in BOOLEAN :
        /\ control' = [control EXCEPT ![surface].wanted = 0]
        /\ call' = IF reached /\ control[surface].wanted # 0 THEN Helped(surface, "secret") ELSE call
    /\ view' = control'[surface]
    /\ UNCHANGED <<surface, log, browsed, told, strayed, visited, moves, made>>

Step(k) == Serve(k) \/ Answer(k) \/ BeginWait(k) \/ WaitForPerson(k) \/ GiveUp(k)

Next ==
    \/ \E b \in Bots : Open(b)
    \/ \E k \in Calls :
        \/ \E b \in Bots, kind \in Kinds : Begin(k, b, kind)
        \/ Serve(k) \/ Answer(k) \/ BeginWait(k) \/ WaitForPerson(k) \/ GiveUp(k) \/ Stop(k)
    \/ \E c \in Computers : SetComputerState(c)
    \/ Tick \/ PollControl \/ TakeControl \/ HandBack \/ SupplySecret

\* Requests are answered or time out, handlers run, and time passes.
Fairness == WF_vars(Tick) /\ \A k \in Calls : WF_vars(Step(k))

Spec == Init /\ [][Next]_vars /\ Fairness

-----------------------------------------------------------------------------
\* The state has the shape the code gives it.
TypeOK ==
    /\ surface \in Computers
    /\ \A k \in Calls : call[k].pc \in {"idle", "sent", "answer", "waiting"} /\ call[k].waited <= Wait
    /\ \A c \in Computers : Len(log[c]) <= Limit /\ control[c].wanted \in 0..MaxCalls

\* What the pane of a computer lists and the screen it shows are that computer's, whichever
\* conversation was opened while the call was out.
PaneTellsOwn ==
    /\ \A c \in Computers, i \in 1..Limit : i \in DOMAIN log[c] => log[c][i] = c
    /\ \A x \in browsed : x[1] = x[2]

\* No call waits for ever, on a person who never comes or in a conversation nobody looks at.
WaitEnds == \A k \in Calls : call[k].pc # "idle" ~> call[k].pc = "idle"

\* channel-chat.tsx: tool calls from a conversation act on its coworker's own computer.
ActsOnOwnComputer == ~strayed

\* agent-computer/src/index.ts: a secret is not reported as delivered unless a field receives it.
DeliveredMeansReceived == "secret" \notin told
=============================================================================
