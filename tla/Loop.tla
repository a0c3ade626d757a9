-------------------------------- MODULE Loop --------------------------------
(***************************************************************************)
(* The loops of the Bots that run in processes of their own (the index.ts  *)
(* and history.ts of agent-langgraph and of agent-bot).  A graph answers,  *)
(* calls the deployment's tools and answers again; its events come to      *)
(* runAgent through a queue, behind what the graph has already done, and   *)
(* runAgent tells the surface.  A call that is the surface's ends the run, *)
(* and the next begins from the conversation the surface kept, its own     *)
(* answers in it or not.  The Bot written by hand answers once a run, and  *)
(* every tool is the surface's.                                            *)
(***************************************************************************)
EXTENDS Naturals, Sequences, SequencesExt

CONSTANTS MaxCalls,    \* calls a behaviour makes
          MaxAnswers,  \* answers of one run, recursionLimit
          MaxRuns,
          ReadBack     \* the LangGraph Bot too gets conversations read back from the store

VARIABLES
    byHand,    \* which Bot it is
    node,      \* of the graph: "none", "answer", "tools", "end" or "failed"
    spoke,     \* whether this answer has said something
    calls,     \* tool_calls of the last message
    ran,       \* the calls that were made to the deployment
    used,      \* how many ids were given out
    answers,
    queue,     \* events of the graph that runAgent has not seen
    relay,     \* of runAgent: "none", "on" or "closed"
    textOpen,
    pending,   \* the calls seen on the way past, oldest first
    sent,      \* the events of this run
    runs,
    since,     \* the ids given out before this run
    given,     \* the messages the model is shown
    past       \* the conversation as the surface keeps it

graphVars == <<node, spoke, calls, ran, used, answers>>
relayVars == <<relay, textOpen, pending, sent>>
runVars == <<byHand, runs, since, given>>
vars == <<graphVars, queue, relayVars, runVars, past>>

Message(role, id) == [role |-> role, id |-> id, real |-> TRUE]
Event(type, id) == [type |-> type, id |-> id]
Ids(s) == {s[i].id : i \in DOMAIN s}

Init ==
    /\ byHand \in BOOLEAN
    /\ node = "none" /\ spoke = FALSE /\ calls = <<>> /\ ran = {} /\ used = 0 /\ answers = 0
    /\ queue = <<>> /\ relay = "none" /\ textOpen = FALSE /\ pending = <<>> /\ sent = <<>>
    /\ runs = 0 /\ since = 0 /\ given = <<>> /\ past = <<>>

-----------------------------------------------------------------------------
\* Of s, in its order, what passes the test.
Those(s, Test(_)) == FlattenSeq([i \in DOMAIN s |-> IF Test(s[i]) THEN <<s[i]>> ELSE <<>>])
Of(role, conversation) == Those(conversation, LAMBDA m : m.role = role)

\* The conversation as the surface has it, or as the store gives it back, results first.
Arrives ==
    {past} \cup IF byHand \/ ReadBack THEN {Of("tool", past) \o Of("assistant", past)} ELSE {}

\* A wrong variant: the calls that nobody answered stay as they are.
ToMessages(conversation) == conversation

\* toLangChainMessages: behind a call that no message answers goes an answer saying none came.
ToLangChainMessages(conversation) ==
    LET answered == Ids(Of("tool", conversation))
        Closed(m) == IF m.role = "assistant" /\ m.id \notin answered
                     THEN <<m, [Message("tool", m.id) EXCEPT !.real = FALSE]>> ELSE <<m>>
    IN  FlattenSeq([i \in DOMAIN conversation |-> Closed(conversation[i])])

\* toProviderMessages: each call with its answer behind it, wherever that was.
ToProviderMessages(conversation) ==
    LET Closed(m) == <<m, [Message("tool", m.id) EXCEPT
                              !.real = Message("tool", m.id) \in Range(conversation)]>>
    IN  FlattenSeq([i \in DOMAIN Of("assistant", conversation) |->
                       Closed(Of("assistant", conversation)[i])])

\* runAgent begins, and with it the graph; here, when the graph of the run before has ended.
RunAgent ==
    /\ relay # "on" /\ node \in {"none", "end", "failed"} /\ runs < MaxRuns
    /\ \E conversation \in Arrives :
        given' = IF byHand THEN ToProviderMessages(conversation)
                           ELSE ToLangChainMessages(conversation)
    /\ node' = "answer" /\ spoke' = FALSE /\ calls' = <<>> /\ answers' = 0
    /\ relay' = "on" /\ textOpen' = FALSE /\ pending' = <<>>
    /\ sent' = <<Event("RUN_STARTED", 0)>>
    /\ runs' = runs + 1 /\ since' = used
    /\ queue' = <<>>
    /\ UNCHANGED <<byHand, ran, used, past>>

-----------------------------------------------------------------------------
Emits(type, cs) == queue' = IF relay = "on" THEN Append(queue, [type |-> type, calls |-> cs])
                                            ELSE queue
Apart == UNCHANGED <<relayVars, byHand, runs, since, past>>
Messages(role, cs) == [i \in DOMAIN cs |-> Message(role, cs[i].id)]

Speaks ==
    /\ node = "answer" /\ ~spoke
    /\ spoke' = TRUE
    /\ Emits("stream", <<>>)
    /\ UNCHANGED <<given, node, calls, ran, used, answers>> /\ Apart

CallsTheSurface(cs) == \E i \in DOMAIN cs : ~cs[i].ours

\* A wrong variant: the tools run whatever else was asked for.
AfterSome(cs) == IF \E i \in DOMAIN cs : cs[i].ours THEN "tools" ELSE "end"

\* The conditional edge.
After(cs) == IF cs = <<>> \/ CallsTheSurface(cs) THEN "end" ELSE "tools"

Answer ==
    /\ node = "answer" /\ answers < MaxAnswers
    /\ \E n \in 0..2 : \E ours \in [1..n -> IF byHand THEN {FALSE} ELSE BOOLEAN] :
        /\ used + n <= MaxCalls
        /\ calls' = [i \in 1..n |-> [id |-> used + i, ours |-> ours[i]]]
        /\ used' = used + n
    /\ node' = After(calls')
    /\ spoke' = FALSE /\ answers' = answers + 1
    /\ given' = given \o Messages("assistant", calls')
    /\ Emits("model", calls')
    /\ UNCHANGED ran /\ Apart

Ours == Those(calls, LAMBDA c : c.ours)

\* The model does not answer, or the graph has gone round too often.
Fails ==
    /\ node = "answer" \/ (node = "tools" /\ Ids(Ours) \cap ran = {})
    /\ node' = "failed"
    /\ UNCHANGED <<spoke, calls, ran, used, answers, queue, given>> /\ Apart

\* The calls go out together and are made in any order; a refusal or a failure is a result too.
CallTool(c) ==
    /\ node = "tools" /\ c \in Range(Ours) /\ c.id \notin ran
    /\ ran' = ran \cup {c.id}
    /\ UNCHANGED <<node, spoke, calls, used, answers, queue, given>> /\ Apart

ToolsEnd ==
    /\ node = "tools" /\ Ids(Ours) \subseteq ran
    /\ node' = "answer"
    /\ given' = given \o Messages("tool", Ours)
    /\ Emits("tools", Ours)
    /\ UNCHANGED <<spoke, calls, ran, used, answers>> /\ Apart

-----------------------------------------------------------------------------
Beside == UNCHANGED <<graphVars, runVars>>
CloseText == IF textOpen THEN <<Event("TEXT_MESSAGE_END", 0)>> ELSE <<>>

\* START, ARGS and END of a call, sent back to back, and its result when there is one.
Call(c) == <<Event("TOOL_CALL", c.id)>>
WithResult(c) == <<Event("TOOL_CALL", c.id), Event("TOOL_CALL_RESULT", c.id)>>
Told(cs, Tell(_)) == FlattenSeq([i \in DOMAIN cs |-> Tell(cs[i])])

\* What the surface makes of events: a message for each call and for each result.
Kept(events) ==
    past \o [i \in DOMAIN events |->
                Message(IF events[i].type = "TOOL_CALL" THEN "assistant" ELSE "tool", events[i].id)]
IsCall(e) == e.type \in {"TOOL_CALL", "TOOL_CALL_RESULT"}
Send(events) == sent' = sent \o events /\ past' = Kept(Those(events, IsCall))

Seen(type) == relay = "on" /\ queue # <<>> /\ queue[1].type = type /\ queue' = Tail(queue)

OnStream ==
    /\ Seen("stream")
    /\ Send(IF textOpen THEN <<Event("TEXT_MESSAGE_CONTENT", 0)>>
            ELSE <<Event("TEXT_MESSAGE_START", 0), Event("TEXT_MESSAGE_CONTENT", 0)>>)
    /\ textOpen' = TRUE
    /\ UNCHANGED <<relay, pending>> /\ Beside

OnModelEnd ==
    /\ Seen("model")
    /\ pending' = pending \o queue[1].calls
    /\ UNCHANGED <<relay, textOpen, sent, past>> /\ Beside

\* A wrong variant: a call that was told stays among those that wait.
OnToolsEndKeeping ==
    /\ Seen("tools")
    /\ Send(CloseText \o Told(queue[1].calls, WithResult))
    /\ textOpen' = FALSE
    /\ UNCHANGED <<relay, pending>> /\ Beside

OnToolsEnd ==
    /\ Seen("tools")
    /\ Send(CloseText \o Told(Those(queue[1].calls, LAMBDA c : c \in Range(pending)), WithResult))
    /\ pending' = Those(pending, LAMBDA c : c \notin Range(queue[1].calls))
    /\ textOpen' = FALSE
    /\ UNCHANGED relay /\ Beside

\* The events are over: what was not run here is told without a result.
RunFinished ==
    /\ relay = "on" /\ queue = <<>> /\ node = "end"
    /\ Send(CloseText \o Told(pending, Call) \o <<Event("RUN_FINISHED", 0)>>)
    /\ relay' = "closed" /\ textOpen' = FALSE /\ pending' = <<>>
    /\ UNCHANGED queue /\ Beside

Throws(events) ==
    /\ relay = "on" /\ node = "failed"
    /\ Send(events \o <<Event("RUN_ERROR", 0)>>)
    /\ relay' = "closed" /\ textOpen' = FALSE /\ queue' = <<>>
    /\ UNCHANGED pending /\ Beside

\* The stream throws once the graph has, with events still in it or without.
RunError == ~byHand /\ Throws(CloseText)

\* The Bot written by hand closes no message then.
RunErrorByHand == byHand /\ Throws(<<>>)

\* The deployment hangs up: there is nowhere to send to, and the graph goes on.
Cancelled ==
    /\ relay = "on"
    /\ relay' = "closed" /\ queue' = <<>>
    /\ UNCHANGED <<textOpen, pending, sent, past>> /\ Beside

\* The surface draws a component, or a person decides: an answer to a call that was told without one.
SurfaceAnswers ==
    /\ relay = "closed"
    /\ \E c \in Ids(past) :
        /\ Message("tool", c) \notin Range(past) /\ c \notin ran
        /\ past' = Append(past, Message("tool", c))
    /\ UNCHANGED <<graphVars, queue, relayVars, runVars>>

Next ==
    \/ RunAgent \/ Speaks \/ Answer \/ Fails \/ ToolsEnd
    \/ \E i \in DOMAIN calls : CallTool(calls[i])
    \/ OnStream \/ OnModelEnd \/ OnToolsEnd \/ RunFinished \/ RunError \/ RunErrorByHand
    \/ Cancelled \/ SurfaceAnswers

Spec == Init /\ [][Next]_vars

-----------------------------------------------------------------------------
\* The graph and the stream have the shape the code gives them.
TypeOK ==
    /\ node \in {"none", "answer", "tools", "end", "failed"}
    /\ relay \in {"none", "on", "closed"}
    /\ used <= MaxCalls /\ Ids(calls) \cup Ids(pending) \cup ran \subseteq 1..used

Closing == {"RUN_FINISHED", "RUN_ERROR"}
InMessage == {"TEXT_MESSAGE_CONTENT", "TEXT_MESSAGE_END"}
Outside == {"TOOL_CALL", "RUN_FINISHED", "TEXT_MESSAGE_START"}

\* At place i of the stream a message was begun that has not ended.
MessageOpenAt(i) ==
    \E j \in 1..(i - 1) : /\ sent[j].type = "TEXT_MESSAGE_START"
                        /\ \A k \in j..(i - 1) : sent[k].type # "TEXT_MESSAGE_END"

\* What runAgent says is a protocol the surface can follow: text only inside a message and no call
\* in one, one ending and nothing after it, every message closed before it (but before the errors of
\* the Bot written by hand), no call told or answered twice in a run, and no answer before its call.
StreamIsWellFormed ==
    \A i \in DOMAIN sent :
        /\ sent[i].type \in Outside => ~MessageOpenAt(i)
        /\ sent[i].type \in InMessage => MessageOpenAt(i)
        /\ sent[i].type = "RUN_ERROR" => byHand \/ ~MessageOpenAt(i)
        /\ sent[i].type \in Closing => i = Len(sent) /\ relay = "closed"
        /\ IsCall(sent[i]) => \A j \in DOMAIN sent : sent[j] = sent[i] => j = i
        /\ sent[i].type = "TOOL_CALL_RESULT" =>
              \E j \in 1..(i - 1) : sent[j] = Event("TOOL_CALL", sent[i].id)

\* No error strands the surface in the middle of a message, which index.ts:501 of the LangGraph Bot
\* says of both.  It is false of the Bot written by hand.
ErrorsCloseMessages == \A i \in DOMAIN sent : sent[i].type = "RUN_ERROR" => ~MessageOpenAt(i)

\* A run that finished told each of its calls: with a result those that were made, and without one
\* those that were not, which the surface is then free to answer.
FinishedTellsAll ==
    (sent # <<>> /\ Last(sent).type = "RUN_FINISHED") =>
        \A id \in (since + 1)..used :
            /\ Event("TOOL_CALL", id) \in Range(sent)
            /\ Event("TOOL_CALL_RESULT", id) \in Range(sent) <=> id \in ran

\* The model is shown each call once and one answer behind it, the surface's or the deployment's when
\* there was one.  A vendor refuses a conversation with a call in it that nobody answered, and here
\* there is none, in the middle of a run or after runs that failed or were left.
EveryCallAnswered ==
    node = "answer" => \A i \in DOMAIN given : given[i].role = "assistant" =>
        LET answer == {j \in DOMAIN given : given[j].role = "tool" /\ given[j].id = given[i].id}
        IN  /\ \E j \in answer : j > i /\ answer = {j}
            /\ \A j \in DOMAIN given : given[j] = given[i] => j = i
            /\ given[i].id \in ran => \A j \in answer : given[j].real
=============================================================================
