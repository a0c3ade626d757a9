------------------------------ MODULE Runtime ------------------------------
(***************************************************************************)
(* A run from the request that asks for it to the tools it calls           *)
(* (copilot.ts, agents/callback-token.ts and the call route of app.ts).    *)
(*                                                                         *)
(* The Bots a person may run are built anew for each request, with the     *)
(* tools each was granted then; when many were granted the run first asks  *)
(* a model which of them it is about.  A built-in Bot calls tools here, as *)
(* part of the run.  A remote Bot calls back from a process of its own,    *)
(* with its token and the assertion its run was sent with, and that        *)
(* process may serve several Bots and mix up what it holds.                *)
(***************************************************************************)
EXTENDS Naturals, Selection

CONSTANTS Askers, BotIds,
          Remote,       \* the Bots whose loop runs elsewhere
          Tools,
          Declares,     \* [skills -> SUBSET Tools]: what the skills of a Bot declare
          Floor,        \* SELECTION_FLOOR
          Runs,
          Ttl,          \* RUN_TTL_MS in ticks
          MaxTime, MaxChanges,
          Legacy,       \* AGENT_TOOL_TOKEN is set, and every remote Bot has it
          Patient       \* nobody presses Stop while the tools are chosen

VARIABLES
    minute,
    mayRun,     \* <<person, bot>>: the Bots a person may see, a deleted one none
    grant,      \* by Bot: the tools it holds
    callback,   \* by Bot: the last token it was issued, and whether it is the stored one
    turn,       \* each run
    did,        \* the calls that executed
    changes     \* how many changes administrators and owners made

vars == <<minute, mayRun, grant, callback, turn, did, changes>>

Skills == DOMAIN Declares
LegacyToken == 0
Unsent == [step |-> "unsent", by |-> "", bot |-> "", tools |-> {}, offered |-> {},
           until |-> 0, stopped |-> FALSE, lately |-> {}]

Init ==
    /\ minute = 0
    /\ mayRun = Askers \X BotIds
    /\ grant = [b \in BotIds |-> Tools]
    /\ callback = [b \in BotIds |-> [last |-> 1, stored |-> TRUE]]
    /\ turn = [r \in Runs |-> Unsent]
    /\ did = {}
    /\ changes = 0

-----------------------------------------------------------------------------
Pass ==
    /\ minute < MaxTime
    /\ minute' = minute + 1
    /\ UNCHANGED <<mayRun, grant, callback, turn, did, changes>>

Change == changes < MaxChanges /\ changes' = changes + 1

\* What is granted while a request is under way may be offered to it.
SetGrant(b, t) ==
    /\ Change
    /\ grant' = [grant EXCEPT ![b] = IF t \in @ THEN @ \ {t} ELSE @ \cup {t}]
    /\ turn' = [r \in Runs |-> IF turn[r].bot = b
                               THEN [turn[r] EXCEPT !.lately = @ \cup grant'[b]] ELSE turn[r]]
    /\ UNCHANGED <<minute, mayRun, callback, did>>

MakePrivate(b) ==
    /\ Change
    /\ \E p \in Askers : mayRun' = mayRun \ {<<p, b>>}
    /\ UNCHANGED <<minute, grant, callback, turn, did>>

\* A deleted Bot is nobody's to run, and its token is not looked up.
SoftDelete(b) ==
    /\ Change
    /\ mayRun' = mayRun \ (Askers \X {b})
    /\ callback' = [callback EXCEPT ![b].stored = FALSE]
    /\ UNCHANGED <<minute, grant, turn, did>>

\* issueCallbackToken and revokeCallbackToken, by somebody who sees the Bot.
IssueToken(b) ==
    /\ Change /\ \E p \in Askers : <<p, b>> \in mayRun
    /\ callback' = [callback EXCEPT ![b] = [last |-> @.last + 1, stored |-> TRUE]]
    /\ UNCHANGED <<minute, mayRun, grant, turn, did>>

RevokeToken(b) ==
    /\ Change /\ \E p \in Askers : <<p, b>> \in mayRun
    /\ callback' = [callback EXCEPT ![b].stored = FALSE]
    /\ UNCHANGED <<minute, mayRun, grant, turn, did>>

-----------------------------------------------------------------------------
Step(r, step) == turn' = [turn EXCEPT ![r].step = step]
Calmly == UNCHANGED <<minute, mayRun, grant, callback, did, changes>>

\* createRequestAgents: the actor, then the Bots that are theirs to run.
Ask(r, p, b) ==
    /\ turn[r] = Unsent
    /\ turn' = [turn EXCEPT ![r] = [Unsent EXCEPT
            !.step = IF <<p, b>> \in mayRun THEN "build" ELSE "over",
            !.by = p, !.bot = b, !.lately = grant[b]]]
    /\ Calmly

\* A wrong variant: every tool there is, as for a Bot built once for the deployment.
BuildOnce(r) ==
    /\ turn[r].step = "build"
    /\ turn' = [turn EXCEPT ![r].tools = Tools, ![r].step = "select"]
    /\ Calmly

\* buildAgent: the tools it was granted are read once, for the whole run.
BuildAgent(r) ==
    /\ turn[r].step = "build"
    /\ turn' = [turn EXCEPT ![r].tools = grant[turn[r].bot], ![r].step = "select"]
    /\ Calmly

\* Whether the tools are narrowed: more than a few, and skills that declare some.
Narrowing(r) ==
    /\ Cardinality(turn[r].tools) > Floor
    /\ \E s \in Skills : Declares[s] # {}

\* offeredFor, and the run begins: a remote Bot is sent its tools and the assertion of whose run it
\* is.
Send(r) ==
    /\ turn[r].step = "select"
    /\ \E answer \in SUBSET Skills :
        /\ ~Narrowing(r) => answer = {}
        /\ turn' = [turn EXCEPT
                ![r].offered = SelectTools(turn[r].tools, Skills, Declares, answer, Floor),
                ![r].until = IF turn[r].bot \in Remote THEN minute + Ttl ELSE 0,
                ![r].step = "going"]
    /\ Calmly

\* While its tools are chosen there is nothing inside the wrapper of a built-in Bot to abort.
Unheard(r) == turn[r].step = "select" /\ turn[r].bot \notin Remote

\* abortRun.
Stop(r) ==
    /\ turn[r].step = "going" \/ (turn[r].step = "select" /\ Narrowing(r))
    /\ ~turn[r].stopped
    /\ Patient => ~Unheard(r)
    /\ turn' = [turn EXCEPT ![r].stopped = TRUE,
                            ![r].step = IF Unheard(r) THEN @ ELSE "over"]
    /\ Calmly

Ends(r) == turn[r].step = "going" /\ Step(r, "over") /\ Calmly

-----------------------------------------------------------------------------
\* callTool asks the grant as it is now.
Executes(r, t, how) ==
    /\ t \in grant[turn[r].bot]
    /\ did' = did \cup {[run |-> r, tool |-> t, at |-> minute, how |-> how]}
    /\ UNCHANGED <<minute, mayRun, grant, callback, turn, changes>>

\* A built-in Bot's call is a step of its run, and of a tool it was offered.
CallHere(r) ==
    /\ turn[r].step = "going" /\ turn[r].bot \notin Remote
    /\ \E t \in turn[r].offered : Executes(r, t, [token |-> "none", bot |-> turn[r].bot])

\* readRunAssertion: signed here, and not for ever.
ReadRunAssertion(r) == turn[r].until > minute

\* agentForCallbackToken.
IsToken(b, k) == callback[b].stored /\ k = callback[b].last

\* A wrong variant: whoever has a token, whichever Bot the run is of.
AuthoriseAnyToken(r, b, k) == ReadRunAssertion(r) /\ IsToken(b, k)

\* authoriseAgentCall: the token is a Bot's own and the Bot's the run is of, or the deployment's.
AuthoriseAgentCall(r, b, k) ==
    /\ ReadRunAssertion(r)
    /\ \/ IsToken(b, k) /\ b = turn[r].bot
       \/ Legacy /\ k = LegacyToken

\* The call route: any assertion, any tool, and the token k of Bot b, an old one perhaps.
CallBack(r) ==
    \E b \in Remote : \E k \in 0..callback[b].last, t \in Tools :
        /\ AuthoriseAgentCall(r, b, k)
        /\ Executes(r, t, [token |-> IF k = LegacyToken THEN "legacy" ELSE "own", bot |-> b])

Next ==
    \/ Pass
    \/ \E b \in BotIds : (\E t \in Tools : SetGrant(b, t)) \/ MakePrivate(b) \/ SoftDelete(b)
                           \/ IssueToken(b) \/ RevokeToken(b)
    \/ \E r \in Runs :
        \/ \E p \in Askers, b \in BotIds : Ask(r, p, b)
        \/ BuildAgent(r) \/ Send(r) \/ Stop(r) \/ Ends(r)
        \/ CallHere(r) \/ CallBack(r)

Spec == Init /\ [][Next]_vars

-----------------------------------------------------------------------------
\* Runs and tokens have the shape the code gives them.
TypeOK ==
    /\ \A r \in Runs : /\ turn[r].step \in {"unsent", "build", "select", "going", "over"}
                       /\ turn[r].until \in 0..(MaxTime + Ttl)
    /\ \A b \in BotIds : grant[b] \subseteq Tools /\ callback[b].last \in 1..(MaxChanges + 1)

\* No run is offered a tool that the Bot did not hold at some moment of the request that started it:
\* what an administrator took away before is not offered, and what narrows the offer adds nothing.
OfferIsFresh ==
    \A r \in Runs : turn[r].offered \subseteq turn[r].tools /\ turn[r].tools \subseteq turn[r].lately

\* A tool is called for a run that was sent, of the Bot whose token it is, and no later than its
\* assertion allows, long as a remote Bot goes on after the run was stopped.
CallIsOfItsRun ==
    \A c \in did :
        /\ turn[c.run].step \in {"going", "over"}
        /\ turn[c.run].bot \in Remote => c.at < turn[c.run].until
        /\ c.how.token # "legacy" => c.how.bot = turn[c.run].bot

\* A run that was stopped does not begin.  Holds when nobody presses Stop while the tools are chosen.
StopIsHeard == \A r \in Runs : turn[r].stopped => turn[r].step = "over"
=============================================================================
