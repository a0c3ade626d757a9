---------------------------- MODULE MCDeployment ----------------------------
(***************************************************************************)
(* What the server does for a deployment, for TLC: its threads and its     *)
(* triggers, its people and their vendor accounts, the calls of vendors'   *)
(* tools, skills, a run from its request to the tools it calls, and the    *)
(* loop of a Bot that runs elsewhere.  They share no state here, so a      *)
(* behaviour is one of one machine: Init chooses it among Machines, and    *)
(* the state spaces add up.                                                *)
(***************************************************************************)
EXTENDS Naturals, Sequences, FiniteSets, TLC

CONSTANTS Machines,
          Runs, Viewers, Supersede, MaxRestarts,
          TriggerIds, Firings, NoSchedule, MaxFaults,
          Persons, Configured, Founders, MaxActs, MaxSecrets, NoOne, Patient,
          Curated, Custom, Tools, WriteTools, Bots, Calls, MaxEdits,
          Users, Admins, BotIds, Slugs, ToolRefs, Floor, MaxRequests, Deployment, Absent,
          Askers, RunBots, Remote, Turns, Ttl, MaxTime, MaxChanges, Legacy,
          MaxCalls, MaxAnswers, MaxRuns, ReadBack,
          u1, b1, b2

\* INITIAL_ADMIN_EMAILS names somebody, or nobody could administer from the start.
ASSUME FoundersAssumption == Founders # {} /\ Founders \subseteq Persons

\* What is counted is bounded, and the absent person, which stands for null, is nobody.
ASSUME BoundsAssumption ==
    /\ MaxRestarts \in Nat /\ MaxFaults \in Nat /\ MaxEdits \in Nat /\ MaxCalls \in Nat
    /\ Ttl \in Nat /\ MaxTime \in Nat /\ MaxChanges \in Nat
    /\ IsFiniteSet(Runs) /\ NoOne \notin Persons

\* The first Bot is a person's own, the second the deployment's; both hold every tool.
BotOwner == b1 :> u1 @@ b2 :> Deployment
Given == [b \in BotIds |-> ToolRefs]

\* One skill, which declares one of the tools.
Declares == [s \in Slugs |-> {CHOOSE t \in Tools : TRUE}]

Bounds == << <<0, 59>>, <<0, 23>>, <<1, 31>>, <<1, 12>>, <<0, 6>> >>
Every == [kind |-> "star", a |-> 0, b |-> 0, step |-> 0]
Only(n) == [kind |-> "one", a |-> n, b |-> 0, step |-> 0]
\* 0-59/2 7 6 * 1-5: the sixth of a month or a weekday, at seven, in even minutes
Mornings == << {[kind |-> "range", a |-> 0, b |-> 59, step |-> 2]}, {Only(7)}, {Only(6)}, {Every},
               {[kind |-> "range", a |-> 1, b |-> 5, step |-> 0]} >>
Invalid == << {Only(75)}, {Every}, {Every}, {Every}, {Every} >>
Schedules == {Mornings, Invalid}
Dates == {<<0, 7, 5, 1, 1>>, <<1, 7, 5, 1, 1>>}

VARIABLES
    machine,
    stored, thread, stage, spoken, owns, viewer, shown, due, happened, restarts,
    triggers, firing, inFlight, fired, now, engineFaults, wedged,
    account, role, denied, session, owner, live, pointer, act, told, faults,
    added, held, failing, seen, refresh, granted, forbids, call, rows, edits, callFaults,
    skillOwner, author, declares, holds, request, offer,
    minute, mayRun, grant, callback, turn, did, changes,
    byHand, node, spoke, calls, ran, used, answers, queue, relay, textOpen, pending, sent, runs, since,
    given, past

runnerVars == <<stored, thread, stage, spoken, owns, viewer, shown, due, happened, restarts>>
engineVars == <<triggers, firing, inFlight, fired, now, engineFaults, wedged>>
peopleVars == <<account, role, denied, session, owner, live, pointer, act, told, faults>>
callVars == <<added, held, failing, seen, refresh, granted, forbids, call, rows, edits, callFaults>>
skillVars == <<skillOwner, author, declares, holds, request, offer>>
turnVars == <<minute, mayRun, grant, callback, turn, did, changes>>
loopVars == <<byHand, node, spoke, calls, ran, used, answers, queue, relay, textOpen, pending, sent, runs,
              since, given, past>>
vars == <<machine, runnerVars, engineVars, peopleVars, callVars, skillVars, turnVars, loopVars>>

Runner == INSTANCE ThreadRunner
Engine == INSTANCE Triggers WITH faults <- engineFaults
Folk == INSTANCE People
Vendors == INSTANCE ToolCalls WITH faults <- callFaults
Shelf == INSTANCE Skills
Turn == INSTANCE Runtime WITH BotIds <- RunBots, Runs <- Turns
Bot == INSTANCE Loop

Init ==
    /\ machine \in Machines
    /\ Runner!Init /\ Folk!Init /\ Vendors!Init /\ Shelf!Init /\ Turn!Init /\ Bot!Init
    /\ Engine!Init /\ (machine # "engine" => now[1] = 0)

Work ==
    \/ machine = "runner" /\ Runner!Next /\ UNCHANGED <<engineVars, turnVars, loopVars>>
    \/ machine = "engine" /\ Engine!Next /\ UNCHANGED <<runnerVars, turnVars, loopVars>>
    \/ machine = "turn" /\ Turn!Next /\ UNCHANGED <<runnerVars, engineVars, loopVars>>
    \/ machine = "loop" /\ Bot!Next /\ UNCHANGED <<runnerVars, engineVars, turnVars>>

Administration ==
    \/ machine = "people" /\ Folk!Next /\ UNCHANGED <<callVars, skillVars>>
    \/ machine = "calls" /\ Vendors!Next /\ UNCHANGED <<peopleVars, skillVars>>
    \/ machine = "skills" /\ Shelf!Next /\ UNCHANGED <<peopleVars, callVars>>

Next ==
    /\ \/ Work /\ UNCHANGED <<peopleVars, callVars, skillVars>>
       \/ Administration /\ UNCHANGED <<runnerVars, engineVars, turnVars, loopVars>>
    /\ UNCHANGED machine

Spec == Init /\ [][Next]_vars

-----------------------------------------------------------------------------
\* The state of the machines has the shape the code gives it.
TypeOK == Runner!TypeOK /\ Engine!TypeOK /\ Folk!TypeOK /\ Vendors!TypeOK /\ Shelf!TypeOK
          /\ Turn!TypeOK /\ Bot!TypeOK

\* ThreadRunner: startRun lets one turn at a time on a thread, connect sends each text once, and
\* the rows replay in the order of the turns.
ThreadKept == Runner!OneTurnAtATime /\ Runner!ShownOnce /\ Runner!RowsInOrder

\* Triggers: fire does not stack, and the row and the trail tell the outcome.
FiringsTold == Engine!OneFiring /\ Engine!IdleTellsOutcome

\* People: a removal that was answered holds, and somebody can still administer.
PeopleKept == Folk!RemovalHolds /\ Folk!AnAdminRemains

\* People: removing somebody again finishes what a failure left.
SecretsRetired == Folk!SecretsRetired

\* ToolCalls: the trail says what a call came to, for which its row is written after the attempt
\* (store.ts:1548, against the header at 1420), and a vendor that does not answer takes no tools away.
CallsKept == Vendors!TrailTellsCall /\ Vendors!ToolsSurvive

\* Runtime: a run is offered what its Bot was granted, and a tool is called for a run that was sent.
\* Loop: what a remote Bot streams can be followed, and its model is shown an answer to every call.
RunsKept ==
    /\ Turn!OfferIsFresh /\ Turn!CallIsOfItsRun
    /\ Bot!StreamIsWellFormed /\ Bot!FinishedTellsAll /\ Bot!EveryCallAnswered

\* Skills: a skill says what its owner wrote.
WordsAreOwners == Shelf!WordsAreOwners

\* Skills: a skill on a Bot is its owner's, and so is the Bot.
GrantsFollowOwners == Shelf!GrantsFollowOwners
=============================================================================
