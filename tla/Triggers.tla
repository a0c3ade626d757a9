------------------------------ MODULE Triggers ------------------------------
(***************************************************************************)
(* Runs that start themselves (triggers/engine.ts, triggers/routes.ts): the *)
(* rows of the triggers, the process's inFlight set, and firings, each of  *)
(* which reads its trigger, claims it, runs its coworker and writes down   *)
(* the outcome, with an await between any two of these; and which minutes  *)
(* a schedule matches (triggers/cron.ts).                                  *)
(***************************************************************************)
EXTENDS Naturals, FiniteSets

CONSTANTS
    TriggerIds,   \* ids of triggers
    Firings,      \* as many firings are under way at a time as this set has members
    Schedules,    \* cron expressions in use, and NoSchedule
    NoSchedule,   \* the null schedule of a webhook trigger
    Dates,        \* the minutes the scheduler may wake in
    Bounds,       \* BOUNDS: the least and the greatest value of each field of an expression
    MaxFaults     \* bound on crashes and on statements the database refuses

VARIABLES
    triggers,     \* the rows: kind, schedule, enabled, threadMode, threadId, lastStatus
    firing,       \* each firing: where it is, its trigger, what it read, its outcome
    inFlight,     \* the process's set of trigger ids
    fired,        \* trigger.fired rows in the trail: the triggers and outcomes
    now,          \* the minute
    faults,
    wedged        \* history: triggers whose "running" update threw in this process

vars == <<triggers, firing, inFlight, fired, now, faults, wedged>>

Unborn == [kind |-> "unborn"]   \* no row yet
Gone == [kind |-> "gone"]       \* removed; the id is never given again
Threads == {"none", "own", "fresh"}   \* null, trigger-<id>, a random UUID

RowType == [kind : {"cron", "webhook"}, schedule : Schedules \union {NoSchedule}, enabled : BOOLEAN,
            threadMode : {"continue", "new"}, threadId : Threads,
            lastStatus : {"none", "running", "ok", "error"}]

Idle == [at |-> "idle"]
Going == {"claimed", "running"}            \* between inFlight.add and inFlight.delete
FiringType == [at : {"read", "claimed", "running", "ran", "settled"}, id : TriggerIds,
               thread : Threads, status : {"ok", "error"}] \union {Idle}

TypeOK ==
    /\ triggers \in [TriggerIds -> RowType \union {Unborn, Gone}]
    /\ firing \in [Firings -> FiringType]
    /\ inFlight \subseteq TriggerIds /\ wedged \subseteq TriggerIds
    /\ fired \subseteq TriggerIds \X {"ok", "error"}
    /\ now \in Dates
    /\ faults \in 0..MaxFaults

Init ==
    /\ triggers = [t \in TriggerIds |-> Unborn]
    /\ firing = [f \in Firings |-> Idle]
    /\ inFlight = {} /\ fired = {} /\ wedged = {}
    /\ now \in Dates
    /\ faults = 0

Exists(t) == triggers[t] \notin {Unborn, Gone}
At(f, p) == firing[f].at = p

-----------------------------------------------------------------------------
(***************************************************************************)
(* The cron matcher (triggers/cron.ts), on expressions whose text is split *)
(* already: an expression is five fields, a field a set of parts, a part   *)
(* [kind, a, b, step].  kind is "star" (or empty), "range" (a-b), "one"    *)
(* (a) or "bad" (a number that is none); step is 0 when no /step is        *)
(* written.                                                                *)
(***************************************************************************)
Step(part) == IF part.step = 0 THEN 1 ELSE part.step

From(part, bounds) == IF part.kind = "star" THEN bounds[1] ELSE part.a

To(part, bounds) ==
    CASE part.kind = "star" -> bounds[2]
      [] part.kind = "range" -> part.b
      [] OTHER -> IF part.step = 0 THEN part.a ELSE bounds[2]

PartValid(part, bounds) ==
    /\ part.kind # "bad"
    /\ bounds[1] <= From(part, bounds)
    /\ From(part, bounds) <= To(part, bounds)
    /\ To(part, bounds) <= bounds[2]

FieldValid(field, bounds) == field # {} /\ \A part \in field : PartValid(part, bounds)

\* parseField: the values a valid field stands for.
ParseField(field, bounds) ==
    UNION {{v \in From(part, bounds)..To(part, bounds) :
               (v - From(part, bounds)) % Step(part) = 0} : part \in field}

IsValidCron(fields) == \A i \in 1..5 : FieldValid(fields[i], Bounds[i])

Star == [kind |-> "star", a |-> 0, b |-> 0, step |-> 0]

\* matches: minute, hour and month all match; of the two day fields either may when both
\* are restricted, the restricted one decides when one is, and none when neither is.
Matches(fields, date) ==
    LET hit(i) == date[i] \in ParseField(fields[i], Bounds[i])
        restricted(i) == fields[i] # {Star}
    IN  /\ IsValidCron(fields)
        /\ hit(1) /\ hit(2) /\ hit(4)
        /\ IF restricted(3) /\ restricted(5) THEN hit(3) \/ hit(5)
           ELSE (restricted(3) => hit(3)) /\ (restricted(5) => hit(5))

-----------------------------------------------------------------------------
(* The rows: create, update, remove and their routes *)

\* The route refuses a cron trigger whose schedule does not parse.
Create(t) ==
    /\ triggers[t] = Unborn
    /\ \E kind \in {"cron", "webhook"}, s \in Schedules \union {NoSchedule},
          mode \in {"continue", "new"} :
          /\ kind = "cron" => s # NoSchedule /\ IsValidCron(s)
          /\ triggers' = [triggers EXCEPT ![t] =
                [kind |-> kind, schedule |-> s, enabled |-> TRUE, threadMode |-> mode,
                 threadId |-> "none", lastStatus |-> "none"]]
    /\ UNCHANGED <<firing, inFlight, fired, now, faults, wedged>>

Update(t) ==
    /\ Exists(t)
    /\ \/ \E on \in BOOLEAN : triggers' = [triggers EXCEPT ![t].enabled = on]
       \/ \E m \in {"continue", "new"} : triggers' = [triggers EXCEPT ![t].threadMode = m]
       \/ \E s \in Schedules : IsValidCron(s) /\ triggers' = [triggers EXCEPT ![t].schedule = s]
    /\ UNCHANGED <<firing, inFlight, fired, now, faults, wedged>>

Remove(t) ==
    /\ Exists(t)
    /\ triggers' = [triggers EXCEPT ![t] = Gone]
    /\ UNCHANGED <<firing, inFlight, fired, now, faults, wedged>>

-----------------------------------------------------------------------------
(* A firing *)

\* The cron tick, the webhook or "fire now" reads the row.  The tick asks for an enabled
\* cron trigger that is due, the webhook for an enabled one with a token.
Wanted(t, cause) ==
    CASE cause = "cron" -> /\ triggers[t].enabled /\ triggers[t].kind = "cron"
                           /\ Matches(triggers[t].schedule, now)
      [] cause = "webhook" -> triggers[t].enabled /\ triggers[t].kind = "webhook"
      [] OTHER -> TRUE

ThreadOf(t) ==
    CASE triggers[t].threadMode = "new" -> "fresh"
      [] triggers[t].threadId = "none" -> "own"
      [] OTHER -> triggers[t].threadId

Read(f, t, cause) ==
    /\ At(f, "idle") /\ Exists(t)
    /\ Wanted(t, cause)
    /\ firing' = [firing EXCEPT ![f] = [at |-> "read", id |-> t, thread |-> ThreadOf(t),
                                        status |-> "ok"]]
    /\ UNCHANGED <<triggers, inFlight, fired, now, faults, wedged>>

\* A firing that marks its trigger only when its coworker has begun.
ClaimLate(f) ==
    /\ At(f, "read")
    /\ firing[f].id \notin inFlight
    /\ firing' = [firing EXCEPT ![f].at = "claimed"]
    /\ UNCHANGED <<triggers, inFlight, fired, now, faults, wedged>>

\* fire up to its first await: a trigger in flight is not stacked.
Claim(f) ==
    /\ At(f, "read")
    /\ IF firing[f].id \in inFlight
       THEN firing' = [firing EXCEPT ![f] = Idle] /\ UNCHANGED inFlight
       ELSE /\ firing' = [firing EXCEPT ![f].at = "claimed"]
            /\ inFlight' = inFlight \union {firing[f].id}
    /\ UNCHANGED <<triggers, fired, now, faults, wedged>>

\* An update of a row that is gone changes nothing.
Write(t, status, thread) ==
    triggers' = IF Exists(t) THEN [triggers EXCEPT ![t].lastStatus = status, ![t].threadId = thread]
                ELSE triggers

MarkRunning(f) ==
    /\ At(f, "claimed")
    /\ Write(firing[f].id, "running", firing[f].thread)
    /\ firing' = [firing EXCEPT ![f].at = "running"]
    /\ UNCHANGED <<inFlight, fired, now, faults, wedged>>

\* That update throws, outside the try: the firing is over and its trigger stays in flight.
MarkFails(f) ==
    /\ At(f, "claimed") /\ faults < MaxFaults
    /\ faults' = faults + 1
    /\ wedged' = wedged \union {firing[f].id}
    /\ firing' = [firing EXCEPT ![f] = Idle]
    /\ UNCHANGED <<triggers, inFlight, fired, now>>

\* The wheel is taken back, the coworker runs to completion or throws, and the finally
\* clause lets the trigger go.
RunToCompletion(f) ==
    /\ At(f, "running")
    /\ \E outcome \in {"ok", "error"} :
          firing' = [firing EXCEPT ![f].at = "ran", ![f].status = outcome]
    /\ inFlight' = inFlight \ {firing[f].id}
    /\ UNCHANGED <<triggers, fired, now, faults, wedged>>

\* An outcome that is written only when there is a reply.
SettleReplies(f) ==
    /\ At(f, "ran")
    /\ triggers' = IF Exists(firing[f].id) /\ firing[f].status = "ok"
                   THEN [triggers EXCEPT ![firing[f].id].lastStatus = "ok"]
                   ELSE triggers
    /\ firing' = [firing EXCEPT ![f].at = "settled"]
    /\ UNCHANGED <<inFlight, fired, now, faults, wedged>>

\* The outcome is written on the row, and then in the trail.
Settle(f) ==
    /\ At(f, "ran")
    /\ triggers' = IF Exists(firing[f].id)
                   THEN [triggers EXCEPT ![firing[f].id].lastStatus = firing[f].status]
                   ELSE triggers
    /\ firing' = [firing EXCEPT ![f].at = "settled"]
    /\ UNCHANGED <<inFlight, fired, now, faults, wedged>>

RecordFired(f) ==
    /\ At(f, "settled")
    /\ fired' = fired \union {<<firing[f].id, firing[f].status>>}
    /\ firing' = [firing EXCEPT ![f] = Idle]
    /\ UNCHANGED <<triggers, inFlight, now, faults, wedged>>

\* The second update or the insert throws: the rest of the firing is not done.
SettleFails(f) ==
    /\ At(f, "ran") \/ At(f, "settled")
    /\ faults < MaxFaults /\ faults' = faults + 1
    /\ firing' = [firing EXCEPT ![f] = Idle]
    /\ UNCHANGED <<triggers, inFlight, fired, now, wedged>>

-----------------------------------------------------------------------------
Minute ==
    /\ now' \in Dates \ {now}
    /\ UNCHANGED <<triggers, firing, inFlight, fired, faults, wedged>>

\* The process dies; the rows stay as they are and the set starts empty.
Crash ==
    /\ faults < MaxFaults /\ faults' = faults + 1
    /\ firing' = [f \in Firings |-> Idle]
    /\ inFlight' = {} /\ wedged' = {}
    /\ UNCHANGED <<triggers, fired, now>>

Next ==
    \/ \E t \in TriggerIds : Create(t) \/ Update(t) \/ Remove(t)
    \/ \E f \in Firings :
          \/ \E t \in TriggerIds, cause \in {"cron", "webhook", "manual"} : Read(f, t, cause)
          \/ Claim(f) \/ MarkRunning(f) \/ MarkFails(f) \/ RunToCompletion(f)
          \/ Settle(f) \/ RecordFired(f) \/ SettleFails(f)
    \/ Minute \/ Crash

Spec == Init /\ [][Next]_vars

-----------------------------------------------------------------------------
\* One firing of a trigger runs at a time, and a trigger is in flight exactly while one
\* does; only a refused "running" update leaves it in flight with nothing running.
OneFiring ==
    \A t \in TriggerIds :
        LET going == {f \in Firings : firing[f].at \in Going /\ firing[f].id = t}
        IN  /\ Cardinality(going) <= 1
            /\ t \in inFlight <=> (going # {} \/ t \in wedged)

\* Without a crash or a refused statement, a row whose firings are all over tells how a
\* firing ended and the trail has it, although the outcome is written after the trigger
\* was let go and the next firing may have begun by then.
IdleTellsOutcome ==
    \A t \in TriggerIds :
        LET over == \A f \in Firings : At(f, "idle") \/ firing[f].id # t
        IN  faults = 0 /\ over /\ Exists(t) =>
                \/ triggers[t].lastStatus = "none"
                \/ <<t, triggers[t].lastStatus>> \in fired
=============================================================================
