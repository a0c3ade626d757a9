-------------------------- MODULE DeploymentProofs --------------------------
(***************************************************************************)
(* Proofs about what the server does for a deployment (MCDeployment): its  *)
(* triggers, its skills, its threads, its people, the calls of vendors'    *)
(* tools and the runs of Bots.  Each machine is proved about on its own    *)
(* variables: a step of the deployment is a step of one machine or leaves  *)
(* it as it was.                                                           *)
(***************************************************************************)
EXTENDS MCDeployment, FiniteSetTheorems, TLAPS

(***************************************************************************)
(* What narrowing a Bot's tools can take away.                             *)
(***************************************************************************)

\* selectTools offers nothing that was not granted, whatever the skills declare and whatever the
\* model answers: a declaration is not a grant.
THEOREM OfferIsGranted ==
  ASSUME NEW granteds, NEW skills, NEW declared, NEW answer, NEW floor
  PROVE  Shelf!SelectTools(granteds, skills, declared, answer, floor) \subseteq granteds
  BY DEF Shelf!SelectTools

\* A tool that narrowing withholds is one that a skill the selector passed over declares, and no
\* skill it chose does: a tool that no skill names reaches every run, and so does each tool of each
\* chosen skill.
THEOREM WithheldIsClaimed ==
  ASSUME NEW granteds, NEW skills, NEW declared, NEW answer, NEW floor,
         NEW t \in granteds \ Shelf!SelectTools(granteds, skills, declared, answer, floor)
  PROVE  /\ \E s \in skills \ answer : t \in declared[s]
         /\ \A s \in answer \cap skills : t \notin declared[s]
<1> DEFINE any == Shelf!DeclaredBy(skills, declared, granteds)
           chosen == Shelf!ReadChosenSkills(answer, skills)
           wanted == Shelf!DeclaredBy(chosen, declared, granteds)
<1>1. t \in any /\ t \notin wanted
  BY DEF Shelf!SelectTools
<1>2. \A s \in answer \cap skills : t \notin declared[s]
  BY <1>1 DEF Shelf!DeclaredBy, Shelf!ReadChosenSkills
<1>3. PICK s \in skills : t \in declared[s]
  BY <1>1 DEF Shelf!DeclaredBy
<1> QED
  BY <1>2, <1>3

\* A selector that names none of the Bot's skills costs the run nothing: the whole of what was
\* granted is offered (the reasons "unavailable" and "nothing-chosen" of selectTools).
THEOREM NoAnswerNoLoss ==
  ASSUME NEW granteds, NEW skills, NEW declared, NEW answer, NEW floor,
         answer \cap skills = {}
  PROVE  Shelf!SelectTools(granteds, skills, declared, answer, floor) = granteds
  BY DEF Shelf!SelectTools, Shelf!ReadChosenSkills

-----------------------------------------------------------------------------
(***************************************************************************)
(* Skills.                                                                 *)
(***************************************************************************)

\* A step of the deployment is one of the skills, or leaves them as they were.
LEMMA ShelfSteps == [Next]_vars => [Shelf!Next]_skillVars
  BY DEF Next, vars, Work, Administration

Waiting(r) == request[r].step = "save"
UnderWay(r) == request[r].step \notin {"unsent", "done"}

ShelfTypes ==
    /\ skillOwner = [s \in Slugs |-> skillOwner[s]] /\ author = [s \in Slugs |-> author[s]]
    /\ request = [r \in Shelf!Requests |-> request[r]]
    /\ \A r \in Shelf!Requests : "step" \in DOMAIN request[r]

\* One request at a time, so that what the check of a save found of its skill still holds.
OneRequest == \A r, q \in Shelf!Requests : UnderWay(r) /\ UnderWay(q) => r = q

SaveIsOwners ==
    \A r \in Shelf!Requests : Waiting(r) =>
        /\ request[r].by \in Admins \/ skillOwner[request[r].slug] \in {Absent, request[r].by}
        /\ request[r].by \in Admins \/ request[r].to = request[r].by

ShelfInv == ShelfTypes /\ OneRequest /\ SaveIsOwners /\ WordsAreOwners

\* Every request on the skills keeps their owners and their words in step.
LEMMA ShelfInvStays == Patient /\ ShelfInv /\ [Shelf!Next]_skillVars => ShelfInv'
<1> SUFFICES ASSUME Patient, ShelfInv, [Shelf!Next]_skillVars PROVE ShelfInv'
  OBVIOUS
<1> USE DEF ShelfInv, ShelfTypes, OneRequest, SaveIsOwners, WordsAreOwners, Shelf!WordsAreOwners,
            Waiting, UnderWay
<1>1. CASE UNCHANGED skillVars
  BY <1>1 DEF skillVars
<1>2. ASSUME NEW r \in Shelf!Requests, Shelf!Refuse(r) PROVE ShelfInv'
  BY <1>2 DEF Shelf!Refuse, Shelf!Finish, Shelf!Unsent
<1>3. ASSUME NEW r \in Shelf!Requests, NEW p \in Users, NEW s \in Slugs,
             NEW to \in {p, Deployment}, NEW tools, Shelf!AskSave(r, p, s, to, tools)
      PROVE  ShelfInv'
  BY <1>3 DEF Shelf!AskSave, Shelf!MayBegin, Shelf!SkillRefusal, Shelf!Unsent
<1>4. ASSUME NEW r \in Shelf!Requests, NEW p \in Users, NEW s \in Slugs, Shelf!AskDelete(r, p, s)
      PROVE  ShelfInv'
  BY <1>4 DEF Shelf!AskDelete, Shelf!MayBegin, Shelf!Unsent
<1>5. ASSUME NEW r \in Shelf!Requests, NEW p \in Users, NEW s \in Slugs, NEW b \in BotIds,
             NEW step \in {"grant", "revoke"}, Shelf!AskGrant(r, p, s, b, step)
      PROVE  ShelfInv'
  BY <1>5 DEF Shelf!AskGrant, Shelf!MayBegin, Shelf!Unsent
<1>6. ASSUME NEW r \in Shelf!Requests, Shelf!InstallSkill(r) PROVE ShelfInv'
  BY <1>6 DEF Shelf!InstallSkill
<1>7. ASSUME NEW r \in Shelf!Requests, Shelf!DeclareTools(r) PROVE ShelfInv'
  BY <1>7 DEF Shelf!DeclareTools, Shelf!Finish, Shelf!Unsent
<1>8. ASSUME NEW r \in Shelf!Requests, Shelf!UninstallSkill(r) PROVE ShelfInv'
  BY <1>8 DEF Shelf!UninstallSkill, Shelf!Finish, Shelf!Unsent
<1>9. ASSUME NEW r \in Shelf!Requests, Shelf!Grant(r) \/ Shelf!Revoke(r) PROVE ShelfInv'
  BY <1>9 DEF Shelf!Grant, Shelf!Revoke, Shelf!Finish, Shelf!Unsent
<1>10. ASSUME NEW b \in BotIds, Shelf!OfferRun(b) PROVE ShelfInv'
  BY <1>10 DEF Shelf!OfferRun
<1> QED
  BY <1>1, <1>2, <1>3, <1>4, <1>5, <1>6, <1>7, <1>8, <1>9, <1>10
  DEF Shelf!Next, Shelf!Ask, Shelf!Serve

\* A skill says what its owner, or an administrator, wrote: skillRefusal lets nobody else save over
\* it, and the upsert of installSkill, which keeps the owner and replaces the words, leaves nobody's
\* words under another's name, while no request comes between the check and the write of another.
THEOREM WordsAreOwnersAlways == Patient => (Spec => []WordsAreOwners)
<1>1. Init => ShelfInv
  BY DEF Init, Shelf!Init, Shelf!Unsent, ShelfInv, ShelfTypes, OneRequest, SaveIsOwners,
         WordsAreOwners, Shelf!WordsAreOwners, Waiting, UnderWay
<1>2. ShelfInv => WordsAreOwners
  BY DEF ShelfInv
<1> SUFFICES ASSUME Patient PROVE Spec => []WordsAreOwners
  OBVIOUS
<1>3. ShelfInv /\ [Next]_vars => ShelfInv'
  BY ShelfInvStays, ShelfSteps
<1> QED
  BY <1>1, <1>2, <1>3, PTL DEF Spec

-----------------------------------------------------------------------------
(***************************************************************************)
(* Triggers.                                                               *)
(***************************************************************************)

\* A step of the deployment is one of the triggers, or leaves them as they were.
LEMMA EngineSteps == [Next]_vars => [Engine!Next]_engineVars
  BY DEF Next, vars, Work, Administration

GoingOn(f) == firing[f].at \in {"claimed", "running"}
Outcomes == {"ok", "error"}

FiringOK(x) ==
    /\ "at" \in DOMAIN x /\ x.at \in {"idle", "read", "claimed", "running", "ran", "settled"}
    /\ x.at # "idle" => /\ "id" \in DOMAIN x /\ "status" \in DOMAIN x
                        /\ x.id \in TriggerIds
    /\ x.at \in {"ran", "settled"} => x.status \in Outcomes

EngineTypes ==
    /\ firing = [f \in Firings |-> firing[f]] /\ \A f \in Firings : FiringOK(firing[f])
    /\ triggers = [t \in TriggerIds |-> triggers[t]]
    /\ \A t \in TriggerIds : Engine!Exists(t) => "lastStatus" \in DOMAIN triggers[t]
    /\ engineFaults \in Nat

\* A firing under way has its trigger in flight, and a trigger in flight has one, unless the update
\* that was to mark it running was refused.
InFlightIsGoing ==
    /\ \A f, g \in Firings : GoingOn(f) /\ GoingOn(g) /\ firing[f].id = firing[g].id => f = g
    /\ \A f \in Firings : GoingOn(f) => firing[f].id \in inFlight /\ firing[f].id \notin wedged
    /\ wedged \subseteq inFlight
    /\ \A t \in inFlight \cap TriggerIds :
          t \in wedged \/ \E f \in Firings : GoingOn(f) /\ firing[f].id = t

\* What a row says is in the trail, or the firing that is about to write it there is still going.
Told(t) ==
    \/ triggers[t].lastStatus = "none"
    \/ <<t, triggers[t].lastStatus>> \in fired
    \/ /\ triggers[t].lastStatus = "running"
       /\ \E f \in Firings : firing[f].at \in {"running", "ran"} /\ firing[f].id = t
    \/ \E f \in Firings : /\ firing[f].at = "settled" /\ firing[f].id = t
                          /\ firing[f].status = triggers[t].lastStatus
RowIsTold == engineFaults = 0 => \A t \in TriggerIds : Engine!Exists(t) => Told(t)

EngineInv == EngineTypes /\ InFlightIsGoing /\ RowIsTold

\* Every step of a firing keeps what it has claimed, marked and told in step.
LEMMA EngineInvStays == EngineInv /\ [Engine!Next]_engineVars => EngineInv'
<1> SUFFICES ASSUME EngineInv, [Engine!Next]_engineVars PROVE EngineInv'
  OBVIOUS
<1> USE DEF EngineInv, EngineTypes, InFlightIsGoing, RowIsTold, GoingOn, Outcomes, Engine!At
<1>1. CASE UNCHANGED engineVars
  BY <1>1 DEF engineVars, Engine!Exists, Engine!Gone, Engine!Unborn, Told
<1>2. ASSUME NEW t \in TriggerIds, Engine!Create(t) PROVE EngineInv'
  <2>0. UNCHANGED <<firing, inFlight, fired, engineFaults, wedged>>
    BY <1>2 DEF Engine!Create
  <2>1. /\ triggers' = [u \in TriggerIds |-> triggers'[u]]
        /\ "lastStatus" \in DOMAIN triggers'[t] /\ triggers'[t].lastStatus = "none"
        /\ \A u \in TriggerIds : u # t => triggers'[u] = triggers[u]
    <3>1. PICK kind \in {"cron", "webhook"}, s \in Schedules \union {NoSchedule},
               mode \in {"continue", "new"} :
               triggers' = [triggers EXCEPT ![t] =
                  [kind |-> kind, schedule |-> s, enabled |-> TRUE, threadMode |-> mode,
                   threadId |-> "none", lastStatus |-> "none"]]
      BY <1>2, Zenon DEF Engine!Create
    <3> DEFINE row == [kind |-> kind, schedule |-> s, enabled |-> TRUE, threadMode |-> mode,
                       threadId |-> "none", lastStatus |-> "none"]
    <3>2. "lastStatus" \in DOMAIN row /\ row.lastStatus = "none"
      OBVIOUS
    <3> HIDE DEF row
    <3> QED
      BY <3>1, <3>2
  <2>2. \A u \in TriggerIds : u # t => (Engine!Exists(u)' <=> Engine!Exists(u))
    BY <2>1 DEF Engine!Exists, Engine!Unborn, Engine!Gone
  <2>3. EngineTypes'
    BY <2>0, <2>1, <2>2
  <2>4. InFlightIsGoing'
    BY <2>0
  <2>5. \A u \in TriggerIds : u # t /\ Told(u) => Told(u)'
    BY <2>0, <2>1 DEF Told
  <2>6. Told(t)'
    BY <2>1 DEF Told
  <2> QED
    BY <2>0, <2>2, <2>3, <2>4, <2>5, <2>6
<1>3. ASSUME NEW t \in TriggerIds, Engine!Update(t) PROVE EngineInv'
  BY <1>3 DEF Engine!Update, Engine!Exists, Engine!Gone, Engine!Unborn, Told
<1>4. ASSUME NEW t \in TriggerIds, Engine!Remove(t) PROVE EngineInv'
  <2>0. UNCHANGED <<firing, inFlight, fired, engineFaults, wedged>>
    BY <1>4 DEF Engine!Remove
  <2>1. /\ ~Engine!Exists(t)' /\ \A u \in TriggerIds : u # t => triggers'[u] = triggers[u]
        /\ triggers' = [u \in TriggerIds |-> triggers'[u]]
    BY <1>4 DEF Engine!Remove, Engine!Exists, Engine!Unborn, Engine!Gone
  <2>2. \A u \in TriggerIds : u # t => (Engine!Exists(u)' <=> Engine!Exists(u))
    BY <2>1 DEF Engine!Exists, Engine!Unborn, Engine!Gone
  <2>3. EngineTypes'
    BY <2>0, <2>1, <2>2
  <2>4. InFlightIsGoing'
    BY <2>0
  <2>5. \A u \in TriggerIds : u # t /\ Told(u) => Told(u)'
    BY <2>0, <2>1 DEF Told
  <2> QED
    BY <2>0, <2>1, <2>2, <2>3, <2>4, <2>5
<1>5. ASSUME NEW f \in Firings, NEW t \in TriggerIds, NEW cause \in {"cron", "webhook", "manual"},
             Engine!Read(f, t, cause)
      PROVE  EngineInv'
  <2>0. /\ firing[f].at = "idle" /\ UNCHANGED <<triggers, inFlight, fired, engineFaults, wedged>>
    BY <1>5 DEF Engine!Read
  <2>1. /\ firing' = [g \in Firings |-> firing'[g]] /\ FiringOK(firing'[f])
        /\ firing'[f].at = "read" /\ \A g \in Firings : g # f => firing'[g] = firing[g]
    BY <1>5 DEF Engine!Read, FiringOK
  <2>5. \A u \in TriggerIds : Engine!Exists(u)' <=> Engine!Exists(u)
    BY <2>0 DEF Engine!Exists, Engine!Unborn, Engine!Gone
  <2>2. EngineTypes'
    BY <2>0, <2>1, <2>5
  <2>3. InFlightIsGoing'
    BY <2>0, <2>1
  <2>4. ASSUME NEW u \in TriggerIds, Told(u) PROVE Told(u)'
    BY <2>0, <2>1, <2>4 DEF Told
  <2> QED
    BY <2>0, <2>2, <2>3, <2>4, <2>5
<1>6. ASSUME NEW f \in Firings, Engine!Claim(f) PROVE EngineInv'
  <2>0. /\ firing[f].at = "read" /\ UNCHANGED <<triggers, fired, engineFaults, wedged>>
    BY <1>6 DEF Engine!Claim
  <2>5. \A t \in TriggerIds : Engine!Exists(t)' <=> Engine!Exists(t)
    BY <2>0 DEF Engine!Exists, Engine!Unborn, Engine!Gone
  <2>1. /\ firing' = [g \in Firings |-> firing'[g]] /\ FiringOK(firing'[f])
        /\ \A g \in Firings : g # f => firing'[g] = firing[g]
        /\ \/ firing'[f].at = "idle" /\ inFlight' = inFlight
           \/ /\ firing'[f].at = "claimed" /\ firing'[f].id = firing[f].id
              /\ firing[f].id \notin inFlight /\ inFlight' = inFlight \cup {firing[f].id}
    BY <1>6 DEF Engine!Claim, Engine!Idle, FiringOK
  <2>2. EngineTypes'
    BY <2>0, <2>1, <2>5
  <2>3. InFlightIsGoing'
    <3>1. CASE firing'[f].at = "idle" /\ inFlight' = inFlight
      BY <2>0, <2>1, <3>1
    <3>2. CASE /\ firing'[f].at = "claimed" /\ firing'[f].id = firing[f].id
               /\ firing[f].id \notin inFlight /\ inFlight' = inFlight \cup {firing[f].id}
      BY <2>0, <2>1, <3>2
    <3> QED
      BY <2>1, <3>1, <3>2
  <2>4. ASSUME NEW t \in TriggerIds, Told(t) PROVE Told(t)'
    BY <2>0, <2>1, <2>4 DEF Told
  <2> QED
    BY <2>0, <2>2, <2>3, <2>4, <2>5
<1>7. ASSUME NEW f \in Firings, Engine!MarkRunning(f) PROVE EngineInv'
  <2>0. /\ firing[f].at = "claimed"
        /\ UNCHANGED <<inFlight, fired, engineFaults, wedged>>
    BY <1>7 DEF Engine!MarkRunning
  <2>1. /\ firing' = [g \in Firings |-> firing'[g]] /\ FiringOK(firing'[f])
        /\ firing'[f].at = "running" /\ firing'[f].id = firing[f].id
        /\ \A g \in Firings : g # f => firing'[g] = firing[g]
    BY <1>7 DEF Engine!MarkRunning, Engine!Idle, FiringOK
  <2>5. \A t \in TriggerIds : Engine!Exists(t)' => Engine!Exists(t)
    BY <1>7, SMTT(30) DEF Engine!MarkRunning, Engine!Write, Engine!Exists
  <2>6. /\ triggers' = [t \in TriggerIds |-> triggers'[t]]
        /\ \A t \in TriggerIds : Engine!Exists(t) =>
              /\ "lastStatus" \in DOMAIN triggers'[t]
              /\ t # firing[f].id => triggers'[t].lastStatus = triggers[t].lastStatus
              /\ t = firing[f].id => triggers'[t].lastStatus = "running"
    BY <1>7 DEF Engine!MarkRunning, Engine!Write, Engine!Exists, FiringOK
  <2>2. EngineTypes'
    BY <2>0, <2>1, <2>5, <2>6
  <2>3. InFlightIsGoing'
    BY <2>0, <2>1 DEF FiringOK
  <2>4. ASSUME NEW t \in TriggerIds, Engine!Exists(t), Told(t), engineFaults' = 0 PROVE Told(t)'
    BY <2>0, <2>1, <2>4, <2>5, <2>6 DEF FiringOK, Told
  <2> QED
    BY <2>0, <2>2, <2>3, <2>4, <2>5, <2>6
<1>8. ASSUME NEW f \in Firings, Engine!MarkFails(f) PROVE EngineInv'
  <2>0. /\ firing[f].at = "claimed"
        /\ UNCHANGED <<triggers, inFlight, fired>> /\ engineFaults' = engineFaults + 1
        /\ wedged' = wedged \cup {firing[f].id}
    BY <1>8 DEF Engine!MarkFails
  <2>1. /\ firing' = [g \in Firings |-> firing'[g]] /\ FiringOK(firing'[f])
        /\ firing'[f].at = "idle"
        /\ \A g \in Firings : g # f => firing'[g] = firing[g]
    BY <1>8 DEF Engine!MarkFails, Engine!Idle, FiringOK
  <2>5. \A t \in TriggerIds : Engine!Exists(t)' <=> Engine!Exists(t)
    BY <2>0 DEF Engine!Exists, Engine!Unborn, Engine!Gone
  <2>2. EngineTypes'
    BY <2>0, <2>1, <2>5
  <2>3. InFlightIsGoing'
    BY <2>0, <2>1 DEF FiringOK
  <2>4. ASSUME NEW t \in TriggerIds, Engine!Exists(t), Told(t), engineFaults' = 0 PROVE Told(t)'
    BY <2>0, <2>1, <2>4, <2>5 DEF FiringOK, Told
  <2> QED
    BY <2>0, <2>2, <2>3, <2>4, <2>5
<1>9. ASSUME NEW f \in Firings, Engine!RunToCompletion(f) PROVE EngineInv'
  <2>0. /\ firing[f].at = "running"
        /\ UNCHANGED <<triggers, fired, engineFaults, wedged>> /\ inFlight' = inFlight \ {firing[f].id}
    BY <1>9 DEF Engine!RunToCompletion
  <2>1. /\ firing' = [g \in Firings |-> firing'[g]] /\ FiringOK(firing'[f])
        /\ firing'[f].at = "ran" /\ firing'[f].id = firing[f].id
        /\ \A g \in Firings : g # f => firing'[g] = firing[g]
    <3> PICK outcome \in {"ok", "error"} :
             firing' = [firing EXCEPT ![f].at = "ran", ![f].status = outcome]
      BY <1>9 DEF Engine!RunToCompletion
    <3> DEFINE x == firing[f]
               y == [x EXCEPT !.at = "ran", !.status = outcome]
    <3>1. firing' = [firing EXCEPT ![f] = y]
      OBVIOUS
    <3>2. FiringOK(x) /\ x.at = "running"
      BY <2>0
    <3>3. "id" \in DOMAIN x /\ "at" \in DOMAIN x /\ "status" \in DOMAIN x /\ x.id \in TriggerIds
      BY <3>2 DEF FiringOK
    <3> HIDE DEF x
    <3>4. /\ y.at = "ran" /\ y.status = outcome /\ y.id = x.id
          /\ "id" \in DOMAIN y /\ "at" \in DOMAIN y /\ "status" \in DOMAIN y
      BY <3>3
    <3> HIDE DEF y
    <3>5. FiringOK(y)
      BY <3>3, <3>4 DEF FiringOK
    <3>6. firing'[f] = y /\ \A g \in Firings : g # f => firing'[g] = firing[g]
      BY <3>1
    <3> QED
      BY <3>1, <3>4, <3>5, <3>6 DEF x
  <2>5. \A t \in TriggerIds : Engine!Exists(t)' <=> Engine!Exists(t)
    BY <2>0 DEF Engine!Exists, Engine!Unborn, Engine!Gone
  <2>2. EngineTypes'
    BY <2>0, <2>1, <2>5
  <2>3. InFlightIsGoing'
    BY <2>0, <2>1 DEF FiringOK
  <2>4. ASSUME NEW t \in TriggerIds, Engine!Exists(t), Told(t), engineFaults' = 0 PROVE Told(t)'
    BY <2>0, <2>1, <2>4, <2>5 DEF FiringOK, Told
  <2> QED
    BY <2>0, <2>2, <2>3, <2>4, <2>5
<1>10. ASSUME NEW f \in Firings, Engine!Settle(f) PROVE EngineInv'
  <2>0. /\ firing[f].at = "ran"
        /\ UNCHANGED <<inFlight, fired, engineFaults, wedged>>
    BY <1>10 DEF Engine!Settle
  <2>1. /\ firing' = [g \in Firings |-> firing'[g]] /\ FiringOK(firing'[f])
        /\ firing'[f].at = "settled" /\ firing'[f].id = firing[f].id /\ firing'[f].status = firing[f].status
        /\ \A g \in Firings : g # f => firing'[g] = firing[g]
    BY <1>10 DEF Engine!Settle, Engine!Idle, FiringOK
  <2>5. \A t \in TriggerIds : Engine!Exists(t)' => Engine!Exists(t)
    BY <1>10 DEF Engine!Settle, Engine!Exists
  <2>6. /\ triggers' = [t \in TriggerIds |-> triggers'[t]]
        /\ \A t \in TriggerIds : Engine!Exists(t) =>
              /\ "lastStatus" \in DOMAIN triggers'[t]
              /\ t # firing[f].id => triggers'[t].lastStatus = triggers[t].lastStatus
              /\ t = firing[f].id => triggers'[t].lastStatus = firing[f].status
    BY <1>10 DEF Engine!Settle, Engine!Exists, FiringOK
  <2>2. EngineTypes'
    BY <2>0, <2>1, <2>5, <2>6
  <2>3. InFlightIsGoing'
    BY <2>0, <2>1 DEF FiringOK
  <2>4. ASSUME NEW t \in TriggerIds, Engine!Exists(t), Told(t), engineFaults' = 0 PROVE Told(t)'
    BY <2>0, <2>1, <2>4, <2>5, <2>6 DEF FiringOK, Told
  <2> QED
    BY <2>0, <2>2, <2>3, <2>4, <2>5, <2>6
<1>11. ASSUME NEW f \in Firings, Engine!RecordFired(f) PROVE EngineInv'
  <2>0. /\ firing[f].at = "settled"
        /\ UNCHANGED <<triggers, inFlight, engineFaults, wedged>> /\ fired' = fired \cup {<<firing[f].id, firing[f].status>>}
    BY <1>11 DEF Engine!RecordFired
  <2>1. /\ firing' = [g \in Firings |-> firing'[g]] /\ FiringOK(firing'[f])
        /\ firing'[f].at = "idle"
        /\ \A g \in Firings : g # f => firing'[g] = firing[g]
    BY <1>11 DEF Engine!RecordFired, Engine!Idle, FiringOK
  <2>5. \A t \in TriggerIds : Engine!Exists(t)' <=> Engine!Exists(t)
    BY <2>0 DEF Engine!Exists, Engine!Unborn, Engine!Gone
  <2>2. EngineTypes'
    BY <2>0, <2>1, <2>5
  <2>3. InFlightIsGoing'
    BY <2>0, <2>1 DEF FiringOK
  <2>4. ASSUME NEW t \in TriggerIds, Engine!Exists(t), Told(t), engineFaults' = 0 PROVE Told(t)'
    BY <2>0, <2>1, <2>4, <2>5 DEF FiringOK, Told
  <2> QED
    BY <2>0, <2>2, <2>3, <2>4, <2>5
<1>12. ASSUME NEW f \in Firings, Engine!SettleFails(f) PROVE EngineInv'
  <2>0. /\ firing[f].at \in {"ran", "settled"}
        /\ UNCHANGED <<triggers, inFlight, fired, wedged>> /\ engineFaults' = engineFaults + 1
    BY <1>12 DEF Engine!SettleFails
  <2>1. /\ firing' = [g \in Firings |-> firing'[g]] /\ FiringOK(firing'[f])
        /\ firing'[f].at = "idle"
        /\ \A g \in Firings : g # f => firing'[g] = firing[g]
    BY <1>12 DEF Engine!SettleFails, Engine!Idle, FiringOK
  <2>5. \A t \in TriggerIds : Engine!Exists(t)' <=> Engine!Exists(t)
    BY <2>0 DEF Engine!Exists, Engine!Unborn, Engine!Gone
  <2>2. EngineTypes'
    BY <2>0, <2>1, <2>5
  <2>3. InFlightIsGoing'
    BY <2>0, <2>1 DEF FiringOK
  <2>4. ASSUME NEW t \in TriggerIds, Engine!Exists(t), Told(t), engineFaults' = 0 PROVE Told(t)'
    BY <2>0, <2>1, <2>4, <2>5 DEF FiringOK, Told
  <2> QED
    BY <2>0, <2>2, <2>3, <2>4, <2>5
<1>13. CASE Engine!Minute
  BY <1>13 DEF Engine!Minute, Engine!Exists, Engine!Gone, Engine!Unborn, Told
<1>14. CASE Engine!Crash
  BY <1>14 DEF Engine!Crash, Engine!Idle, Engine!Exists, FiringOK
<1> QED
  BY <1>1, <1>2, <1>3, <1>4, <1>5, <1>6, <1>7, <1>8, <1>9, <1>10, <1>11, <1>12, <1>13, <1>14
  DEF Engine!Next

\* Nothing counts none, and a single element one.
LEMMA CountOfOne == Engine!Cardinality({}) = 0 /\ \A x : Engine!Cardinality({x}) = 1
<1>1. \A S : Engine!Cardinality(S) = Cardinality(S)
  BY DEF Engine!Cardinality, Cardinality
<1> QED
  BY <1>1, FS_EmptySet, FS_Singleton

\* fire does not stack: one firing of a trigger runs at a time, and a trigger is in flight exactly
\* while one does (or the update that was to mark it running was refused); and with nothing refused
\* and no crash, once the firings of a trigger are over its row and the trail tell one outcome,
\* although a firing writes its outcome after it let its trigger go.
THEOREM FiringsToldAlways == Spec => []FiringsTold
<1>1. Init => EngineInv
  BY DEF Init, Engine!Init, EngineInv, EngineTypes, InFlightIsGoing, RowIsTold, GoingOn,
         FiringOK, Engine!Idle, Engine!Unborn, Engine!Gone, Engine!Exists
<1>2. EngineInv => FiringsTold
  <2> SUFFICES ASSUME EngineInv PROVE FiringsTold
    OBVIOUS
  <2>2. Engine!OneFiring
    <3> USE DEF Engine!OneFiring
    <3> TAKE t \in TriggerIds
    <3> DEFINE going == {f \in Firings : firing[f].at \in Engine!Going /\ firing[f].id = t}
    <3>1. t \in inFlight <=> (going # {} \/ t \in wedged)
      BY DEF EngineInv, InFlightIsGoing, GoingOn, Engine!Going
    <3>2. \A f, g \in going : f = g
      BY DEF EngineInv, InFlightIsGoing, GoingOn, Engine!Going
    <3> HIDE DEF going
    <3>3. CASE going = {}
      <4>1. Engine!Cardinality({}) = 0
        BY CountOfOne
      <4>2. Engine!Cardinality(going) <= 1
        BY <3>3, <4>1
      <4> QED
        BY <3>1, <4>2 DEF going
    <3>4. CASE going # {}
      <4> PICK f \in going : TRUE
        BY <3>4
      <4>1. going = {f}
        BY <3>2
      <4>2. Engine!Cardinality({f}) = 1
        BY CountOfOne
      <4>3. Engine!Cardinality(going) <= 1
        BY <4>1, <4>2
      <4> QED
        BY <3>1, <4>3 DEF going
    <3> QED
      BY <3>3, <3>4
  <2>3. Engine!IdleTellsOutcome
    BY DEF EngineInv, EngineTypes, RowIsTold, Told, FiringOK, Engine!IdleTellsOutcome, Engine!At
  <2> QED
    BY <2>2, <2>3 DEF FiringsTold
<1> QED
  BY <1>1, <1>2, EngineInvStays, EngineSteps, PTL DEF Spec

-----------------------------------------------------------------------------
(***************************************************************************)
(* The calls of vendors' tools.                                            *)
(***************************************************************************)

\* A step of the deployment is one of the vendors' calls, or leaves them as they were.
LEMMA VendorSteps == [Next]_vars => [Vendors!Next]_callVars
  BY DEF Next, vars, Work, Administration

VendorTypes ==
    /\ call = [c \in Calls |-> call[c]] /\ rows = [c \in Calls |-> rows[c]]
    /\ \A c \in Calls : "step" \in DOMAIN call[c] /\ "outcome" \in DOMAIN call[c]
    /\ refresh = [s \in Vendors!Servers |-> refresh[s]]
    /\ held = [s \in Vendors!Servers |-> held[s]]
    /\ \A s \in Vendors!Servers : "step" \in DOMAIN refresh[s] /\ "list" \in DOMAIN refresh[s]
    /\ callFaults \in Nat

\* Until a call is over it has no row; what it came to is known from the vendor's answer on, and an
\* answer reaches the catch only when its row could not be written.
CallStands(c) ==
    \/ /\ call[c].step \in {"unmade", "server", "advertised", "judge", "token", "vendor"}
       /\ rows[c] = <<>> /\ call[c].outcome = "unasked"
    \/ call[c].step = "record" /\ rows[c] = <<>> /\ call[c].outcome \in {"ok", "isError"}
    \/ /\ call[c].step = "catch" /\ rows[c] = <<>>
       /\ callFaults = 0 => call[c].outcome \in {"unasked", "threw"}
    \/ /\ call[c].step = "done"
       /\ \/ rows[c] = <<>> /\ (callFaults = 0 => call[c].outcome = "unasked")
          \/ rows[c] = <<"call_rejected">> /\ call[c].outcome = "unasked"
          \/ rows[c] = <<"call_succeeded">> /\ call[c].outcome = "ok"
          \/ rows[c] = <<"call_failed">> /\ (callFaults = 0 => call[c].outcome # "ok")

\* A list the vendor gave is not empty, and only between the delete and the insert of a refresh does
\* a server that was listed hold no tools.
ListStands(s) ==
    /\ refresh[s].step \in {"none", "list", "delete", "insert", "settle"}
    /\ refresh[s].step \in {"delete", "insert"} => refresh[s].list # {}
    /\ s \in seen => s \in added
    /\ s \in seen /\ callFaults = 0 /\ refresh[s].step # "insert" => held[s] # {}

VendorInv ==
    /\ VendorTypes /\ seen \subseteq Vendors!Servers
    /\ \A c \in Calls : CallStands(c)
    /\ \A s \in Vendors!Servers : ListStands(s)

\* A call nobody made has no outcome.
LEMMA UnmadeFields == Vendors!Unmade.step = "unmade" /\ Vendors!Unmade.outcome = "unasked"
  BY DEF Vendors!Unmade

\* Every step of a call and of an administrator keeps what the trail tells of it.
LEMMA VendorInvStays == VendorInv /\ [Vendors!Next]_callVars => VendorInv'
<1> SUFFICES ASSUME VendorInv, [Vendors!Next]_callVars PROVE VendorInv'
  OBVIOUS
<1> USE DEF VendorInv, VendorTypes
<1>1. CASE UNCHANGED callVars
  BY <1>1 DEF callVars, CallStands, ListStands
<1>2. ASSUME NEW s \in Vendors!Servers, Vendors!Added(s) PROVE VendorInv'
  <2>0. UNCHANGED <<call, rows>> /\ callFaults' = callFaults
    BY <1>2 DEF Vendors!Added, Vendors!callVars, Vendors!Edit
  <2>1. /\ refresh' = [r \in Vendors!Servers |-> refresh'[r]] /\ held' = [r \in Vendors!Servers |-> held'[r]]
        /\ \A r \in Vendors!Servers : r # s => refresh'[r] = refresh[r] /\ held'[r] = held[r]
        /\ "step" \in DOMAIN refresh'[s] /\ "list" \in DOMAIN refresh'[s]
        /\ \A r \in Vendors!Servers : r # s => /\ r \in added' <=> r \in added
                                               /\ r \in seen' <=> r \in seen
    BY <1>2 DEF Vendors!Added, Vendors!Edit, Vendors!RefreshStep, Vendors!Quiet
  <2>2. ListStands(s)'
    BY <1>2, <2>0 DEF Vendors!Added, ListStands, Vendors!Edit, Vendors!RefreshStep, Vendors!Quiet
  <2>3. seen' \subseteq Vendors!Servers
    BY <1>2 DEF Vendors!Added
  <2>4. \A r \in Vendors!Servers : ListStands(r)'
    BY <2>0, <2>1, <2>2 DEF ListStands
  <2>5. \A c \in Calls : CallStands(c)'
    BY <2>0 DEF CallStands
  <2> QED
    BY <2>0, <2>1, <2>3, <2>4, <2>5
<1>3. ASSUME NEW s \in Vendors!Servers, Vendors!RemoveServer(s) PROVE VendorInv'
  <2>0. UNCHANGED <<call, rows>> /\ callFaults' = callFaults
    BY <1>3 DEF Vendors!RemoveServer, Vendors!callVars, Vendors!Edit
  <2>1. /\ refresh' = [r \in Vendors!Servers |-> refresh'[r]] /\ held' = [r \in Vendors!Servers |-> held'[r]]
        /\ \A r \in Vendors!Servers : r # s => refresh'[r] = refresh[r] /\ held'[r] = held[r]
        /\ "step" \in DOMAIN refresh'[s] /\ "list" \in DOMAIN refresh'[s]
        /\ \A r \in Vendors!Servers : r # s => /\ r \in added' <=> r \in added
                                               /\ r \in seen' <=> r \in seen
    BY <1>3 DEF Vendors!RemoveServer, Vendors!Edit
  <2>2. ListStands(s)'
    BY <1>3, <2>0 DEF Vendors!RemoveServer, ListStands, Vendors!Edit
  <2>3. seen' \subseteq Vendors!Servers
    BY <1>3 DEF Vendors!RemoveServer
  <2>4. \A r \in Vendors!Servers : ListStands(r)'
    BY <2>0, <2>1, <2>2 DEF ListStands
  <2>5. \A c \in Calls : CallStands(c)'
    BY <2>0 DEF CallStands
  <2> QED
    BY <2>0, <2>1, <2>3, <2>4, <2>5
<1>4. ASSUME NEW s \in Vendors!Servers, Vendors!AskRefresh(s) PROVE VendorInv'
  <2>0. UNCHANGED <<call, rows>> /\ callFaults' = callFaults
    BY <1>4 DEF Vendors!AskRefresh, Vendors!callVars, Vendors!Edit
  <2>1. /\ refresh' = [r \in Vendors!Servers |-> refresh'[r]] /\ held' = [r \in Vendors!Servers |-> held'[r]]
        /\ \A r \in Vendors!Servers : r # s => refresh'[r] = refresh[r] /\ held'[r] = held[r]
        /\ "step" \in DOMAIN refresh'[s] /\ "list" \in DOMAIN refresh'[s]
        /\ \A r \in Vendors!Servers : r # s => /\ r \in added' <=> r \in added
                                               /\ r \in seen' <=> r \in seen
    BY <1>4 DEF Vendors!AskRefresh, Vendors!Edit, Vendors!RefreshStep, Vendors!Quiet
  <2>2. ListStands(s)'
    BY <1>4, <2>0 DEF Vendors!AskRefresh, ListStands, Vendors!Edit, Vendors!RefreshStep, Vendors!Quiet
  <2>3. seen' \subseteq Vendors!Servers
    BY <1>4 DEF Vendors!AskRefresh
  <2>4. \A r \in Vendors!Servers : ListStands(r)'
    BY <2>0, <2>1, <2>2 DEF ListStands
  <2>5. \A c \in Calls : CallStands(c)'
    BY <2>0 DEF CallStands
  <2> QED
    BY <2>0, <2>1, <2>3, <2>4, <2>5
<1>5. CASE \/ \E ref \in Vendors!Refs, b \in Bots : Vendors!Grant(ref, b) \/ Vendors!Revoke(ref, b)
           \/ \E effects \in SUBSET Vendors!Effects : Vendors!EditPolicy(effects)
  BY <1>5, ZenonT(60) DEF Vendors!Grant, Vendors!Revoke, Vendors!EditPolicy, Vendors!Edit, Vendors!callVars,
              CallStands, ListStands
<1>6. ASSUME NEW s \in Vendors!Servers, Vendors!RefreshList(s) PROVE VendorInv'
  <2>0. UNCHANGED <<call, rows>> /\ callFaults' = callFaults
    BY <1>6 DEF Vendors!RefreshList, Vendors!callVars
  <2>1. /\ refresh' = [r \in Vendors!Servers |-> refresh'[r]] /\ held' = [r \in Vendors!Servers |-> held'[r]]
        /\ \A r \in Vendors!Servers : r # s => refresh'[r] = refresh[r] /\ held'[r] = held[r]
        /\ "step" \in DOMAIN refresh'[s] /\ "list" \in DOMAIN refresh'[s]
        /\ \A r \in Vendors!Servers : r # s => /\ r \in added' <=> r \in added
                                               /\ r \in seen' <=> r \in seen
    BY <1>6 DEF Vendors!RefreshList, Vendors!Quiet
  <2>2. ListStands(s)'
    <3>1. /\ refresh[s].step = "list" /\ UNCHANGED <<added, held, seen>> /\ ListStands(s)
      BY <1>6 DEF Vendors!RefreshList
    <3>2. \/ refresh'[s].step = "delete" /\ refresh'[s].list # {}
          \/ refresh'[s].step = "none"
      <4>1. \/ \E list \in (SUBSET Tools) \ {{}} :
                  refresh' = [refresh EXCEPT ![s] = [step |-> "delete", list |-> list]]
            \/ refresh' = [refresh EXCEPT ![s] = [step |-> "none", list |-> {}]]
        BY <1>6 DEF Vendors!RefreshList, Vendors!Quiet
      <4>2. CASE refresh' = [refresh EXCEPT ![s] = [step |-> "none", list |-> {}]]
        BY <4>2
      <4>3. ASSUME NEW list \in (SUBSET Tools) \ {{}},
                   refresh' = [refresh EXCEPT ![s] = [step |-> "delete", list |-> list]]
            PROVE  refresh'[s].step = "delete" /\ refresh'[s].list # {}
        <5>1. refresh'[s] = [step |-> "delete", list |-> list]
          BY <4>3
        <5>2. list # {}
          OBVIOUS
        <5> QED
          BY <5>1, <5>2
      <4> QED
        BY <4>1, <4>2, <4>3
    <3> QED
      BY <2>0, <3>1, <3>2 DEF ListStands
  <2>3. seen' \subseteq Vendors!Servers
    BY <1>6 DEF Vendors!RefreshList
  <2>4. \A r \in Vendors!Servers : ListStands(r)'
    BY <2>0, <2>1, <2>2 DEF ListStands
  <2>5. \A c \in Calls : CallStands(c)'
    BY <2>0 DEF CallStands
  <2> QED
    BY <2>0, <2>1, <2>3, <2>4, <2>5
<1>7. ASSUME NEW s \in Vendors!Servers, Vendors!RefreshDelete(s) PROVE VendorInv'
  <2>0. UNCHANGED <<call, rows>> /\ callFaults' = callFaults
    BY <1>7 DEF Vendors!RefreshDelete, Vendors!callVars
  <2>1. /\ refresh' = [r \in Vendors!Servers |-> refresh'[r]] /\ held' = [r \in Vendors!Servers |-> held'[r]]
        /\ \A r \in Vendors!Servers : r # s => refresh'[r] = refresh[r] /\ held'[r] = held[r]
        /\ "step" \in DOMAIN refresh'[s] /\ "list" \in DOMAIN refresh'[s]
        /\ \A r \in Vendors!Servers : r # s => /\ r \in added' <=> r \in added
                                               /\ r \in seen' <=> r \in seen
    BY <1>7 DEF Vendors!RefreshDelete, Vendors!RefreshStep
  <2>2. ListStands(s)'
    <3>1. /\ refresh[s].step = "delete" /\ UNCHANGED <<added, seen>> /\ ListStands(s)
          /\ refresh' = [refresh EXCEPT ![s].step = "insert"]
      BY <1>7 DEF Vendors!RefreshDelete, Vendors!RefreshStep
    <3>2. refresh'[s].step = "insert" /\ refresh'[s].list = refresh[s].list
      BY <3>1
    <3> QED
      BY <3>1, <3>2 DEF ListStands
  <2>3. seen' \subseteq Vendors!Servers
    BY <1>7 DEF Vendors!RefreshDelete
  <2>4. \A r \in Vendors!Servers : ListStands(r)'
    BY <2>0, <2>1, <2>2 DEF ListStands
  <2>5. \A c \in Calls : CallStands(c)'
    BY <2>0 DEF CallStands
  <2> QED
    BY <2>0, <2>1, <2>3, <2>4, <2>5
<1>8. ASSUME NEW s \in Vendors!Servers, Vendors!RefreshInsert(s) PROVE VendorInv'
  <2>0. /\ UNCHANGED <<call, rows>>
        /\ callFaults' \in {callFaults, callFaults + 1}
    BY <1>8 DEF Vendors!RefreshInsert, Vendors!callVars
  <2>1. /\ refresh' = [r \in Vendors!Servers |-> refresh'[r]] /\ held' = [r \in Vendors!Servers |-> held'[r]]
        /\ \A r \in Vendors!Servers : r # s => refresh'[r] = refresh[r] /\ held'[r] = held[r]
        /\ "step" \in DOMAIN refresh'[s] /\ "list" \in DOMAIN refresh'[s]
        /\ \A r \in Vendors!Servers : r # s => /\ r \in added' <=> r \in added
                                               /\ r \in seen' <=> r \in seen
    BY <1>8 DEF Vendors!RefreshInsert, Vendors!RefreshStep, Vendors!Quiet
  <2>2. ListStands(s)'
    BY <1>8, <2>0 DEF Vendors!RefreshInsert, ListStands, Vendors!RefreshStep, Vendors!Quiet
  <2>3. seen' \subseteq Vendors!Servers
    BY <1>8 DEF Vendors!RefreshInsert
  <2>4. \A r \in Vendors!Servers : ListStands(r)'
    BY <2>0, <2>1, <2>2 DEF ListStands
  <2>5. \A c \in Calls : CallStands(c)'
    BY <2>0 DEF CallStands
  <2> QED
    BY <2>0, <2>1, <2>3, <2>4, <2>5
<1>9. ASSUME NEW s \in Vendors!Servers, Vendors!RefreshSettle(s) PROVE VendorInv'
  <2>0. UNCHANGED <<call, rows>> /\ callFaults' = callFaults
    BY <1>9 DEF Vendors!RefreshSettle, Vendors!callVars
  <2>1. /\ refresh' = [r \in Vendors!Servers |-> refresh'[r]] /\ held' = [r \in Vendors!Servers |-> held'[r]]
        /\ \A r \in Vendors!Servers : r # s => refresh'[r] = refresh[r] /\ held'[r] = held[r]
        /\ "step" \in DOMAIN refresh'[s] /\ "list" \in DOMAIN refresh'[s]
        /\ \A r \in Vendors!Servers : r # s => /\ r \in added' <=> r \in added
                                               /\ r \in seen' <=> r \in seen
    BY <1>9 DEF Vendors!RefreshSettle, Vendors!Quiet
  <2>2. ListStands(s)'
    BY <1>9, <2>0 DEF Vendors!RefreshSettle, ListStands, Vendors!Quiet
  <2>3. seen' \subseteq Vendors!Servers
    BY <1>9 DEF Vendors!RefreshSettle
  <2>4. \A r \in Vendors!Servers : ListStands(r)'
    BY <2>0, <2>1, <2>2 DEF ListStands
  <2>5. \A c \in Calls : CallStands(c)'
    BY <2>0 DEF CallStands
  <2> QED
    BY <2>0, <2>1, <2>3, <2>4, <2>5
<1>10. ASSUME NEW c \in Calls, Vendors!CallTool(c) PROVE VendorInv'
  <2>0. UNCHANGED <<added, held, seen, refresh>>
    BY <1>10 DEF Vendors!CallTool, Vendors!Decide, Vendors!DecideRefuses, Vendors!RequireServer,
       Vendors!ReadAdvertised, Vendors!Judge, Vendors!ConnectionTokenFor, Vendors!CallVendor,
       Vendors!RecordOutcome, Vendors!RecordFailure, Vendors!adminVars
  <2> DEFINE Same == \A d \in Calls : d # c => call'[d] = call[d] /\ rows'[d] = rows[d]
             Shape == /\ call' = [d \in Calls |-> call'[d]] /\ rows' = [d \in Calls |-> rows'[d]]
                      /\ "step" \in DOMAIN call'[c] /\ "outcome" \in DOMAIN call'[c]
                      /\ callFaults' \in {callFaults, callFaults + 1}
  <2>1. Same /\ Shape /\ CallStands(c)'
    <3>1. ASSUME NEW event \in {"call_rejected", "call_succeeded", "call_failed"},
                 NEW then \in {"done"}, NEW otherwise \in {"done", "catch"},
                 Vendors!Record(c, event, then, otherwise)
          PROVE  /\ Same /\ Shape /\ call'[c].outcome = call[c].outcome
                 /\ \/ /\ rows'[c] = Append(rows[c], event) /\ call'[c].step = "done"
                       /\ callFaults' = callFaults
                    \/ /\ rows'[c] = rows[c] /\ call'[c].step = otherwise
                       /\ callFaults' = callFaults + 1
      BY <3>1 DEF Vendors!Record, Vendors!Step
    <3>2. ASSUME NEW ref, NEW b, Vendors!Decide(c, ref, b) PROVE Same /\ Shape /\ CallStands(c)'
      <4> DEFINE made == [Vendors!Unmade EXCEPT !.step = "server", !.ref = ref, !.bot = b]
      <4>1. call[c] = Vendors!Unmade /\ UNCHANGED <<rows, callFaults>>
        BY <3>2 DEF Vendors!Decide
      <4>2. rows[c] = <<>>
        BY <4>1, UnmadeFields DEF CallStands
      <4>3. call' = [call EXCEPT ![c] = made]
        BY <3>2 DEF Vendors!Decide
      <4>4. /\ made.step = "server" /\ made.outcome = "unasked"
            /\ "step" \in DOMAIN made /\ "outcome" \in DOMAIN made
        BY DEF Vendors!Unmade
      <4> HIDE DEF made
      <4>5. call'[c] = made /\ Same /\ Shape
        BY <4>1, <4>3, <4>4
      <4> QED
        BY <4>1, <4>2, <4>4, <4>5 DEF CallStands
    <3>3. ASSUME NEW ref, NEW b, Vendors!DecideRefuses(c, ref, b)
          PROVE  Same /\ Shape /\ CallStands(c)'
      <4>1. /\ call[c].step = "unmade" /\ call[c].outcome = "unasked"
            /\ Vendors!Record(c, "call_rejected", "done", "done")
        <5>1. call[c] = Vendors!Unmade /\ Vendors!Record(c, "call_rejected", "done", "done")
          BY <3>3 DEF Vendors!DecideRefuses
        <5> QED
          BY <5>1, UnmadeFields
      <4>2. rows[c] = <<>>
        BY <4>1 DEF CallStands
      <4> QED
        BY <3>1, <4>1, <4>2 DEF CallStands
    <3>4. CASE Vendors!RequireServer(c) \/ Vendors!ReadAdvertised(c)
      BY <3>4 DEF Vendors!RequireServer, Vendors!ReadAdvertised, Vendors!Step, CallStands
    <3>5. CASE Vendors!Judge(c)
      BY <3>1, <3>5 DEF Vendors!Judge, Vendors!Step, CallStands
    <3>6. CASE Vendors!ConnectionTokenFor(c)
      BY <3>6 DEF Vendors!ConnectionTokenFor, Vendors!Step, CallStands
    <3>7. CASE Vendors!CallVendor(c)
      <4> PICK outcome \in {"ok", "isError", "threw"} :
               call' = [call EXCEPT ![c].outcome = outcome,
                                    ![c].step = IF outcome = "threw" THEN "catch" ELSE "record"]
        BY <3>7 DEF Vendors!CallVendor
      <4>1. /\ call[c].step = "vendor" /\ rows[c] = <<>> /\ UNCHANGED <<rows, callFaults>>
        BY <3>7 DEF Vendors!CallVendor, CallStands
      <4>2. /\ Same /\ call' = [d \in Calls |-> call'[d]] /\ "step" \in DOMAIN call'[c] /\ "outcome" \in DOMAIN call'[c]
            /\ call'[c].outcome = outcome
            /\ call'[c].step = IF outcome = "threw" THEN "catch" ELSE "record"
        BY <4>1
      <4> QED
        BY <4>1, <4>2 DEF CallStands
    <3>8. CASE Vendors!RecordOutcome(c)
      BY <3>1, <3>8 DEF Vendors!RecordOutcome, CallStands
    <3>9. CASE Vendors!RecordFailure(c)
      BY <3>1, <3>9 DEF Vendors!RecordFailure, CallStands
    <3> QED
      BY <1>10, <3>2, <3>3, <3>4, <3>5, <3>6, <3>7, <3>8, <3>9 DEF Vendors!CallTool
  <2>2. \A d \in Calls : CallStands(d)'
    BY <2>1 DEF CallStands
  <2>3. \A s \in Vendors!Servers : ListStands(s)'
    BY <2>0, <2>1 DEF ListStands
  <2> QED
    BY <2>0, <2>1, <2>2, <2>3
<1> QED
  BY <1>1, <1>2, <1>3, <1>4, <1>5, <1>6, <1>7, <1>8, <1>9, <1>10
  DEF Vendors!Next, Vendors!Administer, Vendors!Refreshing, Vendors!AddServer,
      Vendors!AddCustomServer

\* The trail says what a call came to, callTool attempting first and recording second: one row at
\* most, a row of success only for a call the vendor carried out and a row of refusal only for one it
\* was not asked, and when no insert failed its row for each call the vendor was asked; and a vendor
\* that does not answer takes no tools away, refreshTools asking it before it deletes.
THEOREM CallsKeptAlways == Spec => []CallsKept
<1>1. Init => VendorInv
  <2> SUFFICES ASSUME Init PROVE VendorInv
    OBVIOUS
  <2>0. Vendors!Init
    BY DEF Init
  <2>1. VendorTypes /\ seen \subseteq Vendors!Servers
    BY <2>0 DEF Vendors!Init, VendorTypes, Vendors!Quiet, Vendors!Unmade
  <2>2. \A c \in Calls : CallStands(c)
    BY <2>0 DEF Vendors!Init, CallStands, Vendors!Unmade
  <2>3. \A s \in Vendors!Servers : ListStands(s)
    BY <2>0 DEF Vendors!Init, ListStands, Vendors!Quiet
  <2> QED
    BY <2>1, <2>2, <2>3 DEF VendorInv
<1>2. VendorInv => CallsKept
  <2> SUFFICES ASSUME VendorInv PROVE CallsKept
    OBVIOUS
  <2>1. Vendors!TrailTellsCall
    <3> SUFFICES ASSUME NEW c \in Calls
                 PROVE  /\ Len(rows[c]) <= 1
                        /\ rows[c] = <<"call_succeeded">> => call[c].outcome = "ok"
                        /\ rows[c] = <<"call_rejected">> => call[c].outcome = "unasked"
                        /\ call[c].step = "done" /\ call[c].outcome # "unasked" /\ callFaults = 0 =>
                             rows[c] = <<IF call[c].outcome = "ok" THEN "call_succeeded"
                                                                   ELSE "call_failed">>
      BY Zenon DEF Vendors!TrailTellsCall
    <3>1. CallStands(c)
      BY DEF VendorInv
    <3>4. Len(<<>>) = 0 /\ \A e : Len(<<e>>) = 1
      OBVIOUS
    <3>5. rows[c] = <<>> \/ \E e : rows[c] = <<e>>
      BY <3>1 DEF CallStands
    <3>2. Len(rows[c]) <= 1
      <4>1. CASE rows[c] = <<>>
        BY <3>4, <4>1
      <4>2. CASE rows[c] # <<>>
        <5> PICK e : rows[c] = <<e>>
          BY <3>5, <4>2
        <5> QED
          BY <3>4
      <4> QED
        BY <4>1, <4>2
    <3>3. /\ <<"call_rejected">> # <<"call_succeeded">> /\ <<"call_failed">> # <<"call_succeeded">>
          /\ <<"call_rejected">> # <<"call_failed">> /\ <<>> # <<"call_succeeded">>
          /\ <<>> # <<"call_rejected">>
      OBVIOUS
    <3> QED
      BY <3>1, <3>2, <3>3 DEF CallStands
  <2>2. Vendors!ToolsSurvive
    BY DEF VendorInv, ListStands, Vendors!ToolsSurvive, Vendors!Quiet
  <2> QED
    BY <2>1, <2>2 DEF CallsKept
<1> QED
  BY <1>1, <1>2, VendorInvStays, VendorSteps, PTL DEF Spec

-----------------------------------------------------------------------------
(***************************************************************************)
(* Runs, from the request that asks for one to the tools it calls.         *)
(***************************************************************************)

\* A step of the deployment is one of the runs, or leaves them as they were.
LEMMA TurnSteps == [Next]_vars => [Turn!Next]_turnVars
  BY DEF Next, vars, Work, Administration

RunFields(x) ==
    /\ "step" \in DOMAIN x /\ "by" \in DOMAIN x /\ "bot" \in DOMAIN x /\ "tools" \in DOMAIN x
    /\ "offered" \in DOMAIN x /\ "until" \in DOMAIN x /\ "stopped" \in DOMAIN x
    /\ "lately" \in DOMAIN x

\* Only a run that was sent has an assertion, and what it was granted and offered is what its Bot
\* held while it was asked for.
RunStands(x) ==
    /\ RunFields(x)
    /\ x.until # 0 => x.step \in {"going", "over"}
    /\ x.step = "build" =>
          x.bot \in RunBots /\ grant[x.bot] \subseteq x.lately /\ x.offered = {}
    /\ x.offered \subseteq x.tools /\ x.tools \subseteq x.lately

TurnTypes ==
    /\ minute \in Nat
    /\ grant = [b \in RunBots |-> grant[b]]
    /\ turn = [r \in Turns |-> turn[r]]
    /\ \A c \in did : c.run \in Turns

TurnInv == TurnTypes /\ (\A r \in Turns : RunStands(turn[r])) /\ Turn!CallIsOfItsRun

\* A run nobody asked for offers nothing.
LEMMA UnsentFields ==
  /\ RunFields(Turn!Unsent) /\ Turn!Unsent.step = "unsent" /\ Turn!Unsent.until = 0
  /\ Turn!Unsent.tools = {} /\ Turn!Unsent.offered = {}
  BY DEF Turn!Unsent, RunFields

\* Every step of a run, and of those who change its Bot meanwhile, keeps its own word.
LEMMA TurnInvStays == TurnInv /\ [Turn!Next]_turnVars => TurnInv'
<1> SUFFICES ASSUME TurnInv, [Turn!Next]_turnVars PROVE TurnInv'
  OBVIOUS
<1> USE DEF TurnInv, TurnTypes
<1>1. CASE UNCHANGED turnVars
  <2>1. UNCHANGED <<minute, grant, turn, did>>
    BY <1>1 DEF turnVars
  <2>2. \A r \in Turns : RunStands(turn[r])'
    BY <2>1 DEF RunStands
  <2> QED
    BY <2>1, <2>2 DEF Turn!CallIsOfItsRun
<1>2. CASE Turn!Pass
  <2>1. UNCHANGED <<grant, turn, did>> /\ minute' \in Nat
    BY <1>2 DEF Turn!Pass
  <2>2. \A r \in Turns : RunStands(turn[r])'
    BY <2>1 DEF RunStands
  <2> QED
    BY <2>1, <2>2 DEF Turn!CallIsOfItsRun
<1>3. ASSUME NEW b \in RunBots, NEW t \in Tools, Turn!SetGrant(b, t) PROVE TurnInv'
  <2>1. /\ UNCHANGED <<minute, did>> /\ grant' = [c \in RunBots |-> grant'[c]]
        /\ \A c \in RunBots : c # b => grant'[c] = grant[c]
    BY <1>3 DEF Turn!SetGrant
  <2>2. /\ turn' = [r \in Turns |-> turn'[r]]
        /\ \A r \in Turns :
              turn'[r] = IF turn[r].bot = b
                         THEN [turn[r] EXCEPT !.lately = @ \cup grant'[b]] ELSE turn[r]
    BY <1>3 DEF Turn!SetGrant
  <2>3. ASSUME NEW r \in Turns
        PROVE  /\ RunStands(turn[r])' /\ turn'[r].step = turn[r].step
               /\ turn'[r].until = turn[r].until /\ turn'[r].bot = turn[r].bot
    BY <2>1, <2>2 DEF RunStands, RunFields
  <2> QED
    BY <2>1, <2>2, <2>3 DEF Turn!CallIsOfItsRun
<1>4. ASSUME NEW b \in RunBots,
             Turn!MakePrivate(b) \/ Turn!SoftDelete(b) \/ Turn!IssueToken(b) \/ Turn!RevokeToken(b)
      PROVE  TurnInv'
  BY <1>4 DEF Turn!MakePrivate, Turn!SoftDelete, Turn!IssueToken, Turn!RevokeToken,
              Turn!CallIsOfItsRun, RunStands
<1>5. ASSUME NEW r \in Turns, UNCHANGED <<minute, grant, did>>,
             turn' = [q \in Turns |-> turn'[q]], \A q \in Turns : q # r => turn'[q] = turn[q],
             RunStands(turn[r])',
             turn[r].step \in {"going", "over"} =>
                turn'[r].step \in {"going", "over"} /\ turn'[r].until = turn[r].until
                /\ turn'[r].bot = turn[r].bot
      PROVE  TurnInv'
  <2>1. \A q \in Turns : RunStands(turn[q])'
    BY <1>5 DEF RunStands
  <2> QED
    BY <1>5, <2>1 DEF Turn!CallIsOfItsRun
<1>6. ASSUME NEW r \in Turns, NEW p \in Askers, NEW b \in RunBots, Turn!Ask(r, p, b) PROVE TurnInv'
  <2> DEFINE asked == [Turn!Unsent EXCEPT
                 !.step = IF <<p, b>> \in mayRun THEN "build" ELSE "over",
                 !.by = p, !.bot = b, !.lately = grant[b]]
  <2>1. /\ UNCHANGED <<minute, grant, did>> /\ turn' = [turn EXCEPT ![r] = asked]
        /\ turn[r] = Turn!Unsent
    BY <1>6 DEF Turn!Ask, Turn!Calmly
  <2>2. /\ RunFields(asked) /\ asked.until = 0 /\ asked.bot = b /\ asked.lately = grant[b]
        /\ asked.tools = {} /\ asked.offered = {} /\ asked.step \in {"build", "over"}
    BY DEF Turn!Unsent, RunFields
  <2>3. turn[r].step = "unsent"
    BY <2>1, UnsentFields
  <2> HIDE DEF asked
  <2>4. RunStands(turn[r])'
    BY <2>1, <2>2, SMTT(30) DEF RunStands
  <2> QED
    BY <1>5, <2>1, <2>3, <2>4
<1>7. ASSUME NEW r \in Turns, Turn!BuildAgent(r) PROVE TurnInv'
  <2>1. /\ UNCHANGED <<minute, grant, did>> /\ turn[r].step = "build"
        /\ turn' = [turn EXCEPT ![r].tools = grant[turn[r].bot], ![r].step = "select"]
    BY <1>7 DEF Turn!BuildAgent, Turn!Calmly
  <2> DEFINE granteds == grant[turn[r].bot]
  <2>2. /\ granteds \subseteq turn[r].lately
        /\ turn' = [turn EXCEPT ![r].tools = granteds, ![r].step = "select"]
    BY <2>1 DEF RunStands
  <2> HIDE DEF granteds
  <2>5. turn[r].offered = {} /\ turn[r].until = 0 /\ RunFields(turn[r])
    BY <2>1 DEF RunStands
  <2> DEFINE x == turn[r]
             y == [x EXCEPT !.tools = granteds, !.step = "select"]
  <2>6. turn' = [turn EXCEPT ![r] = y]
    BY <2>2
  <2>7. /\ y.tools = granteds /\ y.step = "select" /\ y.offered = x.offered
        /\ y.until = x.until /\ y.lately = x.lately
    BY <2>5 DEF RunFields
  <2>8. RunFields(y)
    BY <2>5 DEF RunFields
  <2> HIDE DEF y
  <2>4. /\ turn'[r].tools = granteds /\ turn'[r].step = "select" /\ RunFields(turn'[r])
        /\ turn'[r].offered = {} /\ turn'[r].until = 0
        /\ turn'[r].lately = turn[r].lately
    BY <2>5, <2>6, <2>7, <2>8
  <2>3. RunStands(turn[r])'
    BY <2>2, <2>4 DEF RunStands
  <2> QED
    BY <1>5, <2>1, <2>2, <2>3
<1>8. ASSUME NEW r \in Turns, Turn!Send(r) PROVE TurnInv'
  <2>1. PICK answer \in SUBSET Turn!Skills :
           turn' = [turn EXCEPT
                ![r].offered = Turn!SelectTools(turn[r].tools, Turn!Skills, Declares, answer, Floor),
                ![r].until = IF turn[r].bot \in Remote THEN minute + Ttl ELSE 0,
                ![r].step = "going"]
    BY <1>8 DEF Turn!Send
  <2>2. /\ UNCHANGED <<minute, grant, did>> /\ turn[r].step = "select"
    BY <1>8 DEF Turn!Send, Turn!Calmly
  <2> DEFINE offered == Turn!SelectTools(turn[r].tools, Turn!Skills, Declares, answer, Floor)
             until == IF turn[r].bot \in Remote THEN minute + Ttl ELSE 0
  <2>3. offered \subseteq turn[r].tools
    BY DEF Turn!SelectTools
  <2>4. turn' = [turn EXCEPT ![r].offered = offered, ![r].until = until, ![r].step = "going"]
    BY <2>1
  <2> HIDE DEF offered, until
  <2>5. RunStands(turn[r])'
    BY <2>2, <2>3, <2>4 DEF RunStands, RunFields
  <2> QED
    BY <1>5, <2>2, <2>4, <2>5
<1>9. ASSUME NEW r \in Turns, Turn!Stop(r) \/ Turn!Ends(r) PROVE TurnInv'
  <2>1. /\ UNCHANGED <<minute, grant, did>> /\ turn[r].step \in {"select", "going"}
        /\ \/ turn' = [turn EXCEPT ![r].step = "over"]
           \/ \E step \in {turn[r].step, "over"} :
                 turn' = [turn EXCEPT ![r].stopped = TRUE, ![r].step = step]
    BY <1>9 DEF Turn!Stop, Turn!Ends, Turn!Step, Turn!Calmly
  <2>2. RunStands(turn[r])'
    BY <2>1 DEF RunStands, RunFields
  <2> QED
    BY <1>5, <2>1, <2>2 DEF RunStands, RunFields
<1>10. ASSUME NEW r \in Turns, NEW t, NEW how, Turn!Executes(r, t, how),
              turn[r].step \in {"going", "over"},
              turn[r].bot \in Remote => minute < turn[r].until,
              how.token # "legacy" => how.bot = turn[r].bot
       PROVE  TurnInv'
  <2>1. /\ UNCHANGED <<minute, grant, turn>>
        /\ did' = did \cup {[run |-> r, tool |-> t, at |-> minute, how |-> how]}
    BY <1>10 DEF Turn!Executes
  <2> QED
    BY <1>10, <2>1 DEF Turn!CallIsOfItsRun, RunStands
<1>11. ASSUME NEW r \in Turns, Turn!CallHere(r) PROVE TurnInv'
  <2>1. PICK t \in turn[r].offered : Turn!Executes(r, t, [token |-> "none", bot |-> turn[r].bot])
    BY <1>11 DEF Turn!CallHere
  <2>2. turn[r].step = "going" /\ turn[r].bot \notin Remote
    BY <1>11 DEF Turn!CallHere
  <2> QED
    BY <1>10, <2>1, <2>2
<1>12. ASSUME NEW r \in Turns, Turn!CallBack(r) PROVE TurnInv'
  <2>1. PICK b \in Remote : \E k \in 0..callback[b].last, t \in Tools :
           /\ Turn!AuthoriseAgentCall(r, b, k)
           /\ Turn!Executes(r, t, [token |-> IF k = 0 THEN "legacy" ELSE "own", bot |-> b])
    BY <1>12 DEF Turn!CallBack, Turn!LegacyToken
  <2>2. PICK k \in 0..callback[b].last, t \in Tools :
           /\ Turn!AuthoriseAgentCall(r, b, k)
           /\ Turn!Executes(r, t, [token |-> IF k = 0 THEN "legacy" ELSE "own", bot |-> b])
    BY <2>1
  <2> DEFINE how == [token |-> IF k = 0 THEN "legacy" ELSE "own", bot |-> b]
  <2>3. turn[r].until > minute
    BY <2>2 DEF Turn!AuthoriseAgentCall, Turn!ReadRunAssertion
  <2>4. turn[r].step \in {"going", "over"}
    BY <2>3 DEF RunStands
  <2>5. how.token # "legacy" => how.bot = turn[r].bot
    BY <2>2 DEF Turn!AuthoriseAgentCall, Turn!LegacyToken
  <2>6. Turn!Executes(r, t, how)
    BY <2>2
  <2> HIDE DEF how
  <2>7. minute < turn[r].until
    BY <2>3
  <2> QED
    BY <1>10, <2>4, <2>5, <2>6, <2>7
<1> QED
  BY <1>1, <1>2, <1>3, <1>4, <1>6, <1>7, <1>8, <1>9, <1>11, <1>12 DEF Turn!Next

\* No run is offered a tool its Bot did not hold at some moment of the request that started it,
\* createRequestAgents reading the grant for each request and selectTools only taking away; and a
\* tool is called only for a run that was sent, within its assertion, with a token of the run's own
\* Bot or the deployment's, however many Bots the process of a remote one serves and whatever it
\* mixes up (authoriseAgentCall).
THEOREM RunsAreOwnAlways == Spec => [](Turn!OfferIsFresh /\ Turn!CallIsOfItsRun)
<1>1. Init => TurnInv
  <2> SUFFICES ASSUME Init PROVE TurnInv
    OBVIOUS
  <2>1. /\ minute = 0 /\ did = {} /\ grant = [b \in RunBots |-> Tools]
        /\ turn = [r \in Turns |-> Turn!Unsent]
    BY DEF Init, Turn!Init
  <2> QED
    BY <2>1, UnsentFields DEF TurnInv, TurnTypes, RunStands, Turn!CallIsOfItsRun
<1>2. TurnInv => Turn!OfferIsFresh /\ Turn!CallIsOfItsRun
  BY DEF TurnInv, RunStands, Turn!OfferIsFresh
<1> QED
  BY <1>1, <1>2, TurnInvStays, TurnSteps, PTL DEF Spec

-----------------------------------------------------------------------------
(***************************************************************************)
(* People.                                                                 *)
(***************************************************************************)

\* A step of the deployment is one of the people, or leaves them as they were.
LEMMA FolkSteps == [Next]_vars => [Folk!Next]_peopleVars
  BY DEF Next, vars, Work, Administration

Busy(a) == act[a].step \notin {"unsent", "done"}

ActFields(x) ==
    /\ "step" \in DOMAIN x /\ "of" \in DOMAIN x /\ "by" \in DOMAIN x /\ "to" \in DOMAIN x
    /\ "old" \in DOMAIN x /\ "set" \in DOMAIN x

FolkTypes ==
    /\ act = [a \in Folk!Acts |-> act[a]] /\ \A a \in Folk!Acts : ActFields(act[a])
    /\ role = [p \in Persons |-> role[p]] /\ told = [p \in Persons |-> told[p]]
    /\ owner = [s \in Folk!Secrets |-> owner[s]] /\ live \subseteq Folk!Secrets
    /\ session \subseteq account /\ account \subseteq Persons /\ faults \in Nat

OneAct == \A a, b \in Folk!Acts : Busy(a) /\ Busy(b) => a = b

\* What a request has read still holds: who signs in or connects is not removed, and who changes
\* another's role or access is an administrator, and not the one they change.
ActStands(a) ==
    /\ act[a].step \in {"seed", "check", "insert"} => act[a].of \in account
    /\ act[a].step \in {"insert", "consent", "create", "point", "tidy"} => act[a].of \notin denied
    /\ act[a].step \in {"owned", "retire"} => act[a].of \in denied
    /\ act[a].step \in {"find role", "set role", "find access", "deny"} =>
          act[a].by \in account /\ role[act[a].by] = "admin" /\ act[a].by \notin denied
    /\ act[a].step = "set role" /\ act[a].to # "admin" => act[a].of # act[a].by
    /\ act[a].step = "deny" => act[a].of # act[a].by

\* Somebody administers whom no account being made can take the role from.
AdminStands ==
    \E p \in account : /\ role[p] = "admin" /\ p \notin denied
                       /\ \A a \in Folk!Acts : act[a].step = "seed" => act[a].of # p

\* Who was removed has no session, and what the vault still holds of theirs is on its way out.
RemovedStands ==
    /\ session \cap denied = {}
    /\ \A p \in Persons : told[p] = "removed" => p \in denied
    /\ faults = 0 => \A s \in live : owner[s] \in denied =>
          \E a \in Folk!Acts :
             /\ act[a].of = owner[s]
             /\ act[a].step = "owned" \/ (act[a].step = "retire" /\ s \in act[a].set)

FolkInv ==
    FolkTypes /\ OneAct /\ (\A a \in Folk!Acts : ActStands(a)) /\ AdminStands /\ RemovedStands

ActShape(a) ==
    /\ act' = [b \in Folk!Acts |-> act'[b]] /\ ActFields(act'[a])
    /\ \A b \in Folk!Acts : b # a => act'[b] = act[b]

\* A request nobody sent has the shape of one.
LEMMA IdleFields == ActFields(Folk!Idle) /\ Folk!Idle.step = "unsent"
  BY DEF Folk!Idle, ActFields

\* A request that goes a step on, or is over, keeps whom it is about.
LEMMA ToShape ==
  ASSUME FolkTypes, NEW a \in Folk!Acts, NEW step, Folk!To(a, step)
  PROVE  /\ ActShape(a) /\ act'[a].step = step
         /\ step # "done" => /\ act'[a].of = act[a].of /\ act'[a].by = act[a].by
                             /\ act'[a].to = act[a].to /\ act'[a].set = act[a].set
<1>1. CASE step = "done"
  <2> DEFINE x == [Folk!Idle EXCEPT !.step = step]
  <2>1. ActFields(x) /\ x.step = step
    BY DEF Folk!Idle, ActFields
  <2>2. act' = [act EXCEPT ![a] = x]
    BY <1>1 DEF Folk!To
  <2> HIDE DEF x
  <2> QED
    BY <1>1, <2>1, <2>2 DEF FolkTypes, ActShape
<1>2. CASE step # "done"
  <2> DEFINE y == act[a]
             x == [y EXCEPT !.step = step]
  <2>1. /\ ActFields(x) /\ x.step = step /\ x.of = y.of /\ x.by = y.by /\ x.to = y.to
        /\ x.set = y.set
    BY DEF FolkTypes, ActFields
  <2>2. act' = [act EXCEPT ![a] = x]
    BY <1>2 DEF Folk!To
  <2> HIDE DEF x
  <2> QED
    BY <1>2, <2>1, <2>2 DEF FolkTypes, ActShape
<1> QED
  BY <1>1, <1>2

\* A request that begins is about whom it names.
LEMMA BeginShape ==
  ASSUME FolkTypes, NEW a \in Folk!Acts, NEW step, NEW p, NEW by, NEW to,
         Folk!Begin(a, step, p, by, to)
  PROVE  /\ ActShape(a) /\ act'[a].step = step /\ act'[a].of = p /\ act'[a].by = by
         /\ act'[a].to = to
<1> DEFINE x == [Folk!Idle EXCEPT !.step = step, !.of = p, !.by = by, !.to = to]
<1>1. ActFields(x) /\ x.step = step /\ x.of = p /\ x.by = by /\ x.to = to
  BY DEF Folk!Idle, ActFields
<1>2. act' = [act EXCEPT ![a] = x]
  BY DEF Folk!Begin
<1> HIDE DEF x
<1> QED
  BY <1>1, <1>2 DEF FolkTypes, ActShape

\* With no other request under way, only the one that moves has anything to keep.
LEMMA OthersRest ==
  ASSUME FolkInv, NEW a \in Folk!Acts, ActShape(a),
         \/ Busy(a)
         \/ Folk!AtRest
  PROVE  /\ OneAct'
         /\ \A b \in Folk!Acts : b # a => /\ act'[b].step \in {"unsent", "done"}
                                          /\ act[b].step \in {"unsent", "done"} /\ ActStands(b)'
<1>1. \A b \in Folk!Acts : b # a => ~Busy(b)
  BY DEF FolkInv, OneAct, Busy, Folk!AtRest
<1>2. \A b \in Folk!Acts : b # a => /\ act'[b].step \in {"unsent", "done"}
                                    /\ act[b].step \in {"unsent", "done"}
  BY <1>1 DEF ActShape, Busy
<1>3. \A b \in Folk!Acts : b # a => ActStands(b)'
  BY <1>2 DEF ActStands
<1>4. OneAct'
  BY <1>2 DEF OneAct, Busy
<1> QED
  BY <1>2, <1>3, <1>4

\* A step after which every administrator is one still keeps an administrator.
LEMMA AdminStays ==
  ASSUME AdminStands, NEW a \in Folk!Acts, ActShape(a), account \subseteq account',
         \A p \in account : /\ role[p] = "admin" /\ p \notin denied
                            /\ act[a].step = "seed" => p # act[a].of
                            => role'[p] = "admin" /\ p \notin denied',
         act'[a].step = "seed" => act'[a].of \notin account
  PROVE  AdminStands'
<1>1. PICK p \in account : /\ role[p] = "admin" /\ p \notin denied
                           /\ \A b \in Folk!Acts : act[b].step = "seed" => act[b].of # p
  BY DEF AdminStands
<1>2. role'[p] = "admin" /\ p \notin denied' /\ p \in account'
  BY <1>1
<1>3. ASSUME NEW b \in Folk!Acts, act'[b].step = "seed" PROVE act'[b].of # p
  <2>1. CASE b = a
    BY <1>3, <2>1
  <2>2. CASE b # a
    BY <1>1, <1>3, <2>2 DEF ActShape
  <2> QED
    BY <2>1, <2>2
<1>4. \E q \in account' : /\ role'[q] = "admin" /\ q \notin denied'
                          /\ \A b \in Folk!Acts : act'[b].step = "seed" => act'[b].of # q
  BY <1>2, <1>3
<1> QED
  BY <1>4 DEF AdminStands

\* A step that brings back nothing of a person keeps a removal complete.
LEMMA RemovedStays ==
  ASSUME RemovedStands, NEW a \in Folk!Acts, ActShape(a), act[a].step \notin {"owned", "retire"},
         UNCHANGED <<denied, live, owner>>, faults' = faults, session' \cap denied = {},
         \A p \in Persons : told'[p] = "removed" => told[p] = "removed" \/ p \in denied
  PROVE  RemovedStands'
<1>1. ASSUME faults = 0, NEW s \in live, owner[s] \in denied
      PROVE  \E b \in Folk!Acts :
                /\ act'[b].of = owner[s]
                /\ act'[b].step = "owned" \/ (act'[b].step = "retire" /\ s \in act'[b].set)
  <2>1. PICK b \in Folk!Acts :
           /\ act[b].of = owner[s]
           /\ act[b].step = "owned" \/ (act[b].step = "retire" /\ s \in act[b].set)
    BY <1>1 DEF RemovedStands
  <2>2. act'[b] = act[b]
    BY <2>1 DEF ActShape
  <2> QED
    BY <2>1, <2>2
<1>2. \A p \in Persons : told'[p] = "removed" => p \in denied
  BY DEF RemovedStands
<1> QED
  BY <1>1, <1>2 DEF RemovedStands

\* Every request on the people keeps an administrator and every removal complete.
LEMMA FolkInvStays == Patient /\ FolkInv /\ [Folk!Next]_peopleVars => FolkInv'
<1> SUFFICES ASSUME Patient, FolkInv, [Folk!Next]_peopleVars PROVE FolkInv'
  OBVIOUS
<1> USE DEF FolkInv
<1>1. CASE UNCHANGED peopleVars
  <2>1. FolkTypes' /\ OneAct' /\ \A a \in Folk!Acts : ActStands(a)'
    BY <1>1 DEF peopleVars, FolkTypes, OneAct, Busy, ActStands
  <2>2. AdminStands'
    BY <1>1 DEF peopleVars, AdminStands
  <2>3. RemovedStands'
    BY <1>1 DEF peopleVars, RemovedStands
  <2> QED
    BY <2>1, <2>2, <2>3
<1>2. ASSUME NEW a \in Folk!Acts, ActShape(a), Busy(a) \/ Folk!AtRest,
             FolkTypes', ActStands(a)', AdminStands', RemovedStands'
      PROVE  FolkInv'
  BY <1>2, OthersRest
\* A step that only moves the request on, or ends it.
<1>3. ASSUME NEW a \in Folk!Acts, NEW step, Folk!To(a, step), Busy(a),
             UNCHANGED <<account, role, denied, session, told, owner, live, pointer, faults>>,
             step \in {"done", "insert", "set role", "deny", "restore"},
             step = "insert" => act[a].step = "check" /\ act[a].of \notin denied,
             step = "set role" => act[a].step = "find role",
             step = "set role" /\ act[a].to # "admin" => act[a].of # act[a].by,
             step = "deny" => act[a].step = "find access" /\ act[a].of # act[a].by,
             act[a].step \notin {"owned", "retire"}
      PROVE  FolkInv'
  <2>1. /\ ActShape(a) /\ act'[a].step = step
        /\ step # "done" => /\ act'[a].of = act[a].of /\ act'[a].by = act[a].by
                            /\ act'[a].to = act[a].to
    BY <1>3, ToShape
  <2>2. FolkTypes'
    BY <1>3, <2>1 DEF FolkTypes, ActShape
  <2>3. ActStands(a)'
    BY <1>3, <2>1 DEF ActStands
  <2>4. AdminStands'
    BY <1>3, <2>1, AdminStays
  <2>5. RemovedStands'
    BY <1>3, <2>1, RemovedStays DEF RemovedStands
  <2> QED
    BY <1>2, <1>3, <2>1, <2>2, <2>3, <2>4, <2>5
\* A request that begins.
<1>4. ASSUME NEW a \in Folk!Acts, NEW step, NEW p, NEW by, NEW to,
             Folk!MayBegin(a), Folk!Begin(a, step, p, by, to),
             UNCHANGED <<role, denied, session, told, owner, live, pointer, faults>>,
             account \subseteq account', account' \subseteq Persons,
             step \in {"done", "seed", "check", "find role", "find access", "consent"},
             step \in {"seed", "check"} => p \in account', step = "seed" => p \notin account,
             step = "consent" => p \notin denied,
             step \in {"find role", "find access"} =>
                by \in account /\ role[by] = "admin" /\ by \notin denied
      PROVE  FolkInv'
  <2>0. act[a].step = "unsent" /\ Folk!AtRest
    BY <1>4 DEF Folk!MayBegin
  <2>1. ActShape(a) /\ act'[a].step = step /\ act'[a].of = p /\ act'[a].by = by
    BY <1>4, BeginShape
  <2>2. FolkTypes'
    BY <1>4, <2>1 DEF FolkTypes, ActShape
  <2>3. ActStands(a)'
    BY <1>4, <2>1 DEF ActStands
  <2>4. AdminStands'
    BY <1>4, <2>0, <2>1, AdminStays
  <2>5. RemovedStands'
    BY <1>4, <2>0, <2>1, RemovedStays DEF RemovedStands
  <2> QED
    BY <1>2, <2>0, <2>1, <2>2, <2>3, <2>4, <2>5
<1>5. ASSUME NEW a \in Folk!Acts, NEW p \in Persons, Folk!MeetNew(a, p) PROVE FolkInv'
  <2>1. /\ Folk!MayBegin(a) /\ p \notin account
        /\ UNCHANGED <<role, denied, session, told, owner, live, pointer, faults>>
    BY <1>5 DEF Folk!MeetNew, Folk!vaultVars
  <2>2. CASE Folk!Begin(a, "done", NoOne, NoOne, NoOne) /\ account' = account
    BY <1>4, <2>1, <2>2 DEF FolkTypes
  <2>3. CASE Folk!Begin(a, "seed", p, NoOne, NoOne) /\ account' = account \cup {p}
    BY <1>4, <2>1, <2>3 DEF FolkTypes
  <2> QED
    BY <1>5, <2>2, <2>3, Zenon DEF Folk!MeetNew
<1>6. ASSUME NEW a \in Folk!Acts, NEW p \in Persons, Folk!MeetKnown(a, p) PROVE FolkInv'
  <2>1. /\ Folk!MayBegin(a) /\ p \in account' /\ Folk!Begin(a, "check", p, NoOne, NoOne)
        /\ UNCHANGED <<account, role, denied, session, told, owner, live, pointer, faults>>
    BY <1>6 DEF Folk!MeetKnown, Folk!vaultVars, Folk!peopleVars
  <2> QED
    BY <1>4, <2>1 DEF FolkTypes
<1>7. ASSUME NEW a \in Folk!Acts, Folk!SeedRole(a) PROVE FolkInv'
  <2>0. /\ act[a].step = "seed" /\ Folk!To(a, "check") /\ Busy(a)
        /\ role' = [role EXCEPT ![act[a].of] = Folk!RoleForEmail(act[a].of)]
        /\ UNCHANGED <<account, denied, session, told, owner, live, faults>>
    BY <1>7 DEF Folk!SeedRole, Folk!vaultVars, Busy
  <2>1. ActShape(a) /\ act'[a].step = "check" /\ act'[a].of = act[a].of
    BY <2>0, ToShape
  <2>2. FolkTypes'
    BY <2>0, <2>1 DEF FolkTypes, ActShape
  <2>3. ActStands(a)'
    BY <2>0, <2>1 DEF ActStands
  <2>4. AdminStands'
    BY <2>0, <2>1, AdminStays DEF FolkTypes
  <2>5. RemovedStands'
    BY <2>0, <2>1, RemovedStays DEF RemovedStands
  <2> QED
    BY <1>2, <2>0, <2>1, <2>2, <2>3, <2>4, <2>5
<1>8. ASSUME NEW a \in Folk!Acts, Folk!Check(a) PROVE FolkInv'
  <2> DEFINE step == IF act[a].of \in denied THEN "done" ELSE "insert"
  <2>1. act[a].step = "check" /\ Folk!To(a, step) /\ Busy(a)
    BY <1>8 DEF Folk!Check, Busy
  <2>2. UNCHANGED <<account, role, denied, session, told, owner, live, pointer, faults>>
    BY <1>8 DEF Folk!Check, Folk!vaultVars, Folk!peopleVars
  <2>3. step \in {"done", "insert"} /\ (step = "insert" => act[a].of \notin denied)
    OBVIOUS
  <2> HIDE DEF step
  <2> QED
    BY <1>3, <2>1, <2>2, <2>3
<1>9. ASSUME NEW a \in Folk!Acts, Folk!InsertSession(a) PROVE FolkInv'
  <2>0. /\ act[a].step = "insert" /\ Folk!To(a, "floor") /\ Busy(a)
        /\ session' = session \cup {act[a].of}
        /\ UNCHANGED <<account, role, denied, told, owner, live, faults>>
    BY <1>9 DEF Folk!InsertSession, Folk!vaultVars, Busy
  <2>1. ActShape(a) /\ act'[a].step = "floor"
    BY <2>0, ToShape
  <2>2. FolkTypes'
    BY <2>0, <2>1 DEF FolkTypes, ActShape, ActStands
  <2>3. ActStands(a)'
    BY <2>1 DEF ActStands
  <2>4. AdminStands'
    BY <2>0, <2>1, AdminStays
  <2>6. session' \cap denied = {}
    BY <2>0, ZenonT(60) DEF RemovedStands, ActStands
  <2>5. RemovedStands'
    BY <2>0, <2>1, <2>6, RemovedStays DEF RemovedStands
  <2> QED
    BY <1>2, <2>0, <2>1, <2>2, <2>3, <2>4, <2>5

<1>10. ASSUME NEW a \in Folk!Acts, Folk!ApplyConfiguredAdmin(a) PROVE FolkInv'
  <2>0. /\ act[a].step = "floor" /\ Folk!To(a, "done") /\ Busy(a)
        /\ role' = role \/ role' = [role EXCEPT ![act[a].of] = "admin"]
        /\ UNCHANGED <<account, denied, session, told, owner, live, faults>>
    BY <1>10 DEF Folk!ApplyConfiguredAdmin, Folk!vaultVars, Busy
  <2>1. ActShape(a) /\ act'[a].step = "done"
    BY <2>0, ToShape
  <2>2. FolkTypes'
    BY <2>0, <2>1 DEF FolkTypes, ActShape
  <2>3. ActStands(a)'
    BY <2>1 DEF ActStands
  <2>4. AdminStands'
    BY <2>0, <2>1, AdminStays DEF FolkTypes
  <2>5. RemovedStands'
    BY <2>0, <2>1, RemovedStays DEF RemovedStands
  <2> QED
    BY <1>2, <2>0, <2>1, <2>2, <2>3, <2>4, <2>5
<1>11. ASSUME NEW a \in Folk!Acts, NEW by \in Persons, NEW p \in Persons, NEW to,
              Folk!AskRole(a, by, p, to) \/ Folk!AskAccess(a, by, p, to)
       PROVE  FolkInv'
  <2>1. PICK step \in {"find role", "find access"} : Folk!Begin(a, step, p, by, to)
    BY <1>11 DEF Folk!AskRole, Folk!AskAccess
  <2>2. /\ Folk!MayBegin(a) /\ by \in session /\ role[by] = "admin"
        /\ UNCHANGED <<account, role, denied, session, told, owner, live, pointer, faults>>
    BY <1>11 DEF Folk!AskRole, Folk!AskAccess, Folk!RequireAdmin, Folk!vaultVars, Folk!peopleVars
  <2>3. by \in account /\ by \notin denied
    BY <2>2 DEF FolkTypes, RemovedStands
  <2> QED
    BY <1>4, <2>1, <2>2, <2>3 DEF FolkTypes
<1>12. ASSUME NEW a \in Folk!Acts, Folk!FindForRole(a) PROVE FolkInv'
  <2> DEFINE step == IF \/ Folk!IsConfiguredAdmin(act[a].of) /\ act[a].to # "admin"
                        \/ act[a].by = act[a].of /\ act[a].to # "admin"
                        \/ role[act[a].of] = act[a].to
                     THEN "done" ELSE "set role"
  <2>1. act[a].step = "find role" /\ Folk!To(a, step) /\ Busy(a)
    BY <1>12 DEF Folk!FindForRole, Busy
  <2>2. UNCHANGED <<account, role, denied, session, told, owner, live, pointer, faults>>
    BY <1>12 DEF Folk!FindForRole, Folk!vaultVars, Folk!peopleVars
  <2>3. /\ step \in {"done", "set role"}
        /\ step = "set role" /\ act[a].to # "admin" => act[a].of # act[a].by
    OBVIOUS
  <2> HIDE DEF step
  <2> QED
    BY <1>3, <2>1, <2>2, <2>3
<1>13. ASSUME NEW a \in Folk!Acts, Folk!SetRole(a) PROVE FolkInv'
  <2>0. /\ act[a].step = "set role" /\ Folk!To(a, "done") /\ Busy(a)
        /\ role' = [role EXCEPT ![act[a].of] = act[a].to]
        /\ UNCHANGED <<account, denied, session, told, owner, live, faults>>
    BY <1>13 DEF Folk!SetRole, Folk!vaultVars, Busy
  <2>1. ActShape(a) /\ act'[a].step = "done"
    BY <2>0, ToShape
  <2>2. FolkTypes'
    BY <2>0, <2>1 DEF FolkTypes, ActShape
  <2>3. ActStands(a)'
    BY <2>1 DEF ActStands
  <2>4. \E p \in account : role'[p] = "admin" /\ p \notin denied
    <3>1. CASE act[a].to = "admin"
      BY <2>0, <3>1 DEF AdminStands, FolkTypes
    <3>2. CASE act[a].to # "admin"
      BY <2>0, <3>2 DEF ActStands, FolkTypes
    <3> QED
      BY <3>1, <3>2
  <2>5. \A b \in Folk!Acts : act'[b].step # "seed"
    BY <2>0, <2>1, OthersRest
  <2>6. AdminStands'
    BY <2>0, <2>4, <2>5 DEF AdminStands
  <2>7. RemovedStands'
    BY <2>0, <2>1, RemovedStays DEF RemovedStands
  <2> QED
    BY <1>2, <2>0, <2>1, <2>2, <2>3, <2>6, <2>7
<1>14. ASSUME NEW a \in Folk!Acts, Folk!FindForAccess(a) PROVE FolkInv'
  <2>0. /\ act[a].step = "find access" /\ Busy(a)
        /\ UNCHANGED <<account, role, denied, session, owner, live, pointer, faults>>
    BY <1>14 DEF Folk!FindForAccess, Folk!vaultVars, Busy
  <2>1. CASE Folk!To(a, "done") /\ told' = told
    BY <1>3, <2>0, <2>1
  <2>2. CASE /\ (act[a].of \in denied) = (act[a].to = "removed")
             /\ told' = [told EXCEPT ![act[a].of] = act[a].to] /\ Folk!To(a, "done")
    <3>1. ActShape(a) /\ act'[a].step = "done"
      BY <2>2, ToShape
    <3>2. FolkTypes'
      BY <2>0, <2>2, <3>1 DEF FolkTypes, ActShape
    <3>3. ActStands(a)'
      BY <3>1 DEF ActStands
    <3>4. AdminStands'
      BY <2>0, <3>1, AdminStays
    <3>5. RemovedStands'
      BY <2>0, <2>2, <3>1, RemovedStays DEF RemovedStands, FolkTypes
    <3> QED
      BY <1>2, <2>0, <3>1, <3>2, <3>3, <3>4, <3>5
  <2>3. CASE Folk!To(a, "restore") /\ told' = told
    BY <1>3, <2>0, <2>3
  <2>4. CASE Folk!To(a, "deny") /\ told' = told /\ act[a].of # act[a].by
    BY <1>3, <2>0, <2>4
  <2> QED
    BY <1>14, <2>1, <2>2, <2>3, <2>4 DEF Folk!FindForAccess
<1>15. ASSUME NEW a \in Folk!Acts, Folk!Deny(a) PROVE FolkInv'
  <2>0. /\ act[a].step = "deny" /\ Folk!To(a, "owned") /\ Busy(a)
        /\ denied' = denied \cup {act[a].of} /\ session' = session \ {act[a].of}
        /\ UNCHANGED <<account, role, told, owner, live, faults>>
    BY <1>15 DEF Folk!Deny, Folk!vaultVars, Busy
  <2>1. ActShape(a) /\ act'[a].step = "owned" /\ act'[a].of = act[a].of
    BY <2>0, ToShape
  <2>2. FolkTypes'
    BY <2>0, <2>1 DEF FolkTypes, ActShape
  <2>3. ActStands(a)'
    BY <2>0, <2>1 DEF ActStands
  <2>4. \A b \in Folk!Acts : act'[b].step # "seed"
    BY <2>0, <2>1, OthersRest
  <2>5. AdminStands'
    BY <2>0, <2>4 DEF AdminStands, ActStands
  <2>6. RemovedStands'
    BY <2>0, <2>1 DEF RemovedStands, ActShape
  <2> QED
    BY <1>2, <2>0, <2>1, <2>2, <2>3, <2>5, <2>6
<1>16. ASSUME NEW a \in Folk!Acts, Folk!ReadOwned(a) PROVE FolkInv'
  <2> DEFINE owned == {s \in live : owner[s] = act[a].of}
             y == act[a]
             x == [y EXCEPT !.step = "retire", !.set = owned]
  <2>0. /\ y.step = "owned" /\ act' = [act EXCEPT ![a] = x] /\ Busy(a)
        /\ UNCHANGED <<account, role, denied, session, told, owner, live, faults>>
    BY <1>16 DEF Folk!ReadOwned, Folk!vaultVars, Folk!peopleVars, Busy
  <2>1. \A s \in live : owner[s] = y.of <=> s \in owned
    OBVIOUS
  <2> HIDE DEF owned
  <2>2. ActFields(x) /\ x.step = "retire" /\ x.of = y.of /\ x.set = owned
    BY DEF FolkTypes, ActFields
  <2> HIDE DEF x
  <2>3. ActShape(a) /\ act'[a] = x
    BY <2>0, <2>2 DEF ActShape, FolkTypes
  <2>4. FolkTypes'
    BY <2>0, <2>3 DEF FolkTypes, ActShape
  <2>10. ActStands(a)
    OBVIOUS
  <2>11. y.of \in denied
    BY <2>0, <2>10 DEF ActStands
  <2>9. act'[a].step = "retire" /\ act'[a].of \in denied'
    BY <2>0, <2>2, <2>3, <2>11
  <2>5. ActStands(a)'
    BY <2>9 DEF ActStands
  <2>6. AdminStands'
    BY <2>0, <2>2, <2>3, AdminStays
  <2>7. ASSUME faults = 0, NEW s \in live, owner[s] \in denied
        PROVE  /\ act'[a].of = owner[s]
               /\ act'[a].step = "retire" /\ s \in act'[a].set
    <3>1. PICK b \in Folk!Acts :
             /\ act[b].of = owner[s]
             /\ act[b].step = "owned" \/ (act[b].step = "retire" /\ s \in act[b].set)
      BY <2>7 DEF RemovedStands
    <3>2. b = a
      BY <2>0, <3>1 DEF OneAct, Busy
    <3> QED
      BY <2>1, <2>2, <2>3, <3>1, <3>2
  <2>8. RemovedStands'
    BY <2>0, <2>7 DEF RemovedStands
  <2> QED
    BY <1>2, <2>0, <2>3, <2>4, <2>5, <2>6, <2>8
<1>17. ASSUME NEW a \in Folk!Acts, Folk!RetireOne(a) PROVE FolkInv'
  <2>1. PICK s \in act[a].set : live' = live \ {s} /\ act' = [act EXCEPT ![a].set = @ \ {s}]
    BY <1>17 DEF Folk!RetireOne
  <2> DEFINE rest == act[a].set \ {s}
             y == act[a]
             x == [y EXCEPT !.set = rest]
  <2>0. /\ y.step = "retire" /\ act' = [act EXCEPT ![a] = x] /\ Busy(a)
        /\ UNCHANGED <<account, role, denied, session, told, owner, faults>>
    BY <1>17, <2>1 DEF Folk!RetireOne, Folk!peopleVars, Busy
  <2>2. \A q \in y.set : q # s => q \in rest
    OBVIOUS
  <2> HIDE DEF rest
  <2>3. ActFields(x) /\ x.step = y.step /\ x.of = y.of /\ x.set = rest
    BY DEF FolkTypes, ActFields
  <2> HIDE DEF x
  <2>4. ActShape(a) /\ act'[a] = x
    BY <2>0, <2>3 DEF ActShape, FolkTypes
  <2>5. FolkTypes'
    BY <2>0, <2>1, <2>4 DEF FolkTypes, ActShape
  <2>11. ActStands(a)
    OBVIOUS
  <2>12. y.of \in denied
    BY <2>0, <2>11 DEF ActStands
  <2>10. act'[a].step = "retire" /\ act'[a].of \in denied'
    BY <2>0, <2>3, <2>4, <2>12
  <2>6. ActStands(a)'
    BY <2>10 DEF ActStands
  <2>7. AdminStands'
    BY <2>0, <2>3, <2>4, AdminStays
  <2>8. ASSUME faults = 0, NEW q \in live, q # s, owner[q] \in denied
        PROVE  /\ act'[a].of = owner[q]
               /\ act'[a].step = "retire" /\ q \in act'[a].set
    <3>1. PICK b \in Folk!Acts :
             /\ act[b].of = owner[q]
             /\ act[b].step = "owned" \/ (act[b].step = "retire" /\ q \in act[b].set)
      BY <2>8 DEF RemovedStands
    <3>2. b = a
      BY <2>0, <3>1 DEF OneAct, Busy
    <3> QED
      BY <2>0, <2>2, <2>3, <2>4, <2>8, <3>1, <3>2
  <2>9. RemovedStands'
    BY <2>0, <2>1, <2>8 DEF RemovedStands
  <2> QED
    BY <1>2, <2>0, <2>4, <2>5, <2>6, <2>7, <2>9
<1>18. ASSUME NEW a \in Folk!Acts, Folk!RetireFails(a) PROVE FolkInv'
  <2>0. /\ act[a].step = "retire" /\ Folk!To(a, "done") /\ Busy(a) /\ faults' = faults + 1
        /\ UNCHANGED <<account, role, denied, session, told, owner, live>>
    BY <1>18 DEF Folk!RetireFails, Folk!peopleVars, Busy
  <2>1. ActShape(a) /\ act'[a].step = "done"
    BY <2>0, ToShape
  <2>2. FolkTypes'
    BY <2>0, <2>1 DEF FolkTypes, ActShape
  <2>3. ActStands(a)'
    BY <2>1 DEF ActStands
  <2>4. AdminStands'
    BY <2>0, <2>1, AdminStays
  <2>5. faults' # 0
    BY <2>0 DEF FolkTypes
  <2>6. RemovedStands'
    BY <2>0, <2>5 DEF RemovedStands
  <2> QED
    BY <1>2, <2>0, <2>1, <2>2, <2>3, <2>4, <2>6
<1>19. ASSUME NEW a \in Folk!Acts, Folk!Retired(a) PROVE FolkInv'
  <2>0. /\ act[a].step = "retire" /\ act[a].set = {} /\ Folk!To(a, "done") /\ Busy(a)
        /\ told' = [told EXCEPT ![act[a].of] = "removed"]
        /\ UNCHANGED <<account, role, denied, session, owner, live, faults>>
    BY <1>19 DEF Folk!Retired, Busy
  <2>1. ActShape(a) /\ act'[a].step = "done"
    BY <2>0, ToShape
  <2>2. FolkTypes'
    BY <2>0, <2>1 DEF FolkTypes, ActShape
  <2>3. ActStands(a)'
    BY <2>1 DEF ActStands
  <2>4. AdminStands'
    BY <2>0, <2>1, AdminStays
  <2>5. \A p \in Persons : told'[p] = "removed" => p \in denied
    BY <2>0 DEF FolkTypes, RemovedStands, ActStands
  <2>6. ASSUME faults = 0, NEW s \in live, owner[s] \in denied PROVE FALSE
    <3>1. PICK b \in Folk!Acts :
             /\ act[b].of = owner[s]
             /\ act[b].step = "owned" \/ (act[b].step = "retire" /\ s \in act[b].set)
      BY <2>6 DEF RemovedStands
    <3>2. b = a
      BY <2>0, <3>1 DEF OneAct, Busy
    <3> QED
      BY <2>0, <3>1, <3>2
  <2>7. RemovedStands'
    BY <2>0, <2>5, <2>6 DEF RemovedStands
  <2> QED
    BY <1>2, <2>0, <2>1, <2>2, <2>3, <2>4, <2>7
<1>20. ASSUME NEW a \in Folk!Acts, Folk!Restore(a) PROVE FolkInv'
  <2>0. /\ act[a].step = "restore" /\ Folk!To(a, "done") /\ Busy(a)
        /\ denied' = denied \ {act[a].of} /\ told' = [told EXCEPT ![act[a].of] = "here"]
        /\ UNCHANGED <<account, role, session, owner, live, faults>>
    BY <1>20 DEF Folk!Restore, Folk!vaultVars, Busy
  <2>1. ActShape(a) /\ act'[a].step = "done"
    BY <2>0, ToShape
  <2>2. FolkTypes'
    BY <2>0, <2>1 DEF FolkTypes, ActShape
  <2>3. ActStands(a)'
    BY <2>1 DEF ActStands
  <2>4. AdminStands'
    BY <2>0, <2>1, AdminStays
  <2>5. \A p \in Persons : told'[p] = "removed" => p \in denied'
    BY <2>0 DEF FolkTypes, RemovedStands
  <2>6. ASSUME faults = 0, NEW s \in live, owner[s] \in denied' PROVE FALSE
    <3>1. PICK b \in Folk!Acts :
             /\ act[b].of = owner[s]
             /\ act[b].step = "owned" \/ (act[b].step = "retire" /\ s \in act[b].set)
      BY <2>0, <2>6 DEF RemovedStands
    <3>2. b = a
      BY <2>0, <3>1 DEF OneAct, Busy
    <3> QED
      BY <2>0, <3>1, <3>2
  <2>7. RemovedStands'
    BY <2>0, <2>5, <2>6 DEF RemovedStands
  <2> QED
    BY <1>2, <2>0, <2>1, <2>2, <2>3, <2>4, <2>7
\* The steps of a connection, of somebody who is not removed.
<1>21. ASSUME NEW a \in Folk!Acts, ActShape(a), act[a].step \in {"consent", "create", "point", "tidy"},
              act'[a].step \in {"create", "point", "tidy", "done"},
              act'[a].step # "done" => act'[a].of = act[a].of,
              UNCHANGED <<account, role, denied, session, told>>, FolkTypes',
              faults' = 0 => faults = 0,
              \A s \in live' : (s \in live /\ owner'[s] = owner[s]) \/ owner'[s] \notin denied
       PROVE  FolkInv'
  <2>0. Busy(a)
    BY <1>21 DEF Busy
  <2>1. act[a].of \notin denied
    BY <1>21 DEF ActStands
  <2>2. ActStands(a)'
    BY <1>21, <2>1 DEF ActStands
  <2>3. AdminStands'
    BY <1>21, AdminStays
  <2>4. ASSUME faults' = 0, NEW s \in live', owner'[s] \in denied PROVE FALSE
    <3>1. PICK b \in Folk!Acts :
             /\ act[b].of = owner[s]
             /\ act[b].step = "owned" \/ (act[b].step = "retire" /\ s \in act[b].set)
      BY <1>21, <2>4 DEF RemovedStands
    <3>2. b = a
      BY <2>0, <3>1 DEF OneAct, Busy
    <3> QED
      BY <1>21, <3>1, <3>2
  <2>5. RemovedStands'
    BY <1>21, <2>4 DEF RemovedStands
  <2> QED
    BY <1>2, <1>21, <2>0, <2>2, <2>3, <2>5
<1>22. ASSUME NEW a \in Folk!Acts, NEW p \in Persons, Folk!Connect(a, p) PROVE FolkInv'
  <2>1. /\ Folk!MayBegin(a) /\ p \in session /\ Folk!Begin(a, "consent", p, p, NoOne)
        /\ UNCHANGED <<account, role, denied, session, told, owner, live, pointer, faults>>
    BY <1>22 DEF Folk!Connect, Folk!RequireUser, Folk!vaultVars, Folk!peopleVars
  <2>2. p \notin denied
    BY <2>1 DEF RemovedStands
  <2> QED
    BY <1>4, <2>1, <2>2 DEF FolkTypes
<1>23. ASSUME NEW a \in Folk!Acts, Folk!ConsentFails(a) PROVE FolkInv'
  <2>1. /\ act[a].step = "consent" /\ Folk!To(a, "done") /\ Busy(a)
        /\ UNCHANGED <<account, role, denied, session, told, owner, live, pointer, faults>>
    BY <1>23 DEF Folk!ConsentFails, Folk!vaultVars, Folk!peopleVars, Busy
  <2> QED
    BY <1>3, <2>1
<1>24. ASSUME NEW a \in Folk!Acts, Folk!Callback(a) PROVE FolkInv'
  <2> DEFINE y == act[a]
             old == pointer[y.of]
             x == [y EXCEPT !.step = "create", !.old = old]
  <2>0. /\ y.step = "consent" /\ act' = [act EXCEPT ![a] = x]
        /\ UNCHANGED <<account, role, denied, session, told, owner, live, faults>>
    BY <1>24 DEF Folk!Callback, Folk!vaultVars, Folk!peopleVars
  <2> HIDE DEF old
  <2>1. ActFields(x) /\ x.step = "create" /\ x.of = y.of
    BY DEF FolkTypes, ActFields
  <2> HIDE DEF x
  <2>2. ActShape(a) /\ act'[a] = x
    BY <2>0, <2>1 DEF ActShape, FolkTypes
  <2>3. FolkTypes'
    BY <2>0, <2>2 DEF FolkTypes, ActShape
  <2> QED
    BY <1>21, <2>0, <2>1, <2>2, <2>3
<1>25. ASSUME NEW a \in Folk!Acts, Folk!CreateCredential(a) PROVE FolkInv'
  <2>1. PICK s \in Folk!Secrets :
           /\ owner' = [owner EXCEPT ![s] = act[a].of] /\ live' = live \cup {s}
           /\ act' = [act EXCEPT ![a].step = "point", ![a].set = {s}]
    BY <1>25 DEF Folk!CreateCredential
  <2> DEFINE y == act[a]
             set == {s}
             x == [y EXCEPT !.step = "point", !.set = set]
  <2>0. /\ y.step = "create" /\ act' = [act EXCEPT ![a] = x]
        /\ UNCHANGED <<account, role, denied, session, told, faults>>
    <3>1. [y EXCEPT !.step = "point", !.set = set] = [act[a] EXCEPT !.step = "point", !.set = {s}]
      OBVIOUS
    <3>2. act' = [act EXCEPT ![a] = x]
      BY <2>1, <3>1
    <3> HIDE DEF x
    <3> QED
      BY <1>25, <3>2 DEF Folk!CreateCredential, Folk!peopleVars
  <2> HIDE DEF set
  <2>2. ActFields(x) /\ x.step = "point" /\ x.of = y.of
    BY DEF FolkTypes, ActFields
  <2> HIDE DEF x
  <2>3. ActShape(a) /\ act'[a] = x
    BY <2>0, <2>2 DEF ActShape, FolkTypes
  <2>4. FolkTypes'
    BY <2>0, <2>1, <2>3 DEF FolkTypes, ActShape
  <2>5. y.of \notin denied
    BY <2>0 DEF ActStands
  <2>6. \A q \in live' : (q \in live /\ owner'[q] = owner[q]) \/ owner'[q] \notin denied
    BY <2>1, <2>5 DEF FolkTypes
  <2> QED
    BY <1>21, <2>0, <2>2, <2>3, <2>4, <2>6
<1>26. ASSUME NEW a \in Folk!Acts, Folk!PointTo(a) PROVE FolkInv'
  <2>0. /\ act[a].step = "point" /\ Folk!To(a, "tidy")
        /\ UNCHANGED <<account, role, denied, session, told, owner, live, faults>>
    BY <1>26 DEF Folk!PointTo, Folk!peopleVars
  <2>1. ActShape(a) /\ act'[a].step = "tidy" /\ act'[a].of = act[a].of
    BY <2>0, ToShape
  <2>2. FolkTypes'
    BY <2>0, <2>1 DEF FolkTypes, ActShape
  <2> QED
    BY <1>21, <2>0, <2>1, <2>2
<1>27. ASSUME NEW a \in Folk!Acts, Folk!RevokePrevious(a) PROVE FolkInv'
  <2>0. /\ act[a].step = "tidy" /\ Folk!To(a, "done") /\ live' \subseteq live
        /\ faults' \in {faults, faults + 1}
        /\ UNCHANGED <<account, role, denied, session, told, owner>>
    BY <1>27 DEF Folk!RevokePrevious, Folk!peopleVars
  <2>1. ActShape(a) /\ act'[a].step = "done"
    BY <2>0, ToShape
  <2>2. FolkTypes' /\ (faults' = 0 => faults = 0)
    BY <2>0, <2>1 DEF FolkTypes, ActShape
  <2> QED
    BY <1>21, <2>0, <2>1, <2>2
<1>28. ASSUME NEW a \in Folk!Acts, Folk!SignIn(a) PROVE FolkInv'
  BY <1>5, <1>6, <1>7, <1>8, <1>9, <1>10, <1>28 DEF Folk!SignIn
<1>29. ASSUME NEW a \in Folk!Acts, Folk!Administer(a) PROVE FolkInv'
  BY <1>11, <1>12, <1>13, <1>14, <1>15, <1>16, <1>17, <1>18, <1>19, <1>20, <1>29
  DEF Folk!Administer
<1>30. ASSUME NEW a \in Folk!Acts, Folk!Tie(a) PROVE FolkInv'
  BY <1>22, <1>23, <1>24, <1>25, <1>26, <1>27, <1>30 DEF Folk!Tie
<1> QED
  BY <1>1, <1>28, <1>29, <1>30 DEF Folk!Next

\* A removal an administrator was told of holds, revoke ending the sessions before the vault is gone
\* through and session.create.before reading the deny list; and somebody who is not removed can
\* administer, nobody changing their own role or access.  One request at a time: two administrators
\* at once may remove each other.
THEOREM PeopleKeptAlways == Patient => (Spec => []PeopleKept)
<1>1. Init => FolkInv
  <2> SUFFICES ASSUME Init PROVE FolkInv
    OBVIOUS
  <2>0. Folk!Init
    BY DEF Init
  <2>1. /\ FolkTypes /\ \A a \in Folk!Acts : act[a].step = "unsent"
    BY <2>0, IdleFields, FoundersAssumption DEF Folk!Init, FolkTypes
  <2>2. OneAct /\ \A a \in Folk!Acts : ActStands(a)
    BY <2>1 DEF OneAct, Busy, ActStands
  <2>3. AdminStands
    BY <2>0, <2>1, FoundersAssumption DEF Folk!Init, AdminStands
  <2>4. RemovedStands
    BY <2>0 DEF Folk!Init, RemovedStands
  <2> QED
    BY <2>1, <2>2, <2>3, <2>4 DEF FolkInv
<1>2. FolkInv => PeopleKept
  <2> SUFFICES ASSUME FolkInv PROVE PeopleKept
    OBVIOUS
  <2>1. Folk!AnAdminRemains
    BY DEF FolkInv, AdminStands, Folk!AnAdminRemains
  <2>2. ASSUME Folk!AtRest, NEW p \in Persons, told[p] = "removed"
        PROVE  p \notin session /\ (faults = 0 => \A s \in live : owner[s] # p)
    BY <2>2 DEF FolkInv, RemovedStands, Folk!AtRest
  <2> QED
    BY <2>1, <2>2 DEF PeopleKept, Folk!RemovalHolds
<1> SUFFICES ASSUME Patient PROVE Spec => []PeopleKept
  OBVIOUS
<1>3. FolkInv /\ [Next]_vars => FolkInv'
  BY FolkInvStays, FolkSteps
<1> QED
  BY <1>1, <1>2, <1>3, PTL DEF Spec

-----------------------------------------------------------------------------
(***************************************************************************)
(* Threads.                                                                *)
(***************************************************************************)

\* A step of the deployment is one of the thread runner, or leaves it as it was.
LEMMA RunnerSteps == [Next]_vars => [Runner!Next]_runnerVars
  BY DEF Next, vars, Work, Administration

Under(r) == stage[r] \in {"running", "persisting", "closing"}
Settled == {"closing", "done", "lost"}     \* a run that says nothing more
Places == 1..Len(happened)

ThreadFields(t) ==
    /\ "runs" \in DOMAIN t /\ "hydrated" \in DOMAIN t /\ "isRunning" \in DOMAIN t
    /\ "currentRunId" \in DOMAIN t /\ "stopRequested" \in DOMAIN t /\ "subject" \in DOMAIN t
    /\ t.runs \in Seq(Runs)

RunnerTypes ==
    /\ ThreadFields(thread) /\ happened \in Seq(Runs)
    /\ stage = [r \in Runs |-> stage[r]] /\ owns = [r \in Runs |-> owns[r]]
    /\ spoken = [r \in Runs |-> spoken[r]]
    /\ viewer = [v \in Viewers |-> viewer[v]] /\ shown = [v \in Viewers |-> shown[v]]
    /\ due = [v \in Viewers |-> due[v]]
    /\ \A v \in Viewers : "at" \in DOMAIN viewer[v] /\ "live" \in DOMAIN viewer[v]

\* A turn under way is the one the thread is taken for, so long as none supersedes it.
TurnStands(r) ==
    Under(r) => /\ thread.hydrated = "yes"
                /\ ~Supersede => /\ thread.currentRunId = r
                                 /\ thread.isRunning = TRUE \/ thread.stopRequested = TRUE
                                 /\ stage[r] # "running" => owns[r] = TRUE

SubjectStands == thread.subject # "none" => thread.subject \in Runs /\ Under(thread.subject)

\* A run of the thread that has no row.
Lost == \E i \in Places : \A a \in stored : a.run # happened[i]

RowsStand ==
    /\ \A i \in Places : stage[happened[i]] \in Settled
    /\ \A i, j \in Places : happened[i] = happened[j] => i = j
    /\ \A a \in stored : \E i \in Places : happened[i] = a.run
    /\ \A i \in 1..Len(thread.runs) : \E j \in Places : thread.runs[i] = happened[j]
    /\ IsFiniteSet(stored)

\* Until a row is lost, the rows, the copy and the history are as long as one another.
RowsAreAll ==
    Lost \/ /\ Cardinality(stored) = Len(happened)
            /\ \A a \in stored : a.sequence \in Nat /\ a.sequence + 1 \in Places
                                 /\ happened[a.sequence + 1] = a.run
            /\ thread.hydrated = "yes" => Len(thread.runs) = Len(happened)

Served(v) == viewer[v].at \in {"watching", "closed"}

\* What a connection was told of at the start is over, or it is watching it.
ViewStands(v) ==
    Served(v) => \A r \in due[v] :
        /\ r \in Runs
        /\ stage[r] \in Settled \/ (viewer[v].at = "watching" /\ viewer[v].live = r /\ Under(r))
        /\ shown[v][<<r, "text">>] = IF "text" \in spoken[r] THEN 1 ELSE 0
        /\ <<r, "text">> \in DOMAIN shown[v]

RunnerInv ==
    /\ RunnerTypes /\ SubjectStands /\ RowsStand /\ RowsAreAll
    /\ \A r \in Runs : TurnStands(r)
    /\ \A v \in Viewers : ViewStands(v)

\* A thread that is let go keeps its runs.
LEMMA LetGoFields ==
  ASSUME NEW t, NEW r, ThreadFields(t)
  PROVE  LET u == Runner!LetGo(t, r)
         IN  /\ ThreadFields(u) /\ u.runs = t.runs /\ u.hydrated = t.hydrated
             /\ u.subject = IF t.subject = r THEN "none" ELSE t.subject
<1> DEFINE let == [t EXCEPT !.currentRunId = "none", !.stopRequested = FALSE, !.isRunning = FALSE]
           free == IF owns[r] THEN let ELSE t
           subject == IF t.subject = r THEN "none" ELSE t.subject
           u == [free EXCEPT !.subject = subject]
<1>1. ThreadFields(let) /\ let.runs = t.runs /\ let.hydrated = t.hydrated /\ let.subject = t.subject
  BY DEF ThreadFields
<1> HIDE DEF let
<1>2. ThreadFields(free) /\ free.runs = t.runs /\ free.hydrated = t.hydrated /\ free.subject = t.subject
  BY <1>1
<1>3. Runner!LetGo(t, r) = u
  BY <1>2 DEF Runner!LetGo, Runner!None, let
<1> HIDE DEF free
<1>4. /\ ThreadFields(u) /\ u.runs = free.runs /\ u.hydrated = free.hydrated /\ u.subject = subject
  BY <1>2 DEF ThreadFields
<1> QED
  BY <1>2, <1>3, <1>4

\* A step of one run that leaves the rows, the copy and what was said alone.
LEMMA StageMoves ==
  ASSUME RunnerInv, NEW r \in Runs, NEW to, stage' = [stage EXCEPT ![r] = to],
         stage[r] \in Settled => to \in Settled,
         Under(r) /\ to \notin Settled => to \in {"running", "persisting", "closing"},
         thread'.runs = thread.runs, thread.hydrated = "yes" => thread'.hydrated = "yes",
         thread'.hydrated = "yes" => thread.hydrated = "yes",
         UNCHANGED <<stored, happened>>
  PROVE  /\ RowsStand' /\ RowsAreAll' /\ stage' = [q \in Runs |-> stage'[q]]
         /\ stage'[r] = to /\ \A q \in Runs : q # r => stage'[q] = stage[q]
<1>1. /\ stage' = [q \in Runs |-> stage'[q]]
      /\ stage'[r] = to /\ \A q \in Runs : q # r => stage'[q] = stage[q]
  BY DEF RunnerInv, RunnerTypes
<1>2. \A i \in Places : happened[i] \in Runs
  BY DEF RunnerInv, RunnerTypes, Places
<1>3. \A i \in Places : stage'[happened[i]] \in Settled
  BY <1>1, <1>2 DEF RunnerInv, RowsStand
<1>4. RowsStand'
  BY <1>3 DEF RunnerInv, RowsStand, Places
<1>5. RowsAreAll'
  BY DEF RunnerInv, RowsAreAll, Lost, Places
<1> QED
  BY <1>1, <1>4, <1>5

\* What a connection was sent stays right while nothing is said, and the runs it waits for go on.
LEMMA ViewStays ==
  ASSUME NEW v \in Viewers, ViewStands(v),
         \A q \in Runs : stage[q] \in Settled => stage'[q] \in Settled,
         UNCHANGED <<due, shown>>,
         \A q \in Runs : "text" \in spoken'[q] <=> "text" \in spoken[q],
         Served(v)' => Served(v),
         \A q \in Runs : viewer[v].at = "watching" /\ viewer[v].live = q /\ Under(q) =>
            stage'[q] \in Settled
              \/ (viewer'[v].at = "watching" /\ viewer'[v].live = q /\ Under(q)')
  PROVE  ViewStands(v)'
  BY DEF ViewStands

\* What is said of a live run reaches the connections that watch it, and no other.
LEMMA BroadcastKeeps ==
  ASSUME RunnerInv, NEW r \in Runs, NEW e, stage[r] = "running",
         e = "text" => "text" \notin spoken[r], Runner!Broadcast(r, e)
  PROVE  /\ spoken' = [q \in Runs |-> spoken'[q]] /\ shown' = [v \in Viewers |-> shown'[v]]
         /\ \A v \in Viewers : Served(v) => \A q \in due[v] :
               /\ shown'[v][<<q, "text">>] = IF "text" \in spoken'[q] THEN 1 ELSE 0
               /\ <<q, "text">> \in DOMAIN shown'[v]
<1>1. /\ spoken' = [q \in Runs |-> spoken'[q]] /\ spoken'[r] = spoken[r] \cup {e}
      /\ \A q \in Runs : q # r => spoken'[q] = spoken[q]
  BY DEF Runner!Broadcast, RunnerInv, RunnerTypes
<1>2. /\ shown' = [v \in Viewers |-> shown'[v]]
      /\ \A v \in Viewers : shown'[v] = IF Runner!Sent(v, r, e)
                                        THEN [shown[v] EXCEPT ![<<r, e>>] = @ + 1] ELSE shown[v]
  BY DEF Runner!Broadcast
<1>3. ASSUME NEW v \in Viewers, Served(v), NEW q \in due[v]
      PROVE  /\ shown'[v][<<q, "text">>] = IF "text" \in spoken'[q] THEN 1 ELSE 0
             /\ <<q, "text">> \in DOMAIN shown'[v]
  <2>1. /\ q \in Runs /\ <<q, "text">> \in DOMAIN shown[v]
        /\ stage[q] \in Settled \/ (viewer[v].at = "watching" /\ viewer[v].live = q)
        /\ shown[v][<<q, "text">>] = IF "text" \in spoken[q] THEN 1 ELSE 0
    BY <1>3 DEF RunnerInv, ViewStands
  <2>2. DOMAIN shown'[v] = DOMAIN shown[v]
    BY <1>2
  <2>3. CASE q # r \/ e # "text"
    <3>1. shown'[v][<<q, "text">>] = shown[v][<<q, "text">>]
      <4>1. <<q, "text">> # <<r, e>>
        BY <2>3
      <4> QED
        BY <1>2, <2>1, <4>1
    <3>2. "text" \in spoken'[q] <=> "text" \in spoken[q]
      BY <1>1, <2>1, <2>3
    <3> QED
      BY <2>1, <2>2, <3>1, <3>2
  <2>4. CASE q = r /\ e = "text"
    <3>1. viewer[v].at = "watching" /\ viewer[v].live = r
      BY <2>1, <2>4 DEF Settled
    <3>2. shown[v][<<r, e>>] = 0
      BY <2>1, <2>4
    <3>3. Runner!Sent(v, r, e)
      BY <3>1, <3>2 DEF Runner!Sent
    <3>4. shown'[v] = [shown[v] EXCEPT ![<<r, e>>] = 1]
      BY <1>2, <3>2, <3>3
    <3>5. shown'[v][<<q, "text">>] = 1
      BY <2>1, <2>4, <3>4
    <3>6. "text" \in spoken'[q]
      BY <1>1, <2>4
    <3> QED
      BY <2>1, <2>2, <3>5, <3>6
  <2> QED
    BY <2>3, <2>4
<1> QED
  BY <1>1, <1>2, <1>3

\* Every step of the runner keeps a thread, its runs and their rows in step.
LEMMA RunnerInvStays == RunnerInv /\ [Runner!Next]_runnerVars => RunnerInv'
<1> SUFFICES ASSUME RunnerInv, [Runner!Next]_runnerVars PROVE RunnerInv'
  OBVIOUS
<1>0. RunnerTypes /\ ThreadFields(thread)
  BY DEF RunnerInv, RunnerTypes
<1>1. CASE UNCHANGED runnerVars
  <2>1. UNCHANGED <<stored, thread, stage, spoken, owns, viewer, shown, due, happened>>
    BY <1>1 DEF runnerVars
  <2>2. RunnerTypes' /\ SubjectStands' /\ RowsStand' /\ RowsAreAll'
    BY <2>1 DEF RunnerInv, RunnerTypes, SubjectStands, RowsStand, RowsAreAll, Lost, Places, Under
  <2>3. (\A r \in Runs : TurnStands(r)') /\ (\A v \in Viewers : ViewStands(v)')
    BY <2>1 DEF RunnerInv, TurnStands, ViewStands, Served, Under
  <2> QED
    BY <2>2, <2>3 DEF RunnerInv
\* A step that changes at most the thread's hydration, from one of its runs or connections.
<1>2. ASSUME thread'.hydrated = "yes" <=> thread.hydrated = "yes", ThreadFields(thread'),
             thread'.runs = thread.runs, thread'.subject = thread.subject,
             thread'.currentRunId = thread.currentRunId,
             thread'.isRunning = thread.isRunning, thread'.stopRequested = thread.stopRequested,
             UNCHANGED <<stored, spoken, owns, shown, due, happened>>,
             \/ /\ UNCHANGED viewer
                /\ \E r \in Runs, to \in {"hydrating", "refused"} :
                      stage[r] \in {"unasked", "hydrating"} /\ stage' = [stage EXCEPT ![r] = to]
             \/ UNCHANGED stage /\ \E v \in Viewers, at \in {"hydrating", "away"} :
                                       viewer' = [viewer EXCEPT ![v].at = at]
      PROVE  RunnerInv'
  <2>1. \A q \in Runs : /\ Under(q)' <=> Under(q)
                        /\ stage'[q] \in Settled <=> stage[q] \in Settled
                        /\ Under(q) => stage'[q] = stage[q]
    <3>1. CASE UNCHANGED stage
      BY <3>1 DEF Under
    <3>2. ASSUME NEW r \in Runs, NEW to \in {"hydrating", "refused"},
                 stage[r] \in {"unasked", "hydrating"}, stage' = [stage EXCEPT ![r] = to]
          PROVE  \A q \in Runs : /\ Under(q)' <=> Under(q)
                                 /\ stage'[q] \in Settled <=> stage[q] \in Settled
                                 /\ Under(q) => stage'[q] = stage[q]
      <4>1. stage'[r] = to /\ \A q \in Runs : q # r => stage'[q] = stage[q]
        BY <1>0, <3>2 DEF RunnerTypes
      <4>2. ~Under(r) /\ ~Under(r)' /\ stage[r] \notin Settled /\ stage'[r] \notin Settled
        BY <3>2, <4>1 DEF Under, Settled
      <4> QED
        BY <4>1, <4>2 DEF Under
    <3> QED
      BY <1>2, <3>1, <3>2
  <2>2. stage' = [q \in Runs |-> stage'[q]] /\ viewer' = [v \in Viewers |-> viewer'[v]]
    BY <1>0, <1>2 DEF RunnerTypes
  <2>3. \A v \in Viewers : /\ "at" \in DOMAIN viewer'[v] /\ "live" \in DOMAIN viewer'[v]
                           /\ Served(v)' => viewer'[v] = viewer[v]
    BY <1>0, <1>2 DEF RunnerTypes, Served
  <2>4. RunnerTypes'
    BY <1>0, <1>2, <2>2, <2>3 DEF RunnerTypes
  <2>5. SubjectStands'
    BY <1>2, <2>1 DEF RunnerInv, SubjectStands
  <2>6. \A i \in Places : happened[i] \in Runs
    BY <1>0 DEF RunnerTypes, Places
  <2>7. RowsStand'
    <3>1. \A i \in Places : stage'[happened[i]] \in Settled
      BY <2>1, <2>6 DEF RunnerInv, RowsStand
    <3>2. Places' = Places
      BY <1>2 DEF Places
    <3> QED
      BY <1>2, <3>1, <3>2 DEF RunnerInv, RowsStand
  <2>8. RowsAreAll'
    BY <1>2 DEF RunnerInv, RowsAreAll, Lost, Places
  <2>9. \A r \in Runs : TurnStands(r)'
    <3> SUFFICES ASSUME NEW r \in Runs, Under(r)' PROVE TurnStands(r)'
      BY DEF TurnStands
    <3>1. TurnStands(r) /\ Under(r) /\ stage'[r] = stage[r]
      BY <2>1 DEF RunnerInv
    <3> QED
      BY <1>2, <3>1 DEF TurnStands
  <2>10. \A v \in Viewers : ViewStands(v)'
    <3> SUFFICES ASSUME NEW v \in Viewers, Served(v)' PROVE ViewStands(v)'
      BY DEF ViewStands
    <3>1. ViewStands(v) /\ viewer'[v] = viewer[v] /\ Served(v)
      BY <2>3 DEF RunnerInv, Served
    <3> QED
      BY <1>2, <2>1, <3>1 DEF ViewStands
  <2> QED
    BY <2>4, <2>5, <2>7, <2>8, <2>9, <2>10 DEF RunnerInv
<1>3. ASSUME NEW r \in Runs, Runner!Run(r) PROVE RunnerInv'
  <2> DEFINE loading == IF thread.hydrated = "no" THEN "loading" ELSE thread.hydrated
             t == [thread EXCEPT !.hydrated = loading]
  <2>1. thread' = t
    BY <1>3 DEF Runner!Run, Runner!Hydrating
  <2>2. loading = "yes" <=> thread.hydrated = "yes"
    OBVIOUS
  <2> HIDE DEF loading
  <2>3. /\ ThreadFields(t) /\ t.hydrated = loading /\ t.runs = thread.runs
        /\ t.subject = thread.subject /\ t.currentRunId = thread.currentRunId
        /\ t.isRunning = thread.isRunning /\ t.stopRequested = thread.stopRequested
    BY <1>0 DEF ThreadFields
  <2>4. /\ UNCHANGED <<stored, spoken, owns, viewer, shown, due, happened>>
        /\ stage[r] = "unasked" /\ stage' = [stage EXCEPT ![r] = "hydrating"]
    BY <1>3 DEF Runner!Run
  <2> QED
    BY <1>2, <2>1, <2>2, <2>3, <2>4
<1>4. ASSUME NEW v \in Viewers, Runner!Connect(v) PROVE RunnerInv'
  <2> DEFINE loading == IF thread.hydrated = "no" THEN "loading" ELSE thread.hydrated
             t == [thread EXCEPT !.hydrated = loading]
  <2>1. thread' = t
    BY <1>4 DEF Runner!Connect, Runner!Hydrating
  <2>2. loading = "yes" <=> thread.hydrated = "yes"
    OBVIOUS
  <2> HIDE DEF loading
  <2>3. /\ ThreadFields(t) /\ t.hydrated = loading /\ t.runs = thread.runs
        /\ t.subject = thread.subject /\ t.currentRunId = thread.currentRunId
        /\ t.isRunning = thread.isRunning /\ t.stopRequested = thread.stopRequested
    BY <1>0 DEF ThreadFields
  <2>4. /\ UNCHANGED <<stored, stage, spoken, owns, shown, due, happened>>
        /\ viewer' = [viewer EXCEPT ![v].at = "hydrating"]
    BY <1>4 DEF Runner!Connect
  <2> QED
    BY <1>2, <2>1, <2>2, <2>3, <2>4
<1>5. ASSUME NEW r \in Runs, Runner!Refuse(r) PROVE RunnerInv'
  BY <1>0, <1>2, <1>5 DEF Runner!Refuse
<1>6. ASSUME NEW v \in Viewers, Runner!ConnectFails(v) PROVE RunnerInv'
  BY <1>0, <1>2, <1>6 DEF Runner!ConnectFails
<1>7. ASSUME NEW r \in Runs, Runner!StartRun(r) PROVE RunnerInv'
  <2> DEFINE t == [thread EXCEPT !.isRunning = TRUE, !.currentRunId = r,
                                 !.stopRequested = FALSE, !.subject = r]
  <2>1. /\ stage[r] = "hydrating" /\ thread.hydrated = "yes" /\ thread' = t
        /\ Supersede \/ ~(thread.isRunning = TRUE \/ thread.stopRequested = TRUE)
        /\ stage' = [stage EXCEPT ![r] = "running"]
        /\ UNCHANGED <<stored, spoken, owns, viewer, shown, due, happened>>
    BY <1>7 DEF Runner!StartRun
  <2>2. /\ ThreadFields(t) /\ t.hydrated = thread.hydrated /\ t.runs = thread.runs
        /\ t.subject = r /\ t.currentRunId = r /\ t.isRunning = TRUE
    BY <1>0 DEF ThreadFields
  <2> HIDE DEF t
  <2>3. /\ RowsStand' /\ RowsAreAll' /\ stage' = [q \in Runs |-> stage'[q]]
        /\ stage'[r] = "running" /\ \A q \in Runs : q # r => stage'[q] = stage[q]
    BY <2>1, <2>2, StageMoves DEF Under, Settled
  <2>4. RunnerTypes'
    BY <1>0, <2>1, <2>2, <2>3 DEF RunnerTypes
  <2>5. SubjectStands'
    BY <2>1, <2>2, <2>3 DEF SubjectStands, Under
  <2>6. ASSUME NEW q \in Runs PROVE TurnStands(q)'
    <3>1. CASE q = r
      BY <2>1, <2>2, <2>3, <3>1 DEF TurnStands
    <3>2. CASE q # r
      <4>1. TurnStands(q) /\ stage'[q] = stage[q]
        BY <2>3, <3>2 DEF RunnerInv
      <4> QED
        BY <2>1, <2>2, <4>1 DEF TurnStands, Under
    <3> QED
      BY <3>1, <3>2
  <2>7. ASSUME NEW v \in Viewers PROVE ViewStands(v)'
    <3>1. \A q \in Runs : /\ stage[q] \in Settled => stage'[q] \in Settled
                          /\ Under(q) => Under(q)'
      BY <2>1, <2>3 DEF Under, Settled
    <3> QED
      BY <2>1, <3>1, ViewStays DEF RunnerInv, Served
  <2> QED
    BY <2>3, <2>4, <2>5, <2>6, <2>7 DEF RunnerInv
<1>8. ASSUME NEW r \in Runs, NEW e \in Runner!Events, Runner!Emit(r, e) PROVE RunnerInv'
  <2>1. /\ stage[r] = "running" /\ e \notin spoken[r] /\ Runner!Broadcast(r, e)
        /\ UNCHANGED <<stored, thread, stage, owns, viewer, due, happened>>
    BY <1>8 DEF Runner!Emit
  <2>2. /\ spoken' = [q \in Runs |-> spoken'[q]] /\ shown' = [v \in Viewers |-> shown'[v]]
        /\ \A v \in Viewers : Served(v) => \A q \in due[v] :
              /\ shown'[v][<<q, "text">>] = IF "text" \in spoken'[q] THEN 1 ELSE 0
              /\ <<q, "text">> \in DOMAIN shown'[v]
    BY <2>1, BroadcastKeeps
  <2>3. RunnerTypes'
    BY <1>0, <2>1, <2>2 DEF RunnerTypes
  <2>4. SubjectStands' /\ RowsStand' /\ RowsAreAll' /\ \A q \in Runs : TurnStands(q)'
    BY <2>1 DEF RunnerInv, SubjectStands, RowsStand, RowsAreAll, Lost, Places, TurnStands, Under
  <2>5. \A v \in Viewers : ViewStands(v)'
    BY <2>1, <2>2, ZenonT(60) DEF RunnerInv, ViewStands, Served, Under
  <2> QED
    BY <2>3, <2>4, <2>5 DEF RunnerInv
<1>9. ASSUME NEW r \in Runs, Runner!Finalize(r) PROVE RunnerInv'
  <2>1. /\ stage[r] = "running" /\ Runner!Broadcast(r, "end")
        /\ owns' = [owns EXCEPT ![r] = (thread.currentRunId = r)]
        /\ UNCHANGED <<stored, thread, viewer, due, happened>>
    BY <1>9 DEF Runner!Finalize
  <2>2. PICK to \in {"persisting", "closing"} : stage' = [stage EXCEPT ![r] = to]
    BY <1>9 DEF Runner!Finalize
  <2>3. /\ RowsStand' /\ RowsAreAll' /\ stage' = [q \in Runs |-> stage'[q]]
        /\ stage'[r] = to /\ \A q \in Runs : q # r => stage'[q] = stage[q]
    BY <2>1, <2>2, StageMoves DEF Under, Settled
  <2>4. /\ spoken' = [q \in Runs |-> spoken'[q]] /\ shown' = [v \in Viewers |-> shown'[v]]
        /\ \A v \in Viewers : Served(v) => \A q \in due[v] :
              /\ shown'[v][<<q, "text">>] = IF "text" \in spoken'[q] THEN 1 ELSE 0
              /\ <<q, "text">> \in DOMAIN shown'[v]
    BY <2>1, BroadcastKeeps
  <2>5. RunnerTypes'
    BY <1>0, <2>1, <2>3, <2>4 DEF RunnerTypes
  <2>6. \A q \in Runs : /\ stage[q] \in Settled => stage'[q] \in Settled
                        /\ Under(q) <=> Under(q)'
    BY <2>1, <2>2, <2>3 DEF Under, Settled
  <2>7. SubjectStands'
    BY <2>1, <2>6 DEF RunnerInv, SubjectStands
  <2>8. ASSUME NEW q \in Runs PROVE TurnStands(q)'
    <3>1. TurnStands(q)
      BY DEF RunnerInv
    <3>2. CASE q = r
      <4>1. Under(r)
        BY <2>1 DEF Under
      <4>2. thread.currentRunId = r => owns'[r] = TRUE
        BY <1>0, <2>1 DEF RunnerTypes
      <4> QED
        BY <2>1, <3>1, <3>2, <4>1, <4>2 DEF TurnStands
    <3>3. CASE q # r
      <4>1. owns'[q] = owns[q]
        BY <1>0, <2>1, <3>3 DEF RunnerTypes
      <4> QED
        BY <2>1, <2>3, <2>6, <3>1, <3>3, <4>1 DEF TurnStands
    <3> QED
      BY <3>2, <3>3
  <2>9. \A v \in Viewers : ViewStands(v)'
    <3> SUFFICES ASSUME NEW v \in Viewers, Served(v), NEW q \in due[v]
                 PROVE  /\ q \in Runs
                        /\ \/ stage'[q] \in Settled
                           \/ viewer[v].at = "watching" /\ viewer[v].live = q /\ Under(q)'
      BY <2>1, <2>4 DEF ViewStands, Served
    <3> QED
      BY <2>6 DEF RunnerInv, ViewStands
  <2> QED
    BY <2>3, <2>5, <2>7, <2>8, <2>9 DEF RunnerInv
\* The end of a run: its connections are done, and the thread is let go.
<1>13. ASSUME NEW r \in Runs, Under(r), ~Under(r)', stage'[r] \in Settled,
              stage' = [q \in Runs |-> stage'[q]],
              \A q \in Runs : q # r => /\ stage'[q] = stage[q]
                                       /\ Under(q)' <=> Under(q),
              ThreadFields(thread'), thread'.hydrated = thread.hydrated,
              thread'.subject = (IF thread.subject = r THEN "none" ELSE thread.subject),
              Runner!Complete(r), happened' \in Seq(Runs),
              UNCHANGED <<spoken, owns, shown, due>>, RowsStand', RowsAreAll'
       PROVE  RunnerInv'
  <2>1. /\ viewer' = [v \in Viewers |-> viewer'[v]]
        /\ \A v \in Viewers : viewer'[v] = IF viewer[v].at = "watching" /\ viewer[v].live = r
                                           THEN [viewer[v] EXCEPT !.at = "closed"] ELSE viewer[v]
    BY <1>13 DEF Runner!Complete
  <2>2. \A v \in Viewers : /\ "at" \in DOMAIN viewer'[v] /\ "live" \in DOMAIN viewer'[v]
                           /\ Served(v)' => Served(v)
                           /\ viewer[v].at = "watching" /\ viewer[v].live # r =>
                                 viewer'[v] = viewer[v]
    BY <1>0, <2>1 DEF RunnerTypes, Served
  <2>3. RunnerTypes'
    BY <1>0, <1>13, <2>1, <2>2 DEF RunnerTypes
  <2>4. SubjectStands'
    BY <1>13 DEF RunnerInv, SubjectStands
  <2>5. ASSUME NEW q \in Runs PROVE TurnStands(q)'
    <3> SUFFICES ASSUME Under(q)' PROVE TurnStands(q)'
      BY DEF TurnStands
    <3>1. q # r /\ Under(q) /\ TurnStands(q) /\ TurnStands(r)
      BY <1>13 DEF RunnerInv
    <3>2. Supersede /\ thread.hydrated = "yes"
      BY <1>13, <3>1 DEF TurnStands
    <3> QED
      BY <1>13, <3>2 DEF TurnStands
  <2>6. ASSUME NEW v \in Viewers PROVE ViewStands(v)'
    <3>1. \A q \in Runs : stage[q] \in Settled => stage'[q] \in Settled
      BY <1>13
    <3>2. \A q \in Runs : viewer[v].at = "watching" /\ viewer[v].live = q /\ Under(q) =>
             stage'[q] \in Settled
               \/ (viewer'[v].at = "watching" /\ viewer'[v].live = q /\ Under(q)')
      BY <1>13, <2>2
    <3>3. ViewStands(v)
      BY DEF RunnerInv
    <3> QED
      BY <1>13, <2>2, <3>1, <3>2, <3>3, ViewStays
  <2> QED
    BY <1>13, <2>3, <2>4, <2>5, <2>6 DEF RunnerInv
\* A turn is added to the thread and its row is lost.
<1>14. ASSUME NEW r \in Runs, Under(r), stage[r] \notin Settled, stage'[r] \in Settled,
              \A q \in Runs : q # r => stage'[q] = stage[q],
              happened' = Append(happened, r), stored' = stored,
              Len(thread'.runs) = Len(thread.runs) + 1, thread'.runs[Len(thread.runs) + 1] = r,
              \A i \in 1..Len(thread.runs) : thread'.runs[i] = thread.runs[i]
       PROVE  RowsStand' /\ RowsAreAll'
  <2> DEFINE n == Len(happened)
             m == Len(thread.runs)
  <2>1. /\ n \in Nat /\ Places = 1..n /\ Places' = 1..(n + 1) /\ happened'[n + 1] = r
        /\ \A i \in 1..n : happened'[i] = happened[i] /\ happened[i] \in Runs
    BY <1>0, <1>14 DEF RunnerTypes, Places
  <2>2. /\ m \in Nat /\ Len(thread'.runs) = m + 1 /\ thread'.runs[m + 1] = r
        /\ \A i \in 1..m : thread'.runs[i] = thread.runs[i]
    BY <1>0, <1>14 DEF ThreadFields
  <2> HIDE DEF n, m
  <2>3. \A i \in 1..n : happened[i] # r /\ stage[happened[i]] \in Settled
    BY <1>14, <2>1 DEF RunnerInv, RowsStand
  <2>4. \A i \in 1..(n + 1) : i \in 1..n \/ i = n + 1
    BY <2>1
  <2>5. \A i \in 1..(n + 1) : stage'[happened'[i]] \in Settled
    BY <1>14, <2>1, <2>3, <2>4
  <2>6. \A i, j \in 1..(n + 1) : happened'[i] = happened'[j] => i = j
    BY <2>1, <2>3, <2>4 DEF RunnerInv, RowsStand
  <2>7. \A a \in stored : \E i \in 1..n : happened'[i] = a.run
    BY <2>1 DEF RunnerInv, RowsStand
  <2>8. \A i \in 1..n : i \in 1..(n + 1)
    BY <2>1
  <2>9. \A i \in 1..(m + 1) : \E j \in 1..(n + 1) : thread'.runs[i] = happened'[j]
    <3>1. \A i \in 1..m : \E j \in 1..n : thread.runs[i] = happened[j]
      BY <2>1 DEF RunnerInv, RowsStand, m
    <3>2. \A i \in 1..(m + 1) : i \in 1..m \/ i = m + 1
      BY <2>2
    <3>3. n + 1 \in 1..(n + 1)
      BY <2>1
    <3> QED
      BY <2>1, <2>2, <2>8, <3>1, <3>2, <3>3
  <2>10. RowsStand'
    BY <1>14, <2>1, <2>2, <2>5, <2>6, <2>7, <2>8, <2>9, ZenonT(60) DEF RunnerInv, RowsStand
  <2>11. \A a \in stored : a.run # r
    BY <2>3, <2>1 DEF RunnerInv, RowsStand
  <2>12. n + 1 \in 1..(n + 1)
    BY <2>1
  <2>13. Lost'
    BY <1>14, <2>1, <2>11, <2>12 DEF Lost
  <2> QED
    BY <2>10, <2>13 DEF RowsAreAll
\* The end of a run, once it is written down or was never the thread's.
<1>10. ASSUME NEW r \in Runs, Runner!Close(r) PROVE RunnerInv'
  <2>1. /\ stage[r] = "closing" /\ stage' = [stage EXCEPT ![r] = "done"]
        /\ thread' = Runner!LetGo(thread, r) /\ Runner!Complete(r)
        /\ UNCHANGED <<stored, spoken, owns, shown, due, happened>>
    BY <1>10 DEF Runner!Close
  <2>2. /\ ThreadFields(thread') /\ thread'.runs = thread.runs
        /\ thread'.hydrated = thread.hydrated
        /\ thread'.subject = IF thread.subject = r THEN "none" ELSE thread.subject
    BY <1>0, <2>1, LetGoFields
  <2>3. /\ RowsStand' /\ RowsAreAll' /\ stage' = [q \in Runs |-> stage'[q]]
        /\ stage'[r] = "done" /\ \A q \in Runs : q # r => stage'[q] = stage[q]
    BY <2>1, <2>2, StageMoves DEF Under, Settled
  <2>4. /\ stage'[r] \in Settled /\ ~Under(r)' /\ Under(r)
        /\ \A q \in Runs : q # r => /\ stage'[q] = stage[q]
                                    /\ Under(q)' <=> Under(q)
    BY <2>1, <2>3 DEF Settled, Under
  <2>5. happened' \in Seq(Runs)
    BY <1>0, <2>1 DEF RunnerTypes
  <2> QED
    BY <1>13, <2>1, <2>2, <2>3, <2>4, <2>5
<1>11. ASSUME NEW r \in Runs, Runner!PersistFails(r) PROVE RunnerInv'
  <2> DEFINE longer == Append(thread.runs, r)
             t == [thread EXCEPT !.runs = longer]
  <2>1. /\ stage[r] = "persisting" /\ stage' = [stage EXCEPT ![r] = "done"]
        /\ thread' = Runner!LetGo(t, r) /\ Runner!Complete(r) /\ happened' = Append(happened, r)
        /\ UNCHANGED <<stored, spoken, owns, shown, due>>
    BY <1>11 DEF Runner!PersistFails
  <2>2. /\ longer \in Seq(Runs) /\ Len(longer) = Len(thread.runs) + 1
        /\ longer[Len(thread.runs) + 1] = r
        /\ \A i \in 1..Len(thread.runs) : longer[i] = thread.runs[i]
    BY <1>0 DEF ThreadFields
  <2> HIDE DEF longer
  <2>3. /\ ThreadFields(t) /\ t.runs = longer /\ t.hydrated = thread.hydrated
        /\ t.subject = thread.subject
    BY <1>0, <2>2 DEF ThreadFields
  <2> HIDE DEF t
  <2>4. /\ ThreadFields(thread') /\ thread'.runs = longer /\ thread'.hydrated = thread.hydrated
        /\ thread'.subject = IF thread.subject = r THEN "none" ELSE thread.subject
    BY <2>1, <2>3, LetGoFields
  <2>5. /\ stage' = [q \in Runs |-> stage'[q]]
        /\ stage'[r] \in Settled /\ ~Under(r)' /\ Under(r) /\ stage[r] \notin Settled
        /\ \A q \in Runs : q # r => /\ stage'[q] = stage[q]
                                    /\ Under(q)' <=> Under(q)
    BY <1>0, <2>1 DEF RunnerTypes, Settled, Under
  <2>6. RowsStand' /\ RowsAreAll'
    BY <1>14, <2>1, <2>2, <2>4, <2>5
  <2>7. happened' \in Seq(Runs)
    BY <1>0, <2>1 DEF RunnerTypes
  <2> QED
    BY <1>13, <2>1, <2>4, <2>5, <2>6, <2>7
<1>12. ASSUME NEW r \in Runs, Runner!Persist(r) PROVE RunnerInv'
  <2> DEFINE longer == Append(thread.runs, r)
             t == [thread EXCEPT !.runs = longer]
             row == [run |-> r, sequence |-> Len(thread.runs)]
             n == Len(happened)
             m == Len(thread.runs)
  <2>1. /\ stage[r] = "persisting" /\ stage' = [stage EXCEPT ![r] = "closing"]
        /\ thread' = t /\ happened' = Append(happened, r)
        /\ UNCHANGED <<spoken, owns, viewer, shown, due>>
        /\ stored' = IF \E a \in stored : a.run = r THEN stored ELSE stored \cup {row}
    BY <1>12 DEF Runner!Persist
  <2>2. /\ longer \in Seq(Runs) /\ Len(longer) = m + 1 /\ m \in Nat /\ longer[m + 1] = r
        /\ \A i \in 1..m : longer[i] = thread.runs[i]
    BY <1>0 DEF ThreadFields
  <2>3. /\ n \in Nat /\ Places = 1..n /\ Places' = 1..(n + 1) /\ happened'[n + 1] = r
        /\ \A i \in 1..n : happened'[i] = happened[i] /\ happened[i] \in Runs
        /\ Len(happened') = n + 1 /\ happened' \in Seq(Runs)
    BY <1>0, <2>1 DEF RunnerTypes, Places
  <2>4. row.run = r /\ row.sequence = m
    OBVIOUS
  <2> HIDE DEF longer, row
  <2>5. /\ ThreadFields(t) /\ t.runs = longer /\ t.hydrated = thread.hydrated
        /\ t.subject = thread.subject /\ t.currentRunId = thread.currentRunId
        /\ t.isRunning = thread.isRunning /\ t.stopRequested = thread.stopRequested
    BY <1>0, <2>2 DEF ThreadFields
  <2> HIDE DEF t
  <2>6. /\ stage' = [q \in Runs |-> stage'[q]] /\ stage'[r] = "closing"
        /\ \A q \in Runs : q # r => stage'[q] = stage[q]
    BY <1>0, <2>1 DEF RunnerTypes
  <2>7. /\ stage[r] \notin Settled /\ Under(r)
        /\ \A q \in Runs : stage[q] \in Settled => stage'[q] \in Settled
        /\ \A q \in Runs : Under(q)' <=> Under(q)
    BY <2>1, <2>6 DEF Settled, Under
  <2>8. \A i \in 1..n : happened[i] # r /\ stage[happened[i]] \in Settled
    BY <2>3, <2>7 DEF RunnerInv, RowsStand
  <2>9. \A a \in stored : a.run # r
    BY <2>3, <2>8 DEF RunnerInv, RowsStand
  <2>10. stored' = stored \cup {row} /\ row \notin stored
    BY <2>1, <2>4, <2>9
  <2> HIDE DEF n, m
  <2>11. /\ n + 1 \in 1..(n + 1)
         /\ \A i \in 1..(n + 1) : i \in 1..n \/ i = n + 1
         /\ \A i \in 1..n : i \in 1..(n + 1)
         /\ \A i \in 1..(m + 1) : i \in 1..m \/ i = m + 1
    BY <2>2, <2>3
  <2>12. RowsStand'
    <3>1. \A i \in 1..(n + 1) : stage'[happened'[i]] \in Settled
      BY <2>3, <2>6, <2>7, <2>8, <2>11 DEF Settled
    <3>2. \A i, j \in 1..(n + 1) : happened'[i] = happened'[j] => i = j
      BY <2>3, <2>8, <2>11 DEF RunnerInv, RowsStand
    <3>3. \A a \in stored' : \E i \in 1..(n + 1) : happened'[i] = a.run
      BY <2>3, <2>4, <2>10, <2>11 DEF RunnerInv, RowsStand
    <3>4. \A i \in 1..m : \E j \in 1..n : thread.runs[i] = happened[j]
      BY <2>3 DEF RunnerInv, RowsStand, m
    <3>5. \A i \in 1..(m + 1) : \E j \in 1..(n + 1) : longer[i] = happened'[j]
      BY <2>2, <2>3, <2>11, <3>4
    <3>6. IsFiniteSet(stored')
      BY <2>10, FS_AddElement DEF RunnerInv, RowsStand
    <3>7. 1..Len(thread'.runs) = 1..(m + 1) /\ thread'.runs = longer
      BY <2>1, <2>2, <2>5
    <3> QED
      BY <2>3, <3>1, <3>2, <3>3, <3>5, <3>6, <3>7 DEF RowsStand
  <2>13. RowsAreAll'
    <3>1. CASE Lost
      <4>1. PICK i \in 1..n : \A a \in stored : a.run # happened[i]
        BY <2>3, <3>1 DEF Lost
      <4>2. \A a \in stored' : a.run # happened'[i]
        BY <2>3, <2>4, <2>8, <2>10, <4>1
      <4>3. i \in Places'
        BY <2>3, <2>11
      <4> QED
        BY <4>2, <4>3 DEF RowsAreAll, Lost
    <3>2. CASE ~Lost
      <4>1. thread.hydrated = "yes"
        BY <2>7 DEF RunnerInv, TurnStands
      <4>2. /\ Cardinality(stored) = n /\ m = n
            /\ \A a \in stored : a.sequence \in Nat /\ a.sequence + 1 \in 1..n
                                 /\ happened[a.sequence + 1] = a.run
        BY <2>3, <3>2, <4>1 DEF RunnerInv, RowsAreAll, n, m
      <4>3. Cardinality(stored') = n + 1
        BY <2>10, <4>2, FS_AddElement DEF RunnerInv, RowsStand
      <4>4. \A a \in stored' : a.sequence \in Nat /\ a.sequence + 1 \in 1..(n + 1)
                               /\ happened'[a.sequence + 1] = a.run
        BY <2>2, <2>3, <2>4, <2>10, <2>11, <4>2
      <4>5. Len(thread'.runs) = n + 1
        BY <2>1, <2>2, <2>5, <4>2
      <4> QED
        BY <2>3, <4>3, <4>4, <4>5 DEF RowsAreAll
    <3> QED
      BY <3>1, <3>2
  <2>14. RunnerTypes'
    BY <1>0, <2>1, <2>3, <2>5, <2>6 DEF RunnerTypes
  <2>15. SubjectStands'
    BY <2>1, <2>5, <2>7 DEF RunnerInv, SubjectStands
  <2>16. ASSUME NEW q \in Runs PROVE TurnStands(q)'
    <3>1. /\ TurnStands(q)
          /\ Under(q)' <=> Under(q)
          /\ stage'[q] # "running" => stage[q] # "running"
      BY <2>1, <2>6, <2>7 DEF RunnerInv
    <3> QED
      BY <2>1, <2>5, <3>1 DEF TurnStands
  <2>17. ASSUME NEW v \in Viewers PROVE ViewStands(v)'
    BY <2>1, <2>7, ViewStays DEF RunnerInv, Served
  <2> QED
    BY <2>12, <2>13, <2>14, <2>15, <2>16, <2>17 DEF RunnerInv
<1>15. ASSUME Runner!Hydrate PROVE RunnerInv'
  <2>1. PICK s \in Runner!Loaded : thread' = [thread EXCEPT !.hydrated = "yes", !.runs = s]
    BY <1>15 DEF Runner!Hydrate
  <2>2. /\ thread.hydrated = "loading"
        /\ UNCHANGED <<stored, stage, spoken, owns, viewer, shown, due, happened>>
    BY <1>15 DEF Runner!Hydrate
  <2> DEFINE n == Len(happened)
             c == Cardinality(stored)
             t == [thread EXCEPT !.hydrated = "yes", !.runs = s]
  <2>3. c \in Nat
    BY FS_CardinalityType DEF RunnerInv, RowsStand
  <2>4. s \in [1..c -> {row.run : row \in stored}]
    <3>1. Runner!Cardinality(stored) = Cardinality(stored)
      BY DEF Runner!Cardinality, Cardinality
    <3> QED
      BY <3>1 DEF Runner!Loaded
  <2>5. \A i \in 1..c : \E j \in Places : s[i] = happened[j]
    BY <2>4 DEF RunnerInv, RowsStand
  <2>6. \A j \in Places : happened[j] \in Runs
    BY <1>0 DEF RunnerTypes, Places
  <2>7. s \in [1..c -> Runs]
    BY <2>4, <2>5, <2>6
  <2> HIDE DEF c
  <2>8. s \in Seq(Runs) /\ Len(s) = c
    BY <2>3, <2>7
  <2>9. /\ ThreadFields(t) /\ t.hydrated = "yes" /\ t.runs = s /\ t.subject = thread.subject
    BY <1>0, <2>8 DEF ThreadFields
  <2>10. thread' = t
    BY <2>1
  <2> HIDE DEF t
  <2>11. \A q \in Runs : ~Under(q)
    BY <2>2 DEF RunnerInv, TurnStands
  <2>12. RunnerTypes'
    BY <1>0, <2>2, <2>9, <2>10 DEF RunnerTypes
  <2>13. SubjectStands'
    BY <2>2, <2>9, <2>10, <2>11 DEF RunnerInv, SubjectStands
  <2>14. Places' = Places
    BY <2>2 DEF Places
  <2>15. RowsStand'
    BY <2>2, <2>5, <2>8, <2>9, <2>10, <2>14 DEF RunnerInv, RowsStand
  <2>16. RowsAreAll'
    BY <2>2, <2>8, <2>9, <2>10, <2>14 DEF RunnerInv, RowsAreAll, Lost, c
  <2>17. \A q \in Runs : TurnStands(q)'
    BY <2>2, <2>11 DEF TurnStands, Under
  <2>18. \A v \in Viewers : ViewStands(v)'
    BY <2>2 DEF RunnerInv, ViewStands, Served, Under
  <2> QED
    BY <2>12, <2>13, <2>15, <2>16, <2>17, <2>18 DEF RunnerInv
<1>16. ASSUME Runner!HydrateFails \/ Runner!Stop PROVE RunnerInv'
  <2>1. UNCHANGED <<stored, stage, spoken, owns, viewer, shown, due, happened>>
    BY <1>16 DEF Runner!HydrateFails, Runner!Stop
  <2>2. /\ ThreadFields(thread') /\ thread'.runs = thread.runs
        /\ thread'.subject = thread.subject
        /\ thread'.hydrated = "yes" => thread.hydrated = "yes"
    <3>1. CASE thread' = [thread EXCEPT !.hydrated = "failed"]
      BY <1>0, <3>1 DEF ThreadFields
    <3>2. CASE thread' = [thread EXCEPT !.stopRequested = TRUE, !.isRunning = FALSE]
      BY <1>0, <3>2 DEF ThreadFields
    <3> QED
      BY <1>16, <3>1, <3>2 DEF Runner!HydrateFails, Runner!Stop
  <2>3. RunnerTypes'
    BY <1>0, <2>1, <2>2 DEF RunnerTypes
  <2>4. SubjectStands' /\ RowsStand' /\ RowsAreAll'
    BY <2>1, <2>2 DEF RunnerInv, SubjectStands, RowsStand, RowsAreAll, Lost, Places, Under
  <2>5. ASSUME NEW q \in Runs PROVE TurnStands(q)'
    <3>1. CASE Runner!HydrateFails
      BY <2>1, <3>1 DEF Runner!HydrateFails, RunnerInv, TurnStands, Under
    <3>2. CASE Runner!Stop
      <4> DEFINE t == [thread EXCEPT !.stopRequested = TRUE, !.isRunning = FALSE]
      <4>1. thread' = t
        BY <3>2 DEF Runner!Stop
      <4>2. /\ t.stopRequested = TRUE /\ t.currentRunId = thread.currentRunId
            /\ t.hydrated = thread.hydrated
        BY <1>0 DEF ThreadFields
      <4> HIDE DEF t
      <4>3. TurnStands(q)
        BY DEF RunnerInv
      <4> QED
        BY <2>1, <4>1, <4>2, <4>3 DEF TurnStands, Under
    <3> QED
      BY <1>16, <3>1, <3>2
  <2>6. \A v \in Viewers : ViewStands(v)'
    BY <2>1 DEF RunnerInv, ViewStands, Served, Under
  <2> QED
    BY <2>3, <2>4, <2>5, <2>6 DEF RunnerInv
<1>17. ASSUME NEW v \in Viewers, Runner!Serve(v) PROVE RunnerInv'
  <2> DEFINE before == Runner!Range(thread.runs)
             watched == Runner!Live
             view == [at |-> IF watched = "none" THEN "closed" ELSE "watching", live |-> watched]
             sends == [p \in Runs \X Runner!Events |-> Runner!Replayed(before, watched, p[1], p[2])]
             found == (before \cup {watched}) \ {"none"}
  <2>1. /\ viewer' = [viewer EXCEPT ![v] = view] /\ shown' = [shown EXCEPT ![v] = sends]
        /\ due' = [due EXCEPT ![v] = found]
        /\ UNCHANGED <<stored, thread, stage, spoken, owns, happened>>
    BY <1>17 DEF Runner!Serve, Runner!None
  <2>2. \A q \in before : q \in Runs /\ stage[q] \in Settled
    <3>1. \A q \in before : \E i \in 1..Len(thread.runs) : q = thread.runs[i]
      BY <1>0 DEF ThreadFields, Runner!Range
    <3>2. \A i \in Places : happened[i] \in Runs
      BY <1>0 DEF RunnerTypes, Places
    <3> QED
      BY <3>1, <3>2 DEF RunnerInv, RowsStand
  <2>3. watched # "none" => watched \in Runs /\ Under(watched)
    BY DEF RunnerInv, SubjectStands, Runner!Live, Runner!None
  <2>4. ASSUME NEW q \in found
        PROVE  /\ q \in Runs /\ <<q, "text">> \in DOMAIN sends
               /\ sends[<<q, "text">>] = IF "text" \in spoken[q] THEN 1 ELSE 0
    <3>1. q \in Runs /\ (q \in before \/ q = watched)
      BY <2>2, <2>3, <2>4
    <3>2. /\ <<q, "text">> \in Runs \X Runner!Events
          /\ <<q, "text">>[1] = q /\ <<q, "text">>[2] = "text"
      BY <3>1 DEF Runner!Events
    <3>3. sends[<<q, "text">>] = Runner!Replayed(before, watched, q, "text")
      BY <3>2
    <3> HIDE DEF before, watched, sends
    <3>4. Runner!Replayed(before, watched, q, "text") = IF "text" \in spoken[q] THEN 1 ELSE 0
      BY <3>1 DEF Runner!Replayed
    <3>5. DOMAIN sends = Runs \X Runner!Events
      BY DEF sends
    <3> QED
      BY <3>1, <3>2, <3>3, <3>4, <3>5
  <2>5. /\ "at" \in DOMAIN view /\ "live" \in DOMAIN view /\ view.live = watched
        /\ view.at = IF watched = "none" THEN "closed" ELSE "watching"
    OBVIOUS
  <2>6. \A q \in found : stage[q] \in Settled \/ (q = watched /\ watched # "none" /\ Under(q))
    BY <2>2, <2>3
  <2> HIDE DEF before, watched, view, sends, found
  <2>7. RunnerTypes'
    BY <1>0, <2>1, <2>5 DEF RunnerTypes
  <2>8. /\ SubjectStands' /\ RowsStand' /\ RowsAreAll' /\ \A q \in Runs : TurnStands(q)'
    BY <2>1 DEF RunnerInv, SubjectStands, RowsStand, RowsAreAll, Lost, Places, Under, TurnStands
  <2>9. ViewStands(v)'
    <3>1. viewer'[v] = view /\ shown'[v] = sends /\ due'[v] = found
      BY <1>0, <2>1 DEF RunnerTypes
    <3> QED
      BY <2>1, <2>4, <2>5, <2>6, <3>1 DEF ViewStands, Under
  <2>10. ASSUME NEW w \in Viewers, w # v PROVE ViewStands(w)'
    <3>1. viewer'[w] = viewer[w] /\ shown'[w] = shown[w] /\ due'[w] = due[w]
      BY <1>0, <2>1, <2>10 DEF RunnerTypes
    <3>2. ViewStands(w)
      BY DEF RunnerInv
    <3> QED
      BY <2>1, <3>1, <3>2, ZenonT(60) DEF ViewStands, Served, Under
  <2> QED
    BY <2>7, <2>8, <2>9, <2>10 DEF RunnerInv
<1>18. ASSUME Runner!Restart PROVE RunnerInv'
  <2>1. /\ thread' = Runner!Fresh /\ viewer' = [v \in Viewers |-> [at |-> "away", live |-> "none"]]
        /\ stage' = [r \in Runs |-> IF stage[r] \in Runner!Under \cup {"hydrating"}
                                    THEN "lost" ELSE stage[r]]
        /\ UNCHANGED <<stored, spoken, owns, shown, due, happened>>
    BY <1>18 DEF Runner!Restart, Runner!None
  <2>2. /\ ThreadFields(Runner!Fresh) /\ Runner!Fresh.runs = <<>> /\ Runner!Fresh.hydrated = "no"
        /\ Runner!Fresh.subject = "none"
    BY DEF Runner!Fresh, Runner!None, ThreadFields
  <2>3. \A v \in Viewers : /\ "at" \in DOMAIN viewer'[v] /\ "live" \in DOMAIN viewer'[v]
                           /\ viewer'[v].at = "away"
    BY <2>1
  <2>4. \A r \in Runs : ~Under(r)' /\ (stage[r] \in Settled => stage'[r] \in Settled)
    BY <2>1 DEF Under, Settled, Runner!Under
  <2>5. RunnerTypes'
    BY <1>0, <2>1, <2>2, <2>3 DEF RunnerTypes
  <2>6. SubjectStands' /\ \A r \in Runs : TurnStands(r)'
    BY <2>1, <2>2, <2>4 DEF SubjectStands, TurnStands
  <2>7. \A v \in Viewers : ViewStands(v)'
    BY <2>3 DEF ViewStands, Served
  <2>8. Places' = Places /\ \A i \in Places : happened[i] \in Runs
    BY <1>0, <2>1 DEF RunnerTypes, Places
  <2>9. 1..Len(thread'.runs) = {}
    <3>1. Len(<<>>) = 0
      OBVIOUS
    <3> QED
      BY <2>1, <2>2, <3>1
  <2>10. RowsStand'
    BY <2>1, <2>4, <2>8, <2>9 DEF RunnerInv, RowsStand
  <2>11. RowsAreAll'
    BY <2>1, <2>2, <2>8 DEF RunnerInv, RowsAreAll, Lost
  <2> QED
    BY <2>5, <2>6, <2>7, <2>10, <2>11 DEF RunnerInv
<1> QED
  BY <1>1, <1>3, <1>4, <1>5, <1>6, <1>7, <1>8, <1>9, <1>10, <1>11, <1>12, <1>15, <1>16, <1>17, <1>18
  DEF Runner!Next

\* In every reachable state a thread, its runs and their rows are in step.
LEMMA RunnerInvAlways == Spec => []RunnerInv
<1>1. Init => RunnerInv
  <2> SUFFICES ASSUME Init PROVE RunnerInv
    OBVIOUS
  <2>0. Runner!Init
    BY DEF Init
  <2>1. /\ ThreadFields(Runner!Fresh) /\ Runner!Fresh.runs = <<>> /\ Runner!Fresh.subject = "none"
    BY DEF Runner!Fresh, Runner!None, ThreadFields
  <2>2. /\ thread = Runner!Fresh /\ stored = {} /\ happened = <<>>
        /\ \A r \in Runs : stage[r] = "unasked"
        /\ \A v \in Viewers : /\ viewer[v].at = "away" /\ "at" \in DOMAIN viewer[v]
                              /\ "live" \in DOMAIN viewer[v]
    BY <2>0 DEF Runner!Init
  <2>3. RunnerTypes
    BY <2>0, <2>1, <2>2 DEF Runner!Init, RunnerTypes
  <2>4. Len(<<>>) = 0
    OBVIOUS
  <2>5. Places = {} /\ 1..Len(thread.runs) = {}
    BY <2>1, <2>2, <2>4 DEF Places
  <2>6. SubjectStands /\ \A r \in Runs : TurnStands(r)
    BY <2>1, <2>2 DEF SubjectStands, TurnStands, Under
  <2>7. RowsStand
    BY <2>2, <2>5, FS_EmptySet DEF RowsStand
  <2>8. RowsAreAll
    BY <2>1, <2>2, <2>4, FS_EmptySet DEF RowsAreAll
  <2>9. \A v \in Viewers : ViewStands(v)
    BY <2>2 DEF ViewStands, Served
  <2> QED
    BY <2>3, <2>6, <2>7, <2>8, <2>9 DEF RunnerInv
<1> QED
  BY <1>1, RunnerInvStays, RunnerSteps, PTL DEF Spec

\* A thread keeps its turns apart and in order: startRun lets one turn at a time on it unless runs
\* supersede one another; a connection that ran to its end was sent each text of the runs it found
\* once, wherever between the agent, the row and the end of the run it was opened, connect skipping
\* what it replayed; and the rows are in the order of the turns as long as none was lost, persistRun
\* counting from the copy it keeps, through restarts.
THEOREM ThreadKeptAlways == Spec => []ThreadKept
<1>1. RunnerInv => ThreadKept
  <2> SUFFICES ASSUME RunnerInv PROVE ThreadKept
    OBVIOUS
  <2>1. Runner!OneTurnAtATime
    <3> SUFFICES ASSUME ~Supersede
                 PROVE  Runner!Cardinality({r \in Runs : stage[r] \in Runner!Under}) <= 1
      BY DEF Runner!OneTurnAtATime
    <3> DEFINE turns == {r \in Runs : stage[r] \in Runner!Under}
               one == {thread.currentRunId}
    <3>1. turns \subseteq one
      BY DEF RunnerInv, TurnStands, Under, Runner!Under
    <3>2. IsFiniteSet(one) /\ Cardinality(one) = 1
      BY FS_Singleton
    <3> HIDE DEF turns, one
    <3>3. Cardinality(turns) <= 1
      BY <3>1, <3>2, FS_Subset
    <3>4. Runner!Cardinality(turns) = Cardinality(turns)
      BY DEF Runner!Cardinality, Cardinality
    <3> QED
      BY <3>3, <3>4 DEF turns
  <2>2. Runner!ShownOnce
    BY DEF RunnerInv, ViewStands, Served, Runner!ShownOnce
  <2>3. Runner!RowsInOrder
    <3> SUFFICES ASSUME \A i \in DOMAIN happened : \E a \in stored : a.run = happened[i],
                        NEW a \in stored, NEW b \in stored
                 PROVE  a.sequence < b.sequence <=>
                          \E i, j \in DOMAIN happened :
                             happened[i] = a.run /\ happened[j] = b.run /\ i < j
      BY DEF Runner!RowsInOrder, Runner!InOrder
    <3>1. DOMAIN happened = Places /\ Places \subseteq Nat
      BY DEF RunnerInv, RunnerTypes, Places
    <3>2. ~Lost
      BY <3>1 DEF Lost
    <3>3. /\ a.sequence \in Nat /\ a.sequence + 1 \in Places /\ happened[a.sequence + 1] = a.run
          /\ b.sequence \in Nat /\ b.sequence + 1 \in Places /\ happened[b.sequence + 1] = b.run
      BY <3>2 DEF RunnerInv, RowsAreAll
    <3>4. \A i, j \in Places : happened[i] = happened[j] => i = j
      BY DEF RunnerInv, RowsStand
    <3>5. \A i \in Places : /\ happened[i] = a.run => i = a.sequence + 1
                            /\ happened[i] = b.run => i = b.sequence + 1
      BY <3>3, <3>4
    <3>6. a.sequence < b.sequence <=> a.sequence + 1 < b.sequence + 1
      BY <3>3
    <3> QED
      BY <3>1, <3>3, <3>5, <3>6
  <2> QED
    BY <2>1, <2>2, <2>3 DEF ThreadKept
<1> QED
  BY <1>1, RunnerInvAlways, PTL

-----------------------------------------------------------------------------
(***************************************************************************)
(* What the machines of a deployment keep has the shape the code gives it. *)
(* Each of them alone: a few things the types rest on are kept with them.  *)
(***************************************************************************)

\* A request on the skills: what was asked, by whom and of what.
AskedOfShelf ==
  [step : {"unsent", "save", "declare", "delete", "grant", "revoke", "done"},
   by : Users \cup {Absent}, slug : Slugs \cup {Absent}, bot : BotIds \cup {Absent},
   to : Users \cup {Deployment, Absent}, tools : (SUBSET ToolRefs) \cup {Shelf!NoList}]
ShelfShape ==
  /\ Shelf!TypeOK
  /\ request \in [Shelf!Requests -> AskedOfShelf]
  /\ offer = [b \in BotIds |-> offer[b]]
  /\ \A r \in Shelf!Requests : request[r].step = "grant" =>
       request[r].slug \in Slugs /\ request[r].bot \in BotIds /\ request[r].by \in Users

\* Every request on the skills keeps their shape.
LEMMA ShelfShapeStays == ShelfShape /\ [Shelf!Next]_skillVars => ShelfShape'
<1> SUFFICES ASSUME ShelfShape, [Shelf!Next]_skillVars PROVE ShelfShape'
  OBVIOUS
<1> DEFINE Kept == /\ skillOwner' \in [Slugs -> Users \cup {Deployment, Absent}]
                   /\ author' \in [Slugs -> Users \cup {Absent}]
                   /\ declares' \in [Slugs -> SUBSET ToolRefs]
                   /\ holds' \subseteq Slugs \X BotIds \X Users
           Offered == offer' = [b \in BotIds |-> offer'[b]] /\ \A b \in BotIds : offer'[b] \subseteq Given[b]
           Sent(q) == q \in AskedOfShelf /\ (q.step = "grant" => q.slug \in Slugs /\ q.bot \in BotIds /\ q.by \in Users)
           Asked == request' \in [Shelf!Requests -> AskedOfShelf]
                    /\ \A r \in Shelf!Requests : Sent(request'[r])
<1>0. /\ skillOwner \in [Slugs -> Users \cup {Deployment, Absent}]
      /\ author \in [Slugs -> Users \cup {Absent}]
      /\ declares \in [Slugs -> SUBSET ToolRefs]
      /\ holds \subseteq Slugs \X BotIds \X Users
      /\ request \in [Shelf!Requests -> AskedOfShelf] /\ \A r \in Shelf!Requests : Sent(request[r])
      /\ offer = [b \in BotIds |-> offer[b]] /\ \A b \in BotIds : offer[b] \subseteq Given[b]
  BY DEF ShelfShape, Shelf!TypeOK
<1>1. Kept /\ Asked /\ Offered => ShelfShape'
  <2>1. SUFFICES ASSUME Kept, Asked, Offered PROVE ShelfShape'
    OBVIOUS
  <2>2. \A r \in Shelf!Requests : request'[r].step \in {"unsent", "save", "declare", "delete", "grant", "revoke", "done"}
    BY <2>1 DEF AskedOfShelf
  <2> QED
    BY <2>1, <2>2 DEF ShelfShape, Shelf!TypeOK
<1>2. Sent([Shelf!Unsent EXCEPT !.step = "done"]) /\ Shelf!Unsent \in AskedOfShelf
  BY DEF AskedOfShelf, Shelf!Unsent
<1>3. ASSUME NEW r \in Shelf!Requests, NEW q, Sent(q), request' = [request EXCEPT ![r] = q]
      PROVE  Asked
  BY <1>0, <1>3
<1>4. ASSUME NEW r \in Shelf!Requests, Shelf!Finish(r) PROVE Asked
  BY <1>2, <1>3, <1>4 DEF Shelf!Finish
<1> HIDE DEF Asked
<1>5. ASSUME NEW r \in Shelf!Requests, Shelf!Ask(r) PROVE ShelfShape'
  <2>1. CASE Shelf!Refuse(r)
    BY <1>0, <1>1, <1>4, <2>1 DEF Shelf!Refuse
  <2>2. ASSUME NEW p \in Users, NEW s \in Slugs, NEW to \in {p, Deployment},
               NEW tools \in (SUBSET ToolRefs) \cup {Shelf!NoList}, Shelf!AskSave(r, p, s, to, tools)
        PROVE  ShelfShape'
    <3> DEFINE q == [Shelf!Unsent EXCEPT !.step = "save", !.by = p, !.slug = s, !.to = to, !.tools = tools]
    <3> DEFINE o == [Shelf!Unsent EXCEPT !.step = "save", !.by = p, !.slug = s]
    <3>1. o \in AskedOfShelf /\ o.step = "save"
      BY DEF Shelf!Unsent, AskedOfShelf
    <3> HIDE DEF o
    <3>2. [o EXCEPT !.to = to, !.tools = tools] \in AskedOfShelf /\ [o EXCEPT !.to = to, !.tools = tools].step = "save"
      BY ONLY <2>2, <3>1 DEF AskedOfShelf
    <3>3. Sent(q)
      BY <3>2 DEF o
    <3> QED
      BY <1>0, <1>1, <1>3, <2>2, <3>3 DEF Shelf!AskSave
  <2>3. ASSUME NEW p \in Users, NEW s \in Slugs, Shelf!AskDelete(r, p, s) PROVE ShelfShape'
    <3> DEFINE q == [Shelf!Unsent EXCEPT !.step = "delete", !.by = p, !.slug = s]
    <3>1. Sent(q)
      BY <2>3 DEF Shelf!Unsent, AskedOfShelf
    <3> QED
      BY <1>0, <1>1, <1>3, <2>3, <3>1 DEF Shelf!AskDelete
  <2>4. ASSUME NEW p \in Users, NEW s \in Slugs, NEW b \in BotIds, NEW step \in {"grant", "revoke"},
               Shelf!AskGrant(r, p, s, b, step)
        PROVE  ShelfShape'
    <3> DEFINE q == [Shelf!Unsent EXCEPT !.step = step, !.by = p, !.slug = s, !.bot = b]
    <3>1. Sent(q)
      BY <2>4 DEF Shelf!Unsent, AskedOfShelf
    <3> QED
      BY <1>0, <1>1, <1>3, <2>4, <3>1 DEF Shelf!AskGrant
  <2> QED
    BY <1>5, <2>1, <2>2, <2>3, <2>4 DEF Shelf!Ask
<1>6. ASSUME NEW r \in Shelf!Requests, Shelf!Serve(r) PROVE ShelfShape'
  <2>0. Sent(request[r]) /\ request[r] \in AskedOfShelf
    BY <1>0, <1>6
  <2>1. CASE Shelf!InstallSkill(r)
    <3>1. /\ skillOwner' = [skillOwner EXCEPT ![request[r].slug] = IF @ = Absent THEN request[r].to ELSE @]
          /\ author' = [author EXCEPT ![request[r].slug] = request[r].by]
          /\ request' = [request EXCEPT ![r] = [request[r] EXCEPT !.step = "declare"]]
          /\ UNCHANGED <<declares, holds, offer>>
      BY <1>0, <2>1 DEF Shelf!InstallSkill
    <3>2. request[r].to \in Users \cup {Deployment, Absent} /\ request[r].by \in Users \cup {Absent}
      BY <2>0 DEF AskedOfShelf
    <3>3. Sent([request[r] EXCEPT !.step = "declare"])
      BY ONLY <2>0 DEF AskedOfShelf
    <3>4. Asked
      BY <1>3, <3>1, <3>3
    <3> QED
      BY <1>0, <1>1, <3>1, <3>2, <3>4
  <2>2. CASE Shelf!DeclareTools(r)
    <3>1. request[r].tools \in (SUBSET ToolRefs) \cup {Shelf!NoList}
      BY <2>0 DEF AskedOfShelf
    <3>2. declares' \in [Slugs -> SUBSET ToolRefs]
      BY <1>0, <2>2, <3>1 DEF Shelf!DeclareTools
    <3> QED
      BY <1>0, <1>1, <1>4, <2>2, <3>2 DEF Shelf!DeclareTools
  <2>3. CASE Shelf!UninstallSkill(r)
    BY <1>0, <1>1, <1>4, <2>3 DEF Shelf!UninstallSkill
  <2>4. CASE Shelf!Grant(r)
    BY <1>0, <1>1, <1>4, <2>0, <2>4 DEF Shelf!Grant, Shelf!Others
  <2>5. CASE Shelf!Revoke(r)
    BY <1>0, <1>1, <1>4, <2>5 DEF Shelf!Revoke, Shelf!Others
  <2> QED
    BY <1>6, <2>1, <2>2, <2>3, <2>4, <2>5 DEF Shelf!Serve
<1>7. ASSUME NEW b \in BotIds, Shelf!OfferRun(b) PROVE ShelfShape'
  <2>1. PICK one \in SUBSET Given[b] : offer' = [offer EXCEPT ![b] = one]
    BY <1>7, OfferIsGranted DEF Shelf!OfferRun
  <2>2. Offered
    BY <1>0, <2>1
  <2>3. UNCHANGED <<skillOwner, author, declares, holds, request>>
    BY <1>7 DEF Shelf!OfferRun
  <2> QED
    BY <1>0, <1>1, <2>2, <2>3 DEF Asked
<1>8. CASE UNCHANGED skillVars
  BY <1>0, <1>1, <1>8 DEF skillVars, Asked
<1> QED
  BY <1>5, <1>6, <1>7, <1>8 DEF Shelf!Next

\* A run of a Bot, and the tokens a Bot was issued.
RunOfBot ==
  [step : {"unsent", "build", "select", "going", "over"}, by : Askers \cup {""}, bot : RunBots \cup {""},
   tools : SUBSET Tools, offered : SUBSET Tools, until : 0..(MaxTime + Ttl), stopped : BOOLEAN,
   lately : SUBSET Tools]
TurnShape ==
  /\ minute \in 0..MaxTime /\ changes \in 0..MaxChanges
  /\ grant \in [RunBots -> SUBSET Tools]
  /\ callback \in [RunBots -> [last : 1..(changes + 1), stored : BOOLEAN]]
  /\ turn \in [Turns -> RunOfBot]
  /\ \A r \in Turns : turn[r].step = "build" => turn[r].bot \in RunBots

\* Every step of a run and every change of its Bot keeps their shape.
LEMMA TurnShapeStays == TurnShape /\ [Turn!Next]_turnVars => TurnShape'
<1> SUFFICES ASSUME TurnShape, [Turn!Next]_turnVars PROVE TurnShape'
  OBVIOUS
<1> DEFINE Held == grant' \in [RunBots -> SUBSET Tools]
                   /\ minute' \in 0..MaxTime /\ changes' \in 0..MaxChanges
           Issued == callback' \in [RunBots -> [last : 1..(changes' + 1), stored : BOOLEAN]]
           Fits(q) == q \in RunOfBot /\ (q.step = "build" => q.bot \in RunBots)
           Run == turn' \in [Turns -> RunOfBot] /\ \A r \in Turns : Fits(turn'[r])
<1>0. /\ minute \in 0..MaxTime /\ changes \in 0..MaxChanges
      /\ grant \in [RunBots -> SUBSET Tools]
      /\ callback \in [RunBots -> [last : 1..(changes + 1), stored : BOOLEAN]]
      /\ turn \in [Turns -> RunOfBot] /\ \A r \in Turns : Fits(turn[r])
  BY DEF TurnShape
<1>1. Held /\ Issued /\ Run => TurnShape'
  BY DEF TurnShape
<1>2. MaxTime \in Nat /\ Ttl \in Nat /\ MaxChanges \in Nat
  BY BoundsAssumption
<1>3. ASSUME NEW r \in Turns, NEW q, Fits(q), turn' = [turn EXCEPT ![r] = q] PROVE Run
  BY <1>0, <1>3
<1>4. UNCHANGED turn => Run
  BY <1>0
<1>5. UNCHANGED <<minute, grant, changes>> => Held
  BY <1>0
<1>6. UNCHANGED <<callback, changes>> => Issued
  BY <1>0
<1>7. Turn!Change => changes' \in 0..MaxChanges /\ changes' = changes + 1
  BY <1>0, <1>2 DEF Turn!Change
<1>8. UNCHANGED callback /\ Turn!Change => Issued
  <2> SUFFICES ASSUME UNCHANGED callback, Turn!Change PROVE Issued
    OBVIOUS
  <2>1. \A n \in 1..(changes + 1) : n \in 1..(changes' + 1)
    BY <1>0, <1>7
  <2> QED
    BY <1>0, <2>1
<1> HIDE DEF Run
<1>9. CASE Turn!Pass
  BY <1>0, <1>1, <1>2, <1>4, <1>6, <1>9 DEF Turn!Pass
<1>10. ASSUME NEW b \in RunBots, NEW t \in Tools, Turn!SetGrant(b, t) PROVE TurnShape'
  <2>1. grant' \in [RunBots -> SUBSET Tools]
    BY <1>0, <1>10 DEF Turn!SetGrant
  <2>2. ASSUME NEW r \in Turns PROVE Fits(turn'[r]) /\ turn'[r] \in RunOfBot
    <3>1. turn'[r] = IF turn[r].bot = b THEN [turn[r] EXCEPT !.lately = @ \cup grant'[b]] ELSE turn[r]
      BY <1>10 DEF Turn!SetGrant
    <3>2. Fits(turn[r]) /\ grant'[b] \in SUBSET Tools
      BY <1>0, <2>1
    <3> QED
      BY ONLY <3>1, <3>2, ZenonT(60) DEF RunOfBot
  <2>3. turn' = [r \in Turns |-> turn'[r]]
    BY <1>10 DEF Turn!SetGrant
  <2>4. Run
    BY <2>2, <2>3 DEF Run
  <2>5. Turn!Change /\ UNCHANGED <<minute, mayRun, callback, did>>
    BY <1>10 DEF Turn!SetGrant
  <2> QED
    BY <1>0, <1>1, <1>7, <1>8, <2>1, <2>4, <2>5
<1>11. ASSUME NEW b \in RunBots, Turn!MakePrivate(b) PROVE TurnShape'
  BY <1>0, <1>1, <1>4, <1>7, <1>8, <1>11 DEF Turn!MakePrivate
<1>12. ASSUME NEW b \in RunBots, Turn!SoftDelete(b) \/ Turn!RevokeToken(b) PROVE TurnShape'
  <2>1. /\ Turn!Change /\ UNCHANGED <<minute, grant, turn>>
        /\ callback' = [callback EXCEPT ![b].stored = FALSE]
    BY <1>12 DEF Turn!SoftDelete, Turn!RevokeToken
  <2>2. callback[b] \in [last : 1..(changes' + 1), stored : BOOLEAN]
    BY <1>0, <1>7, <2>1
  <2>3. [callback[b] EXCEPT !.stored = FALSE] \in [last : 1..(changes' + 1), stored : BOOLEAN]
    BY ONLY <2>2
  <2>4. \A n \in 1..(changes + 1) : n \in 1..(changes' + 1)
    BY <1>0, <1>7, <2>1
  <2>5. Issued
    BY <1>0, <2>1, <2>3, <2>4
  <2> QED
    BY <1>0, <1>1, <1>4, <1>7, <2>1, <2>5
<1>13. ASSUME NEW b \in RunBots, Turn!IssueToken(b) PROVE TurnShape'
  <2>1. /\ Turn!Change /\ UNCHANGED <<minute, grant, turn>>
        /\ callback' = [callback EXCEPT ![b] = [last |-> callback[b].last + 1, stored |-> TRUE]]
    BY <1>0, <1>13 DEF Turn!IssueToken
  <2>2. callback[b].last + 1 \in 1..(changes' + 1)
    BY <1>0, <1>7, <2>1
  <2>4. \A n \in 1..(changes + 1) : n \in 1..(changes' + 1)
    BY <1>0, <1>7, <2>1
  <2>5. Issued
    BY <1>0, <2>1, <2>2, <2>4
  <2> QED
    BY <1>0, <1>1, <1>4, <1>7, <2>1, <2>5
<1>14. ASSUME NEW r \in Turns, Turn!Calmly, Run PROVE TurnShape'
  BY <1>1, <1>5, <1>6, <1>14 DEF Turn!Calmly
<1>15. ASSUME NEW r \in Turns, NEW p \in Askers, NEW b \in RunBots, Turn!Ask(r, p, b) PROVE TurnShape'
  <2> DEFINE step == IF <<p, b>> \in mayRun THEN "build" ELSE "over"
             q == [Turn!Unsent EXCEPT !.step = step, !.by = p, !.bot = b, !.lately = grant[b]]
             o == [Turn!Unsent EXCEPT !.step = step, !.by = p]
  <2>0. step \in {"build", "over"} /\ 0 \in 0..(MaxTime + Ttl)
    BY <1>2
  <2>1. Turn!Ask(r, p, b) => turn' = [turn EXCEPT ![r] = q] /\ Turn!Calmly
    BY DEF Turn!Ask
  <2> HIDE DEF step
  <2>2. o \in RunOfBot
    BY <2>0 DEF Turn!Unsent, RunOfBot
  <2>3. grant[b] \in SUBSET Tools
    BY <1>0
  <2> HIDE DEF o
  <2>4. Fits([o EXCEPT !.bot = b, !.lately = grant[b]])
    BY ONLY <2>2, <2>3, b \in RunBots DEF RunOfBot
  <2>5. Fits(q)
    BY <2>4 DEF o
  <2> QED
    BY <1>3, <1>14, <1>15, <2>5, <2>1
<1>16. ASSUME NEW r \in Turns, Turn!BuildAgent(r) PROVE TurnShape'
  <2>1. Fits(turn[r]) /\ grant[turn[r].bot] \in SUBSET Tools
    BY <1>0, <1>16 DEF Turn!BuildAgent
  <2>2. Fits([turn[r] EXCEPT !.tools = grant[turn[r].bot], !.step = "select"])
    BY ONLY <2>1 DEF RunOfBot
  <2>3. turn' = [turn EXCEPT ![r] = [turn[r] EXCEPT !.tools = grant[turn[r].bot], !.step = "select"]]
    BY <1>0, <1>16 DEF Turn!BuildAgent
  <2> QED
    BY <1>3, <1>14, <1>16, <2>2, <2>3 DEF Turn!BuildAgent
<1>17. ASSUME NEW r \in Turns, Turn!Send(r) PROVE TurnShape'
  <2>1. PICK answer \in SUBSET Turn!Skills : turn' = [turn EXCEPT
                ![r].offered = Turn!SelectTools(turn[r].tools, Turn!Skills, Declares, answer, Floor),
                ![r].until = IF turn[r].bot \in Remote THEN minute + Ttl ELSE 0,
                ![r].step = "going"]
    BY <1>17 DEF Turn!Send
  <2> DEFINE tools == Turn!SelectTools(turn[r].tools, Turn!Skills, Declares, answer, Floor)
             until == IF turn[r].bot \in Remote THEN minute + Ttl ELSE 0
  <2>2. Fits(turn[r]) /\ tools \subseteq turn[r].tools
    BY <1>0 DEF Turn!SelectTools
  <2>3. until \in 0..(MaxTime + Ttl)
    BY <1>0, <1>2
  <2>4. turn' = [turn EXCEPT ![r] = [turn[r] EXCEPT !.offered = tools, !.until = until, !.step = "going"]]
    BY <1>0, <2>1
  <2> HIDE DEF tools, until
  <2>5. Fits([turn[r] EXCEPT !.offered = tools, !.until = until, !.step = "going"])
    BY ONLY <2>2, <2>3 DEF RunOfBot
  <2> QED
    BY <1>3, <1>14, <1>17, <2>4, <2>5 DEF Turn!Send
<1>18. ASSUME NEW r \in Turns, Turn!Stop(r) PROVE TurnShape'
  <2> DEFINE step == IF Turn!Unheard(r) THEN turn[r].step ELSE "over"
  <2>1. turn' = [turn EXCEPT ![r] = [turn[r] EXCEPT !.stopped = TRUE, !.step = step]]
    BY <1>0, <1>18 DEF Turn!Stop
  <2>2. Fits(turn[r]) /\ step \in {turn[r].step, "over"}
    BY <1>0
  <2> HIDE DEF step
  <2>3. Fits([turn[r] EXCEPT !.stopped = TRUE, !.step = step])
    BY ONLY <2>2 DEF RunOfBot
  <2> QED
    BY <1>3, <1>14, <1>18, <2>1, <2>3 DEF Turn!Stop
<1>19. ASSUME NEW r \in Turns, Turn!Ends(r) PROVE TurnShape'
  <2>1. turn' = [turn EXCEPT ![r] = [turn[r] EXCEPT !.step = "over"]]
    BY <1>0, <1>19 DEF Turn!Ends, Turn!Step
  <2>2. Fits(turn[r])
    BY <1>0
  <2>3. Fits([turn[r] EXCEPT !.step = "over"])
    BY ONLY <2>2 DEF RunOfBot
  <2> QED
    BY <1>3, <1>14, <1>19, <2>1, <2>3 DEF Turn!Ends
<1>20. ASSUME NEW r \in Turns, Turn!CallHere(r) \/ Turn!CallBack(r) PROVE TurnShape'
  <2>1. UNCHANGED <<minute, grant, callback, turn, changes>>
    BY <1>20 DEF Turn!CallHere, Turn!CallBack, Turn!Executes
  <2> QED
    BY <1>1, <1>4, <1>5, <1>6, <2>1
<1>21. CASE UNCHANGED turnVars
  BY <1>1, <1>4, <1>5, <1>6, <1>21 DEF turnVars
<1> QED
  BY <1>9, <1>10, <1>11, <1>12, <1>13, <1>15, <1>16, <1>17, <1>18, <1>19, <1>20, <1>21 DEF Turn!Next

\* What is nothing under way is one of the states of a firing, and no row is no row.
LEMMA EngineFields ==
  /\ Engine!Idle.at = "idle" /\ Engine!Idle \in Engine!FiringType
  /\ \A x \in Engine!FiringType : x.at # "idle" =>
       x \in [at : {"read", "claimed", "running", "ran", "settled"}, id : TriggerIds,
              thread : Engine!Threads, status : {"ok", "error"}]
  /\ \A x \in Engine!RowType \cup {Engine!Unborn, Engine!Gone} :
       x # Engine!Unborn /\ x # Engine!Gone => x \in Engine!RowType
  BY DEF Engine!Idle, Engine!FiringType

\* Every step of a firing and every change of a trigger keeps their shape.
LEMMA EngineShapeStays == Engine!TypeOK /\ [Engine!Next]_engineVars => (Engine!TypeOK)'
<1> SUFFICES ASSUME Engine!TypeOK, [Engine!Next]_engineVars PROVE (Engine!TypeOK)'
  OBVIOUS
<1> DEFINE Row == Engine!RowType
           AnyRow == Row \cup {Engine!Unborn, Engine!Gone}
           Firing == Engine!FiringType
           Rows == triggers' \in [TriggerIds -> AnyRow]
           Fired == firing' \in [Firings -> Firing]
           Sets == /\ inFlight' \subseteq TriggerIds /\ wedged' \subseteq TriggerIds
                   /\ fired' \subseteq TriggerIds \X {"ok", "error"}
                   /\ now' \in Dates /\ engineFaults' \in 0..MaxFaults
<1>0. /\ triggers \in [TriggerIds -> AnyRow] /\ firing \in [Firings -> Firing]
      /\ inFlight \subseteq TriggerIds /\ wedged \subseteq TriggerIds
      /\ fired \subseteq TriggerIds \X {"ok", "error"}
      /\ now \in Dates /\ engineFaults \in 0..MaxFaults
  BY DEF Engine!TypeOK
<1>1. Rows /\ Fired /\ Sets => (Engine!TypeOK)'
  BY DEF Engine!TypeOK
<1>2. engineFaults < MaxFaults => engineFaults + 1 \in 0..MaxFaults
  BY <1>0, BoundsAssumption
<1>3. UNCHANGED <<inFlight, fired, now, engineFaults, wedged>> => Sets
  BY <1>0
<1>4. UNCHANGED triggers => Rows
  BY <1>0
<1>5. UNCHANGED firing => Fired
  BY <1>0
<1>6. ASSUME NEW f \in Firings, NEW x \in Firing, firing' = [firing EXCEPT ![f] = x] PROVE Fired
  BY <1>0, <1>6
<1>7. ASSUME NEW t \in TriggerIds, NEW x \in AnyRow, triggers' = [triggers EXCEPT ![t] = x] PROVE Rows
  BY <1>0, <1>7
<1>8. ASSUME NEW t \in TriggerIds, Engine!Exists(t) PROVE triggers[t] \in Row
  BY <1>0, <1>8, EngineFields DEF Engine!Exists
<1>9. ASSUME NEW f \in Firings, firing[f].at # "idle"
      PROVE  firing[f] \in [at : {"read", "claimed", "running", "ran", "settled"}, id : TriggerIds,
                            thread : Engine!Threads, status : {"ok", "error"}]
  BY <1>0, <1>9, EngineFields
<1>10. ASSUME NEW f \in Firings, firing[f].at # "idle", NEW at \in {"read", "claimed", "running", "ran", "settled"},
              NEW status \in {"ok", "error"}
       PROVE  /\ [firing[f] EXCEPT !.at = at] \in Firing
              /\ [firing[f] EXCEPT !.at = at, !.status = status] \in Firing
  <2>1. firing[f] \in [at : {"read", "claimed", "running", "ran", "settled"}, id : TriggerIds,
                       thread : Engine!Threads, status : {"ok", "error"}]
    BY <1>9, <1>10
  <2> QED
    BY ONLY <2>1, <1>10 DEF Engine!FiringType
<1>11. Engine!Idle \in Firing
  BY EngineFields
<1> HIDE DEF Rows, Fired, Sets
<1>12. ASSUME NEW t \in TriggerIds, Engine!Create(t) PROVE (Engine!TypeOK)'
  <2>1. PICK kind \in {"cron", "webhook"}, s \in Schedules \union {NoSchedule}, mode \in {"continue", "new"} :
          triggers' = [triggers EXCEPT ![t] =
                [kind |-> kind, schedule |-> s, enabled |-> TRUE, threadMode |-> mode,
                 threadId |-> "none", lastStatus |-> "none"]]
    BY <1>12 DEF Engine!Create
  <2>2. [kind |-> kind, schedule |-> s, enabled |-> TRUE, threadMode |-> mode,
         threadId |-> "none", lastStatus |-> "none"] \in AnyRow
    BY DEF Engine!RowType, Engine!Threads
  <2> QED
    BY <1>1, <1>3, <1>5, <1>7, <1>12, <2>1, <2>2 DEF Engine!Create
<1>13. ASSUME NEW t \in TriggerIds, Engine!Update(t) PROVE (Engine!TypeOK)'
  <2>1. triggers[t] \in Row
    BY <1>8, <1>13 DEF Engine!Update
  <2>2. CASE \E on \in BOOLEAN : triggers' = [triggers EXCEPT ![t].enabled = on]
    <3>1. PICK on \in BOOLEAN : triggers' = [triggers EXCEPT ![t] = [triggers[t] EXCEPT !.enabled = on]]
      BY <1>0, <2>2
    <3>2. [triggers[t] EXCEPT !.enabled = on] \in AnyRow
      BY ONLY <2>1, on \in BOOLEAN DEF Engine!RowType
    <3> QED
      BY <1>1, <1>3, <1>5, <1>7, <1>13, <3>1, <3>2 DEF Engine!Update
  <2>3. CASE \E m \in {"continue", "new"} : triggers' = [triggers EXCEPT ![t].threadMode = m]
    <3>1. PICK m \in {"continue", "new"} : triggers' = [triggers EXCEPT ![t] = [triggers[t] EXCEPT !.threadMode = m]]
      BY <1>0, <2>3
    <3>2. [triggers[t] EXCEPT !.threadMode = m] \in AnyRow
      BY ONLY <2>1, m \in {"continue", "new"} DEF Engine!RowType
    <3> QED
      BY <1>1, <1>3, <1>5, <1>7, <1>13, <3>1, <3>2 DEF Engine!Update
  <2>4. CASE \E s \in Schedules : triggers' = [triggers EXCEPT ![t].schedule = s]
    <3>1. PICK s \in Schedules : triggers' = [triggers EXCEPT ![t] = [triggers[t] EXCEPT !.schedule = s]]
      BY <1>0, <2>4
    <3>2. [triggers[t] EXCEPT !.schedule = s] \in AnyRow
      BY ONLY <2>1, s \in Schedules DEF Engine!RowType
    <3> QED
      BY <1>1, <1>3, <1>5, <1>7, <1>13, <3>1, <3>2 DEF Engine!Update
  <2> QED
    BY <1>13, <2>2, <2>3, <2>4 DEF Engine!Update
<1>14. ASSUME NEW t \in TriggerIds, Engine!Remove(t) PROVE (Engine!TypeOK)'
  BY <1>1, <1>3, <1>5, <1>7, <1>14 DEF Engine!Remove
<1>15. ASSUME NEW f \in Firings, NEW t \in TriggerIds, NEW cause, Engine!Read(f, t, cause) PROVE (Engine!TypeOK)'
  <2>1. triggers[t] \in Row
    BY <1>8, <1>15 DEF Engine!Read
  <2>2. Engine!ThreadOf(t) \in Engine!Threads
    BY <2>1 DEF Engine!ThreadOf, Engine!RowType, Engine!Threads
  <2> DEFINE x == [at |-> "read", id |-> t, thread |-> Engine!ThreadOf(t), status |-> "ok"]
  <2>3. x \in Firing
    BY <2>2 DEF Engine!FiringType
  <2>4. firing' = [firing EXCEPT ![f] = x]
    BY <1>15 DEF Engine!Read
  <2> HIDE DEF x
  <2>5. Fired
    BY <1>6, <2>3, <2>4
  <2> QED
    BY <1>1, <1>3, <1>4, <1>15, <2>5 DEF Engine!Read
<1>16. ASSUME NEW f \in Firings, Engine!Claim(f) PROVE (Engine!TypeOK)'
  <2>1. firing[f].at # "idle" /\ firing[f].at = "read"
    BY <1>16 DEF Engine!Claim, Engine!At
  <2>2. firing[f].id \in TriggerIds
    BY <1>9, <2>1
  <2>3. Fired
    <3>1. firing' = [firing EXCEPT ![f] = Engine!Idle] \/ firing' = [firing EXCEPT ![f] = [firing[f] EXCEPT !.at = "claimed"]]
      BY <1>0, <1>16, SMTT(30) DEF Engine!Claim
    <3>2. [firing[f] EXCEPT !.at = "claimed"] \in Firing
      BY <1>10, <2>1
    <3> QED
      BY <1>6, <1>11, <3>1, <3>2
  <2>4. inFlight' \subseteq TriggerIds /\ UNCHANGED <<triggers, fired, now, engineFaults, wedged>>
    BY <1>0, <1>16, <2>2 DEF Engine!Claim
  <2> QED
    BY <1>0, <1>1, <1>4, <2>3, <2>4 DEF Sets
<1>17. ASSUME NEW f \in Firings, Engine!MarkRunning(f) PROVE (Engine!TypeOK)'
  <2>1. firing[f].at # "idle"
    BY <1>17 DEF Engine!MarkRunning, Engine!At
  <2>2. firing[f].id \in TriggerIds /\ firing[f].thread \in Engine!Threads
    BY <1>9, <2>1
  <2>3. Fired
    <3>1. firing' = [firing EXCEPT ![f] = [firing[f] EXCEPT !.at = "running"]]
      BY <1>0, <1>17 DEF Engine!MarkRunning
    <3>2. [firing[f] EXCEPT !.at = "running"] \in Firing
      BY <1>10, <2>1
    <3> QED
      BY <1>6, <3>1, <3>2
  <2>4. Rows
    <3> DEFINE t == firing[f].id
    <3>1. CASE Engine!Exists(t)
      <4>1. triggers' = [triggers EXCEPT ![t] = [triggers[t] EXCEPT !.lastStatus = "running", !.threadId = firing[f].thread]]
        BY <1>0, <1>17, <2>2, <3>1 DEF Engine!MarkRunning, Engine!Write
      <4>2. triggers[t] \in Row
        BY <1>8, <2>2, <3>1
      <4> HIDE DEF t
      <4>3. [triggers[t] EXCEPT !.lastStatus = "running", !.threadId = firing[f].thread] \in AnyRow
        BY ONLY <2>2, <4>2 DEF Engine!RowType
      <4>4. t \in TriggerIds
        BY <2>2 DEF t
      <4> QED
        BY <1>7, <4>1, <4>3, <4>4
    <3>2. CASE ~Engine!Exists(t)
      BY <1>4, <1>17, <3>2 DEF Engine!MarkRunning, Engine!Write
    <3> QED
      BY <3>1, <3>2
  <2> QED
    BY <1>1, <1>3, <1>17, <2>3, <2>4 DEF Engine!MarkRunning
<1>18. ASSUME NEW f \in Firings, Engine!MarkFails(f) PROVE (Engine!TypeOK)'
  <2>1. firing[f].at # "idle"
    BY <1>18 DEF Engine!MarkFails, Engine!At
  <2>2. firing[f].id \in TriggerIds
    BY <1>9, <2>1
  <2>3. Fired
    BY <1>6, <1>11, <1>18 DEF Engine!MarkFails
  <2>4. wedged' \subseteq TriggerIds /\ engineFaults' \in 0..MaxFaults /\ UNCHANGED <<triggers, inFlight, fired, now>>
    BY <1>0, <1>2, <1>18, <2>2 DEF Engine!MarkFails
  <2> QED
    BY <1>0, <1>1, <1>4, <2>3, <2>4 DEF Sets
<1>19. ASSUME NEW f \in Firings, Engine!RunToCompletion(f) PROVE (Engine!TypeOK)'
  <2>1. firing[f].at # "idle"
    BY <1>19 DEF Engine!RunToCompletion, Engine!At
  <2>2. PICK outcome \in {"ok", "error"} :
          firing' = [firing EXCEPT ![f] = [firing[f] EXCEPT !.at = "ran", !.status = outcome]]
    BY <1>0, <1>19 DEF Engine!RunToCompletion
  <2>3. [firing[f] EXCEPT !.at = "ran", !.status = outcome] \in Firing
    BY <1>10, <2>1
  <2>4. Fired
    BY <1>6, <2>2, <2>3
  <2>5. inFlight' \subseteq TriggerIds /\ UNCHANGED <<triggers, fired, now, engineFaults, wedged>>
    BY <1>0, <1>19 DEF Engine!RunToCompletion
  <2> QED
    BY <1>0, <1>1, <1>4, <2>4, <2>5 DEF Sets
<1>20. ASSUME NEW f \in Firings, Engine!Settle(f) PROVE (Engine!TypeOK)'
  <2>1. firing[f].at # "idle"
    BY <1>20 DEF Engine!Settle, Engine!At
  <2>2. firing[f].id \in TriggerIds /\ firing[f].status \in {"ok", "error"}
    BY <1>9, <2>1
  <2>3. Fired
    <3>1. firing' = [firing EXCEPT ![f] = [firing[f] EXCEPT !.at = "settled"]]
      BY <1>0, <1>20 DEF Engine!Settle
    <3>2. [firing[f] EXCEPT !.at = "settled"] \in Firing
      BY <1>10, <2>1
    <3> QED
      BY <1>6, <3>1, <3>2
  <2>4. Rows
    <3> DEFINE t == firing[f].id
    <3>1. CASE Engine!Exists(t)
      <4>1. triggers' = [triggers EXCEPT ![t] = [triggers[t] EXCEPT !.lastStatus = firing[f].status]]
        BY <1>0, <1>20, <2>2, <3>1 DEF Engine!Settle
      <4>2. triggers[t] \in Row
        BY <1>8, <2>2, <3>1
      <4> HIDE DEF t
      <4>3. [triggers[t] EXCEPT !.lastStatus = firing[f].status] \in AnyRow
        BY ONLY <2>2, <4>2 DEF Engine!RowType
      <4>4. t \in TriggerIds
        BY <2>2 DEF t
      <4> QED
        BY <1>7, <4>1, <4>3, <4>4
    <3>2. CASE ~Engine!Exists(t)
      BY <1>4, <1>20, <3>2 DEF Engine!Settle
    <3> QED
      BY <3>1, <3>2
  <2> QED
    BY <1>1, <1>3, <1>20, <2>3, <2>4 DEF Engine!Settle
<1>21. ASSUME NEW f \in Firings, Engine!RecordFired(f) PROVE (Engine!TypeOK)'
  <2>1. firing[f].at # "idle"
    BY <1>21 DEF Engine!RecordFired, Engine!At
  <2>2. firing[f].id \in TriggerIds /\ firing[f].status \in {"ok", "error"}
    BY <1>9, <2>1
  <2>3. Fired
    BY <1>6, <1>11, <1>21 DEF Engine!RecordFired
  <2>4. fired' \subseteq TriggerIds \X {"ok", "error"} /\ UNCHANGED <<triggers, inFlight, now, engineFaults, wedged>>
    BY <1>0, <1>21, <2>2 DEF Engine!RecordFired
  <2> QED
    BY <1>0, <1>1, <1>4, <2>3, <2>4 DEF Sets
<1>22. ASSUME NEW f \in Firings, Engine!SettleFails(f) PROVE (Engine!TypeOK)'
  <2>1. Fired
    BY <1>6, <1>11, <1>22 DEF Engine!SettleFails
  <2>2. engineFaults' \in 0..MaxFaults /\ UNCHANGED <<triggers, inFlight, fired, now, wedged>>
    BY <1>2, <1>22 DEF Engine!SettleFails
  <2> QED
    BY <1>0, <1>1, <1>4, <2>1, <2>2 DEF Sets
<1>23. CASE Engine!Minute
  BY <1>0, <1>1, <1>4, <1>5, <1>23 DEF Engine!Minute, Sets
<1>24. CASE Engine!Crash
  BY <1>0, <1>1, <1>2, <1>4, <1>11, <1>24 DEF Engine!Crash, Sets, Fired
<1>25. CASE UNCHANGED engineVars
  BY <1>1, <1>3, <1>4, <1>5, <1>25 DEF engineVars
<1> QED
  BY <1>12, <1>13, <1>14, <1>15, <1>16, <1>17, <1>18, <1>19, <1>20, <1>21, <1>22, <1>23, <1>24, <1>25
  DEF Engine!Next

\* A call of a vendor's tool, and a refresh of the tools of a server.
MadeCall ==
  [step : {"unmade", "server", "advertised", "judge", "token", "vendor", "record", "catch", "done"},
   ref : Vendors!Refs \cup {<<>>}, bot : Bots \cup {""}, effect : Vendors!Effects \cup {""},
   outcome : {"unasked", "ok", "isError", "threw"}]
Refreshed == [step : {"none", "list", "delete", "insert", "settle"}, list : SUBSET Tools]
VendorShape ==
  /\ Vendors!TypeOK
  /\ refresh \in [Vendors!Servers -> Refreshed] /\ call \in [Calls -> MadeCall]
  /\ rows \in [Calls -> Seq(Vendors!Events)]

\* Every step of a call and of an administrator keeps the shape of what the server knows of vendors.
LEMMA VendorShapeStays == VendorShape /\ [Vendors!Next]_callVars => VendorShape'
<1> SUFFICES ASSUME VendorShape, [Vendors!Next]_callVars PROVE VendorShape'
  OBVIOUS
<1> DEFINE Servers == Vendors!Servers
           Known == /\ added' \subseteq Servers /\ held' \in [Servers -> SUBSET Tools]
                    /\ \A s \in Servers : held'[s] # {} => s \in added'
                    /\ failing' \subseteq Servers /\ seen' \subseteq Servers
           Ruled == granted' \subseteq Vendors!Refs \X Bots /\ forbids' \subseteq Vendors!Effects
           Asked == refresh' \in [Servers -> Refreshed]
           MadeKept == call' \in [Calls -> MadeCall]
           Rowed == rows' \in [Calls -> Seq(Vendors!Events)]
           Counted == edits' \in 0..MaxEdits /\ callFaults' \in 0..MaxFaults
<1>0. /\ added \subseteq Servers /\ held \in [Servers -> SUBSET Tools]
      /\ \A s \in Servers : held[s] # {} => s \in added
      /\ failing \subseteq Servers /\ seen \subseteq Servers
      /\ granted \subseteq Vendors!Refs \X Bots /\ forbids \subseteq Vendors!Effects
      /\ refresh \in [Servers -> Refreshed] /\ call \in [Calls -> MadeCall]
      /\ rows \in [Calls -> Seq(Vendors!Events)]
      /\ edits \in 0..MaxEdits /\ callFaults \in 0..MaxFaults
  BY DEF VendorShape, Vendors!TypeOK
<1>1. Known /\ Ruled /\ Asked /\ MadeKept /\ Rowed /\ Counted => VendorShape'
  <2> SUFFICES ASSUME Known, Ruled, Asked, MadeKept, Rowed, Counted PROVE VendorShape'
    OBVIOUS
  <2>1. \A s \in Servers : refresh'[s].step \in {"none", "list", "delete", "insert", "settle"}
                           /\ refresh'[s].list \subseteq Tools
    BY DEF Refreshed
  <2>2. \A c \in Calls :
          /\ call'[c].step \in {"unmade", "server", "advertised", "judge", "token", "vendor", "record", "catch", "done"}
          /\ call'[c].outcome \in {"unasked", "ok", "isError", "threw"}
    BY DEF MadeCall
  <2>3. \A c \in Calls : rows'[c] \in Seq(Vendors!Events)
    OBVIOUS
  <2> QED
    BY <2>1, <2>2, <2>3 DEF VendorShape, Vendors!TypeOK
<1>2. Vendors!Edit => edits' \in 0..MaxEdits
  BY <1>0, BoundsAssumption DEF Vendors!Edit
<1>3. callFaults < MaxFaults => callFaults + 1 \in 0..MaxFaults
  BY <1>0, BoundsAssumption
<1>4. Vendors!Quiet \in Refreshed /\ Vendors!Unmade \in MadeCall
  BY DEF Vendors!Quiet, Vendors!Unmade, Refreshed, MadeCall
<1>5. UNCHANGED <<added, held, failing, seen>> => Known
  BY <1>0
<1>6. UNCHANGED <<granted, forbids>> => Ruled
  BY <1>0
<1>7. UNCHANGED refresh => Asked
  BY <1>0
<1>8. UNCHANGED call => MadeKept
  BY <1>0
<1>9. UNCHANGED rows => Rowed
  BY <1>0
<1>10. UNCHANGED edits => edits' \in 0..MaxEdits
  BY <1>0
<1>11. UNCHANGED callFaults => callFaults' \in 0..MaxFaults
  BY <1>0
<1>12. ASSUME NEW s \in Servers, NEW x \in Refreshed, refresh' = [refresh EXCEPT ![s] = x] PROVE Asked
  BY <1>0, <1>12
<1>13. ASSUME NEW s \in Servers, NEW step \in {"none", "list", "delete", "insert", "settle"},
              Vendors!RefreshStep(s, step)
       PROVE  Asked
  <2>1. refresh' = [refresh EXCEPT ![s] = [refresh[s] EXCEPT !.step = step]] /\ refresh[s] \in Refreshed
    BY <1>0, <1>13 DEF Vendors!RefreshStep
  <2>2. [refresh[s] EXCEPT !.step = step] \in Refreshed
    BY ONLY <2>1, <1>13 DEF Refreshed
  <2> QED
    BY <1>12, <2>1, <2>2
<1>14. ASSUME NEW c \in Calls, NEW x \in MadeCall, call' = [call EXCEPT ![c] = x] PROVE MadeKept
  BY <1>0, <1>14
<1>15. ASSUME NEW c \in Calls,
              NEW step \in {"unmade", "server", "advertised", "judge", "token", "vendor", "record", "catch", "done"},
              Vendors!Step(c, step)
       PROVE  MadeKept
  <2>1. call' = [call EXCEPT ![c] = [call[c] EXCEPT !.step = step]] /\ call[c] \in MadeCall
    BY <1>0, <1>15 DEF Vendors!Step
  <2>2. [call[c] EXCEPT !.step = step] \in MadeCall
    BY ONLY <2>1, <1>15 DEF MadeCall
  <2> QED
    BY <1>14, <2>1, <2>2
<1>16. ASSUME NEW c \in Calls, NEW event \in Vendors!Events, NEW then, NEW otherwise,
              {then, otherwise} \subseteq {"done", "catch"}, Vendors!Record(c, event, then, otherwise),
              UNCHANGED Vendors!adminVars
       PROVE  VendorShape'
  <2>1. UNCHANGED <<added, held, failing, seen, refresh, granted, forbids, edits>>
    BY <1>16 DEF Vendors!adminVars
  <2>2. MadeKept
    BY <1>15, <1>16 DEF Vendors!Record
  <2>3. Rowed
    <3>1. Append(rows[c], event) \in Seq(Vendors!Events)
      BY <1>0, <1>16
    <3> QED
      BY <1>0, <1>16, <3>1 DEF Vendors!Record
  <2>4. callFaults' \in 0..MaxFaults
    BY <1>3, <1>11, <1>16 DEF Vendors!Record
  <2> HIDE DEF Known, Ruled, Asked, MadeKept, Rowed
  <2> QED
    BY <1>1, <1>5, <1>6, <1>7, <1>10, <2>1, <2>2, <2>3, <2>4
<1> HIDE DEF Known, Ruled, Asked, MadeKept, Rowed
<1>17. ASSUME NEW s \in Servers, Vendors!Added(s) PROVE VendorShape'
  <2>1. Known
    BY <1>0, <1>17 DEF Vendors!Added, Known
  <2>2. Asked
    BY <1>13, <1>17 DEF Vendors!Added
  <2> QED
    BY <1>1, <1>2, <1>6, <1>8, <1>9, <1>11, <1>17, <2>1, <2>2 DEF Vendors!Added, Vendors!callVars
<1>18. ASSUME NEW s \in Servers, Vendors!RemoveServer(s) PROVE VendorShape'
  <2>1. Known
    BY <1>0, <1>18 DEF Vendors!RemoveServer, Known
  <2> QED
    BY <1>1, <1>2, <1>6, <1>7, <1>8, <1>9, <1>11, <1>18, <2>1 DEF Vendors!RemoveServer, Vendors!callVars
<1>19. ASSUME NEW s \in Servers, Vendors!AskRefresh(s) PROVE VendorShape'
  <2>1. Asked
    BY <1>13, <1>19 DEF Vendors!AskRefresh
  <2> QED
    BY <1>1, <1>2, <1>5, <1>6, <1>8, <1>9, <1>11, <1>19, <2>1 DEF Vendors!AskRefresh, Vendors!callVars
<1>20. ASSUME NEW ref \in Vendors!Refs, NEW b \in Bots, Vendors!Grant(ref, b) \/ Vendors!Revoke(ref, b)
       PROVE  VendorShape'
  <2>1. Ruled
    BY <1>0, <1>20 DEF Vendors!Grant, Vendors!Revoke, Ruled
  <2>2. UNCHANGED <<added, held, failing, seen, refresh, call, rows, callFaults>> /\ Vendors!Edit
    BY <1>20 DEF Vendors!Grant, Vendors!Revoke, Vendors!callVars
  <2> QED
    BY <1>1, <1>2, <1>5, <1>7, <1>8, <1>9, <1>11, <2>1, <2>2
<1>21. ASSUME NEW effects \in SUBSET Vendors!Effects, Vendors!EditPolicy(effects) PROVE VendorShape'
  <2>1. Ruled
    BY <1>0, <1>21 DEF Vendors!EditPolicy, Ruled
  <2> QED
    BY <1>1, <1>2, <1>5, <1>7, <1>8, <1>9, <1>11, <1>21, <2>1 DEF Vendors!EditPolicy, Vendors!callVars
<1>22. ASSUME NEW s \in Servers, Vendors!RefreshList(s) PROVE VendorShape'
  <2>1. UNCHANGED <<added, held, seen, granted, forbids, edits, callFaults, call, rows>>
    BY <1>22 DEF Vendors!RefreshList, Vendors!callVars
  <2>2. failing' \subseteq Servers
    BY <1>0, <1>22 DEF Vendors!RefreshList
  <2>3. Known
    BY <1>0, <2>1, <2>2 DEF Known
  <2>4. Asked
    <3>1. \A list \in SUBSET Tools : [step |-> "delete", list |-> list] \in Refreshed
      BY DEF Refreshed
    <3> QED
      BY <1>4, <1>12, <1>22, <3>1 DEF Vendors!RefreshList
  <2> QED
    BY <1>1, <1>6, <1>8, <1>9, <1>10, <1>11, <2>1, <2>3, <2>4
<1>23. ASSUME NEW s \in Servers, Vendors!RefreshDelete(s) PROVE VendorShape'
  <2>1. Known
    BY <1>0, <1>23 DEF Vendors!RefreshDelete, Known
  <2>2. Asked
    BY <1>13, <1>23 DEF Vendors!RefreshDelete
  <2> QED
    BY <1>1, <1>6, <1>8, <1>9, <1>10, <1>11, <1>23, <2>1, <2>2 DEF Vendors!RefreshDelete, Vendors!callVars
<1>24. ASSUME NEW s \in Servers, Vendors!RefreshInsert(s) PROVE VendorShape'
  <2>1. UNCHANGED <<added, granted, forbids, edits, call, rows>>
    BY <1>24 DEF Vendors!RefreshInsert, Vendors!callVars
  <2>2. CASE /\ s \in added
             /\ held' = [held EXCEPT ![s] = refresh[s].list]
             /\ seen' = seen \cup {s}
             /\ Vendors!RefreshStep(s, "settle")
             /\ UNCHANGED <<failing, callFaults>>
    <3>1. refresh[s].list \subseteq Tools
      BY <1>0 DEF Refreshed
    <3>2. Known
      BY <1>0, <2>1, <2>2, <3>1 DEF Known
    <3>3. Asked
      BY <1>13, <2>2
    <3> QED
      BY <1>1, <1>6, <1>8, <1>9, <1>10, <1>11, <2>1, <2>2, <3>2, <3>3
  <2>3. CASE /\ callFaults' = callFaults \/ (callFaults < MaxFaults /\ callFaults' = callFaults + 1)
             /\ failing' = failing \cup ({s} \cap added)
             /\ refresh' = [refresh EXCEPT ![s] = Vendors!Quiet]
             /\ UNCHANGED <<held, seen>>
    <3>1. Known
      BY <1>0, <2>1, <2>3 DEF Known
    <3>2. Asked
      BY <1>4, <1>12, <2>3
    <3>3. callFaults' \in 0..MaxFaults
      BY <1>3, <1>11, <2>3
    <3> QED
      BY <1>1, <1>6, <1>8, <1>9, <1>10, <2>1, <3>1, <3>2, <3>3
  <2> QED
    BY <1>24, <2>2, <2>3 DEF Vendors!RefreshInsert
<1>25. ASSUME NEW s \in Servers, Vendors!RefreshSettle(s) PROVE VendorShape'
  <2>1. Known
    BY <1>0, <1>25 DEF Vendors!RefreshSettle, Known
  <2>2. Asked
    BY <1>4, <1>12, <1>25 DEF Vendors!RefreshSettle
  <2> QED
    BY <1>1, <1>6, <1>8, <1>9, <1>10, <1>11, <1>25, <2>1, <2>2 DEF Vendors!RefreshSettle, Vendors!callVars
\* A step of a call that writes no row.
<1>26. ASSUME MadeKept, UNCHANGED <<Vendors!adminVars, rows, callFaults>> PROVE VendorShape'
  BY <1>1, <1>5, <1>6, <1>7, <1>9, <1>10, <1>11, <1>26 DEF Vendors!adminVars
<1>27. {"call_rejected", "call_succeeded", "call_failed"} = Vendors!Events
  BY DEF Vendors!Events
<1>28. ASSUME NEW c \in Calls, NEW ref \in Vendors!Refs, NEW b \in Bots,
              Vendors!Decide(c, ref, b) \/ Vendors!DecideRefuses(c, ref, b)
       PROVE  VendorShape'
  <2>1. CASE Vendors!Decide(c, ref, b)
    <3>1. [Vendors!Unmade EXCEPT !.step = "server", !.ref = ref, !.bot = b] \in MadeCall
      BY DEF Vendors!Unmade, MadeCall
    <3> QED
      BY <1>14, <1>26, <2>1, <3>1 DEF Vendors!Decide
  <2>2. CASE Vendors!DecideRefuses(c, ref, b)
    BY <1>16, <1>27, <2>2 DEF Vendors!DecideRefuses
  <2> QED
    BY <1>28, <2>1, <2>2
<1>29. ASSUME NEW c \in Calls, Vendors!RequireServer(c) PROVE VendorShape'
  BY <1>15, <1>26, <1>29 DEF Vendors!RequireServer
<1>30. ASSUME NEW c \in Calls, Vendors!ReadAdvertised(c) PROVE VendorShape'
  <2>1. PICK effect \in Vendors!Effects : call' = [call EXCEPT ![c] = [call[c] EXCEPT !.step = "judge", !.effect = effect]]
    BY <1>0, <1>30 DEF Vendors!ReadAdvertised, Vendors!ClassifyTool, Vendors!Effects
  <2>2. call[c] \in MadeCall
    BY <1>0
  <2>3. [call[c] EXCEPT !.step = "judge", !.effect = effect] \in MadeCall
    BY ONLY <2>2, effect \in Vendors!Effects DEF MadeCall
  <2> QED
    BY <1>14, <1>26, <1>30, <2>1, <2>3 DEF Vendors!ReadAdvertised
<1>31. ASSUME NEW c \in Calls, Vendors!Judge(c) PROVE VendorShape'
  BY <1>15, <1>16, <1>26, <1>27, <1>31 DEF Vendors!Judge
<1>32. ASSUME NEW c \in Calls, Vendors!ConnectionTokenFor(c) PROVE VendorShape'
  BY <1>15, <1>26, <1>32 DEF Vendors!ConnectionTokenFor
<1>33. ASSUME NEW c \in Calls, Vendors!CallVendor(c) PROVE VendorShape'
  <2>1. PICK outcome \in {"ok", "isError", "threw"}, step \in {"catch", "record"} :
          call' = [call EXCEPT ![c] = [call[c] EXCEPT !.outcome = outcome, !.step = step]]
    BY <1>0, <1>33 DEF Vendors!CallVendor
  <2>2. call[c] \in MadeCall
    BY <1>0
  <2>3. [call[c] EXCEPT !.outcome = outcome, !.step = step] \in MadeCall
    BY ONLY <2>2, outcome \in {"ok", "isError", "threw"}, step \in {"catch", "record"} DEF MadeCall
  <2> QED
    BY <1>14, <1>26, <1>33, <2>1, <2>3 DEF Vendors!CallVendor
<1>34. ASSUME NEW c \in Calls, Vendors!RecordOutcome(c) \/ Vendors!RecordFailure(c) PROVE VendorShape'
  <2>1. CASE Vendors!RecordOutcome(c)
    BY <1>16, <1>27, <2>1 DEF Vendors!RecordOutcome
  <2>2. CASE Vendors!RecordFailure(c)
    BY <1>16, <1>27, <2>2 DEF Vendors!RecordFailure
  <2> QED
    BY <1>34, <2>1, <2>2
<1>35. CASE UNCHANGED callVars
  BY <1>1, <1>5, <1>6, <1>7, <1>8, <1>9, <1>10, <1>11, <1>35 DEF callVars
<1>36. CASE Vendors!Administer
  BY <1>17, <1>18, <1>19, <1>20, <1>21, <1>36
  DEF Vendors!Administer, Vendors!AddServer, Vendors!AddCustomServer
<1>37. CASE Vendors!Refreshing
  BY <1>22, <1>23, <1>24, <1>25, <1>37 DEF Vendors!Refreshing
<1>38. ASSUME NEW c \in Calls, Vendors!CallTool(c) PROVE VendorShape'
  BY <1>28, <1>29, <1>30, <1>31, <1>32, <1>33, <1>34, <1>38 DEF Vendors!CallTool
<1> QED
  BY <1>35, <1>36, <1>37, <1>38 DEF Vendors!Next

\* A request of a person, or of an administrator about one.
ActOf ==
  [step : Folk!Steps, of : Persons \cup {NoOne}, by : Persons \cup {NoOne},
   to : Folk!Roles \cup {"removed", "here", NoOne}, old : Folk!Secrets \cup {NoOne}, set : SUBSET Folk!Secrets]

\* A request under way is about somebody, and asks for a role or for access.
ActFits(q) ==
  /\ q \in ActOf
  /\ q.step \notin {"unsent", "done"} => q.of \in Persons
  /\ q.step \in {"find role", "set role"} => q.to \in Folk!Roles
  /\ q.step \in {"find access", "deny", "restore"} => q.to \in {"removed", "here"}
\* Who signs in has an account.
IsMet(q) == q.step \in {"seed", "check", "insert"} => q.of \in account
FolkShape ==
  /\ Folk!TypeOK
  /\ act \in [Folk!Acts -> ActOf] /\ \A a \in Folk!Acts : ActFits(act[a]) /\ IsMet(act[a])

\* Every step of a request keeps the shape of what the server knows of people.
LEMMA FolkShapeStays == FolkShape /\ [Folk!Next]_peopleVars => FolkShape'
<1> SUFFICES ASSUME FolkShape, [Folk!Next]_peopleVars PROVE FolkShape'
  OBVIOUS
<1> DEFINE Acts == Folk!Acts
           Secrets == Folk!Secrets
           Known == /\ account' \subseteq Persons /\ denied' \subseteq Persons /\ session' \subseteq account'
                    /\ role' \in [Persons -> Folk!Roles \cup {"none"}]
           Said == told' \in [Persons -> {"nothing", "removed", "here"}]
           Kept == /\ owner' \in [Secrets -> Persons \cup {NoOne}]
                   /\ live' \subseteq {s \in Secrets : owner'[s] # NoOne}
                   /\ pointer' \in [Persons -> Secrets \cup {NoOne}]
                   /\ faults' \in 0..MaxFaults
           Meeting == {"seed", "check", "insert"}
           Met(q) == q.step \in Meeting => q.of \in account'
           Acted == act' \in [Acts -> ActOf] /\ \A a \in Acts : ActFits(act'[a]) /\ Met(act'[a])
<1>0. /\ account \subseteq Persons /\ denied \subseteq Persons /\ session \subseteq account
      /\ role \in [Persons -> Folk!Roles \cup {"none"}]
      /\ told \in [Persons -> {"nothing", "removed", "here"}]
      /\ owner \in [Secrets -> Persons \cup {NoOne}]
      /\ live \subseteq {s \in Secrets : owner[s] # NoOne}
      /\ pointer \in [Persons -> Secrets \cup {NoOne}]
      /\ faults \in 0..MaxFaults
      /\ act \in [Acts -> ActOf] /\ \A a \in Acts : ActFits(act[a])
      /\ \A a \in Acts : act[a].step \in Meeting => act[a].of \in account
  BY DEF FolkShape, Folk!TypeOK, IsMet
<1>1. Known /\ Said /\ Kept /\ Acted => FolkShape'
  <2> SUFFICES ASSUME Known, Said, Kept, Acted PROVE FolkShape'
    OBVIOUS
  <2>1. \A a \in Acts : /\ act'[a].step \in Folk!Steps /\ act'[a].of \in Persons \cup {NoOne}
                        /\ act'[a].set \subseteq Secrets
    BY DEF ActOf
  <2> QED
    BY <2>1 DEF FolkShape, Folk!TypeOK, IsMet
<1>2. faults < MaxFaults => faults + 1 \in 0..MaxFaults
  BY <1>0, BoundsAssumption
<1>3. UNCHANGED <<account, role, denied, session>> => Known
  BY <1>0
<1>4. UNCHANGED told => Said
  BY <1>0
<1>5. UNCHANGED <<owner, live, pointer, faults>> => Kept
  BY <1>0
<1>6. Folk!Idle \in ActOf /\ ActFits(Folk!Idle) /\ ActFits([Folk!Idle EXCEPT !.step = "done"])
  BY DEF Folk!Idle, ActOf, ActFits, Folk!Steps
<1>7. ASSUME NEW a \in Acts, NEW q, ActFits(q), Met(q), account \subseteq account',
             act' = [act EXCEPT ![a] = q]
      PROVE  Acted
  <2>1. act' \in [Acts -> ActOf] /\ act'[a] = q /\ \A b \in Acts : b # a => act'[b] = act[b]
    BY <1>0, <1>7 DEF ActFits
  <2> QED
    BY <1>0, <1>7, <2>1
\* A request that goes a step on is about the same, and over it is about nobody.
<1>8. ASSUME NEW a \in Acts, NEW step \in Folk!Steps, Folk!To(a, step),
             step # "done" => ActFits([act[a] EXCEPT !.step = step]),
             step \in Meeting => act[a].step \in Meeting, UNCHANGED account
      PROVE  Acted
  <2> DEFINE q == IF step = "done" THEN [Folk!Idle EXCEPT !.step = step] ELSE [act[a] EXCEPT !.step = step]
  <2>1. ActFits(q) /\ act' = [act EXCEPT ![a] = q]
    BY <1>0, <1>6, <1>8 DEF Folk!To
  <2>2. q.step = step /\ (step # "done" => q.of = act[a].of)
    BY <1>0 DEF Folk!Idle, ActOf
  <2>3. Met(q)
    BY <1>0, <1>8, <2>2
  <2> HIDE DEF q
  <2> QED
    BY <1>7, <1>8, <2>1, <2>3
<1>9. ASSUME NEW a \in Acts, NEW step \in Folk!Steps,
             step \notin {"unsent", "done", "find role", "set role", "find access", "deny", "restore"},
             act[a].step \notin {"unsent", "done"}
      PROVE  ActFits([act[a] EXCEPT !.step = step])
  <2>1. ActFits(act[a])
    BY <1>0, <1>9
  <2> QED
    BY ONLY <1>9, <2>1 DEF ActFits, ActOf
<1>10. ASSUME NEW a \in Acts, NEW step \in Folk!Steps, NEW p \in Persons, NEW by \in Persons \cup {NoOne},
              NEW to \in Folk!Roles \cup {"removed", "here", NoOne},
              step \in {"find role", "set role"} => to \in Folk!Roles,
              step \in {"find access", "deny", "restore"} => to \in {"removed", "here"},
              Folk!Begin(a, step, p, by, to),
              account \subseteq account', step \in Meeting => p \in account'
       PROVE  Acted
  <2> DEFINE o == [Folk!Idle EXCEPT !.step = step, !.of = p]
             q == [Folk!Idle EXCEPT !.step = step, !.of = p, !.by = by, !.to = to]
  <2>1. o \in ActOf /\ o.step = step /\ o.of = p
    BY DEF Folk!Idle, ActOf
  <2>2. q = [o EXCEPT !.by = by, !.to = to]
    OBVIOUS
  <2>3. act' = [act EXCEPT ![a] = q]
    BY <1>10 DEF Folk!Begin
  <2> HIDE DEF o, q
  <2>4. ActFits([o EXCEPT !.by = by, !.to = to])
    BY ONLY <1>10, <2>1 DEF ActOf, ActFits
  <2>5. Met([o EXCEPT !.by = by, !.to = to])
    BY <1>10, <2>1 DEF ActOf
  <2> QED
    BY <1>7, <1>10, <2>2, <2>3, <2>4, <2>5
<1>11. ASSUME NEW a \in Acts, Folk!Begin(a, "done", NoOne, NoOne, NoOne), UNCHANGED account PROVE Acted
  <2>1. ActFits([Folk!Idle EXCEPT !.step = "done", !.of = NoOne, !.by = NoOne, !.to = NoOne])
    BY DEF Folk!Idle, ActOf, ActFits, Folk!Steps
  <2>2. Met([Folk!Idle EXCEPT !.step = "done", !.of = NoOne, !.by = NoOne, !.to = NoOne])
    BY DEF Folk!Idle
  <2> QED
    BY <1>7, <1>11, <2>1, <2>2 DEF Folk!Begin
<1>12. /\ {"done", "seed", "check", "insert", "floor", "find role", "set role", "find access", "deny",
           "restore", "owned", "retire", "consent", "create", "point", "tidy"} \subseteq Folk!Steps
       /\ {"admin", "user"} = Folk!Roles
  BY DEF Folk!Steps, Folk!Roles
<1>13. ASSUME NEW a \in Acts, act[a].step \notin {"unsent", "done"} PROVE act[a].of \in Persons
  BY <1>0, <1>13 DEF ActFits
<1> HIDE DEF Known, Said, Kept, Acted
<1>14. UNCHANGED <<Folk!peopleVars>> => Known /\ Said /\ UNCHANGED account
  BY <1>3, <1>4 DEF Folk!peopleVars
<1>15. UNCHANGED <<Folk!vaultVars>> => Kept
  BY <1>5 DEF Folk!vaultVars
\* Signing in.
<1>16. ASSUME NEW a \in Acts, NEW p \in Persons, Folk!MeetNew(a, p) \/ Folk!MeetKnown(a, p) PROVE FolkShape'
  <2>1. CASE Folk!MeetKnown(a, p)
    <3>1. Acted
      BY <1>10, <1>12, <1>14, <2>1 DEF Folk!MeetKnown
    <3> QED
      BY <1>1, <1>14, <1>15, <2>1, <3>1 DEF Folk!MeetKnown
  <2>2. CASE Folk!MeetNew(a, p)
    <3>1. Acted
      BY <1>10, <1>11, <1>12, <2>2 DEF Folk!MeetNew
    <3>2. /\ account' \in {account, account \cup {p}}
          /\ UNCHANGED <<role, denied, session, told, Folk!vaultVars>>
      BY <2>2 DEF Folk!MeetNew
    <3>3. Known
      BY <1>0, <3>2 DEF Known
    <3> QED
      BY <1>1, <1>4, <1>15, <3>1, <3>2, <3>3
  <2> QED
    BY <1>16, <2>1, <2>2
<1>17. ASSUME NEW a \in Acts, Folk!SeedRole(a) PROVE FolkShape'
  <2>1. Acted
    BY <1>8, <1>9, <1>12, <1>17 DEF Folk!SeedRole
  <2>2. Folk!RoleForEmail(act[a].of) \in Folk!Roles
    BY <1>12 DEF Folk!RoleForEmail
  <2>3. Known
    BY <1>0, <1>17, <2>2 DEF Folk!SeedRole, Known
  <2> QED
    BY <1>1, <1>4, <1>15, <1>17, <2>1, <2>3 DEF Folk!SeedRole
<1>18. ASSUME NEW a \in Acts, Folk!Check(a) PROVE FolkShape'
  <2>1. Acted
    BY <1>8, <1>9, <1>12, <1>14, <1>18 DEF Folk!Check
  <2> QED
    BY <1>1, <1>14, <1>15, <1>18, <2>1 DEF Folk!Check
<1>19. ASSUME NEW a \in Acts, Folk!InsertSession(a) PROVE FolkShape'
  <2>1. Acted
    BY <1>8, <1>9, <1>12, <1>19 DEF Folk!InsertSession
  <2>2. act[a].of \in account
    BY <1>0, <1>19 DEF Folk!InsertSession
  <2>3. Known
    BY <1>0, <1>19, <2>2 DEF Folk!InsertSession, Known
  <2> QED
    BY <1>1, <1>4, <1>15, <1>19, <2>1, <2>3 DEF Folk!InsertSession
<1>20. ASSUME NEW a \in Acts, Folk!ApplyConfiguredAdmin(a) PROVE FolkShape'
  <2>1. Acted
    BY <1>8, <1>12, <1>20 DEF Folk!ApplyConfiguredAdmin
  <2>2. Known
    BY <1>0, <1>12, <1>20 DEF Folk!ApplyConfiguredAdmin, Known
  <2> QED
    BY <1>1, <1>4, <1>15, <1>20, <2>1, <2>2 DEF Folk!ApplyConfiguredAdmin
\* What an administrator changes.
<1>21. ASSUME NEW a \in Acts, NEW by \in Persons, NEW p \in Persons,
              \/ \E to \in Folk!Roles : Folk!AskRole(a, by, p, to)
              \/ \E to \in {"removed", "here"} : Folk!AskAccess(a, by, p, to)
       PROVE  FolkShape'
  <2>1. CASE \E to \in Folk!Roles : Folk!AskRole(a, by, p, to)
    <3>1. PICK to \in Folk!Roles : Folk!AskRole(a, by, p, to)
      BY <2>1
    <3>2. Acted
      BY <1>10, <1>12, <1>14, <3>1 DEF Folk!AskRole
    <3> QED
      BY <1>1, <1>14, <1>15, <3>1, <3>2 DEF Folk!AskRole
  <2>2. CASE \E to \in {"removed", "here"} : Folk!AskAccess(a, by, p, to)
    <3>1. PICK to \in {"removed", "here"} : Folk!AskAccess(a, by, p, to)
      BY <2>2
    <3>2. Acted
      BY <1>10, <1>12, <1>14, <3>1 DEF Folk!AskAccess
    <3> QED
      BY <1>1, <1>14, <1>15, <3>1, <3>2 DEF Folk!AskAccess
  <2> QED
    BY <1>21, <2>1, <2>2
<1>22. ASSUME NEW a \in Acts, Folk!FindForRole(a) PROVE FolkShape'
  <2>1. ActFits(act[a]) /\ act[a].step = "find role"
    BY <1>0, <1>22 DEF Folk!FindForRole
  <2>2. ActFits([act[a] EXCEPT !.step = "set role"])
    BY ONLY <1>12, <2>1 DEF ActFits, ActOf
  <2>3. Acted
    BY <1>8, <1>12, <1>14, <1>22, <2>2 DEF Folk!FindForRole
  <2> QED
    BY <1>1, <1>14, <1>15, <1>22, <2>3 DEF Folk!FindForRole
<1>23. ASSUME NEW a \in Acts, Folk!SetRole(a) PROVE FolkShape'
  <2>1. Acted
    BY <1>8, <1>12, <1>23 DEF Folk!SetRole
  <2>2. act[a].to \in Folk!Roles
    BY <1>0, <1>23 DEF ActFits, Folk!SetRole
  <2>3. Known
    BY <1>0, <1>23, <2>2 DEF Folk!SetRole, Known
  <2> QED
    BY <1>1, <1>4, <1>15, <1>23, <2>1, <2>3 DEF Folk!SetRole
<1>24. ASSUME NEW a \in Acts, Folk!FindForAccess(a) PROVE FolkShape'
  <2>1. ActFits(act[a]) /\ act[a].step = "find access" /\ act[a].to \in {"removed", "here"}
    BY <1>0, <1>24 DEF Folk!FindForAccess, ActFits
  <2>2. ActFits([act[a] EXCEPT !.step = "deny"]) /\ ActFits([act[a] EXCEPT !.step = "restore"])
    BY ONLY <1>12, <2>1 DEF ActFits, ActOf
  <2>3. /\ UNCHANGED <<account, role, denied, session, Folk!vaultVars>>
        /\ \E step \in {"done", "deny", "restore"} : Folk!To(a, step)
        /\ told' \in {told, [told EXCEPT ![act[a].of] = act[a].to]}
    BY <1>24 DEF Folk!FindForAccess
  <2>4. Acted
    BY <1>8, <1>12, <2>2, <2>3
  <2>5. Said
    BY <1>0, <2>1, <2>3 DEF Said
  <2> QED
    BY <1>1, <1>3, <1>15, <2>3, <2>4, <2>5
<1>25. ASSUME NEW a \in Acts, Folk!Deny(a) PROVE FolkShape'
  <2>1. Acted
    BY <1>8, <1>9, <1>12, <1>25 DEF Folk!Deny
  <2>2. act[a].of \in Persons
    BY <1>13, <1>25 DEF Folk!Deny
  <2>3. Known
    BY <1>0, <1>25, <2>2 DEF Folk!Deny, Known
  <2> QED
    BY <1>1, <1>4, <1>15, <1>25, <2>1, <2>3 DEF Folk!Deny
<1>26. ASSUME NEW a \in Acts, Folk!Restore(a) PROVE FolkShape'
  <2>1. Acted
    BY <1>8, <1>12, <1>26 DEF Folk!Restore
  <2>2. Known /\ Said
    BY <1>0, <1>26 DEF Folk!Restore, Known, Said
  <2> QED
    BY <1>1, <1>15, <1>26, <2>1, <2>2 DEF Folk!Restore
<1>27. ASSUME NEW a \in Acts, Folk!ReadOwned(a) PROVE FolkShape'
  <2> DEFINE owned == {s \in live : owner[s] = act[a].of}
  <2>1. act' = [act EXCEPT ![a] = [act[a] EXCEPT !.step = "retire", !.set = owned]] /\ act[a].step = "owned"
    BY <1>0, <1>27 DEF Folk!ReadOwned
  <2>2. owned \subseteq Secrets /\ ActFits(act[a])
    BY <1>0
  <2> HIDE DEF owned
  <2>3. ActFits([act[a] EXCEPT !.step = "retire", !.set = owned])
    BY ONLY <1>12, <2>1, <2>2 DEF ActFits, ActOf
  <2>4. [act[a] EXCEPT !.step = "retire", !.set = owned].step = "retire"
    BY ONLY <2>2 DEF ActFits, ActOf
  <2>5. Acted
    BY <1>7, <1>14, <1>27, <2>1, <2>3, <2>4 DEF Folk!ReadOwned
  <2> QED
    BY <1>1, <1>14, <1>15, <1>27, <2>5 DEF Folk!ReadOwned
<1>28. ASSUME NEW a \in Acts, Folk!RetireOne(a) PROVE FolkShape'
  <2>1. PICK s \in act[a].set : /\ live' = live \ {s}
                                /\ act' = [act EXCEPT ![a] = [act[a] EXCEPT !.set = act[a].set \ {s}]]
    BY <1>0, <1>28 DEF Folk!RetireOne
  <2>2. ActFits(act[a]) /\ act[a].step = "retire"
    BY <1>0, <1>28 DEF Folk!RetireOne
  <2> DEFINE q == [act[a] EXCEPT !.set = act[a].set \ {s}]
  <2>3. ActFits(q) /\ q.step = "retire"
    BY ONLY <2>2 DEF ActFits, ActOf
  <2> HIDE DEF q
  <2>4. UNCHANGED <<owner, pointer, faults, Folk!peopleVars>>
    BY <1>28 DEF Folk!RetireOne
  <2>5. Acted
    BY <1>7, <1>14, <2>1, <2>3, <2>4 DEF q
  <2>6. Kept
    BY <1>0, <2>1, <2>4 DEF Kept
  <2> QED
    BY <1>1, <1>14, <2>4, <2>5, <2>6
<1>29. ASSUME NEW a \in Acts, Folk!RetireFails(a) PROVE FolkShape'
  <2>1. Acted
    BY <1>8, <1>12, <1>14, <1>29 DEF Folk!RetireFails
  <2>2. Kept
    BY <1>0, <1>2, <1>29 DEF Folk!RetireFails, Kept
  <2> QED
    BY <1>1, <1>14, <1>29, <2>1, <2>2 DEF Folk!RetireFails
<1>30. ASSUME NEW a \in Acts, Folk!Retired(a) PROVE FolkShape'
  <2>1. Acted
    BY <1>8, <1>12, <1>30 DEF Folk!Retired
  <2>2. Kept /\ Said
    BY <1>0, <1>30 DEF Folk!Retired, Kept, Said
  <2> QED
    BY <1>1, <1>3, <1>30, <2>1, <2>2 DEF Folk!Retired
\* Connecting a vendor's account.
<1>31. ASSUME NEW a \in Acts, NEW p \in Persons, Folk!Connect(a, p) PROVE FolkShape'
  <2>1. Acted
    BY <1>10, <1>12, <1>14, <1>31 DEF Folk!Connect
  <2> QED
    BY <1>1, <1>14, <1>15, <1>31, <2>1 DEF Folk!Connect
<1>32. ASSUME NEW a \in Acts, Folk!ConsentFails(a) PROVE FolkShape'
  <2>1. Acted
    BY <1>8, <1>12, <1>14, <1>32 DEF Folk!ConsentFails
  <2> QED
    BY <1>1, <1>14, <1>15, <1>32, <2>1 DEF Folk!ConsentFails
<1>33. ASSUME NEW a \in Acts, Folk!Callback(a) PROVE FolkShape'
  <2> DEFINE q == [act[a] EXCEPT !.step = "create", !.old = pointer[act[a].of]]
  <2>1. act' = [act EXCEPT ![a] = q] /\ act[a].step = "consent"
    BY <1>0, <1>33 DEF Folk!Callback
  <2>2. pointer[act[a].of] \in Secrets \cup {NoOne} /\ ActFits(act[a])
    BY <1>0, <1>13, <2>1
  <2>3. ActFits(q) /\ q.step = "create"
    BY ONLY <1>12, <2>1, <2>2 DEF ActFits, ActOf
  <2> HIDE DEF q
  <2>4. Acted
    BY <1>7, <1>14, <1>33, <2>1, <2>3 DEF Folk!Callback
  <2> QED
    BY <1>1, <1>14, <1>15, <1>33, <2>4 DEF Folk!Callback
<1>34. ASSUME NEW a \in Acts, Folk!CreateCredential(a) PROVE FolkShape'
  <2>1. PICK s \in Secrets : /\ owner' = [owner EXCEPT ![s] = act[a].of]
                             /\ live' = live \cup {s}
                             /\ act' = [act EXCEPT ![a] = [act[a] EXCEPT !.step = "point", !.set = {s}]]
    BY <1>0, <1>34 DEF Folk!CreateCredential
  <2>2. act[a].step = "create" /\ ActFits(act[a]) /\ UNCHANGED <<pointer, faults, Folk!peopleVars>>
    BY <1>0, <1>34 DEF Folk!CreateCredential
  <2>3. act[a].of \in Persons /\ act[a].of # NoOne
    BY <1>13, <2>2, BoundsAssumption
  <2> DEFINE q == [act[a] EXCEPT !.step = "point", !.set = {s}]
  <2>4. ActFits(q) /\ q.step = "point"
    BY ONLY <1>12, <2>2, s \in Secrets DEF ActFits, ActOf
  <2> HIDE DEF q
  <2>5. Acted
    BY <1>7, <1>14, <2>1, <2>2, <2>4 DEF q
  <2>6. Kept
    BY <1>0, <2>1, <2>2, <2>3 DEF Kept
  <2> QED
    BY <1>1, <1>14, <2>2, <2>5, <2>6
<1>35. ASSUME NEW a \in Acts, Folk!PointTo(a) PROVE FolkShape'
  <2>1. Acted
    BY <1>8, <1>9, <1>12, <1>14, <1>35 DEF Folk!PointTo
  <2>2. act[a].set \subseteq Secrets
    BY <1>0 DEF ActOf
  <2>3. PICK s \in Secrets : pointer' = [pointer EXCEPT ![act[a].of] = s]
    BY <1>35, <2>2 DEF Folk!PointTo
  <2>4. pointer' \in [Persons -> Secrets \cup {NoOne}]
    BY <1>0, <2>3
  <2>5. Kept
    BY <1>0, <1>35, <2>4 DEF Folk!PointTo, Kept
  <2> QED
    BY <1>1, <1>14, <1>35, <2>1, <2>5 DEF Folk!PointTo
<1>36. ASSUME NEW a \in Acts, Folk!RevokePrevious(a) PROVE FolkShape'
  <2>1. Acted
    BY <1>8, <1>12, <1>14, <1>36 DEF Folk!RevokePrevious
  <2>2. Kept
    BY <1>0, <1>2, <1>36 DEF Folk!RevokePrevious, Kept
  <2> QED
    BY <1>1, <1>14, <1>36, <2>1, <2>2 DEF Folk!RevokePrevious
<1>37. CASE UNCHANGED peopleVars
  <2>1. Acted
    BY <1>0, <1>37 DEF peopleVars, Acted
  <2> QED
    BY <1>1, <1>3, <1>4, <1>5, <1>37, <2>1 DEF peopleVars
<1>38. ASSUME NEW a \in Acts, Folk!SignIn(a) PROVE FolkShape'
  BY <1>16, <1>17, <1>18, <1>19, <1>20, <1>38 DEF Folk!SignIn
<1>39. ASSUME NEW a \in Acts, Folk!Administer(a) PROVE FolkShape'
  BY <1>21, <1>22, <1>23, <1>24, <1>25, <1>26, <1>27, <1>28, <1>29, <1>30, <1>39 DEF Folk!Administer
<1>40. ASSUME NEW a \in Acts, Folk!Tie(a) PROVE FolkShape'
  BY <1>31, <1>32, <1>33, <1>34, <1>35, <1>36, <1>40 DEF Folk!Tie
<1> QED
  BY <1>37, <1>38, <1>39, <1>40 DEF Folk!Next

\* The shape of a thread: its rows and its copy name each run once; the end of a run is said when it
\* is finalized and not before; and no connection was sent what was not said.
Copies == [runs : Seq(Runs), hydrated : {"no", "loading", "yes", "failed"},
           isRunning : BOOLEAN, currentRunId : Runs \union {"none"},
           stopRequested : BOOLEAN, subject : Runs \union {"none"}]
Rows == [run : Runs, sequence : 0..(Cardinality(Runs) - 1)]
EachOnce(s) == \A i, j \in 1..Len(s) : s[i] = s[j] => i = j

CopyShape ==
    /\ stored \in SUBSET Rows /\ \A a, b \in stored : a.run = b.run => a = b
    /\ thread \in Copies /\ EachOnce(thread.runs)
    /\ happened \in Seq(Runs)

SaidShape ==
    /\ stage \in [Runs -> {"unasked", "hydrating", "refused", "done", "lost",
                           "running", "persisting", "closing"}]
    /\ spoken \in [Runs -> SUBSET Runner!Events] /\ owns \in [Runs -> BOOLEAN]
    /\ \A r \in Runs : stage[r] \in {"unasked", "hydrating", "running"} => "end" \notin spoken[r]
    /\ viewer \in [Viewers -> [at : {"away", "hydrating", "watching", "closed"},
                               live : Runs \union {"none"}]]
    /\ shown \in [Viewers -> [Runs \X Runner!Events -> 0..2]]
    /\ \A v \in Viewers, r \in Runs, e \in Runner!Events : e \notin spoken[r] => shown[v][<<r, e>>] = 0
    /\ due \in [Viewers -> SUBSET Runs]

\* The rows are read into a copy that names each run once.
LEMMA LoadedOnce ==
  ASSUME CopyShape, IsFiniteSet(stored), NEW s \in Runner!Loaded
  PROVE  s \in Seq(Runs) /\ EachOnce(s)
<1> DEFINE R == {row.run : row \in stored}
           n == Cardinality(stored)
           of == [row \in stored |-> row.run]
<1>1. /\ s \in [1..n -> R] /\ \A row \in stored : \E i \in DOMAIN s : s[i] = row.run
  BY DEF Runner!Loaded, Runner!Cardinality, Cardinality
<1>2. n \in Nat /\ R \subseteq Runs
  BY FS_CardinalityType DEF CopyShape, Rows
<1>3. of \in Surjection(stored, R) /\ of \in Injection(stored, R)
  BY DEF CopyShape, Surjection, Injection, IsInjective
<1>4. IsFiniteSet(R) /\ Cardinality(R) = n
  BY <1>3, FS_Surjection
<1>5. IsFiniteSet(1..n) /\ Cardinality(1..n) = n
  BY <1>2, FS_Interval
<1>6. s \in Surjection(1..n, R)
  BY <1>1 DEF Surjection
<1>7. s \in Injection(1..n, R)
  BY <1>4, <1>5, <1>6, FS_SurjSameCardinalityImpliesInj
<1>8. s \in Seq(Runs) /\ Len(s) = n
  BY <1>1, <1>2
<1> QED
  BY <1>7, <1>8 DEF EachOnce, Injection, IsInjective

\* A run that the copy does not name yet finds it shorter than the runs there are.
LEMMA RoomForOne ==
  ASSUME NEW s \in Seq(Runs), EachOnce(s), NEW r \in Runs, \A i \in 1..Len(s) : s[i] # r
  PROVE  Len(s) \in 0..(Cardinality(Runs) - 1) /\ Append(s, r) \in Seq(Runs) /\ EachOnce(Append(s, r))
<1> DEFINE rest == Runs \ {r}
<1>1. IsFiniteSet(rest) /\ Cardinality(rest) = Cardinality(Runs) - 1 /\ Cardinality(Runs) \in Nat
  BY BoundsAssumption, FS_RemoveElement, FS_CardinalityType
<1>2. Len(s) \in Nat /\ s \in [1..Len(s) -> rest]
  OBVIOUS
<1>3. s \in Injection(1..Len(s), rest)
  BY <1>2 DEF EachOnce, Injection, IsInjective
<1>4. Cardinality(1..Len(s)) <= Cardinality(rest) /\ Cardinality(1..Len(s)) = Len(s)
  BY <1>1, <1>2, <1>3, FS_Injection, FS_Interval
<1>5. /\ Append(s, r) \in Seq(Runs) /\ Len(Append(s, r)) = Len(s) + 1
      /\ Append(s, r)[Len(s) + 1] = r /\ \A i \in 1..Len(s) : Append(s, r)[i] = s[i]
  OBVIOUS
<1> HIDE DEF rest
<1>6. EachOnce(Append(s, r))
  <2> DEFINE l == Append(s, r)
  <2> SUFFICES ASSUME NEW i \in 1..Len(l), NEW j \in 1..Len(l), l[i] = l[j] PROVE i = j
    BY DEF EachOnce
  <2>1. i \in 1..Len(s) \/ i = Len(s) + 1
    BY <1>2, <1>5
  <2>2. j \in 1..Len(s) \/ j = Len(s) + 1
    BY <1>2, <1>5
  <2> HIDE DEF l
  <2>3. l[Len(s) + 1] = r /\ \A k \in 1..Len(s) : l[k] = s[k]
    BY <1>5 DEF l
  <2> QED
    BY <2>1, <2>2, <2>3 DEF EachOnce
<1> QED
  BY <1>1, <1>2, <1>4, <1>5, <1>6

\* A copy stays one when it is let go.
LEMMA LetGoShape ==
  ASSUME NEW t \in Copies, NEW r
  PROVE  Runner!LetGo(t, r) \in Copies /\ Runner!LetGo(t, r).runs = t.runs
<1> DEFINE free == IF owns[r] THEN [t EXCEPT !.currentRunId = "none", !.stopRequested = FALSE,
                                             !.isRunning = FALSE] ELSE t
           subject == IF free.subject = r THEN "none" ELSE free.subject
<1>1. free \in Copies /\ free.runs = t.runs
  BY DEF Copies
<1>2. Runner!LetGo(t, r) = [free EXCEPT !.subject = subject]
  BY DEF Runner!LetGo, Runner!None
<1> HIDE DEF free
<1>3. subject \in Runs \union {"none"}
  BY <1>1 DEF Copies
<1> HIDE DEF subject
<1> QED
  BY <1>1, <1>2, <1>3 DEF Copies

\* The copy, the rows and the history keep their shape.
LEMMA CopyShapeStays == CopyShape /\ RunnerInv /\ [Runner!Next]_runnerVars => CopyShape'
<1> SUFFICES ASSUME CopyShape, RunnerInv, [Runner!Next]_runnerVars PROVE CopyShape'
  OBVIOUS
<1>0. thread \in Copies /\ thread.runs \in Seq(Runs) /\ EachOnce(thread.runs)
  BY DEF CopyShape, Copies
\* A step that leaves the runs of the thread as they are.
<1>1. ASSUME UNCHANGED <<stored, happened>>, thread' \in Copies, EachOnce(thread'.runs) PROVE CopyShape'
  BY <1>1 DEF CopyShape
\* A run that is persisting is not in the copy, nor anywhere in the history.
<1>2. ASSUME NEW r \in Runs, stage[r] = "persisting"
      PROVE  /\ Len(thread.runs) \in 0..(Cardinality(Runs) - 1)
             /\ Append(thread.runs, r) \in Seq(Runs) /\ EachOnce(Append(thread.runs, r))
             /\ Append(happened, r) \in Seq(Runs)
  <2>1. \A i \in 1..Len(thread.runs) : thread.runs[i] # r
    BY <1>2 DEF RunnerInv, RowsStand, Settled
  <2>2. /\ Len(thread.runs) \in 0..(Cardinality(Runs) - 1)
        /\ Append(thread.runs, r) \in Seq(Runs) /\ EachOnce(Append(thread.runs, r))
    BY ONLY <1>0, <2>1, RoomForOne, r \in Runs
  <2>3. Append(happened, r) \in Seq(Runs)
    BY DEF CopyShape
  <2> QED
    BY <2>2, <2>3
<1>3. ASSUME NEW s \in Seq(Runs) PROVE [thread EXCEPT !.runs = s] \in Copies
                                       /\ [thread EXCEPT !.runs = s].runs = s
  BY <1>0 DEF Copies
<1>4. CASE UNCHANGED runnerVars
  BY <1>0, <1>1, <1>4 DEF runnerVars
<1>5. ASSUME NEW r \in Runs, Runner!Run(r) \/ Runner!Refuse(r) PROVE CopyShape'
  <2>1. /\ UNCHANGED <<stored, happened>>
        /\ thread' = [thread EXCEPT !.hydrated = Runner!Hydrating(@)] \/ thread' = thread
    BY <1>5 DEF Runner!Run, Runner!Refuse
  <2>2. Runner!Hydrating(thread.hydrated) \in {"no", "loading", "yes", "failed"}
    BY <1>0 DEF Runner!Hydrating, Copies
  <2>3. thread' \in Copies /\ thread'.runs = thread.runs
    BY <1>0, <2>1, <2>2 DEF Copies
  <2> QED
    BY <1>0, <1>1, <2>1, <2>3
<1>6. ASSUME NEW r \in Runs, Runner!StartRun(r) PROVE CopyShape'
  <2>1. /\ UNCHANGED <<stored, happened>>
        /\ thread' = [thread EXCEPT !.isRunning = TRUE, !.currentRunId = r,
                                    !.stopRequested = FALSE, !.subject = r]
    BY <1>6 DEF Runner!StartRun
  <2>2. thread' \in Copies /\ thread'.runs = thread.runs
    BY <1>0, <2>1 DEF Copies
  <2> QED
    BY <1>0, <1>1, <2>1, <2>2
<1>7. ASSUME NEW r \in Runs, NEW e \in Runner!Events, Runner!Emit(r, e) PROVE CopyShape'
  BY <1>0, <1>1, <1>7 DEF Runner!Emit
<1>8. ASSUME NEW r \in Runs, Runner!Finalize(r) PROVE CopyShape'
  BY <1>0, <1>1, <1>8 DEF Runner!Finalize
<1>9. ASSUME NEW r \in Runs, Runner!Persist(r) PROVE CopyShape'
  <2>1. /\ stage[r] = "persisting" /\ happened' = Append(happened, r)
        /\ thread' = [thread EXCEPT !.runs = Append(thread.runs, r)]
        /\ stored' = IF \E row \in stored : row.run = r THEN stored
                     ELSE stored \union {[run |-> r, sequence |-> Len(thread.runs)]}
    BY <1>9 DEF Runner!Persist
  <2>2. /\ Len(thread.runs) \in 0..(Cardinality(Runs) - 1)
        /\ Append(thread.runs, r) \in Seq(Runs) /\ EachOnce(Append(thread.runs, r))
        /\ Append(happened, r) \in Seq(Runs)
    BY <1>2, <2>1
  <2>3. thread' \in Copies /\ EachOnce(thread'.runs)
    BY <1>3, <2>1, <2>2
  <2> DEFINE row == [run |-> r, sequence |-> Len(thread.runs)]
  <2>4. row \in Rows /\ row.run = r
    BY <2>2 DEF Rows
  <2> HIDE DEF row
  <2>5. stored' \in SUBSET Rows /\ \A a, b \in stored' : a.run = b.run => a = b
    <3>1. CASE \E one \in stored : one.run = r
      BY <2>1, <3>1 DEF CopyShape
    <3>2. CASE \A one \in stored : one.run # r
      <4>1. stored' = stored \union {row}
        BY <2>1, <3>2 DEF row
      <4> QED
        BY <2>4, <3>2, <4>1 DEF CopyShape
    <3> QED
      BY <3>1, <3>2
  <2> QED
    BY <2>1, <2>2, <2>3, <2>5 DEF CopyShape
<1>10. ASSUME NEW r \in Runs, Runner!PersistFails(r) PROVE CopyShape'
  <2> DEFINE t == [thread EXCEPT !.runs = Append(thread.runs, r)]
  <2>1. /\ stage[r] = "persisting" /\ happened' = Append(happened, r) /\ stored' = stored
        /\ thread' = Runner!LetGo(t, r)
    BY <1>10 DEF Runner!PersistFails
  <2>2. Append(thread.runs, r) \in Seq(Runs) /\ EachOnce(Append(thread.runs, r))
        /\ Append(happened, r) \in Seq(Runs)
    BY <1>2, <2>1
  <2>3. t \in Copies /\ t.runs = Append(thread.runs, r)
    BY <1>3, <2>2
  <2> HIDE DEF t
  <2>4. thread' \in Copies /\ EachOnce(thread'.runs)
    BY <2>1, <2>2, <2>3, LetGoShape
  <2> QED
    BY <2>1, <2>2, <2>4 DEF CopyShape
<1>11. ASSUME NEW r \in Runs, Runner!Close(r) PROVE CopyShape'
  <2>1. UNCHANGED <<stored, happened>> /\ thread' = Runner!LetGo(thread, r)
    BY <1>11 DEF Runner!Close
  <2>2. thread' \in Copies /\ thread'.runs = thread.runs
    BY <1>0, <2>1, LetGoShape
  <2> QED
    BY <1>0, <1>1, <2>1, <2>2
<1>12. ASSUME NEW v \in Viewers, Runner!Connect(v) PROVE CopyShape'
  <2>1. UNCHANGED <<stored, happened>> /\ thread' = [thread EXCEPT !.hydrated = Runner!Hydrating(@)]
    BY <1>12 DEF Runner!Connect
  <2>2. Runner!Hydrating(thread.hydrated) \in {"no", "loading", "yes", "failed"}
    BY <1>0 DEF Runner!Hydrating, Copies
  <2>3. thread' \in Copies /\ thread'.runs = thread.runs
    BY <1>0, <2>1, <2>2 DEF Copies
  <2> QED
    BY <1>0, <1>1, <2>1, <2>3
<1>13. ASSUME NEW v \in Viewers, Runner!ConnectFails(v) \/ Runner!Serve(v) PROVE CopyShape'
  <2>1. UNCHANGED <<stored, happened, thread>>
    BY <1>13 DEF Runner!ConnectFails, Runner!Serve
  <2> QED
    BY <1>0, <1>1, <2>1
<1>14. CASE Runner!Hydrate
  <2>1. UNCHANGED <<stored, happened>>
    BY <1>14 DEF Runner!Hydrate
  <2>2. PICK s \in Runner!Loaded : thread' = [thread EXCEPT !.hydrated = "yes", !.runs = s]
    BY <1>14 DEF Runner!Hydrate
  <2>3. s \in Seq(Runs) /\ EachOnce(s)
    BY LoadedOnce DEF RunnerInv, RowsStand
  <2>4. thread' \in Copies /\ thread'.runs = s
    BY <1>0, <2>2, <2>3 DEF Copies
  <2> QED
    BY <1>1, <2>1, <2>3, <2>4
<1>15. CASE Runner!HydrateFails \/ Runner!Stop
  <2>1. /\ UNCHANGED <<stored, happened>>
        /\ \/ thread' = [thread EXCEPT !.hydrated = "failed"]
           \/ thread' = [thread EXCEPT !.stopRequested = TRUE, !.isRunning = FALSE]
    BY <1>15 DEF Runner!HydrateFails, Runner!Stop
  <2>2. thread' \in Copies /\ thread'.runs = thread.runs
    BY <1>0, <2>1 DEF Copies
  <2> QED
    BY <1>0, <1>1, <2>1, <2>2
<1>16. CASE Runner!Restart
  <2>1. UNCHANGED <<stored, happened>> /\ thread' = Runner!Fresh
    BY <1>16 DEF Runner!Restart
  <2>2. Runner!Fresh \in Copies /\ Runner!Fresh.runs = <<>>
    BY DEF Runner!Fresh, Runner!None, Copies
  <2>3. EachOnce(<<>>)
    BY DEF EachOnce
  <2> QED
    BY <1>1, <2>1, <2>2, <2>3
<1> QED
  BY <1>4, <1>5, <1>6, <1>7, <1>8, <1>9, <1>10, <1>11, <1>12, <1>13, <1>14, <1>15, <1>16 DEF Runner!Next

\* What is said of a run reaches only who watches it, each event at most once while the run goes on.
LEMMA BroadcastShape ==
  ASSUME SaidShape, NEW r \in Runs, NEW e \in Runner!Events, e \notin spoken[r], Runner!Broadcast(r, e)
  PROVE  /\ spoken' \in [Runs -> SUBSET Runner!Events] /\ spoken'[r] = spoken[r] \union {e}
         /\ \A q \in Runs : q # r => spoken'[q] = spoken[q]
         /\ shown' \in [Viewers -> [Runs \X Runner!Events -> 0..2]]
         /\ \A v \in Viewers, q \in Runs, f \in Runner!Events :
               f \notin spoken'[q] => shown'[v][<<q, f>>] = 0
<1>1. /\ spoken' = [spoken EXCEPT ![r] = @ \union {e}]
      /\ shown' = [v \in Viewers |-> IF Runner!Sent(v, r, e)
                                     THEN [shown[v] EXCEPT ![<<r, e>>] = @ + 1] ELSE shown[v]]
  BY DEF Runner!Broadcast
<1>2. /\ spoken' \in [Runs -> SUBSET Runner!Events] /\ spoken'[r] = spoken[r] \union {e}
      /\ \A q \in Runs : q # r => spoken'[q] = spoken[q]
  BY <1>1 DEF SaidShape
<1>3. ASSUME NEW v \in Viewers
      PROVE  /\ shown'[v] \in [Runs \X Runner!Events -> 0..2]
             /\ \A q \in Runs, f \in Runner!Events : f \notin spoken'[q] => shown'[v][<<q, f>>] = 0
  <2>1. /\ shown[v] \in [Runs \X Runner!Events -> 0..2] /\ shown[v][<<r, e>>] = 0
        /\ \A q \in Runs, f \in Runner!Events : f \notin spoken[q] => shown[v][<<q, f>>] = 0
    BY DEF SaidShape
  <2>2. shown'[v] = shown[v] \/ shown'[v] = [shown[v] EXCEPT ![<<r, e>>] = 1]
    BY <1>1, <2>1, SMTT(30)
  <2>3. shown'[v] \in [Runs \X Runner!Events -> 0..2]
    BY <2>1, <2>2
  <2>4. ASSUME NEW q \in Runs, NEW f \in Runner!Events, f \notin spoken'[q]
        PROVE  shown'[v][<<q, f>>] = 0
    <3>1. f \notin spoken[q] /\ <<q, f>> # <<r, e>>
      BY <1>2, <2>4
    <3>2. shown'[v][<<q, f>>] = shown[v][<<q, f>>]
      BY <2>1, <2>2, <3>1
    <3> QED
      BY <2>1, <3>1, <3>2
  <2> QED
    BY <2>3, <2>4
<1>4. shown' = [v \in Viewers |-> shown'[v]]
  BY <1>1
<1> QED
  BY <1>2, <1>3, <1>4

\* What is said and shown of the runs keeps its shape.
LEMMA SaidShapeStays == SaidShape /\ CopyShape /\ [Runner!Next]_runnerVars => SaidShape'
<1> SUFFICES ASSUME SaidShape, CopyShape, [Runner!Next]_runnerVars PROVE SaidShape'
  OBVIOUS
<1> DEFINE Stages == {"unasked", "hydrating", "refused", "done", "lost",
                      "running", "persisting", "closing"}
           Views == [at : {"away", "hydrating", "watching", "closed"}, live : Runs \union {"none"}]
           Early == {"unasked", "hydrating", "running"}
<1>0. /\ stage \in [Runs -> Stages] /\ viewer \in [Viewers -> Views] /\ owns \in [Runs -> BOOLEAN]
      /\ \A r \in Runs : stage[r] \in Early => "end" \notin spoken[r]
  BY DEF SaidShape
\* A step that moves runs and connections on, and says nothing.
<1>1. ASSUME UNCHANGED <<spoken, shown, due, owns>>, stage' \in [Runs -> Stages],
             \A q \in Runs : stage'[q] \in Early => stage[q] \in Early, viewer' \in [Viewers -> Views]
      PROVE  SaidShape'
  BY <1>1, ZenonT(60) DEF SaidShape
<1>2. ASSUME NEW r \in Runs, NEW to \in Stages, to \in Early => stage[r] \in Early,
             stage' = [stage EXCEPT ![r] = to]
      PROVE  /\ stage' \in [Runs -> Stages]
             /\ \A q \in Runs : stage'[q] \in Early => stage[q] \in Early
  BY <1>0, <1>2
<1>3. ASSUME NEW r, Runner!Complete(r) PROVE viewer' \in [Viewers -> Views]
  <2>1. viewer' = [v \in Viewers |-> IF viewer[v].at = "watching" /\ viewer[v].live = r
                                     THEN [viewer[v] EXCEPT !.at = "closed"] ELSE viewer[v]]
    BY <1>3 DEF Runner!Complete
  <2>2. \A v \in Viewers : viewer[v] \in Views /\ [viewer[v] EXCEPT !.at = "closed"] \in Views
    BY <1>0
  <2> HIDE DEF Views
  <2> QED
    BY <2>1, <2>2
<1> HIDE DEF Views, Stages
<1>4. CASE UNCHANGED runnerVars
  BY <1>0, <1>1, <1>4 DEF runnerVars
<1>5. ASSUME NEW r \in Runs, Runner!Run(r) PROVE SaidShape'
  <2>1. UNCHANGED <<spoken, shown, due, owns, viewer>> /\ stage[r] = "unasked"
        /\ stage' = [stage EXCEPT ![r] = "hydrating"]
    BY <1>5 DEF Runner!Run
  <2> QED
    BY <1>0, <1>1, <1>2, <2>1 DEF Stages
<1>6. ASSUME NEW r \in Runs, Runner!Refuse(r) PROVE SaidShape'
  <2>1. UNCHANGED <<spoken, shown, due, owns, viewer>> /\ stage' = [stage EXCEPT ![r] = "refused"]
    BY <1>6 DEF Runner!Refuse
  <2> QED
    BY <1>0, <1>1, <1>2, <2>1 DEF Stages
<1>7. ASSUME NEW r \in Runs, Runner!StartRun(r) PROVE SaidShape'
  <2>1. UNCHANGED <<spoken, shown, due, owns, viewer>> /\ stage[r] = "hydrating"
        /\ stage' = [stage EXCEPT ![r] = "running"]
    BY <1>7 DEF Runner!StartRun
  <2> QED
    BY <1>0, <1>1, <1>2, <2>1 DEF Stages
<1>8. ASSUME NEW r \in Runs, NEW e \in Runner!Events, Runner!Emit(r, e) PROVE SaidShape'
  <2>1. /\ UNCHANGED <<stage, owns, viewer, due>> /\ e # "end" /\ e \notin spoken[r]
        /\ Runner!Broadcast(r, e)
    BY <1>8 DEF Runner!Emit
  <2>2. /\ spoken' \in [Runs -> SUBSET Runner!Events] /\ spoken'[r] = spoken[r] \union {e}
        /\ \A q \in Runs : q # r => spoken'[q] = spoken[q]
        /\ shown' \in [Viewers -> [Runs \X Runner!Events -> 0..2]]
        /\ \A v \in Viewers, q \in Runs, f \in Runner!Events :
              f \notin spoken'[q] => shown'[v][<<q, f>>] = 0
    BY <2>1, BroadcastShape
  <2>3. \A q \in Runs : stage'[q] \in Early => "end" \notin spoken'[q]
    BY <1>0, <2>1, <2>2
  <2> QED
    BY <2>1, <2>2, <2>3 DEF SaidShape
<1>9. ASSUME NEW r \in Runs, Runner!Finalize(r) PROVE SaidShape'
  <2>1. /\ UNCHANGED <<viewer, due>> /\ stage[r] = "running" /\ Runner!Broadcast(r, "end")
        /\ owns' = [owns EXCEPT ![r] = thread.currentRunId = r]
    BY <1>9 DEF Runner!Finalize
  <2>2. \E to \in {"persisting", "closing"} : stage' = [stage EXCEPT ![r] = to]
    BY <1>9 DEF Runner!Finalize
  <2>3. "end" \in Runner!Events /\ "end" \notin spoken[r]
    BY <1>0, <2>1 DEF Runner!Events
  <2>4. /\ spoken' \in [Runs -> SUBSET Runner!Events] /\ spoken'[r] = spoken[r] \union {"end"}
        /\ \A q \in Runs : q # r => spoken'[q] = spoken[q]
        /\ shown' \in [Viewers -> [Runs \X Runner!Events -> 0..2]]
        /\ \A v \in Viewers, q \in Runs, f \in Runner!Events :
              f \notin spoken'[q] => shown'[v][<<q, f>>] = 0
    BY <2>1, <2>3, BroadcastShape
  <2>5. stage' \in [Runs -> Stages] /\ stage'[r] \notin Early /\ \A q \in Runs \ {r} : stage'[q] = stage[q]
    BY <1>0, <2>2 DEF Stages
  <2>6. \A q \in Runs : stage'[q] \in Early => "end" \notin spoken'[q]
    BY <1>0, <2>4, <2>5
  <2>7. owns' \in [Runs -> BOOLEAN]
    BY <1>0, <2>1
  <2> QED
    BY <2>1, <2>4, <2>5, <2>6, <2>7 DEF SaidShape, Stages
<1>10. ASSUME NEW r \in Runs, Runner!Persist(r) PROVE SaidShape'
  <2>1. UNCHANGED <<spoken, shown, due, owns, viewer>> /\ stage' = [stage EXCEPT ![r] = "closing"]
    BY <1>10 DEF Runner!Persist
  <2> QED
    BY <1>0, <1>1, <1>2, <2>1 DEF Stages
<1>11. ASSUME NEW r \in Runs, Runner!PersistFails(r) \/ Runner!Close(r) PROVE SaidShape'
  <2>1. /\ UNCHANGED <<spoken, shown, due, owns>> /\ stage' = [stage EXCEPT ![r] = "done"]
        /\ Runner!Complete(r)
    BY <1>11 DEF Runner!PersistFails, Runner!Close
  <2>2. viewer' \in [Viewers -> Views]
    BY <1>3, <2>1
  <2> QED
    BY <1>1, <1>2, <2>1, <2>2 DEF Stages
<1>12. ASSUME NEW v \in Viewers, Runner!Connect(v) \/ Runner!ConnectFails(v) PROVE SaidShape'
  <2>1. /\ UNCHANGED <<spoken, shown, due, owns, stage>>
        /\ \E at \in {"hydrating", "away"} : viewer' = [viewer EXCEPT ![v].at = at]
    BY <1>12 DEF Runner!Connect, Runner!ConnectFails
  <2>2. viewer' \in [Viewers -> Views]
    BY <1>0, <2>1 DEF Views
  <2> QED
    BY <1>0, <1>1, <2>1, <2>2
<1>13. ASSUME NEW v \in Viewers, Runner!Serve(v) PROVE SaidShape'
  <2> DEFINE heard == Runner!Range(thread.runs)
             live_ == Runner!Live
             view == [at |-> IF live_ = "none" THEN "closed" ELSE "watching", live |-> live_]
             sent_ == [p \in Runs \X Runner!Events |-> Runner!Replayed(heard, live_, p[1], p[2])]
  <2>1. /\ UNCHANGED <<stage, spoken, owns>> /\ viewer' = [viewer EXCEPT ![v] = view]
        /\ shown' = [shown EXCEPT ![v] = sent_]
        /\ due' = [due EXCEPT ![v] = (heard \union {live_}) \ {"none"}]
    BY <1>13 DEF Runner!Serve, Runner!None
  <2>2. thread.subject \in Runs \union {"none"} /\ thread.runs \in Seq(Runs)
    BY DEF CopyShape, Copies
  <2>3. heard \subseteq Runs
    BY <2>2 DEF Runner!Range
  <2>4. live_ \in Runs \union {"none"}
    BY <2>2 DEF Runner!Live, Runner!None
  <2>5. view \in Views
    BY <2>4 DEF Views
  <2>6. /\ sent_ \in [Runs \X Runner!Events -> 0..2]
        /\ \A q \in Runs, f \in Runner!Events : f \notin spoken[q] => sent_[<<q, f>>] = 0
    BY DEF Runner!Replayed
  <2> HIDE DEF heard, live_, view, sent_
  <2>7. viewer' \in [Viewers -> Views]
    BY <1>0, <2>1, <2>5
  <2>8. due' \in [Viewers -> SUBSET Runs]
    <3>1. (heard \union {live_}) \ {"none"} \in SUBSET Runs
      BY <2>3, <2>4
    <3> QED
      BY <2>1, <3>1 DEF SaidShape
  <2>9. shown' \in [Viewers -> [Runs \X Runner!Events -> 0..2]]
    BY <2>1, <2>6 DEF SaidShape
  <2>10. \A u \in Viewers, q \in Runs, f \in Runner!Events :
            f \notin spoken'[q] => shown'[u][<<q, f>>] = 0
    <3>1. \A u \in Viewers : shown'[u] = IF u = v THEN sent_ ELSE shown[u]
      BY <2>1 DEF SaidShape
    <3> QED
      BY <2>1, <2>6, <3>1 DEF SaidShape
  <2> QED
    BY <2>1, <2>7, <2>8, <2>9, <2>10 DEF SaidShape, Views
<1>14. CASE Runner!Hydrate \/ Runner!HydrateFails \/ Runner!Stop
  <2>1. UNCHANGED <<spoken, shown, due, owns, viewer, stage>>
    BY <1>14 DEF Runner!Hydrate, Runner!HydrateFails, Runner!Stop
  <2> QED
    BY <1>0, <1>1, <2>1
<1>15. CASE Runner!Restart
  <2>1. /\ UNCHANGED <<spoken, shown, due, owns>>
        /\ viewer' = [v \in Viewers |-> [at |-> "away", live |-> "none"]]
        /\ stage' = [r \in Runs |-> IF stage[r] \in Runner!Under \union {"hydrating"}
                                    THEN "lost" ELSE stage[r]]
    BY <1>15 DEF Runner!Restart, Runner!None
  <2>2. stage' \in [Runs -> Stages] /\ \A q \in Runs : stage'[q] \in Early => stage[q] \in Early
    BY <1>0, <2>1 DEF Stages
  <2>3. viewer' \in [Viewers -> Views]
    BY <2>1, SMTT(30) DEF Views
  <2> QED
    BY <1>1, <2>1, <2>2, <2>3
<1> QED
  BY <1>4, <1>5, <1>6, <1>7, <1>8, <1>9, <1>10, <1>11, <1>12, <1>13, <1>14, <1>15 DEF Runner!Next

\* The shapes give the types, and the process is restarted as often as it may be.
LEMMA RestartsStay == restarts \in 0..MaxRestarts /\ [Runner!Next]_runnerVars => restarts' \in 0..MaxRestarts
<1> SUFFICES ASSUME restarts \in 0..MaxRestarts, [Runner!Next]_runnerVars
             PROVE  restarts' = restarts \/ (restarts < MaxRestarts /\ restarts' = restarts + 1)
  BY BoundsAssumption
<1> QED
  BY DEF runnerVars, Runner!Next, Runner!Run, Runner!Refuse, Runner!StartRun, Runner!Emit,
     Runner!Finalize, Runner!Persist, Runner!PersistFails, Runner!Close, Runner!Connect,
     Runner!ConnectFails, Runner!Serve, Runner!Hydrate, Runner!HydrateFails, Runner!Stop, Runner!Restart

LEMMA RunnerShapeIs == CopyShape /\ SaidShape /\ restarts \in 0..MaxRestarts => Runner!TypeOK
<1>1. Runner!Cardinality(Runs) = Cardinality(Runs)
  BY DEF Runner!Cardinality, Cardinality
<1> QED
  BY <1>1 DEF CopyShape, SaidShape, Rows, Copies, Runner!TypeOK, Runner!None, Runner!Under, Runner!Events
=============================================================================
