-------------------------- MODULE ComputerGateway --------------------------
(***************************************************************************)
(* One Bot's computer and the servers that govern what is done with it:    *)
(* server/src/computer/gateway.ts (`govern`, `snapshot`, `resetComputer`), *)
(* the snapshot row of snapshot-store.ts, the session cache of             *)
(* supervisor.ts, and the part of agent-computer/src/index.ts that stamps  *)
(* generations and checks them.                                            *)
(*                                                                         *)
(* A governed call loads the stored snapshot, resolves the ref it cites,   *)
(* asks the policy, writes the decision to the audit trail and only then   *)
(* reaches the computer.  Every await of the code is a step boundary here. *)
(*                                                                         *)
(* Elements.  A page carries one element, so the element behind a ref is   *)
(* the page it is on; the ref string is the same on every page, which is   *)
(* what makes a citation of a dead page dangerous.  Playwright's aria-ref  *)
(* resolves a ref only in a document that has been snapshotted (`marked`). *)
(***************************************************************************)
EXTENDS Naturals, Sequences

CONSTANTS
    Calls,      \* the tool calls the gateways are asked to make
    Servers,    \* the server replicas; each keeps its own session cache
    ServerOf,   \* the replica a call lands on
    Pages,      \* the pages the browser can show, each with one element
    Policies,   \* the policies an administrator may install
    ReportsSessions, \* whether the provider has `sessionOf` (docker) or not (shared)
    Sequential, \* whether the environment does one thing at a time (see Quiet)
    MaxGen,     \* bound on the computer's snapshot counter
    MaxRun,     \* bound on how often the computer is started
    MaxCrashes  \* bound on server crashes

Blank    == "about:blank"   \* a browser that has been sent nowhere; it has no element
Nothing  == "nothing"       \* no element: none was cited, or the citation did not resolve
Shown    == Pages \cup {Blank}
Subjects == Pages \cup {Nothing}
Unknown  == 0               \* the session a process has not learnt, or was not told

\* "act" is click, type and key with a ref; "plain" is key without a ref, scroll, a shell
\* command, a file call or a loaded session; "snapshot" is not governed.
Tools == {"act", "plain", "navigate", "snapshot"}
Rows  == [gen : 0..MaxGen, page : Shown, session : 0..MaxRun]
\* No snapshot is stored.  Generations count from one, so zero marks the absence.
NoRow == [gen |-> 0, page |-> Blank, session |-> Unknown]

-----------------------------------------------------------------------------
(***************************************************************************)
(* The action policy of server/src/computer/policy.ts, as a pure function. *)
(*                                                                         *)
(* A rule is a CEL expression.  What evaluating it can come to is all that *)
(* the boundary tells apart, so a rule here is a function from subjects    *)
(* (what the action is about: the element it names, or nothing) to         *)
(*   "true"    the rule applies,                                           *)
(*   "false"   it does not,                                                *)
(*   "broken"  the expression threw, or answered with a non-boolean.       *)
(*                                                                         *)
(* A policy is a mode and two lists of rules.  An absent policy is the     *)
(* policy with no rules in the mode "enforce".                             *)
(***************************************************************************)
Answers == {"true", "false", "broken"}
Modes   == {"enforce", "dry-run"}
Rules(subjects)    == [subjects -> Answers]
PolicyOf(subjects) == [mode : Modes, deny : Seq(Rules(subjects)), allow : Seq(Rules(subjects))]

Decisions == [allowed : BOOLEAN, source : {"deny", "allow", "default"}, forward : BOOLEAN]

\* `matches`: a broken expression means whatever the list it stands in calls safe.
Matches(rule, subject, onError) ==
    \/ rule[subject] = "true"
    \/ rule[subject] = "broken" /\ onError

Hit(list, subject, onError) == \E i \in DOMAIN list : Matches(list[i], subject, onError)

\* `evaluateActionPolicy`: deny first, then allow, then the floor, which refuses.
\* A refusal is carried out all the same in dry-run.
Evaluate(policy, subject) ==
    LET denied  == Hit(policy.deny, subject, TRUE)
        allowed == ~denied /\ Hit(policy.allow, subject, FALSE)
    IN  [allowed |-> allowed,
         source  |-> IF denied THEN "deny" ELSE IF allowed THEN "allow" ELSE "default",
         forward |-> allowed \/ policy.mode = "dry-run"]

-----------------------------------------------------------------------------
ASSUME ServerAssumption == ServerOf \in [Calls -> Servers]
ASSUME PageAssumption   == Blank \notin Pages /\ Nothing \notin Pages
ASSUME PolicyAssumption == Policies # {} /\ Policies \subseteq PolicyOf(Subjects)
ASSUME ModeAssumption   == ReportsSessions \in BOOLEAN /\ Sequential \in BOOLEAN
ASSUME BoundAssumption  == MaxGen \in Nat /\ MaxRun \in Nat \ {0} /\ MaxCrashes \in Nat

VARIABLES
    \* the gateway's side of a call
    pc,       \* how far the server has got with the call
    tool,     \* which tool it is
    cited,    \* the generation its ref came from, 0 when it cites none
    loaded,   \* the stored snapshot it was resolved against
    judged,   \* the element the policy was shown
    verdict,  \* the policy's decision
    \* the computer's side of a call
    job,      \* how far the computer has got with the request
    snap,     \* for a snapshot: the page described and the generation stamped on it
    hit,      \* for an action: the page it landed on
    \* shared state
    run, gen, page, marked,  \* the computer: which start of it, its counter, its page
    row,      \* computer_snapshot: the one stored snapshot of this computer
    known,    \* supervisor.ts `sessions`: the run each server process last heard of
    trail,    \* audit_events about this computer
    policy,   \* the policy in force
    resetting,\* resetComputer: between wiping the computer and clearing the row
    crashes

callVars     == <<tool, cited, loaded, judged, verdict>>
jobVars      == <<job, snap, hit>>
computerVars == <<run, gen, page, marked>>
restVars     == <<policy, resetting, crashes>>
vars == <<pc, callVars, jobVars, computerVars, row, known, trail, restVars>>

NoDecision == [allowed |-> FALSE, source |-> "default", forward |-> FALSE]

Waiting  == {"idle"}
Over     == {"returned", "refused", "failed", "errored", "dead"}
Underway == {"begun", "loaded", "decided", "recorded", "sent", "failing",
             "snapping", "snapped"}
JobOver  == {"none", "landed", "turned down", "described"}

Event(c, e, carried) == [call |-> c, event |-> e, carriedOut |-> carried]
DecisionRow(c) == Event(c, IF verdict[c].allowed THEN "action_allowed" ELSE "action_refused",
                        verdict[c].forward)
FailureRow(c)  == Event(c, "action_failed", verdict[c].forward)

TypeOK ==
    /\ pc \in [Calls -> Waiting \cup Underway \cup Over]
    /\ tool \in [Calls -> Tools]
    /\ cited \in [Calls -> 0..MaxGen]
    /\ loaded \in [Calls -> Rows]
    /\ judged \in [Calls -> Subjects]
    /\ verdict \in [Calls -> Decisions]
    /\ job \in [Calls -> JobOver \cup {"asked", "admitted", "opened", "counted", "captured"}]
    /\ snap \in [Calls -> [gen : 0..MaxGen, page : Shown]]
    /\ hit \in [Calls -> Shown \cup {Nothing}]
    /\ run \in 1..MaxRun /\ gen \in 0..MaxGen /\ page \in Shown /\ marked \in BOOLEAN
    /\ row \in Rows
    /\ known \in [Servers -> 0..MaxRun]
    /\ trail \subseteq [call : Calls, carriedOut : BOOLEAN,
                        event : {"action_allowed", "action_refused", "action_failed"}]
    /\ policy \in Policies
    /\ resetting \in BOOLEAN
    /\ crashes \in 0..MaxCrashes

Init ==
    /\ pc = [c \in Calls |-> "idle"]
    /\ tool = [c \in Calls |-> "snapshot"]
    /\ cited = [c \in Calls |-> 0]
    /\ loaded = [c \in Calls |-> NoRow]
    /\ judged = [c \in Calls |-> Nothing]
    /\ verdict = [c \in Calls |-> NoDecision]
    /\ job = [c \in Calls |-> "none"]
    /\ snap = [c \in Calls |-> [gen |-> 0, page |-> Blank]]
    /\ hit = [c \in Calls |-> Nothing]
    /\ run = 1 /\ gen = 0 /\ page = Blank /\ marked = FALSE
    /\ row = NoRow
    /\ known = [s \in Servers |-> Unknown]
    /\ trail = {}
    /\ policy \in Policies
    /\ resetting = FALSE
    /\ crashes = 0

\* Nothing is under way.  In a Sequential environment a call, a restart of the computer and a
\* reset begin only when this holds; otherwise they overlap as they please.
Quiet == /\ \A c \in Calls : pc[c] \notin Underway /\ job[c] \in JobOver
         /\ ~resetting
MayStart == Sequential => Quiet

Step(c, from, to) == pc[c] = from /\ pc' = [pc EXCEPT ![c] = to]

-----------------------------------------------------------------------------
(* The gateway: govern. *)

\* A governed tool is called.  The ref a model cites may come from any snapshot it was ever
\* shown, so the generation is any the counter can have reached.
BeginGoverned(c, t, g) ==
    /\ MayStart
    /\ t # "snapshot" /\ (g # 0 <=> t = "act")
    /\ Step(c, "idle", "begun")
    /\ tool' = [tool EXCEPT ![c] = t]
    /\ cited' = [cited EXCEPT ![c] = g]
    /\ UNCHANGED <<loaded, judged, verdict, jobVars, computerVars, row, known, trail, restVars>>

Load(c) ==
    /\ Step(c, "begun", "loaded")
    /\ loaded' = [loaded EXCEPT ![c] = row]
    /\ UNCHANGED <<tool, cited, judged, verdict, jobVars, computerVars, row, known, trail, restVars>>

\* `resolve`: the element a citation names, or nothing.  Two sessions are compared only when
\* both are known.
ResolveAnySession(stored, g, session) ==
    IF g = 0 \/ stored = NoRow THEN Nothing
    ELSE IF stored.gen # g \/ stored.page = Blank THEN Nothing ELSE stored.page
Resolve(stored, g, session) ==
    IF g = 0 \/ stored = NoRow THEN Nothing
    ELSE IF \/ stored.gen # g
            \/ session # Unknown /\ stored.session # Unknown /\ stored.session # session
            \/ stored.page = Blank
         THEN Nothing ELSE stored.page

\* The element is resolved against the run this process last heard of, and judged.
Decide(c) ==
    /\ Step(c, "loaded", "decided")
    /\ LET element == Resolve(loaded[c], cited[c], known[ServerOf[c]])
       IN  /\ judged' = [judged EXCEPT ![c] = element]
           /\ verdict' = [verdict EXCEPT ![c] = Evaluate(policy, element)]
    /\ UNCHANGED <<tool, cited, loaded, jobVars, computerVars, row, known, trail, restVars>>

\* A ref was cited against a snapshot this server holds and did not resolve.
Unresolved(c) == cited[c] # 0 /\ loaded[c] # NoRow /\ judged[c] = Nothing

\* The decision row is inserted; then a refusal is thrown, a citation that could not be honoured
\* is turned into a failure, and anything else goes to the computer.
Record(c) ==
    /\ Step(c, "decided", IF ~verdict[c].forward THEN "refused"
                          ELSE IF Unresolved(c) THEN "failing" ELSE "recorded")
    /\ trail' = trail \cup {DecisionRow(c)}
    /\ UNCHANGED <<callVars, jobVars, computerVars, row, known, restVars>>

\* The insert throws, and the call ends there: nothing is sent.
RecordThrowsOn(c) ==
    /\ Step(c, "decided", "recorded")
    /\ UNCHANGED <<callVars, jobVars, computerVars, row, known, trail, restVars>>
RecordThrows(c) ==
    /\ Step(c, "decided", "errored")
    /\ UNCHANGED <<callVars, jobVars, computerVars, row, known, trail, restVars>>

\* `locate` asks the provider for the address, which for the supervisor is an ensure whose answer
\* carries the run; the request is then posted.
LocateNextRun(c) ==
    /\ Step(c, "recorded", "sent")
    /\ known' = IF ReportsSessions THEN [known EXCEPT ![ServerOf[c]] = run + 1] ELSE known
    /\ job' = [job EXCEPT ![c] = "asked"]
    /\ UNCHANGED <<callVars, snap, hit, computerVars, row, trail, restVars>>
Locate(c) ==
    /\ Step(c, "recorded", "sent")
    /\ known' = IF ReportsSessions THEN [known EXCEPT ![ServerOf[c]] = run] ELSE known
    /\ job' = [job EXCEPT ![c] = "asked"]
    /\ UNCHANGED <<callVars, snap, hit, computerVars, row, trail, restVars>>

\* The run of the action throws: no address, no grant, a target that may not be opened, a
\* deadline, a person's Stop, an error answer.  The computer may be at work on it all the same.
RunThrows(c) ==
    /\ pc[c] \in {"recorded", "sent"}
    /\ Sequential => job[c] \in JobOver
    /\ pc' = [pc EXCEPT ![c] = "failing"]
    /\ UNCHANGED <<callVars, jobVars, computerVars, row, known, trail, restVars>>

\* The failure row beside the decision row, and the error goes to the caller.
RecordFailureAlone(c) ==
    /\ Step(c, "failing", "failed")
    /\ UNCHANGED <<callVars, jobVars, computerVars, row, known, trail, restVars>>
RecordFailure(c) ==
    /\ Step(c, "failing", "failed")
    /\ trail' = trail \cup {FailureRow(c)}
    /\ UNCHANGED <<callVars, jobVars, computerVars, row, known, restVars>>

RecordFailureThrows(c) ==
    /\ Step(c, "failing", "errored")
    /\ UNCHANGED <<callVars, jobVars, computerVars, row, known, trail, restVars>>

\* The computer's 200 reaches the server and the call resolves.
Return(c) ==
    /\ job[c] = "landed"
    /\ Step(c, "sent", "returned")
    /\ UNCHANGED <<callVars, jobVars, computerVars, row, known, trail, restVars>>

-----------------------------------------------------------------------------
(* The gateway: snapshot. *)

BeginSnapshot(c) ==
    /\ MayStart
    /\ Step(c, "idle", "snapping")
    /\ tool' = [tool EXCEPT ![c] = "snapshot"]
    /\ known' = IF ReportsSessions THEN [known EXCEPT ![ServerOf[c]] = run] ELSE known
    /\ job' = [job EXCEPT ![c] = "asked"]
    /\ UNCHANGED <<cited, loaded, judged, verdict, snap, hit, computerVars, row, trail, restVars>>

SnapshotArrives(c) ==
    /\ job[c] = "described"
    /\ Step(c, "snapping", "snapped")
    /\ UNCHANGED <<callVars, jobVars, computerVars, row, known, trail, restVars>>

\* `save`: forward within a session, and always across one.
SaveWins(old, new) ==
    \/ old = NoRow
    \/ old.gen < new.gen
    \/ old.session # new.session

Save(c) ==
    LET new == [gen |-> snap[c].gen, page |-> snap[c].page, session |-> known[ServerOf[c]]]
    IN  /\ Step(c, "snapped", "returned")
        /\ row' = IF SaveWins(row, new) THEN new ELSE row
        /\ UNCHANGED <<callVars, jobVars, computerVars, known, trail, restVars>>

\* The snapshot call fails before the row is written: no answer, an error answer, a deadline, or
\* the database refusing the write.
SnapshotThrows(c) ==
    /\ pc[c] \in {"snapping", "snapped"}
    /\ Sequential => job[c] \in JobOver
    /\ pc' = [pc EXCEPT ![c] = "errored"]
    /\ UNCHANGED <<callVars, jobVars, computerVars, row, known, trail, restVars>>

-----------------------------------------------------------------------------
(* The computer: snapshotPage, locateRef, performAction and /navigate. *)

\* The session of agent-computer counts the snapshot before the browser is asked for it.
Count(c) ==
    /\ tool[c] = "snapshot" /\ job[c] = "asked" /\ gen < MaxGen
    /\ gen' = gen + 1
    /\ job' = [job EXCEPT ![c] = "counted"]
    /\ UNCHANGED <<pc, callVars, snap, hit, run, page, marked, row, known, trail, restVars>>

\* The browser describes the page, which is what makes refs resolve on it.
Capture(c) ==
    /\ job[c] = "counted"
    /\ snap' = [snap EXCEPT ![c].page = page]
    /\ marked' = TRUE
    /\ job' = [job EXCEPT ![c] = "captured"]
    /\ UNCHANGED <<pc, callVars, hit, run, gen, page, row, known, trail, restVars>>

\* The answer is stamped with the counter as it is when the description is back.
Stamp(c) ==
    /\ job[c] = "captured"
    /\ snap' = [snap EXCEPT ![c].gen = gen]
    /\ job' = [job EXCEPT ![c] = "described"]
    /\ UNCHANGED <<pc, callVars, hit, computerVars, row, known, trail, restVars>>

\* locateRef: a citation of another generation is turned down.
Admit(c) ==
    /\ tool[c] \in {"act", "plain", "navigate"} /\ job[c] = "asked"
    /\ cited[c] # 0 => cited[c] = gen
    /\ job' = [job EXCEPT ![c] = "admitted"]
    /\ UNCHANGED <<pc, callVars, snap, hit, computerVars, row, known, trail, restVars>>

\* The request is turned down: a stale citation, a ref that names nothing, a person at the wheel,
\* a navigation that failed, an action that timed out, a browser that would not start.
TurnDown(c) ==
    /\ job[c] \notin JobOver
    /\ job' = [job EXCEPT ![c] = "turned down"]
    /\ UNCHANGED <<pc, callVars, snap, hit, computerVars, row, known, trail, restVars>>

\* A click, a type or a key on an element: the ref resolves to whatever holds it now.
ActOnElement(c) ==
    /\ tool[c] = "act" /\ job[c] = "admitted"
    /\ marked /\ page # Blank
    /\ hit' = [hit EXCEPT ![c] = page]
    /\ job' = [job EXCEPT ![c] = "landed"]
    /\ UNCHANGED <<pc, callVars, snap, computerVars, row, known, trail, restVars>>

ActPlainly(c) ==
    /\ tool[c] = "plain" /\ job[c] = "admitted"
    /\ hit' = [hit EXCEPT ![c] = page]
    /\ job' = [job EXCEPT ![c] = "landed"]
    /\ UNCHANGED <<pc, callVars, snap, computerVars, row, known, trail, restVars>>

\* goto opens the document, and the generation moves once it has loaded.
Goto(c) ==
    /\ tool[c] = "navigate" /\ job[c] = "admitted"
    /\ \E p \in Pages : page' = p /\ hit' = [hit EXCEPT ![c] = p]
    /\ marked' = FALSE
    /\ job' = [job EXCEPT ![c] = "opened"]
    /\ UNCHANGED <<pc, callVars, snap, run, gen, row, known, trail, restVars>>
NavigateCounts(c) ==
    /\ job[c] = "opened" /\ gen < MaxGen
    /\ gen' = gen + 1
    /\ job' = [job EXCEPT ![c] = "landed"]
    /\ UNCHANGED <<pc, callVars, snap, hit, run, page, marked, row, known, trail, restVars>>

-----------------------------------------------------------------------------
(* The world around a call. *)

\* The page goes somewhere by itself: a script, a link that was clicked, a person at the wheel.
\* No generation is counted for it.
PageMoves ==
    /\ page' \in Pages /\ marked' = FALSE
    /\ UNCHANGED <<pc, callVars, jobVars, run, gen, row, known, trail, restVars>>

\* A computer that starts again counts from zero, on a blank page.  What it had begun dies with
\* it; a request still on its way reaches the computer now at that address.
StartAgain ==
    /\ run < MaxRun
    /\ run' = run + 1 /\ gen' = 0 /\ page' = Blank /\ marked' = FALSE
    /\ job' = [c \in Calls |-> IF job[c] \in JobOver \cup {"asked"} THEN job[c] ELSE "turned down"]
    /\ UNCHANGED <<snap, hit>>

\* The container is replaced or restarted; the servers are not told.
Restart ==
    /\ MayStart
    /\ StartAgain
    /\ UNCHANGED <<pc, callVars, row, known, trail, restVars>>

\* resetComputer: the provider wipes the computer, then the snapshot row is cleared.
Reset ==
    /\ MayStart /\ ~resetting
    /\ StartAgain
    /\ resetting' = TRUE
    /\ UNCHANGED <<pc, callVars, row, known, trail, policy, crashes>>
ClearRow ==
    /\ resetting
    /\ row' = NoRow
    /\ resetting' = FALSE
    /\ UNCHANGED <<pc, callVars, jobVars, computerVars, known, trail, policy, crashes>>

\* A server process dies: its calls go with it and so does what it had heard of runs.  What it
\* had asked of the computer is not called back.
Crash(s) ==
    /\ crashes < MaxCrashes
    /\ crashes' = crashes + 1
    /\ pc' = [c \in Calls |-> IF ServerOf[c] = s /\ pc[c] \in Underway THEN "dead" ELSE pc[c]]
    /\ known' = [known EXCEPT ![s] = Unknown]
    /\ UNCHANGED <<callVars, jobVars, computerVars, row, trail, policy, resetting>>

\* An administrator changes the policy; the next decision uses it.
ChangePolicy ==
    /\ policy' \in Policies \ {policy}
    /\ UNCHANGED <<pc, callVars, jobVars, computerVars, row, known, trail, resetting, crashes>>

-----------------------------------------------------------------------------
Govern(c) ==
    \/ \E t \in Tools, g \in 0..MaxGen : BeginGoverned(c, t, g)
    \/ Load(c) \/ Decide(c)
    \/ Record(c) \/ RecordThrows(c)
    \/ Locate(c) \/ RunThrows(c)
    \/ RecordFailure(c) \/ RecordFailureThrows(c)
    \/ Return(c)
Snapshot(c) == BeginSnapshot(c) \/ SnapshotArrives(c) \/ Save(c) \/ SnapshotThrows(c)
Computer(c) ==
    \/ Count(c) \/ Capture(c) \/ Stamp(c)
    \/ Admit(c) \/ TurnDown(c)
    \/ ActOnElement(c) \/ ActPlainly(c) \/ Goto(c) \/ NavigateCounts(c)
World == PageMoves \/ Restart \/ Reset \/ ClearRow \/ ChangePolicy \/ \E s \in Servers : Crash(s)

Next == World \/ \E c \in Calls : Govern(c) \/ Snapshot(c) \/ Computer(c)
Spec == Init /\ [][Next]_vars

-----------------------------------------------------------------------------
(* What the boundary promises. *)

\* Whether anything of a governed call has reached the browser: a document opened counts.
Reached(c) == tool[c] # "snapshot" /\ hit[c] # Nothing

\* No path acts without the record existing first (gateway.ts `govern`, "Decide, record, then
\* act"): whatever a governed call did to the browser, the trail already holds its decision row,
\* and that row says it was to be carried out.  A refusal in "enforce" therefore never lands.
RecordedFirst ==
    \A c \in Calls : Reached(c) =>
        \E e \in trail : e.call = c /\ e.event # "action_failed" /\ e.carriedOut

\* The trail tells an outcome from a permission (gateway.ts, the failure row): a call that
\* resolved has reached the browser and has no failure row, a call that failed has one, and a
\* failure row never stands without a decision row that let the call through.
TrailTellsOutcome ==
    \A c \in Calls :
        /\ tool[c] # "snapshot" /\ pc[c] = "returned" =>
              Reached(c) /\ ~\E e \in trail : e.call = c /\ e.event = "action_failed"
        /\ pc[c] = "failed" => FailureRow(c) \in trail
        /\ FailureRow(c) \in trail => verdict[c].forward /\ DecisionRow(c) \in trail

\* What the policy was shown is what was acted on (gateway.ts `resolve`: "the policy must never
\* decide on an element the caller has already scrolled off the page").  A call with no stored
\* snapshot to judge against is left to the computer and excepted, as it is in the code.
JudgedIsActedOn ==
    \A c \in Calls : tool[c] = "act" /\ Reached(c) /\ loaded[c] # NoRow => judged[c] = hit[c]

-----------------------------------------------------------------------------
(* The invariant that makes the first two inductive: where a call stands says what has been    *)
(* written about it and whether the computer has been asked.                                   *)

CallKinds(c) ==
    /\ pc[c] \in {"begun", "loaded", "decided", "recorded", "sent", "failing", "refused", "failed"}
          => tool[c] # "snapshot"
    /\ pc[c] \in {"snapping", "snapped"} => tool[c] = "snapshot"

\* The computer is asked only once the call has been let through, and a browser is reached only
\* by a job that was asked for.
JobFollowsCall(c) ==
    /\ pc[c] \in {"idle", "begun", "loaded", "decided", "recorded"} => job[c] = "none"
    /\ job[c] \in {"none", "asked"} => hit[c] = Nothing
    /\ job[c] \in {"landed", "opened"} => hit[c] # Nothing
    /\ tool[c] = "snapshot" => job[c] \notin {"landed", "opened"}

\* Once let through, the decision stands in the trail and is not made again.
LetThrough(c) ==
    \/ pc[c] \in {"recorded", "sent", "failing", "failed"}
    \/ tool[c] # "snapshot" /\ job[c] # "none"
DecisionStands(c) == LetThrough(c) => verdict[c].forward /\ DecisionRow(c) \in trail

FailureStands(c) ==
    /\ pc[c] = "failed" => FailureRow(c) \in trail
    /\ \A e \in trail : e.call = c /\ e.event = "action_failed" => pc[c] = "failed"
    /\ tool[c] # "snapshot" /\ pc[c] = "returned" => job[c] = "landed"

RecordInv == \A c \in Calls :
    CallKinds(c) /\ JobFollowsCall(c) /\ DecisionStands(c) /\ FailureStands(c)

=============================================================================
