----------------------------- MODULE Supervisor -----------------------------
(***************************************************************************)
(* The supervisor of one machine: the HTTP routes of                       *)
(* supervisor/src/index.ts that change what runs (`ensure`, `stop`,        *)
(* `reset`), the admission of slice.ts and the Docker backend of docker.ts.*)
(*                                                                         *)
(* A request is a handler; each answer it awaits from Docker is a step, so *)
(* what one handler has read may be stale when it acts on it.  Everything  *)
(* but reading is done by container name.  The routes keep no state of     *)
(* their own: what runs is asked of Docker each time.                      *)
(*                                                                         *)
(* Of a Bot's two volumes the profile is followed; the workspace volume is *)
(* created beside it and no verb removes it.  A container Docker restarts  *)
(* by itself stays in a counted state throughout and is shown as running.  *)
(* The reservation is the supervisor's configuration, the same for every   *)
(* computer it makes, so the label on each container is left out.          *)
(***************************************************************************)
EXTENDS Naturals, FiniteSets

CONSTANTS
    Requests,     \* as many requests as are served at the same time
    Bots,
    Budget,       \* the slice: what the owner dedicated, by dimension; absent is unlimited
    perComputer,  \* what one computer reserves, by dimension
    MaxUpgrades   \* bound on how often the image is rebuilt

Dimensions == {"cpus", "memory"}
ATTEMPTS   == 2

ASSUME BudgetAssumption ==
    /\ DOMAIN Budget \subseteq Dimensions
    /\ \A d \in DOMAIN Budget : Budget[d] \in Nat \ {0}
ASSUME ReservationAssumption == perComputer \in [Dimensions -> Nat \ {0}]
ASSUME MachineAssumption     == IsFiniteSet(Bots) /\ Bots # {} /\ MaxUpgrades \in Nat

VARIABLES
    \* Docker
    box,        \* the container holding each Bot's name
    profile,    \* each Bot's profile volume: none, blank, or holding logins ("used")
    current,    \* the image the tag stands for
    \* the requests
    pc, bot,
    seen,       \* the container a request read, before it acts on its name
    left,       \* ensure's attempts left
    overlapped  \* history: some request began while another was being served

dockerVars  == <<box, profile, current>>
requestVars == <<pc, bot, seen, left, overlapped>>
vars == <<dockerVars, requestVars>>

Images == 0..MaxUpgrades
Ours == [owner : {"us"}, status : {"created", "running", "exited"}, image : Images]
Foreign(s) == [owner |-> "somebody", status |-> s, image |-> 0]
Absent     == [owner |-> "nobody", status |-> "none", image |-> 0]
Boxes      == Ours \cup {Foreign("running"), Foreign("exited"), Absent}

Over   == {"ready", "full", "held", "failed", "stopped", "reset", "not there"}
Ensuring == {"listing", "inspecting", "judging", "removing", "volumes", "creating", "disputing",
             "starting", "answering"}
Stopping  == {"stop inspecting", "stopping"}
Resetting == {"reset inspecting", "clearing", "wiping"}
Served    == Ensuring \cup Stopping \cup Resetting

TypeOK ==
    /\ box \in [Bots -> Boxes]
    /\ profile \in [Bots -> {"none", "blank", "used"}]
    /\ current \in Images
    /\ pc \in [Requests -> {"idle"} \cup Served \cup Over]
    /\ bot \in [Requests -> Bots]
    /\ seen \in [Requests -> Ours \cup {Absent}]
    /\ left \in [Requests -> 1..ATTEMPTS]
    /\ overlapped \in BOOLEAN

Init ==
    /\ box = [b \in Bots |-> Absent]
    /\ profile = [b \in Bots |-> "none"]
    /\ current = 0
    /\ pc = [r \in Requests |-> "idle"]
    /\ bot \in [Requests -> Bots]
    /\ seen = [r \in Requests |-> Absent]
    /\ left = [r \in Requests |-> ATTEMPTS]
    /\ overlapped = FALSE

\* Ownership is a label on the container; one without it is treated as absent when read.
Owned(c) == c.owner = "us"
OwnedOrAbsent(b) == IF Owned(box[b]) THEN box[b] ELSE Absent

\* countsAgainstBudget: a stopped computer holds nothing.
Counts(c) == Owned(c) /\ c.status \in {"created", "running"}
Counted   == {b \in Bots : Counts(box[b])}
usedBy(d) == Cardinality(Counted) * perComputer[d]

\* slice.ts `admit`: one more computer fits in every dimension that has a limit.
admitFirst(requested) == \E d \in DOMAIN Budget : usedBy(d) + requested[d] <= Budget[d]
admit(requested)      == \A d \in DOMAIN Budget : usedBy(d) + requested[d] <= Budget[d]

Go(r, from, to) == pc[r] = from /\ pc' = [pc EXCEPT ![r] = to]

\* A request arrives at a route.
Begin(r) ==
    /\ pc[r] \notin Served
    /\ \E route \in {"listing", "stop inspecting", "reset inspecting"} :
          pc' = [pc EXCEPT ![r] = route]
    /\ \E b \in Bots : bot' = [bot EXCEPT ![r] = b]
    /\ left' = [left EXCEPT ![r] = ATTEMPTS]
    /\ overlapped' = (overlapped \/ \E q \in Requests : pc[q] \in Served)
    /\ UNCHANGED <<dockerVars, seen>>

-----------------------------------------------------------------------------
(* POST /computers/:botId/ensure *)

\* The listing, and the admission decided on it: a Bot whose computer already counts is not
\* asked to fit again.  A full slice is answered 429.
List(r) ==
    /\ Go(r, "listing", IF Counts(box[bot[r]]) \/ admit(perComputer) THEN "inspecting" ELSE "full")
    /\ UNCHANGED <<dockerVars, bot, seen, left, overlapped>>

Inspect(r) ==
    /\ Go(r, "inspecting", IF Owned(box[bot[r]]) THEN "judging" ELSE "volumes")
    /\ seen' = [seen EXCEPT ![r] = OwnedOrAbsent(bot[r])]
    /\ UNCHANGED <<dockerVars, bot, left, overlapped>>

\* runsCurrentImage: compared with what the tag stands for now.  Docker may not say, which counts
\* as current.  A computer that was seen running needs no start.  What was seen is not used again.
AfterJudging(r) == IF seen[r].status = "running" THEN "answering" ELSE "starting"
JudgeReplaces(r) ==
    /\ Go(r, "judging", "removing")
    /\ seen' = [seen EXCEPT ![r] = Absent]
    /\ UNCHANGED <<dockerVars, bot, left, overlapped>>
Judge(r) ==
    /\ \/ Go(r, "judging", "removing") /\ seen[r].image # current
       \/ Go(r, "judging", AfterJudging(r))
    /\ seen' = [seen EXCEPT ![r] = Absent]
    /\ UNCHANGED <<dockerVars, bot, left, overlapped>>

\* The computer on an old image is removed, by name and by force.  Its volumes stay.
RemoveStale(r) ==
    /\ Go(r, "removing", "volumes")
    /\ box' = [box EXCEPT ![bot[r]] = Absent]
    /\ UNCHANGED <<profile, current, bot, seen, left, overlapped>>

\* The profile volume and then the workspace volume, which may fail once the first is made.  A
\* volume that exists is kept as it is.
WithProfile(b) == [profile EXCEPT ![b] = IF @ = "none" THEN "blank" ELSE @]
CreateVolumes(r) ==
    /\ Go(r, "volumes", "creating") \/ Go(r, "volumes", "failed")
    /\ profile' = WithProfile(bot[r])
    /\ UNCHANGED <<box, current, bot, seen, left, overlapped>>

\* The container is created with the configured reservation, mounting its volumes (Docker
\* creates one that has gone missing); or the name is taken, and 409 does not say by whom.
CreateAdopts(r) ==
    /\ IF box[bot[r]] = Absent
       THEN /\ box' = [box EXCEPT ![bot[r]] = [owner |-> "us", status |-> "created",
                                               image |-> current]]
            /\ profile' = WithProfile(bot[r])
       ELSE UNCHANGED <<box, profile>>
    /\ Go(r, "creating", "starting")
    /\ UNCHANGED <<current, bot, seen, left, overlapped>>
Create(r) ==
    /\ IF box[bot[r]] = Absent
       THEN /\ Go(r, "creating", "starting")
            /\ box' = [box EXCEPT ![bot[r]] = [owner |-> "us", status |-> "created",
                                               image |-> current]]
            /\ profile' = WithProfile(bot[r])
       ELSE /\ Go(r, "creating", "disputing")
            /\ UNCHANGED <<box, profile>>
    /\ UNCHANGED <<current, bot, seen, left, overlapped>>

\* Only a name held by a computer of ours is gone on with; the rest is answered 409.
Dispute(r) ==
    /\ Go(r, "disputing", IF Owned(box[bot[r]]) THEN "starting" ELSE "held")
    /\ UNCHANGED <<dockerVars, bot, seen, left, overlapped>>

\* Started by name; a computer already running answers 304, which is as good.
Start(r) ==
    /\ box[bot[r]] # Absent
    /\ Go(r, "starting", "answering")
    /\ box' = [box EXCEPT ![bot[r]] = [@ EXCEPT !.status = "running"]]
    /\ UNCHANGED <<profile, current, bot, seen, left, overlapped>>

\* 404: the name is gone, or the daemon has not published it yet.  The attempt is spent and the
\* computer built again, once.
StartMissesAgain(r) ==
    /\ box[bot[r]].status \in {"none", "created"}
    /\ left' = [left EXCEPT ![r] = @ - 1] /\ Go(r, "starting", "inspecting")
    /\ UNCHANGED <<dockerVars, bot, seen, overlapped>>
StartMisses(r) ==
    /\ box[bot[r]].status \in {"none", "created"}
    /\ \/ left[r] > 1 /\ left' = [left EXCEPT ![r] = @ - 1] /\ Go(r, "starting", "inspecting")
       \/ left[r] = 1 /\ UNCHANGED left /\ Go(r, "starting", "failed")
    /\ UNCHANGED <<dockerVars, bot, seen, overlapped>>

\* waitUntilAnswering: the container of that name runs and is healthy.
Ready(r) ==
    /\ box[bot[r]].status = "running"
    /\ Go(r, "answering", "ready")
    /\ UNCHANGED <<dockerVars, bot, seen, left, overlapped>>
NotAnswering(r) ==
    /\ Go(r, "answering", "failed")
    /\ UNCHANGED <<dockerVars, bot, seen, left, overlapped>>

\* Any call to Docker may fail for a reason no branch expects; the route answers 503.
DockerFails(r) ==
    /\ pc[r] \in Served \ {"judging", "answering"}
    /\ pc' = [pc EXCEPT ![r] = "failed"]
    /\ UNCHANGED <<dockerVars, bot, seen, left, overlapped>>

-----------------------------------------------------------------------------
(* POST /computers/:botId/stop and /reset *)

StopInspect(r) ==
    /\ Go(r, "stop inspecting", IF Owned(box[bot[r]]) THEN "stopping" ELSE "not there")
    /\ UNCHANGED <<dockerVars, bot, seen, left, overlapped>>
Stop(r) ==
    /\ Go(r, "stopping", "stopped")
    /\ box' = [box EXCEPT ![bot[r]] = IF @.status = "running" THEN [@ EXCEPT !.status = "exited"]
                                      ELSE @]
    /\ UNCHANGED <<profile, current, bot, seen, left, overlapped>>

ResetInspect(r) ==
    /\ Go(r, "reset inspecting", IF Owned(box[bot[r]]) THEN "clearing" ELSE "not there")
    /\ UNCHANGED <<dockerVars, bot, seen, left, overlapped>>
ClearStops(r) ==
    /\ Go(r, "clearing", "wiping")
    /\ box' = [box EXCEPT ![bot[r]] = IF @ = Absent THEN @ ELSE [@ EXCEPT !.status = "exited"]]
    /\ UNCHANGED <<profile, current, bot, seen, left, overlapped>>
Clear(r) ==
    /\ Go(r, "clearing", "wiping")
    /\ box' = [box EXCEPT ![bot[r]] = Absent]
    /\ UNCHANGED <<profile, current, bot, seen, left, overlapped>>
\* Docker refuses to remove a volume a container mounts; the refusal is passed over.
Wipe(r) ==
    /\ Go(r, "wiping", "reset")
    /\ profile' = [profile EXCEPT ![bot[r]] = IF Owned(box[bot[r]]) THEN @ ELSE "none"]
    /\ UNCHANGED <<box, current, bot, seen, left, overlapped>>

-----------------------------------------------------------------------------
(* The machine. *)

\* The Bot signs in somewhere.
LogIn(b) ==
    /\ Owned(box[b]) /\ box[b].status = "running"
    /\ profile' = [profile EXCEPT ![b] = "used"]
    /\ UNCHANGED <<box, current, requestVars>>

\* Somebody else makes a container with the name.
Squat(b) ==
    /\ box[b] = Absent
    /\ \E s \in {"running", "exited"} : box' = [box EXCEPT ![b] = Foreign(s)]
    /\ UNCHANGED <<profile, current, requestVars>>

\* The image is rebuilt: the tag moves.
Upgrade ==
    /\ current < MaxUpgrades
    /\ current' = current + 1
    /\ UNCHANGED <<box, profile, requestVars>>

-----------------------------------------------------------------------------
Ensure(r) ==
    \/ List(r) \/ Inspect(r) \/ Judge(r) \/ RemoveStale(r)
    \/ CreateVolumes(r) \/ Create(r) \/ Dispute(r)
    \/ Start(r) \/ StartMisses(r) \/ Ready(r) \/ NotAnswering(r)
Serve(r) ==
    \/ Ensure(r)
    \/ StopInspect(r) \/ Stop(r)
    \/ ResetInspect(r) \/ Clear(r) \/ Wipe(r)
    \/ DockerFails(r)
Machine == Upgrade \/ \E b \in Bots : LogIn(b) \/ Squat(b)

Next == Machine \/ \E r \in Requests : Begin(r) \/ Serve(r)
Spec == Init /\ [][Next]_vars

-----------------------------------------------------------------------------
(* What the supervisor promises. *)

WithinBudget == \A d \in DOMAIN Budget : usedBy(d) <= Budget[d]

\* slice.ts: "a new computer is admitted only while the sum of running reservations stays inside
\* the budget".  It does for as long as no two requests have overlapped.
SliceHolds == ~overlapped => WithinBudget

\* The same for requests that overlap, as the requests of two Bots do.
SliceAlwaysHolds == WithinBudget

\* docker.ts `ensure`: an owned container "is started if stopped, and otherwise left exactly as it
\* is".  A running computer on the current image changes only when a stop or a reset of that Bot
\* acts on it, never under an ensure, whatever upgrades come between.
KeepsCurrent ==
    [][\A b \in Bots :
         /\ ~overlapped /\ Owned(box[b]) /\ box[b].status = "running" /\ box[b].image = current
         /\ box'[b] # box[b]
         => \E r \in Requests : bot[r] = b /\ pc[r] \in {"stopping", "clearing"} /\ pc'[r] # pc[r]
      ]_vars

\* gateway.ts `resetComputer`, "Every login the Bot had is gone": a reset that answers that it was
\* done leaves no profile behind.
ResetWipes ==
    [][\A r \in Requests :
         ~overlapped /\ pc[r] # "reset" /\ pc'[r] = "reset" => profile'[bot[r]] = "none"]_vars

\* docker.ts, the 409 of createContainer: a container under a Bot's name that is not ours is never
\* started, stopped or removed, and its address is never given out as the Bot's computer.
AdoptsNothing ==
    [][~overlapped =>
         /\ \A b \in Bots : box[b].owner = "somebody" => box'[b] = box[b]
         /\ \A r \in Requests : pc[r] # "ready" /\ pc'[r] = "ready" => Owned(box[bot[r]])]_vars

-----------------------------------------------------------------------------
(* The invariant that makes SliceHolds inductive: an ensure that was let in has room reserved   *)
(* in the budget until it is over, and nobody else is there to take it.                         *)

Fits(S) == \A d \in DOMAIN Budget : Cardinality(S) * perComputer[d] <= Budget[d]
LetIn(r) == pc[r] \in Ensuring \ {"listing"}

AloneServed == \A q, r \in Requests : pc[q] \in Served /\ pc[r] \in Served => q = r
RoomKept    == \A r \in Requests : LetIn(r) => Fits(Counted \cup {bot[r]})
SliceInv    == ~overlapped => AloneServed /\ Fits(Counted) /\ RoomKept

=============================================================================
