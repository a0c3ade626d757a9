-------------------------- MODULE SupervisorProofs --------------------------
(***************************************************************************)
(* Proofs about Supervisor, for any Bots, any budget, any reservation and  *)
(* any number of requests and upgrades: the type invariant, and, as long   *)
(* as requests have not overlapped, that the slice is never exceeded, that *)
(* a current computer is kept, that a reset wipes, and that nothing of     *)
(* somebody else's is adopted.                                             *)
(***************************************************************************)
EXTENDS Supervisor, FiniteSetTheorems, TLAPS

\* Starting or stopping a container leaves a container (docker.ts `start`, `stop`).
LEMMA StatusType ==
    ASSUME NEW c \in Boxes, c # Absent, NEW s \in {"running", "exited"}
    PROVE  [c EXCEPT !.status = s] \in Boxes
<1>1. CASE c \in Ours
  BY <1>1 DEF Boxes, Ours
<1>2. CASE c \in {Foreign("running"), Foreign("exited")}
  <2>1. [c EXCEPT !.status = s] = Foreign(s)
    BY <1>2 DEF Foreign
  <2> QED
    BY <2>1 DEF Boxes
<1> QED
  BY <1>1, <1>2 DEF Boxes

\* A container that is owned is one of ours, and one that is not owned is not.
LEMMA OwnedType == \A c \in Boxes : Owned(c) <=> c \in Ours
  BY DEF Boxes, Ours, Foreign, Absent, Owned

\* Every step keeps the types.
LEMMA TypeStep == TypeOK /\ [Next]_vars => TypeOK'
<1> SUFFICES ASSUME TypeOK, [Next]_vars PROVE TypeOK'
  OBVIOUS
<1> USE MachineAssumption
<1> Absent \in Boxes
  BY DEF Boxes
<1>1. ASSUME NEW r \in Requests, Begin(r) PROVE TypeOK'
  <2>1. overlapped' \in BOOLEAN
    BY <1>1 DEF Begin
  <2>2. pc' \in [Requests -> {"idle"} \cup Served \cup Over]
    <3>1. PICK route \in {"listing", "stop inspecting", "reset inspecting"} :
            pc' = [pc EXCEPT ![r] = route]
      BY <1>1 DEF Begin
    <3> QED
      BY <3>1 DEF TypeOK, Served, Ensuring, Stopping, Resetting
  <2>3. bot' \in [Requests -> Bots]
    <3>1. PICK b \in Bots : bot' = [bot EXCEPT ![r] = b]
      BY <1>1 DEF Begin
    <3> QED
      BY <3>1 DEF TypeOK
  <2>4. left' \in [Requests -> 1..ATTEMPTS]
    <3>1. left' = [left EXCEPT ![r] = ATTEMPTS]
      BY <1>1 DEF Begin
    <3>2. ATTEMPTS \in 1..ATTEMPTS
      BY DEF ATTEMPTS
    <3> QED
      BY <3>1, <3>2 DEF TypeOK
  <2>5. UNCHANGED <<box, profile, current, seen>>
    BY <1>1 DEF Begin, dockerVars
  <2> QED
    BY <2>1, <2>2, <2>3, <2>4, <2>5 DEF TypeOK
<1>2. ASSUME NEW r \in Requests,
             List(r) \/ Dispute(r) \/ Ready(r) \/ NotAnswering(r) \/ DockerFails(r)
               \/ StopInspect(r) \/ ResetInspect(r)
      PROVE  TypeOK'
  BY <1>2 DEF TypeOK, Go, List, Dispute, Ready, NotAnswering, DockerFails, StopInspect,
              ResetInspect, dockerVars, Served, Ensuring, Stopping, Resetting, Over
<1>3. ASSUME NEW r \in Requests, Inspect(r) PROVE TypeOK'
  <2>1. OwnedOrAbsent(bot[r]) \in Ours \cup {Absent}
    BY OwnedType DEF TypeOK, OwnedOrAbsent
  <2> QED
    BY <1>3, <2>1 DEF TypeOK, Go, Inspect, dockerVars, Served, Ensuring
<1>4. ASSUME NEW r \in Requests, Judge(r) PROVE TypeOK'
  BY <1>4 DEF TypeOK, Go, Judge, AfterJudging, dockerVars, Served, Ensuring
<1>5. ASSUME NEW r \in Requests, RemoveStale(r) PROVE TypeOK'
  BY <1>5 DEF TypeOK, Go, RemoveStale, Served, Ensuring
<1>6. ASSUME NEW r \in Requests, CreateVolumes(r) PROVE TypeOK'
  BY <1>6 DEF TypeOK, Go, CreateVolumes, WithProfile, Served, Ensuring, Over
<1>7. ASSUME NEW r \in Requests, Create(r) PROVE TypeOK'
  <2>1. [owner |-> "us", status |-> "created", image |-> current] \in Boxes
    BY DEF TypeOK, Boxes, Ours
  <2>2. box' \in [Bots -> Boxes] /\ profile' \in [Bots -> {"none", "blank", "used"}]
    BY <1>7, <2>1 DEF TypeOK, Create, WithProfile
  <2>3. pc' \in [Requests -> {"idle"} \cup Served \cup Over]
    BY <1>7 DEF TypeOK, Create, Go, Served, Ensuring
  <2> QED
    BY <1>7, <2>2, <2>3 DEF TypeOK, Create
<1>8. ASSUME NEW r \in Requests, Start(r) PROVE TypeOK'
  <2>1. [box[bot[r]] EXCEPT !.status = "running"] \in Boxes
    BY <1>8, StatusType DEF TypeOK, Start
  <2> QED
    BY <1>8, <2>1 DEF TypeOK, Go, Start, Served, Ensuring
<1>9. ASSUME NEW r \in Requests, StartMisses(r) PROVE TypeOK'
  <2>1. left' \in [Requests -> 1..ATTEMPTS]
    BY <1>9 DEF TypeOK, StartMisses, ATTEMPTS
  <2>2. pc' \in [Requests -> {"idle"} \cup Served \cup Over]
    BY <1>9 DEF TypeOK, StartMisses, Go, Served, Ensuring, Over
  <2>3. UNCHANGED <<box, profile, current, bot, seen, overlapped>>
    BY <1>9 DEF StartMisses, dockerVars
  <2> QED
    BY <2>1, <2>2, <2>3 DEF TypeOK
<1>10. ASSUME NEW r \in Requests, Stop(r) PROVE TypeOK'
  <2>1. box[bot[r]].status = "running" => [box[bot[r]] EXCEPT !.status = "exited"] \in Boxes
    <3>1. box[bot[r]].status = "running" => box[bot[r]] # Absent
      BY DEF Absent
    <3> QED
      BY <3>1, StatusType DEF TypeOK
  <2>2. box' \in [Bots -> Boxes]
    BY <1>10, <2>1 DEF TypeOK, Stop
  <2>3. pc' \in [Requests -> {"idle"} \cup Served \cup Over]
    BY <1>10 DEF TypeOK, Go, Stop, Over
  <2> QED
    BY <1>10, <2>2, <2>3 DEF TypeOK, Stop
<1>11. ASSUME NEW r \in Requests, Clear(r) \/ Wipe(r) PROVE TypeOK'
  <2>1. CASE Clear(r)
    BY <2>1 DEF TypeOK, Go, Clear, Served, Resetting
  <2>2. CASE Wipe(r)
    <3>1. profile' \in [Bots -> {"none", "blank", "used"}]
      BY <2>2 DEF TypeOK, Wipe
    <3> QED
      BY <2>2, <3>1 DEF TypeOK, Go, Wipe, Over
  <2> QED
    BY <1>11, <2>1, <2>2
<1>12. ASSUME NEW b \in Bots, LogIn(b) PROVE TypeOK'
  BY <1>12 DEF TypeOK, LogIn, requestVars
<1>13. ASSUME NEW b \in Bots, Squat(b) PROVE TypeOK'
  <2>1. box' \in [Bots -> Boxes]
    BY <1>13 DEF TypeOK, Squat, Boxes
  <2> QED
    BY <1>13, <2>1 DEF TypeOK, Squat, requestVars
<1>14. ASSUME Upgrade PROVE TypeOK'
  <2>1. current' \in Images
    BY <1>14 DEF TypeOK, Upgrade, Images
  <2>2. /\ UNCHANGED box
        /\ UNCHANGED profile
        /\ UNCHANGED pc
        /\ UNCHANGED bot
        /\ UNCHANGED seen
        /\ UNCHANGED left
        /\ UNCHANGED overlapped
    BY <1>14 DEF Upgrade, requestVars
  <2> QED
    BY <2>1, <2>2 DEF TypeOK
<1>15. CASE UNCHANGED vars
  BY <1>15 DEF TypeOK, vars, dockerVars, requestVars
<1> QED
  BY <1>1, <1>2, <1>3, <1>4, <1>5, <1>6, <1>7, <1>8, <1>9, <1>10, <1>11, <1>12, <1>13, <1>14,
     <1>15 DEF Next, Serve, Ensure, Machine

\* The first state has its types.
LEMMA TypeInit == Init => TypeOK
<1> SUFFICES ASSUME Init PROVE TypeOK
  OBVIOUS
<1>1. current \in Images
  BY MachineAssumption DEF Init, Images
<1>2. overlapped \in BOOLEAN
  BY DEF Init
<1>3. box \in [Bots -> Boxes] /\ seen \in [Requests -> Ours \cup {Absent}]
  BY DEF Init, Boxes
<1>4. left \in [Requests -> 1..ATTEMPTS]
  BY DEF Init, ATTEMPTS
<1> QED
  BY <1>1, <1>2, <1>3, <1>4 DEF Init, TypeOK

\* What the supervisor's state is made of.
THEOREM TypeCorrect == Spec => []TypeOK
  BY TypeInit, TypeStep, PTL DEF Spec

-----------------------------------------------------------------------------
\* A part of what fits in the slice fits in it (slice.ts `usedBy`).
LEMMA FitsSubset ==
    ASSUME NEW T \in SUBSET Bots, NEW S \in SUBSET T, Fits(T)
    PROVE  Fits(S)
<1>1. IsFiniteSet(T)
  BY MachineAssumption, FS_Subset
<1>2. IsFiniteSet(S) /\ Cardinality(S) <= Cardinality(T)
  BY <1>1, FS_Subset
<1>3. Cardinality(S) \in Nat /\ Cardinality(T) \in Nat
  BY <1>1, <1>2, FS_CardinalityType
<1> SUFFICES ASSUME NEW d \in DOMAIN Budget
             PROVE  Cardinality(S) * perComputer[d] <= Budget[d]
  BY DEF Fits
<1>4. perComputer[d] \in Nat /\ Budget[d] \in Nat
  BY BudgetAssumption, ReservationAssumption DEF Dimensions
<1>5. Cardinality(T) * perComputer[d] <= Budget[d]
  BY DEF Fits
<1>6. \A m, n, p \in Nat : m <= n => m * p <= n * p
  OBVIOUS
<1>7. /\ Cardinality(S) * perComputer[d] \in Nat
      /\ Cardinality(T) * perComputer[d] \in Nat
      /\ Cardinality(S) * perComputer[d] <= Cardinality(T) * perComputer[d]
  BY <1>2, <1>3, <1>4, <1>6
<1> QED
  BY <1>4, <1>5, <1>7

\* Admission makes room for the Bot that asked (slice.ts `admit`).
LEMMA AdmitMakesRoom ==
    ASSUME NEW b \in Bots, admit(perComputer)
    PROVE  Fits(Counted \cup {b})
<1>1. IsFiniteSet(Counted)
  BY MachineAssumption, FS_Subset DEF Counted
<1>2. Cardinality(Counted) \in Nat
  BY <1>1, FS_CardinalityType
<1>3. Cardinality(Counted \cup {b}) \in {Cardinality(Counted), Cardinality(Counted) + 1}
  BY <1>1, FS_AddElement
<1> SUFFICES ASSUME NEW d \in DOMAIN Budget
             PROVE  Cardinality(Counted \cup {b}) * perComputer[d] <= Budget[d]
  BY DEF Fits
<1>4. perComputer[d] \in Nat /\ Budget[d] \in Nat
  BY BudgetAssumption, ReservationAssumption DEF Dimensions
<1>5. Cardinality(Counted) * perComputer[d] + perComputer[d] <= Budget[d]
  BY DEF admit, usedBy
<1>6. \A m, p \in Nat : m * p \in Nat /\ (m + 1) * p = m * p + p
  OBVIOUS
<1> QED
  BY <1>2, <1>3, <1>4, <1>5, <1>6

\* What no step of a request but Create and Start can do: add to what counts.
LEMMA NothingAdded ==
    ASSUME TypeOK, ~overlapped', overlapped' = overlapped, SliceInv, Counted' \subseteq Counted,
           \A r \in Requests : /\ pc'[r] \in Served => pc[r] \in Served
                               /\ LetIn(r)' => LetIn(r) /\ bot'[r] = bot[r]
    PROVE  SliceInv'
<1>1. AloneServed'
  BY DEF SliceInv, AloneServed
<1>2. Counted \in SUBSET Bots /\ Counted' \in SUBSET Counted
  BY DEF Counted
<1>3. Fits(Counted)'
  BY <1>2, FitsSubset DEF SliceInv, Fits
<1>4. ASSUME NEW r \in Requests, LetIn(r)' PROVE Fits(Counted' \cup {bot'[r]})
  <2>1. Fits(Counted \cup {bot[r]}) /\ bot[r] \in Bots /\ bot'[r] = bot[r]
    BY <1>4 DEF SliceInv, RoomKept, TypeOK
  <2>2. /\ Counted \cup {bot[r]} \in SUBSET Bots
        /\ Counted' \cup {bot'[r]} \in SUBSET (Counted \cup {bot[r]})
    BY <1>2, <2>1
  <2> QED
    BY <2>1, <2>2, FitsSubset
<1> QED
  BY <1>1, <1>3, <1>4 DEF SliceInv, RoomKept, Fits

\* Create and Start add the Bot that asked and nobody else, and it has had its room kept.
LEMMA OnlyTheBotAdded ==
    ASSUME TypeOK, ~overlapped', overlapped' = overlapped, SliceInv,
           NEW r \in Requests, LetIn(r), Counted' \subseteq Counted \cup {bot[r]}, bot' = bot,
           \A q \in Requests : q # r => pc'[q] = pc[q]
    PROVE  SliceInv'
<1>1. pc[r] \in Served
  BY DEF LetIn, Served
<1>2. \A q \in Requests : pc[q] \in Served => q = r
  BY <1>1 DEF SliceInv, AloneServed
<1>3. AloneServed'
  BY <1>2 DEF AloneServed
<1>4. Fits(Counted \cup {bot[r]}) /\ bot[r] \in Bots
  BY DEF SliceInv, RoomKept, TypeOK
<1>5. /\ Counted \cup {bot[r]} \in SUBSET Bots
      /\ Counted' \in SUBSET (Counted \cup {bot[r]})
      /\ Counted' \cup {bot[r]} \in SUBSET (Counted \cup {bot[r]})
  BY <1>4 DEF Counted
<1>6. Fits(Counted')
  BY <1>4, <1>5, FitsSubset
<1>7. Fits(Counted' \cup {bot[r]})
  BY <1>4, <1>5, FitsSubset
<1>8. ASSUME NEW q \in Requests, LetIn(q)' PROVE q = r
  BY <1>2, <1>8 DEF LetIn, Served
<1>9. ASSUME NEW q \in Requests, LetIn(q)' PROVE Fits(Counted' \cup {bot'[q]})
  BY <1>7, <1>8, <1>9
<1> QED
  BY <1>3, <1>6, <1>9 DEF SliceInv, RoomKept, Fits

\* Every step keeps the room of the one request that is being served.
LEMMA SliceStep == TypeOK /\ SliceInv /\ [Next]_vars => SliceInv'
<1> SUFFICES ASSUME TypeOK, SliceInv, [Next]_vars, ~overlapped' PROVE SliceInv'
  BY DEF SliceInv
<1> DEFINE Same == overlapped' = overlapped /\ bot' = bot
<1>1. ASSUME NEW r \in Requests, Begin(r) PROVE SliceInv'
  <2>1. ~overlapped /\ \A q \in Requests : pc[q] \notin Served
    BY <1>1 DEF Begin
  <2>2. Counted' = Counted
    BY <1>1 DEF Begin, Counted, dockerVars
  <2>3. \A q \in Requests : q # r => pc'[q] = pc[q]
    BY <1>1 DEF Begin, TypeOK
  <2>4. AloneServed'
    BY <2>1, <2>3 DEF AloneServed
  <2>5. pc'[r] \in {"listing", "stop inspecting", "reset inspecting"}
    BY <1>1 DEF Begin, TypeOK
  <2>6. \A q \in Requests : ~LetIn(q)'
    BY <2>1, <2>3, <2>5 DEF LetIn, Ensuring, Served
  <2>7. Fits(Counted)'
    BY <2>1, <2>2 DEF SliceInv, Fits
  <2> QED
    BY <2>4, <2>6, <2>7 DEF SliceInv, RoomKept
<1>2. ASSUME NEW r \in Requests, List(r) PROVE SliceInv'
  <2>1. /\ Same
        /\ box' = box
        /\ pc[r] = "listing" /\ pc'[r] \in {"inspecting", "full"}
        /\ \A q \in Requests : q # r => pc'[q] = pc[q]
        /\ pc'[r] = "inspecting" => Counts(box[bot[r]]) \/ admit(perComputer)
    BY <1>2 DEF List, Go, dockerVars, TypeOK
  <2>2. Counted' = Counted
    BY <2>1 DEF Counted
  <2>3. \A q \in Requests : pc[q] \in Served => q = r
    BY <2>1 DEF SliceInv, AloneServed, Served, Ensuring
  <2>4. AloneServed'
    BY <2>1, <2>3 DEF AloneServed
  <2>5. ASSUME NEW q \in Requests, LetIn(q)' PROVE Fits(Counted' \cup {bot'[q]})
    <3>1. q = r /\ pc'[r] = "inspecting"
      BY <2>1, <2>3, <2>5 DEF LetIn, Served, Ensuring
    <3>2. bot[r] \in Bots /\ Fits(Counted)
      BY <2>1 DEF TypeOK, SliceInv
    <3>3. CASE Counts(box[bot[r]])
      <4>1. Counted \cup {bot[r]} = Counted
        BY <3>2, <3>3 DEF Counted
      <4> QED
        BY <2>1, <2>2, <3>1, <3>2, <4>1
    <3>4. CASE admit(perComputer)
      BY <2>1, <2>2, <3>1, <3>2, <3>4, AdmitMakesRoom
    <3> QED
      BY <2>1, <3>1, <3>3, <3>4
  <2>6. Fits(Counted)'
    BY <2>1, <2>2 DEF SliceInv, Fits
  <2> QED
    BY <2>4, <2>5, <2>6 DEF SliceInv, RoomKept, Fits
<1>3. ASSUME NEW r \in Requests,
             Inspect(r) \/ Judge(r) \/ CreateVolumes(r) \/ Dispute(r) \/ StartMisses(r)
               \/ Ready(r) \/ NotAnswering(r) \/ DockerFails(r)
               \/ StopInspect(r) \/ ResetInspect(r) \/ Wipe(r)
      PROVE  SliceInv'
  <2>1. Same /\ box' = box
    BY <1>3 DEF Inspect, Judge, CreateVolumes, Dispute, StartMisses, Ready, NotAnswering,
                DockerFails, StopInspect, ResetInspect, Wipe, dockerVars
  <2>2. \A q \in Requests : /\ pc'[q] \in Served => pc[q] \in Served
                            /\ LetIn(q)' => LetIn(q)
    BY <1>3 DEF Go, Inspect, Judge, AfterJudging, CreateVolumes, Dispute, StartMisses, Ready,
                NotAnswering, DockerFails, StopInspect, ResetInspect, Wipe,
                TypeOK, LetIn, Served, Ensuring, Stopping, Resetting, Over
  <2>3. Counted' \subseteq Counted
    BY <2>1 DEF Counted
  <2> QED
    BY <2>1, <2>2, <2>3, NothingAdded
<1>4. ASSUME NEW r \in Requests, RemoveStale(r) \/ Clear(r) PROVE SliceInv'
  <2>1. Same /\ box' = [box EXCEPT ![bot[r]] = Absent]
    BY <1>4 DEF RemoveStale, Clear
  <2>2. \A q \in Requests : /\ pc'[q] \in Served => pc[q] \in Served
                            /\ LetIn(q)' => LetIn(q)
    BY <1>4 DEF Go, RemoveStale, Clear, TypeOK, LetIn, Served, Ensuring, Stopping, Resetting
  <2>3. Counted' \subseteq Counted
    BY <2>1 DEF Counted, Counts, Owned, Absent, TypeOK
  <2> QED
    BY <2>1, <2>2, <2>3, NothingAdded
<1>5. ASSUME NEW r \in Requests, Stop(r) PROVE SliceInv'
  <2>1. /\ Same
        /\ \A b \in Bots : b # bot[r] => box'[b] = box[b]
        /\ box'[bot[r]] = IF box[bot[r]].status = "running"
                          THEN [box[bot[r]] EXCEPT !.status = "exited"] ELSE box[bot[r]]
    BY <1>5 DEF Stop, TypeOK
  <2>2. \A q \in Requests : /\ pc'[q] \in Served => pc[q] \in Served
                            /\ LetIn(q)' => LetIn(q)
    BY <1>5 DEF Go, Stop, TypeOK, LetIn, Served, Ensuring, Stopping, Resetting
  <2>3. [box[bot[r]] EXCEPT !.status = "exited"].status = "exited"
    BY DEF TypeOK, Boxes, Ours, Foreign, Absent
  <2>4. Counted' \subseteq Counted
    BY <2>1, <2>3 DEF Counted, Counts
  <2> QED
    BY <2>1, <2>2, <2>4, NothingAdded
<1>6. ASSUME NEW r \in Requests, Create(r) \/ Start(r) PROVE SliceInv'
  <2>1. Same /\ LetIn(r)
    BY <1>6 DEF Create, Start, Go, LetIn, Ensuring
  <2>2. \A q \in Requests : q # r => pc'[q] = pc[q]
    BY <1>6 DEF Create, Start, Go, TypeOK
  <2>3. \A b \in Bots : b # bot[r] => box'[b] = box[b]
    BY <1>6 DEF Create, Start, TypeOK
  <2>4. Counted' \subseteq Counted \cup {bot[r]}
    BY <2>3 DEF Counted
  <2> QED
    BY <2>1, <2>2, <2>4, OnlyTheBotAdded
<1>7. ASSUME Machine \/ UNCHANGED vars PROVE SliceInv'
  <2>1. Same /\ pc' = pc
    BY <1>7 DEF Machine, Upgrade, LogIn, Squat, vars, requestVars
  <2>2. Counted' \subseteq Counted
    <3>1. ASSUME NEW b \in Bots, Squat(b) PROVE Counted' \subseteq Counted
      BY <3>1 DEF Squat, Counted, Counts, Owned, Foreign, TypeOK
    <3>2. CASE box' = box
      BY <3>2 DEF Counted
    <3> QED
      BY <1>7, <3>1, <3>2 DEF Machine, Upgrade, LogIn, vars, dockerVars
  <2>3. \A q \in Requests : /\ pc'[q] \in Served => pc[q] \in Served
                            /\ LetIn(q)' => LetIn(q)
    BY <2>1 DEF LetIn
  <2> QED
    BY <2>1, <2>2, <2>3, NothingAdded
<1> QED
  BY <1>1, <1>2, <1>3, <1>4, <1>5, <1>6, <1>7 DEF Next, Serve, Ensure

\* At the start nothing is served, nothing runs, and nothing is used.
LEMMA SliceInit == Init => SliceInv
<1> SUFFICES ASSUME Init PROVE AloneServed /\ Fits(Counted) /\ RoomKept
  BY DEF SliceInv
<1>1. \A r \in Requests : pc[r] = "idle"
  BY DEF Init
<1>2. Counted = {}
  BY DEF Init, Counted, Counts, Owned, Absent
<1>3. Fits({})
  <2> SUFFICES ASSUME NEW d \in DOMAIN Budget PROVE Cardinality({}) * perComputer[d] <= Budget[d]
    BY DEF Fits
  <2>1. perComputer[d] \in Nat /\ Budget[d] \in Nat
    BY BudgetAssumption, ReservationAssumption DEF Dimensions
  <2>2. Cardinality({}) = 0
    BY FS_EmptySet
  <2> QED
    BY <2>1, <2>2
<1> QED
  BY <1>1, <1>2, <1>3 DEF AloneServed, RoomKept, LetIn, Served, Ensuring, Stopping, Resetting

\* slice.ts: the reservations that count stay inside the budget, whatever the budget and however
\* many Bots there are, for as long as no two requests have overlapped.
THEOREM SliceHoldsAlways == Spec => []SliceHolds
<1>1. SliceInv => SliceHolds
  BY DEF SliceInv, SliceHolds, WithinBudget, usedBy, Fits
<1> QED
  BY <1>1, SliceInit, SliceStep, TypeInit, TypeStep, PTL DEF Spec

-----------------------------------------------------------------------------
(* What a request relies on when it acts by name, while no two have overlapped. *)

\* An ensure that goes on with a computer, a stop and a reset have seen that it is one of ours; a
\* reset that wipes the profile has removed it.
ActsOnOurs(r) ==
    /\ pc[r] \in {"judging", "removing", "starting", "answering", "stopping", "clearing"}
       => Owned(box[bot[r]])
    /\ pc[r] = "wiping" => ~Owned(box[bot[r]])
\* What an ensure compares with the image's tag is what is there.
SeenIsThere(r) == pc[r] = "judging" => seen[r] = box[bot[r]]
\* An image that was old when it was judged is old when it is removed: the tag only moves on.
StaleStaysStale(r) == pc[r] = "removing" => box[bot[r]].image < current
Named(r) == ActsOnOurs(r) /\ SeenIsThere(r) /\ StaleStaysStale(r)
\* No computer is on an image that was not built yet.
ImagesAreBuilt == \A b \in Bots : Owned(box[b]) => box[b].image <= current
NameInv == ~overlapped => ImagesAreBuilt /\ \A r \in Requests : Named(r)

\* Who is not being served relies on nothing.
LEMMA IdleIsNamed == \A r \in Requests : pc[r] \notin Served => Named(r)
  BY DEF Named, ActsOnOurs, SeenIsThere, StaleStaysStale, Served, Ensuring, Stopping, Resetting

\* A step of the one request that is served.
LEMMA OnlyOneIsNamed ==
    ASSUME TypeOK, SliceInv, ~overlapped, NEW r \in Requests, pc[r] \in Served,
           \A q \in Requests \ {r} : pc'[q] = pc[q], ImagesAreBuilt', Named(r)'
    PROVE  NameInv'
<1>1. ASSUME NEW q \in Requests \ {r} PROVE Named(q)'
  <2>1. pc[q] \notin Served
    BY DEF SliceInv, AloneServed
  <2>2. (pc[q] \notin Served)'
    BY <2>1 DEF Served, Ensuring, Stopping, Resetting
  <2> QED
    BY <2>2 DEF Named, ActsOnOurs, SeenIsThere, StaleStaysStale, Served, Ensuring, Stopping,
                Resetting
<1> QED
  BY <1>1 DEF NameInv

\* Every step keeps what the one request that is served relies on.
LEMMA NameStep == TypeOK /\ SliceInv /\ NameInv /\ [Next]_vars => NameInv'
<1> SUFFICES ASSUME TypeOK, SliceInv, NameInv, [Next]_vars, ~overlapped' PROVE NameInv'
  BY DEF NameInv
<1> DEFINE Alone(r) == /\ ~overlapped /\ pc[r] \in Served
                       /\ \A q \in Requests \ {r} : pc'[q] = pc[q]
<1>1. ASSUME NEW r \in Requests, Begin(r) PROVE NameInv'
  <2>1. ~overlapped /\ \A q \in Requests : pc[q] \notin Served
    BY <1>1 DEF Begin
  <2>2. /\ \A q \in Requests \ {r} : pc'[q] = pc[q]
        /\ pc'[r] \in {"listing", "stop inspecting", "reset inspecting"}
        /\ box' = box /\ current' = current
    BY <1>1 DEF Begin, TypeOK, dockerVars
  <2>3. ASSUME NEW q \in Requests PROVE Named(q)'
    BY <2>1, <2>2 DEF Named, ActsOnOurs, SeenIsThere, StaleStaysStale, Served, Ensuring,
                      Stopping, Resetting
  <2> QED
    BY <2>1, <2>2, <2>3 DEF NameInv, ImagesAreBuilt
<1>2. ASSUME NEW r \in Requests,
             List(r) \/ Dispute(r) \/ Ready(r) \/ NotAnswering(r) \/ DockerFails(r) \/ CreateVolumes(r)
               \/ StopInspect(r) \/ ResetInspect(r) \/ StartMisses(r) \/ Wipe(r)
      PROVE  NameInv'
  <2>1. Alone(r) /\ box' = box /\ current' = current /\ bot' = bot
    BY <1>2 DEF TypeOK, Go, List, Dispute, Ready, NotAnswering, DockerFails, StopInspect, CreateVolumes,
              StartMisses, Wipe, ResetInspect, dockerVars, Served, Ensuring, Stopping, Resetting
  <2>2. ImagesAreBuilt'
    BY <2>1 DEF NameInv, ImagesAreBuilt
  <2>3. Named(r)'
    BY <1>2, <2>1 DEF TypeOK, Go, List, Dispute, Ready, NotAnswering, DockerFails, StopInspect, CreateVolumes,
              StartMisses, Wipe, ResetInspect, dockerVars, Named, ActsOnOurs, SeenIsThere, StaleStaysStale
  <2> QED
    BY <2>1, <2>2, <2>3, OnlyOneIsNamed
<1>3. ASSUME NEW r \in Requests, Inspect(r) \/ Judge(r) PROVE NameInv'
  <2>1. Alone(r) /\ box' = box /\ current' = current /\ bot' = bot
    BY <1>3 DEF TypeOK, Go, Inspect, Judge, dockerVars, Served, Ensuring
  <2>2. ImagesAreBuilt'
    BY <2>1 DEF NameInv, ImagesAreBuilt
  <2>3. Named(r)'
    <3>1. CASE Inspect(r)
      BY <3>1, <2>1 DEF TypeOK, Go, Inspect, OwnedOrAbsent, Named, ActsOnOurs, SeenIsThere,
                        StaleStaysStale
    <3>2. CASE Judge(r)
      <4>1. pc[r] = "judging" /\ Owned(box[bot[r]]) /\ seen[r] = box[bot[r]]
        BY <3>2, <2>1 DEF Judge, Go, NameInv, Named, ActsOnOurs, SeenIsThere
      <4>2. box[bot[r]].image <= current /\ box[bot[r]].image \in Nat /\ current \in Nat
        <5>1. bot[r] \in Bots /\ box[bot[r]] \in Ours
          BY <4>1, OwnedType DEF TypeOK
        <5> QED
          BY <5>1, <4>1, <2>1, MachineAssumption DEF NameInv, ImagesAreBuilt, Ours, Images, TypeOK
      <4>3. \/ pc'[r] = "removing" /\ box[bot[r]].image # current
            \/ pc'[r] \in {"answering", "starting"}
        BY <3>2, <4>1 DEF Judge, Go, AfterJudging, TypeOK
      <4> QED
        BY <2>1, <4>1, <4>2, <4>3 DEF Named, ActsOnOurs, SeenIsThere, StaleStaysStale
    <3> QED
      BY <1>3, <3>1, <3>2
  <2> QED
    BY <2>1, <2>2, <2>3, OnlyOneIsNamed
<1>4. ASSUME NEW r \in Requests, RemoveStale(r) \/ Clear(r) PROVE NameInv'
  <2>1. /\ Alone(r) /\ current' = current /\ bot' = bot
        /\ box' = [box EXCEPT ![bot[r]] = Absent] /\ pc'[r] \in {"volumes", "wiping"}
    BY <1>4 DEF TypeOK, Go, RemoveStale, Clear, dockerVars, Served, Ensuring, Resetting
  <2>2. ~Owned(Absent)
    BY DEF Owned, Absent
  <2>3. ImagesAreBuilt' /\ box'[bot[r]] = Absent
    BY <2>1, <2>2 DEF NameInv, ImagesAreBuilt, TypeOK
  <2>4. Named(r)'
    BY <2>1, <2>2, <2>3 DEF Named, ActsOnOurs, SeenIsThere, StaleStaysStale
  <2> QED
    BY <2>1, <2>3, <2>4, OnlyOneIsNamed
<1>5. ASSUME NEW r \in Requests, Create(r) PROVE NameInv'
  <2>1. /\ Alone(r) /\ current' = current /\ bot' = bot
        /\ \A b \in Bots \ {bot[r]} : box'[b] = box[b]
        /\ bot[r] \in Bots
    BY <1>5 DEF TypeOK, Go, Create, Served, Ensuring
  <2> DEFINE fresh == [owner |-> "us", status |-> "created", image |-> current]
  <2>2. Owned(fresh) /\ fresh.image = current
    BY DEF Owned
  <2>3. current <= current
    BY MachineAssumption DEF TypeOK, Images
  <2>4. \/ pc'[r] = "starting" /\ box'[bot[r]] = fresh
        \/ pc'[r] = "disputing" /\ box' = box
    BY <1>5, <2>1 DEF TypeOK, Go, Create
  <2> HIDE DEF fresh
  <2>5. ImagesAreBuilt'
    <3> SUFFICES ASSUME NEW b \in Bots, Owned(box[b])' PROVE box'[b].image <= current
      BY <2>1 DEF ImagesAreBuilt
    <3>1. CASE b = bot[r] /\ box'[bot[r]] = fresh
      BY <3>1, <2>2, <2>3
    <3>2. CASE box'[b] = box[b]
      BY <3>2, <2>1 DEF NameInv, ImagesAreBuilt, Owned
    <3> QED
      BY <2>1, <2>4, <3>1, <3>2
  <2>6. Named(r)'
    BY <2>1, <2>2, <2>4 DEF Named, ActsOnOurs, SeenIsThere, StaleStaysStale
  <2> QED
    BY <2>1, <2>5, <2>6, OnlyOneIsNamed
<1>6. ASSUME NEW r \in Requests, Start(r) \/ Stop(r) PROVE NameInv'
  <2>1. /\ Alone(r) /\ current' = current /\ bot' = bot /\ bot[r] \in Bots
        /\ \A b \in Bots \ {bot[r]} : box'[b] = box[b]
        /\ pc[r] \in {"starting", "stopping"} /\ pc'[r] \in {"answering", "stopped"}
        /\ \E s \in {"running", "exited"} : box'[bot[r]] \in {box[bot[r]], [box[bot[r]] EXCEPT !.status = s]}
    BY <1>6 DEF TypeOK, Go, Start, Stop, Served, Ensuring, Stopping
  <2>2. Owned(box[bot[r]])
    BY <2>1 DEF NameInv, Named, ActsOnOurs
  <2>3. box[bot[r]] \in Ours
    BY <2>1, <2>2, OwnedType DEF TypeOK
  <2>4. box'[bot[r]].owner = "us" /\ box'[bot[r]].image = box[bot[r]].image
    BY <2>1, <2>3 DEF Ours
  <2>5. ImagesAreBuilt'
    BY <2>1, <2>2, <2>4 DEF NameInv, ImagesAreBuilt, Owned
  <2>6. Named(r)'
    BY <2>1, <2>4 DEF Named, ActsOnOurs, SeenIsThere, StaleStaysStale, Owned
  <2> QED
    BY <2>1, <2>5, <2>6, OnlyOneIsNamed
<1>7. ASSUME Machine \/ UNCHANGED vars PROVE NameInv'
  <2>1. /\ overlapped' = overlapped /\ pc' = pc /\ bot' = bot /\ seen' = seen
        /\ current' \in {current, current + 1}
    BY <1>7 DEF Machine, Upgrade, LogIn, Squat, vars, requestVars, dockerVars
  <2>2. \A b \in Bots : \/ box'[b] = box[b]
                        \/ ~Owned(box[b]) /\ ~Owned(box'[b]) /\ box[b] = Absent
    <3>1. ASSUME NEW b \in Bots, Squat(b)
          PROVE  \A c \in Bots : \/ box'[c] = box[c]
                                 \/ ~Owned(box[c]) /\ ~Owned(box'[c]) /\ box[c] = Absent
      BY <3>1 DEF Squat, Owned, Foreign, Absent, TypeOK
    <3>2. CASE box' = box
      BY <3>2
    <3> QED
      BY <1>7, <3>1, <3>2 DEF Machine, Upgrade, LogIn, vars, dockerVars
  <2>3. ASSUME NEW b \in Bots, Owned(box[b]) PROVE box[b].image \in Nat /\ current \in Nat
    BY <2>3, OwnedType, MachineAssumption DEF TypeOK, Ours, Images
  <2>4. ImagesAreBuilt'
    <3> SUFFICES ASSUME NEW b \in Bots, Owned(box'[b]) PROVE box'[b].image <= current'
      BY DEF ImagesAreBuilt, Owned
    <3>1. box'[b] = box[b] /\ box[b].image <= current
      BY <2>1, <2>2 DEF NameInv, ImagesAreBuilt
    <3> QED
      BY <2>1, <2>3, <3>1
  <2>5. ASSUME NEW r \in Requests PROVE Named(r)'
    <3>1. Named(r) /\ bot[r] \in Bots
      BY <2>1 DEF NameInv, TypeOK
    <3>2. Owned(box[bot[r]]) => box'[bot[r]] = box[bot[r]]
      BY <2>2, <3>1
    <3>3. ~Owned(box[bot[r]]) => ~Owned(box'[bot[r]])
      BY <2>2, <3>1
    <3>4. pc[r] = "removing" => box'[bot[r]].image < current'
      BY <2>1, <2>3, <3>1, <3>2 DEF Named, ActsOnOurs, StaleStaysStale
    <3>5. SeenIsThere(r)'
      BY <2>1, <3>1, <3>2 DEF Named, ActsOnOurs, SeenIsThere
    <3> QED
      BY <2>1, <3>1, <3>2, <3>3, <3>4, <3>5 DEF Named, ActsOnOurs, StaleStaysStale, Owned
  <2> QED
    BY <2>4, <2>5 DEF NameInv
<1> QED
  BY <1>1, <1>2, <1>3, <1>4, <1>5, <1>6, <1>7 DEF Next, Serve, Ensure

\* Nobody holds a name before the first request.
LEMMA NameInit == Init => NameInv
  BY DEF Init, NameInv, ImagesAreBuilt, Named, ActsOnOurs, SeenIsThere, StaleStaysStale, Owned, Absent

-----------------------------------------------------------------------------
\* What a step does to the container that holds a Bot's name, by who may do it.
LEMMA WhoTouchesWhat ==
    ASSUME TypeOK, SliceInv, NameInv, ~overlapped, [Next]_vars, NEW b \in Bots, box'[b] # box[b]
    PROVE  \/ box[b] = Absent
           \/ \E r \in Requests : /\ bot[r] = b /\ Owned(box[b])
                                  /\ \/ pc[r] = "removing" /\ box[b].image < current
                                     \/ pc[r] = "starting" /\ box[b].status # "running"
                                     \/ pc[r] \in {"stopping", "clearing"} /\ pc'[r] # pc[r]
<1> SUFFICES ASSUME box[b] # Absent
             PROVE  \E r \in Requests :
                      /\ bot[r] = b /\ Owned(box[b])
                      /\ \/ pc[r] = "removing" /\ box[b].image < current
                         \/ pc[r] = "starting" /\ box[b].status # "running"
                         \/ pc[r] \in {"stopping", "clearing"} /\ pc'[r] # pc[r]
  OBVIOUS
<1>1. PICK r \in Requests : RemoveStale(r) \/ Create(r) \/ Start(r) \/ Stop(r) \/ Clear(r)
  BY DEF Next, Serve, Ensure, Machine, Begin, List, Inspect, Judge, CreateVolumes, Dispute,
         StartMisses, Ready, NotAnswering, DockerFails, StopInspect, ResetInspect, Wipe, Upgrade,
         LogIn, Squat, vars, dockerVars, TypeOK
<1>2. bot[r] = b
  BY <1>1 DEF RemoveStale, Create, Start, Stop, Clear, TypeOK
<1>3. Named(r)
  BY DEF NameInv
<1>4. CASE RemoveStale(r)
  BY <1>2, <1>3, <1>4 DEF RemoveStale, Go, Named, ActsOnOurs, StaleStaysStale
<1>5. CASE Create(r)
  BY <1>2, <1>5 DEF Create
<1>6. CASE Start(r)
  <2>1. Owned(box[b]) /\ pc[r] = "starting"
    BY <1>2, <1>3, <1>6 DEF Start, Go, Named, ActsOnOurs
  <2>2. box'[b] = [box[b] EXCEPT !.status = "running"]
    BY <1>2, <1>6 DEF Start, TypeOK
  <2>3. box[b] \in Ours
    BY <2>1, OwnedType DEF TypeOK
  <2>4. box[b].status # "running"
    BY <2>2, <2>3 DEF Ours
  <2> QED
    BY <1>2, <2>1, <2>4
<1>7. CASE Stop(r) \/ Clear(r)
  BY <1>2, <1>3, <1>7 DEF Stop, Clear, Go, Named, ActsOnOurs, TypeOK
<1> QED
  BY <1>1, <1>4, <1>5, <1>6, <1>7

\* docker.ts `ensure`: while no two requests overlap, a running computer on the current image is
\* changed by a stop or a reset of its Bot only, never by an ensure, whenever the image is rebuilt.
THEOREM KeepsCurrentAlways == Spec => KeepsCurrent
<1> DEFINE Kept == \A b \in Bots :
      /\ ~overlapped /\ Owned(box[b]) /\ box[b].status = "running" /\ box[b].image = current
      /\ box'[b] # box[b]
      => \E r \in Requests : bot[r] = b /\ pc[r] \in {"stopping", "clearing"} /\ pc'[r] # pc[r]
<1>1. TypeOK /\ SliceInv /\ NameInv /\ [Next]_vars => Kept
  <2> SUFFICES ASSUME TypeOK, SliceInv, NameInv, [Next]_vars, ~overlapped, NEW b \in Bots,
                      Owned(box[b]), box[b].status = "running", box[b].image = current,
                      box'[b] # box[b]
               PROVE  \E r \in Requests :
                        bot[r] = b /\ pc[r] \in {"stopping", "clearing"} /\ pc'[r] # pc[r]
    OBVIOUS
  <2>1. box[b] # Absent
    BY DEF Owned, Absent
  <2>2. ~(box[b].image < current)
    BY MachineAssumption DEF TypeOK, Images
  <2> QED
    BY <2>1, <2>2, WhoTouchesWhat
<1> QED
  BY <1>1, TypeInit, TypeStep, SliceInit, SliceStep, NameInit, NameStep, PTL DEF Spec, KeepsCurrent

\* gateway.ts `resetComputer`, docker.ts `reset`: while no two requests overlap, a reset that
\* answers that it was done has left no profile behind.
THEOREM ResetWipesAlways == Spec => ResetWipes
<1> DEFINE Wiped == \A r \in Requests :
      ~overlapped /\ pc[r] # "reset" /\ pc'[r] = "reset" => profile'[bot[r]] = "none"
<1>1. TypeOK /\ NameInv /\ [Next]_vars => Wiped
  <2> SUFFICES ASSUME TypeOK, NameInv, [Next]_vars, ~overlapped, NEW r \in Requests,
                      pc[r] # "reset", pc'[r] = "reset"
               PROVE  profile'[bot[r]] = "none"
    OBVIOUS
  <2>1. pc' # pc
    OBVIOUS
  <2>2. PICK q \in Requests : Begin(q) \/ Serve(q)
    BY <2>1 DEF Next, Machine, Upgrade, LogIn, Squat, requestVars, vars
  <2>3. q = r
    <3>1. q # r => pc'[r] = pc[r]
      BY <2>2 DEF Begin, Serve, Ensure, List, Inspect, Judge, RemoveStale, CreateVolumes, Create,
                  Dispute, Start, StartMisses, Ready, NotAnswering, StopInspect, Stop,
                  ResetInspect, Clear, Wipe, DockerFails, Go, TypeOK
    <3> QED
      BY <3>1
  <2>4. Wipe(r)
    BY <2>2, <2>3 DEF Begin, Serve, Ensure, List, Inspect, Judge, AfterJudging, RemoveStale,
                  CreateVolumes, Create, Dispute, Start, StartMisses, Ready, NotAnswering,
                  StopInspect, Stop, ResetInspect, Clear, DockerFails, Go, TypeOK
  <2>5. ~Owned(box[bot[r]])
    BY <2>4 DEF Wipe, Go, NameInv, Named, ActsOnOurs
  <2> QED
    BY <2>4, <2>5 DEF Wipe, TypeOK
<1> QED
  BY <1>1, TypeInit, TypeStep, SliceInit, SliceStep, NameInit, NameStep, PTL DEF Spec, ResetWipes

\* docker.ts, the 409 of createContainer: while no two requests overlap, a container under a Bot's
\* name that is not ours is left alone, and never answered as the Bot's computer.
THEOREM AdoptsNothingAlways == Spec => AdoptsNothing
<1> DEFINE LeftAlone == ~overlapped =>
      /\ \A b \in Bots : box[b].owner = "somebody" => box'[b] = box[b]
      /\ \A r \in Requests : pc[r] # "ready" /\ pc'[r] = "ready" => Owned(box[bot[r]])
<1>1. TypeOK /\ SliceInv /\ NameInv /\ [Next]_vars => LeftAlone
  <2> SUFFICES ASSUME TypeOK, SliceInv, NameInv, [Next]_vars, ~overlapped PROVE LeftAlone
    OBVIOUS
  <2>1. ASSUME NEW b \in Bots, box[b].owner = "somebody" PROVE box'[b] = box[b]
    <3>1. box[b] # Absent /\ ~Owned(box[b])
      BY <2>1 DEF Owned, Absent
    <3> QED
      BY <3>1, WhoTouchesWhat
  <2>2. ASSUME NEW r \in Requests, pc[r] # "ready", pc'[r] = "ready" PROVE Owned(box[bot[r]])
    <3>1. pc' # pc
      BY <2>2
    <3>2. PICK q \in Requests : Begin(q) \/ Serve(q)
      BY <3>1 DEF Next, Machine, Upgrade, LogIn, Squat, requestVars, vars
    <3>3. q # r => pc'[r] = pc[r]
      BY <3>2 DEF Begin, Serve, Ensure, List, Inspect, Judge, RemoveStale, CreateVolumes, Create,
                  Dispute, Start, StartMisses, Ready, NotAnswering, StopInspect, Stop,
                  ResetInspect, Clear, Wipe, DockerFails, Go, TypeOK
    <3>4. Begin(r) \/ Serve(r)
      BY <2>2, <3>2, <3>3
    <3>5. Ready(r)
      BY <2>2, <3>4 DEF Begin, Serve, Ensure, List, Inspect, Judge, AfterJudging, RemoveStale,
                    CreateVolumes, Create, Dispute, Start, StartMisses, NotAnswering, StopInspect,
                    Stop, ResetInspect, Clear, Wipe, DockerFails, Go, TypeOK
    <3> QED
      BY <3>5 DEF Ready, Go, NameInv, Named, ActsOnOurs
  <2> QED
    BY <2>1, <2>2
<1> QED
  BY <1>1, TypeInit, TypeStep, SliceInit, SliceStep, NameInit, NameStep, PTL DEF Spec, AdoptsNothing
=============================================================================
