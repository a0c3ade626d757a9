----------------------- MODULE ComputerGatewayProofs -----------------------
(***************************************************************************)
(* Proofs about ComputerGateway, for every set of calls, servers, pages    *)
(* and policies and every bound: the type invariant, that nothing reaches  *)
(* the browser before its decision is on the trail, that the trail tells   *)
(* what became of a call, and that the element acted on is the one that    *)
(* was judged.                                                             *)
(***************************************************************************)
EXTENDS ComputerGateway, TLAPS

\* A decision has the shape the audit row and the guard after it read (policy.ts
\* `evaluateActionPolicy`).
LEMMA EvaluateType == \A p, x : Evaluate(p, x) \in Decisions
  BY DEF Evaluate, Decisions

\* What `resolve` answers is an element of a page, or nothing.
LEMMA ResolveType ==
  ASSUME NEW stored \in Rows, NEW g, NEW session
  PROVE  Resolve(stored, g, session) \in Subjects
  BY DEF Resolve, Rows, Subjects, Shown

\* The absence of a row is a row of the model: the `undefined` `load` answers with.
LEMMA NoRowType == NoRow \in Rows
  BY BoundAssumption DEF NoRow, Rows, Shown, Unknown

\* Every step of the gateway, the computer and the world keeps the types.
LEMMA TypeStep == TypeOK /\ [Next]_vars => TypeOK'
<1> SUFFICES ASSUME TypeOK, [Next]_vars PROVE TypeOK'
  OBVIOUS
<1> USE ServerAssumption, PageAssumption, PolicyAssumption, ModeAssumption, BoundAssumption
<1>1. ASSUME NEW c \in Calls, Govern(c) PROVE TypeOK'
  <2>1. ASSUME NEW t \in Tools, NEW g \in 0..MaxGen, BeginGoverned(c, t, g) PROVE TypeOK'
    BY <2>1 DEF TypeOK, BeginGoverned, Step, Underway, jobVars, computerVars, restVars
  <2>2. CASE Load(c)
    BY <2>2 DEF TypeOK, Load, Step, Underway, jobVars, computerVars, restVars
  <2>3. CASE Decide(c)
    <3> DEFINE element == Resolve(loaded[c], cited[c], known[ServerOf[c]])
    <3>1. element \in Subjects
      BY ResolveType DEF TypeOK
    <3>2. Evaluate(policy, element) \in Decisions
      BY EvaluateType
    <3> HIDE DEF element
    <3> QED
      BY <2>3, <3>1, <3>2 DEF TypeOK, Decide, element, Step, Underway, jobVars, computerVars, restVars
  <2>4. CASE Record(c)
    <3>1. DecisionRow(c) \in [call : Calls, carriedOut : BOOLEAN,
                              event : {"action_allowed", "action_refused", "action_failed"}]
      BY DEF TypeOK, DecisionRow, Event, Decisions
    <3>2. pc' \in [Calls -> Waiting \cup Underway \cup Over]
      BY <2>4 DEF TypeOK, Record, Step, Underway, Over
    <3> QED
      BY <2>4, <3>1, <3>2 DEF TypeOK, Record, callVars, jobVars, computerVars, restVars
  <2>5. CASE RecordThrows(c)
    BY <2>5 DEF TypeOK, RecordThrows, Step, Over, callVars, jobVars, computerVars, restVars
  <2>6. CASE Locate(c)
    BY <2>6 DEF TypeOK, Locate, Step, Underway, callVars, computerVars, restVars
  <2>7. CASE RunThrows(c)
    BY <2>7 DEF TypeOK, RunThrows, Underway, callVars, jobVars, computerVars, restVars
  <2>8. CASE RecordFailure(c)
    <3>1. FailureRow(c) \in [call : Calls, carriedOut : BOOLEAN,
                             event : {"action_allowed", "action_refused", "action_failed"}]
      BY DEF TypeOK, FailureRow, Event, Decisions
    <3> QED
      BY <2>8, <3>1 DEF TypeOK, RecordFailure, Step, Over, callVars, jobVars, computerVars, restVars
  <2>9. CASE RecordFailureThrows(c)
    BY <2>9 DEF TypeOK, RecordFailureThrows, Step, Over, callVars, jobVars, computerVars, restVars
  <2>10. CASE Return(c)
    BY <2>10 DEF TypeOK, Return, Step, Over, callVars, jobVars, computerVars, restVars
  <2> QED
    BY <1>1, <2>1, <2>2, <2>3, <2>4, <2>5, <2>6, <2>7, <2>8, <2>9, <2>10 DEF Govern
<1>2. ASSUME NEW c \in Calls, Snapshot(c) PROVE TypeOK'
  <2>1. CASE BeginSnapshot(c)
    BY <2>1 DEF TypeOK, BeginSnapshot, Tools, Step, Underway, computerVars, restVars
  <2>2. CASE SnapshotArrives(c)
    BY <2>2 DEF TypeOK, SnapshotArrives, Step, Underway, callVars, jobVars, computerVars, restVars
  <2>3. CASE Save(c)
    <3>1. row' \in Rows
      BY <2>3 DEF TypeOK, Save, Rows
    <3> QED
      BY <2>3, <3>1 DEF TypeOK, Save, Step, Over, callVars, jobVars, computerVars, restVars
  <2>4. CASE SnapshotThrows(c)
    BY <2>4 DEF TypeOK, SnapshotThrows, Over, callVars, jobVars, computerVars, restVars
  <2> QED
    BY <1>2, <2>1, <2>2, <2>3, <2>4 DEF Snapshot
<1>3. ASSUME NEW c \in Calls, Computer(c) PROVE TypeOK'
  <2>1. CASE Count(c)
    BY <2>1 DEF TypeOK, Count, callVars, restVars
  <2>2. CASE Capture(c)
    BY <2>2 DEF TypeOK, Capture, callVars, restVars
  <2>3. CASE Stamp(c)
    BY <2>3 DEF TypeOK, Stamp, JobOver, callVars, computerVars, restVars
  <2>4. CASE Admit(c)
    BY <2>4 DEF TypeOK, Admit, callVars, computerVars, restVars
  <2>5. CASE TurnDown(c)
    BY <2>5 DEF TypeOK, TurnDown, JobOver, callVars, computerVars, restVars
  <2>6. CASE ActOnElement(c)
    BY <2>6 DEF TypeOK, ActOnElement, JobOver, callVars, computerVars, restVars
  <2>7. CASE ActPlainly(c)
    BY <2>7 DEF TypeOK, ActPlainly, JobOver, callVars, computerVars, restVars
  <2>8. CASE Goto(c)
    BY <2>8 DEF TypeOK, Goto, Shown, callVars, restVars
  <2>9. CASE NavigateCounts(c)
    <3>1. gen' \in 0..MaxGen
      BY <2>9 DEF TypeOK, NavigateCounts
    <3>2. job' \in [Calls -> JobOver \cup {"asked", "admitted", "opened", "counted", "captured"}]
      BY <2>9 DEF TypeOK, NavigateCounts, JobOver
    <3> QED
      BY <2>9, <3>1, <3>2 DEF TypeOK, NavigateCounts, callVars, restVars
  <2> QED
    BY <1>3, <2>1, <2>2, <2>3, <2>4, <2>5, <2>6, <2>7, <2>8, <2>9 DEF Computer
<1>4. ASSUME World PROVE TypeOK'
  <2>0. ASSUME StartAgain
        PROVE  /\ run' \in 1..MaxRun /\ gen' \in 0..MaxGen /\ page' \in Shown /\ marked' \in BOOLEAN
               /\ job' \in [Calls -> JobOver \cup {"asked", "admitted", "opened", "counted", "captured"}]
               /\ snap' = snap /\ hit' = hit
    <3>0. run \in 1..MaxRun /\ run < MaxRun /\ run' = run + 1 /\ gen' = 0
      BY <2>0 DEF TypeOK, StartAgain
    <3>1. run' \in 1..MaxRun /\ gen' \in 0..MaxGen
      BY <3>0
    <3>2. page' \in Shown /\ marked' \in BOOLEAN
      BY <2>0 DEF StartAgain, Shown
    <3>3. job' \in [Calls -> JobOver \cup {"asked", "admitted", "opened", "counted", "captured"}]
      BY <2>0 DEF TypeOK, StartAgain, JobOver
    <3> QED
      BY <2>0, <3>1, <3>2, <3>3 DEF StartAgain
  <2>1. CASE PageMoves
    BY <2>1 DEF TypeOK, PageMoves, Shown, callVars, jobVars, restVars
  <2>2. CASE Restart
    BY <2>0, <2>2 DEF TypeOK, Restart, callVars, restVars
  <2>3. CASE Reset
    BY <2>0, <2>3 DEF TypeOK, Reset, callVars
  <2>4. CASE ClearRow
    <3>1. NoRow \in Rows
      BY NoRowType
    <3> QED
      BY <2>4, <3>1 DEF TypeOK, ClearRow, callVars, jobVars, computerVars
  <2>5. CASE ChangePolicy
    BY <2>5 DEF TypeOK, ChangePolicy, callVars, jobVars, computerVars
  <2>6. ASSUME NEW s \in Servers, Crash(s) PROVE TypeOK'
    BY <2>6 DEF TypeOK, Crash, Over, Unknown, callVars, jobVars, computerVars
  <2> QED
    BY <1>4, <2>1, <2>2, <2>3, <2>4, <2>5, <2>6 DEF World
<1>5. CASE UNCHANGED vars
  BY <1>5 DEF TypeOK, vars, callVars, jobVars, computerVars, restVars
<1> QED
  BY <1>1, <1>2, <1>3, <1>4, <1>5 DEF Next

\* The program starts in a well-typed state.
LEMMA TypeInit == Init => TypeOK
<1> SUFFICES ASSUME Init PROVE TypeOK
  OBVIOUS
<1>1. NoDecision \in Decisions
  BY DEF NoDecision, Decisions
<1>2. /\ pc \in [Calls -> Waiting \cup Underway \cup Over]
      /\ tool \in [Calls -> Tools]
      /\ job \in [Calls -> JobOver \cup {"asked", "admitted", "opened", "counted", "captured"}]
  BY DEF Init, Waiting, Tools, JobOver
<1>3. /\ cited \in [Calls -> 0..MaxGen]
      /\ snap \in [Calls -> [gen : 0..MaxGen, page : Shown]]
      /\ known \in [Servers -> 0..MaxRun]
      /\ crashes \in 0..MaxCrashes
      /\ run \in 1..MaxRun /\ gen \in 0..MaxGen
  BY BoundAssumption DEF Init, Shown, Unknown
<1>4. /\ loaded \in [Calls -> Rows]
      /\ judged \in [Calls -> Subjects]
      /\ verdict \in [Calls -> Decisions]
      /\ hit \in [Calls -> Shown \cup {Nothing}]
      /\ row \in Rows
      /\ page \in Shown
  BY <1>1, NoRowType DEF Init, Subjects, Shown
<1> QED
  BY <1>2, <1>3, <1>4 DEF Init, TypeOK

\* Every reachable state is well typed: the bounds hold, a decision is a decision and the trail
\* holds nothing but the three kinds of row `write` inserts.
THEOREM TypeCorrect == Spec => []TypeOK
<1>1. Init => TypeOK
  BY TypeInit
<1>2. TypeOK /\ [Next]_vars => TypeOK'
  BY TypeStep
<1> QED
  BY <1>1, <1>2, PTL DEF Spec

-----------------------------------------------------------------------------
(* The record invariant. *)

Standing(d) == CallKinds(d) /\ JobFollowsCall(d) /\ DecisionStands(d) /\ FailureStands(d)

\* A step that leaves a call's own state alone and writes no row about it leaves what is known
\* of that call standing.
LEMMA Untouched ==
  ASSUME NEW d \in Calls, Standing(d),
         pc'[d] = pc[d], tool'[d] = tool[d], job'[d] = job[d], hit'[d] = hit[d],
         verdict'[d] = verdict[d], trail \subseteq trail',
         \A e \in trail' : e \in trail \/ e.call # d
  PROVE  Standing(d)'
  BY DEF Standing, CallKinds, JobFollowsCall, DecisionStands, LetThrough, FailureStands,
         DecisionRow, FailureRow, Event

\* Every step keeps what is written about a call in line with how far it has got.
LEMMA RecordStep == TypeOK /\ RecordInv /\ [Next]_vars => RecordInv'
<1> SUFFICES ASSUME TypeOK, RecordInv, [Next]_vars PROVE RecordInv'
  OBVIOUS
<1> USE PageAssumption
<1>1. ASSUME NEW c \in Calls, Govern(c) PROVE RecordInv'
  <2>1. ASSUME NEW t \in Tools, NEW g \in 0..MaxGen, BeginGoverned(c, t, g) PROVE RecordInv'
    <3>1. ASSUME NEW d \in Calls, d # c PROVE Standing(d)'
      BY <2>1, <3>1, Untouched DEF RecordInv, Standing, TypeOK, BeginGoverned, Step, jobVars
    <3>2. Standing(c)'
      BY <2>1 DEF TypeOK, RecordInv, BeginGoverned, Step, jobVars, Standing, CallKinds, JobFollowsCall, DecisionStands, LetThrough,
               FailureStands, DecisionRow, FailureRow, Event
    <3> QED
      BY <3>1, <3>2 DEF RecordInv, Standing
  <2>2. CASE Load(c)
    <3>1. ASSUME NEW d \in Calls, d # c PROVE Standing(d)'
      BY <2>2, <3>1, Untouched DEF RecordInv, Standing, TypeOK, Load, Step, jobVars
    <3>2. Standing(c)'
      BY <2>2 DEF TypeOK, RecordInv, Load, Step, jobVars, Standing, CallKinds, JobFollowsCall, DecisionStands, LetThrough,
               FailureStands, DecisionRow, FailureRow, Event
    <3> QED
      BY <3>1, <3>2 DEF RecordInv, Standing
  <2>3. CASE Decide(c)
    <3>1. ASSUME NEW d \in Calls, d # c PROVE Standing(d)'
      BY <2>3, <3>1, Untouched DEF RecordInv, Standing, TypeOK, Decide, Step, jobVars
    <3>2. Standing(c)'
      BY <2>3 DEF TypeOK, RecordInv, Decide, Step, jobVars, Standing, CallKinds, JobFollowsCall, DecisionStands, LetThrough,
               FailureStands, DecisionRow, FailureRow, Event
    <3> QED
      BY <3>1, <3>2 DEF RecordInv, Standing
  <2>4. CASE Record(c)
    <3>1. ASSUME NEW d \in Calls, d # c PROVE Standing(d)'
      BY <2>4, <3>1, Untouched DEF RecordInv, Standing, TypeOK, Record, Step, callVars, jobVars, DecisionRow, FailureRow, Event
    <3>2. Standing(c)'
      <4>1. /\ pc[c] = "decided" /\ tool[c] # "snapshot" /\ job[c] = "none" /\ hit[c] = Nothing
            /\ tool' = tool /\ job' = job /\ hit' = hit /\ verdict' = verdict
            /\ trail' = trail \cup {DecisionRow(c)}
            /\ pc'[c] \in {"refused", "failing", "recorded"}
            /\ pc'[c] # "refused" => verdict[c].forward
        BY <2>4 DEF TypeOK, RecordInv, Record, Step, callVars, jobVars, CallKinds, JobFollowsCall
      <4>2. DecisionRow(c)' = DecisionRow(c) /\ DecisionRow(c).event # "action_failed"
        BY <4>1 DEF DecisionRow, Event
      <4>3. \A e \in trail : e.call = c /\ e.event = "action_failed" => FALSE
        BY <4>1 DEF RecordInv, FailureStands
      <4>4. CallKinds(c)' /\ JobFollowsCall(c)'
        BY <4>1 DEF CallKinds, JobFollowsCall
      <4>5. DecisionStands(c)'
        BY <4>1, <4>2 DEF DecisionStands, LetThrough
      <4>6. FailureStands(c)'
        BY <4>1, <4>2, <4>3 DEF FailureStands
      <4> QED
        BY <4>4, <4>5, <4>6 DEF Standing
    <3> QED
      BY <3>1, <3>2 DEF RecordInv, Standing
  <2>5. CASE RecordThrows(c)
    <3>1. ASSUME NEW d \in Calls, d # c PROVE Standing(d)'
      BY <2>5, <3>1, Untouched DEF RecordInv, Standing, TypeOK, RecordThrows, Step, callVars, jobVars
    <3>2. Standing(c)'
      BY <2>5 DEF TypeOK, RecordInv, RecordThrows, Step, callVars, jobVars, Standing, CallKinds, JobFollowsCall, DecisionStands, LetThrough,
               FailureStands, DecisionRow, FailureRow, Event
    <3> QED
      BY <3>1, <3>2 DEF RecordInv, Standing
  <2>6. CASE Locate(c)
    <3>1. ASSUME NEW d \in Calls, d # c PROVE Standing(d)'
      BY <2>6, <3>1, Untouched DEF RecordInv, Standing, TypeOK, Locate, Step, callVars
    <3>2. Standing(c)'
      BY <2>6 DEF TypeOK, RecordInv, Locate, Step, callVars, Standing, CallKinds, JobFollowsCall, DecisionStands, LetThrough,
               FailureStands, DecisionRow, FailureRow, Event
    <3> QED
      BY <3>1, <3>2 DEF RecordInv, Standing
  <2>7. CASE RunThrows(c)
    <3>1. ASSUME NEW d \in Calls, d # c PROVE Standing(d)'
      BY <2>7, <3>1, Untouched DEF RecordInv, Standing, TypeOK, RunThrows, callVars, jobVars
    <3>2. Standing(c)'
      BY <2>7 DEF TypeOK, RecordInv, RunThrows, callVars, jobVars, Standing, CallKinds, JobFollowsCall, DecisionStands, LetThrough,
               FailureStands, DecisionRow, FailureRow, Event
    <3> QED
      BY <3>1, <3>2 DEF RecordInv, Standing
  <2>8. CASE RecordFailure(c)
    <3>1. ASSUME NEW d \in Calls, d # c PROVE Standing(d)'
      BY <2>8, <3>1, Untouched DEF RecordInv, Standing, TypeOK, RecordFailure, Step, callVars, jobVars, DecisionRow, FailureRow, Event
    <3>2. Standing(c)'
      BY <2>8 DEF TypeOK, RecordInv, RecordFailure, Step, callVars, jobVars, Standing, CallKinds, JobFollowsCall, DecisionStands, LetThrough,
               FailureStands, DecisionRow, FailureRow, Event
    <3> QED
      BY <3>1, <3>2 DEF RecordInv, Standing
  <2>9. CASE RecordFailureThrows(c)
    <3>1. ASSUME NEW d \in Calls, d # c PROVE Standing(d)'
      BY <2>9, <3>1, Untouched DEF RecordInv, Standing, TypeOK, RecordFailureThrows, Step, callVars, jobVars
    <3>2. Standing(c)'
      BY <2>9 DEF TypeOK, RecordInv, RecordFailureThrows, Step, callVars, jobVars, Standing, CallKinds, JobFollowsCall, DecisionStands, LetThrough,
               FailureStands, DecisionRow, FailureRow, Event
    <3> QED
      BY <3>1, <3>2 DEF RecordInv, Standing
  <2>10. CASE Return(c)
    <3>1. ASSUME NEW d \in Calls, d # c PROVE Standing(d)'
      BY <2>10, <3>1, Untouched DEF RecordInv, Standing, TypeOK, Return, Step, callVars, jobVars
    <3>2. Standing(c)'
      BY <2>10 DEF TypeOK, RecordInv, Return, Step, callVars, jobVars, Standing, CallKinds, JobFollowsCall, DecisionStands, LetThrough,
               FailureStands, DecisionRow, FailureRow, Event
    <3> QED
      BY <3>1, <3>2 DEF RecordInv, Standing
  <2> QED
    BY <1>1, <2>1, <2>2, <2>3, <2>4, <2>5, <2>6, <2>7, <2>8, <2>9, <2>10 DEF Govern
<1>2. ASSUME NEW c \in Calls, Snapshot(c) PROVE RecordInv'
  <2>1. CASE BeginSnapshot(c)
    <3>1. ASSUME NEW d \in Calls, d # c PROVE Standing(d)'
      BY <2>1, <3>1, Untouched DEF RecordInv, Standing, TypeOK, BeginSnapshot, Step
    <3>2. Standing(c)'
      BY <2>1 DEF TypeOK, RecordInv, BeginSnapshot, Step, Standing, CallKinds, JobFollowsCall, DecisionStands, LetThrough,
               FailureStands, DecisionRow, FailureRow, Event
    <3> QED
      BY <3>1, <3>2 DEF RecordInv, Standing
  <2>2. CASE SnapshotArrives(c)
    <3>1. ASSUME NEW d \in Calls, d # c PROVE Standing(d)'
      BY <2>2, <3>1, Untouched DEF RecordInv, Standing, TypeOK, SnapshotArrives, Step, callVars, jobVars
    <3>2. Standing(c)'
      BY <2>2 DEF TypeOK, RecordInv, SnapshotArrives, Step, callVars, jobVars, Standing, CallKinds, JobFollowsCall, DecisionStands, LetThrough,
               FailureStands, DecisionRow, FailureRow, Event
    <3> QED
      BY <3>1, <3>2 DEF RecordInv, Standing
  <2>3. CASE Save(c)
    <3>1. ASSUME NEW d \in Calls, d # c PROVE Standing(d)'
      BY <2>3, <3>1, Untouched DEF RecordInv, Standing, TypeOK, Save, Step, callVars, jobVars
    <3>2. Standing(c)'
      BY <2>3 DEF TypeOK, RecordInv, Save, Step, callVars, jobVars, Standing, CallKinds, JobFollowsCall, DecisionStands, LetThrough,
               FailureStands, DecisionRow, FailureRow, Event
    <3> QED
      BY <3>1, <3>2 DEF RecordInv, Standing
  <2>4. CASE SnapshotThrows(c)
    <3>1. ASSUME NEW d \in Calls, d # c PROVE Standing(d)'
      BY <2>4, <3>1, Untouched DEF RecordInv, Standing, TypeOK, SnapshotThrows, callVars, jobVars
    <3>2. Standing(c)'
      BY <2>4 DEF TypeOK, RecordInv, SnapshotThrows, callVars, jobVars, Standing, CallKinds, JobFollowsCall, DecisionStands, LetThrough,
               FailureStands, DecisionRow, FailureRow, Event
    <3> QED
      BY <3>1, <3>2 DEF RecordInv, Standing
  <2> QED
    BY <1>2, <2>1, <2>2, <2>3, <2>4 DEF Snapshot
<1>3. ASSUME NEW c \in Calls, Computer(c) PROVE RecordInv'
  <2>1. CASE Count(c)
    <3>1. ASSUME NEW d \in Calls, d # c PROVE Standing(d)'
      BY <2>1, <3>1, Untouched DEF RecordInv, Standing, TypeOK, Count, callVars
    <3>2. Standing(c)'
      BY <2>1 DEF TypeOK, RecordInv, Count, callVars, Standing, CallKinds, JobFollowsCall, DecisionStands, LetThrough,
               FailureStands, DecisionRow, FailureRow, Event
    <3> QED
      BY <3>1, <3>2 DEF RecordInv, Standing
  <2>2. CASE Capture(c)
    <3>1. ASSUME NEW d \in Calls, d # c PROVE Standing(d)'
      BY <2>2, <3>1, Untouched DEF RecordInv, Standing, TypeOK, Capture, callVars
    <3>2. Standing(c)'
      BY <2>2 DEF TypeOK, RecordInv, Capture, callVars, Standing, CallKinds, JobFollowsCall, DecisionStands, LetThrough,
               FailureStands, DecisionRow, FailureRow, Event
    <3> QED
      BY <3>1, <3>2 DEF RecordInv, Standing
  <2>3. CASE Stamp(c)
    <3>1. ASSUME NEW d \in Calls, d # c PROVE Standing(d)'
      BY <2>3, <3>1, Untouched DEF RecordInv, Standing, TypeOK, Stamp, callVars
    <3>2. Standing(c)'
      BY <2>3 DEF TypeOK, RecordInv, Stamp, callVars, Standing, CallKinds, JobFollowsCall, DecisionStands, LetThrough,
               FailureStands, DecisionRow, FailureRow, Event
    <3> QED
      BY <3>1, <3>2 DEF RecordInv, Standing
  <2>4. CASE Admit(c)
    <3>1. ASSUME NEW d \in Calls, d # c PROVE Standing(d)'
      BY <2>4, <3>1, Untouched DEF RecordInv, Standing, TypeOK, Admit, callVars
    <3>2. Standing(c)'
      BY <2>4 DEF TypeOK, RecordInv, Admit, callVars, Standing, CallKinds, JobFollowsCall, DecisionStands, LetThrough,
               FailureStands, DecisionRow, FailureRow, Event
    <3> QED
      BY <3>1, <3>2 DEF RecordInv, Standing
  <2>5. CASE TurnDown(c)
    <3>1. ASSUME NEW d \in Calls, d # c PROVE Standing(d)'
      BY <2>5, <3>1, Untouched DEF RecordInv, Standing, TypeOK, TurnDown, callVars, JobOver
    <3>2. Standing(c)'
      BY <2>5 DEF TypeOK, RecordInv, TurnDown, callVars, JobOver, Standing, CallKinds, JobFollowsCall, DecisionStands, LetThrough,
               FailureStands, DecisionRow, FailureRow, Event
    <3> QED
      BY <3>1, <3>2 DEF RecordInv, Standing
  <2>6. CASE ActOnElement(c)
    <3>1. ASSUME NEW d \in Calls, d # c PROVE Standing(d)'
      BY <2>6, <3>1, Untouched DEF RecordInv, Standing, TypeOK, ActOnElement, callVars
    <3>2. Standing(c)'
      BY <2>6 DEF TypeOK, RecordInv, ActOnElement, Shown, Blank, Nothing, callVars, Standing, CallKinds, JobFollowsCall, DecisionStands, LetThrough,
               FailureStands, DecisionRow, FailureRow, Event
    <3> QED
      BY <3>1, <3>2 DEF RecordInv, Standing
  <2>7. CASE ActPlainly(c)
    <3>1. ASSUME NEW d \in Calls, d # c PROVE Standing(d)'
      BY <2>7, <3>1, Untouched DEF RecordInv, Standing, TypeOK, ActPlainly, callVars
    <3>2. Standing(c)'
      BY <2>7 DEF TypeOK, RecordInv, ActPlainly, Shown, Blank, Nothing, callVars, Standing, CallKinds, JobFollowsCall, DecisionStands, LetThrough,
               FailureStands, DecisionRow, FailureRow, Event
    <3> QED
      BY <3>1, <3>2 DEF RecordInv, Standing
  <2>8. CASE Goto(c)
    <3>1. ASSUME NEW d \in Calls, d # c PROVE Standing(d)'
      BY <2>8, <3>1, Untouched DEF RecordInv, Standing, TypeOK, Goto, callVars
    <3>2. Standing(c)'
      BY <2>8 DEF TypeOK, RecordInv, Goto, callVars, Standing, CallKinds, JobFollowsCall, DecisionStands, LetThrough,
               FailureStands, DecisionRow, FailureRow, Event
    <3> QED
      BY <3>1, <3>2 DEF RecordInv, Standing
  <2>9. CASE NavigateCounts(c)
    <3>1. ASSUME NEW d \in Calls, d # c PROVE Standing(d)'
      BY <2>9, <3>1, Untouched DEF RecordInv, Standing, TypeOK, NavigateCounts, callVars
    <3>2. Standing(c)'
      BY <2>9 DEF TypeOK, RecordInv, NavigateCounts, callVars, Standing, CallKinds, JobFollowsCall, DecisionStands, LetThrough,
               FailureStands, DecisionRow, FailureRow, Event
    <3> QED
      BY <3>1, <3>2 DEF RecordInv, Standing
  <2> QED
    BY <1>3, <2>1, <2>2, <2>3, <2>4, <2>5, <2>6, <2>7, <2>8, <2>9 DEF Computer
<1>4. ASSUME World PROVE RecordInv'
  <2>1. CASE PageMoves
    BY <2>1, Untouched DEF RecordInv, Standing, PageMoves, callVars, jobVars
  <2>2. CASE ClearRow
    BY <2>2, Untouched DEF RecordInv, Standing, ClearRow, callVars, jobVars
  <2>3. CASE ChangePolicy
    BY <2>3, Untouched DEF RecordInv, Standing, ChangePolicy, callVars, jobVars
  <2>4. ASSUME StartAgain, UNCHANGED <<pc, callVars, trail>> PROVE RecordInv'
    <3>1. SUFFICES ASSUME NEW d \in Calls PROVE Standing(d)'
      BY DEF RecordInv, Standing
    <3>2. /\ job'[d] = job[d] \/ (job[d] \notin JobOver \cup {"asked"} /\ job'[d] = "turned down")
          /\ hit' = hit /\ pc' = pc /\ tool' = tool /\ verdict' = verdict /\ trail' = trail
      BY <2>4 DEF StartAgain, callVars
    <3>3. CASE job'[d] = job[d]
      BY <3>2, <3>3, Untouched DEF RecordInv, Standing
    <3>4. CASE job[d] \notin JobOver \cup {"asked"} /\ job'[d] = "turned down"
      BY <3>2, <3>4 DEF RecordInv, JobOver, Standing, CallKinds, JobFollowsCall, DecisionStands, LetThrough,
               FailureStands, DecisionRow, FailureRow, Event
    <3> QED
      BY <3>2, <3>3, <3>4
  <2>5. CASE Restart
    BY <2>4, <2>5 DEF Restart
  <2>6. CASE Reset
    BY <2>4, <2>6 DEF Reset
  <2>7. ASSUME NEW s \in Servers, Crash(s) PROVE RecordInv'
    BY <2>7 DEF TypeOK, RecordInv, Crash, Underway, callVars, jobVars, CallKinds, JobFollowsCall,
               DecisionStands, LetThrough, FailureStands, DecisionRow, FailureRow, Event
  <2> QED
    BY <1>4, <2>1, <2>2, <2>3, <2>5, <2>6, <2>7 DEF World
<1>5. CASE UNCHANGED vars
  BY <1>5, Untouched DEF RecordInv, Standing, vars, callVars, jobVars
<1> QED
  BY <1>1, <1>2, <1>3, <1>4, <1>5 DEF Next

\* Nothing has been written and nothing asked for at the start.
LEMMA RecordInit == Init => RecordInv
  BY DEF Init, RecordInv, CallKinds, JobFollowsCall, DecisionStands, LetThrough, FailureStands

\* The record invariant is what the two promises about the trail rest on.
LEMMA RecordImplies == TypeOK /\ RecordInv => RecordedFirst /\ TrailTellsOutcome
<1> SUFFICES ASSUME TypeOK, RecordInv PROVE RecordedFirst /\ TrailTellsOutcome
  OBVIOUS
<1>1. ASSUME NEW c \in Calls, Reached(c)
      PROVE  \E e \in trail : e.call = c /\ e.event # "action_failed" /\ e.carriedOut
  <2>1. verdict[c].forward /\ DecisionRow(c) \in trail
    BY <1>1 DEF Reached, RecordInv, JobFollowsCall, DecisionStands, LetThrough
  <2>2. /\ DecisionRow(c).call = c
        /\ DecisionRow(c).event # "action_failed"
        /\ DecisionRow(c).carriedOut = verdict[c].forward
    BY DEF DecisionRow, Event
  <2> QED
    BY <2>1, <2>2
<1>2. ASSUME NEW c \in Calls, tool[c] # "snapshot", pc[c] = "returned"
      PROVE  Reached(c) /\ ~\E e \in trail : e.call = c /\ e.event = "action_failed"
  BY <1>2 DEF Reached, RecordInv, JobFollowsCall, FailureStands
<1>3. ASSUME NEW c \in Calls, FailureRow(c) \in trail
      PROVE  verdict[c].forward /\ DecisionRow(c) \in trail
  <2>1. FailureRow(c).call = c /\ FailureRow(c).event = "action_failed"
    BY DEF FailureRow, Event
  <2>2. pc[c] = "failed"
    BY <1>3, <2>1 DEF RecordInv, FailureStands
  <2> QED
    BY <2>2 DEF RecordInv, DecisionStands, LetThrough
<1>4. ASSUME NEW c \in Calls, pc[c] = "failed" PROVE FailureRow(c) \in trail
  BY <1>4 DEF RecordInv, FailureStands
<1> QED
  BY <1>1, <1>2, <1>3, <1>4 DEF RecordedFirst, TrailTellsOutcome

\* Decide, record, then act, for any number of replicas, calls and crashes: whatever a governed
\* call did to the browser, its decision row was written first and let it through.
THEOREM RecordedFirstAlways == Spec => []RecordedFirst
<1>1. Init => TypeOK /\ RecordInv
  BY TypeInit, RecordInit
<1>2. TypeOK /\ RecordInv /\ [Next]_vars => TypeOK' /\ RecordInv'
  BY TypeStep, RecordStep
<1>3. TypeOK /\ RecordInv => RecordedFirst
  BY RecordImplies
<1> QED
  BY <1>1, <1>2, <1>3, PTL DEF Spec

\* The trail tells what happened from what was only permitted: a call that resolved acted and has
\* no failure row, one that failed has one, and a failure row has its decision row beside it.
THEOREM TrailTellsOutcomeAlways == Spec => []TrailTellsOutcome
<1>1. Init => TypeOK /\ RecordInv
  BY TypeInit, RecordInit
<1>2. TypeOK /\ RecordInv /\ [Next]_vars => TypeOK' /\ RecordInv'
  BY TypeStep, RecordStep
<1>3. TypeOK /\ RecordInv => TrailTellsOutcome
  BY RecordImplies
<1> QED
  BY <1>1, <1>2, <1>3, PTL DEF Spec

-----------------------------------------------------------------------------
(***************************************************************************)
(* What was judged is what is acted on, on one server that lives.          *)
(***************************************************************************)

\* One server, which does not die and hears of runs from its provider, and one thing at a time: the
\* environment in which a citation cannot be overtaken.  Outside it the property fails: with two
\* replicas, or after a crash, a server may know no run, or an old one, and honour a row of a run
\* that is over.
Serial ==
    /\ Sequential /\ ReportsSessions /\ MaxCrashes = 0
    /\ \A c, d \in Calls : ServerOf[c] = ServerOf[d]

\* The run is only ever known to the server late: once the computer has counted a snapshot or a
\* navigation of this run, some call located it, and so the server has heard of the run.
HeardOf(c) ==
    gen > 0 \/ pc[c] \in {"sent", "snapping", "snapped"} => known[ServerOf[c]] = run

\* The stored row tells what refs mean as long as its generation is the computer's: on a page that
\* has been described and not left since, it tells that page.
RowTellsPage ==
    /\ row # NoRow => row.session \in 1..run
    /\ row # NoRow /\ row.session = run => row.gen <= gen
    /\ row # NoRow /\ row.session = run /\ row.gen = gen /\ marked => row.page = page

\* The computer is at work for a call only while the server waits for it.
JobIsAwaited(c) ==
    /\ job[c] \notin JobOver => pc[c] \in {"sent", "snapping"}
    /\ job[c] \in {"counted", "captured", "described"} => tool[c] = "snapshot"
    /\ job[c] = "opened" => tool[c] = "navigate"
    /\ pc[c] = "snapped" => job[c] = "described"
    /\ pc[c] \in Underway => ~resetting

OneCallAtATime == \A c, d \in Calls : pc[c] \in Underway /\ pc[d] \in Underway => c = d

\* A snapshot in the making is of a generation above the stored one, and of the page that is marked.
InTheMaking(c, stages) == pc[c] = "snapped" \/ (pc[c] = "snapping" /\ job[c] \in stages)
SnapshotIsNewer(c) ==
    /\ InTheMaking(c, {"counted", "captured", "described"}) =>
          gen > 0 /\ (row # NoRow /\ row.session = run => row.gen < gen)
    /\ InTheMaking(c, {"captured", "described"}) => (marked => snap[c].page = page)
    /\ InTheMaking(c, {"described"}) => snap[c].gen = gen

\* A call under way that cites a ref was judged on the row as it still stands; and if it cites the
\* computer's generation, the row is of the computer's run.
CitationStands(c) ==
    tool[c] = "act" =>
        /\ pc[c] # "idle" => cited[c] # 0
        /\ pc[c] \in {"loaded", "decided", "recorded", "sent"} => loaded[c] = row
        /\ pc[c] \in {"decided", "recorded", "sent"} /\ judged[c] # Nothing =>
              /\ loaded[c] # NoRow /\ judged[c] = loaded[c].page /\ loaded[c].gen = cited[c]
              /\ gen = cited[c] => loaded[c].session = run
        /\ pc[c] \in {"recorded", "sent"} /\ loaded[c] # NoRow => judged[c] # Nothing
        /\ job[c] = "admitted" => cited[c] = gen

JudgedInv ==
    /\ RowTellsPage /\ OneCallAtATime
    /\ \A c \in Calls : HeardOf(c) /\ JobIsAwaited(c) /\ SnapshotIsNewer(c) /\ CitationStands(c)
    /\ JudgedIsActedOn
\* The calls that are over, or not begun, while another is served.
Rests(d) ==
    /\ pc[d] \notin Underway
    /\ pc'[d] = pc[d] /\ job'[d] = job[d] /\ tool'[d] = tool[d] /\ cited'[d] = cited[d]
    /\ loaded'[d] = loaded[d] /\ judged'[d] = judged[d] /\ hit'[d] = hit[d]

\* What has to be shown of a call that moves.
Mine(c) ==
    /\ HeardOf(c) /\ JobIsAwaited(c) /\ SnapshotIsNewer(c) /\ CitationStands(c)
    /\ tool[c] = "act" /\ Reached(c) /\ loaded[c] # NoRow => judged[c] = hit[c]

\* One call moves and the others rest: the invariant has to be shown of the row and of that call.
LEMMA OneCallMoves ==
  ASSUME Serial, TypeOK, JudgedInv, NEW c \in Calls,
         \A d \in Calls : d # c => Rests(d),
         RowTellsPage', Mine(c)'
  PROVE  JudgedInv'
<1>1. ASSUME NEW d \in Calls, d # c
      PROVE  /\ HeardOf(d)' /\ JobIsAwaited(d)' /\ SnapshotIsNewer(d)' /\ CitationStands(d)'
             /\ tool'[d] = "act" /\ Reached(d)' /\ loaded'[d] # NoRow => judged'[d] = hit'[d]
  <2>1. Rests(d) /\ JobIsAwaited(d) /\ CitationStands(d)
    BY <1>1 DEF JudgedInv
  <2>2. job[d] \in JobOver
    BY <2>1 DEF Rests, JobIsAwaited, Underway, TypeOK
  <2>3. HeardOf(d)'
    <3>1. gen' > 0 => known'[ServerOf[c]] = run'
      BY DEF Mine, HeardOf
    <3> QED
      BY <2>1, <3>1 DEF HeardOf, Rests, Underway, Serial
  <2>4. JobIsAwaited(d)'
    BY <2>1, <2>2 DEF JobIsAwaited, Rests, JobOver, Underway
  <2>5. SnapshotIsNewer(d)'
    BY <2>1 DEF SnapshotIsNewer, InTheMaking, Rests, Underway
  <2>6. CitationStands(d)'
    BY <2>1, <2>2 DEF CitationStands, Rests, Underway, JobOver
  <2>7. tool'[d] = "act" /\ Reached(d)' /\ loaded'[d] # NoRow => judged'[d] = hit'[d]
    BY <2>1 DEF Rests, Reached, JudgedInv, JudgedIsActedOn
  <2> QED
    BY <2>3, <2>4, <2>5, <2>6, <2>7
<1>2. OneCallAtATime'
  BY DEF OneCallAtATime, Rests
<1>3. JudgedIsActedOn'
  BY <1>1 DEF JudgedIsActedOn, Mine
<1> QED
  BY <1>1, <1>2, <1>3 DEF JudgedInv, Mine

\* In a Sequential environment a call that begins finds every other one at rest, and so does any
\* step of a call under way.
LEMMA Alone ==
  ASSUME JudgedInv, NEW c \in Calls, pc[c] \in Underway
  PROVE  \A d \in Calls : d # c => pc[d] \notin Underway
  BY DEF JudgedInv, OneCallAtATime

\* One action after another, a step keeps what a judged call counts on.
LEMMA JudgedStep == Serial /\ TypeOK /\ RecordInv /\ JudgedInv /\ [Next]_vars => JudgedInv'
<1> SUFFICES ASSUME Serial, TypeOK, RecordInv, JudgedInv, [Next]_vars PROVE JudgedInv'
  OBVIOUS
<1> USE PageAssumption, ServerAssumption, BoundAssumption
<1>1. ASSUME NEW c \in Calls, Govern(c) PROVE JudgedInv'
  <2>0. /\ RowTellsPage /\ HeardOf(c) /\ JobIsAwaited(c) /\ SnapshotIsNewer(c) /\ CitationStands(c)
        /\ CallKinds(c) /\ JobFollowsCall(c)
        /\ tool[c] = "act" /\ Reached(c) /\ loaded[c] # NoRow => judged[c] = hit[c]
    BY DEF JudgedInv, JudgedIsActedOn, RecordInv
  <2>1. ASSUME NEW t \in Tools, NEW g \in 0..MaxGen, BeginGoverned(c, t, g) PROVE JudgedInv'
    <3>1. Quiet
      BY <2>1 DEF BeginGoverned, MayStart, Serial
    <3>2. \A d \in Calls : d # c => Rests(d)
      BY <2>1, <3>1 DEF Quiet, Rests, BeginGoverned, Step, jobVars, TypeOK
    <3>3. RowTellsPage'
      BY <2>0, <2>1 DEF RowTellsPage, BeginGoverned, computerVars
    <3>4. job[c] = "none" /\ hit[c] = Nothing
      BY <2>0, <2>1 DEF BeginGoverned, Step, JobFollowsCall
    <3>5. Mine(c)'
      BY <2>0, <2>1, <3>1, <3>4 DEF BeginGoverned, Step, jobVars, computerVars, restVars, Underway, TypeOK, Mine, HeardOf,
         JobIsAwaited, SnapshotIsNewer, InTheMaking, CitationStands, Reached, Quiet, JobOver
    <3> QED
      BY <3>2, <3>3, <3>5, OneCallMoves
  <2>2. CASE Load(c)
    <3>1. \A d \in Calls : d # c => Rests(d)
      BY <2>2, Alone DEF Underway, Rests, Load, Step, jobVars, TypeOK
    <3>2. RowTellsPage'
      BY <2>0, <2>2 DEF RowTellsPage, Load, computerVars
    <3>3. Mine(c)'
      BY <2>0, <2>2 DEF Load, Step, jobVars, computerVars, restVars, TypeOK, Mine, HeardOf, JobFollowsCall,
         JobIsAwaited, SnapshotIsNewer, InTheMaking, CitationStands, Reached, Underway, JobOver
    <3> QED
      BY <3>1, <3>2, <3>3, OneCallMoves
  <2>3. CASE Decide(c)
    <3>1. \A d \in Calls : d # c => Rests(d)
      BY <2>3, Alone DEF Underway, Rests, Decide, Step, jobVars, TypeOK
    <3>2. RowTellsPage'
      BY <2>0, <2>3 DEF RowTellsPage, Decide, computerVars
    <3>3. ASSUME tool[c] = "act", judged'[c] # Nothing
          PROVE  /\ loaded[c] # NoRow /\ judged'[c] = loaded[c].page /\ loaded[c].gen = cited[c]
                 /\ gen = cited[c] => loaded[c].session = run
      <4>1. judged'[c] = Resolve(loaded[c], cited[c], known[ServerOf[c]])
        BY <2>3 DEF Decide, TypeOK
      <4>2. /\ cited[c] # 0 /\ loaded[c] # NoRow /\ loaded[c].gen = cited[c] /\ judged'[c] = loaded[c].page
            /\ \/ known[ServerOf[c]] = Unknown \/ loaded[c].session = Unknown
               \/ loaded[c].session = known[ServerOf[c]]
        BY <3>3, <4>1 DEF Resolve
      <4>3. loaded[c].session # Unknown /\ run # Unknown
        BY <2>0, <2>3, <3>3, <4>2 DEF CitationStands, RowTellsPage, Decide, Step, TypeOK, Unknown
      <4>4. gen = cited[c] => known[ServerOf[c]] = run
        BY <2>0, <4>2 DEF HeardOf, TypeOK
      <4> QED
        BY <4>2, <4>3, <4>4
    <3>4. Mine(c)'
      BY <2>0, <2>3, <3>3 DEF Decide, Step, jobVars, computerVars, restVars, TypeOK, Mine, HeardOf, JobFollowsCall,
         JobIsAwaited, SnapshotIsNewer, InTheMaking, CitationStands, Reached, Underway, JobOver
    <3> QED
      BY <3>1, <3>2, <3>4, OneCallMoves
  <2>4. CASE Record(c)
    <3>1. \A d \in Calls : d # c => Rests(d)
      BY <2>0, <2>4, Alone DEF Underway, JobIsAwaited, Rests, Record, Step, callVars, jobVars, TypeOK
    <3>2. RowTellsPage'
      BY <2>0, <2>4 DEF RowTellsPage, Record, computerVars
    <3>3. Mine(c)'
      BY <2>0, <2>4 DEF Record, Step, callVars, jobVars, computerVars, restVars, TypeOK, Mine, HeardOf, JobFollowsCall,
         JobIsAwaited, SnapshotIsNewer, InTheMaking, CitationStands, Reached, Underway, JobOver, Unresolved, Serial
    <3> QED
      BY <3>1, <3>2, <3>3, OneCallMoves
  <2>5. CASE RecordThrows(c)
    <3>1. \A d \in Calls : d # c => Rests(d)
      BY <2>0, <2>5, Alone DEF Underway, JobIsAwaited, Rests, RecordThrows, Step, callVars, jobVars, TypeOK
    <3>2. RowTellsPage'
      BY <2>0, <2>5 DEF RowTellsPage, RecordThrows, computerVars
    <3>3. Mine(c)'
      BY <2>0, <2>5 DEF RecordThrows, Step, callVars, jobVars, computerVars, restVars, TypeOK, Mine, HeardOf, JobFollowsCall,
         JobIsAwaited, SnapshotIsNewer, InTheMaking, CitationStands, Reached, Underway, JobOver
    <3> QED
      BY <3>1, <3>2, <3>3, OneCallMoves
  <2>6. CASE Locate(c)
    <3>1. \A d \in Calls : d # c => Rests(d)
      BY <2>0, <2>6, Alone DEF Underway, JobIsAwaited, Rests, Locate, Step, callVars, jobVars, TypeOK
    <3>2. RowTellsPage'
      BY <2>0, <2>6 DEF RowTellsPage, Locate, computerVars
    <3>3. Mine(c)'
      BY <2>0, <2>6 DEF Locate, Step, callVars, jobVars, computerVars, restVars, TypeOK, Mine, HeardOf, JobFollowsCall,
         JobIsAwaited, SnapshotIsNewer, InTheMaking, CitationStands, Reached, Underway, JobOver, Serial
    <3> QED
      BY <3>1, <3>2, <3>3, OneCallMoves
  <2>7. CASE RunThrows(c)
    <3>1. \A d \in Calls : d # c => Rests(d)
      BY <2>0, <2>7, Alone DEF Underway, JobIsAwaited, Rests, RunThrows, Step, callVars, jobVars, TypeOK
    <3>2. RowTellsPage'
      BY <2>0, <2>7 DEF RowTellsPage, RunThrows, computerVars
    <3>3. Mine(c)'
      BY <2>0, <2>7 DEF RunThrows, Step, callVars, jobVars, computerVars, restVars, TypeOK, Mine, HeardOf, JobFollowsCall,
         JobIsAwaited, SnapshotIsNewer, InTheMaking, CitationStands, Reached, Underway, JobOver, Serial
    <3> QED
      BY <3>1, <3>2, <3>3, OneCallMoves
  <2>8. CASE RecordFailure(c)
    <3>1. \A d \in Calls : d # c => Rests(d)
      BY <2>0, <2>8, Alone DEF Underway, JobIsAwaited, Rests, RecordFailure, Step, callVars, jobVars, TypeOK
    <3>2. RowTellsPage'
      BY <2>0, <2>8 DEF RowTellsPage, RecordFailure, computerVars
    <3>3. Mine(c)'
      BY <2>0, <2>8 DEF RecordFailure, Step, callVars, jobVars, computerVars, restVars, TypeOK, Mine, HeardOf, JobFollowsCall,
         JobIsAwaited, SnapshotIsNewer, InTheMaking, CitationStands, Reached, Underway, JobOver
    <3> QED
      BY <3>1, <3>2, <3>3, OneCallMoves
  <2>9. CASE RecordFailureThrows(c)
    <3>1. \A d \in Calls : d # c => Rests(d)
      BY <2>0, <2>9, Alone DEF Underway, JobIsAwaited, Rests, RecordFailureThrows, Step, callVars, jobVars, TypeOK
    <3>2. RowTellsPage'
      BY <2>0, <2>9 DEF RowTellsPage, RecordFailureThrows, computerVars
    <3>3. Mine(c)'
      BY <2>0, <2>9 DEF RecordFailureThrows, Step, callVars, jobVars, computerVars, restVars, TypeOK, Mine, HeardOf, JobFollowsCall,
         JobIsAwaited, SnapshotIsNewer, InTheMaking, CitationStands, Reached, Underway, JobOver
    <3> QED
      BY <3>1, <3>2, <3>3, OneCallMoves
  <2>10. CASE Return(c)
    <3>1. \A d \in Calls : d # c => Rests(d)
      BY <2>0, <2>10, Alone DEF Underway, JobIsAwaited, Rests, Return, Step, callVars, jobVars, TypeOK
    <3>2. RowTellsPage'
      BY <2>0, <2>10 DEF RowTellsPage, Return, computerVars
    <3>3. Mine(c)'
      BY <2>0, <2>10 DEF Return, Step, callVars, jobVars, computerVars, restVars, TypeOK, Mine, HeardOf, JobFollowsCall,
         JobIsAwaited, SnapshotIsNewer, InTheMaking, CitationStands, Reached, Underway, JobOver
    <3> QED
      BY <3>1, <3>2, <3>3, OneCallMoves
  <2> QED
    BY <1>1, <2>1, <2>2, <2>3, <2>4, <2>5, <2>6, <2>7, <2>8, <2>9, <2>10 DEF Govern
<1>2. ASSUME NEW c \in Calls, Snapshot(c) PROVE JudgedInv'
  <2>0. /\ RowTellsPage /\ HeardOf(c) /\ JobIsAwaited(c) /\ SnapshotIsNewer(c) /\ CitationStands(c)
        /\ CallKinds(c) /\ JobFollowsCall(c)
        /\ tool[c] = "act" /\ Reached(c) /\ loaded[c] # NoRow => judged[c] = hit[c]
    BY DEF JudgedInv, JudgedIsActedOn, RecordInv
  <2>1. CASE BeginSnapshot(c)
    <3>1. Quiet
      BY <2>1 DEF BeginSnapshot, MayStart, Serial
    <3>2. \A d \in Calls : d # c => Rests(d)
      BY <2>1, <3>1 DEF Quiet, Rests, BeginSnapshot, Step, TypeOK
    <3>3. RowTellsPage'
      BY <2>0, <2>1 DEF RowTellsPage, BeginSnapshot, computerVars
    <3>4. job[c] = "none" /\ hit[c] = Nothing
      BY <2>0, <2>1 DEF BeginSnapshot, Step, JobFollowsCall
    <3>5. Mine(c)'
      BY <2>0, <2>1, <3>1, <3>4 DEF BeginSnapshot, Step, computerVars, restVars, TypeOK, Mine, HeardOf, Serial,
         JobIsAwaited, SnapshotIsNewer, InTheMaking, CitationStands, Reached, Quiet, JobOver, Underway
    <3> QED
      BY <3>2, <3>3, <3>5, OneCallMoves
  <2>2. CASE SnapshotArrives(c)
    <3>1. \A d \in Calls : d # c => Rests(d)
      BY <2>0, <2>2, Alone DEF Underway, JobIsAwaited, Rests, SnapshotArrives, Step, callVars, jobVars, TypeOK
    <3>2. RowTellsPage'
      BY <2>0, <2>2 DEF RowTellsPage, SnapshotArrives, computerVars
    <3>3. Mine(c)'
      BY <2>0, <2>2 DEF SnapshotArrives, Step, callVars, jobVars, computerVars, restVars, TypeOK, Mine, HeardOf, JobFollowsCall,
         JobIsAwaited, SnapshotIsNewer, InTheMaking, CitationStands, Reached, Underway, JobOver, CallKinds, Serial
    <3> QED
      BY <3>1, <3>2, <3>3, OneCallMoves
  <2>3. CASE SnapshotThrows(c)
    <3>1. \A d \in Calls : d # c => Rests(d)
      BY <2>0, <2>3, Alone DEF Underway, JobIsAwaited, Rests, SnapshotThrows, Step, callVars, jobVars, TypeOK
    <3>2. RowTellsPage'
      BY <2>0, <2>3 DEF RowTellsPage, SnapshotThrows, computerVars
    <3>3. Mine(c)'
      BY <2>0, <2>3 DEF SnapshotThrows, Step, callVars, jobVars, computerVars, restVars, TypeOK, Mine, HeardOf, JobFollowsCall,
         JobIsAwaited, SnapshotIsNewer, InTheMaking, CitationStands, Reached, Underway, JobOver, CallKinds, Serial
    <3> QED
      BY <3>1, <3>2, <3>3, OneCallMoves
  <2>4. CASE Save(c)
    <3>1. \A d \in Calls : d # c => Rests(d)
      BY <2>0, <2>4, Alone DEF Underway, Rests, Save, Step, callVars, jobVars, TypeOK
    <3> DEFINE new == [gen |-> snap[c].gen, page |-> snap[c].page, session |-> known[ServerOf[c]]]
    <3>2. /\ new.gen = gen /\ new.session = run /\ (marked => new.page = page)
          /\ gen > 0 /\ (row # NoRow /\ row.session = run => row.gen < gen) /\ run \in Nat /\ run > 0
      BY <2>0, <2>4 DEF Save, Step, HeardOf, SnapshotIsNewer, InTheMaking, JobIsAwaited, TypeOK
    <3>3. row' = IF SaveWins(row, new) THEN new ELSE row
      BY <2>4 DEF Save
    <3> HIDE DEF new
    <3>4. row' = new
      <4>1. ~SaveWins(row, new) => row # NoRow /\ ~(row.gen < new.gen) /\ row.session = new.session
        BY DEF SaveWins
      <4> QED
        BY <3>2, <3>3, <4>1
    <3>5. RowTellsPage'
      <4>1. UNCHANGED <<run, gen, page, marked>>
        BY <2>4 DEF Save, computerVars
      <4> QED
        BY <3>2, <3>4, <4>1 DEF RowTellsPage, TypeOK
    <3>6. Mine(c)'
      BY <2>0, <2>4 DEF Save, Step, callVars, jobVars, computerVars, restVars, TypeOK, CallKinds, Mine, HeardOf, JobFollowsCall,
         JobIsAwaited, SnapshotIsNewer, InTheMaking, CitationStands, Reached, Underway, JobOver
    <3> QED
      BY <3>1, <3>5, <3>6, OneCallMoves
  <2> QED
    BY <1>2, <2>1, <2>2, <2>3, <2>4 DEF Snapshot
<1>3. ASSUME NEW c \in Calls, Computer(c) PROVE JudgedInv'
  <2>0. /\ RowTellsPage /\ HeardOf(c) /\ JobIsAwaited(c) /\ SnapshotIsNewer(c) /\ CitationStands(c)
        /\ CallKinds(c) /\ JobFollowsCall(c)
        /\ tool[c] = "act" /\ Reached(c) /\ loaded[c] # NoRow => judged[c] = hit[c]
    BY DEF JudgedInv, JudgedIsActedOn, RecordInv
  <2>1. CASE Count(c)
    <3>1. \A d \in Calls : d # c => Rests(d)
      BY <2>0, <2>1, Alone DEF Underway, JobIsAwaited, Rests, Count, Step, callVars, jobVars, TypeOK, JobOver
    <3>2. RowTellsPage'
      BY <2>0, <2>1 DEF RowTellsPage, Count, TypeOK, Rows
    <3>3. Mine(c)'
      <4>1. /\ gen' = gen + 1 /\ gen \in Nat /\ job'[c] = "counted" /\ pc[c] = "snapping" /\ tool[c] = "snapshot"
            /\ UNCHANGED <<pc, tool, cited, loaded, judged, hit, run, page, marked, row, known, resetting>>
        <5>1. job[c] = "asked" /\ tool[c] = "snapshot"
          BY <2>1 DEF Count
        <5>2. pc[c] = "snapping"
          BY <2>0, <5>1 DEF JobIsAwaited, CallKinds, JobOver
        <5> QED
          BY <2>1, <5>1, <5>2 DEF Count, callVars, restVars, TypeOK
      <4>2. row # NoRow /\ row.session = run => row.gen < gen + 1
        BY <2>0, <4>1 DEF RowTellsPage, TypeOK, Rows
      <4>3. HeardOf(c)' /\ JobIsAwaited(c)' /\ CitationStands(c)'
        BY <2>0, <4>1 DEF HeardOf, JobIsAwaited, CitationStands, JobOver
      <4>4. SnapshotIsNewer(c)'
        BY <4>1, <4>2 DEF SnapshotIsNewer, InTheMaking
      <4> QED
        BY <4>1, <4>3, <4>4 DEF Mine
    <3> QED
      BY <3>1, <3>2, <3>3, OneCallMoves
  <2>2. CASE Capture(c)
    <3>1. \A d \in Calls : d # c => Rests(d)
      BY <2>0, <2>2, Alone DEF Underway, JobIsAwaited, Rests, Capture, Step, callVars, jobVars, TypeOK, JobOver
    <3>2. RowTellsPage'
      <4>1. job[c] = "counted" /\ UNCHANGED <<run, gen, page, row>>
        BY <2>2 DEF Capture
      <4>2. pc[c] = "snapping"
        BY <2>0, <4>1 DEF JobIsAwaited, CallKinds, JobOver
      <4>3. row # NoRow /\ row.session = run => row.gen < gen
        BY <2>0, <4>1, <4>2 DEF SnapshotIsNewer, InTheMaking
      <4> QED
        BY <2>0, <4>1, <4>3 DEF RowTellsPage, TypeOK, Rows
    <3>3. Mine(c)'
      BY <2>0, <2>2 DEF Capture, Step, callVars, jobVars, computerVars, restVars, TypeOK, Mine, HeardOf, JobFollowsCall,
         JobIsAwaited, SnapshotIsNewer, InTheMaking, CitationStands, Reached, Underway, JobOver, CallKinds, Serial
    <3> QED
      BY <3>1, <3>2, <3>3, OneCallMoves
  <2>3. CASE Stamp(c)
    <3>1. \A d \in Calls : d # c => Rests(d)
      BY <2>0, <2>3, Alone DEF Underway, JobIsAwaited, Rests, Stamp, Step, callVars, jobVars, TypeOK, JobOver
    <3>2. RowTellsPage'
      BY <2>0, <2>3 DEF RowTellsPage, Stamp, computerVars
    <3>3. Mine(c)'
      BY <2>0, <2>3 DEF Stamp, Step, callVars, jobVars, computerVars, restVars, TypeOK, Mine, HeardOf, JobFollowsCall,
         JobIsAwaited, SnapshotIsNewer, InTheMaking, CitationStands, Reached, Underway, JobOver, CallKinds, Serial
    <3> QED
      BY <3>1, <3>2, <3>3, OneCallMoves
  <2>4. CASE Admit(c)
    <3>1. \A d \in Calls : d # c => Rests(d)
      BY <2>0, <2>4, Alone DEF Underway, JobIsAwaited, Rests, Admit, Step, callVars, jobVars, TypeOK, JobOver
    <3>2. RowTellsPage'
      BY <2>0, <2>4 DEF RowTellsPage, Admit, computerVars
    <3>3. Mine(c)'
      BY <2>0, <2>4 DEF Admit, Step, callVars, jobVars, computerVars, restVars, TypeOK, Mine, HeardOf, JobFollowsCall,
         JobIsAwaited, SnapshotIsNewer, InTheMaking, CitationStands, Reached, Underway, JobOver, CallKinds, Serial
    <3> QED
      BY <3>1, <3>2, <3>3, OneCallMoves
  <2>5. CASE TurnDown(c)
    <3>1. \A d \in Calls : d # c => Rests(d)
      BY <2>0, <2>5, Alone DEF Underway, JobIsAwaited, Rests, TurnDown, Step, callVars, jobVars, TypeOK, JobOver
    <3>2. RowTellsPage'
      BY <2>0, <2>5 DEF RowTellsPage, TurnDown, computerVars
    <3>3. Mine(c)'
      BY <2>0, <2>5 DEF TurnDown, Step, callVars, jobVars, computerVars, restVars, TypeOK, Mine, HeardOf, JobFollowsCall,
         JobIsAwaited, SnapshotIsNewer, InTheMaking, CitationStands, Reached, Underway, JobOver, CallKinds, Serial
    <3> QED
      BY <3>1, <3>2, <3>3, OneCallMoves
  <2>6. CASE ActOnElement(c)
    <3>1. \A d \in Calls : d # c => Rests(d)
      BY <2>0, <2>6, Alone DEF Underway, JobIsAwaited, Rests, ActOnElement, Step, callVars, jobVars, TypeOK, JobOver
    <3>2. RowTellsPage'
      BY <2>0, <2>6 DEF RowTellsPage, ActOnElement, computerVars
    <3>3. Mine(c)'
      <4>1. /\ tool[c] = "act" /\ job[c] = "admitted" /\ pc[c] = "sent" /\ marked
            /\ job'[c] = "landed" /\ hit'[c] = page
            /\ UNCHANGED <<pc, tool, cited, loaded, judged, run, gen, page, marked, row, known, resetting>>
        BY <2>0, <2>6 DEF ActOnElement, callVars, computerVars, restVars, TypeOK, JobIsAwaited, CallKinds, JobOver
      <4>2. HeardOf(c)' /\ JobIsAwaited(c)' /\ CitationStands(c)' /\ SnapshotIsNewer(c)'
        BY <2>0, <4>1 DEF HeardOf, JobIsAwaited, CitationStands, JobOver, SnapshotIsNewer, InTheMaking
      <4>3. loaded[c] # NoRow => judged[c] = page
        BY <2>0, <4>1 DEF CitationStands, RowTellsPage
      <4> QED
        BY <4>1, <4>2, <4>3 DEF Mine
    <3> QED
      BY <3>1, <3>2, <3>3, OneCallMoves
  <2>7. CASE ActPlainly(c)
    <3>1. \A d \in Calls : d # c => Rests(d)
      BY <2>0, <2>7, Alone DEF Underway, JobIsAwaited, Rests, ActPlainly, Step, callVars, jobVars, TypeOK, JobOver
    <3>2. RowTellsPage'
      BY <2>0, <2>7 DEF RowTellsPage, ActPlainly, computerVars
    <3>3. Mine(c)'
      BY <2>0, <2>7 DEF ActPlainly, Step, callVars, jobVars, computerVars, restVars, TypeOK, Mine, HeardOf, JobFollowsCall,
         JobIsAwaited, SnapshotIsNewer, InTheMaking, CitationStands, Reached, Underway, JobOver, CallKinds, Serial
    <3> QED
      BY <3>1, <3>2, <3>3, OneCallMoves
  <2>8. CASE Goto(c)
    <3>1. \A d \in Calls : d # c => Rests(d)
      BY <2>0, <2>8, Alone DEF Underway, JobIsAwaited, Rests, Goto, Step, callVars, jobVars, TypeOK, JobOver
    <3>2. RowTellsPage'
      BY <2>0, <2>8 DEF RowTellsPage, Goto, computerVars
    <3>3. Mine(c)'
      BY <2>0, <2>8 DEF Goto, Step, callVars, jobVars, computerVars, restVars, TypeOK, Mine, HeardOf, JobFollowsCall,
         JobIsAwaited, SnapshotIsNewer, InTheMaking, CitationStands, Reached, Underway, JobOver, CallKinds, Serial
    <3> QED
      BY <3>1, <3>2, <3>3, OneCallMoves
  <2>9. CASE NavigateCounts(c)
    <3>1. \A d \in Calls : d # c => Rests(d)
      BY <2>0, <2>9, Alone DEF Underway, JobIsAwaited, Rests, NavigateCounts, Step, callVars, jobVars, TypeOK, JobOver
    <3>2. RowTellsPage'
      BY <2>0, <2>9 DEF RowTellsPage, NavigateCounts, TypeOK, Rows
    <3>3. Mine(c)'
      BY <2>0, <2>9 DEF NavigateCounts, Step, callVars, jobVars, computerVars, restVars, TypeOK, Mine, HeardOf, JobFollowsCall,
         JobIsAwaited, SnapshotIsNewer, InTheMaking, CitationStands, Reached, Underway, JobOver, CallKinds, Serial
    <3> QED
      BY <3>1, <3>2, <3>3, OneCallMoves
  <2> QED
    BY <1>3, <2>1, <2>2, <2>3, <2>4, <2>5, <2>6, <2>7, <2>8, <2>9 DEF Computer
<1>4. CASE World
  <2>1. CASE PageMoves \/ ChangePolicy
    <3>1. /\ UNCHANGED <<pc, tool, cited, loaded, judged, job, snap, hit, run, gen, row, known, resetting>>
          /\ marked' = FALSE \/ UNCHANGED <<page, marked>>
      BY <2>1 DEF PageMoves, ChangePolicy, callVars, jobVars, computerVars, restVars
    <3>2. ASSUME NEW c \in Calls
          PROVE  HeardOf(c)' /\ JobIsAwaited(c)' /\ SnapshotIsNewer(c)' /\ CitationStands(c)'
      <4>1. HeardOf(c) /\ JobIsAwaited(c) /\ SnapshotIsNewer(c) /\ CitationStands(c)
        BY DEF JudgedInv
      <4> QED
        BY <3>1, <4>1 DEF HeardOf, JobIsAwaited, SnapshotIsNewer, InTheMaking, CitationStands
    <3>3. OneCallAtATime' /\ JudgedIsActedOn' /\ RowTellsPage'
      BY <3>1 DEF JudgedInv, OneCallAtATime, JudgedIsActedOn, Reached, RowTellsPage
    <3> QED
      BY <3>2, <3>3 DEF JudgedInv
  <2>2. CASE Restart \/ Reset
    <3>1. /\ Quiet /\ StartAgain
          /\ UNCHANGED <<pc, tool, cited, loaded, judged, row, known>>
      BY <2>2 DEF Restart, Reset, MayStart, Serial, callVars
    <3>2. hit' = hit /\ job' = job /\ gen' = 0 /\ run' = run + 1 /\ marked' = FALSE
      BY <3>1 DEF StartAgain, Quiet, TypeOK
    <3>3. RowTellsPage'
      BY <3>1, <3>2 DEF RowTellsPage, TypeOK, JudgedInv
    <3>4. ASSUME NEW c \in Calls
          PROVE  HeardOf(c)' /\ JobIsAwaited(c)' /\ SnapshotIsNewer(c)' /\ CitationStands(c)'
      <4>1. pc[c] \notin Underway /\ job[c] \in JobOver /\ JobIsAwaited(c) /\ CitationStands(c)
        BY <3>1 DEF Quiet, JudgedInv
      <4>2. HeardOf(c)' /\ SnapshotIsNewer(c)' /\ CitationStands(c)'
        <5>1. HeardOf(c)'
          BY <3>1, <3>2, <4>1 DEF HeardOf, Underway
        <5>2. SnapshotIsNewer(c)'
          BY <3>1, <3>2, <4>1 DEF SnapshotIsNewer, InTheMaking, Underway
        <5>3. CitationStands(c)'
          BY <3>1, <3>2, <4>1 DEF CitationStands, Underway, JobOver
        <5> QED
          BY <5>1, <5>2, <5>3
      <4>3. JobIsAwaited(c)'
        BY <3>1, <3>2, <4>1 DEF JobIsAwaited
      <4> QED
        BY <4>2, <4>3
    <3>5. OneCallAtATime' /\ JudgedIsActedOn'
      BY <3>1, <3>2 DEF JudgedInv, OneCallAtATime, JudgedIsActedOn, Reached
    <3> QED
      BY <3>3, <3>4, <3>5 DEF JudgedInv
  <2>3. CASE ClearRow
    <3>1. /\ resetting /\ row' = NoRow
          /\ UNCHANGED <<pc, tool, cited, loaded, judged, job, snap, hit, run, gen, page, marked, known>>
      BY <2>3 DEF ClearRow, callVars, jobVars, computerVars
    <3>2. ASSUME NEW c \in Calls
          PROVE  HeardOf(c)' /\ JobIsAwaited(c)' /\ SnapshotIsNewer(c)' /\ CitationStands(c)'
      <4>1. pc[c] \notin Underway /\ HeardOf(c) /\ JobIsAwaited(c) /\ CitationStands(c)
        BY <3>1 DEF JudgedInv, JobIsAwaited
      <4> QED
        BY <3>1, <4>1 DEF HeardOf, JobIsAwaited, SnapshotIsNewer, InTheMaking, CitationStands,
           Underway, JobOver
    <3>3. OneCallAtATime' /\ JudgedIsActedOn' /\ RowTellsPage'
      BY <3>1 DEF JudgedInv, OneCallAtATime, JudgedIsActedOn, Reached, RowTellsPage
    <3> QED
      BY <3>2, <3>3 DEF JudgedInv
  <2>4. ASSUME NEW s \in Servers, Crash(s) PROVE FALSE
    BY <2>4 DEF Crash, Serial, TypeOK
  <2> QED
    BY <1>4, <2>1, <2>2, <2>3, <2>4 DEF World
<1>5. CASE UNCHANGED vars
  BY <1>5 DEF vars, JudgedInv, RowTellsPage, OneCallAtATime, JudgedIsActedOn, Reached, restVars,
     HeardOf, JobIsAwaited, SnapshotIsNewer, InTheMaking, CitationStands, callVars, jobVars, computerVars
<1> QED
  BY <1>1, <1>2, <1>3, <1>4, <1>5 DEF Next

\* The policy never decides on another element than the one the call lands on: on one server that
\* lives and hears of runs, one thing at a time.
THEOREM JudgedIsActedOnAlways == Serial => (Spec => []JudgedIsActedOn)
<1> SUFFICES ASSUME Serial PROVE Spec => []JudgedIsActedOn
  OBVIOUS
<1>1. Init => TypeOK /\ RecordInv /\ JudgedInv
  <2>1. Init => JudgedInv
    BY DEF Init, JudgedInv, RowTellsPage, OneCallAtATime, JudgedIsActedOn, Reached, HeardOf, Underway,
       JobIsAwaited, SnapshotIsNewer, InTheMaking, CitationStands, JobOver
  <2> QED
    BY <2>1, TypeInit, RecordInit
<1>2. TypeOK /\ RecordInv /\ JudgedInv /\ [Next]_vars => TypeOK' /\ RecordInv' /\ JudgedInv'
  BY TypeStep, RecordStep, JudgedStep
<1>3. JudgedInv => JudgedIsActedOn
  BY DEF JudgedInv
<1> QED
  BY <1>1, <1>2, <1>3, PTL DEF Spec
=============================================================================
