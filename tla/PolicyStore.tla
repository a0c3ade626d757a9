---------------------------- MODULE PolicyStore ----------------------------
(***************************************************************************)
(* The boundary every server enforces: server/src/computer/policy-store.ts *)
(* and policy-listener.ts.  One row in Postgres is the record; each server *)
(* process keeps a copy in memory, which is what `govern` reads.  A change *)
(* is committed together with a NOTIFY, and the process that made it also  *)
(* assigns its own copy once the commit is back; every server that hears   *)
(* the notification re-reads the row.                                      *)
(*                                                                         *)
(* The commit, the assignment after it, the delivery of a notification,    *)
(* the select and the assignment of what it found are steps of their own,  *)
(* because each is on the other side of an await.                          *)
(***************************************************************************)
EXTENDS Naturals, FiniteSets, TLAPS

CONSTANTS
    Servers,     \* the server processes
    Requests,    \* changes administrators make, each served once
    Refreshes,   \* how many re-reads a process may have outstanding
    Policies,    \* the policies that can be saved
    Configured,  \* the policy configuration names, in force while none is saved
    NoRow,       \* no saved policy
    OneAtATime,  \* whether a change waits until the one before it has settled
    MaxDrops     \* bound on lost listener connections, restarts and failed re-reads

ASSUME PolicyAssumption == Configured \in Policies /\ NoRow \notin Policies
ASSUME ModeAssumption   == OneAtATime \in BOOLEAN
ASSUME BoundAssumption  == MaxDrops \in Nat

VARIABLES
    row,       \* action_policy: the saved policy
    current,   \* `current` of each process
    request,   \* each change: idle, committed but not yet assigned, or over
    server,    \* the process serving the change
    wanted,    \* what the change asks for; NoRow for a reset
    pending,   \* notifications each process has not delivered to its listener yet
    listening, \* whether the process's LISTEN connection is up
    refresh,   \* each re-read: idle, reading, or read and not yet assigned
    found,     \* what a finished select saw
    missed,    \* a re-read failed and no other has succeeded since (a log line, nothing else)
    drops

vars == <<row, current, request, server, wanted, pending, listening, refresh, found, missed, drops>>

\* What a row means: no row is "somebody reset it", and reset means configuration.
Effective(r) == IF r = NoRow THEN Configured ELSE r

TypeOK ==
    /\ row \in Policies \cup {NoRow}
    /\ current \in [Servers -> Policies]
    /\ request \in [Requests -> {"idle", "committed", "over"}]
    /\ server \in [Requests -> Servers]
    /\ wanted \in [Requests -> Policies \cup {NoRow}]
    /\ pending \in [Servers -> Nat]
    /\ listening \in [Servers -> BOOLEAN]
    /\ refresh \in [Servers -> [Refreshes -> {"idle", "reading", "read"}]]
    /\ found \in [Servers -> [Refreshes -> Policies]]
    /\ missed \in [Servers -> BOOLEAN]
    /\ drops \in 0..MaxDrops

\* A deployment that has booted: `load` found no saved policy and the listener is up.
Init ==
    /\ row = NoRow
    /\ current = [s \in Servers |-> Configured]
    /\ request = [r \in Requests |-> "idle"]
    /\ server \in [Requests -> Servers]
    /\ wanted \in [Requests -> Policies \cup {NoRow}]
    /\ pending = [s \in Servers |-> 0]
    /\ listening = [s \in Servers |-> TRUE]
    /\ refresh = [s \in Servers |-> [k \in Refreshes |-> "idle"]]
    /\ found = [s \in Servers |-> [k \in Refreshes |-> Configured]]
    /\ missed = [s \in Servers |-> FALSE]
    /\ drops = 0

\* Nothing is on its way and every listener is connected.
Quiescent ==
    /\ \A r \in Requests : request[r] # "committed"
    /\ \A s \in Servers :
          /\ pending[s] = 0 /\ listening[s]
          /\ \A k \in Refreshes : refresh[s][k] = "idle"

-----------------------------------------------------------------------------
\* The transaction of `set` and of `reset` commits: the row changes and every process that is
\* listening will hear of it, this one included.  A transaction that fails changes nothing and
\* announces nothing, so it is not a step.
Commit(r) ==
    /\ OneAtATime => Quiescent
    /\ request[r] = "idle"
    /\ request' = [request EXCEPT ![r] = "committed"]
    /\ row' = wanted[r]
    /\ pending' = [s \in Servers |-> IF listening[s] THEN pending[s] + 1 ELSE pending[s]]
    /\ UNCHANGED <<current, server, wanted, listening, refresh, found, missed, drops>>

\* After the await: `current = next`, or the configured policy after a reset.
AssignRaw(r) ==
    /\ request[r] = "committed"
    /\ request' = [request EXCEPT ![r] = "over"]
    /\ current' = [current EXCEPT ![server[r]] = wanted[r]]
    /\ UNCHANGED <<row, server, wanted, pending, listening, refresh, found, missed, drops>>
Assign(r) ==
    /\ request[r] = "committed"
    /\ request' = [request EXCEPT ![r] = "over"]
    /\ current' = [current EXCEPT ![server[r]] = Effective(wanted[r])]
    /\ UNCHANGED <<row, server, wanted, pending, listening, refresh, found, missed, drops>>

\* A notification is delivered and `reread` starts a refresh.
Hear(s, k) ==
    /\ pending[s] > 0 /\ refresh[s][k] = "idle"
    /\ pending' = [pending EXCEPT ![s] = @ - 1]
    /\ refresh' = [refresh EXCEPT ![s][k] = "reading"]
    /\ UNCHANGED <<row, current, request, server, wanted, listening, found, missed, drops>>

\* The select runs, on whichever connection of the pool it was given.
SelectKeepsOnReset(s, k) ==
    /\ refresh[s][k] = "reading"
    /\ refresh' = [refresh EXCEPT ![s][k] = "read"]
    /\ found' = [found EXCEPT ![s][k] = IF row = NoRow THEN current[s] ELSE row]
    /\ UNCHANGED <<row, current, request, server, wanted, pending, listening, missed, drops>>
Select(s, k) ==
    /\ refresh[s][k] = "reading"
    /\ refresh' = [refresh EXCEPT ![s][k] = "read"]
    /\ found' = [found EXCEPT ![s][k] = Effective(row)]
    /\ UNCHANGED <<row, current, request, server, wanted, pending, listening, missed, drops>>

Refreshed(s, k) ==
    /\ refresh[s][k] = "read"
    /\ refresh' = [refresh EXCEPT ![s][k] = "idle"]
    /\ current' = [current EXCEPT ![s] = found[s][k]]
    /\ missed' = [missed EXCEPT ![s] = FALSE]
    /\ UNCHANGED <<row, request, server, wanted, pending, listening, found, drops>>

\* The select fails.  The listener logs it; the process goes on with the rules it has.
RefreshFails(s, k) ==
    /\ drops < MaxDrops
    /\ refresh[s][k] = "reading"
    /\ refresh' = [refresh EXCEPT ![s][k] = "idle"]
    /\ missed' = [missed EXCEPT ![s] = TRUE]
    /\ drops' = drops + 1
    /\ UNCHANGED <<row, current, request, server, wanted, pending, listening, found>>

\* The LISTEN connection is lost, with whatever it had not delivered.
Drop(s) ==
    /\ drops < MaxDrops /\ listening[s]
    /\ listening' = [listening EXCEPT ![s] = FALSE]
    /\ pending' = [pending EXCEPT ![s] = 0]
    /\ drops' = drops + 1
    /\ UNCHANGED <<row, current, request, server, wanted, refresh, found, missed>>

\* `onlisten`: the subscription is back, and the row is re-read because of what may have been missed.
RelistenQuietly(s, k) ==
    /\ ~listening[s] /\ refresh[s][k] = "idle"
    /\ listening' = [listening EXCEPT ![s] = TRUE]
    /\ UNCHANGED <<row, current, request, server, wanted, pending, refresh, found, missed, drops>>
Relisten(s, k) ==
    /\ ~listening[s] /\ refresh[s][k] = "idle"
    /\ listening' = [listening EXCEPT ![s] = TRUE]
    /\ refresh' = [refresh EXCEPT ![s][k] = "reading"]
    /\ UNCHANGED <<row, current, request, server, wanted, pending, found, missed, drops>>

\* A process restarts: `load` reads the row, and the listener is not up yet.  A change it had
\* committed and not assigned stays committed.
Restart(s) ==
    /\ drops < MaxDrops
    /\ drops' = drops + 1
    /\ current' = [current EXCEPT ![s] = Effective(row)]
    /\ request' = [r \in Requests |->
                     IF request[r] = "committed" /\ server[r] = s THEN "over" ELSE request[r]]
    /\ pending' = [pending EXCEPT ![s] = 0]
    /\ listening' = [listening EXCEPT ![s] = FALSE]
    /\ refresh' = [refresh EXCEPT ![s] = [k \in Refreshes |-> "idle"]]
    /\ missed' = [missed EXCEPT ![s] = FALSE]
    /\ UNCHANGED <<row, server, wanted, found>>

-----------------------------------------------------------------------------
Listener(s) == \E k \in Refreshes :
    \/ Hear(s, k) \/ Select(s, k) \/ Refreshed(s, k) \/ RefreshFails(s, k) \/ Relisten(s, k)
Next ==
    \/ \E r \in Requests : Commit(r) \/ Assign(r)
    \/ \E s \in Servers : Listener(s) \/ Drop(s) \/ Restart(s)
Spec == Init /\ [][Next]_vars

\* A committed request goes on, the driver reconnects, delivers and answers.  Nothing makes an
\* administrator change the policy and nothing makes a connection fail.
Fairness ==
    /\ \A r \in Requests : WF_vars(Assign(r))
    /\ \A s \in Servers :
          /\ WF_vars(\E k \in Refreshes : Hear(s, k))
          /\ WF_vars(\E k \in Refreshes : Relisten(s, k))
          /\ \A k \in Refreshes : WF_vars(Select(s, k)) /\ WF_vars(Refreshed(s, k))
FairSpec == Spec /\ Fairness

-----------------------------------------------------------------------------
Agreed == \A s \in Servers : current[s] = Effective(row)

\* Once nothing is on its way any more, every server enforces the saved policy, save one that has
\* logged a failed re-read (policy-listener.ts: a rule that "applied on one server out of N" is what
\* the listener is for).
SettledAgrees == Quiescent => \A s \in Servers : missed[s] \/ current[s] = Effective(row)

\* And it does settle: again and again either every server enforces the saved policy, or some
\* server has logged that it could not re-read it.
Converges == []<>(Agreed \/ \E s \in Servers : missed[s])

-----------------------------------------------------------------------------
(* The invariant behind SettledAgrees while changes wait for one another: whatever is still on *)
(* its way carries the policy that is saved, and a process that does not enforce it yet has    *)
(* something on its way.                                                                       *)

InFlightIsSaved ==
    /\ \A r \in Requests : request[r] = "committed" => wanted[r] = row
    /\ \A s \in Servers, k \in Refreshes : refresh[s][k] = "read" => found[s][k] = Effective(row)
BehindIsReached ==
    \A s \in Servers :
        \/ current[s] = Effective(row)
        \/ pending[s] > 0 \/ ~listening[s] \/ missed[s]
        \/ \E k \in Refreshes : refresh[s][k] # "idle"

-----------------------------------------------------------------------------
(***************************************************************************)
(* Proofs, for any number of servers, changes, re-reads, lost connections  *)
(* and restarts: the type invariant, and that servers agree with the saved *)
(* policy once nothing is on its way, provided that changes wait for one   *)
(* another.                                                                *)
(***************************************************************************)

\* A row, or its absence, always means a policy (policy-store.ts `refresh`).
LEMMA EffectiveType == \A r \in Policies \cup {NoRow} : Effective(r) \in Policies
  BY PolicyAssumption DEF Effective

\* Every step keeps the types.
LEMMA TypeStep == TypeOK /\ [Next]_vars => TypeOK'
<1> SUFFICES ASSUME TypeOK, [Next]_vars PROVE TypeOK'
  OBVIOUS
<1> USE BoundAssumption
<1>1. ASSUME NEW r \in Requests, Commit(r) PROVE TypeOK'
  BY <1>1 DEF TypeOK, Commit
<1>2. ASSUME NEW r \in Requests, Assign(r) PROVE TypeOK'
  BY <1>2, EffectiveType DEF TypeOK, Assign
<1>3. ASSUME NEW s \in Servers, NEW k \in Refreshes, Hear(s, k) PROVE TypeOK'
  <2>1. pending' \in [Servers -> Nat]
    BY <1>3 DEF TypeOK, Hear
  <2>2. refresh' \in [Servers -> [Refreshes -> {"idle", "reading", "read"}]]
    BY <1>3 DEF TypeOK, Hear
  <2> QED
    BY <1>3, <2>1, <2>2 DEF TypeOK, Hear
<1>4. ASSUME NEW s \in Servers, NEW k \in Refreshes, Select(s, k) PROVE TypeOK'
  <2>1. Effective(row) \in Policies
    BY EffectiveType DEF TypeOK
  <2>2. refresh' \in [Servers -> [Refreshes -> {"idle", "reading", "read"}]]
    BY <1>4 DEF TypeOK, Select
  <2>3. found' \in [Servers -> [Refreshes -> Policies]]
    BY <1>4, <2>1 DEF TypeOK, Select
  <2> QED
    BY <1>4, <2>2, <2>3 DEF TypeOK, Select
<1>5. ASSUME NEW s \in Servers, NEW k \in Refreshes, Refreshed(s, k) PROVE TypeOK'
  <2>1. refresh' \in [Servers -> [Refreshes -> {"idle", "reading", "read"}]]
    BY <1>5 DEF TypeOK, Refreshed
  <2>2. current' \in [Servers -> Policies]
    BY <1>5 DEF TypeOK, Refreshed
  <2> QED
    BY <1>5, <2>1, <2>2 DEF TypeOK, Refreshed
<1>6. ASSUME NEW s \in Servers, NEW k \in Refreshes, RefreshFails(s, k) PROVE TypeOK'
  <2>1. refresh' \in [Servers -> [Refreshes -> {"idle", "reading", "read"}]]
    BY <1>6 DEF TypeOK, RefreshFails
  <2>2. drops' \in 0..MaxDrops
    BY <1>6 DEF TypeOK, RefreshFails
  <2> QED
    BY <1>6, <2>1, <2>2 DEF TypeOK, RefreshFails
<1>7. ASSUME NEW s \in Servers, NEW k \in Refreshes, Relisten(s, k) PROVE TypeOK'
  <2>1. refresh' \in [Servers -> [Refreshes -> {"idle", "reading", "read"}]]
    BY <1>7 DEF TypeOK, Relisten
  <2> QED
    BY <1>7, <2>1 DEF TypeOK, Relisten
<1>8. ASSUME NEW s \in Servers, Drop(s) PROVE TypeOK'
  BY <1>8 DEF TypeOK, Drop
<1>9. ASSUME NEW s \in Servers, Restart(s) PROVE TypeOK'
  <2>1. Effective(row) \in Policies
    BY EffectiveType DEF TypeOK
  <2>2. refresh' \in [Servers -> [Refreshes -> {"idle", "reading", "read"}]]
    BY <1>9 DEF TypeOK, Restart
  <2>3. drops' \in 0..MaxDrops
    BY <1>9 DEF TypeOK, Restart
  <2> QED
    BY <1>9, <2>1, <2>2, <2>3 DEF TypeOK, Restart
<1>10. CASE UNCHANGED vars
  BY <1>10 DEF TypeOK, vars
<1> QED
  BY <1>1, <1>2, <1>3, <1>4, <1>5, <1>6, <1>7, <1>8, <1>9, <1>10 DEF Next, Listener

\* The deployment starts in a well-typed state.
LEMMA TypeInit == Init => TypeOK
  BY PolicyAssumption, BoundAssumption DEF Init, TypeOK

\* Every process enforces a policy at all times, and never "no policy".
THEOREM TypeCorrect == Spec => []TypeOK
<1>1. Init => TypeOK
  BY TypeInit
<1>2. TypeOK /\ [Next]_vars => TypeOK'
  BY TypeStep
<1> QED
  BY <1>1, <1>2, PTL DEF Spec

\* While changes wait for one another, a step keeps in-flight values equal to the saved policy and
\* leaves no process behind with nothing on its way to it.
LEMMA AgreementStep ==
  ASSUME OneAtATime, TypeOK, InFlightIsSaved, BehindIsReached, [Next]_vars
  PROVE  InFlightIsSaved' /\ BehindIsReached'
<1>1. ASSUME NEW r \in Requests, Commit(r) PROVE InFlightIsSaved' /\ BehindIsReached'
  BY <1>1 DEF TypeOK, Commit, Quiescent, InFlightIsSaved, BehindIsReached
<1>2. ASSUME NEW r \in Requests, Assign(r) PROVE InFlightIsSaved' /\ BehindIsReached'
  BY <1>2 DEF TypeOK, Assign, InFlightIsSaved, BehindIsReached
<1>3. ASSUME NEW s \in Servers, NEW k \in Refreshes, Hear(s, k)
      PROVE  InFlightIsSaved' /\ BehindIsReached'
  BY <1>3 DEF TypeOK, Hear, InFlightIsSaved, BehindIsReached
<1>4. ASSUME NEW s \in Servers, NEW k \in Refreshes, Select(s, k)
      PROVE  InFlightIsSaved' /\ BehindIsReached'
  BY <1>4 DEF TypeOK, Select, InFlightIsSaved, BehindIsReached
<1>5. ASSUME NEW s \in Servers, NEW k \in Refreshes, Refreshed(s, k)
      PROVE  InFlightIsSaved' /\ BehindIsReached'
  BY <1>5 DEF TypeOK, Refreshed, InFlightIsSaved, BehindIsReached
<1>6. ASSUME NEW s \in Servers, NEW k \in Refreshes, RefreshFails(s, k)
      PROVE  InFlightIsSaved' /\ BehindIsReached'
  BY <1>6 DEF TypeOK, RefreshFails, InFlightIsSaved, BehindIsReached
<1>7. ASSUME NEW s \in Servers, NEW k \in Refreshes, Relisten(s, k)
      PROVE  InFlightIsSaved' /\ BehindIsReached'
  BY <1>7 DEF TypeOK, Relisten, InFlightIsSaved, BehindIsReached
<1>8. ASSUME NEW s \in Servers, Drop(s) PROVE InFlightIsSaved' /\ BehindIsReached'
  BY <1>8 DEF TypeOK, Drop, InFlightIsSaved, BehindIsReached
<1>9. ASSUME NEW s \in Servers, Restart(s) PROVE InFlightIsSaved' /\ BehindIsReached'
  BY <1>9 DEF TypeOK, Restart, InFlightIsSaved, BehindIsReached
<1>10. CASE UNCHANGED vars
  BY <1>10 DEF vars, InFlightIsSaved, BehindIsReached
<1> QED
  BY <1>1, <1>2, <1>3, <1>4, <1>5, <1>6, <1>7, <1>8, <1>9, <1>10 DEF Next, Listener

\* Servers agree once nothing is on its way, whatever connections were lost and whichever
\* processes restarted, as long as one change has settled before the next is made.  Without that
\* condition the statement is false: see the run policy_overlap.
THEOREM AgreementWhenSerial ==
  ASSUME OneAtATime
  PROVE  Spec => []SettledAgrees
<1>1. Init => TypeOK /\ InFlightIsSaved /\ BehindIsReached
  BY TypeInit DEF Init, InFlightIsSaved, BehindIsReached, Effective
<1>2. TypeOK /\ InFlightIsSaved /\ BehindIsReached /\ [Next]_vars
        => TypeOK' /\ InFlightIsSaved' /\ BehindIsReached'
  BY TypeStep, AgreementStep
<1>3. TypeOK /\ InFlightIsSaved /\ BehindIsReached => SettledAgrees
  BY DEF TypeOK, BehindIsReached, SettledAgrees, Quiescent
<1> QED
  BY <1>1, <1>2, <1>3, PTL DEF Spec

=============================================================================
