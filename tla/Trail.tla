-------------------------------- MODULE Trail --------------------------------
(***************************************************************************)
(* The audit trail: rows are added (audit.ts), read page by page from the  *)
(* newest (createAuditReader), and removed by nothing but retention        *)
(* (audit-retention.ts, and the trigger of migration 0007).                *)
(*                                                                         *)
(* Postgres keeps the time of a row finer than the milliseconds a cursor   *)
(* is written in: Fine ticks of the clock are one millisecond.             *)
(***************************************************************************)
EXTENDS Naturals, FiniteSets

CONSTANTS Servers,      \* each sweeps on a timer of its own
          Days,         \* auditRetentionDays in ticks, 0 for no retention
          Fine,         \* ticks in a millisecond
          PageSize,     \* rows on a page
          Batch,        \* BATCH
          MaxBatches,   \* MAX_BATCHES
          MaxRows, MaxTime, MaxFaults,
          Free          \* the advisory lock is held by nobody

VARIABLES
    clock,
    trail,    \* the trail: [at, id]
    sweep,    \* by server: the batches of the sweep under way, or none
    lock,     \* who holds SWEEP_LOCK
    failures, \* sweeps that threw
    cursor,   \* what the reader has: nothing yet, the next page's cursor, or the last page
    before,   \* history: the rows there were when the first page was read
    seen,     \* history: the rows the reader was shown
    twice     \* history: some row was shown on two pages

vars == <<clock, trail, sweep, lock, failures, cursor, before, seen, twice>>

NotSweeping == MaxBatches
Unread == [is |-> "unread", at |-> 0, id |-> 0]
Over == [Unread EXCEPT !.is = "over"]

Init ==
    /\ clock = 1
    /\ trail = {}
    /\ sweep = [s \in Servers |-> NotSweeping]
    /\ lock = Free
    /\ failures = 0
    /\ cursor = Unread
    /\ before = {} /\ seen = {} /\ twice = FALSE

readerVars == <<cursor, before, seen, twice>>
sweepVars == <<sweep, lock, failures>>

-----------------------------------------------------------------------------
Pass ==
    /\ clock < MaxTime
    /\ clock' = clock + 1
    /\ UNCHANGED <<trail, sweepVars, readerVars>>

\* insert: the row's time is the database's, its id is random.
Insert ==
    \E id \in 1..MaxRows :
        /\ \A r \in trail \cup before \cup seen : r.id # id
        /\ trail' = trail \cup {[at |-> clock, id |-> id]}
        /\ UNCHANGED <<clock, sweepVars, readerVars>>

-----------------------------------------------------------------------------
\* sweepAuditTrail on a connection of its own: another server's sweep makes this one do nothing.
BeginSweep(s) ==
    /\ Days > 0 /\ sweep[s] = NotSweeping /\ lock = Free
    /\ lock' = s
    /\ sweep' = [sweep EXCEPT ![s] = 0]
    /\ UNCHANGED <<clock, trail, failures, readerVars>>

\* prevent_audit_event_mutation: a delete must declare its window, and the row must be outside it.
Refused(r) == Days = 0 \/ r.at + Days >= clock

\* One batch; a batch that is not full, or the last one allowed, ends the sweep, and the end of the
\* connection releases the lock.
DeleteBatch(s) ==
    LET old == {r \in trail : r.at + Days < clock} IN
    /\ sweep[s] # NotSweeping
    /\ \E removed \in SUBSET old :
        /\ Cardinality(removed) = IF Cardinality(old) < Batch THEN Cardinality(old) ELSE Batch
        /\ \A r \in removed : ~Refused(r)
        /\ trail' = trail \ removed
        /\ LET over == Cardinality(removed) < Batch \/ sweep[s] + 1 = MaxBatches IN
           /\ sweep' = [sweep EXCEPT ![s] = IF over THEN NotSweeping ELSE @ + 1]
           /\ lock' = IF over THEN Free ELSE lock
    /\ UNCHANGED <<clock, failures, readerVars>>

\* A wrong variant: on a connection of the pool, which outlives the sweep, the lock stays.
SweepFailsPooled(s) ==
    /\ sweep[s] # NotSweeping /\ failures < MaxFaults
    /\ failures' = failures + 1
    /\ sweep' = [sweep EXCEPT ![s] = NotSweeping]
    /\ UNCHANGED <<clock, trail, lock, readerVars>>

\* A sweep that throws, or whose server dies, loses its connection and with it the lock.
SweepFails(s) ==
    /\ sweep[s] # NotSweeping /\ failures < MaxFaults
    /\ failures' = failures + 1
    /\ sweep' = [sweep EXCEPT ![s] = NotSweeping]
    /\ lock' = Free
    /\ UNCHANGED <<clock, trail, readerVars>>

-----------------------------------------------------------------------------
\* The order of the trail, newest first.
Newer(r, t) == r.at > t.at \/ (r.at = t.at /\ r.id > t.id)

\* toISOString has milliseconds.
ISOString(at) == at - (at % Fine)

\* A wrong variant: only the time is compared.
AfterTime == {r \in trail : r.at < cursor.at}

\* What comes after the cursor, by the time it says and the id.
After == {r \in trail : r.at < cursor.at \/ (r.at = cursor.at /\ r.id < cursor.id)}

\* The newest of some rows, as many as a page holds, and the last of a page.
NewestOf(some) == {r \in some : Cardinality({t \in some : Newer(t, r)}) < PageSize}
LastOf(page) == CHOOSE r \in page : \A t \in page : t = r \/ Newer(t, r)

\* list: one row more than a page is selected, which tells whether there is a next page.
List ==
    LET matching == IF cursor = Unread THEN trail ELSE After
        page == NewestOf(matching)
        last == LastOf(page)
    IN
    /\ cursor # Over
    /\ cursor' = IF Cardinality(matching) > PageSize
                 THEN [is |-> "page", at |-> ISOString(last.at), id |-> last.id]
                 ELSE Over
    /\ before' = IF cursor = Unread THEN trail ELSE before
    /\ seen' = seen \cup page
    /\ twice' = (twice \/ page \cap seen # {})
    /\ UNCHANGED <<clock, trail, sweepVars>>

Next ==
    \/ Pass \/ Insert \/ List
    \/ \E s \in Servers : BeginSweep(s) \/ DeleteBatch(s) \/ SweepFails(s)

\* Each server's timer goes off again and again, and a database answers.
Fairness ==
    /\ WF_vars(\E s \in Servers : BeginSweep(s))
    /\ WF_vars(\E s \in Servers : DeleteBatch(s))

Spec == Init /\ [][Next]_vars /\ Fairness

-----------------------------------------------------------------------------
\* One server sweeps at a time, and it is the one that holds the lock.
TypeOK ==
    /\ \A r \in trail : r.at \in 1..clock /\ r.id \in 1..MaxRows
    /\ \A s \in Servers : sweep[s] # NotSweeping <=> lock = s
    /\ failures \in 0..MaxFaults

\* Reading the trail to the end shows every row that was there at the first page, unless retention
\* took it, and none twice, whatever is added meanwhile.  Holds when no two rows share a millisecond
\* without sharing their time (Fine = 1).
PagesMissNothing ==
    /\ ~twice
    /\ cursor = Over => before \ seen \subseteq before \ trail

\* What the retention policy lets go is gone in the end, whichever server sweeps, whatever throws and
\* however much there is: no lock outlives its sweep.
OldRowsGo ==
    \A id \in 1..MaxRows :
        (Days > 0 /\ \E r \in trail : r.id = id /\ r.at + Days < clock)
            ~> ~\E r \in trail : r.id = id
=============================================================================
