----------------------------- MODULE Providers -----------------------------
(***************************************************************************)
(* Model providers and the routes of Bots (providers/store.ts).  Saving a  *)
(* provider is a transaction of three statements, here with Postgres'      *)
(* READ COMMITTED: a statement sees what is committed when it begins, and  *)
(* waits for a row another transaction has written.                        *)
(***************************************************************************)
EXTENDS Naturals, FiniteSets

CONSTANTS
    Models, Routed,      \* ids of providers; Bots that may be given a route
    Txs,                 \* saves that may be served at once
    OneNewAtATime        \* TRUE: no save creates a provider while another one does

VARIABLES
    provider,  \* committed rows: "none", "plain" or "default"
    tx,        \* transactions under way
    routeOf    \* model_routes: the provider of a Bot, or "none"

vars == <<provider, tx, routeOf>>

NoTx == [at |-> "idle"]

Init ==
    /\ provider = [p \in Models |-> "none"]
    /\ tx = [t \in Txs |-> NoTx]
    /\ routeOf = [b \in Routed |-> "none"]

\* The rows a transaction has written and not committed.
Locked(t) == IF tx[t].at = "idle" THEN {} ELSE tx[t].rows

\* A statement of t may touch the row of p now.
Free(t, p) == \A o \in Txs \ {t} : p \notin Locked(o)

\* PUT /admin/providers/:id: the key of the row is read, or one is given.
BeginUpsert(t, p, default) ==
    /\ tx[t] = NoTx
    /\ OneNewAtATime /\ provider[p] = "none" =>
          \A o \in Txs : tx[o] # NoTx => provider[tx[o].id] # "none"
    /\ tx' = [tx EXCEPT ![t] = [at |-> "read", id |-> p, default |-> default, rows |-> {}]]
    /\ UNCHANGED <<provider, routeOf>>

\* INSERT ... ON CONFLICT DO UPDATE waits for another transaction's row of that id, new or not.
InsertProvider(t) ==
    /\ tx[t].at = "read" /\ Free(t, tx[t].id)
    /\ tx' = [tx EXCEPT ![t].at = "written", ![t].rows = {tx[t].id}]
    /\ UNCHANGED <<provider, routeOf>>

\* As if the others were left as they are.
ClearNothing(t) ==
    /\ tx[t].at = "written"
    /\ tx' = [tx EXCEPT ![t].at = "cleared"]
    /\ UNCHANGED <<provider, routeOf>>

\* UPDATE ... SET is_default = false WHERE id <> ...: every committed row but this one.
ClearOthers(t) ==
    LET others == {p \in Models \ {tx[t].id} : provider[p] # "none"} IN
    /\ tx[t].at = "written"
    /\ tx[t].default => \A p \in others : Free(t, p)
    /\ tx' = [tx EXCEPT ![t].at = "cleared",
                        ![t].rows = @ \cup IF tx[t].default THEN others ELSE {}]
    /\ UNCHANGED <<provider, routeOf>>

Commit(t) ==
    /\ tx[t].at = "cleared"
    /\ provider' = [p \in Models |->
                       IF p = tx[t].id THEN (IF tx[t].default THEN "default" ELSE "plain")
                       ELSE IF p \in tx[t].rows THEN "plain" ELSE provider[p]]
    /\ tx' = [tx EXCEPT ![t] = NoTx]
    /\ UNCHANGED <<routeOf>>

\* A statement fails, among others because two transactions wait for each other.
Abort(t) ==
    /\ tx[t] # NoTx
    /\ tx' = [tx EXCEPT ![t] = NoTx]
    /\ UNCHANGED <<provider, routeOf>>

\* As if routes outlived their provider.
RemoveProviderOnly(p) ==
    /\ provider[p] # "none" /\ \A t \in Txs : p \notin Locked(t)
    /\ provider' = [provider EXCEPT ![p] = "none"]
    /\ UNCHANGED <<tx, routeOf>>

\* DELETE /admin/providers/:id: the row, and by the foreign key the routes to it.
RemoveProvider(p) ==
    /\ provider[p] # "none" /\ \A t \in Txs : p \notin Locked(t)
    /\ OneNewAtATime => \A t \in Txs : tx[t] # NoTx => tx[t].id # p
    /\ provider' = [provider EXCEPT ![p] = "none"]
    /\ routeOf' = [b \in Routed |-> IF routeOf[b] = p THEN "none" ELSE routeOf[b]]
    /\ UNCHANGED tx

\* PUT and DELETE /admin/agents/:agentId/model-route; the provider must exist.
SetRoute(b, p) ==
    /\ provider[p] # "none"
    /\ routeOf' = [routeOf EXCEPT ![b] = p]
    /\ UNCHANGED <<provider, tx>>

ClearRoute(b) ==
    /\ routeOf[b] # "none"
    /\ routeOf' = [routeOf EXCEPT ![b] = "none"]
    /\ UNCHANGED <<provider, tx>>

\* routeFor: the provider of the Bot's own route, else a default one, else the environment
\* ("none").
RouteFor(b) ==
    IF routeOf[b] # "none" THEN routeOf[b]
    ELSE IF \E p \in Models : provider[p] = "default"
         THEN CHOOSE p \in Models : provider[p] = "default" ELSE "none"

Next ==
    \/ \E t \in Txs :
          \/ \E p \in Models, d \in BOOLEAN : BeginUpsert(t, p, d)
          \/ InsertProvider(t) \/ ClearOthers(t) \/ Commit(t) \/ Abort(t)
    \/ \E p \in Models : RemoveProvider(p) \/ \E b \in Routed : SetRoute(b, p)
    \/ \E b \in Routed : ClearRoute(b)

Spec == Init /\ [][Next]_vars

-----------------------------------------------------------------------------
\* The rows keep their types, and a run's provider is one there is (the foreign key).
TypeOK ==
    /\ provider \in [Models -> {"none", "plain", "default"}]
    /\ \A b \in Routed : RouteFor(b) # "none" => provider[RouteFor(b)] # "none"

\* There is one default provider at most, however the saves of existing providers overlap
\* (two that create one at the same time do not see each other's row).
OneDefault == Cardinality({p \in Models : provider[p] = "default"}) <= 1
=============================================================================
