--------------------------- MODULE RecordsProofs ---------------------------
(***************************************************************************)
(* What holds of the records a deployment keeps (MCRecords) whatever the   *)
(* constants: its secrets, its providers, its Bots, its components, its    *)
(* artifacts, its package, and the answers a browser draws of them.  Each  *)
(* machine has an invariant that its own steps preserve; a step of the     *)
(* composition is a step of one machine.                                   *)
(***************************************************************************)
EXTENDS MCRecords, FiniteSetTheorems, TLAPS

\* A step of the composition is a step of the vault, of the providers or of the key, or leaves all
\* of their state alone.
LEMMA SecretSteps == [Next]_vars =>
  [Safe!Next]_vaultVars /\ [Route!Next]_routeVars /\ [Key!Next]_keyVars
<1>1. CASE Secrets
  BY <1>1 DEF Secrets
<1>2. CASE Shelves
  BY <1>2 DEF Shelves, secretVars, vaultVars, routeVars, keyVars
<1>3. CASE UNCHANGED vars
  BY <1>3 DEF vars, secretVars, vaultVars, routeVars, keyVars
<1> QED
  BY <1>1, <1>2, <1>3 DEF Next

-----------------------------------------------------------------------------
(***************************************************************************)
(* The model key of the deployment.                                        *)
(***************************************************************************)

\* The newest credential is live as long as an administrator's key is wanted: a rotation revokes an
\* older one than it stored.
KeyInv ==
    /\ created \in Nat /\ live \subseteq 1 .. created
    /\ rotating \in 0 .. created /\ (rotating # 0 => rotating < created)
    /\ wanted => created \in live

\* Every step of a key and its rotation keeps a wanted key live.
LEMMA KeyInvStays == KeyInv /\ [Key!Next]_keyVars => KeyInv'
<1> SUFFICES ASSUME KeyInv, [Key!Next]_keyVars PROVE KeyInv'
  OBVIOUS
<1> USE DEF KeyInv
<1>1. CASE Key!CreateCredential
  BY <1>1 DEF Key!CreateCredential
<1>2. CASE Key!EndRotate
  BY <1>2 DEF Key!EndRotate
<1>3. ASSUME NEW n, Key!BeginRotate(n) PROVE KeyInv'
  BY <1>3 DEF Key!BeginRotate
<1>4. ASSUME NEW n, Key!RevokeCredential(n) PROVE KeyInv'
  BY <1>4 DEF Key!RevokeCredential
<1>5. CASE UNCHANGED keyVars
  BY <1>5 DEF keyVars
<1> QED
  BY <1>1, <1>2, <1>3, <1>4, <1>5 DEF Key!Next

\* The newest live credential is the one a run pays with.
LEMMA KeyIsThere == KeyInv => Key!RotationLeavesNoGap
<1> SUFFICES ASSUME KeyInv, wanted PROVE Key!ModelApiKey # 0
  BY DEF Key!RotationLeavesNoGap
<1>1. created \in live /\ \A m \in live : m <= created
  BY DEF KeyInv
<1>2. Key!ModelApiKey \in live
  BY <1>1 DEF Key!ModelApiKey
<1> QED
  BY <1>2 DEF KeyInv

-----------------------------------------------------------------------------
(***************************************************************************)
(* The model providers.                                                    *)
(***************************************************************************)

Stored(p) == provider[p] # "none"
Begun(t) == saving[t] # Route!NoTx

\* A save under way is at one of its statements, and the rows it has written are its own and ones
\* that are stored.
SaveRows == [at : {"read", "written", "cleared"}, id : Models, default : BOOLEAN, rows : SUBSET Models]
SaveStands(t) == Begun(t) =>
    /\ saving[t] \in SaveRows
    /\ saving[t].at = "read" => saving[t].rows = {}
    /\ saving[t].at # "read" => saving[t].id \in saving[t].rows
    /\ \A p \in saving[t].rows : p = saving[t].id \/ Stored(p)

\* Two saves hold no row in common, and of two at most one creates its provider.
SavesApart == \A t, o \in Txs : t # o /\ Begun(t) /\ Begun(o) =>
    /\ saving[t].rows \cap saving[o].rows = {}
    /\ Stored(saving[t].id) \/ Stored(saving[o].id)

\* A save of a default that has cleared the others holds every default row, and every row at all
\* while its own is not stored.
HoldsDefaults(t) == Begun(t) /\ saving[t].at = "cleared" /\ saving[t].default =>
    \A p \in Models : 
       /\ provider[p] = "default" => p \in saving[t].rows
       /\ Stored(p) /\ ~Stored(saving[t].id) => p \in saving[t].rows

OneClears == \A t, o \in Txs :
    /\ Begun(t) /\ saving[t].at = "cleared" /\ saving[t].default
    /\ Begun(o) /\ saving[o].at = "cleared" /\ saving[o].default
    => t = o

DefaultIsAlone == \A p, q \in Models : provider[p] = "default" /\ provider[q] = "default" => p = q

RouteInv ==
    /\ provider \in [Models -> {"none", "plain", "default"}]
    /\ DOMAIN saving = Txs
    /\ \A t \in Txs : SaveStands(t) /\ HoldsDefaults(t)
    /\ SavesApart /\ OneClears /\ DefaultIsAlone

\* Every statement of a save or a removal keeps one default at most.
LEMMA RouteInvStays == OneNewAtATime /\ RouteInv /\ [Route!Next]_routeVars => RouteInv'
<1> SUFFICES ASSUME OneNewAtATime, RouteInv, [Route!Next]_routeVars PROVE RouteInv'
  OBVIOUS
<1> USE DEF RouteInv
<1>0. Route!NoTx.at = "idle"
  BY DEF Route!NoTx
<1>a. ASSUME NEW t \in Txs, saving[t].at # "idle" PROVE Begun(t)
  BY <1>0, <1>a DEF Begun
<1>1. ASSUME NEW t \in Txs, NEW p \in Models, NEW d \in BOOLEAN, Route!BeginUpsert(t, p, d) PROVE RouteInv'
  <2> DEFINE x == [at |-> "read", id |-> p, default |-> d, rows |-> {}]
  <2>1. x \in SaveRows /\ x.at = "read" /\ x.id = p /\ x.default = d /\ x.rows = {} /\ x # Route!NoTx
    BY <1>0 DEF SaveRows
  <2>2. /\ saving' = [saving EXCEPT ![t] = x] /\ provider' = provider /\ saving[t] = Route!NoTx
        /\ ~Stored(p) => \A o \in Txs : Begun(o) => Stored(saving[o].id)
    BY <1>1 DEF Route!BeginUpsert, Stored, Begun
  <2> HIDE DEF x
  <2>3. saving'[t] = x /\ \A o \in Txs : o # t => saving'[o] = saving[o]
    BY <2>2
  <2>4. \A o \in Txs : SaveStands(o)'
    BY <2>1, <2>2, <2>3 DEF SaveStands, Begun, Stored
  <2>5. \A o \in Txs : HoldsDefaults(o)'
    BY <2>1, <2>2, <2>3 DEF HoldsDefaults, Begun, Stored
  <2>6. SavesApart'
    BY <2>1, <2>2, <2>3 DEF SavesApart, Begun, Stored
  <2>7. OneClears'
    BY <2>1, <2>2, <2>3 DEF OneClears, Begun
  <2> QED
    BY <2>2, <2>4, <2>5, <2>6, <2>7 DEF DefaultIsAlone
\* The step of a save that goes on: what it has written grows by rows that nobody else holds.
<1>2. ASSUME NEW t \in Txs, Begun(t), NEW x, NEW more \in SUBSET Models,
             saving' = [saving EXCEPT ![t] = x], provider' = provider, x \in SaveRows, x # Route!NoTx,
             x.at # "read", x.id = saving[t].id, x.default = saving[t].default,
             x.rows = saving[t].rows \cup more, x.id \in x.rows,
             \A p \in more : /\ p = x.id \/ Stored(p)
                             /\ \A o \in Txs : o # t /\ Begun(o) => p \notin saving[o].rows,
             x.at = "cleared" /\ x.default => \A p \in Models : Stored(p) => p \in x.rows
      PROVE  RouteInv'
  <2>3. saving'[t] = x /\ \A o \in Txs : o # t => saving'[o] = saving[o]
    BY <1>2
  <2>4. \A o \in Txs : SaveStands(o)'
    BY <1>2, <2>3 DEF SaveStands, Begun, Stored
  <2>5. \A o \in Txs : HoldsDefaults(o)'
    BY <1>2, <2>3 DEF HoldsDefaults, Begun, Stored
  <2>6. SavesApart'
    <3> SUFFICES ASSUME NEW o \in Txs, o # t, Begun(o)
                 PROVE  /\ x.rows \cap saving[o].rows = {}
                        /\ Stored(saving[t].id) \/ Stored(saving[o].id)
      BY <1>2, <2>3 DEF SavesApart, Begun, Stored
    <3>1. saving[t].rows \cap saving[o].rows = {} /\ (Stored(saving[t].id) \/ Stored(saving[o].id))
      BY <1>2 DEF SavesApart
    <3>2. more \cap saving[o].rows = {}
      BY <1>2
    <3> QED
      BY <1>2, <3>1, <3>2
  <2>7. OneClears'
    <3> SUFFICES ASSUME NEW o \in Txs, o # t, Begun(o), saving[o].at = "cleared", saving[o].default,
                        x.at = "cleared", x.default
                 PROVE  FALSE
      BY <1>2, <2>3 DEF OneClears, Begun
    <3>1. saving[o].id \in Models /\ saving[o].id \in saving[o].rows /\ SaveStands(t)
      BY DEF SaveStands, SaveRows
    <3>2. x.rows \cap saving[o].rows = {} /\ (Stored(saving[t].id) \/ Stored(saving[o].id))
      BY <1>2, <2>3, <2>6 DEF SavesApart, Begun, Stored
    <3>3. CASE Stored(saving[o].id)
      BY <1>2, <3>1, <3>2, <3>3
    <3>4. CASE ~Stored(saving[o].id)
      <4>1. Stored(saving[t].id) /\ saving[t].id \in Models
        BY <1>2, <3>1, <3>2, <3>4 DEF SaveStands, SaveRows
      <4>2. saving[t].id \in saving[o].rows
        BY <3>4, <4>1 DEF HoldsDefaults
      <4> QED
        BY <1>2, <3>2, <4>2
    <3> QED
      BY <3>3, <3>4
  <2> QED
    BY <1>2, <2>4, <2>5, <2>6, <2>7 DEF DefaultIsAlone
<1>b. ASSUME NEW t \in Txs, Begun(t) PROVE SaveStands(t) /\ saving[t] \in SaveRows
  BY <1>b DEF SaveStands
<1>3. ASSUME NEW t \in Txs, Route!InsertProvider(t) PROVE RouteInv'
  <2> DEFINE x == [saving[t] EXCEPT !.at = "written", !.rows = {saving[t].id}]
  <2>1. saving[t].at = "read" /\ Begun(t)
    BY <1>0, <1>3 DEF Route!InsertProvider, Begun
  <2>2. saving[t] \in SaveRows /\ saving[t].rows = {}
    BY <2>1 DEF SaveStands
  <2>3. /\ x \in SaveRows /\ x.at = "written" /\ x.id = saving[t].id /\ x.default = saving[t].default
        /\ x.rows = {saving[t].id} /\ x # Route!NoTx /\ saving[t].id \in Models
    BY <1>0, <2>2 DEF SaveRows
  <2>4. saving' = [saving EXCEPT ![t] = x] /\ provider' = provider
    BY <1>3 DEF Route!InsertProvider
  <2>5. \A o \in Txs : o # t /\ Begun(o) => saving[t].id \notin saving[o].rows
    <3> SUFFICES ASSUME NEW o \in Txs, o # t, Begun(o) PROVE saving[t].id \notin saving[o].rows
      OBVIOUS
    <3>1. saving[o].at # "idle"
      BY DEF SaveStands, SaveRows
    <3> QED
      BY <1>3, <3>1 DEF Route!InsertProvider, Route!Free, Route!Locked
  <2> DEFINE more == {saving[t].id}
  <2>6. /\ more \in SUBSET Models /\ x.rows = saving[t].rows \cup more /\ x.id \in x.rows
        /\ \A p \in more : /\ p = x.id \/ Stored(p)
                           /\ \A o \in Txs : o # t /\ Begun(o) => p \notin saving[o].rows
    BY <2>2, <2>3, <2>5
  <2> HIDE DEF x, more
  <2> QED
    BY <1>2, <2>1, <2>3, <2>4, <2>6
<1>4. ASSUME NEW t \in Txs, Route!ClearOthers(t) PROVE RouteInv'
  <2> DEFINE others == {p \in Models \ {saving[t].id} : provider[p] # "none"}
             more == IF saving[t].default THEN others ELSE {}
             x == [saving[t] EXCEPT !.at = "cleared", !.rows = @ \cup more]
  <2>1. saving[t].at = "written" /\ Begun(t)
    BY <1>0, <1>4 DEF Route!ClearOthers, Begun
  <2>2. saving[t] \in SaveRows /\ saving[t].id \in saving[t].rows
    BY <2>1 DEF SaveStands
  <2>3. more \in SUBSET Models
    OBVIOUS
  <2>4. /\ x \in SaveRows /\ x.at = "cleared" /\ x.id = saving[t].id /\ x.default = saving[t].default
        /\ x.rows = saving[t].rows \cup more /\ x # Route!NoTx /\ saving[t].id \in Models
    BY <1>0, <2>2, <2>3 DEF SaveRows
  <2>5. saving' = [saving EXCEPT ![t] = x] /\ provider' = provider
    BY <1>4 DEF Route!ClearOthers
  <2>6. \A p \in more : /\ p = x.id \/ Stored(p)
                        /\ \A o \in Txs : o # t /\ Begun(o) => p \notin saving[o].rows
    <3> SUFFICES ASSUME NEW p \in more
                 PROVE  /\ Stored(p)
                        /\ \A o \in Txs : o # t /\ Begun(o) => p \notin saving[o].rows
      OBVIOUS
    <3>1. saving[t].default /\ p \in others
      OBVIOUS
    <3>2. Route!Free(t, p)
      BY <1>4, <3>1 DEF Route!ClearOthers
    <3>3. ASSUME NEW o \in Txs, o # t, Begun(o) PROVE p \notin saving[o].rows
      <4>1. saving[o].at # "idle"
        BY <3>3 DEF SaveStands, SaveRows
      <4> QED
        BY <3>2, <3>3, <4>1 DEF Route!Free, Route!Locked
    <3> QED
      BY <3>1, <3>3 DEF Stored
  <2>7. x.default => \A p \in Models : Stored(p) => p \in x.rows
    BY <2>2, <2>4 DEF Stored
  <2> HIDE DEF x, more
  <2> QED
    BY <1>2, <2>1, <2>2, <2>3, <2>4, <2>5, <2>6, <2>7
\* A save that is over, or stopped, holds nothing any more.
<1>5. ASSUME NEW t \in Txs, Route!Abort(t) PROVE RouteInv'
  <2>1. /\ provider' = provider /\ saving'[t] = Route!NoTx /\ DOMAIN saving' = Txs
        /\ \A o \in Txs : o # t => saving'[o] = saving[o]
    BY <1>5 DEF Route!Abort
  <2>2. \A o \in Txs : SaveStands(o)' /\ HoldsDefaults(o)'
    BY <2>1 DEF SaveStands, HoldsDefaults, Begun, Stored
  <2>3. SavesApart' /\ OneClears'
    BY <2>1 DEF SavesApart, OneClears, Begun, Stored
  <2> QED
    BY <2>1, <2>2, <2>3 DEF DefaultIsAlone
<1>6. ASSUME NEW t \in Txs, Route!Commit(t) PROVE RouteInv'
  <2>1. /\ Begun(t) /\ saving[t].at = "cleared"
        /\ saving'[t] = Route!NoTx /\ DOMAIN saving' = Txs
        /\ \A o \in Txs : o # t => saving'[o] = saving[o]
    BY <1>0, <1>6 DEF Route!Commit, Begun
  <2>2. saving[t] \in SaveRows /\ saving[t].id \in saving[t].rows /\ saving[t].id \in Models
    BY <2>1 DEF SaveStands, SaveRows
  <2>3. /\ provider' \in [Models -> {"none", "plain", "default"}]
        /\ \A p \in Models :
             /\ Stored(p)' <=> (Stored(p) \/ p = saving[t].id)
             /\ (provider'[p] = "default") =>
                   \/ p = saving[t].id /\ saving[t].default
                   \/ p # saving[t].id /\ p \notin saving[t].rows /\ provider[p] = "default"
    <3>1. \A p \in saving[t].rows : p = saving[t].id \/ Stored(p)
      BY <2>1 DEF SaveStands
    <3>2. provider' = [p \in Models |->
                       IF p = saving[t].id THEN (IF saving[t].default THEN "default" ELSE "plain")
                       ELSE IF p \in saving[t].rows THEN "plain" ELSE provider[p]]
      BY <1>6 DEF Route!Commit
    <3> QED
      BY <3>1, <3>2 DEF Stored
  <2>4. \A p \in Models : provider'[p] = "default" =>
           (IF saving[t].default THEN p = saving[t].id ELSE provider[p] = "default")
    BY <2>1, <2>3 DEF HoldsDefaults
  <2>5. ASSUME NEW o \in Txs PROVE SaveStands(o)'
    BY <2>1, <2>3 DEF SaveStands, SaveRows, Begun
  <2>6. ASSUME NEW o \in Txs PROVE HoldsDefaults(o)'
    <3> SUFFICES ASSUME o # t, Begun(o), saving[o].at = "cleared", saving[o].default, NEW p \in Models
                 PROVE  /\ provider'[p] = "default" => p \in saving[o].rows
                        /\ Stored(p)' /\ ~Stored(saving[o].id)' => p \in saving[o].rows
      BY <2>1 DEF HoldsDefaults, Begun, Stored
    <3>1. ~saving[t].default
      BY <2>1 DEF OneClears
    <3>2. saving[o].id \in Models
      BY DEF SaveStands, SaveRows
    <3>3. ~Stored(saving[o].id)' => Stored(saving[t].id) /\ ~Stored(saving[o].id)
      BY <2>1, <2>3, <3>2 DEF SavesApart
    <3>4. Stored(p)' /\ ~Stored(saving[o].id)' => p \in saving[o].rows
      BY <2>3, <3>3 DEF HoldsDefaults
    <3>5. provider'[p] = "default" => p \in saving[o].rows
      BY <2>4, <3>1 DEF HoldsDefaults
    <3> QED
      BY <3>4, <3>5
  <2>7. SavesApart'
    <3> SUFFICES ASSUME NEW o \in Txs, NEW q \in Txs, o # q, o # t, q # t, Begun(o), Begun(q)
                 PROVE  /\ saving[o].rows \cap saving[q].rows = {}
                        /\ Stored(saving[o].id)' \/ Stored(saving[q].id)'
      BY <2>1 DEF SavesApart, Begun, Stored
    <3>1. saving[o].id \in Models /\ saving[q].id \in Models
      BY DEF SaveStands, SaveRows
    <3>2. /\ saving[o].rows \cap saving[q].rows = {}
          /\ Stored(saving[o].id) \/ Stored(saving[q].id)
      BY DEF SavesApart
    <3>3. UNCHANGED <<saving[o], saving[q]>>
      BY <2>1
    <3> QED
      BY <2>3, <3>1, <3>2, <3>3
  <2>8. OneClears'
    BY <2>1 DEF OneClears, Begun
  <2>9. DefaultIsAlone'
    BY <2>4 DEF DefaultIsAlone
  <2> QED
    BY <2>1, <2>3, <2>5, <2>6, <2>7, <2>8, <2>9
<1>7. ASSUME NEW p \in Models, Route!RemoveProvider(p) PROVE RouteInv'
  <2>1. /\ saving' = saving /\ provider' = [provider EXCEPT ![p] = "none"]
        /\ \A t \in Txs : Begun(t) => saving[t].id # p
    BY <1>7 DEF Route!RemoveProvider, Begun
  <2>2. \A t \in Txs : Begun(t) => p \notin saving[t].rows
    <3> SUFFICES ASSUME NEW t \in Txs, Begun(t) PROVE p \notin saving[t].rows
      OBVIOUS
    <3>1. saving[t].at # "idle"
      BY DEF SaveStands, SaveRows
    <3> QED
      BY <1>7, <3>1 DEF Route!RemoveProvider, Route!Locked
  <2>3. /\ provider' \in [Models -> {"none", "plain", "default"}]
        /\ \A q \in Models : q # p => provider'[q] = provider[q]
        /\ provider'[p] = "none"
    BY <2>1
  <2>4. \A t \in Txs : Begun(t) => saving[t].id \in Models /\ \A q \in saving[t].rows : q \in Models
    BY DEF SaveStands, SaveRows
  <2>5. \A t \in Txs : SaveStands(t)'
    BY <2>1, <2>2, <2>3, <2>4 DEF SaveStands, Begun, Stored
  <2>6. \A t \in Txs : HoldsDefaults(t)'
    BY <2>1, <2>2, <2>3, <2>4 DEF HoldsDefaults, Begun, Stored
  <2>7. SavesApart'
    BY <2>1, <2>3, <2>4 DEF SavesApart, Begun, Stored
  <2>8. OneClears' /\ DefaultIsAlone'
    BY <2>1, <2>3 DEF OneClears, DefaultIsAlone, Begun
  <2> QED
    BY <2>1, <2>3, <2>5, <2>6, <2>7, <2>8
<1>8. CASE saving' = saving /\ provider' = provider
  BY <1>8 DEF SaveStands, HoldsDefaults, SavesApart, OneClears, DefaultIsAlone, Begun, Stored
<1>9. ASSUME NEW b \in Routed, Route!ClearRoute(b) \/ \E p \in Models : Route!SetRoute(b, p) PROVE RouteInv'
  BY <1>8, <1>9 DEF Route!ClearRoute, Route!SetRoute
<1> QED
  BY <1>1, <1>3, <1>4, <1>5, <1>6, <1>7, <1>8, <1>9 DEF Route!Next, routeVars

\* The default, being alone, is the only member of the set that is counted.
LEMMA DefaultIsOne == RouteInv => Route!OneDefault
<1> DEFINE S == {p \in Models : provider[p] = "default"}
<1> SUFFICES ASSUME RouteInv PROVE Route!Cardinality(S) <= 1
  BY DEF Route!OneDefault
<1>1. Route!Cardinality(S) = Cardinality(S)
  BY DEF Route!Cardinality, Cardinality
<1>p. \A p, q \in S : p = q
  BY DEF RouteInv, DefaultIsAlone
<1> HIDE DEF S
<1>2. CASE S = {}
  BY <1>1, <1>2, FS_EmptySet
<1>3. ASSUME NEW p \in S PROVE Route!Cardinality(S) <= 1
  <2>1. S = {p}
    BY <1>3, <1>p
  <2>2. Cardinality({p}) = 1
    BY FS_Singleton
  <2> QED
    BY <1>1, <2>1, <2>2
<1> QED
  BY <1>2, <1>3

-----------------------------------------------------------------------------
(***************************************************************************)
(* The vault of connections.                                               *)
(***************************************************************************)

\* The rows have the columns of the table; what a row holds was entered for its address.
RowStands(id) ==
    LET r == conn[id] IN
    \/ r = Safe!Absent
    \/ /\ r = [born |-> r.born, kind |-> r.kind, url |-> r.url, item |-> r.item, secret |-> r.secret,
               session |-> r.session]
       /\ r.secret # 0 => <<r.url, r.secret>> \in entered
       /\ r.item => <<r.url, Safe!Item>> \in entered

\* A save that brings no secret is for the address the row has, as it was read.
SaveFits(r) ==
    \/ r = Safe!Idle
    \/ /\ r.at = "read" /\ r.id \in Ids
       /\ r.secret = 0 /\ r.existed /\ Safe!Present(r.id) => r.input.url = conn[r.id].url

\* A use is for a Bot that was granted the row there is, and goes to the address of that row.
ToItsAddress(r) ==
    /\ r = [at |-> r.at, bot |-> r.bot, id |-> r.id, url |-> r.url] /\ r.id \in Ids
    /\ Safe!Present(r.id) => r.url = conn[r.id].url
OfItsBot(r) == r.id \in Ids /\ (Safe!Present(r.id) => <<conn[r.id].born, r.bot>> \in granted)
UseFits(r) ==
    \/ r = Safe!Idle
    \/ r.at \in {"capturing", "polling"} /\ r.id \in Ids
    \/ r.at = "fetching"
    \/ r.at = "looked" /\ ToItsAddress(r)
    \/ r.at = "cleared" /\ ToItsAddress(r) /\ OfItsBot(r)
    \/ r.at = "allowed" /\ OfItsBot(r)

\* An administrator's save overlaps no other, and no use but the polling for a code.
NothingOverlaps ==
    \A s \in Savers : save[s] # Safe!Idle =>
        /\ \A r \in Savers : save[r] # Safe!Idle => r = s
        /\ \A u \in Uses : use[u].at \in {"idle", "polling"}

GrantsAreGiven == \A g \in grants :
    g[1] \in Ids /\ Safe!Present(g[1]) /\ <<conn[g[1]].born, g[2]>> \in granted

VaultInv ==
    /\ DOMAIN conn = Ids /\ DOMAIN save = Savers /\ DOMAIN use = Uses
    /\ born \in Nat /\ typed \in Nat
    /\ \A id \in Ids : RowStands(id)
    /\ \A s \in Savers : SaveFits(save[s])
    /\ \A u \in Uses : UseFits(use[u])
    /\ NothingOverlaps /\ GrantsAreGiven
    /\ Safe!SecretGoesHome /\ Safe!GrantCoversUse /\ Safe!FetchIsRecorded

\* Nothing under way, and nothing saved, are what they say.
LEMMA VaultFields == Safe!Idle.at = "idle" /\ Safe!Absent.born = 0 /\ Safe!Nothing.via = "nothing"
  BY DEF Safe!Idle, Safe!Absent, Safe!Nothing

\* A connection that is signed in to keeps the rest of its row.
LEMMA SessionSet ==
  ASSUME NEW a, NEW b, NEW c, NEW d, NEW e, NEW f, NEW r,
         r = [born |-> a, kind |-> b, url |-> c, item |-> d, secret |-> e, session |-> f]
  PROVE  [r EXCEPT !.session = TRUE]
           = [born |-> a, kind |-> b, url |-> c, item |-> d, secret |-> e, session |-> TRUE]
<1> DEFINE x == [r EXCEPT !.session = TRUE]
<1>1. r \in [born : {a}, kind : {b}, url : {c}, item : {d}, secret : {e}, session : {f}]
  OBVIOUS
<1>2. x \in [born : {a}, kind : {b}, url : {c}, item : {d}, secret : {e}, session : {TRUE}]
  BY <1>1
<1> HIDE DEF x
<1>3. x = [born |-> a, kind |-> b, url |-> c, item |-> d, secret |-> e, session |-> TRUE]
  BY <1>2
<1> QED
  BY <1>3 DEF x

\* Every step of a connection keeps its secret to its address.
LEMMA VaultInvStays == OneAtATime /\ VaultInv /\ [Safe!Next]_vaultVars => VaultInv'
<1> SUFFICES ASSUME OneAtATime, VaultInv, [Safe!Next]_vaultVars PROVE VaultInv'
  OBVIOUS
<1> USE VaultFields
<1>1. ASSUME out' = Safe!Nothing PROVE (Safe!SecretGoesHome)' /\ (Safe!GrantCoversUse)' /\ (Safe!FetchIsRecorded)'
  BY <1>1 DEF Safe!SecretGoesHome, Safe!GrantCoversUse, Safe!FetchIsRecorded
\* A use, or a sign-in, moves and the rows stay.
<1>2. ASSUME NEW u \in Uses, NEW x, use' = [use EXCEPT ![u] = x],
             UNCHANGED <<conn, grants, save, born, typed, entered, granted>>,
             UseFits(x), x.at \in {"idle", "polling"} \/ \A s \in Savers : save[s] = Safe!Idle,
             (Safe!SecretGoesHome)', (Safe!GrantCoversUse)', (Safe!FetchIsRecorded)'
      PROVE  VaultInv'
  <2>1. use'[u] = x /\ DOMAIN use' = Uses /\ \A v \in Uses : v # u => use'[v] = use[v]
    BY <1>2 DEF VaultInv
  <2>2. \A v \in Uses : UseFits(use[v])'
    BY <1>2, <2>1 DEF VaultInv, UseFits, ToItsAddress, OfItsBot, Safe!Present
  <2>3. NothingOverlaps'
    BY <1>2, <2>1 DEF VaultInv, NothingOverlaps
  <2>4. /\ \A id \in Ids : RowStands(id)'
        /\ \A s \in Savers : SaveFits(save[s])'
        /\ GrantsAreGiven'
    BY <1>2 DEF VaultInv, RowStands, SaveFits, GrantsAreGiven, Safe!Present
  <2> QED
    BY <1>2, <2>1, <2>2, <2>3, <2>4 DEF VaultInv
<1>3. UseFits(Safe!Idle)
  BY DEF UseFits
\* While nothing is under way a row may come or go: none of its id is granted.
<1>4. ASSUME NEW id \in Ids, NEW row, conn'[id] = row, DOMAIN conn' = Ids,
             \A i \in Ids : i # id => conn'[i] = conn[i],
             \A s \in Savers : save'[s] = Safe!Idle, DOMAIN save' = Savers,
             \A u \in Uses : use[u].at \in {"idle", "polling"}, use' = use,
             born' \in Nat, typed' = typed, entered \subseteq entered', granted' = granted,
             RowStands(id)', grants' \subseteq grants,
             row.born # conn[id].born \/ row.born = 0 => \A g \in grants' : g[1] # id,
             out' = Safe!Nothing
      PROVE  VaultInv'
  <2>2. ASSUME NEW i \in Ids PROVE RowStands(i)'
    BY <1>4 DEF VaultInv, RowStands
  <2>3. \A s \in Savers : SaveFits(save[s])'
    BY <1>4 DEF SaveFits
  <2>4. ASSUME NEW u \in Uses PROVE UseFits(use[u])'
    <3>1. use[u].at \in {"idle", "polling"} /\ UseFits(use[u])
      BY <1>4 DEF VaultInv
    <3> QED
      BY <1>4, <3>1 DEF UseFits
  <2>5. NothingOverlaps'
    BY <1>4 DEF NothingOverlaps
  <2>6. GrantsAreGiven'
    BY <1>4 DEF GrantsAreGiven, Safe!Present, VaultInv
  <2> QED
    BY <1>1, <1>4, <2>2, <2>3, <2>4, <2>5, <2>6 DEF VaultInv
\* A session is stored on the row of an id: what the row holds and whose it is stay.
<1>5. ASSUME NEW id \in Ids, Safe!StoreSession(id) \/ conn' = conn
      PROVE  /\ DOMAIN conn' = Ids
             /\ \A i \in Ids : 
                  /\ conn[i] = Safe!Absent => conn'[i] = Safe!Absent
                  /\ conn[i] # Safe!Absent =>
                       /\ conn'[i].born = conn[i].born /\ conn'[i].url = conn[i].url
                       /\ conn'[i].secret = conn[i].secret /\ conn'[i].item = conn[i].item
             /\ (\A i \in Ids : RowStands(i)) /\ entered' = entered => \A i \in Ids : RowStands(i)'
  <2>1. CASE conn' = conn
    BY <2>1 DEF VaultInv, RowStands
  <2>2. CASE conn' # conn
    <3> DEFINE row == [conn[id] EXCEPT !.session = TRUE]
    <3>1. conn' = [conn EXCEPT ![id] = row] /\ conn[id] # Safe!Absent
      BY <1>5, <2>2 DEF Safe!StoreSession, Safe!Present
    <3>2. conn[id] = [born |-> conn[id].born, kind |-> conn[id].kind, url |-> conn[id].url,
                      item |-> conn[id].item, secret |-> conn[id].secret, session |-> conn[id].session]
      BY <3>1 DEF VaultInv, RowStands
    <3>3. row = [born |-> conn[id].born, kind |-> conn[id].kind, url |-> conn[id].url,
                 item |-> conn[id].item, secret |-> conn[id].secret, session |-> TRUE]
      BY <3>2, SessionSet
    <3> HIDE DEF row
    <3>4. conn'[id] = row /\ DOMAIN conn' = Ids /\ \A i \in Ids : i # id => conn'[i] = conn[i]
      BY <3>1 DEF VaultInv
    <3>5. /\ row.born = conn[id].born /\ row.url = conn[id].url /\ row.secret = conn[id].secret
          /\ row.item = conn[id].item /\ row.kind = conn[id].kind /\ row.session = TRUE
      BY <3>3
    <3>6. ASSUME entered' = entered, NEW i \in Ids PROVE RowStands(i)'
      BY <3>1, <3>3, <3>4, <3>5, <3>6 DEF VaultInv, RowStands
    <3> QED
      BY <3>1, <3>4, <3>5, <3>6
  <2> QED
    BY <2>1, <2>2
<1>6. ASSUME NEW id \in Ids, Safe!StoreSession(id) \/ conn' = conn, NEW u \in Uses,
             use' = [use EXCEPT ![u] = Safe!Idle],
             UNCHANGED <<grants, save, born, typed, entered, granted>>, out' = Safe!Nothing
      PROVE  VaultInv'
  <2>1. use'[u] = Safe!Idle /\ DOMAIN use' = Uses /\ \A v \in Uses : v # u => use'[v] = use[v]
    BY <1>6 DEF VaultInv
  <2>2. DOMAIN conn' = Ids /\ \A i \in Ids : RowStands(i)'
    BY <1>5, <1>6 DEF VaultInv
  <2>3. \A i \in Ids : /\ Safe!Present(i)' <=> Safe!Present(i)
                       /\ Safe!Present(i) => conn'[i].born = conn[i].born /\ conn'[i].url = conn[i].url
    BY <1>5, <1>6 DEF Safe!Present
  <2>4. ASSUME NEW v \in Uses PROVE UseFits(use[v])'
    <3>1. UseFits(use[v])
      BY DEF VaultInv
    <3> QED
      BY <1>6, <2>1, <2>3, <3>1 DEF UseFits, ToItsAddress, OfItsBot
  <2>5. ASSUME NEW s \in Savers PROVE SaveFits(save[s])'
    <3>1. SaveFits(save[s])
      BY DEF VaultInv
    <3> QED
      BY <1>6, <2>3, <3>1 DEF SaveFits
  <2>6. NothingOverlaps'
    BY <1>6, <2>1 DEF VaultInv, NothingOverlaps
  <2>7. GrantsAreGiven'
    BY <1>6, <2>3 DEF VaultInv, GrantsAreGiven
  <2> QED
    BY <1>1, <1>6, <2>1, <2>2, <2>4, <2>5, <2>6, <2>7 DEF VaultInv
<1>7. ASSUME NEW s \in Savers, NEW id \in Ids, NEW input \in Safe!SaveInput,
             Safe!BeginSave(s, id, input), out' = Safe!Nothing
      PROVE  VaultInv'
  <2> DEFINE x == [at |-> "read", id |-> id, input |-> input, existed |-> Safe!Present(id),
                   secret |-> IF input.secret THEN typed + 1 ELSE 0]
  <2>1. /\ save' = [save EXCEPT ![s] = x] /\ typed' \in Nat
        /\ \A r \in Savers : save[r] = Safe!Idle
        /\ \A u \in Uses : use[u] = Safe!Idle
        /\ UNCHANGED <<conn, grants, use, born, entered, granted>>
    BY <1>7 DEF Safe!BeginSave, Safe!Undisturbed, Safe!NoSave, VaultInv
  <2>2. SaveFits(x)
    <3>1. x.at = "read" /\ x.id = id /\ (x.secret = 0 => ~input.secret) /\ x.input = input
      BY DEF VaultInv
    <3>2. ~input.secret /\ Safe!Present(id) => input.url = conn[id].url
      BY <1>7 DEF Safe!BeginSave, Safe!Refused
    <3> HIDE DEF x
    <3> QED
      BY <3>1, <3>2 DEF SaveFits
  <2> HIDE DEF x
  <2>3. save'[s] = x /\ DOMAIN save' = Savers /\ \A r \in Savers : r # s => save'[r] = save[r]
    BY <2>1 DEF VaultInv
  <2>4. \A r \in Savers : SaveFits(save[r])'
    BY <2>1, <2>2, <2>3 DEF VaultInv, SaveFits, Safe!Present
  <2>5. NothingOverlaps'
    BY <2>1, <2>3 DEF NothingOverlaps
  <2>6. /\ \A i \in Ids : RowStands(i)'
        /\ \A u \in Uses : UseFits(use[u])'
        /\ GrantsAreGiven'
    BY <2>1 DEF VaultInv, RowStands, UseFits, ToItsAddress, OfItsBot, GrantsAreGiven, Safe!Present
  <2> QED
    BY <1>1, <1>7, <2>1, <2>3, <2>4, <2>5, <2>6 DEF VaultInv
<1>8. ASSUME NEW s \in Savers, Safe!Write(s), out' = Safe!Nothing PROVE VaultInv'
  <2>0. PICK r : r = save[s]
    OBVIOUS
  <2> DEFINE new == ~r.existed /\ ~Safe!Present(r.id)
             n == IF new THEN born + 1 ELSE conn[r.id].born
             row == Safe!Row(s, conn[r.id], n)
  <2>1. /\ r.at = "read" /\ r.id \in Ids
        /\ r.secret = 0 /\ r.existed /\ Safe!Present(r.id) => r.input.url = conn[r.id].url
    BY <1>8, <2>0 DEF Safe!Write, VaultInv, SaveFits
  <2>2. /\ save' = [save EXCEPT ![s] = Safe!Idle]
        /\ conn' = IF new \/ (r.existed /\ Safe!Present(r.id)) THEN [conn EXCEPT ![r.id] = row] ELSE conn
        /\ born' = IF new THEN born + 1 ELSE born
        /\ entered \subseteq entered'
        /\ r.secret # 0 => <<r.input.url, r.secret>> \in entered'
        /\ r.input.item => <<r.input.url, Safe!Item>> \in entered'
        /\ UNCHANGED <<grants, use, typed, granted>>
    BY <1>8, <2>0 DEF Safe!Write
  <2>3. /\ \A q \in Savers : save'[q] = Safe!Idle
        /\ DOMAIN save' = Savers
        /\ \A u \in Uses : use[u].at \in {"idle", "polling"}
    BY <2>0, <2>1, <2>2 DEF VaultInv, NothingOverlaps
  <2>4. born' \in Nat
    BY <2>2 DEF VaultInv
  <2>5. CASE new \/ (r.existed /\ Safe!Present(r.id))
    <3>1. /\ row.born = n /\ row.url = r.input.url /\ row.item = r.input.item
          /\ row.secret = IF r.secret # 0 THEN r.secret ELSE IF n = conn[r.id].born THEN conn[r.id].secret ELSE 0
          /\ row = [born |-> row.born, kind |-> row.kind, url |-> row.url, item |-> row.item,
                    secret |-> row.secret, session |-> row.session]
      BY <2>0 DEF Safe!Row
    <3>2. conn'[r.id] = row
      BY <2>1, <2>2, <2>5 DEF VaultInv
    <3>3. new => n # conn[r.id].born
      BY DEF VaultInv, Safe!Present
    <3>4. RowStands(r.id)
      BY <2>1 DEF VaultInv
    <3> HIDE DEF row, n
    <3>5. row.secret # 0 => <<row.url, row.secret>> \in entered'
      <4>1. CASE r.secret # 0
        BY <2>2, <3>1, <4>1
      <4>2. CASE r.secret = 0 /\ row.secret # 0
        <5>1. r.existed /\ Safe!Present(r.id) /\ row.secret = conn[r.id].secret
          BY <2>5, <3>1, <3>3, <4>2
        <5>2. <<conn[r.id].url, conn[r.id].secret>> \in entered
          BY <3>4, <4>2, <5>1 DEF RowStands, Safe!Present
        <5> QED
          BY <2>1, <2>2, <3>1, <4>2, <5>1, <5>2
      <4> QED
        BY <4>1, <4>2
    <3>6. RowStands(r.id)'
      BY <2>2, <3>1, <3>2, <3>5 DEF RowStands
    <3>7. row.born # conn[r.id].born \/ row.born = 0 => \A g \in grants : g[1] # r.id
      <4>1. ~new => Safe!Present(r.id) /\ row.born = conn[r.id].born /\ row.born # 0
        BY <2>5, <3>1 DEF n, Safe!Present
      <4>2. new => \A g \in grants : g[1] # r.id
        BY DEF VaultInv, GrantsAreGiven
      <4> QED
        BY <4>1, <4>2
    <3> HIDE DEF new
    <3>8. DOMAIN conn' = Ids /\ \A i \in Ids : i # r.id => conn'[i] = conn[i]
      BY <2>2, <2>5 DEF VaultInv
    <3> QED
      BY <1>4, <1>8, <2>1, <2>2, <2>3, <2>4, <3>2, <3>6, <3>7, <3>8
  <2>6. CASE ~(new \/ (r.existed /\ Safe!Present(r.id)))
    <3>1. conn' = conn
      BY <2>2, <2>6
    <3>2. \A i \in Ids : RowStands(i)'
      BY <2>2, <3>1 DEF VaultInv, RowStands
    <3>3. (\A q \in Savers : SaveFits(save[q])') /\ NothingOverlaps'
      BY <2>3 DEF SaveFits, NothingOverlaps
    <3>4. (\A u \in Uses : UseFits(use[u])') /\ GrantsAreGiven'
      BY <2>2, <3>1 DEF VaultInv, UseFits, ToItsAddress, OfItsBot, GrantsAreGiven, Safe!Present
    <3> QED
      BY <1>1, <1>8, <2>2, <2>3, <2>4, <3>1, <3>2, <3>3, <3>4 DEF VaultInv
  <2> QED
    BY <2>5, <2>6
<1>9. ASSUME NEW id \in Ids, Safe!Remove(id), out' = Safe!Nothing PROVE VaultInv'
  <2>1. /\ conn' = [conn EXCEPT ![id] = Safe!Absent] /\ grants' = {g \in grants : g[1] # id}
        /\ \A s \in Savers : save[s] = Safe!Idle
        /\ \A u \in Uses : use[u] = Safe!Idle
        /\ UNCHANGED <<save, use, born, typed, entered, granted>>
    BY <1>9 DEF Safe!Remove, Safe!Undisturbed, Safe!NoSave, Safe!history
  <2>0. /\ conn'[id] = Safe!Absent /\ DOMAIN conn' = Ids
        /\ \A i \in Ids : i # id => conn'[i] = conn[i]
    BY <2>1 DEF VaultInv
  <2>2. RowStands(id)'
    BY <2>0 DEF RowStands
  <2>3. (\A u \in Uses : use[u].at \in {"idle", "polling"}) /\ born' \in Nat /\ DOMAIN save' = Savers
    BY <2>1 DEF VaultInv
  <2> QED
    BY <1>4, <1>9, <2>0, <2>1, <2>2, <2>3
<1>10. ASSUME NEW id \in Ids, Safe!StartDeviceCode(id), out' = Safe!Nothing PROVE VaultInv'
  <2>1. /\ \A s \in Savers : save[s] = Safe!Idle
        /\ \A u \in Uses : use[u] = Safe!Idle
        /\ UNCHANGED <<grants, save, use, typed, entered, granted>>
    BY <1>10 DEF Safe!StartDeviceCode, Safe!Undisturbed, Safe!NoSave
  <2>2. (\A u \in Uses : use[u].at \in {"idle", "polling"}) /\ DOMAIN save' = Savers
    BY <2>1 DEF VaultInv
  <2> DEFINE row == IF Safe!Present(id) THEN conn[id]
                    ELSE [born |-> born + 1, kind |-> "web", url |-> Safe!NoUrl,
                          item |-> FALSE, secret |-> 0, session |-> FALSE]
  <2>3. /\ conn'[id] = row /\ DOMAIN conn' = Ids /\ born' \in Nat
        /\ \A i \in Ids : i # id => conn'[i] = conn[i]
    BY <1>10 DEF Safe!StartDeviceCode, VaultInv
  <2>4. ASSUME ~Safe!Present(id) PROVE RowStands(id)'
    <3>1. conn'[id] = [born |-> born + 1, kind |-> "web", url |-> Safe!NoUrl,
                          item |-> FALSE, secret |-> 0, session |-> FALSE]
      BY <2>3, <2>4
    <3> QED
      BY <3>1 DEF RowStands
  <2>5. RowStands(id)'
    <3>1. CASE Safe!Present(id)
      BY <2>1, <2>3, <3>1 DEF VaultInv, RowStands
    <3> QED
      BY <2>4, <3>1
  <2>6. row.born # conn[id].born \/ row.born = 0 => \A g \in grants : g[1] # id
    BY DEF VaultInv, GrantsAreGiven, Safe!Present
  <2> HIDE DEF row
  <2> QED
    BY <1>4, <1>10, <2>1, <2>2, <2>3, <2>5, <2>6
<1>11. ASSUME NEW id \in Ids, NEW who \in Bots, Safe!Grant(id, who) \/ Safe!Revoke(id, who),
              out' = Safe!Nothing
       PROVE  VaultInv'
  <2>1. /\ UNCHANGED <<conn, save, use, born, typed, entered>> /\ granted \subseteq granted'
        /\ \A g \in grants' : g \in grants \/ (/\ g = <<id, who>> /\ Safe!Present(id)
                                              /\ <<conn[id].born, who>> \in granted')
    BY <1>11 DEF Safe!Grant, Safe!Revoke, Safe!history
  <2>2. GrantsAreGiven'
    BY <2>1 DEF VaultInv, GrantsAreGiven, Safe!Present
  <2>3. ASSUME NEW u \in Uses PROVE UseFits(use[u])'
    BY <2>1 DEF VaultInv, UseFits, ToItsAddress, OfItsBot, Safe!Present
  <2>4. /\ \A i \in Ids : RowStands(i)'
        /\ \A s \in Savers : SaveFits(save[s])'
        /\ NothingOverlaps'
    BY <2>1 DEF VaultInv, RowStands, SaveFits, NothingOverlaps, Safe!Present
  <2> QED
    BY <1>1, <1>11, <2>1, <2>2, <2>3, <2>4 DEF VaultInv
<1>12. ASSUME NEW u \in Uses, Safe!Proceed(u), out' = Safe!Nothing PROVE VaultInv'
  <2>1. (Safe!SecretGoesHome)' /\ (Safe!GrantCoversUse)' /\ (Safe!FetchIsRecorded)'
    BY <1>1, <1>12
  <2>2. CASE Safe!EgressJudges(u)
    <3>1. /\ use[u].at = "looked" /\ ToItsAddress(use[u])
          /\ UNCHANGED <<conn, grants, save, born, typed, entered, granted>>
      BY <2>2 DEF Safe!EgressJudges, Safe!history, VaultInv, UseFits
    <3>2. \A s \in Savers : save[s] = Safe!Idle
      BY <3>1 DEF VaultInv, NothingOverlaps
    <3>3. CASE use' = [use EXCEPT ![u] = Safe!Idle]
      BY <1>2, <1>3, <2>1, <3>1, <3>2, <3>3
    <3>4. CASE <<use[u].id, use[u].bot>> \in grants /\ use' = [use EXCEPT ![u].at = "cleared"]
      <4> DEFINE x == [use[u] EXCEPT !.at = "cleared"]
      <4>1. /\ x = [at |-> "cleared", bot |-> use[u].bot, id |-> use[u].id, url |-> use[u].url]
            /\ use' = [use EXCEPT ![u] = x]
        BY <3>1, <3>4 DEF ToItsAddress
      <4> HIDE DEF x
      <4>2. x.at = "cleared" /\ x.bot = use[u].bot /\ x.id = use[u].id /\ x.url = use[u].url
        BY <4>1
      <4>3. OfItsBot(x)
        BY <3>4, <4>2 DEF OfItsBot, VaultInv, GrantsAreGiven
      <4>4. ToItsAddress(x)
        BY <3>1, <4>1, <4>2 DEF ToItsAddress
      <4>5. UseFits(x)
        BY <4>2, <4>3, <4>4 DEF UseFits
      <4> QED
        BY <1>2, <2>1, <3>1, <3>2, <4>1, <4>5
    <3> QED
      BY <2>2, <3>3, <3>4 DEF Safe!EgressJudges
  <2>3. CASE Safe!Capture(u) \/ Safe!PollConnects(u)
    <3>1. use[u].id \in Ids
      BY <2>3 DEF Safe!Capture, Safe!PollConnects, VaultInv, UseFits
    <3> QED
      BY <1>6, <1>12, <2>3, <3>1 DEF Safe!Capture, Safe!PollConnects, Safe!history
  <2>4. CASE Safe!PollEnds(u)
    BY <1>2, <1>3, <2>1, <2>4 DEF Safe!PollEnds, Safe!history
  <2>5. ASSUME NEW id \in Ids, Safe!PollDeviceCode(u, id) PROVE VaultInv'
    <3> DEFINE x == [at |-> "polling", id |-> id]
    <3>1. UseFits(x) /\ x.at = "polling"
      BY DEF UseFits
    <3>2. use' = [use EXCEPT ![u] = x] /\ UNCHANGED <<conn, grants, save, born, typed, entered, granted>>
      BY <2>5 DEF Safe!PollDeviceCode, Safe!history
    <3> HIDE DEF x
    <3> QED
      BY <1>2, <2>1, <3>1, <3>2
  <2>6. ASSUME NEW id \in Ids, NEW who \in Bots, Safe!EgressLooks(u, who, id) PROVE VaultInv'
    <3> DEFINE x == [at |-> "looked", bot |-> who, id |-> id, url |-> conn[id].url]
    <3>1. x = [at |-> x.at, bot |-> x.bot, id |-> x.id, url |-> x.url] /\ x.at = "looked" /\ x.id = id
          /\ x.url = conn[id].url
      OBVIOUS
    <3>2. /\ use' = [use EXCEPT ![u] = x]
          /\ UNCHANGED <<conn, grants, save, born, typed, entered, granted>>
          /\ \A s \in Savers : save[s] = Safe!Idle
      BY <2>6 DEF Safe!EgressLooks, Safe!history, Safe!NoSave
    <3> HIDE DEF x
    <3>3. UseFits(x)
      BY <3>1 DEF UseFits, ToItsAddress
    <3> QED
      BY <1>2, <2>1, <3>2, <3>3
  <2>7. ASSUME NEW id \in Ids, NEW who \in Bots, Safe!BeginCapture(u, who, id) PROVE VaultInv'
    <3> DEFINE x == [at |-> "capturing", id |-> id]
    <3>1. UseFits(x)
      BY DEF UseFits
    <3>2. /\ use' = [use EXCEPT ![u] = x]
          /\ UNCHANGED <<conn, grants, save, born, typed, entered, granted>>
          /\ \A s \in Savers : save[s] = Safe!Idle
      BY <2>7 DEF Safe!BeginCapture, Safe!history, Safe!NoSave
    <3> HIDE DEF x
    <3> QED
      BY <1>2, <2>1, <3>1, <3>2
  <2>8. ASSUME NEW id \in Ids, NEW who \in Bots, NEW what, Safe!AskValue(u, who, id, what) PROVE VaultInv'
    <3> DEFINE x == [at |-> "allowed", bot |-> who, id |-> id, what |-> what]
    <3>1. x.at = "allowed" /\ x.id = id /\ x.bot = who
      OBVIOUS
    <3>2. /\ use' = [use EXCEPT ![u] = x] /\ <<id, who>> \in grants
          /\ UNCHANGED <<conn, grants, save, born, typed, entered, granted>>
          /\ \A s \in Savers : save[s] = Safe!Idle
      BY <2>8 DEF Safe!AskValue, Safe!history, Safe!NoSave
    <3> HIDE DEF x
    <3>3. UseFits(x)
      BY <3>1, <3>2 DEF UseFits, OfItsBot, VaultInv, GrantsAreGiven
    <3> QED
      BY <1>2, <2>1, <3>2, <3>3
  <2>9. ASSUME NEW id \in Ids, NEW who \in Bots, Safe!AskCred(u, who, id) PROVE VaultInv'
    <3> DEFINE x == [at |-> "fetching", bot |-> who, of |-> conn[id].born]
    <3>1. UseFits(x)
      BY DEF UseFits
    <3>2. /\ use' = [use EXCEPT ![u] = x]
          /\ UNCHANGED <<conn, grants, save, born, typed, entered, granted>>
          /\ \A s \in Savers : save[s] = Safe!Idle
      BY <2>9 DEF Safe!AskCred, Safe!history, Safe!NoSave
    <3> HIDE DEF x
    <3> QED
      BY <1>2, <2>1, <3>1, <3>2
  <2> QED
    BY <1>12, <2>2, <2>3, <2>4, <2>5, <2>6, <2>7, <2>8, <2>9 DEF Safe!Proceed
\* What leaves is the secret of the row there is, for its address and a Bot that was granted it.
<1>13. ASSUME NEW u \in Uses, Safe!EgressSends(u) PROVE VaultInv'
  <2>1. /\ use[u].at = "cleared" /\ ToItsAddress(use[u]) /\ OfItsBot(use[u])
        /\ use' = [use EXCEPT ![u] = Safe!Idle]
        /\ UNCHANGED <<conn, grants, save, born, typed, entered, granted>>
    BY <1>13 DEF Safe!EgressSends, Safe!history, VaultInv, UseFits
  <2>2. CASE out' = Safe!Nothing
    BY <1>1, <1>2, <1>3, <2>1, <2>2
  <2>3. CASE out' # Safe!Nothing
    <3> DEFINE id == use[u].id
    <3>1. Safe!SecretOf(id) # 0 /\ out' = [via |-> "egress", url |-> use[u].url, secret |-> Safe!SecretOf(id),
                    of |-> conn[id].born, bot |-> use[u].bot, row |-> FALSE]
      BY <1>13, <2>3 DEF Safe!EgressSends
    <3>2. /\ Safe!Present(id) /\ RowStands(id) /\ conn[id] # Safe!Absent
          /\ Safe!SecretOf(id) = IF conn[id].item THEN Safe!Item ELSE conn[id].secret
      BY <2>1, <3>1 DEF Safe!SecretOf, Safe!Present, VaultInv, OfItsBot
    <3>3. <<use[u].url, Safe!SecretOf(id)>> \in entered
      BY <2>1, <3>1, <3>2 DEF RowStands, ToItsAddress
    <3>4. <<conn[id].born, use[u].bot>> \in granted
      BY <2>1, <3>2 DEF OfItsBot
    <3>5. (Safe!SecretGoesHome)' /\ (Safe!GrantCoversUse)' /\ (Safe!FetchIsRecorded)'
      BY <2>1, <3>1, <3>3, <3>4 DEF Safe!SecretGoesHome, Safe!GrantCoversUse, Safe!FetchIsRecorded
    <3> QED
      BY <1>2, <1>3, <2>1, <3>5
  <2> QED
    BY <2>2, <2>3
<1>14. ASSUME NEW u \in Uses, Safe!HandValue(u) PROVE VaultInv'
  <2>1. /\ use[u].at = "allowed" /\ OfItsBot(use[u])
        /\ use' = [use EXCEPT ![u] = Safe!Idle]
        /\ UNCHANGED <<conn, grants, save, born, typed, entered, granted>>
    BY <1>14 DEF Safe!HandValue, Safe!history, VaultInv, UseFits
  <2>2. CASE out' = Safe!Nothing
    BY <1>1, <1>2, <1>3, <2>1, <2>2
  <2>3. CASE out' # Safe!Nothing
    <3> DEFINE id == use[u].id
    <3>1. /\ Safe!Present(id) 
          /\ out' \in [via : {"browser"}, of : {conn[id].born}, bot : {use[u].bot}, row : BOOLEAN]
      BY <1>14, <2>3 DEF Safe!HandValue, Safe!SecretOf
    <3>2. out'.via = "browser" /\ out'.of = conn[id].born /\ out'.bot = use[u].bot
      BY <3>1
    <3>3. <<conn[id].born, use[u].bot>> \in granted
      BY <2>1, <3>1 DEF OfItsBot
    <3>4. (Safe!SecretGoesHome)' /\ (Safe!GrantCoversUse)' /\ (Safe!FetchIsRecorded)'
      BY <2>1, <3>2, <3>3 DEF Safe!SecretGoesHome, Safe!GrantCoversUse, Safe!FetchIsRecorded
    <3> QED
      BY <1>2, <1>3, <2>1, <3>4
  <2> QED
    BY <2>2, <2>3
<1>17. ASSUME NEW u \in Uses, Safe!HandCred(u) PROVE VaultInv'
  <2>1. /\ use' = [use EXCEPT ![u] = Safe!Idle]
        /\ UNCHANGED <<conn, grants, save, born, typed, entered, granted>>
    BY <1>17 DEF Safe!HandCred, Safe!history
  <2>2. (Safe!SecretGoesHome)' /\ (Safe!GrantCoversUse)' /\ (Safe!FetchIsRecorded)'
    <3>1. CASE out' = Safe!Nothing
      BY <1>1, <3>1
    <3>2. CASE out' = [via |-> "computer", of |-> use[u].of, bot |-> use[u].bot, row |-> TRUE]
      BY <3>2 DEF Safe!SecretGoesHome, Safe!GrantCoversUse, Safe!FetchIsRecorded
    <3> QED
      BY <1>17, <3>1, <3>2 DEF Safe!HandCred
  <2> QED
    BY <1>2, <1>3, <2>1, <2>2
<1>15. CASE Safe!Restart /\ out' = Safe!Nothing
  <2>1. /\ save' = [s \in Savers |-> Safe!Idle] /\ use' = [u \in Uses |-> Safe!Idle]
        /\ UNCHANGED <<conn, grants, born, typed, entered, granted>>
    BY <1>15 DEF Safe!Restart, Safe!history
  <2>2. (\A s \in Savers : SaveFits(save[s])') /\ (\A u \in Uses : UseFits(use[u])') /\ NothingOverlaps'
    BY <2>1 DEF SaveFits, UseFits, NothingOverlaps
  <2>3. (\A i \in Ids : RowStands(i)') /\ GrantsAreGiven'
    BY <2>1 DEF VaultInv, RowStands, GrantsAreGiven, Safe!Present
  <2> QED
    BY <1>1, <1>15, <2>1, <2>2, <2>3 DEF VaultInv
<1>16. CASE UNCHANGED vaultVars
  <2>1. (\A s \in Savers : SaveFits(save[s])') /\ (\A u \in Uses : UseFits(use[u])') /\ NothingOverlaps'
    BY <1>16 DEF VaultInv, vaultVars, SaveFits, UseFits, NothingOverlaps, ToItsAddress, OfItsBot, Safe!Present
  <2>2. /\ (\A i \in Ids : RowStands(i)') /\ GrantsAreGiven'
        /\ (Safe!SecretGoesHome)' /\ (Safe!GrantCoversUse)' /\ (Safe!FetchIsRecorded)'
    BY <1>16 DEF VaultInv, vaultVars, RowStands, GrantsAreGiven, Safe!Present, Safe!SecretGoesHome,
       Safe!GrantCoversUse, Safe!FetchIsRecorded
  <2> QED
    BY <1>16, <2>1, <2>2 DEF VaultInv, vaultVars
<1> QED
  BY <1>7, <1>8, <1>9, <1>10, <1>11, <1>12, <1>13, <1>14, <1>15, <1>16, <1>17 DEF Safe!Next, Safe!Administer

\* Secrets stay where they belong: what the egress proxy sends goes to an address the secret was
\* entered for, and what it or the browser uses is for a Bot that was granted that very connection
\* (upsert asks for the secret when an address changes, and the foreign key takes the grants with
\* the row); what a computer fetches, which asks for no grant, has its audit row first (opCredsOf);
\* one provider is the default, however many saves overlap; and a rotation never leaves the deployment with the
\* environment's key.  An administrator's request to the vault overlaps no other, and of the saves
\* that overlap one at most creates a provider: without the one or the other the code lets it happen.
THEOREM SecretsKeptAlways == OneAtATime /\ OneNewAtATime => (Spec => []SecretsKept)
<1> SUFFICES ASSUME OneAtATime, OneNewAtATime PROVE Spec => []SecretsKept
  OBVIOUS
<1>1. Init => KeyInv /\ RouteInv /\ VaultInv
  <2> SUFFICES ASSUME Init PROVE KeyInv /\ RouteInv /\ VaultInv
    OBVIOUS
  <2>1. Key!Init /\ Route!Init /\ Safe!Init
    BY DEF Init
  <2>2. KeyInv
    BY <2>1 DEF KeyInv, Key!Init
  <2>3. RouteInv
    BY <2>1 DEF RouteInv, Route!Init, SaveStands, HoldsDefaults, SavesApart, OneClears, DefaultIsAlone, Begun
  <2>4. VaultInv
    BY <2>1, VaultFields DEF VaultInv, Safe!Init, RowStands, SaveFits, UseFits, NothingOverlaps, GrantsAreGiven,
       Safe!SecretGoesHome, Safe!GrantCoversUse, Safe!FetchIsRecorded
  <2> QED
    BY <2>2, <2>3, <2>4
<1>2. KeyInv /\ RouteInv /\ VaultInv /\ [Next]_vars => KeyInv' /\ RouteInv' /\ VaultInv'
  BY KeyInvStays, RouteInvStays, VaultInvStays, SecretSteps
<1>3. KeyInv /\ RouteInv /\ VaultInv => SecretsKept
  BY KeyIsThere, DefaultIsOne DEF SecretsKept, VaultInv
<1> QED
  BY <1>1, <1>2, <1>3, PTL DEF Spec

-----------------------------------------------------------------------------
(***************************************************************************)
(* Components and artifacts.                                               *)
(***************************************************************************)

\* A step of the composition is a step of the gallery, of the artifacts or of the package, or leaves
\* all of their state alone.
LEMMA ShelfSteps == [Next]_vars =>
  [Parts!Next]_galleryVars /\ [Library!Next]_workVars /\ [Start!Next]_packageVars
<1>1. CASE Secrets
  BY <1>1 DEF Secrets, shelfVars, galleryVars, workVars, packageVars
<1>2. CASE Shelves
  BY <1>2 DEF Shelves, galleryVars, workVars, packageVars
<1>3. CASE UNCHANGED vars
  BY <1>3 DEF vars, shelfVars, galleryVars, workVars, packageVars
<1> QED
  BY <1>1, <1>2, <1>3 DEF Next

\* What an app holds, and what it is asked to draw, are components for Bots.
CallRows == [name : Parts!Names \cup {"none"}, bot : Bots \cup {"none"},
             pc : {"idle", "deciding", "data", "answered"}, refused : BOOLEAN, ok : BOOLEAN]
HeldIsReal == \A w \in Browsers : \A h \in held[w] : h.name \in Parts!Names /\ h.bot \in Bots

\* A call under way during which its component is permitted is noticed to be one that may draw; one
\* that asks for its data was permitted; and so was a compiled component that was not refused.
Fits(x) ==
    /\ x.pc \in {"deciding", "data"} =>
          /\ x.name \in Parts!Names /\ x.bot \in Bots
          /\ Parts!Permitted(x.name, x.bot) => x.ok
    /\ x.pc = "data" => x.ok
    /\ x.pc = "answered" /\ x.name \in Shown /\ ~x.refused => x.ok
CallIsNoticed(w) == Fits(call[w])

GalleryInv ==
    /\ call \in [Browsers -> CallRows]
    /\ HeldIsReal
    /\ \A w \in Browsers : CallIsNoticed(w)

\* Whatever is changed of a component, the calls under way notice it.
LEMMA NoticedKeeps == GalleryInv /\ Parts!Noticed /\ held' = held => GalleryInv'
<1> SUFFICES ASSUME GalleryInv, Parts!Noticed, held' = held PROVE GalleryInv'
  OBVIOUS
<1> DEFINE S == {nb \in Parts!Names \X Bots : Parts!Permitted(nb[1], nb[2])'}
           P(w) == call[w].ok \/ <<call[w].name, call[w].bot>> \in S
           x(w) == [call[w] EXCEPT !.ok = P(w)]
<1>1. call' = [w \in Browsers |-> IF ~Parts!Open(w) THEN call[w] ELSE x(w)]
  BY DEF Parts!Noticed
<1>2. ASSUME NEW w \in Browsers
      PROVE  /\ x(w) \in CallRows /\ x(w).name = call[w].name /\ x(w).bot = call[w].bot
             /\ x(w).pc = call[w].pc /\ x(w).refused = call[w].refused /\ x(w).ok = P(w)
  <2>1. call[w] \in CallRows
    BY DEF GalleryInv
  <2>2. P(w) \in BOOLEAN
    BY <2>1 DEF CallRows
  <2> HIDE DEF P
  <2> QED
    BY <2>1, <2>2 DEF CallRows
<1>3. ASSUME NEW n \in Parts!Names, NEW b \in Bots, Parts!Permitted(n, b)' PROVE <<n, b>> \in S
  BY <1>3
<1> HIDE DEF x, S
<1>4. call' \in [Browsers -> CallRows]
  BY <1>1, <1>2 DEF GalleryInv
<1>5. ASSUME NEW w \in Browsers PROVE CallIsNoticed(w)'
  <2>1. CASE ~Parts!Open(w)
    BY <1>1, <2>1 DEF CallIsNoticed, Fits, Parts!Open, GalleryInv
  <2>2. ASSUME Parts!Open(w) PROVE CallIsNoticed(w)'
    <3>1. CallIsNoticed(w)
      BY DEF GalleryInv
    <3>2. call'[w] = x(w)
      BY <1>1, <2>2
    <3>3. call[w].ok => P(w)
      OBVIOUS
    <3>4. Parts!Permitted(call[w].name, call[w].bot)' => P(w)
      <4>1. call'[w].name = call[w].name /\ call'[w].bot = call[w].bot
        BY <1>2, <3>2
      <4> QED
        <5>1. call[w].name \in Parts!Names /\ call[w].bot \in Bots
          BY <2>2, <3>1 DEF CallIsNoticed, Fits, Parts!Open
        <5> QED
          BY <1>3, <4>1, <5>1 DEF Parts!Permitted
    <3> HIDE DEF P
    <3> QED
      BY <1>2, <2>2, <3>1, <3>2, <3>3, <3>4 DEF CallIsNoticed, Fits, Parts!Open, Parts!Permitted
  <2> QED
    BY <2>1, <2>2
<1> QED
  BY <1>4, <1>5 DEF GalleryInv, HeldIsReal

\* Every step of a publication and of a browser keeps what stays drawn granted.
LEMMA GalleryInvStays == GalleryInv /\ [Parts!Next]_galleryVars => GalleryInv'
<1> SUFFICES ASSUME GalleryInv, [Parts!Next]_galleryVars PROVE GalleryInv'
  OBVIOUS
\* What an app does that leaves the rows alone.
<1>1. ASSUME comp' = comp, withheld' = withheld, call' = call, held' = held
      PROVE  GalleryInv'
  BY <1>1 DEF GalleryInv, HeldIsReal, CallIsNoticed, Fits, Parts!Permitted
<1>2. ASSUME NEW w \in Browsers, NEW x, call' = [call EXCEPT ![w] = x], x \in CallRows,
             comp' = comp, withheld' = withheld, held' = held, Fits(x)
      PROVE  GalleryInv'
  <2>1. call'[w] = x /\ (\A v \in Browsers : v # w => call'[v] = call[v]) /\ call' \in [Browsers -> CallRows]
    BY <1>2 DEF GalleryInv
  <2>2. ASSUME NEW v \in Browsers PROVE CallIsNoticed(v)'
    BY <1>2, <2>1 DEF GalleryInv, CallIsNoticed, Fits, Parts!Permitted
  <2>3. HeldIsReal'
    BY <1>2 DEF GalleryInv, HeldIsReal
  <2> QED
    BY <2>1, <2>2, <2>3 DEF GalleryInv
<1>4. ASSUME NEW w \in Browsers, Parts!ReadCatalogue(w) PROVE GalleryInv'
  BY <1>1, <1>4 DEF Parts!ReadCatalogue, Parts!rows
<1>5. ASSUME NEW w \in Browsers, Parts!SyncCatalogue(w) PROVE GalleryInv'
  BY <1>5, NoticedKeeps DEF Parts!SyncCatalogue
<1>6. ASSUME NEW w \in Browsers, Parts!BeginCall(w) PROVE GalleryInv'
  <2> DEFINE row(h) == [name |-> h.name, bot |-> h.bot, refused |-> FALSE, ok |-> Parts!Permitted(h.name, h.bot),
                        pc |-> IF h.name \in Decisions THEN "answered" ELSE "deciding"]
  <2>1. PICK h \in held[w] : call' = [call EXCEPT ![w] = row(h)]
    BY <1>6 DEF Parts!BeginCall
  <2> DEFINE x == row(h)
  <2>2. h.name \in Parts!Names /\ h.bot \in Bots
    BY DEF GalleryInv, HeldIsReal
  <2>3. Parts!Permitted(h.name, h.bot) \in BOOLEAN
    BY DEF Parts!Permitted
  <2>4. x \in CallRows
    BY <2>2, <2>3 DEF CallRows
  <2>5. /\ x.name = h.name /\ x.bot = h.bot /\ x.ok = Parts!Permitted(h.name, h.bot)
        /\ x.pc = IF h.name \in Decisions THEN "answered" ELSE "deciding"
    OBVIOUS
  <2>6. UNCHANGED <<comp, withheld, held>>
    BY <1>6 DEF Parts!BeginCall, Parts!rows
  <2>7. call' = [call EXCEPT ![w] = x]
    BY <2>1
  <2> HIDE DEF x, row
  <2>8. Parts!Permitted(x.name, x.bot) => x.ok
    BY <2>5
  <2>9. Fits(x)
    BY <2>2, <2>5, <2>8, KindsAssumption DEF Fits
  <2> QED
    BY <1>2, <2>4, <2>6, <2>7, <2>9
\* A call that is answered, and not refused, was permitted.
<1>7. ASSUME NEW w \in Browsers, NEW refused \in BOOLEAN, Parts!Answer(w, refused), refused \/ call[w].ok,
             UNCHANGED <<comp, withheld, held>>
      PROVE  GalleryInv'
  <2> DEFINE x == [call[w] EXCEPT !.pc = "answered", !.refused = refused]
  <2>1. call[w] \in CallRows
    BY DEF GalleryInv
  <2>2. x \in CallRows /\ x.pc = "answered" /\ x.refused = refused /\ x.ok = call[w].ok
    BY <2>1 DEF CallRows
  <2>3. call' = [call EXCEPT ![w] = x]
    BY <1>7 DEF Parts!Answer
  <2> HIDE DEF x
  <2>4. Fits(x)
    BY <1>7, <2>2 DEF Fits
  <2> QED
    BY <1>2, <1>7, <2>2, <2>3, <2>4
<1>8. ASSUME NEW w \in Browsers, Parts!Decide(w) PROVE GalleryInv'
  <2>1. /\ UNCHANGED <<comp, withheld, held>> /\ call[w].pc = "deciding" /\ call[w] \in CallRows
        /\ Fits(call[w])
    BY <1>8 DEF Parts!Decide, Parts!rows, GalleryInv, CallIsNoticed
  <2>2. CASE Parts!Answer(w, TRUE)
    BY <1>7, <2>1, <2>2
  <2>3. CASE Parts!Permitted(call[w].name, call[w].bot) /\ Parts!Answer(w, FALSE)
    <3>1. call[w].ok
      BY <2>1, <2>3 DEF Fits
    <3> QED
      BY <1>7, <2>1, <2>3, <3>1
  <2>4. CASE Parts!Permitted(call[w].name, call[w].bot) /\ call' = [call EXCEPT ![w].pc = "data"]
    <3> DEFINE x == [call[w] EXCEPT !.pc = "data"]
    <3>1. /\ x \in CallRows /\ x.name = call[w].name /\ x.bot = call[w].bot /\ x.ok = call[w].ok
          /\ x.pc = "data"
      BY <2>1 DEF CallRows
    <3>2. call' = [call EXCEPT ![w] = x]
      BY <2>4
    <3> HIDE DEF x
    <3>4. call[w].name \in Parts!Names /\ call[w].bot \in Bots /\ call[w].ok
      BY <2>1, <2>4 DEF Fits
    <3>5. x.ok
      BY <3>1, <3>4
    <3>3. Fits(x)
      BY <3>1, <3>4, <3>5 DEF Fits
    <3> QED
      BY <1>2, <2>1, <3>1, <3>2, <3>3
  <2> QED
    BY <1>8, <2>2, <2>3, <2>4 DEF Parts!Decide
<1>9. ASSUME NEW w \in Browsers, Parts!MayCall(w) PROVE GalleryInv'
  <2>1. /\ UNCHANGED <<comp, withheld, held>> /\ call[w].pc = "data" /\ Fits(call[w])
        /\ Parts!Answer(w, TRUE) \/ Parts!Answer(w, FALSE)
    BY <1>9 DEF Parts!MayCall, Parts!rows, GalleryInv, CallIsNoticed
  <2>2. call[w].ok
    BY <2>1 DEF Fits
  <2> QED
    BY <1>7, <2>1, <2>2
<1>10. ASSUME NEW w \in Browsers, NEW b \in Bots, Parts!Poll(w, b) PROVE GalleryInv'
  <2> DEFINE new == {[name |-> n, bot |-> b] :
                     n \in {m \in Parts!Names : /\ Parts!Permitted(m, b)
                                                /\ m \in Customs => source[m].published /\ source[m].pub # 0}}
  <2>1. held' = [held EXCEPT ![w] = new] /\ UNCHANGED <<comp, withheld, call>>
    BY <1>10 DEF Parts!Poll, Parts!rows
  <2>2. \A h \in new : h.name \in Parts!Names /\ h.bot \in Bots
    OBVIOUS
  <2> HIDE DEF new
  <2>3. HeldIsReal'
    BY <2>1, <2>2 DEF HeldIsReal, GalleryInv
  <2> QED
    BY <2>1, <2>3 DEF GalleryInv, CallIsNoticed, Fits, Parts!Permitted
<1>11. ASSUME NEW n \in Parts!Names,
              \/ Parts!SetFunction(n) \/ Parts!Unpublish(n) \/ Parts!SaveDraft(n)
              \/ \E b \in Bots : Parts!Grant(n, b) \/ Parts!Revoke(n, b)
       PROVE  GalleryInv'
  BY <1>11, NoticedKeeps DEF Parts!SetFunction, Parts!Unpublish, Parts!SaveDraft, Parts!Grant, Parts!Revoke,
     Parts!Change
<1>12. ASSUME NEW e \in Editors, NEW op, NEW n, Parts!Begin(e, op, n) PROVE GalleryInv'
  BY <1>1, <1>12 DEF Parts!Begin, Parts!rows
<1>13. ASSUME NEW e \in Editors, Parts!WriteSource(e) PROVE GalleryInv'
  <2>1. UNCHANGED <<comp, withheld, held, call>>
    BY <1>13 DEF Parts!WriteSource
  <2> QED
    BY <1>1, <2>1
<1>14. ASSUME NEW e \in Editors, Parts!WriteWords(e) PROVE GalleryInv'
  <2>1. Parts!Noticed /\ held' = held
    BY <1>14 DEF Parts!WriteWords
  <2> QED
    BY NoticedKeeps, <2>1
<1>15. CASE UNCHANGED galleryVars
  BY <1>1, <1>15 DEF galleryVars
<1> QED
  BY <1>4, <1>5, <1>6, <1>8, <1>9, <1>10, <1>11, <1>12, <1>13, <1>14, <1>15 DEF Parts!Next

\* An artifact that is there, that anything is attached to, updated, resolved or given to a run, was
\* created, which was answered.
Made(a) == \E x \in answered : x.work = a

UpdateRows == [work : Works, pc : {"insert", "move"}, next : 1 .. texts, text : 1 .. texts]

\* An update that has inserted its version holds a number under which nothing is said yet.
UpdateStands(u) == update[u].pc # "idle" =>
    /\ update[u] \in UpdateRows /\ Made(update[u].work)
    /\ update[u].pc = "move" =>
         /\ artifact[update[u].work] # 0
         /\ content[update[u].work][update[u].next] = 0
         /\ \A o \in Updates : update[o].pc = "move" /\ update[o].work = update[u].work
                               /\ update[o].next = update[u].next => o = u

\* While an artifact is there its versions say what was answered and what runs were given.
AnswerStands(x) ==
    /\ x.work \in Works /\ x.version \in Library!Versions /\ x.text \in Nat \ {0}
    /\ artifact[x.work] # 0 => content[x.work][x.version] = x.text
GivenStands(g) ==
    /\ g.work \in Works /\ g.version \in Library!Versions /\ Made(g.work)
    /\ artifact[g.work] # 0 /\ g.text # 0 => content[g.work][g.version] = g.text

WorkInv ==
    /\ texts \in Nat /\ texts <= MaxTexts
    /\ artifact \in [Works -> 0 .. texts]
    /\ content \in [Works -> [Library!Versions -> Nat]]
    /\ DOMAIN update = Updates
    /\ \A a \in Works : /\ artifact[a] # 0 => Made(a)
                        /\ artifact[a] = 0 => \A v \in Library!Versions : content[a][v] = 0
    /\ \A x \in attached : x.work \in Works /\ artifact[x.work] # 0 /\ x.pin \in {0} \cup Library!Versions
    /\ \A x \in run.todo : x.work \in Works /\ x.version \in Library!Versions /\ Made(x.work)
    /\ \A u \in Updates : UpdateStands(u)
    /\ \A x \in answered : AnswerStands(x)
    /\ \A g \in given : GivenStands(g)
    /\ Library!VersionsAreKept

\* Every request of the artifact registry keeps it.
LEMMA WorkInvStays == WorkInv /\ [Library!Next]_workVars => WorkInv'
<1> SUFFICES ASSUME WorkInv, [Library!Next]_workVars PROVE WorkInv'
  OBVIOUS
<1> USE TextsAssumption
\* Requests that only attach, resolve or detach.
<1>1. ASSUME UNCHANGED <<artifact, content, update, answered, texts>>,
             \A x \in attached' : x.work \in Works /\ artifact[x.work] # 0 /\ x.pin \in {0} \cup Library!Versions,
             \A x \in run.todo' : x.work \in Works /\ x.version \in Library!Versions /\ Made(x.work),
             \A g \in given' : g \in given \/ (\E x \in run.todo :
                                  g = [work |-> x.work, version |-> x.version, text |-> content[x.work][x.version]])
      PROVE  WorkInv'
  <2>1. ASSUME NEW g \in given', g \notin given
        PROVE  /\ GivenStands(g)
               /\ \A y \in answered : g.work = y.work /\ g.version = y.version => g.text \in {0, y.text}
    <3>1. PICK x \in run.todo :
            g = [work |-> x.work, version |-> x.version, text |-> content[x.work][x.version]]
      BY <1>1, <2>1
    <3>2. g.work = x.work /\ g.version = x.version /\ g.text = content[x.work][x.version]
      BY <3>1
    <3>3. x.work \in Works /\ x.version \in Library!Versions /\ Made(x.work)
      BY DEF WorkInv
    <3> QED
      BY <3>2, <3>3 DEF WorkInv, GivenStands, Library!VersionsAreKept
  <2>2. \A g \in given' : GivenStands(g)'
    BY <1>1, <2>1 DEF WorkInv, GivenStands, Made
  <2>3. Library!VersionsAreKept'
    BY <1>1, <2>1 DEF WorkInv, Library!VersionsAreKept
  <2>4. (\A u \in Updates : UpdateStands(u)') /\ (\A x \in answered' : AnswerStands(x)')
    BY <1>1 DEF WorkInv, UpdateStands, UpdateRows, Made, AnswerStands
  <2> QED
    BY <1>1, <2>2, <2>3, <2>4 DEF WorkInv, Made
\* What an update under way may become.
<1>2. ASSUME NEW u \in Updates, NEW r, update' = [update EXCEPT ![u] = r],
             UNCHANGED <<artifact, content, attached, answered, run, given>>,
             texts' \in Nat, texts <= texts', texts' <= MaxTexts,
             r.pc # "idle" =>
                /\ r.work \in Works /\ artifact[r.work] # 0
                /\ r \in [work : Works, pc : {"insert", "move"}, next : 1 .. texts', text : 1 .. texts']
                /\ r.pc = "move" => /\ content[r.work][r.next] = 0
                                    /\ \A o \in Updates \ {u} : ~(update[o].pc = "move" /\ update[o].work = r.work
                                                                  /\ update[o].next = r.next)
      PROVE  WorkInv'
  <2>1. update'[u] = r /\ (\A o \in Updates : o # u => update'[o] = update[o]) /\ DOMAIN update' = Updates
    BY <1>2 DEF WorkInv
  <2>2. ASSUME NEW o \in Updates PROVE UpdateStands(o)'
    <3>0. texts \in Nat /\ 1 .. texts \subseteq 1 .. texts'
      BY <1>2 DEF WorkInv
    <3>1. UpdateRows \subseteq UpdateRows'
      BY <3>0 DEF UpdateRows
    <3>2. CASE o = u
      BY <1>2, <2>1, <3>2 DEF WorkInv, UpdateStands, UpdateRows, Made
    <3>3. CASE o # u
      BY <1>2, <2>1, <3>1, <3>3 DEF WorkInv, UpdateStands, Made
    <3> QED
      BY <3>2, <3>3
  <2>3. artifact' \in [Works -> 0 .. texts']
    BY <1>2 DEF WorkInv
  <2> QED
    BY <1>2, <2>1, <2>2, <2>3 DEF WorkInv, Made, AnswerStands, GivenStands, Library!VersionsAreKept
<1>3. ASSUME NEW a \in Works, Library!Create(a) PROVE WorkInv'
  <2> DEFINE t == texts + 1
             y == [work |-> a, version |-> 1, text |-> t]
             c == [content[a] EXCEPT ![1] = t]
  <2>1. /\ artifact[a] = 0 /\ texts \in Nat /\ texts < MaxTexts /\ ~Made(a)
        /\ texts' = t /\ artifact' = [artifact EXCEPT ![a] = 1] /\ content' = [content EXCEPT ![a] = c]
        /\ answered' = answered \cup {y} /\ UNCHANGED <<attached, update, run, given>>
    BY <1>3 DEF WorkInv, Library!Create, Made
  <2>2. t \in Nat \ {0} /\ t <= MaxTexts /\ 1 \in Library!Versions /\ texts <= t /\ 1 \in 1 .. t
    BY <2>1 DEF Library!Versions
  <2>3. y.work = a /\ y.version = 1 /\ y.text = t
    OBVIOUS
  <2>4. c \in [Library!Versions -> Nat] /\ c[1] = t /\ content[a] \in [Library!Versions -> Nat]
    BY <2>2 DEF WorkInv
  <2> HIDE DEF t, y, c
  <2>5. /\ artifact' \in [Works -> 0 .. t] /\ artifact'[a] = 1 /\ content'[a] = c
        /\ content' \in [Works -> [Library!Versions -> Nat]]
        /\ \A k \in Works : k # a => artifact'[k] = artifact[k] /\ content'[k] = content[k]
    BY <2>1, <2>2, <2>4 DEF WorkInv
  <2>6. Made(a)' /\ \A k : Made(k) => Made(k)'
    BY <2>1, <2>3 DEF Made
  <2>7. ASSUME NEW u \in Updates PROVE UpdateStands(u)'
    <3>0. 1 .. texts \subseteq 1 .. t
      BY <2>1, <2>2
    <3>1. UpdateRows \subseteq UpdateRows'
      BY <2>1, <3>0 DEF UpdateRows
    <3> QED
      BY <2>1, <2>5, <2>6, <3>1 DEF WorkInv, UpdateStands, UpdateRows
  <2>8. ASSUME NEW x \in answered' PROVE AnswerStands(x)'
    BY <2>1, <2>2, <2>3, <2>4, <2>5 DEF WorkInv, AnswerStands, Made
  <2>9. ASSUME NEW g \in given' PROVE GivenStands(g)' /\ g.work # a
    BY <2>1, <2>5, <2>6 DEF WorkInv, GivenStands
  <2>10. Library!VersionsAreKept'
    <3>1. ASSUME NEW x \in answered' PROVE content'[x.work][x.version] \in {0, x.text}
      BY <2>1, <2>3, <2>4, <2>5 DEF WorkInv, Library!VersionsAreKept, AnswerStands, Made
    <3>2. ASSUME NEW x \in answered', NEW g \in given', g.work = x.work, g.version = x.version
          PROVE  g.text \in {0, x.text}
      BY <2>1, <2>3, <2>9, <3>2 DEF WorkInv, Library!VersionsAreKept
    <3> QED
      BY <3>1, <3>2 DEF Library!VersionsAreKept
  <2>11. \A x \in attached' : x.work \in Works /\ artifact'[x.work] # 0 /\ x.pin \in {0} \cup Library!Versions
    BY <2>1, <2>5 DEF WorkInv
  <2>12. \A k \in Works : /\ artifact'[k] # 0 => Made(k)'
                          /\ artifact'[k] = 0 => \A v \in Library!Versions : content'[k][v] = 0
    BY <2>1, <2>5, <2>6 DEF WorkInv
  <2> QED
    BY <2>1, <2>2, <2>5, <2>6, <2>7, <2>8, <2>9, <2>10, <2>11, <2>12 DEF WorkInv
<1>4. ASSUME NEW a \in Works, Library!Remove(a) PROVE WorkInv'
  <2> DEFINE none == [v \in Library!Versions |-> 0]
  <2>1. /\ \A u \in Updates : ~(update[u].pc = "move" /\ update[u].work = a)
        /\ artifact' = [artifact EXCEPT ![a] = 0] /\ content' = [content EXCEPT ![a] = none]
        /\ attached' = {x \in attached : x.work # a} /\ UNCHANGED <<update, answered, run, given, texts>>
    BY <1>4 DEF Library!Remove
  <2>2. none \in [Library!Versions -> Nat] /\ \A v \in Library!Versions : none[v] = 0
    OBVIOUS
  <2> HIDE DEF none
  <2>3. texts \in Nat /\ 0 \in 0 .. texts
    BY DEF WorkInv
  <2>4. /\ artifact' \in [Works -> 0 .. texts] /\ artifact'[a] = 0 /\ content'[a] = none
        /\ content' \in [Works -> [Library!Versions -> Nat]]
        /\ \A k \in Works : k # a => artifact'[k] = artifact[k] /\ content'[k] = content[k]
    BY <2>1, <2>2, <2>3 DEF WorkInv
  <2>5. ASSUME NEW u \in Updates PROVE UpdateStands(u)'
    BY <2>1, <2>4 DEF WorkInv, UpdateStands, UpdateRows, Made
  <2>6. ASSUME NEW x \in answered PROVE AnswerStands(x)' /\ content'[x.work][x.version] \in {0, x.text}
    BY <2>1, <2>2, <2>4 DEF WorkInv, AnswerStands, Library!VersionsAreKept
  <2>7. ASSUME NEW g \in given PROVE GivenStands(g)'
    BY <2>1, <2>4 DEF WorkInv, GivenStands, Made
  <2>8. Library!VersionsAreKept'
    BY <2>1, <2>6 DEF WorkInv, Library!VersionsAreKept
  <2>9. \A x \in attached' : x.work \in Works /\ artifact'[x.work] # 0 /\ x.pin \in {0} \cup Library!Versions
    BY <2>1, <2>4 DEF WorkInv
  <2>10. \A k \in Works : /\ artifact'[k] # 0 => Made(k)'
                          /\ artifact'[k] = 0 => \A v \in Library!Versions : content'[k][v] = 0
    BY <2>1, <2>2, <2>4 DEF WorkInv, Made
  <2> QED
    BY <2>1, <2>4, <2>5, <2>6, <2>7, <2>8, <2>9, <2>10 DEF WorkInv, Made
<1>5. ASSUME NEW a \in Works, NEW u \in Updates, Library!ReadLatest(u, a) PROVE WorkInv'
  <2> DEFINE r == [work |-> a, pc |-> "insert", next |-> artifact[a] + 1, text |-> texts + 1]
  <2>1. /\ texts \in Nat /\ texts < MaxTexts /\ artifact[a] # 0 /\ artifact[a] \in 0 .. texts
        /\ texts' = texts + 1 /\ update' = [update EXCEPT ![u] = r]
        /\ UNCHANGED <<artifact, content, attached, answered, run, given>>
    BY <1>5 DEF WorkInv, Library!ReadLatest
  <2>2. r.pc = "insert" /\ r.work = a
    OBVIOUS
  <2>3. r \in [work : Works, pc : {"insert", "move"}, next : 1 .. texts', text : 1 .. texts']
    BY <2>1
  <2> HIDE DEF r
  <2>4. texts' \in Nat /\ texts <= texts' /\ texts' <= MaxTexts
    BY <2>1
  <2> QED
    BY <1>2, <2>1, <2>2, <2>3, <2>4
<1>6. Library!NoUpdate.pc = "idle"
  BY DEF Library!NoUpdate
<1>7. ASSUME NEW u \in Updates, Library!InsertVersion(u) PROVE WorkInv'
  <2> DEFINE r == [update[u] EXCEPT !.pc = "move"]
  <2>0. /\ update[u].pc = "insert" /\ UNCHANGED <<artifact, content, attached, answered, run, given, texts>>
        /\ texts \in Nat /\ texts <= texts /\ texts <= MaxTexts
    BY <1>7 DEF WorkInv, Library!InsertVersion
  <2>1. CASE artifact[update[u].work] # 0 /\ content[update[u].work][update[u].next] = 0
    <3>1. update[u] \in UpdateRows
      BY <2>0 DEF WorkInv, UpdateStands
    <3>2. /\ r \in UpdateRows /\ r.work = update[u].work /\ r.next = update[u].next /\ r.pc = "move"
      BY <3>1 DEF UpdateRows
    <3>3. /\ update' = [update EXCEPT ![u] = r]
          /\ \A w \in Updates \ {u} : ~(update[w].pc = "move" /\ update[w].work = r.work /\ update[w].next = r.next)
      BY <1>7, <2>1, <3>2 DEF Library!InsertVersion
    <3>4. r.work \in Works
      BY <3>1, <3>2 DEF UpdateRows
    <3> HIDE DEF r
    <3> QED
      BY <1>2, <2>0, <2>1, <3>2, <3>3, <3>4 DEF UpdateRows
  <2>2. CASE ~(artifact[update[u].work] # 0 /\ content[update[u].work][update[u].next] = 0)
    <3>1. update' = [update EXCEPT ![u] = Library!NoUpdate]
      BY <1>7, <2>2 DEF Library!InsertVersion
    <3> QED
      BY <1>2, <1>6, <2>0, <3>1
  <2> QED
    BY <2>1, <2>2
<1>8. ASSUME NEW u \in Updates, Library!MoveLatest(u) PROVE WorkInv'
  <2>0. PICK a, v, t : a = update[u].work /\ v = update[u].next /\ t = update[u].text
    OBVIOUS
  <2> DEFINE y == [work |-> a, version |-> v, text |-> t]
             c == [content[a] EXCEPT ![v] = t]
  <2>1. /\ artifact' = [artifact EXCEPT ![a] = v] /\ content' = [content EXCEPT ![a] = c]
        /\ answered' = answered \cup {y} /\ update' = [update EXCEPT ![u] = Library!NoUpdate]
        /\ UNCHANGED <<attached, run, given, texts>> /\ update[u].pc = "move"
    BY <1>8, <2>0 DEF Library!MoveLatest
  <2>2. /\ a \in Works /\ v \in 1 .. texts /\ t \in 1 .. texts /\ Made(a)
        /\ artifact[a] # 0 /\ content[a][v] = 0
        /\ \A o \in Updates : update[o].pc = "move" /\ update[o].work = a /\ update[o].next = v => o = u
    BY <2>0, <2>1 DEF WorkInv, UpdateStands, UpdateRows
  <2>3. texts \in Nat /\ texts <= MaxTexts /\ v \in Library!Versions /\ t \in Nat \ {0} /\ v # 0 /\ v \in 0 .. texts
    BY <2>2 DEF WorkInv, Library!Versions
  <2>4. y.work = a /\ y.version = v /\ y.text = t
    OBVIOUS
  <2>5. /\ c \in [Library!Versions -> Nat] /\ c[v] = t
        /\ \A k \in Library!Versions : k # v => c[k] = content[a][k]
    BY <2>2, <2>3 DEF WorkInv
  <2> HIDE DEF y, c
  <2>6. /\ artifact' \in [Works -> 0 .. texts] /\ artifact'[a] = v /\ content'[a] = c
        /\ content' \in [Works -> [Library!Versions -> Nat]]
        /\ \A k \in Works : k # a => artifact'[k] = artifact[k] /\ content'[k] = content[k]
    BY <2>1, <2>2, <2>3, <2>5 DEF WorkInv
  <2>7. \A k : Made(k) => Made(k)'
    BY <2>1 DEF Made
  <2>8. ASSUME NEW o \in Updates PROVE UpdateStands(o)'
    <3>1. CASE o = u
      BY <1>6, <2>1, <3>1 DEF WorkInv, UpdateStands
    <3>2. ASSUME o # u PROVE UpdateStands(o)'
      <4>1. update'[o] = update[o] /\ UpdateRows' = UpdateRows /\ UpdateStands(o)
        BY <2>1, <3>2 DEF WorkInv, UpdateRows
      <4>2. \A k \in Updates : update'[k].pc = "move" => update'[k] = update[k]
        BY <1>6, <2>1 DEF WorkInv
      <4>3. ASSUME update[o].pc = "move"
            PROVE  /\ artifact'[update[o].work] # 0
                   /\ content'[update[o].work][update[o].next] = 0
        <5>1. update[o].work \in Works /\ update[o].next \in Library!Versions
          BY <2>3, <4>1, <4>3 DEF UpdateStands, UpdateRows, Library!Versions
        <5>2. ~(update[o].work = a /\ update[o].next = v)
          BY <2>2, <3>2, <4>3
        <5> QED
          BY <2>3, <2>5, <2>6, <4>1, <4>3, <5>1, <5>2 DEF UpdateStands
      <4> QED
        BY <2>7, <4>1, <4>2, <4>3 DEF UpdateStands
    <3> QED
      BY <3>1, <3>2
  <2>9. ASSUME NEW x \in answered PROVE AnswerStands(x)' /\ ~(x.work = a /\ x.version = v)
    <3>1. /\ x.work \in Works /\ x.version \in Library!Versions /\ x.text \in Nat \ {0}
          /\ artifact[x.work] # 0 => content[x.work][x.version] = x.text
      BY DEF WorkInv, AnswerStands
    <3>2. ~(x.work = a /\ x.version = v)
      BY <2>2, <3>1
    <3>3. artifact'[x.work] # 0 => content'[x.work][x.version] = x.text
      BY <2>2, <2>5, <2>6, <3>1, <3>2
    <3> QED
      BY <3>1, <3>2, <3>3 DEF AnswerStands
  <2>10. AnswerStands(y)'
    BY <2>2, <2>3, <2>4, <2>5, <2>6 DEF AnswerStands
  <2>11. ASSUME NEW g \in given PROVE GivenStands(g)' /\ (g.work = a /\ g.version = v => g.text = 0)
    <3>1. /\ g.work \in Works /\ g.version \in Library!Versions /\ Made(g.work)
          /\ artifact[g.work] # 0 /\ g.text # 0 => content[g.work][g.version] = g.text
      BY DEF WorkInv, GivenStands
    <3>2. g.work = a /\ g.version = v => g.text = 0
      BY <2>2, <3>1
    <3>3. artifact'[g.work] # 0 /\ g.text # 0 => content'[g.work][g.version] = g.text
      BY <2>2, <2>5, <2>6, <3>1, <3>2
    <3> QED
      BY <2>7, <3>1, <3>2, <3>3 DEF GivenStands
  <2>12. Library!VersionsAreKept'
    <3>1. ASSUME NEW x \in answered' PROVE content'[x.work][x.version] \in {0, x.text}
      <4>1. CASE x = y
        BY <2>4, <2>5, <2>6, <4>1
      <4>2. CASE x \in answered
        BY <2>5, <2>6, <2>9, <4>2 DEF WorkInv, AnswerStands, Library!VersionsAreKept
      <4> QED
        BY <2>1, <4>1, <4>2
    <3>2. ASSUME NEW x \in answered', NEW g \in given', g.work = x.work, g.version = x.version
          PROVE  g.text \in {0, x.text}
      BY <2>1, <2>4, <2>11, <3>2 DEF WorkInv, Library!VersionsAreKept
    <3> QED
      BY <3>1, <3>2 DEF Library!VersionsAreKept
  <2>13. \A x \in attached' : x.work \in Works /\ artifact'[x.work] # 0 /\ x.pin \in {0} \cup Library!Versions
    BY <2>1, <2>3, <2>6 DEF WorkInv
  <2>14. \A k \in Works : /\ artifact'[k] # 0 => Made(k)'
                          /\ artifact'[k] = 0 => \A i \in Library!Versions : content'[k][i] = 0
    BY <2>2, <2>3, <2>6, <2>7 DEF WorkInv
  <2>15. DOMAIN update' = Updates /\ \A x \in answered' : AnswerStands(x)'
    BY <2>1, <2>9, <2>10 DEF WorkInv
  <2> QED
    BY <2>1, <2>3, <2>6, <2>7, <2>8, <2>11, <2>12, <2>13, <2>14, <2>15 DEF WorkInv
<1>9. ASSUME NEW a \in Works, NEW p \in Profiles, NEW v \in {0} \cup Library!Versions, Library!Attach(p, a, v)
      PROVE  WorkInv'
  <2> DEFINE y == [profile |-> p, work |-> a, pin |-> v]
  <2>1. /\ \A x \in attached' : x \in attached \/ x = y
        /\ artifact[a] # 0 /\ UNCHANGED <<artifact, content, update, run, answered, given, texts>>
    BY <1>9 DEF Library!Attach
  <2>2. y.work = a /\ y.pin = v
    OBVIOUS
  <2> HIDE DEF y
  <2> QED
    BY <1>1, <2>1, <2>2 DEF WorkInv
<1>10. ASSUME NEW a \in Works, NEW p \in Profiles, Library!Detach(p, a) PROVE WorkInv'
  BY <1>1, <1>10 DEF Library!Detach, WorkInv
<1>11. ASSUME NEW p \in Profiles, Library!ReadAttached(p) PROVE WorkInv'
  <2> DEFINE d(x) == [work |-> x.work, version |-> IF x.pin = 0 THEN artifact[x.work] ELSE x.pin]
             todo == {d(x) : x \in {k \in attached : k.profile = p}}
  <2>1. run' = [todo |-> todo] /\ UNCHANGED <<artifact, content, attached, update, answered, given, texts>>
    BY <1>11 DEF Library!ReadAttached
  <2>2. ASSUME NEW x \in attached
        PROVE  d(x).work \in Works /\ d(x).version \in Library!Versions /\ Made(d(x).work)
    <3>1. x.work \in Works /\ artifact[x.work] # 0 /\ x.pin \in {0} \cup Library!Versions
      BY DEF WorkInv
    <3>2. artifact[x.work] \in Library!Versions
      BY <3>1 DEF WorkInv, Library!Versions
    <3> QED
      BY <3>1, <3>2 DEF WorkInv
  <2>3. \A k \in todo : k.work \in Works /\ k.version \in Library!Versions /\ Made(k.work)
    BY <2>2
  <2>4. run.todo' = todo
    BY <2>1
  <2> HIDE DEF todo
  <2> QED
    BY <1>1, <2>1, <2>3, <2>4 DEF WorkInv
<1>12. CASE Library!ReadContent
  <2>1. PICK x \in run.todo :
          /\ run' = [todo |-> run.todo \ {x}]
          /\ given' = given \cup {[work |-> x.work, version |-> x.version, text |-> content[x.work][x.version]]}
          /\ UNCHANGED <<artifact, content, attached, update, answered, texts>>
    BY <1>12 DEF Library!ReadContent
  <2>2. \A k \in run.todo' : k \in run.todo
    BY <2>1
  <2> QED
    BY <1>1, <2>1, <2>2 DEF WorkInv
<1>13. CASE UNCHANGED workVars
  BY <1>1, <1>13 DEF workVars, WorkInv
<1> QED
  BY <1>3, <1>4, <1>5, <1>7, <1>8, <1>9, <1>10, <1>11, <1>12, <1>13 DEF Library!Next

\* The shelf keeps what it promises.  A compiled component that was withheld or unpublished before a
\* call does not stay drawn once the call is answered: decide asks again, however old the list of tools
\* the app answered with, and its refusal is kept with the call, whatever is polled later.  Until the
\* answer comes, and for the components authored in a browser and the decision cards, it is the poll
\* that is drawn.  A version of an artifact says what the request it was answered to wrote, and runs
\* are given those words: of two updates that read the same latest version, the insert of one waits for
\* the other and then fails.
THEOREM ShelfKeptAlways == Spec => []ShelfKept
<1>1. Init => GalleryInv /\ WorkInv
  <2> SUFFICES ASSUME Init PROVE GalleryInv /\ WorkInv
    OBVIOUS
  <2>1. Parts!Init /\ Library!Init
    BY DEF Init
  <2>2. GalleryInv
    BY <2>1 DEF GalleryInv, Parts!Init, Parts!NoCall, CallRows, HeldIsReal, CallIsNoticed, Fits
  <2>3. WorkInv
    BY <2>1, TextsAssumption DEF WorkInv, Library!Init, Library!NoUpdate, Library!NoRun, UpdateStands,
       AnswerStands, GivenStands, Library!VersionsAreKept
  <2> QED
    BY <2>2, <2>3
<1>2. GalleryInv /\ WorkInv /\ [Next]_vars => GalleryInv' /\ WorkInv'
  BY GalleryInvStays, WorkInvStays, ShelfSteps
<1>3. GalleryInv /\ WorkInv => ShelfKept
  <2> SUFFICES ASSUME GalleryInv, WorkInv PROVE ShelfKept
    OBVIOUS
  <2>1. ASSUME NEW w \in Browsers, call[w].name \in Shown, call[w].pc = "answered", Parts!Draws(w)
        PROVE  call[w].ok
    <3>1. ~call[w].refused
      BY <2>1, KindsAssumption DEF Parts!Draws
    <3> QED
      BY <2>1, <3>1 DEF GalleryInv, CallIsNoticed, Fits
  <2> QED
    BY <2>1 DEF ShelfKept, WorkInv, Parts!RevokedIsGone
<1> QED
  BY <1>1, <1>2, <1>3, PTL DEF Spec

-----------------------------------------------------------------------------
(***************************************************************************)
(* The package.                                                            *)
(***************************************************************************)

RowStates == [whose : {None, Start!Catalogue} \cup Tenants \cup Writers,
              says : {None} \cup Writers \cup Start!Packages,
              tools : {None} \cup Writers \cup Start!Packages]
Wrotes == UNION {[R -> RowStates] : R \in SUBSET Start!Rows}
BootRows == [step : {"off", "check", "write", "serves", "failed"}, pkg : Start!Packages \cup {None},
             at : Nat, holds : SUBSET Start!Rows, wrote : Wrotes]
Requests == [step : {"none", "save", "declare", "delete"}, row : SkillRows \cup {None}]

\* What the transaction of a start has written is what its package says, under its own name or, a
\* skill, under the catalogue's; an agent it wrote is nobody else's.
WroteStands(b) == \A r \in DOMAIN boot[b].wrote :
    /\ r \in boot[b].holds /\ r \notin Reserved /\ boot[b].wrote[r].says = boot[b].pkg
    /\ r.kind = "package" => r = Start!OwnRow(Start!Own(b))
    /\ r.kind = "agent" => table[r].whose \in {None, Start!Own(b)}
    /\ r.kind = "skill" => boot[b].wrote[r].whose = Start!Catalogue
    /\ r.kind # "skill" => boot[b].wrote[r].whose = Start!Own(b)

\* Everything up to the statement it is at is written, except the skills somebody wrote, which it
\* holds.
DoneStands(b) ==
    /\ boot[b].at > 0 => Start!OwnRow(Start!Own(b)) \in DOMAIN boot[b].wrote
    /\ \A j \in DOMAIN Ships[boot[b].pkg] : j < boot[b].at =>
         \/ Ships[boot[b].pkg][j] \in DOMAIN boot[b].wrote
         \/ /\ Ships[boot[b].pkg][j].kind = "skill" /\ Ships[boot[b].pkg][j] \in boot[b].holds
            /\ table[Ships[boot[b].pkg][j]].whose \notin {None, Start!Catalogue}

BootStands(b) ==
    /\ boot[b] \in BootRows
    /\ boot[b].step \in {"check", "write", "serves"} =>
         boot[b].pkg \in Start!Packages /\ Start!Validate(boot[b].pkg)
    /\ boot[b].step \in {"write", "serves"} => \A r \in Reserved : table[r] = Start!Absent
    /\ boot[b].step # "write" => boot[b].holds = {}
    /\ boot[b].step = "check" => boot[b].at = 0 /\ boot[b].wrote = <<>>
    /\ boot[b].step = "write" => WroteStands(b) /\ DoneStands(b)

\* The rows: what is nobody's is not there, and a package's own row names a package of that tenant.
TableStands ==
    /\ table \in [Start!Rows -> RowStates]
    /\ \A r \in Start!Rows : table[r].whose = None => table[r] = Start!Absent
    /\ \A t \in Tenants : table[Start!OwnRow(t)].says \in {None} \cup ({t} \X Versions)
    /\ Start!ActiveIsWhole /\ Start!WrittenStays

HoldsApart == \A b, o \in Boots : b # o => boot[b].holds \cap boot[o].holds = {}

PackageInv ==
    /\ DOMAIN boot = Boots /\ request \in [Writers -> Requests]
    /\ \A w \in Writers : request[w].step # "none" => request[w].row \in SkillRows
    /\ \A b \in Boots : BootStands(b)
    /\ HoldsApart /\ TableStands

\* What the packages of this instance ship, and what else a row may be.
LEMMA RowKinds ==
    /\ \A r \in SkillRows : r \in Start!Rows /\ r.kind = "skill"
    /\ \A r \in Reserved : r \in Start!Rows /\ r.kind = "agent"
    /\ \A t \in Tenants : Start!OwnRow(t) \in Start!Rows /\ Start!OwnRow(t).kind = "package"
                          /\ Start!OwnRow(t).name = t
    /\ \A p \in Start!Packages : /\ Ships[p] \in Seq(Start!Rows) /\ DOMAIN Ships[p] = 1 .. Len(Ships[p])
                                 /\ Len(Ships[p]) \in Nat
    /\ \A p \in Start!Packages : \A j \in DOMAIN Ships[p] :
          Ships[p][j] \in Start!Rows /\ Ships[p][j].kind \in {"agent", "channel", "skill"}
<1>1. \A r \in SkillRows : r \in Start!Rows /\ r.kind = "skill"
  BY DEF SkillRows, Skill, Shipped, Start!Rows
<1>2. \A r \in Reserved : r \in Start!Rows /\ r.kind = "agent"
  BY DEF Reserved, Shipped, Start!Rows
<1>3. \A t \in Tenants : Start!OwnRow(t) \in Start!Rows /\ Start!OwnRow(t).kind = "package"
                          /\ Start!OwnRow(t).name = t
  BY DEF Start!OwnRow, Start!Rows
<1>4. ASSUME NEW p \in Start!Packages
      PROVE  \E n \in Nat : /\ Ships[p] = [j \in 1 .. n |-> Ships[p][j]]
                            /\ \A j \in 1 .. n : Ships[p][j].kind \in {"agent", "channel", "skill"}
  <2>1. p \in {<<"acme", 1>>, <<"acme", 2>>, <<"other", 1>>, <<"other", 2>>}
    BY DEF Start!Packages, Tenants, Versions
  <2>2. CASE p = <<"acme", 1>>
    <3>1. Ships[p] = <<Channel, Skill>>
      BY <2>2 DEF Ships, Tenants, Versions
    <3> QED
      BY <3>1, 2 \in Nat DEF Channel, Skill, Shipped
  <2>3. CASE p = <<"acme", 2>>
    <3>1. Ships[p] = <<Shipped("agent", "x"), Shipped("agent", "y"), Channel, Skill>>
      BY <2>3 DEF Ships, Tenants, Versions
    <3> QED
      BY <3>1, 4 \in Nat DEF Channel, Skill, Shipped
  <2>4. CASE p = <<"other", 1>>
    <3>1. Ships[p] = <<Shipped("agent", "y"), Channel, Skill>>
      BY <2>4 DEF Ships, Tenants, Versions
    <3> QED
      BY <3>1, 3 \in Nat DEF Channel, Skill, Shipped
  <2>5. CASE p = <<"other", 2>>
    <3>1. Ships[p] = <<Shipped("agent", "policy")>>
      BY <2>5 DEF Ships, Tenants, Versions
    <3> QED
      BY <3>1, 1 \in Nat DEF Shipped
  <2> QED
    BY <2>1, <2>2, <2>3, <2>4, <2>5
<1>5. ASSUME NEW p \in Start!Packages
      PROVE  /\ Ships[p] \in Seq(Start!Rows) /\ DOMAIN Ships[p] = 1 .. Len(Ships[p]) /\ Len(Ships[p]) \in Nat
             /\ \A j \in DOMAIN Ships[p] :
                  Ships[p][j] \in Start!Rows /\ Ships[p][j].kind \in {"agent", "channel", "skill"}
  <2>1. PICK n \in Nat : /\ Ships[p] = [j \in 1 .. n |-> Ships[p][j]]
                         /\ \A j \in 1 .. n : Ships[p][j].kind \in {"agent", "channel", "skill"}
    BY <1>4
  <2>2. DOMAIN Ships[p] = 1 .. n
    BY <2>1
  <2>3. \A j \in 1 .. n : Ships[p][j] \in Start!Rows
    BY <2>2 DEF Start!Rows
  <2>4. Ships[p] \in [1 .. n -> Start!Rows]
    BY <2>1, <2>3
  <2>5. Ships[p] \in Seq(Start!Rows)
    BY <2>4
  <2> QED
    BY <2>1, <2>2, <2>3, <2>5
<1> QED
  BY <1>1, <1>2, <1>3, <1>5

\* What a transaction has written, one row more at a time.
LEMMA WroteSet ==
    /\ <<>> \in Wrotes
    /\ \A f \in Wrotes : DOMAIN f \subseteq Start!Rows /\ \A r \in DOMAIN f : f[r] \in RowStates
    /\ \A f \in Wrotes : \A r \in Start!Rows, x \in RowStates :
          [k \in DOMAIN f \cup {r} |-> IF k = r THEN x ELSE f[k]] \in Wrotes
<1>1. <<>> \in [{} -> RowStates]
  OBVIOUS
<1>2. <<>> \in Wrotes
  BY <1>1 DEF Wrotes
<1>3. ASSUME NEW f \in Wrotes PROVE DOMAIN f \subseteq Start!Rows /\ \A r \in DOMAIN f : f[r] \in RowStates
  BY DEF Wrotes
<1>4. ASSUME NEW f \in Wrotes, NEW r \in Start!Rows, NEW x \in RowStates
      PROVE  [k \in DOMAIN f \cup {r} |-> IF k = r THEN x ELSE f[k]] \in Wrotes
  <2> DEFINE g == [k \in DOMAIN f \cup {r} |-> IF k = r THEN x ELSE f[k]]
  <2>1. g \in [DOMAIN f \cup {r} -> RowStates] /\ DOMAIN f \cup {r} \in SUBSET Start!Rows
    BY <1>3
  <2> QED
    BY <2>1 DEF Wrotes
<1> QED
  BY <1>2, <1>3, <1>4

\* A start stands as long as nobody writes the rows it holds.
LEMMA BootKeeps ==
  ASSUME NEW b \in Boots, BootStands(b), boot'[b] = boot[b],
         boot[b].step = "write" => \A r \in boot[b].holds : table'[r] = table[r],
         \A r \in Reserved : table'[r] = table[r]
  PROVE  BootStands(b)'
<1>1. WroteStands(b) /\ boot[b].step = "write" => WroteStands(b)'
  BY DEF WroteStands, Start!Own
<1>2. DoneStands(b) /\ boot[b].step = "write" => DoneStands(b)'
  BY DEF DoneStands, Start!Own
<1> QED
  BY <1>1, <1>2 DEF BootStands

\* One start goes on, and the rows stay.
LEMMA OneBoots ==
  ASSUME PackageInv, NEW b \in Boots, NEW x, boot' = [boot EXCEPT ![b] = x],
         table' = table, request' = request,
         BootStands(b)', \A o \in Boots \ {b} : x.holds \cap boot[o].holds = {}
  PROVE  PackageInv'
<1>1. /\ boot'[b] = x /\ (\A o \in Boots : o # b => boot'[o] = boot[o]) /\ DOMAIN boot' = Boots
  BY DEF PackageInv
<1>2. \A o \in Boots : BootStands(o)'
  BY <1>1, BootKeeps DEF PackageInv
<1>3. HoldsApart'
  BY <1>1 DEF PackageInv, HoldsApart
<1>4. TableStands'
  BY DEF PackageInv, TableStands, Start!ActiveIsWhole, Start!WrittenStays
<1> QED
  BY <1>1, <1>2, <1>3, <1>4 DEF PackageInv

\* A start that threw holds nothing.
LEMMA ThrownStands ==
  ASSUME NEW b \in Boots, boot'[b] = Start!Thrown
  PROVE  BootStands(b)' /\ Start!Thrown.holds = {}
<1> DEFINE x == Start!Thrown
<1>1. x \in BootRows /\ x.step = "failed" /\ x.holds = {}
  BY WroteSet DEF Start!Thrown, Start!Off, BootRows
<1> HIDE DEF x
<1> QED
  BY <1>1 DEF BootStands, x

\* A statement that writes its row.
LEMMA PutStands ==
  ASSUME PackageInv, NEW b \in Boots, NEW kind \in {"package", "agent", "channel", "skill"},
         Start!At(b, kind),
         NEW whose \in {Start!Catalogue} \cup Tenants, Start!Put(b, whose),
         kind = "skill" => whose = Start!Catalogue,
         kind # "skill" => whose = Start!Own(b),
         kind = "agent" => table[Start!Row(b)].whose \in {None, Start!Own(b)}
  PROVE  PackageInv'
<1>1. PICK y, row, p : y = boot[b] /\ row = Start!Row(b) /\ p = boot[b].pkg
  OBVIOUS
<1> DEFINE s == [whose |-> whose, says |-> p, tools |-> p]
           f == [k \in DOMAIN y.wrote \cup {row} |-> IF k = row THEN s ELSE y.wrote[k]]
           x == [y EXCEPT !.at = @ + 1, !.holds = @ \cup {row}, !.wrote = f]
<1>2. /\ y \in BootRows /\ y.step = "write" /\ p \in Start!Packages /\ Start!Validate(p) /\ y.pkg = p
      /\ \A r \in Reserved : table[r] = Start!Absent
      /\ WroteStands(b) /\ DoneStands(b)
  BY <1>1 DEF PackageInv, BootStands, Start!At
<1>3. /\ y.at \in Nat /\ y.holds \subseteq Start!Rows /\ y.wrote \in Wrotes
  BY <1>2 DEF BootRows
<1>4. p[1] \in Tenants /\ Start!Own(b) = p[1]
  BY <1>1, <1>2 DEF Start!Packages, Start!Own
<1>5. /\ row \in Start!Rows /\ row \notin Reserved /\ row.kind = kind
      /\ y.at > 0 => y.at \in DOMAIN Ships[p] /\ row = Ships[p][y.at]
      /\ y.at = 0 => row = Start!OwnRow(p[1])
  <2>1. y.at <= Len(Ships[p]) /\ row.kind = kind
    BY <1>1 DEF Start!At
  <2>2. CASE y.at = 0
    BY <1>1, <1>4, <2>1, <2>2, RowKinds DEF Start!Row
  <2>3. CASE y.at # 0
    <3>1. y.at \in DOMAIN Ships[p] /\ row = Ships[p][y.at]
      BY <1>1, <1>2, <1>3, <2>1, <2>3, RowKinds DEF Start!Row
    <3>2. row \notin Reserved
      BY <1>2, <3>1 DEF Start!Validate
    <3> QED
      BY <1>2, <1>3, <2>1, <2>3, <3>1, <3>2, RowKinds
  <2> QED
    BY <2>2, <2>3
<1>6. row.kind = "package" => y.at = 0
  BY <1>2, <1>3, <1>5, RowKinds
<1>7. s \in RowStates /\ s.whose = whose /\ s.says = p
  BY <1>2 DEF RowStates
<1>8. DOMAIN f = DOMAIN y.wrote \cup {row} /\ f[row] = s /\ (\A k \in DOMAIN y.wrote : k # row => f[k] = y.wrote[k])
      /\ f \in Wrotes
  BY <1>3, <1>5, <1>7, WroteSet
<1> HIDE DEF s, f
<1>9. /\ x \in BootRows /\ x.step = "write" /\ x.pkg = p /\ x.at = y.at + 1 /\ x.holds = y.holds \cup {row}
      /\ x.wrote = f
  <2>1. y.at + 1 \in Nat /\ y.holds \cup {row} \in SUBSET Start!Rows /\ f \in Wrotes
    BY <1>3, <1>5, <1>8
  <2>2. PICK n, h : n = y.at + 1 /\ h = y.holds \cup {row}
    OBVIOUS
  <2>3. x = [y EXCEPT !.at = n, !.holds = h, !.wrote = f]
    BY <2>2
  <2> HIDE DEF x
  <2> QED
    BY <1>2, <2>1, <2>2, <2>3 DEF BootRows
<1>10. boot' = [boot EXCEPT ![b] = x] /\ UNCHANGED <<table, request>> /\ ~Start!HeldByAnother(row, b)
  <2>1. boot' = [boot EXCEPT ![b].at = @ + 1, ![b].holds = @ \cup {row}, ![b].wrote = f]
    BY <1>1 DEF Start!Put, f, s
  <2> QED
    BY <1>1, <2>1 DEF Start!At, PackageInv
<1> HIDE DEF x
<1>11. boot'[b] = x
  BY <1>10 DEF PackageInv
<1>12. WroteStands(b)'
  <2>1. Start!Own(b)' = p[1]
    BY <1>9, <1>11 DEF Start!Own
  <2>2. ASSUME NEW r \in DOMAIN f, r # row
        PROVE  /\ r \in y.holds /\ r \notin Reserved /\ f[r].says = p
               /\ r.kind = "package" => r = Start!OwnRow(p[1])
               /\ r.kind = "agent" => table[r].whose \in {None, p[1]}
               /\ r.kind = "skill" => f[r].whose = Start!Catalogue
               /\ r.kind # "skill" => f[r].whose = p[1]
    BY <1>1, <1>2, <1>4, <1>8, <2>2 DEF WroteStands
  <2>3. /\ row \in x.holds /\ row \notin Reserved /\ f[row].says = p
        /\ row.kind = "package" => row = Start!OwnRow(p[1])
        /\ row.kind = "agent" => table[row].whose \in {None, p[1]}
        /\ row.kind = "skill" => f[row].whose = Start!Catalogue
        /\ row.kind # "skill" => f[row].whose = p[1]
    BY <1>1, <1>4, <1>5, <1>6, <1>7, <1>8, <1>9
  <2>4. ASSUME NEW r \in DOMAIN f
        PROVE  /\ r \in x.holds /\ r \notin Reserved /\ f[r].says = p
               /\ r.kind = "package" => r = Start!OwnRow(p[1])
               /\ r.kind = "agent" => table[r].whose \in {None, p[1]}
               /\ r.kind = "skill" => f[r].whose = Start!Catalogue
               /\ r.kind # "skill" => f[r].whose = p[1]
    BY <1>9, <2>2, <2>3
  <2>5. table' = table
    BY <1>10
  <2> QED
    BY <1>9, <1>11, <2>1, <2>4, <2>5 DEF WroteStands
<1>13. DoneStands(b)'
  <2>1. Start!Own(b)' = p[1] /\ table' = table
    BY <1>9, <1>10, <1>11 DEF Start!Own
  <2>2. Start!OwnRow(p[1]) \in DOMAIN f
    BY <1>1, <1>2, <1>3, <1>4, <1>5, <1>8 DEF DoneStands
  <2>3. ASSUME NEW j \in DOMAIN Ships[p], j < y.at + 1
        PROVE  \/ Ships[p][j] \in DOMAIN f
               \/ /\ Ships[p][j].kind = "skill" /\ Ships[p][j] \in x.holds
                  /\ table[Ships[p][j]].whose \notin {None, Start!Catalogue}
    <3>1. j \in Nat /\ j > 0
      BY <1>2, RowKinds
    <3>2. CASE j = y.at
      BY <1>5, <1>8, <3>1, <3>2
    <3>3. CASE j < y.at
      BY <1>1, <1>2, <1>8, <1>9, <3>3 DEF DoneStands
    <3> QED
      BY <1>3, <2>3, <3>1, <3>2, <3>3
  <2> QED
    BY <1>9, <1>11, <2>1, <2>2, <2>3 DEF DoneStands
<1>14. BootStands(b)'
  BY <1>2, <1>9, <1>10, <1>11, <1>12, <1>13 DEF BootStands, Start!Validate
<1>15. \A o \in Boots \ {b} : x.holds \cap boot[o].holds = {}
  BY <1>1, <1>9, <1>10 DEF PackageInv, HoldsApart, Start!HeldByAnother
<1> QED
  BY <1>10, <1>14, <1>15, OneBoots

\* A start that commits: its package is there whole, and what it wrote over was no other's.
LEMMA CommitStands ==
  ASSUME PackageInv, NEW b \in Boots, Start!Commit(b)
  PROVE  PackageInv'
<1>1. PICK y, p, t : y = boot[b] /\ p = boot[b].pkg /\ t = Start!Own(b)
  OBVIOUS
<1> DEFINE x == [Start!Off EXCEPT !.step = "serves", !.pkg = p]
           W == DOMAIN y.wrote
<1>2. /\ y \in BootRows /\ y.step = "write" /\ p \in Start!Packages /\ Start!Validate(p) /\ y.pkg = p
      /\ \A r \in Reserved : table[r] = Start!Absent
      /\ WroteStands(b) /\ DoneStands(b)
  BY <1>1 DEF PackageInv, BootStands, Start!Commit
<1>3. y.at \in Nat /\ y.wrote \in Wrotes /\ y.at > Len(Ships[p])
  BY <1>1, <1>2 DEF BootRows, Start!Commit
<1>4. t \in Tenants /\ t = p[1] /\ p \in {t} \X Versions
  BY <1>1, <1>2 DEF Start!Packages, Start!Own
<1>5. x \in BootRows /\ x.step = "serves" /\ x.pkg = p /\ x.holds = {}
  BY <1>2, WroteSet DEF Start!Off, BootRows
<1>6. /\ boot' = [boot EXCEPT ![b] = x] /\ request' = request
      /\ table' = [r \in Start!Rows |-> IF r \in W THEN y.wrote[r] ELSE table[r]]
  BY <1>1 DEF Start!Commit
<1> HIDE DEF x
<1>7. boot'[b] = x /\ (\A o \in Boots : o # b => boot'[o] = boot[o]) /\ DOMAIN boot' = Boots
  BY <1>6 DEF PackageInv
\* The rows it wrote.
<1>8. ASSUME NEW r \in W
      PROVE  /\ r \in Start!Rows /\ table'[r] = y.wrote[r] /\ y.wrote[r] \in RowStates
             /\ r \in y.holds /\ r \notin Reserved /\ table'[r].says = p
             /\ r.kind = "package" => r = Start!OwnRow(t)
             /\ r.kind = "agent" => table[r].whose \in {None, t}
             /\ r.kind = "skill" => table'[r].whose = Start!Catalogue
             /\ r.kind # "skill" => table'[r].whose = t
  <2>1. r \in Start!Rows /\ y.wrote[r] \in RowStates
    BY <1>3, WroteSet
  <2>2. table'[r] = y.wrote[r]
    BY <1>6, <2>1
  <2> QED
    BY <1>1, <1>2, <2>1, <2>2 DEF WroteStands
<1>9. \A r \in Start!Rows : r \notin W => table'[r] = table[r]
  BY <1>6
<1>10. table' \in [Start!Rows -> RowStates]
  BY <1>6, <1>8 DEF PackageInv, TableStands
<1>11. ASSUME NEW o \in Boots PROVE BootStands(o)'
  <2>1. \A r \in Reserved : table'[r] = table[r]
    BY <1>8, <1>9, RowKinds
  <2>2. CASE o = b
    BY <1>2, <1>5, <1>7, <2>1, <2>2 DEF BootStands, Start!Validate
  <2>3. ASSUME o # b PROVE BootStands(o)'
    <3>1. boot[o].step = "write" => \A r \in boot[o].holds : r \in Start!Rows /\ r \notin W
      BY <1>1, <1>8, <2>3 DEF PackageInv, BootStands, BootRows, HoldsApart
    <3>2. boot'[o] = boot[o]
      BY <1>7, <2>3
    <3> QED
      BY <1>9, <2>1, <3>1, <3>2, BootKeeps DEF PackageInv
  <2> QED
    BY <2>2, <2>3
<1>12. HoldsApart'
  BY <1>5, <1>7 DEF PackageInv, HoldsApart
<1>13. ASSUME NEW r \in Start!Rows, table'[r].whose = None PROVE table'[r] = Start!Absent
  <2>1. r \notin W
    BY <1>4, <1>8, <1>13, NamesAssumption DEF Start!Catalogue
  <2> QED
    BY <1>9, <1>13, <2>1 DEF PackageInv, TableStands
<1>14. ASSUME NEW u \in Tenants
       PROVE  /\ u = t => table'[Start!OwnRow(u)].says = p
              /\ u # t => table'[Start!OwnRow(u)] = table[Start!OwnRow(u)]
  <2>1. Start!OwnRow(t) \in W
    <3>1. y.at > 0
      BY <1>2, <1>3, RowKinds
    <3> QED
      BY <1>1, <1>2, <3>1 DEF DoneStands
  <2>2. u # t => Start!OwnRow(u) \notin W
    BY <1>4, <1>8, RowKinds
  <2> QED
    BY <1>8, <1>9, <2>1, <2>2, RowKinds
<1>15. ASSUME NEW r \in SkillRows, table'[r].whose \in Writers
       PROVE  table'[r].says \in Writers /\ table'[r].tools \in Writers \cup {None}
  <2>1. r \notin W
    BY <1>8, <1>15, NamesAssumption, RowKinds DEF Start!Catalogue
  <2> QED
    BY <1>9, <1>15, <2>1, RowKinds DEF PackageInv, TableStands, Start!WrittenStays
<1>16. ASSUME NEW u \in Tenants, NEW q, q = table'[Start!OwnRow(u)].says, q # None,
              NEW j \in DOMAIN Ships[q], NEW r, r = Ships[q][j]
       PROVE  /\ r.kind = "agent" => table'[r].whose = u /\ table'[r].says = q
              /\ r.kind = "channel" => table'[r] # Start!Absent /\ (table'[r].whose = u => table'[r].says = q)
              /\ r.kind = "skill" /\ table'[r].whose = Start!Catalogue
                   /\ table'[r].says \in {u} \X Versions => table'[r].says = q
  <2>1. CASE u = t
    <3>1. q = p
      BY <1>14, <1>16, <2>1
    <3>2. j < y.at
      BY <1>2, <1>3, <1>16, <3>1, RowKinds
    <3>3. r \in Start!Rows /\ r.kind \in {"agent", "channel", "skill"}
      BY <1>2, <1>16, <3>1, RowKinds
    <3>4. CASE r \in W
      BY <1>4, <1>8, <2>1, <3>1, <3>3, <3>4, NamesAssumption DEF Start!Absent
    <3>5. ASSUME r \notin W PROVE r.kind = "skill" /\ table'[r].whose # Start!Catalogue
      BY <1>1, <1>2, <1>9, <1>16, <3>1, <3>2, <3>3, <3>5 DEF DoneStands
    <3> QED
      BY <3>4, <3>5
  <2>2. CASE u # t
    <3>1. /\ q = table[Start!OwnRow(u)].says /\ q \in {u} \X Versions /\ q \in Start!Packages
      BY <1>14, <1>16, <2>2 DEF PackageInv, TableStands, Start!Packages
    <3>2. r \in Start!Rows
      BY <1>16, <3>1, RowKinds
    <3>3. /\ r.kind = "agent" => table[r].whose = u /\ table[r].says = q
          /\ r.kind = "channel" => table[r] # Start!Absent /\ (table[r].whose = u => table[r].says = q)
          /\ r.kind = "skill" /\ table[r].whose = Start!Catalogue
               /\ table[r].says \in {u} \X Versions => table[r].says = q
      BY <1>16, <3>1 DEF PackageInv, TableStands, Start!ActiveIsWhole
    <3>4. CASE r \notin W
      BY <1>9, <3>2, <3>3, <3>4
    <3>5. CASE r \in W
      <4>1. u # None /\ p \notin {u} \X Versions /\ t # None
        BY <1>4, <2>2, NamesAssumption
      <4> QED
        BY <1>8, <2>2, <3>3, <3>5, <4>1 DEF Start!Absent
    <3> QED
      BY <3>4, <3>5
  <2> QED
    BY <2>1, <2>2
<1>17. Start!ActiveIsWhole'
  BY <1>16 DEF Start!ActiveIsWhole
<1>18. \A u \in Tenants : table'[Start!OwnRow(u)].says \in {None} \cup ({u} \X Versions)
  BY <1>4, <1>14 DEF PackageInv, TableStands
<1> QED
  BY <1>6, <1>7, <1>10, <1>11, <1>12, <1>13, <1>15, <1>17, <1>18 DEF PackageInv, TableStands, Start!WrittenStays

\* A person's statement writes the row of a skill that no start holds, and the package's rows stay.
LEMMA SkillStands ==
  ASSUME PackageInv, boot' = boot, request' \in [Writers -> Requests],
         \A v \in Writers : request'[v].step # "none" => request'[v].row \in SkillRows,
         NEW row \in SkillRows, NEW x \in RowStates, table' = [table EXCEPT ![row] = x],
         \A b \in Boots : row \notin boot[b].holds,
         x.whose = None => x = Start!Absent,
         x.whose \in Writers => x.says \in Writers /\ x.tools \in Writers \cup {None},
         x = Start!Absent \/ (x.says = table[row].says /\ x.whose = table[row].whose) \/ x.says \in Writers
  PROVE  PackageInv'
<1>1. row \in Start!Rows /\ row.kind = "skill"
  BY RowKinds
<1>2. /\ table'[row] = x /\ (\A r \in Start!Rows : r # row => table'[r] = table[r])
      /\ table' \in [Start!Rows -> RowStates]
  BY <1>1 DEF PackageInv, TableStands
<1>3. /\ \A r \in Reserved : table'[r] = table[r]
      /\ \A t \in Tenants : table'[Start!OwnRow(t)] = table[Start!OwnRow(t)]
  BY <1>1, <1>2, RowKinds
<1>4. ASSUME NEW b \in Boots PROVE BootStands(b)'
  <2>1. \A r \in boot[b].holds : r \in Start!Rows /\ r # row
    BY DEF PackageInv, BootStands, BootRows
  <2> QED
    BY <1>2, <1>3, <2>1, BootKeeps DEF PackageInv
<1>5. HoldsApart'
  BY DEF PackageInv, HoldsApart
<1>6. ASSUME NEW t \in Tenants, NEW p, p = table[Start!OwnRow(t)].says, p # None,
             NEW j \in DOMAIN Ships[p], NEW r, r = Ships[p][j]
      PROVE  /\ r.kind = "agent" => table'[r].whose = t /\ table'[r].says = p
             /\ r.kind = "channel" => table'[r] # Start!Absent /\ (table'[r].whose = t => table'[r].says = p)
             /\ r.kind = "skill" /\ table'[r].whose = Start!Catalogue
                  /\ table'[r].says \in {t} \X Versions => table'[r].says = p
  <2>1. p \in {t} \X Versions /\ p \in Start!Packages
    BY <1>6 DEF PackageInv, TableStands, Start!Packages
  <2>2. r \in Start!Rows
    BY <1>6, <2>1, RowKinds
  <2>3. /\ r.kind = "agent" => table[r].whose = t /\ table[r].says = p
        /\ r.kind = "channel" => table[r] # Start!Absent /\ (table[r].whose = t => table[r].says = p)
        /\ r.kind = "skill" /\ table[r].whose = Start!Catalogue
             /\ table[r].says \in {t} \X Versions => table[r].says = p
    BY <1>6 DEF PackageInv, TableStands, Start!ActiveIsWhole
  <2>4. CASE r # row
    BY <1>2, <2>2, <2>3, <2>4
  <2>5. CASE r = row
    <3>1. x = Start!Absent => x.says = None
      BY DEF Start!Absent
    <3>2. None \notin {t} \X Versions /\ \A v \in Writers : v \notin {t} \X Versions
      BY NamesAssumption
    <3> QED
      BY <1>1, <1>2, <2>3, <2>5, <3>1, <3>2
  <2> QED
    BY <2>4, <2>5
<1>7. Start!ActiveIsWhole'
  BY <1>3, <1>6 DEF Start!ActiveIsWhole
<1>8. Start!WrittenStays'
  BY <1>2, RowKinds DEF PackageInv, TableStands, Start!WrittenStays
<1>9. \A r \in Start!Rows : table'[r].whose = None => table'[r] = Start!Absent
  BY <1>2 DEF PackageInv, TableStands
<1> QED
  BY <1>2, <1>3, <1>4, <1>5, <1>7, <1>8, <1>9 DEF PackageInv, TableStands

\* The starts of servers.
LEMMA StartsStand ==
  ASSUME PackageInv, NEW b \in Boots
  PROVE  /\ \A p \in Start!Packages : Start!Load(b, p) => PackageInv'
         /\ Start!CheckReserved(b) \/ Start!UpsertPackage(b) \/ Start!UpsertAgent(b) \/ Start!UpsertChannel(b)
            \/ Start!UpsertSkill(b) \/ Start!Commit(b) \/ Start!Dies(b) => PackageInv'
<1>1. ASSUME boot' = [boot EXCEPT ![b] = Start!Thrown], UNCHANGED <<table, request>> PROVE PackageInv'
  <2>1. boot'[b] = Start!Thrown
    BY <1>1 DEF PackageInv
  <2>2. BootStands(b)' /\ Start!Thrown.holds = {}
    BY <2>1, ThrownStands
  <2> QED
    BY <1>1, <2>2, OneBoots
<1>2. ASSUME NEW p \in Start!Packages, Start!Load(b, p) PROVE PackageInv'
  <2> DEFINE x == [Start!Off EXCEPT !.step = "check", !.pkg = p]
  <2>1. x \in BootRows /\ x.step = "check" /\ x.pkg = p /\ x.at = 0 /\ x.holds = {} /\ x.wrote = <<>>
    BY WroteSet DEF Start!Off, BootRows
  <2>2. CASE Start!Validate(p)
    <3>1. boot' = [boot EXCEPT ![b] = x] /\ UNCHANGED <<table, request>>
      BY <1>2, <2>2 DEF Start!Load
    <3> HIDE DEF x
    <3>2. boot'[b] = x
      BY <3>1 DEF PackageInv
    <3>3. BootStands(b)'
      BY <2>1, <2>2, <3>2 DEF BootStands, Start!Validate
    <3> QED
      BY <2>1, <3>1, <3>3, OneBoots
  <2>3. CASE ~Start!Validate(p)
    BY <1>1, <1>2, <2>3 DEF Start!Load
  <2> QED
    BY <2>2, <2>3
<1>3. ASSUME Start!CheckReserved(b) PROVE PackageInv'
  <2>1. PICK y : y = boot[b]
    OBVIOUS
  <2> DEFINE x == [y EXCEPT !.step = "write"]
  <2>2. /\ y \in BootRows /\ y.step = "check" /\ y.pkg \in Start!Packages /\ Start!Validate(y.pkg)
        /\ y.holds = {} /\ y.at = 0 /\ y.wrote = <<>> /\ UNCHANGED <<table, request>>
    BY <1>3, <2>1 DEF PackageInv, BootStands, Start!CheckReserved
  <2>3. /\ x \in BootRows /\ x.step = "write" /\ x.pkg = y.pkg /\ x.holds = {} /\ x.at = 0 /\ x.wrote = <<>>
    BY <2>2 DEF BootRows
  <2>4. CASE \E r \in Reserved : table[r] # Start!Absent
    BY <1>1, <1>3, <2>2, <2>4 DEF Start!CheckReserved
  <2>5. CASE ~ \E r \in Reserved : table[r] # Start!Absent
    <3>1. boot' = [boot EXCEPT ![b] = x]
      BY <1>3, <2>1, <2>5 DEF Start!CheckReserved
    <3> HIDE DEF x
    <3>2. boot'[b] = x
      BY <3>1 DEF PackageInv
    <3>3. WroteStands(b)'
      BY <2>3, <3>2 DEF WroteStands
    <3>4. DoneStands(b)'
      BY <2>2, <2>3, <3>2, RowKinds DEF DoneStands
    <3>5. BootStands(b)'
      BY <2>2, <2>3, <2>5, <3>2, <3>3, <3>4 DEF BootStands, Start!Validate
    <3> QED
      BY <2>2, <2>3, <3>1, <3>5, OneBoots
  <2> QED
    BY <2>4, <2>5
<1>4. boot[b].step = "write" => Start!Own(b) \in Tenants
  BY DEF PackageInv, BootStands, Start!Packages, Start!Own
<1>5. ASSUME Start!UpsertPackage(b) PROVE PackageInv'
  <2>1. Start!At(b, "package") /\ Start!Put(b, Start!Own(b)) /\ Start!Own(b) \in Tenants
    BY <1>4, <1>5 DEF Start!UpsertPackage, Start!At
  <2> QED
    BY <2>1, PutStands
<1>6. ASSUME Start!UpsertAgent(b) PROVE PackageInv'
  <2>1. Start!At(b, "agent") /\ Start!Own(b) \in Tenants /\ UNCHANGED <<table, request>>
    BY <1>4, <1>6 DEF Start!UpsertAgent, Start!At
  <2>2. CASE table[Start!Row(b)].whose \in {None, Start!Own(b)} /\ Start!Put(b, Start!Own(b))
    BY <2>1, <2>2, PutStands
  <2>3. CASE boot' = [boot EXCEPT ![b] = Start!Thrown]
    BY <1>1, <2>1, <2>3
  <2> QED
    BY <1>6, <2>2, <2>3 DEF Start!UpsertAgent
<1>7. ASSUME Start!UpsertChannel(b) PROVE PackageInv'
  <2>1. Start!At(b, "channel") /\ Start!Put(b, Start!Own(b)) /\ Start!Own(b) \in Tenants
    BY <1>4, <1>7 DEF Start!UpsertChannel, Start!At
  <2> QED
    BY <2>1, PutStands
<1>8. Start!Commit(b) => PackageInv'
  BY CommitStands
<1>9. Start!Dies(b) => PackageInv'
  BY <1>1 DEF Start!Dies
<1>10. ASSUME Start!UpsertSkill(b) PROVE PackageInv'
  <2>1. PICK y, row, p : y = boot[b] /\ row = Start!Row(b) /\ p = boot[b].pkg
    OBVIOUS
  <2>2. /\ y \in BootRows /\ y.step = "write" /\ p \in Start!Packages /\ Start!Validate(p) /\ y.pkg = p
        /\ \A r \in Reserved : table[r] = Start!Absent
        /\ WroteStands(b) /\ DoneStands(b) /\ y.at \in Nat
    BY <1>10, <2>1 DEF PackageInv, BootStands, BootRows, Start!UpsertSkill, Start!At
  <2>3. Start!At(b, "skill") /\ row.kind = "skill" /\ y.at <= Len(Ships[p])
    BY <1>10, <2>1 DEF Start!UpsertSkill, Start!At
  <2>4. y.at \in DOMAIN Ships[p] /\ row = Ships[p][y.at] /\ row \in Start!Rows
    <3>1. y.at # 0
      BY <2>1, <2>2, <2>3, RowKinds DEF Start!Row, Start!Own, Start!Packages
    <3>2. row = Ships[p][y.at]
      BY <2>1, <3>1 DEF Start!Row
    <3> QED
      BY <2>2, <2>3, <3>1, <3>2, RowKinds
  <2>5. CASE table[row].whose \in {None, Start!Catalogue} /\ Start!PutSkill(b)
    <3>1. (IF table[row] = Start!Absent THEN Start!Catalogue ELSE table[row].whose) = Start!Catalogue
      BY <2>4, <2>5 DEF PackageInv, TableStands
    <3>2. Start!Put(b, Start!Catalogue)
      BY <2>1, <2>5, <3>1 DEF Start!PutSkill
    <3> QED
      BY <2>3, <3>2, PutStands
  <2>6. CASE /\ table[row].whose \notin {None, Start!Catalogue}
             /\ boot' = [boot EXCEPT ![b].at = @ + 1, ![b].holds = @ \cup {row}]
    <3>1. PICK n, h : n = y.at + 1 /\ h = y.holds \cup {row}
      OBVIOUS
    <3> DEFINE x == [y EXCEPT !.at = n, !.holds = h]
    <3>2. boot' = [boot EXCEPT ![b] = x]
      BY <2>1, <2>6, <3>1
    <3>3. n \in Nat /\ h \in SUBSET Start!Rows
      BY <2>2, <2>4, <3>1 DEF BootRows
    <3>4. /\ x \in BootRows /\ x.step = "write" /\ x.pkg = p /\ x.at = n /\ x.holds = h /\ x.wrote = y.wrote
      BY <2>2, <3>3 DEF BootRows
    <3> HIDE DEF x
    <3>5. boot'[b] = x /\ table' = table /\ request' = request /\ ~Start!HeldByAnother(row, b)
      BY <2>1, <2>3, <3>2 DEF PackageInv, Start!At
    <3>6. WroteStands(b)'
      BY <2>1, <2>2, <3>1, <3>4, <3>5 DEF WroteStands, Start!Own
    <3>7. DoneStands(b)'
      <4>1. Start!OwnRow(Start!Own(b)') \in DOMAIN y.wrote
        <5>1. y.at > 0 /\ Start!Own(b)' = Start!Own(b)
          BY <2>1, <2>2, <2>4, <3>4, <3>5, RowKinds DEF Start!Own
        <5> QED
          BY <2>1, <2>2, <5>1 DEF DoneStands
      <4>2. ASSUME NEW j \in DOMAIN Ships[p], j < n
            PROVE  \/ Ships[p][j] \in DOMAIN y.wrote
                   \/ /\ Ships[p][j].kind = "skill" /\ Ships[p][j] \in h
                      /\ table[Ships[p][j]].whose \notin {None, Start!Catalogue}
        <5>1. j \in Nat
          BY <2>2, RowKinds
        <5>2. CASE j = y.at
          BY <2>3, <2>4, <2>6, <3>1, <5>2
        <5>3. CASE j < y.at
          BY <2>1, <2>2, <3>1, <5>3 DEF DoneStands
        <5> QED
          BY <2>2, <3>1, <4>2, <5>1, <5>2, <5>3
      <4> QED
        BY <3>4, <3>5, <4>1, <4>2 DEF DoneStands, Start!OwnRow
    <3>8. BootStands(b)'
      BY <2>2, <3>4, <3>5, <3>6, <3>7 DEF BootStands, Start!Validate
    <3>9. \A o \in Boots \ {b} : x.holds \cap boot[o].holds = {}
      BY <2>1, <3>1, <3>4, <3>5 DEF PackageInv, HoldsApart, Start!HeldByAnother
    <3> QED
      BY <3>2, <3>5, <3>8, <3>9, OneBoots
  <2> QED
    BY <1>10, <2>1, <2>5, <2>6 DEF Start!UpsertSkill
<1> QED
  BY <1>2, <1>3, <1>5, <1>6, <1>7, <1>8, <1>9, <1>10

\* Every step of a start and of a person's request keeps it.
LEMMA PackageInvStays == PackageInv /\ [Start!Next]_packageVars => PackageInv'
<1> SUFFICES ASSUME PackageInv, [Start!Next]_packageVars PROVE PackageInv'
  OBVIOUS
<1>1. ASSUME NEW w \in Writers
      PROVE  /\ request[w] \in Requests
             /\ request[w].step # "none" => request[w].row \in SkillRows /\ table[request[w].row] \in RowStates
                                            /\ (table[request[w].row].whose = None
                                                  => table[request[w].row] = Start!Absent)
             /\ ~Start!HeldByAnother(request[w].row, None)
                  => \A b \in Boots : request[w].row \notin boot[b].holds
  BY RowKinds, NamesAssumption DEF PackageInv, TableStands, Start!HeldByAnother
<1>2. ASSUME NEW w \in Writers, NEW step \in {"save", "delete"}, NEW row \in SkillRows, Start!Ask(w, step, row)
      PROVE  PackageInv'
  <2> DEFINE x == [step |-> step, row |-> row]
  <2>1. x \in Requests /\ x.row \in SkillRows
    BY DEF Requests
  <2>2. request' = [request EXCEPT ![w] = x] /\ UNCHANGED <<table, boot>>
    BY <1>2 DEF Start!Ask
  <2> HIDE DEF x
  <2>3. request' \in [Writers -> Requests] /\ \A v \in Writers : request'[v].step # "none" => request'[v].row \in SkillRows
    BY <2>1, <2>2 DEF PackageInv
  <2>4. \A b \in Boots : BootStands(b)'
    BY <2>2, BootKeeps DEF PackageInv
  <2>5. HoldsApart' /\ TableStands'
    BY <2>2 DEF PackageInv, HoldsApart, TableStands, Start!ActiveIsWhole, Start!WrittenStays
  <2> QED
    BY <2>2, <2>3, <2>4, <2>5 DEF PackageInv
<1>3. /\ Start!Asked \in Requests /\ Start!Asked.step = "none"
      /\ Start!Absent \in RowStates /\ Start!Absent.whose = None
  BY DEF Start!Asked, Requests, Start!Absent, RowStates
\* A request that writes x in its row and goes on as q.
<1>4. ASSUME NEW w \in Writers, NEW row, row = request[w].row, request[w].step # "none",
             ~Start!HeldByAnother(row, None), boot' = boot,
             NEW q \in Requests, request' = [request EXCEPT ![w] = q], q.step # "none" => q.row = row,
             NEW x \in RowStates, table' = [table EXCEPT ![row] = x],
             x.whose = None => x = Start!Absent,
             x.whose \in Writers => x.says \in Writers /\ x.tools \in Writers \cup {None},
             x = Start!Absent \/ (x.says = table[row].says /\ x.whose = table[row].whose) \/ x.says \in Writers
      PROVE  PackageInv'
  <2>1. request' \in [Writers -> Requests] /\ \A v \in Writers : request'[v].step # "none" => request'[v].row \in SkillRows
    BY <1>1, <1>4 DEF PackageInv
  <2> QED
    BY <1>1, <1>4, <2>1, SkillStands
<1>5. ASSUME NEW w \in Writers, Start!Save(w) PROVE PackageInv'
  <2> DEFINE was == request[w]
             row == was.row
             old == table[row]
             x == [old EXCEPT !.whose = IF @ = None THEN w ELSE @, !.says = w]
             o == IF old.whose = None THEN w ELSE old.whose
             q == [was EXCEPT !.step = "declare"]
  <2>5. table' = [table EXCEPT ![row] = x] /\ request' = [request EXCEPT ![w] = q] /\ boot' = boot
    <3>1. table' = [table EXCEPT ![row].whose = IF @ = None THEN w ELSE @, ![row].says = w]
      BY <1>5 DEF Start!Save
    <3>2. request' = [request EXCEPT ![w] = q] /\ boot' = boot
      BY <1>5 DEF Start!Save
    <3> QED
      BY <3>1, <3>2
  <2>1. row = request[w].row /\ old = table[row] /\ was = request[w]
    OBVIOUS
  <2> HIDE DEF was, row, old
  <2>2. /\ was.step = "save" /\ row \in SkillRows /\ old \in RowStates /\ was \in Requests /\ was.row = row
        /\ old.whose = None => old = Start!Absent
    BY <1>1, <1>5, <2>1 DEF Start!Save
  <2>3. o \in {None, Start!Catalogue} \cup Tenants \cup Writers /\ o # None
    BY <2>2, NamesAssumption DEF RowStates
  <2>4. x = [old EXCEPT !.whose = o, !.says = w]
    BY <2>2 DEF RowStates
  <2>6. q \in Requests /\ q.row = row
    BY <2>2 DEF Requests
  <2>7. o \in Writers => old.tools \in Writers \cup {None}
    BY <2>1, <2>2, RowKinds DEF PackageInv, TableStands, Start!WrittenStays, Start!Absent
  <2> HIDE DEF x, o, q
  <2>8. x \in RowStates /\ x.whose = o /\ x.says = w /\ x.tools = old.tools
    BY <2>2, <2>3, <2>4 DEF RowStates
  <2>9. ~Start!HeldByAnother(row, None)
    BY <1>5, <2>1 DEF Start!Save
  <2>10. /\ x.whose # None /\ x.says \in Writers
         /\ x.whose \in Writers => x.tools \in Writers \cup {None}
    BY <2>3, <2>7, <2>8
  <2> QED
    BY <1>4, <2>1, <2>2, <2>5, <2>6, <2>8, <2>9, <2>10
<1>6. ASSUME NEW w \in Writers, Start!Declare(w) PROVE PackageInv'
  <2>1. PICK row, old : row = request[w].row /\ old = table[row]
    OBVIOUS
  <2> DEFINE z == IF old = Start!Absent THEN old.tools ELSE w
             x == [old EXCEPT !.tools = z]
  <2>2. /\ request[w].step = "declare" /\ row \in SkillRows /\ old \in RowStates
        /\ old.whose = None => old = Start!Absent
    BY <1>1, <1>6, <2>1 DEF Start!Declare
  <2>3. /\ table' = [table EXCEPT ![row] = x] /\ request' = [request EXCEPT ![w] = Start!Asked] /\ boot' = boot
        /\ ~Start!HeldByAnother(row, None)
    BY <1>6, <2>1 DEF Start!Declare
  <2>4. z \in {None} \cup Writers \cup Start!Packages
    BY <2>2 DEF RowStates
  <2>5. old = Start!Absent => z = None
    BY DEF Start!Absent
  <2>6. z = old.tools \/ z = w
    OBVIOUS
  <2>7. old.whose \in Writers => old.says \in Writers /\ old.tools \in Writers \cup {None}
    BY <2>1, <2>2, RowKinds DEF PackageInv, TableStands, Start!WrittenStays
  <2> HIDE DEF z
  <2>8. x \in RowStates /\ x.whose = old.whose /\ x.says = old.says /\ x.tools = z
    BY <2>2, <2>4 DEF RowStates
  <2>9. old = Start!Absent => x = Start!Absent
    BY <2>5 DEF Start!Absent
  <2> HIDE DEF x
  <2> QED
    BY <1>3, <1>4, <2>1, <2>2, <2>3, <2>6, <2>7, <2>8, <2>9
<1>7. ASSUME NEW w \in Writers, Start!Uninstall(w) PROVE PackageInv'
  BY <1>3, <1>4, <1>7, NamesAssumption DEF Start!Uninstall
<1>8. CASE UNCHANGED packageVars
  <2>1. UNCHANGED <<table, boot, request>>
    BY <1>8 DEF packageVars
  <2>2. \A b \in Boots : BootStands(b)'
    BY <2>1, BootKeeps DEF PackageInv
  <2>3. HoldsApart' /\ TableStands'
    BY <2>1 DEF PackageInv, HoldsApart, TableStands, Start!ActiveIsWhole, Start!WrittenStays
  <2> QED
    BY <2>1, <2>2, <2>3 DEF PackageInv
<1> QED
  BY <1>2, <1>5, <1>6, <1>7, <1>8, StartsStand DEF Start!Next

\* The package is kept.  All that the package a server reports ships is there as it says, however the
\* starts of servers with different packages overlap and wherever one dies: the package's own row is the first
\* a start takes and the last it gives back, so two starts of one tenant take turns, and another
\* tenant's start writes over no Bot and no words of this one's.  A skill somebody wrote says what
\* people wrote.  And no server serves beside a Bot with the name of a route: the check before the
\* transaction is enough, since no package that is accepted and no person writes such a row.
THEOREM PackageKeptAlways == Spec => []PackageKept
<1>1. Init => PackageInv
  <2> SUFFICES ASSUME Init PROVE PackageInv
    OBVIOUS
  <2>1. /\ boot = [b \in Boots |-> Start!Off] /\ request = [w \in Writers |-> Start!Asked]
        /\ \E old \in SUBSET Reserved, t \in Tenants :
             table = [r \in Start!Rows |-> IF r \in old THEN [Start!Absent EXCEPT !.whose = t] ELSE Start!Absent]
    BY DEF Init, Start!Init
  <2>2. PICK old \in SUBSET Reserved, t \in Tenants :
          table = [r \in Start!Rows |-> IF r \in old THEN [Start!Absent EXCEPT !.whose = t] ELSE Start!Absent]
    BY <2>1
  <2> DEFINE x == [Start!Absent EXCEPT !.whose = t]
  <2>3. x \in RowStates /\ x.whose = t /\ x.says = None /\ x.whose # None
    BY NamesAssumption DEF Start!Absent, RowStates
  <2>4. Start!Absent \in RowStates /\ Start!Absent.says = None /\ Start!Absent.whose = None
    BY DEF Start!Absent, RowStates
  <2> HIDE DEF x
  <2>5. /\ table \in [Start!Rows -> RowStates]
        /\ \A r \in Start!Rows : table[r].says = None /\ (table[r].whose = None => table[r] = Start!Absent)
        /\ \A r \in SkillRows : table[r].whose = None
    BY <2>2, <2>3, <2>4, RowKinds DEF x
  <2>6. TableStands
    BY <2>5, RowKinds, NamesAssumption DEF TableStands, Start!ActiveIsWhole, Start!WrittenStays
  <2>7. Start!Off \in BootRows /\ Start!Off.step = "off" /\ Start!Off.holds = {}
    BY WroteSet DEF Start!Off, BootRows
  <2>8. (\A b \in Boots : BootStands(b)) /\ HoldsApart /\ DOMAIN boot = Boots
    BY <2>1, <2>7 DEF BootStands, HoldsApart
  <2>9. /\ request \in [Writers -> Requests] /\ \A w \in Writers : request[w].step = "none"
    BY <2>1 DEF Start!Asked, Requests
  <2> QED
    BY <2>6, <2>8, <2>9 DEF PackageInv
<1>2. PackageInv /\ [Next]_vars => PackageInv'
  BY PackageInvStays, ShelfSteps
<1>3. PackageInv => PackageKept
  BY DEF PackageInv, BootStands, TableStands, PackageKept, Start!NoReservedBot
<1> QED
  BY <1>1, <1>2, <1>3, PTL DEF Spec

-----------------------------------------------------------------------------
(***************************************************************************)
(* The roster of Bots.                                                     *)
(***************************************************************************)

BotRows == [state : {"unborn", "live", "deleted"}, public : BOOLEAN, system : BOOLEAN, key : Nat, token : Nat]
Mutations == {"update", "delete", "issue", "revoke"}
\* Where a request holds the profile row of its Bot.
Judged == {"judge", "store", "retire", "commit"}
TxRows == [op : {"none", "run", "channel"} \cup Mutations, by : People \cup {None}, of : Seq(BotIds),
           auth : BOOLEAN, at : Nat, key : Nat, prev : Nat,
           pc : {"idle", "agents", "profiles", "load", "header", "share", "link"} \cup Judged]

ProfileLock(t, b, mode) == [tx |-> t, row |-> <<"profiles", b>>, mode |-> mode]
LocksApart == \A l, m \in locks : l.row = m.row /\ l.tx # m.tx => l.mode # "update" /\ m.mode # "update"

\* A request that has stored a key, and one that has retired the key of its Bot's row.
Fresh(t) == tx[t].pc \in {"retire", "commit"} /\ tx[t].op = "update" /\ tx[t].auth
Retired(t) == tx[t].pc = "commit" /\ (tx[t].op = "delete" \/ (tx[t].op = "update" /\ tx[t].auth))

\* A mutation under way is of one Bot, whose profile row it holds from the moment it is judged: the
\* Bot is live and its key the one that was read.
MutationStands(t) ==
    /\ tx[t].pc \in {"agents", "profiles"} \cup Judged => tx[t].op \in Mutations
    /\ tx[t].pc \in Judged => ProfileLock(t, tx[t].of[1], "update") \in locks
    /\ tx[t].pc = "store" => tx[t].op = "update" /\ tx[t].auth
    /\ tx[t].pc = "retire" => tx[t].op = "delete" \/ (tx[t].op = "update" /\ tx[t].auth)
    /\ tx[t].pc \in {"store", "retire", "commit"} =>
         bot[tx[t].of[1]].state = "live" /\ tx[t].prev = bot[tx[t].of[1]].key
    /\ tx[t].pc \in {"retire", "commit"} /\ ~Fresh(t) => tx[t].key = tx[t].prev
    /\ Fresh(t) => /\ tx[t].key \in DOMAIN vault /\ vault[tx[t].key] = "live"
                   /\ \A b \in BotIds : bot[b].key # tx[t].key
    /\ Retired(t) /\ tx[t].of[1] \notin failed /\ tx[t].prev # 0 => vault[tx[t].prev] = "revoked"

\* The key a run was loaded with is its Bot's, or works no longer.
RunStands(t) == tx[t].pc = "header" /\ tx[t].of[1] \notin failed /\ tx[t].key # 0 =>
    tx[t].key \in DOMAIN vault /\ (vault[tx[t].key] = "revoked" \/ tx[t].key = bot[tx[t].of[1]].key)

\* A channel in the making shares the profile rows of the Bots it has read, which are live.
ChannelStands(t) == tx[t].pc \in {"share", "link"} =>
    /\ tx[t].at \in DOMAIN tx[t].of
    /\ \A i \in DOMAIN tx[t].of : tx[t].pc = "link" \/ i < tx[t].at =>
         ProfileLock(t, tx[t].of[i], "share") \in locks /\ bot[tx[t].of[i]].state = "live"

TxStands(t) ==
    /\ tx[t] \in TxRows
    /\ tx[t].pc \in {"agents", "profiles", "load", "header"} \cup Judged => \E b \in BotIds : tx[t].of = <<b>>
    /\ MutationStands(t) /\ RunStands(t) /\ ChannelStands(t)

\* The key of a Bot that no failure touched works, unless a request that is about to commit retired
\* it; the key of a Bot that is gone does not.
KeyStands(b) ==
    /\ bot[b] \in BotRows /\ bot[b].key <= Len(vault)
    /\ bot[b].state = "unborn" => bot[b].key = 0
    /\ b \in gone => bot[b].state = "deleted"
    /\ b \in gone /\ b \notin failed /\ bot[b].key # 0 => vault[bot[b].key] = "revoked"
    /\ b \notin failed /\ bot[b].state = "live" /\ bot[b].key # 0 =>
         vault[bot[b].key] = "live" \/ \E t \in Txs : Retired(t) /\ tx[t].of = <<b>>

KeysApart ==
    /\ \A b, c \in BotIds : b # c /\ bot[b].key = bot[c].key => bot[b].key = 0
    /\ \A t, u \in Txs : t # u /\ Fresh(t) /\ Fresh(u) => tx[t].key # tx[u].key

BotsInv ==
    /\ vault \in Seq({"live", "revoked"}) /\ token \in Nat /\ DOMAIN bot = BotIds /\ DOMAIN tx = Txs
    /\ links \in Seq(SUBSET BotIds)
    /\ \A t \in Txs : TxStands(t)
    /\ \A b \in BotIds : KeyStands(b)
    /\ KeysApart /\ LocksApart /\ Crew!DeletedIsSilent

\* The vault only grows.
Extends(old, new) == Len(old) <= Len(new) /\ \A k \in DOMAIN old : new[k] = old[k]

\* A key that is stored comes after the others.
LEMMA VaultGrows ==
  ASSUME vault \in Seq({"live", "revoked"})
  PROVE  /\ DOMAIN vault = 1 .. Len(vault) /\ Len(vault) \in Nat
         /\ Extends(vault, vault)
         /\ Append(vault, "live") \in Seq({"live", "revoked"})
         /\ Len(Append(vault, "live")) = Len(vault) + 1
         /\ Append(vault, "live")[Len(vault) + 1] = "live"
         /\ Extends(vault, Append(vault, "live"))
  BY DEF Extends

\* A request that is not under way stands for nothing.
LEMMA IdleStands ==
  /\ Crew!Idle \in TxRows /\ Crew!Idle.pc = "idle"
  /\ \A t \in Txs : tx'[t] = Crew!Idle => TxStands(t)' /\ ~Fresh(t)' /\ ~Retired(t)'
<1>1. Crew!Idle \in TxRows /\ Crew!Idle.pc = "idle"
  BY DEF Crew!Idle, TxRows
<1>2. ASSUME NEW t \in Txs, tx'[t] = Crew!Idle PROVE TxStands(t)' /\ ~Fresh(t)' /\ ~Retired(t)'
  <2>1. tx'[t] \in TxRows /\ tx'[t].pc = "idle"
    BY <1>1, <1>2
  <2> QED
    BY <2>1 DEF TxStands, MutationStands, RunStands, ChannelStands, Fresh, Retired, Judged
<1> QED
  BY <1>1, <1>2

\* A request goes on, the rows of the Bots as they are: the others stand as they stood.
LEMMA OneGoesOn ==
  ASSUME BotsInv, NEW t \in Txs, NEW x, tx' = [tx EXCEPT ![t] = x],
         UNCHANGED <<bot, gone, token>>, failed \subseteq failed',
         vault' \in Seq({"live", "revoked"}), Extends(vault, vault'),
         \A l \in locks : l.tx # t => l \in locks',
         LocksApart', TxStands(t)', Crew!DeletedIsSilent', links' \in Seq(SUBSET BotIds),
         Fresh(t)' => x.key = Len(vault) + 1 \/ (Fresh(t) /\ x.key = tx[t].key),
         Retired(t) => (Retired(t)' /\ x.of = tx[t].of) \/ tx[t].of[1] \in failed'
  PROVE  BotsInv'
<1>1. tx'[t] = x /\ (\A u \in Txs : u # t => tx'[u] = tx[u]) /\ DOMAIN tx' = Txs
  BY DEF BotsInv
<1>2. /\ DOMAIN vault = 1 .. Len(vault) /\ Len(vault) \in Nat /\ Len(vault) <= Len(vault')
      /\ \A k \in DOMAIN vault : k \in DOMAIN vault' /\ vault'[k] = vault[k]
      /\ Len(vault') \in Nat /\ DOMAIN vault' = 1 .. Len(vault')
  BY VaultGrows DEF BotsInv, Extends
<1>3. ASSUME NEW b \in BotIds
      PROVE  bot[b].key \in Nat /\ bot[b].key <= Len(vault) /\ (bot[b].key # 0 => bot[b].key \in DOMAIN vault)
  BY <1>2 DEF BotsInv, KeyStands, BotRows
<1>4. ASSUME NEW u \in Txs, u # t PROVE TxStands(u)'
  <2>1. TxStands(u) /\ tx'[u] = tx[u] /\ UNCHANGED <<bot, gone>>
    BY <1>1, <1>4 DEF BotsInv
  <2>2. \A b, mode : ProfileLock(u, b, mode) \in locks => ProfileLock(u, b, mode) \in locks'
    BY <1>4 DEF ProfileLock
  <2>3. Retired(u) /\ tx[u].prev # 0 => tx[u].prev \in DOMAIN vault
    <3>1. Retired(u) => \E b \in BotIds : tx[u].of[1] = b
      BY <2>1 DEF TxStands, Retired, Judged
    <3> QED
      BY <1>3, <2>1, <3>1 DEF TxStands, MutationStands, Retired
  <2>4. MutationStands(u)'
    BY <1>2, <2>1, <2>2, <2>3 DEF TxStands, MutationStands, Fresh, Retired
  <2>5. RunStands(u)'
    BY <1>2, <2>1 DEF TxStands, RunStands
  <2>6. ChannelStands(u)'
    BY <2>1, <2>2 DEF TxStands, ChannelStands
  <2> QED
    BY <2>1, <2>4, <2>5, <2>6 DEF TxStands
<1>5. ASSUME NEW b \in BotIds PROVE KeyStands(b)'
  <2>1. KeyStands(b) /\ UNCHANGED <<bot, gone>>
    BY DEF BotsInv
  <2>2. ASSUME NEW u \in Txs, Retired(u), tx[u].of = <<b>>, b \notin failed'
        PROVE  \E v \in Txs : Retired(v)' /\ tx'[v].of = <<b>>
    <3>1. CASE u = t
      <4>1. tx[u].of[1] = b
        BY <2>2
      <4>2. Retired(t)' /\ x.of = tx[t].of
        BY <2>2, <3>1, <4>1
      <4> QED
        BY <1>1, <2>2, <3>1, <4>2
    <3>2. CASE u # t
      BY <1>1, <2>2, <3>2 DEF Retired
    <3> QED
      BY <3>1, <3>2
  <2> QED
    BY <1>2, <1>3, <2>1, <2>2 DEF KeyStands
<1>6. KeysApart'
  <2>1. ASSUME NEW u \in Txs, NEW v \in Txs, u # v, Fresh(u)', Fresh(v)' PROVE tx'[u].key # tx'[v].key
    <3>1. \A w \in Txs : w # t /\ Fresh(w)' => Fresh(w) /\ tx'[w] = tx[w]
      BY <1>1 DEF Fresh
    <3>2. \A w \in Txs : Fresh(w) => tx[w].key <= Len(vault)
      BY <1>2 DEF BotsInv, TxStands, MutationStands
    <3>3. ASSUME NEW w \in Txs, w # t, Fresh(w)', Fresh(t)' PROVE tx'[w].key # tx'[t].key
      BY <1>1, <1>2, <3>1, <3>2, <3>3 DEF BotsInv, KeysApart
    <3> QED
      BY <2>1, <3>1, <3>3 DEF BotsInv, KeysApart
  <2> QED
    BY <2>1 DEF BotsInv, KeysApart
<1> QED
  BY <1>1, <1>4, <1>5, <1>6 DEF BotsInv

\* A request that is over, or was refused, holds nothing.
LEMMA OneEnds ==
  ASSUME BotsInv, NEW t \in Txs, Crew!End(t), UNCHANGED <<bot, vault, gone, token>>, failed \subseteq failed',
         links' \in Seq(SUBSET BotIds), Crew!DeletedIsSilent',
         Retired(t) => tx[t].of[1] \in failed'
  PROVE  BotsInv'
<1>1. tx' = [tx EXCEPT ![t] = Crew!Idle] /\ locks' = {l \in locks : l.tx # t}
  BY DEF Crew!End, Crew!Release
<1>2. TxStands(t)' /\ ~Fresh(t)' /\ LocksApart'
  BY <1>1, IdleStands DEF BotsInv, LocksApart
<1>3. vault' \in Seq({"live", "revoked"}) /\ Extends(vault, vault')
  BY VaultGrows DEF BotsInv
<1> QED
  BY <1>1, <1>2, <1>3, OneGoesOn

\* A request that is refused or rolled back before it retired a key.
LEMMA AbortStands == ASSUME BotsInv, NEW t \in Txs, Crew!Abort(t), ~Retired(t) PROVE BotsInv'
<1>1. UNCHANGED <<bot, vault, gone, token, failed, links, sent>> /\ Crew!End(t)
  BY DEF Crew!Abort, Crew!RolledBack
<1>2. Crew!DeletedIsSilent' /\ links' \in Seq(SUBSET BotIds)
  BY <1>1 DEF BotsInv, Crew!DeletedIsSilent
<1> QED
  BY <1>1, <1>2, OneEnds

\* A lock that is taken goes with the others.
LEMMA TakeStands ==
  ASSUME BotsInv, NEW t \in Txs, NEW row, NEW mode, Crew!Take(t, row, mode)
  PROVE  LocksApart' /\ (\A l \in locks : l \in locks') /\ [tx |-> t, row |-> row, mode |-> mode] \in locks'
<1> DEFINE y == [tx |-> t, row |-> row, mode |-> mode]
<1>1. locks' = locks \cup {y} /\ Crew!Grantable(t, row, mode)
  BY DEF Crew!Take
<1>2. y.tx = t /\ y.row = row /\ y.mode = mode
  OBVIOUS
<1> HIDE DEF y
<1>3. \A l \in locks : l.row = y.row /\ l.tx # y.tx => l.mode # "update" /\ y.mode # "update"
  BY <1>1, <1>2 DEF Crew!Grantable
<1> QED
  BY <1>1, <1>3 DEF BotsInv, LocksApart, y

\* A request that only goes on: nothing is stored, retired or committed.
LEMMA OneMoves ==
  ASSUME BotsInv, NEW t \in Txs, NEW x, tx' = [tx EXCEPT ![t] = x],
         UNCHANGED <<bot, vault, gone, token, failed, links, sent>>,
         \A l \in locks : l \in locks', LocksApart', TxStands(t)', ~Fresh(t)', ~Retired(t)
  PROVE  BotsInv'
<1>1. Crew!DeletedIsSilent' /\ links' \in Seq(SUBSET BotIds)
  BY DEF BotsInv, Crew!DeletedIsSilent
<1>2. vault' \in Seq({"live", "revoked"}) /\ Extends(vault, vault')
  BY VaultGrows DEF BotsInv
<1> QED
  BY <1>1, <1>2, OneGoesOn

\* A request comes in.
LEMMA SendStands == ASSUME BotsInv, NEW t \in Txs, Crew!Send(t) PROVE BotsInv'
<1>1. /\ tx[t].pc = "idle" /\ UNCHANGED <<bot, vault, gone, token, failed, links, sent, locks>>
      /\ LocksApart' /\ ~Retired(t)
  BY DEF Crew!Send, BotsInv, LocksApart, Retired
<1>2. ASSUME NEW p \in People, NEW op \in Mutations, NEW b \in BotIds, NEW auth \in BOOLEAN,
             tx' = [tx EXCEPT ![t] = [Crew!Idle EXCEPT !.op = op, !.by = p, !.of = <<b>>,
                                                       !.auth = auth, !.pc = "agents"]]
      PROVE  BotsInv'
  <2> DEFINE x == [Crew!Idle EXCEPT !.op = op, !.by = p, !.of = <<b>>, !.auth = auth, !.pc = "agents"]
  <2>0. <<b>> \in Seq(BotIds) /\ op \in {"none", "run", "channel"} \cup Mutations /\ p \in People \cup {None}
    OBVIOUS
  <2>1. x \in TxRows /\ x.pc = "agents" /\ x.op = op /\ x.of = <<b>>
    BY <2>0 DEF Crew!Idle, TxRows
  <2>2. tx' = [tx EXCEPT ![t] = x]
    BY <1>2
  <2> HIDE DEF x
  <2>3. tx'[t] = x
    BY <2>2 DEF BotsInv
  <2>4. TxStands(t)' /\ ~Fresh(t)'
    BY <2>1, <2>3 DEF TxStands, MutationStands, RunStands, ChannelStands, Fresh, Retired, Judged
  <2> QED
    BY <1>1, <2>2, <2>4, OneMoves
<1>3. ASSUME NEW p \in People, NEW b \in BotIds,
             tx' = [tx EXCEPT ![t] = [Crew!Idle EXCEPT !.op = "run", !.by = p, !.of = <<b>>, !.pc = "load"]]
      PROVE  BotsInv'
  <2> DEFINE x == [Crew!Idle EXCEPT !.op = "run", !.by = p, !.of = <<b>>, !.pc = "load"]
  <2>0. <<b>> \in Seq(BotIds)
    OBVIOUS
  <2>1. x \in TxRows /\ x.pc = "load" /\ x.of = <<b>>
    BY <2>0 DEF Crew!Idle, TxRows
  <2>2. tx' = [tx EXCEPT ![t] = x]
    BY <1>3
  <2> HIDE DEF x
  <2>3. tx'[t] = x
    BY <2>2 DEF BotsInv
  <2>4. TxStands(t)' /\ ~Fresh(t)'
    BY <2>1, <2>3 DEF TxStands, MutationStands, RunStands, ChannelStands, Fresh, Retired, Judged
  <2> QED
    BY <1>1, <2>2, <2>4, OneMoves
<1>4. ASSUME NEW p \in People, NEW ids \in {<<b>> : b \in BotIds} \cup (BotIds \X BotIds),
             tx' = [tx EXCEPT ![t] = [Crew!Idle EXCEPT !.op = "channel", !.by = p, !.of = ids,
                                                       !.pc = "share", !.at = 1]]
      PROVE  BotsInv'
  <2> DEFINE x == [Crew!Idle EXCEPT !.op = "channel", !.by = p, !.of = ids, !.pc = "share", !.at = 1]
  <2>0. ids \in Seq(BotIds) /\ 1 \in DOMAIN ids /\ \A i \in DOMAIN ids : ~(i < 1)
    <3>1. ASSUME NEW b \in BotIds, ids = <<b>>
          PROVE  ids \in Seq(BotIds) /\ 1 \in DOMAIN ids /\ \A i \in DOMAIN ids : ~(i < 1)
      BY <3>1
    <3>2. ASSUME NEW b \in BotIds, NEW c \in BotIds, ids = <<b, c>>
          PROVE  ids \in Seq(BotIds) /\ 1 \in DOMAIN ids /\ \A i \in DOMAIN ids : ~(i < 1)
      BY <3>2
    <3>3. (\E b \in BotIds : ids = <<b>>) \/ \E b, c \in BotIds : ids = <<b, c>>
      OBVIOUS
    <3> QED
      BY <3>1, <3>2, <3>3
  <2>1. x \in TxRows /\ x.pc = "share" /\ x.of = ids /\ x.at = 1
    BY <2>0 DEF Crew!Idle, TxRows
  <2>2. tx' = [tx EXCEPT ![t] = x]
    BY <1>4
  <2> HIDE DEF x
  <2>3. tx'[t] = x
    BY <2>2 DEF BotsInv
  <2>4. TxStands(t)' /\ ~Fresh(t)'
    BY <2>0, <2>1, <2>3 DEF TxStands, MutationStands, RunStands, ChannelStands, Fresh, Retired, Judged
  <2> QED
    BY <1>1, <2>2, <2>4, OneMoves
<1>5. PICK p \in People :
        \/ \E op \in {"update", "delete", "issue", "revoke"}, b \in BotIds, auth \in BOOLEAN :
            /\ auth => op = "update"
            /\ tx' = [tx EXCEPT ![t] = [Crew!Idle EXCEPT !.op = op, !.by = p, !.of = <<b>>,
                                                         !.auth = auth, !.pc = "agents"]]
        \/ \E b \in BotIds :
            tx' = [tx EXCEPT ![t] = [Crew!Idle EXCEPT !.op = "run", !.by = p, !.of = <<b>>, !.pc = "load"]]
        \/ \E ids \in {s \in {<<b>> : b \in BotIds} \cup (BotIds \X BotIds) :
                        \A i, j \in DOMAIN s : i # j => s[i] # s[j]} :
            tx' = [tx EXCEPT ![t] = [Crew!Idle EXCEPT !.op = "channel", !.by = p, !.of = ids,
                                                      !.pc = "share", !.at = 1]]
  BY Zenon DEF Crew!Send
<1>6. CASE \E op \in {"update", "delete", "issue", "revoke"}, b \in BotIds, auth \in BOOLEAN :
            /\ auth => op = "update"
            /\ tx' = [tx EXCEPT ![t] = [Crew!Idle EXCEPT !.op = op, !.by = p, !.of = <<b>>,
                                                         !.auth = auth, !.pc = "agents"]]
  <2>1. PICK op \in {"update", "delete", "issue", "revoke"}, b \in BotIds, auth \in BOOLEAN :
            tx' = [tx EXCEPT ![t] = [Crew!Idle EXCEPT !.op = op, !.by = p, !.of = <<b>>,
                                                      !.auth = auth, !.pc = "agents"]]
    BY <1>6
  <2> QED
    BY <1>2, <2>1 DEF Mutations
<1>7. CASE \E b \in BotIds :
            tx' = [tx EXCEPT ![t] = [Crew!Idle EXCEPT !.op = "run", !.by = p, !.of = <<b>>, !.pc = "load"]]
  BY <1>3, <1>7
<1>8. CASE \E ids \in {s \in {<<b>> : b \in BotIds} \cup (BotIds \X BotIds) :
                        \A i, j \in DOMAIN s : i # j => s[i] # s[j]} :
            tx' = [tx EXCEPT ![t] = [Crew!Idle EXCEPT !.op = "channel", !.by = p, !.of = ids,
                                                      !.pc = "share", !.at = 1]]
  <2>1. PICK ids \in {<<b>> : b \in BotIds} \cup (BotIds \X BotIds) :
            tx' = [tx EXCEPT ![t] = [Crew!Idle EXCEPT !.op = "channel", !.by = p, !.of = ids,
                                                      !.pc = "share", !.at = 1]]
    BY <1>8
  <2> QED
    BY <1>4, <2>1
<1> QED
  BY <1>5, <1>6, <1>7, <1>8

\* The rows of an edit are locked, one after the other.
LEMMA LockStands == ASSUME BotsInv, NEW t \in Txs, Crew!LockMutationRows(t) PROVE BotsInv'
<1>1. PICK y : y = tx[t]
  OBVIOUS
<1>2. TxStands(t) /\ y \in TxRows /\ UNCHANGED <<bot, vault, gone, token, failed, links, sent>>
  BY <1>1 DEF BotsInv, TxStands, Crew!LockMutationRows
<1>3. CASE /\ y.pc = "agents" /\ Crew!Take(t, <<"agents", y.of[1]>>, "update") /\ Crew!Goto(t, "profiles")
  <2> DEFINE x == [y EXCEPT !.pc = "profiles"]
  <2>1. /\ x \in TxRows /\ x.pc = "profiles" /\ x.of = y.of /\ x.op = y.op
    BY <1>2 DEF TxRows
  <2>2. tx' = [tx EXCEPT ![t] = x]
    BY <1>1, <1>3 DEF Crew!Goto
  <2> HIDE DEF x
  <2>3. tx'[t] = x
    BY <2>2 DEF BotsInv
  <2>4. TxStands(t)' /\ ~Fresh(t)' /\ ~Retired(t)
    BY <1>1, <1>2, <1>3, <2>1, <2>3 DEF TxStands, MutationStands, RunStands, ChannelStands, Fresh, Retired, Judged
  <2> QED
    BY <1>2, <1>3, <2>2, <2>4, OneMoves, TakeStands
<1>4. CASE /\ y.pc = "profiles" /\ Crew!Take(t, <<"profiles", y.of[1]>>, "update") /\ Crew!Goto(t, "judge")
  <2> DEFINE x == [y EXCEPT !.pc = "judge"]
  <2>1. /\ x \in TxRows /\ x.pc = "judge" /\ x.of = y.of /\ x.op = y.op
    BY <1>2 DEF TxRows, Judged
  <2>2. tx' = [tx EXCEPT ![t] = x]
    BY <1>1, <1>4 DEF Crew!Goto
  <2> HIDE DEF x
  <2>3. tx'[t] = x
    BY <2>2 DEF BotsInv
  <2>4. ProfileLock(t, y.of[1], "update") \in locks'
    BY <1>4, TakeStands DEF ProfileLock
  <2>5. TxStands(t)' /\ ~Fresh(t)' /\ ~Retired(t)
    BY <1>1, <1>2, <1>4, <2>1, <2>3, <2>4 DEF TxStands, MutationStands, RunStands, ChannelStands, Fresh, Retired, Judged
  <2> QED
    BY <1>2, <1>4, <2>2, <2>5, OneMoves, TakeStands
<1> QED
  BY <1>1, <1>3, <1>4 DEF Crew!LockMutationRows

\* Under the locks the Bot is live, and its key the one that is kept for later.
LEMMA JudgeStands == ASSUME BotsInv, NEW t \in Txs, Crew!Judge(t) PROVE BotsInv'
<1>1. PICK y, b : y = tx[t] /\ b = tx[t].of[1]
  OBVIOUS
<1>2. /\ TxStands(t) /\ y \in TxRows /\ y.pc = "judge" /\ ~Retired(t) /\ y.op \in Mutations
      /\ b \in BotIds /\ y.of = <<b>> /\ ProfileLock(t, b, "update") \in locks
  BY <1>1 DEF BotsInv, TxStands, MutationStands, Crew!Judge, Judged, Retired
<1>3. CASE Crew!Abort(t)
  BY <1>2, <1>3, AbortStands
<1>4. ASSUME Crew!Accessible(y.by, b), ~Crew!Abort(t) PROVE BotsInv'
  <2>1. PICK next : next = (CASE y.op = "update" /\ y.auth -> "store"
                              [] y.op = "delete" -> "retire"
                              [] OTHER -> "commit")
    OBVIOUS
  <2>2. /\ next \in Judged /\ next # "judge"
        /\ next = "store" => y.op = "update" /\ y.auth
        /\ next = "retire" => y.op = "delete"
        /\ next = "commit" => y.op # "delete" /\ ~(y.op = "update" /\ y.auth)
    BY <2>1 DEF Judged
  <2>3. PICK k : k = bot[b].key
    OBVIOUS
  <2> DEFINE x == [y EXCEPT !.pc = next, !.prev = k, !.key = k]
  <2>4. tx' = [tx EXCEPT ![t] = x] /\ UNCHANGED <<bot, vault, links, locks, token, sent, gone, failed>>
    BY <1>1, <1>4, <2>1, <2>3 DEF Crew!Judge
  <2>5. k \in Nat /\ bot[b].state = "live"
    BY <1>2, <1>4, <2>3 DEF BotsInv, KeyStands, BotRows, Crew!Accessible
  <2>6. x \in TxRows /\ x.pc = next /\ x.of = y.of /\ x.op = y.op /\ x.auth = y.auth /\ x.prev = k /\ x.key = k
    BY <1>2, <2>2, <2>5 DEF TxRows
  <2> HIDE DEF x
  <2>7. tx'[t] = x
    BY <2>4 DEF BotsInv
  <2>8. TxStands(t)' /\ ~Fresh(t)'
    <3>1. ~Fresh(t)' /\ ~Retired(t)'
      BY <2>2, <2>6, <2>7 DEF Fresh, Retired
    <3>2. MutationStands(t)'
      BY <1>1, <1>2, <2>2, <2>3, <2>4, <2>5, <2>6, <2>7, <3>1 DEF MutationStands
    <3>3. RunStands(t)' /\ ChannelStands(t)'
      BY <2>2, <2>6, <2>7 DEF RunStands, ChannelStands, Judged
    <3> QED
      BY <1>2, <2>6, <2>7, <3>1, <3>2, <3>3 DEF TxStands
  <2>9. LocksApart' /\ \A l \in locks : l \in locks'
    BY <2>4 DEF BotsInv, LocksApart
  <2> QED
    BY <1>2, <2>4, <2>8, <2>9, OneMoves
<1> QED
  BY <1>1, <1>3, <1>4 DEF Crew!Judge

\* The new key works, and is no Bot's yet.
LEMMA StoreStands == ASSUME BotsInv, NEW t \in Txs, Crew!StoreAgentAuth(t) PROVE BotsInv'
<1>1. PICK y, b : y = tx[t] /\ b = tx[t].of[1]
  OBVIOUS
<1>2. /\ TxStands(t) /\ y \in TxRows /\ y.pc = "store" /\ ~Retired(t) /\ y.op = "update" /\ y.auth
      /\ b \in BotIds /\ y.of = <<b>> /\ ProfileLock(t, b, "update") \in locks
      /\ bot[b].state = "live" /\ y.prev = bot[b].key
  BY <1>1 DEF BotsInv, TxStands, MutationStands, Crew!StoreAgentAuth, Judged, Retired
<1>3. PICK n : n = Len(vault) + 1
  OBVIOUS
<1> DEFINE x == [y EXCEPT !.pc = "retire", !.key = n]
<1>4. /\ vault' = Append(vault, "live") /\ UNCHANGED <<bot, links, locks, token, sent, gone, failed>>
      /\ vault' \in Seq({"live", "revoked"}) /\ Extends(vault, vault') /\ Len(vault') = n /\ n \in Nat
      /\ n \in DOMAIN vault' /\ vault'[n] = "live"
  BY <1>3, VaultGrows DEF BotsInv, Crew!StoreAgentAuth
<1>5. tx' = [tx EXCEPT ![t] = x]
  BY <1>1, <1>4 DEF Crew!StoreAgentAuth
<1>6. x \in TxRows /\ x.pc = "retire" /\ x.of = y.of /\ x.op = y.op /\ x.auth = y.auth /\ x.prev = y.prev /\ x.key = n
  BY <1>2, <1>4 DEF TxRows, Judged
<1> HIDE DEF x
<1>7. tx'[t] = x
  BY <1>5 DEF BotsInv
<1>8. \A c \in BotIds : bot[c].key # n
  BY <1>3 DEF BotsInv, KeyStands, BotRows
<1>9. TxStands(t)'
  <2>1. ~Retired(t)'
    BY <1>6, <1>7 DEF Retired
  <2>2. MutationStands(t)'
    BY <1>1, <1>2, <1>4, <1>6, <1>7, <1>8, <2>1 DEF MutationStands, Fresh, Judged, Mutations
  <2>3. RunStands(t)' /\ ChannelStands(t)'
    BY <1>6, <1>7 DEF RunStands, ChannelStands
  <2> QED
    BY <1>2, <1>6, <1>7, <2>2, <2>3 DEF TxStands
<1>10. LocksApart' /\ Crew!DeletedIsSilent' /\ links' \in Seq(SUBSET BotIds)
  BY <1>4 DEF BotsInv, LocksApart, Crew!DeletedIsSilent
<1> QED
  BY <1>2, <1>3, <1>4, <1>5, <1>6, <1>9, <1>10, OneGoesOn

\* The old key is revoked: it was the key of this Bot's row and of no other, and no request stored it.
LEMMA RetireStands == ASSUME BotsInv, NEW t \in Txs, Crew!RetireReplacedKey(t) PROVE BotsInv'
<1>1. PICK y, b, k : y = tx[t] /\ b = tx[t].of[1] /\ k = tx[t].prev
  OBVIOUS
<1>2. /\ TxStands(t) /\ y \in TxRows /\ y.pc = "retire" /\ ~Retired(t)
      /\ y.op = "delete" \/ (y.op = "update" /\ y.auth)
      /\ b \in BotIds /\ y.of = <<b>> /\ ProfileLock(t, b, "update") \in locks
      /\ bot[b].state = "live" /\ k = bot[b].key /\ y.prev = k
  BY <1>1 DEF BotsInv, TxStands, MutationStands, Crew!RetireReplacedKey, Judged, Retired
<1> DEFINE x == [y EXCEPT !.pc = "commit"]
<1>3. tx' = [tx EXCEPT ![t] = x] /\ UNCHANGED <<bot, links, locks, token, sent, gone>>
  BY <1>1 DEF Crew!RetireReplacedKey, Crew!Goto
<1>4. /\ x \in TxRows /\ x.pc = "commit" /\ x.of = y.of /\ x.op = y.op /\ x.auth = y.auth /\ x.prev = y.prev
      /\ x.key = y.key
  BY <1>2 DEF TxRows, Judged
<1> HIDE DEF x
<1>5. tx'[t] = x /\ (\A u \in Txs : u # t => tx'[u] = tx[u]) /\ DOMAIN tx' = Txs
  BY <1>3 DEF BotsInv
<1>6. Retired(t)' /\ (Fresh(t)' <=> Fresh(t))
  BY <1>1, <1>2, <1>4, <1>5 DEF Retired, Fresh
<1>7. LocksApart' /\ links' \in Seq(SUBSET BotIds)
  BY <1>3 DEF BotsInv, LocksApart
<1>8. /\ DOMAIN vault = 1 .. Len(vault) /\ Len(vault) \in Nat /\ vault \in Seq({"live", "revoked"})
      /\ Extends(vault, vault)
  BY VaultGrows DEF BotsInv
<1>9. ASSUME NEW c \in BotIds
      PROVE  bot[c].key \in Nat /\ bot[c].key <= Len(vault) /\ (bot[c].key # 0 => bot[c].key \in DOMAIN vault)
             /\ KeyStands(c)
  <2>1. KeyStands(c)
    BY DEF BotsInv
  <2> QED
    BY <1>8, <2>1 DEF KeyStands, BotRows
<1>10. ASSUME Fresh(t) => y.key \in DOMAIN vault' /\ vault'[y.key] = "live",
              b \notin failed' /\ k # 0 => vault'[k] = "revoked"
       PROVE  MutationStands(t)'
  <2>1. /\ x.op \in Mutations /\ ProfileLock(t, x.of[1], "update") \in locks'
        /\ bot'[x.of[1]].state = "live" /\ x.prev = bot'[x.of[1]].key
    BY <1>1, <1>2, <1>3, <1>4 DEF Mutations
  <2>2. ~Fresh(t) => x.key = x.prev
    BY <1>1, <1>2, <1>4 DEF TxStands, MutationStands
  <2>3. Fresh(t)' => x.key \in DOMAIN vault' /\ vault'[x.key] = "live" /\ \A c \in BotIds : bot'[c].key # x.key
    BY <1>1, <1>2, <1>3, <1>4, <1>6, <1>10 DEF TxStands, MutationStands
  <2>4. x.of[1] \notin failed' /\ x.prev # 0 => vault'[x.prev] = "revoked"
    BY <1>1, <1>2, <1>4, <1>10
  <2> QED
    BY <1>4, <1>5, <1>6, <2>1, <2>2, <2>3, <2>4 DEF MutationStands
<1>11. RunStands(t)' /\ ChannelStands(t)'
  BY <1>4, <1>5 DEF RunStands, ChannelStands
<1>12. ASSUME k # 0, failed' = failed \cup {b}, vault' = vault PROVE BotsInv'
  <2>1. TxStands(t)'
    BY <1>1, <1>2, <1>4, <1>5, <1>10, <1>11, <1>12 DEF TxStands, MutationStands
  <2>2. Crew!DeletedIsSilent'
    BY <1>3, <1>12 DEF BotsInv, Crew!DeletedIsSilent
  <2> QED
    BY <1>1, <1>2, <1>3, <1>4, <1>6, <1>7, <1>8, <1>12, <2>1, <2>2, OneGoesOn
<1>13. ASSUME failed' = failed, vault' = [i \in DOMAIN vault |-> IF i = k THEN "revoked" ELSE vault[i]]
       PROVE  BotsInv'
  <2>1. /\ DOMAIN vault' = DOMAIN vault /\ vault' \in Seq({"live", "revoked"}) /\ Len(vault') = Len(vault)
        /\ k # 0 => k \in DOMAIN vault /\ vault'[k] = "revoked"
        /\ \A i \in DOMAIN vault : i # k => vault'[i] = vault[i]
        /\ \A i \in DOMAIN vault : vault[i] = "revoked" => vault'[i] = "revoked"
    <3>1. \A i \in DOMAIN vault : vault[i] \in {"live", "revoked"}
      BY <1>8
    <3>2. vault' \in [1 .. Len(vault) -> {"live", "revoked"}]
      BY <1>8, <1>13, <3>1
    <3>3. vault' \in Seq({"live", "revoked"}) /\ Len(vault') = Len(vault)
      BY <1>8, <3>2
    <3> QED
      BY <1>2, <1>9, <1>13, <3>3
  <2>2. ASSUME NEW u \in Txs, Fresh(u) PROVE tx[u].key \in DOMAIN vault' /\ vault'[tx[u].key] = "live"
    BY <1>2, <2>1, <2>2 DEF BotsInv, TxStands, MutationStands
  <2>3. TxStands(t)'
    BY <1>1, <1>2, <1>4, <1>5, <1>10, <1>11, <2>1, <2>2 DEF TxStands, MutationStands
  <2>4. ASSUME NEW u \in Txs, u # t PROVE TxStands(u)'
    <3>1. TxStands(u) /\ tx'[u] = tx[u] /\ UNCHANGED <<bot, locks, failed>>
      BY <1>3, <1>5, <1>13, <2>4 DEF BotsInv
    <3>2. Retired(u) /\ tx[u].prev # 0 => tx[u].prev \in DOMAIN vault
      <4>1. Retired(u) => \E c \in BotIds : tx[u].of[1] = c
        BY <3>1 DEF TxStands, Retired, Judged
      <4> QED
        BY <1>9, <3>1, <4>1 DEF TxStands, MutationStands, Retired
    <3>3. MutationStands(u)'
      BY <2>1, <2>2, <3>1, <3>2 DEF TxStands, MutationStands, Fresh, Retired
    <3>4. RunStands(u)' /\ ChannelStands(u)'
      BY <2>1, <3>1 DEF TxStands, RunStands, ChannelStands
    <3> QED
      BY <3>1, <3>3, <3>4 DEF TxStands
  <2>5. ASSUME NEW c \in BotIds PROVE KeyStands(c)'
    <3>1. CASE c = b
      BY <1>2, <1>3, <1>4, <1>5, <1>6, <1>9, <1>13, <2>1, <3>1 DEF KeyStands
    <3>2. ASSUME c # b PROVE KeyStands(c)'
      <4>1. bot[c].key # 0 => bot[c].key # k
        BY <1>2, <3>2 DEF BotsInv, KeysApart
      <4>2. ASSUME NEW u \in Txs, Retired(u), tx[u].of = <<c>>
            PROVE  \E v \in Txs : Retired(v)' /\ tx'[v].of = <<c>>
        BY <1>2, <1>5, <4>2 DEF Retired
      <4> QED
        BY <1>3, <1>9, <1>13, <2>1, <4>1, <4>2 DEF KeyStands
    <3> QED
      BY <3>1, <3>2
  <2>6. KeysApart'
    <3>1. \A u \in Txs : Fresh(u)' => Fresh(u) /\ tx'[u].key = tx[u].key
      BY <1>1, <1>4, <1>5, <1>6 DEF Fresh
    <3> QED
      BY <1>3, <3>1 DEF BotsInv, KeysApart
  <2>7. Crew!DeletedIsSilent' /\ token' \in Nat /\ DOMAIN bot' = BotIds
    BY <1>3, <1>13 DEF BotsInv, Crew!DeletedIsSilent
  <2> QED
    BY <1>5, <1>7, <2>1, <2>3, <2>4, <2>5, <2>6, <2>7 DEF BotsInv
<1>14. \/ k # 0 /\ failed' = failed \cup {b} /\ vault' = vault
       \/ failed' = failed /\ vault' = [i \in DOMAIN vault |-> IF i = k THEN "revoked" ELSE vault[i]]
  BY <1>1 DEF Crew!RetireReplacedKey
<1> QED
  BY <1>12, <1>13, <1>14

\* A mutation that commits: nobody else is about to change this Bot, and no channel counts on it.
LEMMA CommitBotStands == ASSUME BotsInv, NEW t \in Txs, Crew!CommitMutation(t) PROVE BotsInv'
<1>1. PICK y, b, old : y = tx[t] /\ b = tx[t].of[1] /\ old = bot[b]
  OBVIOUS
<1>2. /\ TxStands(t) /\ y \in TxRows /\ y.pc = "commit" /\ y.op \in Mutations
      /\ b \in BotIds /\ y.of = <<b>> /\ ProfileLock(t, b, "update") \in locks
      /\ old.state = "live" /\ y.prev = old.key
      /\ ~Fresh(t) => y.key = old.key
      /\ Fresh(t) => /\ y.key \in DOMAIN vault /\ vault[y.key] = "live" /\ \A c \in BotIds : bot[c].key # y.key
      /\ Retired(t) /\ b \notin failed /\ old.key # 0 => vault[old.key] = "revoked"
  BY <1>1 DEF BotsInv, TxStands, MutationStands, Crew!CommitMutation, Judged
<1>3. KeyStands(b) /\ old \in BotRows /\ old.key <= Len(vault) /\ b \notin gone
  BY <1>1, <1>2 DEF BotsInv, KeyStands
<1>4. /\ tx' = [tx EXCEPT ![t] = Crew!Idle] /\ locks' = {l \in locks : l.tx # t}
      /\ UNCHANGED <<vault, links, sent, failed>>
  BY DEF Crew!CommitMutation, Crew!End, Crew!Release
<1>5. /\ DOMAIN vault = 1 .. Len(vault) /\ Len(vault) \in Nat
  BY VaultGrows DEF BotsInv
\* What the row becomes.
<1>6. PICK z : /\ z \in BotRows /\ bot' = [bot EXCEPT ![b] = z] /\ token' \in Nat
               /\ \/ z.state = "live" /\ gone' = gone /\ z.key = y.key /\ (Retired(t) => Fresh(t))
                  \/ z.state = "deleted" /\ gone' = gone \cup {b} /\ z.key = old.key /\ Retired(t)
  <2>1. CASE y.op = "update"
    <3>1. PICK public \in BOOLEAN : bot' = [bot EXCEPT ![b].key = y.key, ![b].public = public]
      BY <1>1, <2>1 DEF Crew!CommitMutation
    <3> DEFINE z == [old EXCEPT !.key = y.key, !.public = public]
    <3>2. y.key \in Nat
      BY <1>2 DEF TxRows
    <3>3. z \in BotRows /\ z.state = old.state /\ z.key = y.key
      BY <1>3, <3>2 DEF BotRows
    <3>4. bot' = [bot EXCEPT ![b] = z]
      BY <1>1, <3>1
    <3>5. token' \in Nat /\ gone' = gone /\ (Retired(t) => Fresh(t))
      BY <1>1, <1>2, <2>1 DEF Crew!CommitMutation, BotsInv, Retired, Fresh
    <3> HIDE DEF z
    <3> QED
      BY <1>2, <3>3, <3>4, <3>5
  <2>2. CASE y.op = "delete"
    <3> DEFINE z == [old EXCEPT !.state = "deleted"]
    <3>1. z \in BotRows /\ z.state = "deleted" /\ z.key = old.key
      BY <1>3 DEF BotRows
    <3>2. bot' = [bot EXCEPT ![b] = z] /\ gone' = gone \cup {b} /\ token' \in Nat
      BY <1>1, <2>2 DEF Crew!CommitMutation, BotsInv
    <3>3. Retired(t)
      BY <1>1, <1>2, <2>2 DEF Retired
    <3> HIDE DEF z
    <3> QED
      BY <3>1, <3>2, <3>3
  <2>3. CASE y.op \in {"issue", "revoke"}
    <3>1. PICK n \in Nat : bot' = [bot EXCEPT ![b].token = n] /\ token' \in Nat
      <4>1. CASE y.op = "issue"
        <5>1. token' = token + 1 /\ bot' = [bot EXCEPT ![b].token = token']
          BY <1>1, <4>1 DEF Crew!CommitMutation
        <5>2. token' \in Nat
          BY <5>1 DEF BotsInv
        <5> QED
          BY <5>1, <5>2
      <4>2. CASE y.op = "revoke"
        <5>1. token' = token /\ bot' = [bot EXCEPT ![b].token = 0]
          BY <1>1, <4>2 DEF Crew!CommitMutation
        <5> QED
          BY <5>1 DEF BotsInv
      <4> QED
        BY <2>3, <4>1, <4>2
    <3> DEFINE z == [old EXCEPT !.token = n]
    <3>2. z \in BotRows /\ z.state = old.state /\ z.key = old.key
      BY <1>3 DEF BotRows
    <3>3. bot' = [bot EXCEPT ![b] = z] /\ gone' = gone /\ ~Retired(t) /\ ~Fresh(t)
      BY <1>1, <2>3, <3>1 DEF Crew!CommitMutation, Retired, Fresh
    <3> HIDE DEF z
    <3> QED
      BY <1>2, <3>1, <3>2, <3>3
  <2> QED
    BY <1>2, <2>1, <2>2, <2>3 DEF Mutations
<1>7. /\ bot'[b] = z /\ (\A c \in BotIds : c # b => bot'[c] = bot[c]) /\ DOMAIN bot' = BotIds
      /\ tx'[t] = Crew!Idle /\ (\A u \in Txs : u # t => tx'[u] = tx[u]) /\ DOMAIN tx' = Txs
  <2>1. DOMAIN bot = BotIds /\ DOMAIN tx = Txs
    BY DEF BotsInv
  <2>2. bot'[b] = z /\ (\A c \in BotIds : c # b => bot'[c] = bot[c]) /\ DOMAIN bot' = BotIds
    BY <1>2, <1>6, <2>1
  <2> QED
    BY <1>4, <2>1, <2>2
<1>8. \A c \in BotIds : bot[c].key \in Nat /\ bot[c].key <= Len(vault)
  BY DEF BotsInv, KeyStands, BotRows
<1>9. z.key \in Nat /\ z.key <= Len(vault) /\ (z.key = old.key \/ (Fresh(t) /\ z.key = y.key))
  BY <1>2, <1>3, <1>5, <1>6 DEF BotRows
\* Nobody else holds a lock of this Bot's profile.
<1>10. ASSUME NEW u, NEW mode, ProfileLock(u, b, mode) \in locks, u # t PROVE FALSE
  <2>1. PICK l, m : l = ProfileLock(u, b, mode) /\ m = ProfileLock(t, b, "update")
    OBVIOUS
  <2>2. l.row = m.row /\ l.tx = u /\ m.tx = t /\ m.mode = "update" /\ l \in locks /\ m \in locks
    BY <1>2, <1>10, <2>1 DEF ProfileLock
  <2> QED
    BY <1>10, <2>2 DEF BotsInv, LocksApart
<1>11. ASSUME NEW u \in Txs, u # t PROVE TxStands(u)'
  <2>1. TxStands(u) /\ tx'[u] = tx[u] /\ tx[u] \in TxRows
    BY <1>7, <1>11 DEF BotsInv, TxStands
  <2>2. \A c, mode : ProfileLock(u, c, mode) \in locks => ProfileLock(u, c, mode) \in locks'
    BY <1>4, <1>11 DEF ProfileLock
  <2>3. tx[u].pc \in Judged => tx[u].of[1] # b /\ tx[u].of[1] \in BotIds
    BY <1>10, <1>11, <2>1 DEF TxStands, MutationStands
  <2>4. Fresh(u) => tx[u].key # z.key
    BY <1>1, <1>2, <1>9, <1>11, <2>1 DEF BotsInv, KeysApart, TxStands, MutationStands
  <2>5. MutationStands(u)'
    BY <1>4, <1>7, <2>1, <2>2, <2>3, <2>4 DEF TxStands, MutationStands, Fresh, Retired, Judged
  <2>6. RunStands(u)'
    <3>1. CASE tx[u].of[1] = b /\ tx[u].pc = "header"
      <4>1. RunStands(u) /\ bot'[b] = z /\ bot[b] = old
        BY <1>1, <1>7, <2>1 DEF TxStands
      <4>2. Fresh(t) => Retired(t)
        BY <1>1, <1>2 DEF Fresh, Retired
      <4> QED
        BY <1>2, <1>4, <1>9, <2>1, <3>1, <4>1, <4>2 DEF RunStands
    <3>2. CASE tx[u].of[1] # b /\ tx[u].pc = "header"
      <4>1. tx[u].of[1] \in BotIds
        BY <2>1, <3>2 DEF TxStands
      <4> QED
        BY <1>4, <1>7, <2>1, <3>2, <4>1 DEF TxStands, RunStands
    <3> QED
      BY <2>1, <3>1, <3>2 DEF RunStands
  <2>7. ChannelStands(u)'
    <3>1. \A i \in DOMAIN tx[u].of : tx[u].of[i] \in BotIds
      BY <2>1 DEF TxRows
    <3>2. ASSUME NEW i \in DOMAIN tx[u].of, ProfileLock(u, tx[u].of[i], "share") \in locks
          PROVE  bot'[tx[u].of[i]] = bot[tx[u].of[i]]
      BY <1>7, <1>10, <1>11, <3>1, <3>2
    <3> QED
      BY <1>7, <2>1, <2>2, <3>2 DEF TxStands, ChannelStands
  <2> QED
    BY <2>1, <2>5, <2>6, <2>7 DEF TxStands
<1>12. ASSUME NEW v \in Txs, Retired(v), v # t PROVE tx[v].of # <<b>>
  <2>1. ProfileLock(v, tx[v].of[1], "update") \in locks
    BY <1>12 DEF BotsInv, TxStands, MutationStands, Retired, Judged
  <2> QED
    BY <1>10, <1>12, <2>1
<1>13. ASSUME NEW c \in BotIds PROVE KeyStands(c)'
  <2>1. CASE c = b
    <3>1. CASE z.state = "live" /\ gone' = gone /\ z.key = y.key /\ (Retired(t) => Fresh(t))
      <4>1. b \notin failed /\ z.key # 0 => vault[z.key] = "live"
        BY <1>1, <1>2, <1>3, <1>12, <3>1 DEF KeyStands
      <4> QED
        BY <1>3, <1>4, <1>6, <1>7, <1>9, <2>1, <3>1, <4>1 DEF KeyStands
    <3>2. CASE z.state = "deleted" /\ gone' = gone \cup {b} /\ z.key = old.key /\ Retired(t)
      BY <1>2, <1>4, <1>6, <1>7, <1>9, <2>1, <3>2 DEF KeyStands
    <3> QED
      BY <1>6, <3>1, <3>2
  <2>2. ASSUME c # b PROVE KeyStands(c)'
    <3>1. KeyStands(c) /\ bot'[c] = bot[c] /\ (c \in gone' <=> c \in gone)
      BY <1>6, <1>7, <2>2 DEF BotsInv
    <3>2. ASSUME NEW v \in Txs, Retired(v), tx[v].of = <<c>>
          PROVE  \E w \in Txs : Retired(w)' /\ tx'[w].of = <<c>>
      <4>1. v # t
        BY <1>1, <1>2, <2>2, <3>2
      <4> QED
        BY <1>7, <3>2, <4>1 DEF Retired
    <3> QED
      BY <1>4, <3>1, <3>2 DEF KeyStands
  <2> QED
    BY <2>1, <2>2
<1>14. KeysApart'
  <2>1. ASSUME NEW c \in BotIds, c # b, bot[c].key = z.key PROVE z.key = 0
    BY <1>1, <1>2, <1>9, <2>1 DEF BotsInv, KeysApart
  <2>2. \A c, d \in BotIds : c # d /\ bot'[c].key = bot'[d].key => bot'[c].key = 0
    BY <1>7, <2>1 DEF BotsInv, KeysApart
  <2>3. ~Fresh(t)'
    BY <1>7, IdleStands
  <2>4. \A u, v \in Txs : u # v /\ Fresh(u)' /\ Fresh(v)' => tx'[u].key # tx'[v].key
    BY <1>7, <2>3 DEF BotsInv, KeysApart, Fresh
  <2> QED
    BY <2>2, <2>4 DEF KeysApart
<1>15. TxStands(t)' /\ LocksApart' /\ Crew!DeletedIsSilent' /\ vault' \in Seq({"live", "revoked"})
       /\ links' \in Seq(SUBSET BotIds)
  BY <1>4, <1>7, IdleStands DEF BotsInv, LocksApart, Crew!DeletedIsSilent
<1> QED
  BY <1>6, <1>7, <1>11, <1>13, <1>14, <1>15 DEF BotsInv

\* A channel shares the rows of its Bots, links them, and commits while it still shares them.
LEMMA ChannelMoves ==
  ASSUME BotsInv, NEW t \in Txs, Crew!GetWithin(t) \/ Crew!LinkChannel(t)
  PROVE  BotsInv' /\ \A i \in DOMAIN links' \ DOMAIN links : \A b \in links'[i] : bot[b].state = "live"
<1>1. PICK y, n, ids : y = tx[t] /\ n = tx[t].at /\ ids = tx[t].of
  OBVIOUS
<1>2. /\ TxStands(t) /\ y \in TxRows /\ y.pc \in {"share", "link"} /\ ~Retired(t) /\ ~Fresh(t)
      /\ y.of = ids /\ y.at = n /\ ids \in Seq(BotIds) /\ n \in Nat /\ n \in DOMAIN ids
      /\ DOMAIN ids = 1 .. Len(ids) /\ Len(ids) \in Nat
      /\ \A i \in DOMAIN ids : y.pc = "link" \/ i < n =>
           ProfileLock(t, ids[i], "share") \in locks /\ bot[ids[i]].state = "live"
  BY <1>1 DEF BotsInv, TxStands, ChannelStands, Crew!GetWithin, Crew!LinkChannel, Retired, Fresh, TxRows
<1>3. UNCHANGED <<bot, vault, token, sent, gone, failed>>
  BY DEF Crew!GetWithin, Crew!LinkChannel, Crew!Abort, Crew!RolledBack
\* The channel reads one Bot more, or goes on to its links.
<1>4. ASSUME NEW pc \in {"share", "link"}, NEW i \in DOMAIN ids,
             tx' = [tx EXCEPT ![t] = [y EXCEPT !.pc = pc, !.at = i]], links' = links, LocksApart',
             \A l \in locks : l \in locks',
             \A j \in DOMAIN ids : pc = "link" \/ j < i =>
               ProfileLock(t, ids[j], "share") \in locks' /\ bot[ids[j]].state = "live"
      PROVE  BotsInv'
  <2> DEFINE x == [y EXCEPT !.pc = pc, !.at = i]
  <2>1. i \in Nat
    BY <1>2
  <2>2. x \in TxRows /\ x.pc = pc /\ x.at = i /\ x.of = ids
    BY <1>2, <2>1 DEF TxRows
  <2>3. tx' = [tx EXCEPT ![t] = x]
    BY <1>4
  <2> HIDE DEF x
  <2>4. tx'[t] = x
    BY <2>3 DEF BotsInv
  <2>5. TxStands(t)' /\ ~Fresh(t)'
    BY <1>3, <1>4, <2>2, <2>4 DEF TxStands, MutationStands, RunStands, ChannelStands, Fresh, Retired, Judged
  <2> QED
    BY <1>2, <1>3, <1>4, <2>3, <2>5, OneMoves
<1>5. CASE Crew!Abort(t)
  <2>1. links' = links
    BY <1>5 DEF Crew!Abort, Crew!RolledBack
  <2> QED
    BY <1>2, <1>5, <2>1, AbortStands
<1>6. ASSUME Crew!GetWithin(t), ~Crew!Abort(t)
      PROVE  BotsInv' /\ \A i \in DOMAIN links' \ DOMAIN links : \A b \in links'[i] : bot[b].state = "live"
  <2>1. /\ y.pc = "share" /\ Crew!Accessible(y.by, ids[n]) /\ Crew!Take(t, <<"profiles", ids[n]>>, "share")
        /\ links' = links
        /\ tx' = IF n = Len(ids) THEN [tx EXCEPT ![t].pc = "link", ![t].at = 1] ELSE [tx EXCEPT ![t].at = n + 1]
    BY <1>1, <1>6 DEF Crew!GetWithin
  <2>2. /\ LocksApart' /\ (\A l \in locks : l \in locks') /\ ProfileLock(t, ids[n], "share") \in locks'
    BY <2>1, TakeStands DEF ProfileLock
  <2>3. bot[ids[n]].state = "live"
    BY <2>1 DEF Crew!Accessible
  <2>4. \A j \in DOMAIN ids : j < n + 1 =>
          ProfileLock(t, ids[j], "share") \in locks' /\ bot[ids[j]].state = "live"
    <3> SUFFICES ASSUME NEW j \in DOMAIN ids, j < n + 1
                 PROVE  ProfileLock(t, ids[j], "share") \in locks' /\ bot[ids[j]].state = "live"
      OBVIOUS
    <3>1. j = n \/ j < n
      BY <1>2
    <3> QED
      BY <1>2, <2>2, <2>3, <3>1
  <2>5. CASE n = Len(ids)
    <3>1. 1 \in DOMAIN ids /\ \A j \in DOMAIN ids : j < n + 1
      BY <1>2, <2>5
    <3>2. tx' = [tx EXCEPT ![t] = [y EXCEPT !.pc = "link", !.at = 1]]
      BY <1>1, <2>1, <2>5
    <3> QED
      BY <1>4, <2>1, <2>2, <2>4, <3>1, <3>2
  <2>6. CASE n # Len(ids)
    <3>1. n + 1 \in DOMAIN ids
      BY <1>2, <2>6
    <3>2. tx' = [tx EXCEPT ![t] = [y EXCEPT !.pc = "share", !.at = n + 1]]
      <4>1. [y EXCEPT !.pc = "share", !.at = n + 1] = [y EXCEPT !.at = n + 1]
        BY <1>2, <2>1 DEF TxRows
      <4> QED
        BY <1>1, <2>1, <2>6, <4>1
    <3> QED
      BY <1>4, <2>1, <2>2, <2>4, <3>1, <3>2
  <2> QED
    BY <2>1, <2>5, <2>6
<1>7. ASSUME Crew!LinkChannel(t)
      PROVE  BotsInv' /\ \A i \in DOMAIN links' \ DOMAIN links : \A b \in links'[i] : bot[b].state = "live"
  <2>1. y.pc = "link" /\ \A j \in DOMAIN ids :
          ProfileLock(t, ids[j], "share") \in locks /\ bot[ids[j]].state = "live"
    BY <1>1, <1>2, <1>7 DEF Crew!LinkChannel
  <2>2. CASE n < Len(ids)
    <3>1. /\ Crew!Take(t, <<"agents", ids[n]>>, "share") /\ tx' = [tx EXCEPT ![t].at = n + 1] /\ links' = links
      BY <1>1, <1>7, <2>2 DEF Crew!LinkChannel
    <3>2. LocksApart' /\ (\A l \in locks : l \in locks')
      BY <3>1, TakeStands
    <3>3. n + 1 \in DOMAIN ids
      BY <1>2, <2>2
    <3>4. tx' = [tx EXCEPT ![t] = [y EXCEPT !.pc = "link", !.at = n + 1]]
      <4>1. [y EXCEPT !.pc = "link", !.at = n + 1] = [y EXCEPT !.at = n + 1]
        BY <1>2, <2>1 DEF TxRows
      <4> QED
        BY <1>1, <3>1, <4>1
    <3> QED
      BY <1>4, <2>1, <3>1, <3>2, <3>3, <3>4
  <2>3. CASE ~(n < Len(ids))
    <3> DEFINE all == {ids[i] : i \in DOMAIN ids}
    <3>1. links' = Append(links, all) /\ Crew!End(t)
      BY <1>1, <1>7, <2>3 DEF Crew!LinkChannel
    <3>2. all \in SUBSET BotIds /\ \A b \in all : bot[b].state = "live"
      BY <1>2, <2>1
    <3> HIDE DEF all
    <3>3. links' \in Seq(SUBSET BotIds) /\ \A i \in DOMAIN links' \ DOMAIN links : links'[i] = all
      BY <3>1, <3>2 DEF BotsInv
    <3>4. Crew!DeletedIsSilent'
      BY <1>3 DEF BotsInv, Crew!DeletedIsSilent
    <3>5. BotsInv'
      BY <1>2, <1>3, <3>1, <3>3, <3>4, OneEnds
    <3> QED
      BY <3>2, <3>3, <3>5
  <2> QED
    BY <2>2, <2>3
<1> QED
  BY <1>5, <1>6, <1>7

\* A commit that fails leaves its Bot among those a failure touched.
LEMMA LoseStands == ASSUME BotsInv, NEW t \in Txs, Crew!LoseMutation(t) PROVE BotsInv'
<1>1. /\ UNCHANGED <<bot, vault, gone, token, links, sent>> /\ Crew!End(t)
      /\ failed' = failed \cup {tx[t].of[1]}
  BY DEF Crew!LoseMutation, Crew!RolledBack
<1>2. Crew!DeletedIsSilent' /\ links' \in Seq(SUBSET BotIds)
  BY <1>1 DEF BotsInv, Crew!DeletedIsSilent
<1> QED
  BY <1>1, <1>2, OneEnds

\* A deadlock ends a request that waits for a row, and none waits once it retired a key.
LEMMA BreakStands == ASSUME BotsInv, NEW t \in Txs, Crew!BreakDeadlock(t) PROVE BotsInv'
<1>1. Crew!Wants(t) # <<>> /\ Crew!Abort(t)
  BY DEF Crew!BreakDeadlock, Crew!WaitsFor
<1>2. ~Retired(t)
  BY <1>1 DEF Crew!Wants, Retired
<1> QED
  BY <1>1, <1>2, AbortStands

\* A run is loaded with the key the row names, and sends it if it still works.
LEMMA RunMoves == ASSUME BotsInv, NEW t \in Txs, Crew!LoadRow(t) \/ Crew!AgentAuthHeaders(t) PROVE BotsInv'
<1>1. PICK y, b : y = tx[t] /\ b = tx[t].of[1]
  OBVIOUS
<1>2. /\ TxStands(t) /\ y \in TxRows /\ y.pc \in {"load", "header"} /\ ~Retired(t) /\ ~Fresh(t)
      /\ b \in BotIds /\ y.of = <<b>> /\ KeyStands(b)
  BY <1>1 DEF BotsInv, TxStands, Crew!LoadRow, Crew!AgentAuthHeaders, Retired, Fresh
<1>3. CASE Crew!Abort(t)
  BY <1>2, <1>3, AbortStands
<1>4. ASSUME Crew!LoadRow(t), ~Crew!Abort(t) PROVE BotsInv'
  <2>1. PICK k : k = bot[b].key
    OBVIOUS
  <2> DEFINE x == [y EXCEPT !.pc = "header", !.key = k]
  <2>2. tx' = [tx EXCEPT ![t] = x] /\ UNCHANGED <<bot, vault, links, locks, token, sent, gone, failed>>
    BY <1>1, <1>4, <2>1 DEF Crew!LoadRow
  <2>3. k \in Nat /\ k <= Len(vault) /\ (k # 0 => k \in DOMAIN vault)
    BY <1>2, <2>1, VaultGrows DEF BotsInv, KeyStands, BotRows
  <2>4. x \in TxRows /\ x.pc = "header" /\ x.of = y.of /\ x.key = k
    BY <1>2, <2>3 DEF TxRows
  <2> HIDE DEF x
  <2>5. tx'[t] = x
    BY <2>2 DEF BotsInv
  <2>6. TxStands(t)' /\ ~Fresh(t)'
    <3>1. MutationStands(t)' /\ ~Fresh(t)' /\ ChannelStands(t)'
      BY <2>4, <2>5 DEF MutationStands, ChannelStands, Fresh, Retired, Judged
    <3>2. RunStands(t)'
      BY <1>2, <2>1, <2>2, <2>3, <2>4, <2>5 DEF RunStands
    <3> QED
      BY <1>2, <2>4, <2>5, <3>1, <3>2 DEF TxStands
  <2>7. LocksApart' /\ \A l \in locks : l \in locks'
    BY <2>2 DEF BotsInv, LocksApart
  <2> QED
    BY <1>2, <2>2, <2>6, <2>7, OneMoves
<1>5. ASSUME Crew!AgentAuthHeaders(t) PROVE BotsInv'
  <2>1. /\ Crew!End(t) /\ UNCHANGED <<bot, vault, links, token, gone, failed>> /\ y.pc = "header"
        /\ sent' = IF y.key # 0 /\ vault[y.key] = "live"
                   THEN sent \cup {[as |-> "key", bot |-> b, late |-> b \in gone]} ELSE sent
    BY <1>1, <1>5 DEF Crew!AgentAuthHeaders
  <2>2. ASSUME y.key # 0, vault[y.key] = "live", b \in gone PROVE b \in failed
    BY <1>1, <1>2, <2>1, <2>2 DEF TxStands, RunStands, KeyStands
  <2> DEFINE s == [as |-> "key", bot |-> b, late |-> b \in gone]
  <2>3. s.as = "key" /\ s.bot = b /\ (s.late <=> b \in gone)
    BY Zenon
  <2> HIDE DEF s
  <2>4. Crew!DeletedIsSilent'
    <3>1. CASE y.key # 0 /\ vault[y.key] = "live"
      <4>1. sent' = sent \cup {s} /\ failed' = failed
        BY <2>1, <3>1 DEF s
      <4>2. s.late => s.bot \in failed /\ s.as = "key"
        BY <2>2, <2>3, <3>1
      <4> QED
        BY <4>1, <4>2 DEF BotsInv, Crew!DeletedIsSilent
    <3>2. CASE ~(y.key # 0 /\ vault[y.key] = "live")
      BY <2>1, <3>2 DEF BotsInv, Crew!DeletedIsSilent
    <3> QED
      BY <3>1, <3>2
  <2>5. links' \in Seq(SUBSET BotIds)
    BY <2>1 DEF BotsInv
  <2> QED
    BY <1>2, <2>1, <2>4, <2>5, OneEnds
<1> QED
  BY <1>3, <1>4, <1>5

\* A Bot that is born, with a key that was just stored or with none.
LEMMA BirthStands ==
  ASSUME BotsInv, NEW b \in BotIds, bot[b].state = "unborn",
         UNCHANGED <<links, tx, locks, token, sent, gone, failed>>,
         vault' \in Seq({"live", "revoked"}), Extends(vault, vault'),
         \/ bot' = bot
         \/ \E z \in BotRows : /\ bot' = [bot EXCEPT ![b] = z] /\ z.state = "live"
                               /\ z.key = 0 \/ (z.key = Len(vault) + 1 /\ z.key = Len(vault') /\ vault'[z.key] = "live")
  PROVE  BotsInv'
<1>1. /\ DOMAIN vault = 1 .. Len(vault) /\ Len(vault) \in Nat /\ Len(vault) <= Len(vault')
      /\ \A k \in DOMAIN vault : k \in DOMAIN vault' /\ vault'[k] = vault[k]
      /\ Len(vault') \in Nat /\ DOMAIN vault' = 1 .. Len(vault')
  BY VaultGrows DEF BotsInv, Extends
<1>2. ASSUME NEW c \in BotIds
      PROVE  /\ KeyStands(c) /\ bot[c].key \in Nat /\ bot[c].key <= Len(vault)
             /\ (bot[c].key # 0 => bot[c].key \in DOMAIN vault)
  <2>1. KeyStands(c)
    BY DEF BotsInv
  <2> QED
    BY <1>1, <2>1 DEF KeyStands, BotRows
<1>3. b \notin gone /\ bot[b].key = 0
  BY <1>2 DEF KeyStands
<1>4. ASSUME NEW c \in BotIds
      PROVE  /\ c # b => bot'[c] = bot[c]
             /\ bot'[c] \in BotRows /\ bot'[c].key \in Nat /\ bot'[c].key <= Len(vault')
             /\ bot'[b].key = 0 \/ (bot'[b].key = Len(vault) + 1 /\ vault'[bot'[b].key] = "live")
             /\ bot'[b] = bot[b] \/ bot'[b].state = "live"
  <2>1. CASE bot' = bot
    BY <1>1, <1>2, <1>3, <2>1 DEF KeyStands
  <2>2. ASSUME NEW z \in BotRows, bot' = [bot EXCEPT ![b] = z], z.state = "live",
               z.key = 0 \/ (z.key = Len(vault) + 1 /\ z.key = Len(vault') /\ vault'[z.key] = "live")
        PROVE  /\ c # b => bot'[c] = bot[c]
               /\ bot'[c] \in BotRows /\ bot'[c].key \in Nat /\ bot'[c].key <= Len(vault')
               /\ bot'[b].key = 0 \/ (bot'[b].key = Len(vault) + 1 /\ vault'[bot'[b].key] = "live")
               /\ bot'[b] = bot[b] \/ bot'[b].state = "live"
    <3>1. bot'[b] = z /\ (c # b => bot'[c] = bot[c])
      BY <2>2 DEF BotsInv
    <3>2. z.key \in Nat
      BY DEF BotRows
    <3>3. KeyStands(c) /\ bot[c] \in BotRows
      BY <1>2 DEF KeyStands
    <3> QED
      BY <1>1, <1>2, <2>2, <3>1, <3>2, <3>3
  <2> QED
    BY <2>1, <2>2
<1>5. ASSUME NEW u \in Txs PROVE TxStands(u)'
  <2>1. TxStands(u) /\ tx[u] \in TxRows /\ UNCHANGED <<tx, locks, failed>>
    BY DEF BotsInv, TxStands
  <2>2. tx[u].pc \in {"store", "retire", "commit"} => tx[u].of[1] \in BotIds /\ tx[u].of[1] # b
    BY <2>1 DEF TxStands, MutationStands, Judged
  <2>3. Fresh(u) => tx[u].key # bot'[b].key
    BY <1>1, <1>4, <2>1 DEF TxStands, MutationStands
  <2>4. Retired(u) /\ tx[u].prev # 0 => tx[u].prev \in DOMAIN vault
    BY <1>2, <2>1, <2>2 DEF TxStands, MutationStands, Retired
  <2>5. MutationStands(u)'
    BY <1>1, <1>4, <2>1, <2>2, <2>3, <2>4 DEF TxStands, MutationStands, Fresh, Retired, Judged
  <2>6. RunStands(u)'
    <3>1. tx[u].pc = "header" => tx[u].of[1] \in BotIds
      BY <2>1 DEF TxStands
    <3> QED
      BY <1>1, <1>3, <1>4, <2>1, <3>1 DEF TxStands, RunStands
  <2>7. ChannelStands(u)'
    <3>1. \A i \in DOMAIN tx[u].of : tx[u].of[i] \in BotIds
      BY <2>1 DEF TxRows
    <3>2. ASSUME NEW i \in DOMAIN tx[u].of, bot[tx[u].of[i]].state = "live"
          PROVE  bot'[tx[u].of[i]].state = "live"
      BY <1>4, <3>1, <3>2
    <3> QED
      BY <2>1, <3>2 DEF TxStands, ChannelStands
  <2> QED
    BY <2>1, <2>5, <2>6, <2>7 DEF TxStands
<1>6. ASSUME NEW c \in BotIds PROVE KeyStands(c)'
  <2>1. CASE c = b
    BY <1>1, <1>2, <1>3, <1>4, <2>1 DEF KeyStands
  <2>2. CASE c # b
    <3>1. KeyStands(c) /\ bot'[c] = bot[c] /\ bot[c] \in BotRows /\ bot'[c].key <= Len(vault')
      BY <1>2, <1>4, <2>2 DEF KeyStands
    <3>2. bot[c].key # 0 => vault'[bot[c].key] = vault[bot[c].key]
      BY <1>1, <1>2
    <3>3. \A t \in Txs : Retired(t) => Retired(t)' /\ tx'[t].of = tx[t].of
      BY DEF Retired
    <3> QED
      BY <3>1, <3>2, <3>3 DEF KeyStands
  <2> QED
    BY <2>1, <2>2
<1>7. KeysApart'
  <2>1. \A c, d \in BotIds : c # d /\ bot'[c].key = bot'[d].key => bot'[c].key = 0
    BY <1>2, <1>4 DEF BotsInv, KeysApart
  <2> QED
    BY <2>1 DEF BotsInv, KeysApart, Fresh
<1>8. LocksApart' /\ Crew!DeletedIsSilent' /\ DOMAIN bot' = BotIds
  BY DEF BotsInv, LocksApart, Crew!DeletedIsSilent
<1> QED
  BY <1>5, <1>6, <1>7, <1>8 DEF BotsInv

\* Every request over the Bots keeps it, and a channel that is made is of Bots that are there.
LEMMA BotsInvStays == BotsInv /\ [Crew!Next]_botVars =>
  /\ BotsInv'
  /\ \A i \in DOMAIN links' \ DOMAIN links : \A b \in links'[i] : bot[b].state = "live"
<1> SUFFICES ASSUME BotsInv, [Crew!Next]_botVars
             PROVE  /\ BotsInv'
                    /\ \A i \in DOMAIN links' \ DOMAIN links : \A b \in links'[i] : bot[b].state = "live"
  OBVIOUS
<1>1. ASSUME NEW t \in Txs,
             \/ Crew!Send(t) \/ Crew!LockMutationRows(t) \/ Crew!Judge(t) \/ Crew!StoreAgentAuth(t)
             \/ Crew!RetireReplacedKey(t) \/ Crew!CommitMutation(t) \/ Crew!LoseMutation(t)
             \/ Crew!BreakDeadlock(t) \/ Crew!LoadRow(t) \/ Crew!AgentAuthHeaders(t)
      PROVE  BotsInv' /\ links' = links
  <2>1. links' = links
    BY <1>1 DEF Crew!Send, Crew!LockMutationRows, Crew!Judge, Crew!StoreAgentAuth, Crew!RetireReplacedKey,
       Crew!CommitMutation, Crew!LoseMutation, Crew!BreakDeadlock, Crew!LoadRow, Crew!AgentAuthHeaders,
       Crew!Abort, Crew!RolledBack
  <2> QED
    BY <1>1, <2>1, SendStands, LockStands, JudgeStands, StoreStands, RetireStands, CommitBotStands, LoseStands,
       BreakStands, RunMoves
<1>2. ASSUME UNCHANGED <<bot, vault, links, tx, locks, token, gone, failed>>, Crew!DeletedIsSilent'
      PROVE  BotsInv' /\ links' = links
  <2>1. (\A t \in Txs : TxStands(t)') /\ (\A b \in BotIds : KeyStands(b)')
    <3>1. ASSUME NEW t \in Txs PROVE TxStands(t)'
      <4>1. TxStands(t)
        BY DEF BotsInv
      <4>2. MutationStands(t)'
        BY <1>2, <4>1 DEF TxStands, MutationStands, Fresh, Retired
      <4>3. RunStands(t)' /\ ChannelStands(t)'
        BY <1>2, <4>1 DEF TxStands, RunStands, ChannelStands
      <4> QED
        BY <1>2, <4>1, <4>2, <4>3 DEF TxStands
    <3>2. ASSUME NEW b \in BotIds PROVE KeyStands(b)'
      <4>1. KeyStands(b)
        BY DEF BotsInv
      <4> QED
        BY <1>2, <4>1 DEF KeyStands, Retired
    <3> QED
      BY <3>1, <3>2
  <2>2. KeysApart' /\ LocksApart'
    BY <1>2 DEF BotsInv, KeysApart, LocksApart, Fresh
  <2> QED
    BY <1>2, <2>1, <2>2 DEF BotsInv
<1>3. ASSUME NEW b \in BotIds, Crew!Call(b) PROVE BotsInv' /\ links' = links
  <2> DEFINE s == [as |-> "call", bot |-> b, late |-> b \in gone]
  <2>1. /\ sent' = sent \cup {s} /\ UNCHANGED <<bot, vault, links, tx, locks, token, gone, failed>>
        /\ bot[b].state = "live"
    BY <1>3 DEF Crew!Call
  <2>2. s.late <=> b \in gone
    BY Zenon
  <2> HIDE DEF s
  <2>3. ~s.late
    BY <2>1, <2>2 DEF BotsInv, KeyStands
  <2>4. Crew!DeletedIsSilent'
    BY <2>1, <2>3 DEF BotsInv, Crew!DeletedIsSilent
  <2> QED
    BY <1>2, <2>1, <2>4
<1>4. ASSUME NEW b \in BotIds, Crew!Create(b) PROVE BotsInv' /\ links' = links
  <2>1. PICK auth \in BOOLEAN, public \in BOOLEAN, lost \in BOOLEAN :
          /\ vault' = IF auth THEN Append(vault, "live") ELSE vault
          /\ bot' = IF lost THEN bot
                    ELSE [bot EXCEPT ![b] = [state |-> "live", public |-> public, system |-> FALSE,
                                             key |-> IF auth THEN Len(vault') ELSE 0, token |-> 0]]
    BY <1>4 DEF Crew!Create
  <2>2. PICK k : k = IF auth THEN Len(vault') ELSE 0
    OBVIOUS
  <2> DEFINE z == [state |-> "live", public |-> public, system |-> FALSE, key |-> k, token |-> 0]
  <2>3. /\ vault' \in Seq({"live", "revoked"}) /\ Extends(vault, vault') /\ k \in Nat
        /\ k = 0 \/ (k = Len(vault) + 1 /\ k = Len(vault') /\ vault'[k] = "live")
    BY <2>1, <2>2, VaultGrows DEF BotsInv
  <2>4. z \in BotRows /\ z.state = "live" /\ z.key = k
    BY <2>3 DEF BotRows
  <2>5. bot' = bot \/ bot' = [bot EXCEPT ![b] = z]
    BY <2>1, <2>2
  <2> HIDE DEF z
  <2>6. bot[b].state = "unborn" /\ UNCHANGED <<links, tx, locks, token, sent, gone, failed>>
    BY <1>4 DEF Crew!Create
  <2> QED
    BY <2>3, <2>4, <2>5, <2>6, BirthStands
<1>5. ASSUME NEW b \in BotIds, NEW c \in BotIds, Crew!Duplicate(b, c) PROVE BotsInv' /\ links' = links
  <2> DEFINE z == [Crew!Unborn EXCEPT !.state = "live"]
  <2>1. z \in BotRows /\ z.state = "live" /\ z.key = 0
    BY DEF Crew!Unborn, BotRows
  <2>2. /\ bot' = [bot EXCEPT ![c] = z] /\ bot[c].state = "unborn"
        /\ UNCHANGED <<vault, links, tx, locks, token, sent, gone, failed>>
    BY <1>5 DEF Crew!Duplicate
  <2> HIDE DEF z
  <2>3. vault' \in Seq({"live", "revoked"}) /\ Extends(vault, vault')
    BY <2>2, VaultGrows DEF BotsInv
  <2> QED
    BY <2>1, <2>2, <2>3, BirthStands
<1>6. ASSUME NEW p \in People, NEW b \in BotIds, Crew!SetHidden(p, b) PROVE BotsInv' /\ links' = links
  <2>1. UNCHANGED <<bot, vault, links, tx, locks, token, sent, gone, failed>>
    BY <1>6 DEF Crew!SetHidden
  <2> QED
    BY <1>2, <2>1 DEF BotsInv, Crew!DeletedIsSilent
<1>7. ASSUME UNCHANGED botVars PROVE BotsInv' /\ links' = links
  <2>1. UNCHANGED <<bot, vault, links, tx, locks, token, sent, gone, failed>>
    BY <1>7 DEF botVars
  <2> QED
    BY <1>2, <2>1 DEF BotsInv, Crew!DeletedIsSilent
<1> QED
  BY <1>1, <1>3, <1>4, <1>5, <1>6, <1>7, ChannelMoves DEF Crew!Next

\* The keys and tokens of Bots, and the Bots of channels.  The key a live Bot's row names works, unless
\* a vault that refused or a commit that failed left it otherwise: the new key is in the vault before
\* the row names it, and the row is held until the old one is retired.  A Bot whose deletion was
\* answered is silent, since its key is revoked before the deletion commits and no run was loaded with
\* another one that works.  And a channel is made of Bots that are not deleted: it shares the profile
\* rows that a deletion has to hold.
THEOREM BotsKeptAlways == Spec => BotsKept
<1>1. Init => BotsInv
  <2> SUFFICES ASSUME Init PROVE BotsInv
    OBVIOUS
  <2>1. PICK first \in BotIds, key \in {0, 1}, system \in BOOLEAN :
          /\ bot = [b \in BotIds |-> IF b = first
                                     THEN [state |-> "live", public |-> system, system |-> system,
                                           key |-> key, token |-> 0]
                                     ELSE Crew!Unborn]
          /\ vault = IF key = 1 THEN <<"live">> ELSE <<>>
    BY DEF Init, Crew!Init
  <2>2. /\ links = <<>> /\ tx = [t \in Txs |-> Crew!Idle] /\ locks = {} /\ token = 0 /\ sent = {}
        /\ gone = {} /\ failed = {}
    BY DEF Init, Crew!Init
  <2>3. vault \in Seq({"live", "revoked"}) /\ key <= Len(vault) /\ key \in Nat /\ Len(vault) \in Nat
        /\ (key # 0 => vault[key] = "live")
    <3>1. CASE key = 1
      <4>1. vault = <<"live">>
        BY <2>1, <3>1
      <4> QED
        BY <3>1, <4>1
    <3>2. CASE key = 0
      <4>1. vault = <<>>
        BY <2>1, <3>2
      <4> QED
        BY <3>2, <4>1
    <3> QED
      BY <3>1, <3>2
  <2> DEFINE z == [state |-> "live", public |-> system, system |-> system, key |-> key, token |-> 0]
  <2>4. z \in BotRows /\ z.state = "live" /\ z.key = key
    BY <2>3 DEF BotRows
  <2>5. Crew!Unborn \in BotRows /\ Crew!Unborn.state = "unborn" /\ Crew!Unborn.key = 0
    BY DEF Crew!Unborn, BotRows
  <2>6. bot = [b \in BotIds |-> IF b = first THEN z ELSE Crew!Unborn]
    BY <2>1
  <2> HIDE DEF z
  <2>7. \A b \in BotIds : KeyStands(b)
    BY <2>2, <2>3, <2>4, <2>5, <2>6 DEF KeyStands
  <2>8. ASSUME NEW t \in Txs PROVE TxStands(t) /\ ~Fresh(t)
    <3>1. tx[t] \in TxRows /\ tx[t].pc = "idle"
      BY <2>2, IdleStands
    <3> QED
      BY <3>1 DEF TxStands, MutationStands, RunStands, ChannelStands, Fresh, Retired, Judged
  <2>9. KeysApart /\ LocksApart /\ Crew!DeletedIsSilent
    BY <2>2, <2>4, <2>5, <2>6, <2>8 DEF KeysApart, LocksApart, Crew!DeletedIsSilent
  <2> QED
    BY <2>2, <2>3, <2>6, <2>7, <2>8, <2>9 DEF BotsInv
<1>2. [Next]_vars => [Crew!Next]_botVars
  <2>1. CASE Secrets
    BY <2>1 DEF Secrets, shelfVars, botVars
  <2>2. CASE Shelves
    BY <2>2 DEF Shelves, botVars
  <2>3. CASE UNCHANGED vars
    BY <2>3 DEF vars, shelfVars, botVars
  <2> QED
    BY <2>1, <2>2, <2>3 DEF Next
<1>3. BotsInv /\ [Next]_vars => BotsInv'
  BY <1>2, BotsInvStays
<1>4. BotsInv /\ [Next]_vars =>
        [\A i \in DOMAIN links' \ DOMAIN links : \A b \in links'[i] : bot[b].state = "live"]_Crew!vars
  BY <1>2, BotsInvStays
<1>5. BotsInv => Crew!KeyWorks /\ Crew!DeletedIsSilent
  <2> SUFFICES ASSUME BotsInv PROVE Crew!KeyWorks
    BY DEF BotsInv
  <2> SUFFICES ASSUME NEW b \in BotIds \ failed, bot[b].state = "live", bot[b].key # 0, Crew!Settled(b)
               PROVE  vault[bot[b].key] = "live"
    BY DEF Crew!KeyWorks
  <2>1. ASSUME NEW t \in Txs, Retired(t), tx[t].of = <<b>> PROVE FALSE
    BY <2>1 DEF Crew!Settled, Retired
  <2> QED
    BY <2>1 DEF BotsInv, KeyStands
<1> QED
  BY <1>1, <1>3, <1>4, <1>5, PTL DEF Spec, BotsKept, Crew!ChannelOfLivingBots

-----------------------------------------------------------------------------
(***************************************************************************)
(* The screens.  What the tables of pages, queries, changes and handlers   *)
(* have to say is TablesAssumption, which TLC evaluates on the tables as   *)
(* they are; that a page keeps its word by it is proved, for any number of *)
(* visits, changes and changes by others.                                  *)
(***************************************************************************)
Stages == {"idle", "asked", "read", "refused"}
Replies == {"idle", "waiting", "orphan", "ok", "failed", "refused"}
Fetches == [stage : Stages, row : Nat, basis : Nat, joined : BOOLEAN]
Drawings == [drawn : BOOLEAN, row : Nat, failed : BOOLEAN, joined : BOOLEAN]
Changes == [left : Seq(Screen!StepsOf(choice)), reply : Replies, basis : Nat, wrote : Nat]
Learnings == [may : SUBSET DOMAIN Screen!Needs, since : Nat]
Spendings == [elsewhere : Nat, changes : Nat, saves : Nat, visits : Nat]

ScreenStands ==
    /\ choice \in Screen!Situations
    /\ stored \in Nat /\ least \in 0..stored
    /\ facts \in SUBSET Screen!Facts
    /\ me \in Learnings /\ at \in Nat \cup {Screen!Away}
    /\ seen \in Drawings /\ fetch \in Fetches /\ change \in Changes
    /\ spent \in Spendings

\* While nobody's rights changed since the page learned them, what the page was opened on, asked for
\* and sent is what the server still lets this person do.
LearnedInTime ==
    /\ at # Screen!Away => at <= me.since
    /\ me.since <= spent.changes
    /\ me.since = spent.changes => me.may = Screen!Rights(facts)
OpenIsAllowed == at # Screen!Away /\ at = spent.changes => choice.gate \subseteq Screen!Rights(facts)
FetchIsAllowed ==
    /\ fetch.basis <= spent.changes
    /\ fetch.stage # "idle" /\ fetch.basis = spent.changes
       => fetch.stage # "refused" /\ choice.gate \subseteq Screen!Rights(facts)
ChangeIsAllowed ==
    /\ change.basis <= spent.changes
    /\ change.left # <<>> => change.reply # "idle"
    /\ change.reply \notin {"idle", "orphan"} /\ change.basis = spent.changes
       => /\ change.reply # "refused"
          /\ choice.gate \subseteq Screen!Rights(facts) /\ choice.to \in Screen!Rights(facts)

\* What arrived, and what is about to, is as new as the page has to show.
FreshFetch == fetch.stage = "read" /\ ~fetch.joined => least <= fetch.row
FreshSeen == fetch.stage = "idle" /\ seen.drawn /\ ~seen.failed /\ ~seen.joined => least <= seen.row
ShownIsFresh ==
    /\ change.wrote <= stored
    /\ change.wrote > 0 => Screen!MayWrite(choice)
    /\ ~Screen!Exempt(choice) /\ (at # Screen!Away \/ choice.keeps) => FreshFetch /\ FreshSeen

ScreenInv ==
    /\ ScreenStands
    /\ LearnedInTime /\ OpenIsAllowed /\ FetchIsAllowed /\ ChangeIsAllowed
    /\ ShownIsFresh

\* What the tables say of the choice a behaviour is about.
LEMMA ChoiceAgrees == ~WithControlPlane /\ ScreenStands => Screen!Agree(choice)
  BY TablesAssumption DEF ScreenStands

\* The fields of what is fetched, seen and changed, one by one.
LEMMA ScreenFields ==
    ASSUME ScreenStands
    PROVE  /\ fetch.stage \in Stages /\ fetch.row \in Nat /\ fetch.basis \in Nat
           /\ fetch.joined \in BOOLEAN
           /\ seen.drawn \in BOOLEAN /\ seen.row \in Nat /\ seen.failed \in BOOLEAN
           /\ seen.joined \in BOOLEAN
           /\ change.left \in Seq(Screen!StepsOf(choice)) /\ change.reply \in Replies
           /\ change.basis \in Nat /\ change.wrote \in Nat
           /\ me.may \in SUBSET DOMAIN Screen!Needs /\ me.since \in Nat
           /\ spent.elsewhere \in Nat /\ spent.changes \in Nat /\ spent.saves \in Nat
           /\ spent.visits \in Nat
           /\ least \in Nat /\ least <= stored
  BY DEF ScreenStands, Fetches, Drawings, Changes, Learnings, Spendings

\* query-client.ts: a request that begins, and one that is waited for by a page that did not ask.
LEMMA AskedIs ==
    ASSUME NEW b \in Nat
    PROVE  /\ Screen!Asked(b) \in Fetches
           /\ Screen!Asked(b).stage = "asked" /\ Screen!Asked(b).basis = b
           /\ Screen!Asked(b).row = 0 /\ Screen!Asked(b).joined = FALSE
  BY DEF Screen!Asked, Screen!NoFetch, Fetches, Stages

\* No request is one of nothing.
LEMMA NoFetchIs ==
    /\ Screen!NoFetch \in Fetches /\ Screen!NoFetch.stage = "idle" /\ Screen!NoFetch.basis = 0
  BY DEF Screen!NoFetch, Fetches, Stages

\* No change has written nothing.
LEMMA NoChangeIs ==
    /\ Screen!NoChange \in Changes /\ Screen!NoChange.reply = "idle"
    /\ Screen!NoChange.basis = 0 /\ Screen!NoChange.wrote = 0 /\ Screen!NoChange.left = <<>>
  <1>1. << >> \in Seq(Screen!StepsOf(choice))
    OBVIOUS
  <1> QED
    BY <1>1 DEF Screen!NoChange, Changes, Replies

\* To join a request changes nothing but that.
LEMMA JoinedIs ==
    ASSUME ScreenStands
    PROVE  /\ Screen!Joined \in Fetches
           /\ Screen!Joined.stage = fetch.stage /\ Screen!Joined.basis = fetch.basis
           /\ Screen!Joined.joined = TRUE
  BY DEF Screen!Joined, ScreenStands, Fetches

\* invalidateQueries.
LEMMA InvalidateIs ==
    ASSUME ScreenStands, Screen!Invalidate
    PROVE  /\ fetch' \in Fetches
           /\ \/ fetch' = fetch /\ (~choice.covers \/ at = Screen!Away)
              \/ at # Screen!Away /\ fetch'.stage = "asked" /\ fetch'.basis = at
              \/ /\ at # Screen!Away /\ fetch.stage # "idle" /\ fetch'.stage = fetch.stage
                 /\ fetch'.basis = fetch.basis /\ fetch'.joined = TRUE
<1>1. CASE ~choice.covers \/ at = Screen!Away
  BY <1>1 DEF Screen!Invalidate, ScreenStands
<1>2. CASE choice.covers /\ at # Screen!Away
  <2>1. at \in Nat
    BY <1>2 DEF ScreenStands
  <2>2. fetch' = Screen!Asked(at) \/ (fetch.stage # "idle" /\ fetch' = Screen!Joined)
    BY <1>2 DEF Screen!Invalidate
  <2> QED
    BY <1>2, <2>1, <2>2, AskedIs, JoinedIs
<1> QED
  BY <1>1, <1>2

\* A page whose answers were thrown away asks for itself, and shows nothing until the answer is there.
LEMMA InvalidateKeeps ==
    ASSUME ScreenInv, Screen!Invalidate, UNCHANGED <<choice, facts, spent, seen>>
    PROVE  /\ fetch' \in Fetches /\ FetchIsAllowed'
           /\ fetch' # fetch => FreshFetch' /\ FreshSeen'
           /\ choice.covers /\ at # Screen!Away => FreshFetch' /\ FreshSeen'
           /\ FreshFetch /\ FreshSeen /\ least' = least => FreshFetch' /\ FreshSeen'
<1>1. fetch' \in Fetches
  BY InvalidateIs DEF ScreenInv
<1>2. CASE fetch' = fetch /\ (~choice.covers \/ at = Screen!Away)
  BY <1>1, <1>2 DEF ScreenInv, FetchIsAllowed, FreshFetch, FreshSeen
<1>3. CASE at # Screen!Away /\ fetch'.stage = "asked" /\ fetch'.basis = at
  <2>1. at \in Nat /\ spent.changes \in Nat /\ me.since \in Nat
    BY <1>3, ScreenFields DEF ScreenInv, ScreenStands
  <2> QED
    BY <1>1, <1>3, <2>1 DEF ScreenInv, LearnedInTime, OpenIsAllowed, FetchIsAllowed, FreshFetch, FreshSeen
<1>4. CASE /\ at # Screen!Away /\ fetch.stage # "idle" /\ fetch'.stage = fetch.stage
           /\ fetch'.basis = fetch.basis /\ fetch'.joined = TRUE
  BY <1>1, <1>4 DEF ScreenInv, FetchIsAllowed, FreshFetch, FreshSeen
<1> QED
  BY <1>2, <1>3, <1>4, InvalidateIs DEF ScreenInv

\* What a page does about its answers.
LEMMA ScreenAsks ==
    ASSUME ScreenInv, Screen!Agree(choice),
           Screen!Open \/ Screen!Leave \/ Screen!Poll \/ Screen!Learn
    PROVE  ScreenInv'
<1>0. ScreenStands /\ me.since \in Nat /\ spent.changes \in Nat /\ stored \in Nat
  BY ScreenFields DEF ScreenInv, ScreenStands
<1>1. CASE Screen!Open
  <2>1. /\ at = Screen!Away /\ at' = me.since /\ choice.gate \subseteq me.may
        /\ UNCHANGED <<choice, stored, facts, me, seen, change>>
        /\ spent' = [spent EXCEPT !.visits = @ + 1]
    BY <1>1 DEF Screen!Open, Screen!Spend
  <2>2. \/ fetch.stage # "idle" /\ fetch' = Screen!Joined /\ least' = least
        \/ fetch' = Screen!Asked(me.since) /\ least' = stored
        \/ choice.keeps /\ fetch' = fetch /\ least' = least
    BY <1>1 DEF Screen!Open
  <2>3. spent' \in Spendings /\ spent'.changes = spent.changes
    BY <1>0, <2>1 DEF ScreenStands, Spendings
  <2>4. ScreenStands /\ me.since \in Nat
    BY <1>0
  <2>5. /\ fetch' \in Fetches
        /\ least' \in 0..stored
    <3>1. fetch \in Fetches /\ least \in 0..stored /\ stored \in 0..stored
      BY <1>0 DEF ScreenStands
    <3> QED
      BY <2>2, <2>4, <3>1, JoinedIs, AskedIs
  <2>6. ScreenStands'
    BY <2>1, <2>3, <2>4, <2>5 DEF ScreenStands, Changes
  <2>7. LearnedInTime' /\ OpenIsAllowed' /\ ChangeIsAllowed'
    BY <1>0, <2>1, <2>3 DEF ScreenInv, LearnedInTime, OpenIsAllowed, ChangeIsAllowed
  <2>8. FetchIsAllowed'
    <3>1. LearnedInTime /\ FetchIsAllowed
      BY DEF ScreenInv
    <3>2. CASE fetch.stage # "idle" /\ fetch' = Screen!Joined
      BY <2>1, <2>3, <2>4, <3>1, <3>2, JoinedIs DEF FetchIsAllowed
    <3>3. CASE fetch' = Screen!Asked(me.since)
      BY <2>1, <2>3, <2>4, <3>1, <3>3, AskedIs DEF LearnedInTime, FetchIsAllowed
    <3>4. CASE fetch' = fetch
      BY <2>1, <2>3, <3>1, <3>4 DEF FetchIsAllowed
    <3> QED
      BY <2>2, <3>2, <3>3, <3>4
  <2>9. ShownIsFresh'
    BY <2>1, <2>2, <2>4, JoinedIs, AskedIs DEF ScreenInv, ShownIsFresh, FreshFetch, FreshSeen
  <2> QED
    BY <2>6, <2>7, <2>8, <2>9 DEF ScreenInv
<1>2. CASE Screen!Leave
  <2>1. /\ at' = Screen!Away
        /\ UNCHANGED <<choice, stored, facts, me, seen, fetch, change, least, spent>>
    BY <1>2 DEF Screen!Leave
  <2> QED
    BY <1>2, <2>1 DEF Screen!Leave, ScreenInv, ScreenStands, Changes, LearnedInTime, OpenIsAllowed,
                 FetchIsAllowed, ChangeIsAllowed, ShownIsFresh, FreshFetch, FreshSeen
<1>3. CASE Screen!Poll
  <2>1. /\ at # Screen!Away /\ choice.polls /\ fetch' = Screen!Asked(at)
        /\ UNCHANGED <<choice, stored, facts, me, at, seen, change, least, spent>>
    BY <1>3 DEF Screen!Poll
  <2>2. ScreenStands /\ at \in Nat
    BY <1>0, <2>1 DEF ScreenStands
  <2>3. ScreenStands'
    BY <2>1, <2>2, AskedIs DEF ScreenStands, Changes
  <2>4. FetchIsAllowed'
    <3>1. at <= spent.changes
      BY <1>0, <2>1, <2>2 DEF ScreenInv, LearnedInTime
    <3> QED
      BY <2>1, <2>2, <3>1, AskedIs DEF ScreenInv, OpenIsAllowed, FetchIsAllowed
  <2> QED
    BY <2>1, <2>3, <2>4 DEF ScreenInv, LearnedInTime, OpenIsAllowed, ChangeIsAllowed, ShownIsFresh, Screen!Exempt
<1>4. CASE Screen!Learn
  <2>1. /\ me' = [may |-> Screen!Rights(facts), since |-> spent.changes]
        /\ UNCHANGED <<choice, stored, facts, at, seen, fetch, change, least, spent>>
    BY <1>4 DEF Screen!Learn
  <2>2. me' \in Learnings /\ me'.may = Screen!Rights(facts) /\ me'.since = spent.changes
    BY <1>0, <2>1 DEF Learnings, Screen!Rights
  <2>3. ScreenStands'
    BY <2>1, <2>2 DEF ScreenInv, ScreenStands, Changes
  <2>4. LearnedInTime'
    <3>1. at # Screen!Away => at \in Nat
      BY <1>0 DEF ScreenStands
    <3>2. spent.changes \in Nat /\ me.since \in Nat
      BY <1>0
    <3> QED
      BY <2>1, <2>2, <3>1, <3>2 DEF ScreenInv, LearnedInTime
  <2> QED
    BY <2>1, <2>3, <2>4 DEF ScreenInv, OpenIsAllowed, FetchIsAllowed, ChangeIsAllowed, ShownIsFresh,
                            FreshFetch, FreshSeen
<1> QED
  BY <1>1, <1>2, <1>3, <1>4

\* What becomes of a request of a page.
LEMMA ScreenAnswers ==
    ASSUME ScreenInv, Screen!Agree(choice), Screen!Answer \/ Screen!Arrive \/ Screen!Miss
    PROVE  ScreenInv'
<1>1. ScreenStands
  BY DEF ScreenInv
<1>2. CASE Screen!Answer
  <2>1. fetch.stage = "asked" /\ UNCHANGED <<choice, stored, facts, me, at, seen, change, least, spent>>
    BY <1>2 DEF Screen!Answer
  <2>2. /\ fetch' \in Fetches /\ fetch'.basis = fetch.basis /\ fetch'.joined = fetch.joined
        /\ \/ fetch'.stage = "read" /\ fetch'.row = stored
           \/ fetch'.stage = "refused" /\ choice.asks \notin Screen!Rights(facts)
    BY <1>1, <1>2 DEF Screen!Answer, ScreenStands, Fetches, Stages
  <2>3. ScreenStands'
    BY <1>1, <2>1, <2>2 DEF ScreenStands, Changes
  <2>4. choice.gate \subseteq Screen!Rights(facts) => choice.asks \in Screen!Rights(facts)
    BY <1>1 DEF ScreenStands, Screen!Agree, Screen!Answerable
  <2>5. FetchIsAllowed'
    BY <2>1, <2>2, <2>4 DEF ScreenInv, FetchIsAllowed
  <2>6. ShownIsFresh'
    BY <1>1, <2>1, <2>2, ScreenFields DEF ScreenInv, ShownIsFresh, FreshFetch, FreshSeen
  <2> QED
    BY <2>1, <2>3, <2>5, <2>6 DEF ScreenInv, LearnedInTime, OpenIsAllowed, ChangeIsAllowed
<1>3. CASE Screen!Arrive
  <2>1. /\ fetch.stage = "read" /\ fetch' = Screen!NoFetch
        /\ UNCHANGED <<choice, stored, facts, me, at, change, least, spent>>
    BY <1>3 DEF Screen!Arrive
  <2>2. seen' \in Drawings /\ seen'.row = fetch.row /\ seen'.joined = fetch.joined
    BY <1>1, <1>3, ScreenFields DEF Screen!Arrive, Drawings
  <2>3. ScreenStands'
    BY <1>1, <2>1, <2>2, NoFetchIs DEF ScreenStands, Changes
  <2>4. FetchIsAllowed' /\ ShownIsFresh'
    BY <1>1, <2>1, <2>2, NoFetchIs, ScreenFields
       DEF ScreenInv, FetchIsAllowed, ShownIsFresh, FreshFetch, FreshSeen
  <2> QED
    BY <2>1, <2>3, <2>4 DEF ScreenInv, LearnedInTime, OpenIsAllowed, ChangeIsAllowed
<1>4. CASE Screen!Miss
  <2>1. /\ fetch.stage # "idle"
        /\ UNCHANGED <<choice, stored, facts, me, at, change, least, spent>>
    BY <1>4 DEF Screen!Miss
  <2>2. \/ /\ seen' = seen /\ fetch' \in Fetches /\ fetch'.stage = "asked"
           /\ fetch'.basis = fetch.basis
        \/ /\ fetch' = Screen!NoFetch /\ seen' \in Drawings /\ seen'.failed = TRUE
    <3>1. [fetch EXCEPT !.stage = "asked", !.row = 0] \in Fetches
      BY <1>1 DEF ScreenStands, Fetches, Stages
    <3>2. /\ [fetch EXCEPT !.stage = "asked", !.row = 0].stage = "asked"
          /\ [fetch EXCEPT !.stage = "asked", !.row = 0].basis = fetch.basis
      BY <1>1 DEF ScreenStands, Fetches
    <3>3. /\ [seen EXCEPT !.failed = TRUE] \in Drawings
          /\ [seen EXCEPT !.failed = TRUE].failed = TRUE
      BY <1>1 DEF ScreenStands, Drawings
    <3> QED
      BY <1>4, <3>1, <3>2, <3>3 DEF Screen!Miss
  <2>3. ScreenStands'
    BY <1>1, <2>1, <2>2, NoFetchIs DEF ScreenStands, Changes
  <2>4. FetchIsAllowed' /\ ShownIsFresh'
    BY <1>1, <2>1, <2>2, NoFetchIs, ScreenFields
       DEF ScreenInv, FetchIsAllowed, ShownIsFresh, FreshFetch, FreshSeen
  <2> QED
    BY <2>1, <2>3, <2>4 DEF ScreenInv, LearnedInTime, OpenIsAllowed, ChangeIsAllowed
<1> QED
  BY <1>2, <1>3, <1>4

\* What others do meanwhile.
LEMMA ScreenOthers ==
    ASSUME ScreenInv, Screen!Elsewhere \/ Screen!RightsChange
    PROVE  ScreenInv'
<1>1. ScreenStands
  BY DEF ScreenInv
<1>2. CASE Screen!Elsewhere
  <2>1. /\ stored' = stored + 1 /\ spent' = [spent EXCEPT !.elsewhere = @ + 1]
        /\ UNCHANGED <<choice, facts, me, at, seen, fetch, change, least>>
    BY <1>2 DEF Screen!Elsewhere, Screen!Spend
  <2>2. spent' \in Spendings /\ spent'.changes = spent.changes
    BY <1>1, <2>1 DEF ScreenStands, Spendings
  <2>3. stored \in Nat /\ stored' \in Nat /\ least \in 0..stored'
    BY <1>1, <2>1 DEF ScreenStands
  <2>4. ScreenStands'
    BY <1>1, <2>1, <2>2, <2>3 DEF ScreenStands, Changes
  <2>5. ShownIsFresh'
    BY <1>1, <2>1, <2>3, ScreenFields DEF ScreenInv, ShownIsFresh, FreshFetch, FreshSeen
  <2> QED
    BY <2>1, <2>2, <2>4, <2>5 DEF ScreenInv, LearnedInTime, OpenIsAllowed, FetchIsAllowed, ChangeIsAllowed
<1>3. CASE Screen!RightsChange
  <2>1. /\ spent' = [spent EXCEPT !.changes = @ + 1]
        /\ \E fact \in Screen!Facts : facts' = (facts \ {fact}) \cup ({fact} \ facts)
        /\ UNCHANGED <<choice, stored, me, at, seen, fetch, change, least>>
    BY <1>3 DEF Screen!RightsChange, Screen!Spend
  <2>2. spent' \in Spendings /\ spent'.changes = spent.changes + 1 /\ spent.changes \in Nat
    BY <1>1, <2>1 DEF ScreenStands, Spendings
  <2>3. facts' \in SUBSET Screen!Facts
    BY <1>1, <2>1 DEF ScreenStands
  <2>4. ScreenStands'
    BY <1>1, <2>1, <2>2, <2>3 DEF ScreenStands, Changes
  <2>5. LearnedInTime' /\ OpenIsAllowed'
    <3>1. at # Screen!Away => at \in Nat
      BY <1>1 DEF ScreenStands
    <3>2. me.since \in Nat
      BY <1>1, ScreenFields
    <3> QED
      BY <2>1, <2>2, <3>1, <3>2 DEF ScreenInv, LearnedInTime, OpenIsAllowed
  <2>6. FetchIsAllowed' /\ ChangeIsAllowed'
    BY <1>1, <2>1, <2>2, ScreenFields DEF ScreenInv, FetchIsAllowed, ChangeIsAllowed
  <2> QED
    BY <2>1, <2>4, <2>5, <2>6 DEF ScreenInv, ShownIsFresh, FreshFetch, FreshSeen
<1> QED
  BY <1>2, <1>3

\* mutations.ts: a page sends what it was offered when it was opened.
LEMMA ScreenSends == ASSUME ScreenInv, Screen!Agree(choice), Screen!Send PROVE ScreenInv'
<1>1. ScreenStands
  BY DEF ScreenInv
<1>2. /\ at # Screen!Away /\ choice.course # <<>> /\ choice.to \in me.may
      /\ change' = [left |-> choice.course, reply |-> "waiting", basis |-> at, wrote |-> 0]
      /\ spent' = [spent EXCEPT !.saves = @ + 1]
      /\ UNCHANGED <<choice, stored, facts, me, at, seen, fetch, least>>
  BY DEF Screen!Send, Screen!Spend
<1>3. spent' \in Spendings /\ spent'.changes = spent.changes
  BY <1>1, <1>2 DEF ScreenStands, Spendings
<1>4. at \in Nat /\ spent.changes \in Nat /\ me.since \in Nat /\ stored \in Nat
  BY <1>1, <1>2, ScreenFields DEF ScreenStands
<1>5. choice.course \in Seq(Screen!StepsOf(choice))
  BY DEF Screen!Agree
<1>6. /\ change' \in Changes /\ change' \in Changes'
      /\ change'.reply = "waiting" /\ change'.basis = at /\ change'.wrote = 0
  BY <1>2, <1>4, <1>5 DEF Changes, Replies
<1>7. ScreenStands'
  BY <1>1, <1>2, <1>3, <1>6 DEF ScreenStands
<1>8. ChangeIsAllowed'
  BY <1>2, <1>3, <1>4, <1>6 DEF ScreenInv, LearnedInTime, OpenIsAllowed, ChangeIsAllowed
<1>9. ShownIsFresh'
  BY <1>2, <1>4, <1>6 DEF ScreenInv, ShownIsFresh, FreshFetch, FreshSeen
<1> QED
  BY <1>2, <1>3, <1>7, <1>8, <1>9 DEF ScreenInv, LearnedInTime, OpenIsAllowed, FetchIsAllowed

\* What a handler's step makes of the change: it goes on, having written or not, or ends.
LEMMA GoesOnIs ==
    ASSUME ScreenStands, change.left # <<>>, NEW w \in Nat, Screen!GoesOn(w)
    PROVE  /\ change' \in Changes
           /\ change'.reply \in {change.reply, "ok", "idle"} /\ change'.basis \in {change.basis, 0}
           /\ change'.reply # change.reply /\ change'.reply = "ok" => change.reply # "orphan"
           /\ change'.reply \notin {"idle", "orphan"}
              => change.reply # "orphan" /\ change'.basis = change.basis
           /\ change'.wrote \in {w, change.wrote, 0}
           /\ change.reply # "idle" /\ change'.left # <<>> => change'.reply # "idle"
<1>1. Tail(change.left) \in Seq(Screen!StepsOf(choice))
  BY ScreenFields
<1>2. CASE change.reply # "orphan"
  <2>1. change' = [change EXCEPT !.left = Tail(change.left), !.wrote = w,
                                 !.reply = IF Tail(change.left) = <<>> THEN "ok" ELSE @]
    BY <1>2 DEF Screen!GoesOn
  <2> QED
    BY <1>1, <1>2, <2>1 DEF ScreenStands, Changes, Replies
<1>3. CASE change.reply = "orphan"
  <2>1. \/ change' = Screen!NoChange
        \/ change' = [change EXCEPT !.left = Tail(change.left)]
    BY <1>3 DEF Screen!GoesOn
  <2>2. CASE change' = Screen!NoChange
    BY <2>2, NoChangeIs
  <2>3. CASE change' = [change EXCEPT !.left = Tail(change.left)]
    BY <1>1, <1>3, <2>3 DEF ScreenStands, Changes, Replies
  <2> QED
    BY <2>1, <2>2, <2>3
<1> QED
  BY <1>2, <1>3

\* A change that failed or was refused has nothing left to send.
LEMMA EndsIs ==
    ASSUME ScreenStands, NEW reply \in {"failed", "refused"}, Screen!Ends(reply)
    PROVE  /\ change' \in Changes /\ change'.basis \in {change.basis, 0} /\ change'.left = <<>>
           /\ \/ change'.reply = "idle" /\ change'.wrote = 0
              \/ /\ change.reply # "orphan" /\ change'.reply = reply
                 /\ change'.basis = change.basis /\ change'.wrote = change.wrote
<1>1. << >> \in Seq(Screen!StepsOf(choice))
  OBVIOUS
<1>2. CASE change.reply = "orphan"
  <2>1. change' = Screen!NoChange
    BY <1>2 DEF Screen!Ends
  <2> QED
    BY <2>1, NoChangeIs, ScreenFields
<1>3. CASE change.reply # "orphan"
  <2>1. change' = [change EXCEPT !.left = <<>>, !.reply = reply]
    BY <1>3 DEF Screen!Ends
  <2> QED
    BY <1>1, <1>3, <2>1 DEF ScreenStands, Changes, Replies
<1> QED
  BY <1>2, <1>3

\* A step of the handler: whoever was let to the change is let pass, unless rights changed since.
LEMMA ScreenHandles == ASSUME ScreenInv, Screen!Agree(choice), Screen!Handle PROVE ScreenInv'
<1>1. ScreenStands
  BY DEF ScreenInv
<1> DEFINE step == Head(change.left)
<1>2. /\ change.left # <<>>
      /\ UNCHANGED <<choice, facts, me, at, seen, fetch, least, spent>>
      /\ \/ Screen!DoesNot
         \/ step.does \in {"writes", "tries"} /\ Screen!DoesWrite
         \/ Screen!Stops("failed")
         \/ step.does = "asks" /\ step.who \notin Screen!Rights(facts) /\ Screen!Stops("refused")
  BY DEF Screen!Handle
<1>3. step \in Screen!StepsOf(choice)
  BY <1>1, <1>2, ScreenFields
<1>4. /\ stored \in Nat /\ change.wrote \in Nat /\ change.basis \in Nat /\ spent.changes \in Nat
      /\ least \in 0..stored /\ change.wrote <= stored /\ change.reply # "idle"
  BY <1>1, <1>2, ScreenFields DEF ScreenStands, ScreenInv, ShownIsFresh, ChangeIsAllowed
<1>5. /\ change' \in Changes /\ stored' \in Nat /\ stored <= stored'
      /\ change'.basis \in {change.basis, 0}
      /\ change'.left # <<>> => change'.reply # "idle"
      /\ change'.reply \notin {"idle", "orphan"}
         => /\ change.reply # "orphan" /\ change'.basis = change.basis
            /\ change'.reply = "refused" =>
                 \/ change.reply = "refused"
                 \/ step.does = "asks" /\ step.who \notin Screen!Rights(facts)
      /\ change'.wrote <= stored'
      /\ change'.wrote > 0 => change.wrote > 0 \/ step.does \in {"writes", "tries"}
  <2>1. CASE Screen!DoesNot
    <3>1. stored' = stored /\ Screen!GoesOn(change.wrote)
      BY <2>1 DEF Screen!DoesNot
    <3> QED
      BY <1>1, <1>2, <1>4, <3>1, GoesOnIs
  <2>2. CASE step.does \in {"writes", "tries"} /\ Screen!DoesWrite
    <3>1. stored' = stored + 1 /\ Screen!GoesOn(stored')
      BY <2>2 DEF Screen!DoesWrite
    <3>2. stored' \in Nat
      BY <1>4, <3>1
    <3> QED
      BY <1>1, <1>2, <1>4, <2>2, <3>1, <3>2, GoesOnIs
  <2>3. CASE Screen!Stops("failed")
    <3>1. stored' = stored /\ Screen!Ends("failed")
      BY <2>3 DEF Screen!Stops
    <3> QED
      BY <1>1, <1>2, <1>4, <3>1, EndsIs
  <2>4. CASE step.does = "asks" /\ step.who \notin Screen!Rights(facts) /\ Screen!Stops("refused")
    <3>1. stored' = stored /\ Screen!Ends("refused")
      BY <2>4 DEF Screen!Stops
    <3> QED
      BY <1>1, <1>2, <1>4, <2>4, <3>1, EndsIs
  <2> QED
    BY <1>2, <2>1, <2>2, <2>3, <2>4
<1> HIDE DEF step
<1>6. ScreenStands'
  <2>1. change' \in Changes' /\ least' \in 0..stored'
    BY <1>2, <1>4, <1>5 DEF Changes
  <2> QED
    BY <1>1, <1>2, <1>5, <2>1 DEF ScreenStands
<1>7. ChangeIsAllowed'
  <2>1. change'.basis <= spent.changes
    BY <1>4, <1>5 DEF ScreenInv, ChangeIsAllowed
  <2>2. ASSUME change'.reply \notin {"idle", "orphan"}, change'.basis = spent.changes
        PROVE  /\ change'.reply # "refused"
               /\ choice.gate \subseteq Screen!Rights(facts) /\ choice.to \in Screen!Rights(facts)
    <3>1. /\ change.reply # "refused"
          /\ choice.gate \subseteq Screen!Rights(facts) /\ choice.to \in Screen!Rights(facts)
      BY <1>4, <1>5, <2>2 DEF ScreenInv, ChangeIsAllowed
    <3>2. step.does = "asks" => step.who \in Screen!Rights(facts)
      BY <1>1, <1>3, <3>1 DEF ScreenStands, Screen!Agree, Screen!Answerable
    <3> QED
      BY <1>5, <2>2, <3>1, <3>2
  <2> QED
    BY <1>2, <1>5, <2>1, <2>2 DEF ChangeIsAllowed
<1>8. ShownIsFresh'
  BY <1>2, <1>3, <1>5 DEF ScreenInv, ShownIsFresh, FreshFetch, FreshSeen, Screen!MayWrite
<1> QED
  BY <1>2, <1>6, <1>7, <1>8 DEF ScreenInv, LearnedInTime, OpenIsAllowed, FetchIsAllowed

\* onSuccess, onSettled: what was saved has to be shown, and the answers it made stale are asked for.
LEMMA ScreenLands == ASSUME ScreenInv, Screen!Agree(choice), Screen!Land PROVE ScreenInv'
<1>1. ScreenStands
  BY DEF ScreenInv
<1>2. /\ change' = Screen!NoChange
      /\ \/ /\ change.reply = "ok" \/ choice.settles
            /\ Screen!Invalidate
            /\ least' = IF choice.promises THEN Screen!Larger(least, change.wrote) ELSE least
         \/ fetch' = fetch /\ least' = least
      /\ at' = IF change.reply = "ok" /\ choice.leaves THEN Screen!Away ELSE at
      /\ UNCHANGED <<choice, stored, facts, me, seen, spent>>
  BY DEF Screen!Land
<1>3. /\ least \in 0..stored /\ stored \in Nat /\ change.wrote \in Nat /\ change.wrote <= stored
      /\ spent.changes \in Nat
  BY <1>1, ScreenFields DEF ScreenStands, ScreenInv, ShownIsFresh
<1>4. /\ least' \in 0..stored
      /\ least' # least => choice.promises /\ change.wrote > 0 /\ Screen!Invalidate
                           /\ (change.reply = "ok" \/ choice.settles)
  BY <1>2, <1>3 DEF Screen!Larger
<1>5. fetch' \in Fetches /\ FetchIsAllowed'
  <2>1. CASE Screen!Invalidate
    BY <1>2, <2>1, InvalidateKeeps
  <2>2. CASE fetch' = fetch
    BY <1>1, <1>2, <2>2 DEF ScreenStands, ScreenInv, FetchIsAllowed
  <2> QED
    BY <1>2, <2>1, <2>2
<1>6. ScreenStands'
  <2>1. change' \in Changes'
    BY <1>2, NoChangeIs DEF Changes
  <2> QED
    BY <1>1, <1>2, <1>4, <1>5, <2>1 DEF ScreenStands
<1>7. LearnedInTime' /\ OpenIsAllowed' /\ ChangeIsAllowed'
  BY <1>2, <1>3, NoChangeIs DEF ScreenInv, LearnedInTime, OpenIsAllowed, ChangeIsAllowed
<1>8. ASSUME ~Screen!Exempt(choice), at' # Screen!Away \/ choice.keeps PROVE FreshFetch' /\ FreshSeen'
  <2>1. FreshFetch /\ FreshSeen
    BY <1>2, <1>8 DEF ScreenInv, ShownIsFresh
  <2>2. CASE least' = least
    <3>1. CASE Screen!Invalidate
      BY <1>2, <2>1, <2>2, <3>1, InvalidateKeeps
    <3>2. CASE fetch' = fetch
      BY <1>2, <2>1, <2>2, <3>2 DEF FreshFetch, FreshSeen
    <3> QED
      BY <1>2, <3>1, <3>2
  <2>3. CASE least' # least
    <3>1. choice.promises /\ Screen!MayWrite(choice)
      BY <1>4, <2>3 DEF ScreenInv, ShownIsFresh
    <3>2. ~choice.keeps /\ (choice.covers \/ (choice.leaves /\ ~choice.settles))
      BY <1>8, <3>1 DEF Screen!Agree, Screen!Refreshed
    <3>3. at' # Screen!Away
      BY <1>8, <3>2
    <3>4. choice.covers /\ at # Screen!Away
      BY <1>2, <1>4, <2>3, <3>2, <3>3
    <3> QED
      BY <1>2, <1>4, <2>3, <3>4, InvalidateKeeps
  <2> QED
    BY <2>2, <2>3
<1>9. ShownIsFresh'
  BY <1>2, <1>3, <1>8, NoChangeIs DEF ShownIsFresh
<1> QED
  BY <1>5, <1>6, <1>7, <1>9 DEF ScreenInv

\* An answer nobody heard: what was written is written, and the page is told nothing.
LEMMA ScreenLoses == ASSUME ScreenInv, Screen!Lose PROVE ScreenInv'
<1>1. ScreenStands
  BY DEF ScreenInv
<1>2. /\ \/ change' = Screen!NoChange
         \/ change' = [Screen!NoChange EXCEPT !.left = change.left, !.reply = "orphan"]
      /\ Screen!Invalidate \/ fetch' = fetch
      /\ UNCHANGED <<choice, stored, facts, me, at, seen, least, spent>>
  BY DEF Screen!Lose
<1>3. /\ change' \in Changes /\ change'.basis = 0 /\ change'.wrote = 0
      /\ change'.reply \in {"idle", "orphan"}
      /\ change'.left # <<>> => change'.reply # "idle"
  <2>1. CASE change' = Screen!NoChange
    BY <2>1, NoChangeIs
  <2>2. CASE change' = [Screen!NoChange EXCEPT !.left = change.left, !.reply = "orphan"]
    <3>1. change.left \in Seq(Screen!StepsOf(choice))
      BY <1>1, ScreenFields
    <3> QED
      BY <2>2, <3>1 DEF Screen!NoChange, Changes, Replies
  <2> QED
    BY <1>2, <2>1, <2>2
<1>4. fetch' \in Fetches /\ FetchIsAllowed' /\ (FreshFetch /\ FreshSeen => FreshFetch' /\ FreshSeen')
  <2>1. CASE Screen!Invalidate
    BY <1>2, <2>1, InvalidateKeeps
  <2>2. CASE fetch' = fetch
    BY <1>1, <1>2, <2>2 DEF ScreenStands, ScreenInv, FetchIsAllowed, FreshFetch, FreshSeen
  <2> QED
    BY <1>2, <2>1, <2>2
<1>5. ScreenStands'
  BY <1>1, <1>2, <1>3, <1>4 DEF ScreenStands, Changes
<1>6. stored \in Nat /\ spent.changes \in Nat
  BY <1>1, ScreenFields DEF ScreenStands
<1>7. ChangeIsAllowed'
  BY <1>2, <1>3, <1>6 DEF ChangeIsAllowed
<1>8. ShownIsFresh'
  <2>1. /\ choice' = choice /\ at' = at /\ stored' = stored
        /\ change'.wrote <= stored' /\ ~(change'.wrote > 0)
    BY <1>2, <1>3, <1>6
  <2> QED
    BY <1>4, <2>1 DEF ScreenInv, ShownIsFresh
<1> QED
  BY <1>2, <1>4, <1>5, <1>7, <1>8 DEF ScreenInv, LearnedInTime, OpenIsAllowed

\* Every step of a page and of those who change its rows keeps what it may expect.
LEMMA ScreenStep == ScreenInv /\ ~WithControlPlane /\ [Screen!Next]_screenVars => ScreenInv'
<1> SUFFICES ASSUME ScreenInv, ~WithControlPlane, [Screen!Next]_screenVars PROVE ScreenInv'
  OBVIOUS
<1>1. Screen!Agree(choice)
  BY ChoiceAgrees DEF ScreenInv
<1>2. CASE Screen!Next
  BY <1>1, <1>2, ScreenAsks, ScreenAnswers, ScreenOthers, ScreenSends, ScreenHandles, ScreenLands,
     ScreenLoses DEF Screen!Next
<1>3. CASE UNCHANGED screenVars
  BY <1>3 DEF screenVars, ScreenInv, ScreenStands, Changes, LearnedInTime, OpenIsAllowed, FetchIsAllowed,
              ChangeIsAllowed, ShownIsFresh, FreshFetch, FreshSeen
<1> QED
  BY <1>2, <1>3

\* A page that was never opened expects nothing.
LEMMA ScreenInit == Screen!Init => ScreenInv
<1> SUFFICES ASSUME Screen!Init PROVE ScreenInv
  OBVIOUS
<1>1. /\ choice \in Screen!Situations /\ stored = 0 /\ least = 0
      /\ facts \in SUBSET Screen!Facts
      /\ me = [may |-> Screen!Rights(facts), since |-> 0] /\ at = Screen!Away
      /\ seen = [drawn |-> FALSE, row |-> 0, failed |-> FALSE, joined |-> FALSE]
      /\ fetch = Screen!NoFetch /\ change = Screen!NoChange
      /\ spent = [elsewhere |-> 0, changes |-> 0, saves |-> 0, visits |-> 0]
  BY DEF Screen!Init, Screen!Unspent
<1>2. me \in Learnings /\ me.may = Screen!Rights(facts) /\ me.since = 0
  BY <1>1 DEF Learnings, Screen!Rights
<1>3. seen \in Drawings /\ spent \in Spendings /\ spent.changes = 0 /\ ~seen.drawn
  BY <1>1 DEF Drawings, Spendings
<1>4. ScreenStands
  BY <1>1, <1>2, <1>3, NoFetchIs, NoChangeIs DEF ScreenStands
<1> QED
  BY <1>1, <1>2, <1>3, <1>4, NoFetchIs, NoChangeIs
     DEF ScreenInv, LearnedInTime, OpenIsAllowed, FetchIsAllowed, ChangeIsAllowed, ShownIsFresh,
         FreshFetch, FreshSeen

\* app/src/lib/*/queries.ts and mutations.ts: whatever others do and however often pages are opened, a
\* page that has nothing out shows what it was told was saved, but for the skill that a page removes
\* with an onSuccess of its own, and nobody is refused what a page offered unless their rights changed
\* after it was opened.  The panel of WithControlPlane is offered to more people than its routes answer.
THEOREM ScreensKeptAlways == ~WithControlPlane => (Spec => []ScreensKept)
<1> SUFFICES ASSUME ~WithControlPlane PROVE Spec => []ScreensKept
  OBVIOUS
<1>1. [Next]_vars => [Screen!Next]_screenVars
  <2>1. CASE Secrets
    BY <2>1 DEF Secrets, shelfVars, screenVars
  <2>2. CASE Shelves
    BY <2>2 DEF Shelves, screenVars
  <2>3. CASE UNCHANGED vars
    BY <2>3 DEF vars, shelfVars, screenVars
  <2> QED
    BY <2>1, <2>2, <2>3 DEF Next
<1>2. Init => ScreenInv
  BY ScreenInit DEF Init
<1>3. ScreenInv => ScreensKept
  <2> SUFFICES ASSUME ScreenInv PROVE ScreensKept
    OBVIOUS
  <2>1. Screen!SavedIsShown
    BY ScreenFields DEF ScreenInv, ShownIsFresh, FreshSeen, Screen!SavedIsShown, Screen!Quiet
  <2>2. Screen!OfferedIsAllowed
    <3>1. /\ spent.changes \in Nat /\ change.basis \in Nat /\ fetch.basis \in Nat
          /\ change.basis <= spent.changes /\ fetch.basis <= spent.changes
      BY ScreenFields DEF ScreenInv, FetchIsAllowed, ChangeIsAllowed
    <3> QED
      BY <3>1 DEF ScreenInv, FetchIsAllowed, ChangeIsAllowed, Screen!OfferedIsAllowed
  <2> QED
    BY <2>1, <2>2 DEF ScreensKept
<1>4. ScreenInv /\ [Next]_vars => ScreenInv'
  BY <1>1, ScreenStep
<1> QED
  BY <1>2, <1>3, <1>4, PTL DEF Spec
=============================================================================
