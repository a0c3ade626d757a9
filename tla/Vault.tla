------------------------------- MODULE Vault -------------------------------
(***************************************************************************)
(* The connections vault: credentials for outside services that            *)
(* administrators save and grant to Bots, and that the server uses for     *)
(* them.  A request to save (connections/store.ts upsert) reads the row,   *)
(* encrypts, and writes; a use reads the grant and the row one await       *)
(* after the other: through the egress proxy (egress/routes.ts) or into    *)
(* the Bot's browser (gateway.typeSecret, useSession).  A Bot's computer   *)
(* may also fetch what 1Password holds (app.ts, /computer-cred), and there *)
(* no grant is read.  A sign-in fills a connection's session: supervised   *)
(* or verified (connections/verify.ts) or by a device code                 *)
(* (connections/msauth.ts).  A secret is a number, `Item` is what          *)
(* 1Password holds, and 0 stands for null throughout.                      *)
(***************************************************************************)
EXTENDS Naturals, FiniteSets

CONSTANTS
    Ids, Bots, Urls,
    Savers,        \* requests of administrators that may be served at once
    Uses,          \* uses by Bots, and sign-ins, that may be served at once
    MaxSecrets,    \* secrets typed in all
    MaxBorn,       \* connections created in all
    OneAtATime     \* TRUE: an administrator's save or removal overlaps nothing

VARIABLES
    conn,      \* the rows of `connections`
    grants,    \* the rows of `connection_grants`
    save,      \* upserts between their read and their write
    use,       \* uses and sign-ins under way
    code,      \* pendingDeviceCodes: the ids a sign-in was started for
    born,      \* history: connections created so far
    typed,     \* history: secrets typed so far
    entered,   \* history: <<url, secret>> that one saved request held
    granted,   \* history: <<connection, Bot>> ever granted
    out        \* the use the last step completed, and whether it wrote its audit row

vars == <<conn, grants, save, use, code, born, typed, entered, granted, out>>
history == <<born, typed, entered, granted>>

Item == MaxSecrets + 1
Secrets == 0 .. Item
Kinds == {"api", "web"}
NoUrl == "no url"

\* What PUT /admin/connections/:id accepts: a name, a kind and a service, and rules that
\* parse.  What is left out of the body is null, but an absent secret or seed keeps the
\* stored one.
SaveInput == [kind : Kinds, url : Urls \cup {NoUrl}, secret : BOOLEAN, item : BOOLEAN]

Absent == [born |-> 0]
Present(id) == conn[id].born # 0

Idle == [at |-> "idle"]
Nothing == [via |-> "nothing"]

Init ==
    /\ conn = [id \in Ids |-> Absent]
    /\ grants = {}
    /\ save = [s \in Savers |-> Idle]
    /\ use = [u \in Uses |-> Idle]
    /\ code = {}
    /\ born = 0 /\ typed = 0
    /\ entered = {} /\ granted = {} /\ out = Nothing

\* Under OneAtATime a use waits for the saves, and what an administrator does for both.
NoSave == OneAtATime => \A s \in Savers : save[s] = Idle
Undisturbed == NoSave /\ (OneAtATime => \A u \in Uses : use[u] = Idle)

(***************************************************************************)
(* Saving, granting and removing                                           *)
(***************************************************************************)

\* As if an address could be changed alone.
RefusedNewOnly(id, input) == ~input.secret /\ ~Present(id) /\ input.kind # "web"

\* The checks of upsert: a new connection needs a secret unless people sign in to it, and
\* an address changes only together with the secret.
Refused(id, input) ==
    /\ ~input.secret
    /\ IF Present(id) THEN input.url # conn[id].url ELSE input.kind # "web"

\* The route's body and upsert up to the encryption; a refused request changes nothing.
BeginSave(s, id, input) ==
    /\ save[s] = Idle /\ Undisturbed
    /\ ~Refused(id, input)
    /\ input.secret => typed < MaxSecrets
    /\ save' = [save EXCEPT ![s] = [at |-> "read", id |-> id, input |-> input,
                                    existed |-> Present(id),
                                    secret |-> IF input.secret THEN typed + 1 ELSE 0]]
    /\ typed' = IF input.secret THEN typed + 1 ELSE typed
    /\ UNCHANGED <<conn, grants, use, code, born, entered, granted>>

\* What the row holds after the write: an insert has no session, an update keeps it.
Row(s, old, n) ==
    LET r == save[s] IN
    [born |-> n, kind |-> r.input.kind, url |-> r.input.url, item |-> r.input.item,
     secret |-> IF r.secret # 0 THEN r.secret ELSE IF n = old.born THEN old.secret ELSE 0,
     session |-> n = old.born /\ old.session]

\* The update or the insert.  An update whose row is gone writes nothing and an insert over
\* a row that came meanwhile is refused by the primary key.
Write(s) ==
    LET r == save[s]
        new == ~r.existed /\ ~Present(r.id)
    IN  /\ r.at = "read"
        /\ new => born < MaxBorn
        /\ save' = [save EXCEPT ![s] = Idle]
        /\ conn' = IF new \/ (r.existed /\ Present(r.id))
                   THEN [conn EXCEPT ![r.id] = Row(s, conn[r.id], IF new THEN born + 1 ELSE conn[r.id].born)]
                   ELSE conn
        /\ born' = IF new THEN born + 1 ELSE born
        /\ entered' = entered \cup {<<r.input.url, x>> :
                                    x \in ({r.secret} \ {0}) \cup IF r.input.item THEN {Item} ELSE {}}
        /\ UNCHANGED <<grants, use, code, typed, granted>>

\* As if the grants outlived the connection.
RemoveRowOnly(id) ==
    /\ Present(id) /\ Undisturbed
    /\ conn' = [conn EXCEPT ![id] = Absent]
    /\ UNCHANGED <<grants, save, use, code, history>>

\* DELETE /admin/connections/:id: the row, and by the foreign key its grants.
Remove(id) ==
    /\ Present(id) /\ Undisturbed
    /\ conn' = [conn EXCEPT ![id] = Absent]
    /\ grants' = {g \in grants : g[1] # id}
    /\ UNCHANGED <<save, use, code, history>>

\* POST /admin/connections/:id/grants: the connection is looked up and the row inserted.
Grant(id, bot) ==
    /\ Present(id)
    /\ <<id, bot>> \notin grants
    /\ grants' = grants \cup {<<id, bot>>}
    /\ granted' = granted \cup {<<conn[id].born, bot>>}
    /\ UNCHANGED <<conn, save, use, code, born, typed, entered>>

\* DELETE /admin/connections/:id/grants/:agentId.
Revoke(id, bot) ==
    /\ <<id, bot>> \in grants
    /\ grants' = grants \ {<<id, bot>>}
    /\ UNCHANGED <<conn, save, use, code, history>>

(***************************************************************************)
(* Use through the egress proxy                                            *)
(***************************************************************************)

\* vault.get: the address and the rules are the row's as it is now.
EgressLooks(u, bot, id) ==
    /\ use[u] = Idle /\ NoSave
    /\ Present(id) /\ conn[id].kind = "api" /\ conn[id].url # NoUrl
    /\ use' = [use EXCEPT ![u] = [at |-> "looked", bot |-> bot, id |-> id, url |-> conn[id].url]]
    /\ UNCHANGED <<conn, grants, save, code, history>>

\* As if a grant on any connection would do.
EgressJudgesBot(u) ==
    LET r == use[u] IN
    /\ r.at = "looked"
    /\ use' = [use EXCEPT ![u].at = "cleared"]
    /\ UNCHANGED <<conn, grants, save, code, history>>

\* vault.allowed, and the rules of the row that was read, which may or may not match the
\* path: forwarded, or refused with a 403.
EgressJudges(u) ==
    LET r == use[u] IN
    /\ r.at = "looked"
    /\ \/ <<r.id, r.bot>> \in grants /\ use' = [use EXCEPT ![u].at = "cleared"]
       \/ use' = [use EXCEPT ![u] = Idle]
    /\ UNCHANGED <<conn, grants, save, code, history>>

\* secretOf: the item's password if the row names one, else the stored secret, else none.
SecretOf(id) ==
    IF ~Present(id) THEN 0 ELSE IF conn[id].item THEN Item ELSE conn[id].secret

\* secretOf, then the request is sent to the address read before.
EgressSends(u) ==
    LET r == use[u] IN
    /\ r.at = "cleared"
    /\ use' = [use EXCEPT ![u] = Idle]
    /\ out' = IF SecretOf(r.id) = 0 THEN Nothing
              ELSE [via |-> "egress", url |-> r.url, secret |-> SecretOf(r.id),
                    of |-> conn[r.id].born, bot |-> r.bot, row |-> FALSE]
    /\ UNCHANGED <<conn, grants, save, code, history>>

(***************************************************************************)
(* Use in the Bot's browser                                                *)
(***************************************************************************)

\* typeSecret and useSession: the grant first.
AskValue(u, bot, id, what) ==
    /\ use[u] = Idle /\ NoSave
    /\ <<id, bot>> \in grants
    /\ use' = [use EXCEPT ![u] = [at |-> "allowed", bot |-> bot, id |-> id, what |-> what]]
    /\ UNCHANGED <<conn, grants, save, code, history>>

\* Then the value, whosever the id is by now; without one the verb is refused.  It is
\* posted to the computer, and the row about it comes last: it may be lost.
HandValue(u) ==
    LET r == use[u]
        value == IF r.what = "session" THEN Present(r.id) /\ conn[r.id].session
                 ELSE SecretOf(r.id) # 0
    IN  /\ r.at = "allowed"
        /\ use' = [use EXCEPT ![u] = Idle]
        /\ out' \in IF ~value THEN {Nothing}
                    ELSE [via : {"browser"}, of : {conn[r.id].born}, bot : {r.bot}, row : BOOLEAN]
        /\ UNCHANGED <<conn, grants, save, code, history>>

(***************************************************************************)
(* A computer fetches what 1Password holds                                 *)
(***************************************************************************)

\* GET /computer-cred/:connection, asked by the Bot's computer with the token all computers
\* share: the row is read, and no grant.
AskCred(u, bot, id) ==
    /\ use[u] = Idle /\ NoSave
    /\ Present(id) /\ conn[id].item
    /\ use' = [use EXCEPT ![u] = [at |-> "fetching", bot |-> bot, of |-> conn[id].born]]
    /\ UNCHANGED <<conn, grants, save, code, history>>

\* opCredsOf: what 1Password answers is handed over once the row is written; a failure on
\* the way hands over nothing.
HandCred(u) ==
    LET r == use[u] IN
    /\ r.at = "fetching"
    /\ use' = [use EXCEPT ![u] = Idle]
    /\ out' \in {Nothing, [via |-> "computer", of |-> r.of, bot |-> r.bot, row |-> TRUE]}
    /\ UNCHANGED <<conn, grants, save, code, history>>

(***************************************************************************)
(* Signing in                                                              *)
(***************************************************************************)

\* connectCapture, and verify after its walk signed in: the connection and the grant are
\* read, the Bot's session is exported, and stored.
BeginCapture(u, bot, id) ==
    /\ use[u] = Idle /\ NoSave
    /\ Present(id) /\ <<id, bot>> \in grants
    /\ use' = [use EXCEPT ![u] = [at |-> "capturing", id |-> id]]
    /\ UNCHANGED <<conn, grants, save, code, history>>

\* storeSession: an update, which finds the row or does not.
StoreSession(id) ==
    conn' = IF Present(id) THEN [conn EXCEPT ![id].session = TRUE] ELSE conn

Capture(u) ==
    /\ use[u].at = "capturing"
    /\ use' = [use EXCEPT ![u] = Idle]
    /\ StoreSession(use[u].id) \/ UNCHANGED conn
    /\ UNCHANGED <<grants, save, code, history>>

\* ms-connect/start: the connection is made if there is none, as a web login with neither address
\* nor secret; then a code is asked for, and kept under the id unless Microsoft refuses.
StartDeviceCode(id) ==
    /\ Undisturbed
    /\ ~Present(id) => born < MaxBorn
    /\ conn' = IF Present(id) THEN conn
               ELSE [conn EXCEPT ![id] = [born |-> born + 1, kind |-> "web", url |-> NoUrl,
                                          item |-> FALSE, secret |-> 0, session |-> FALSE]]
    /\ born' = IF Present(id) THEN born ELSE born + 1
    /\ code' \in {code, code \cup {id}}
    /\ UNCHANGED <<grants, save, use, typed, entered, granted>>

\* ms-connect/poll: the code is read and the token asked for.
PollDeviceCode(u, id) ==
    /\ use[u] = Idle /\ id \in code
    /\ use' = [use EXCEPT ![u] = [at |-> "polling", id |-> id]]
    /\ UNCHANGED <<conn, grants, save, code, history>>

\* The person has signed in: whatever is kept under the id is forgotten, and the token is
\* stored on the connection of that id.
PollConnects(u) ==
    /\ use[u].at = "polling"
    /\ use' = [use EXCEPT ![u] = Idle]
    /\ code' = code \ {use[u].id}
    /\ StoreSession(use[u].id)
    /\ UNCHANGED <<grants, save, history>>

\* Still pending, or failed and forgotten.
PollEnds(u) ==
    /\ use[u].at = "polling"
    /\ use' = [use EXCEPT ![u] = Idle]
    /\ code' \in {code, code \ {use[u].id}}
    /\ UNCHANGED <<conn, grants, save, history>>

\* The process starts again: the codes lived in it.
Restart ==
    /\ code # {} /\ code' = {}
    /\ save' = [s \in Savers |-> Idle] /\ use' = [u \in Uses |-> Idle]
    /\ UNCHANGED <<conn, grants, history>>

\* What administrators do.
Administer ==
    \/ \E s \in Savers : Write(s) \/ \E id \in Ids, input \in SaveInput : BeginSave(s, id, input)
    \/ \E id \in Ids : Remove(id) \/ StartDeviceCode(id)
    \/ \E id \in Ids, bot \in Bots : Grant(id, bot) \/ Revoke(id, bot)

\* The steps of a use or a sign-in that complete no use.
Proceed(u) ==
    \/ EgressJudges(u) \/ Capture(u) \/ PollConnects(u) \/ PollEnds(u)
    \/ \E id \in Ids : PollDeviceCode(u, id)
    \/ \E id \in Ids, bot \in Bots :
          \/ EgressLooks(u, bot, id)
          \/ AskCred(u, bot, id)
          \/ BeginCapture(u, bot, id)
          \/ \E what \in {"password", "session"} : AskValue(u, bot, id, what)

Next ==
    \/ Administer /\ out' = Nothing
    \/ \E u \in Uses : (Proceed(u) /\ out' = Nothing) \/ EgressSends(u) \/ HandValue(u) \/ HandCred(u)
    \/ Restart /\ out' = Nothing

Spec == Init /\ [][Next]_vars

-----------------------------------------------------------------------------
\* The rows and requests have the shape the schema and the handlers give them.
TypeOK ==
    /\ grants \subseteq {id \in Ids : Present(id)} \X Bots
    /\ \A id \in Ids : Present(id) => conn[id].secret \in Secrets /\ conn[id].url \in Urls \cup {NoUrl}
    /\ code \subseteq Ids

\* A secret leaves for no address but one it was saved with: not after the address was
\* edited, the connection removed and made anew, or a session signed in.  Holds while an
\* administrator's request overlaps nothing (OneAtATime).
SecretGoesHome == out.via = "egress" => <<out.url, out.secret>> \in entered

\* Nothing of a connection is forwarded or typed for a Bot that was never granted that
\* connection: a grant does not pass to a later connection of the same id.  Holds under
\* OneAtATime, and of these two ways only.
GrantCoversUse == out.via \in {"egress", "browser"} => <<out.of, out.bot>> \in granted

\* What is fetched for a computer has left an audit row by then.
FetchIsRecorded == out.via = "computer" => out.row

\* Both from connections/store.ts:12-16: a grant is checked first, and a row is left.
\* Neither is so: a computer fetches without a grant, and the egress proxy and the browser
\* may leave no row.
GrantCoversEveryUse == out.via # "nothing" => <<out.of, out.bot>> \in granted
UseIsRecorded == out.via = "egress" => out.row
=============================================================================
