------------------------------- MODULE People -------------------------------
(***************************************************************************)
(* Who may use a deployment, and what is left of somebody who may not any  *)
(* more: signing in (auth/index.ts and auth/roles.ts), the two routes an   *)
(* administrator changes people with (app.ts, people/store.ts) and the     *)
(* vendor accounts a person connects (plugins/routes.ts, plugins/oauth.ts  *)
(* and the connection half of plugins/store.ts), for one vendor's server.  *)
(*                                                                         *)
(* Every request is a sequence of awaited reads and writes of one          *)
(* database, so a request is a record that remembers what it has read, and *)
(* requests interleave between any two awaits.  With Patient a request is  *)
(* only begun when no other is under way.                                  *)
(***************************************************************************)
EXTENDS FiniteSets, Naturals

CONSTANTS Persons,      \* addresses; an account has the address as its id
          Configured,   \* the addresses INITIAL_ADMIN_EMAILS names
          Founders,     \* administrators at the start, signed in
          MaxActs,      \* requests
          MaxSecrets,   \* rows of the credential vault
          NoOne,
          MaxFaults,    \* writes to the vault that fail
          Patient       \* BOOLEAN: one request at a time

VARIABLES account,      \* the people who have a user row
          role,         \* user_roles: "none" when no row
          denied,       \* revoked_access
          session,      \* the people with a session row
          owner,        \* the vault: whose refresh token a row holds
          live,         \* the vault's rows that are not revoked
          pointer,      \* mcp_user_credentials, one vendor
          act,          \* each request's progress
          told,         \* what the last answered access request said
          faults

vars == <<account, role, denied, session, owner, live, pointer, act, told,
          faults>>

Roles == {"admin", "user"}
Acts == 1..MaxActs          \* in the order they are sent
Secrets == 1..MaxSecrets    \* in the order they are written

Steps == {"unsent", "done",
          "seed", "check", "insert", "floor",
          "find role", "set role", "find access", "deny", "restore", "owned",
          "retire",
          "consent", "create", "point", "tidy"}

Idle == [step |-> "unsent", of |-> NoOne, by |-> NoOne, to |-> NoOne,
         old |-> NoOne, set |-> {}]

TypeOK ==
  /\ account \subseteq Persons
  /\ role \in [Persons -> Roles \cup {"none"}]
  /\ denied \subseteq Persons
  /\ session \subseteq account
  /\ owner \in [Secrets -> Persons \cup {NoOne}]
  /\ live \subseteq {s \in Secrets : owner[s] # NoOne}
  /\ pointer \in [Persons -> Secrets \cup {NoOne}]
  /\ \A a \in Acts : /\ act[a].step \in Steps
                     /\ act[a].of \in Persons \cup {NoOne}
                     /\ act[a].set \subseteq Secrets
  /\ told \in [Persons -> {"nothing", "removed", "here"}]
  /\ faults \in 0..MaxFaults

(***************************************************************************)
(* isConfiguredAdmin and roleForEmail.                                     *)
(***************************************************************************)
IsConfiguredAdmin(p) == p \in Configured
RoleForEmail(p) == IF IsConfiguredAdmin(p) THEN "admin" ELSE "user"

Init ==
  /\ account = Founders
  /\ role = [p \in Persons |-> IF p \in Founders THEN "admin" ELSE "none"]
  /\ denied = {}
  /\ session = Founders
  /\ owner = [s \in Secrets |-> NoOne]
  /\ live = {}
  /\ pointer = [p \in Persons |-> NoOne]
  /\ act = [a \in Acts |-> Idle]
  /\ told = [p \in Persons |-> "nothing"]
  /\ faults = 0

AtRest == \A a \in Acts : act[a].step \in {"unsent", "done"}

(***************************************************************************)
(* Every request begins here: it is the next to be sent, and a patient     *)
(* deployment has no other under way.                                      *)
(***************************************************************************)
MayBegin(a) == /\ act[a].step = "unsent"
               /\ \A b \in 1..(a - 1) : act[b].step # "unsent"
               /\ Patient => AtRest

Begin(a, step, p, by, to) ==
  act' = [act EXCEPT ![a] = [Idle EXCEPT !.step = step, !.of = p,
                                         !.by = by, !.to = to]]

To(a, step) ==
  act' = [act EXCEPT ![a] = IF step = "done" THEN [Idle EXCEPT !.step = step]
                                             ELSE [@ EXCEPT !.step = step]]

vaultVars == <<owner, live, pointer, faults>>
peopleVars == <<account, role, denied, session, told>>

-----------------------------------------------------------------------------
(***************************************************************************)
(* Signing in.  Somebody new is checked before the account exists; their   *)
(* role is seeded after it does.  Somebody known goes straight to the      *)
(* session's own check.                                                    *)
(***************************************************************************)
MeetNew(a, p) ==
  /\ MayBegin(a) /\ p \notin account
  /\ \/ p \in denied /\ Begin(a, "done", NoOne, NoOne, NoOne) /\ UNCHANGED account
     \/ p \notin denied /\ Begin(a, "seed", p, NoOne, NoOne)
        /\ account' = account \cup {p}
  /\ UNCHANGED <<role, denied, session, told, vaultVars>>

SeedRole(a) ==
  /\ act[a].step = "seed"
  /\ role' = [role EXCEPT ![act[a].of] = RoleForEmail(act[a].of)]
  /\ To(a, "check")
  /\ UNCHANGED <<account, denied, session, told, vaultVars>>

MeetKnown(a, p) ==
  /\ MayBegin(a) /\ p \in account
  /\ Begin(a, "check", p, NoOne, NoOne)
  /\ UNCHANGED <<peopleVars, vaultVars>>

(***************************************************************************)
(* session.create.before: the deny list is read; a refusal is a row and a  *)
(* 403.                                                                    *)
(***************************************************************************)
Check(a) ==
  /\ act[a].step = "check"
  /\ To(a, IF act[a].of \in denied THEN "done" ELSE "insert")
  /\ UNCHANGED <<peopleVars, vaultVars>>

(***************************************************************************)
(* The session row is written by the library between the two hooks, and    *)
(* session.create.after re-applies the configured floor.                   *)
(***************************************************************************)
InsertSession(a) ==
  /\ act[a].step = "insert"
  /\ session' = session \cup {act[a].of}
  /\ To(a, "floor")
  /\ UNCHANGED <<account, role, denied, told, vaultVars>>

ApplyConfiguredAdmin(a) ==
  /\ act[a].step = "floor"
  /\ role' = IF IsConfiguredAdmin(act[a].of)
               THEN [role EXCEPT ![act[a].of] = "admin"] ELSE role
  /\ To(a, "done")
  /\ UNCHANGED <<account, denied, session, told, vaultVars>>

-----------------------------------------------------------------------------
(***************************************************************************)
(* requireUser and requireAdmin: the session and the role are read from    *)
(* their tables at the start of the request and not again.                 *)
(***************************************************************************)
RequireUser(p) == p \in session /\ role[p] # "none"
RequireAdmin(p) == p \in session /\ role[p] = "admin"

AskRole(a, by, p, to) ==
  /\ MayBegin(a) /\ RequireAdmin(by) /\ p \in account
  /\ Begin(a, "find role", p, by, to)
  /\ UNCHANGED <<peopleVars, vaultVars>>

FindForRoleSelf(a) ==
  LET p == act[a].of  to == act[a].to IN
  /\ act[a].step = "find role"
  /\ To(a, IF \/ IsConfiguredAdmin(p) /\ to # "admin"
              \/ role[p] = to
           THEN "done" ELSE "set role")
  /\ UNCHANGED <<peopleVars, vaultVars>>

(***************************************************************************)
(* The person is read; the configured floor and the caller's own role are  *)
(* refused, and a role already held is nothing to do.                      *)
(***************************************************************************)
FindForRole(a) ==
  LET p == act[a].of  to == act[a].to IN
  /\ act[a].step = "find role"
  /\ To(a, IF \/ IsConfiguredAdmin(p) /\ to # "admin"
              \/ act[a].by = p /\ to # "admin"
              \/ role[p] = to
           THEN "done" ELSE "set role")
  /\ UNCHANGED <<peopleVars, vaultVars>>

SetRole(a) ==
  /\ act[a].step = "set role"
  /\ role' = [role EXCEPT ![act[a].of] = act[a].to]
  /\ To(a, "done")
  /\ UNCHANGED <<account, denied, session, told, vaultVars>>

AskAccess(a, by, p, to) ==
  /\ MayBegin(a) /\ RequireAdmin(by) /\ p \in account
  /\ Begin(a, "find access", p, by, to)
  /\ UNCHANGED <<peopleVars, vaultVars>>

(***************************************************************************)
(* The person is read: the configured floor and the caller are refused,    *)
(* and a person who is already what is asked is answered as they are.      *)
(***************************************************************************)
FindForAccess(a) ==
  LET p == act[a].of
      removing == act[a].to = "removed"
      refused == removing /\ (IsConfiguredAdmin(p) \/ act[a].by = p)
      already == (p \in denied) = removing
  IN
  /\ act[a].step = "find access"
  /\ \/ refused /\ To(a, "done") /\ UNCHANGED told
     \/ /\ ~refused /\ already
        /\ told' = [told EXCEPT ![p] = act[a].to]
        /\ To(a, "done")
     \/ /\ ~refused /\ ~already
        /\ To(a, IF removing THEN "deny" ELSE "restore")
        /\ UNCHANGED told
  /\ UNCHANGED <<account, role, denied, session, vaultVars>>

DenyOnly(a) ==
  /\ act[a].step = "deny"
  /\ denied' = denied \cup {act[a].of}
  /\ To(a, "owned")
  /\ UNCHANGED <<account, role, session, told, vaultVars>>

(***************************************************************************)
(* revoke: the deny-list row and the end of the sessions, one transaction. *)
(***************************************************************************)
Deny(a) ==
  /\ act[a].step = "deny"
  /\ denied' = denied \cup {act[a].of}
  /\ session' = session \ {act[a].of}
  /\ To(a, "owned")
  /\ UNCHANGED <<account, role, told, vaultVars>>

(***************************************************************************)
(* retireConnectionsFor, after that transaction: the rows of the vault     *)
(* keyed on the person are read, each live one revoked with a row of its   *)
(* own, and the pointers deleted.  A vault that throws ends the request.   *)
(***************************************************************************)
ReadOwned(a) ==
  /\ act[a].step = "owned"
  /\ act' = [act EXCEPT ![a].step = "retire",
                        ![a].set = {s \in live : owner[s] = act[a].of}]
  /\ UNCHANGED <<peopleVars, vaultVars>>

RetireOne(a) ==
  /\ act[a].step = "retire"
  /\ \E s \in act[a].set :
       /\ live' = live \ {s}
       /\ act' = [act EXCEPT ![a].set = @ \ {s}]
  /\ UNCHANGED <<owner, pointer, faults, peopleVars>>

RetireFails(a) ==
  /\ act[a].step = "retire" /\ act[a].set # {} /\ faults < MaxFaults
  /\ faults' = faults + 1
  /\ To(a, "done")
  /\ UNCHANGED <<owner, live, pointer, peopleVars>>

Retired(a) ==
  /\ act[a].step = "retire" /\ act[a].set = {}
  /\ pointer' = [pointer EXCEPT ![act[a].of] = NoOne]
  /\ told' = [told EXCEPT ![act[a].of] = "removed"]
  /\ To(a, "done")
  /\ UNCHANGED <<account, role, denied, session, owner, live, faults>>

Restore(a) ==
  /\ act[a].step = "restore"
  /\ denied' = denied \ {act[a].of}
  /\ told' = [told EXCEPT ![act[a].of] = "here"]
  /\ To(a, "done")
  /\ UNCHANGED <<account, role, session, vaultVars>>

-----------------------------------------------------------------------------
(***************************************************************************)
(* Connecting a vendor account.  The connect route needs a session and     *)
(* signs the person into a state; the callback, minutes later, trusts the  *)
(* state and looks at no session and no deny list.                         *)
(***************************************************************************)
Connect(a, p) ==
  /\ MayBegin(a) /\ RequireUser(p)
  /\ Begin(a, "consent", p, p, NoOne)
  /\ UNCHANGED <<peopleVars, vaultVars>>

(***************************************************************************)
(* The state expires, the consent is refused or the code is not redeemed.  *)
(***************************************************************************)
ConsentFails(a) ==
  /\ act[a].step = "consent"
  /\ To(a, "done")
  /\ UNCHANGED <<peopleVars, vaultVars>>

(***************************************************************************)
(* recordConnection: read the pointer, create the row, move the pointer,   *)
(* revoke what the pointer was, swallowing that failure.                   *)
(***************************************************************************)
Callback(a) ==
  /\ act[a].step = "consent"
  /\ act' = [act EXCEPT ![a].step = "create",
                        ![a].old = pointer[act[a].of]]
  /\ UNCHANGED <<peopleVars, vaultVars>>

CreateCredential(a) ==
  /\ act[a].step = "create"
  /\ \E s \in Secrets :
       /\ owner[s] = NoOne /\ \A o \in 1..(s - 1) : owner[o] # NoOne
       /\ owner' = [owner EXCEPT ![s] = act[a].of]
       /\ live' = live \cup {s}
       /\ act' = [act EXCEPT ![a].step = "point", ![a].set = {s}]
  /\ UNCHANGED <<pointer, faults, peopleVars>>

PointTo(a) ==
  /\ act[a].step = "point"
  /\ \E s \in act[a].set : pointer' = [pointer EXCEPT ![act[a].of] = s]
  /\ To(a, "tidy")
  /\ UNCHANGED <<owner, live, faults, peopleVars>>

RevokePrevious(a) ==
  /\ act[a].step = "tidy"
  /\ \/ live' = live \ {act[a].old} /\ UNCHANGED faults
     \/ /\ act[a].old \in live /\ faults < MaxFaults
        /\ faults' = faults + 1
        /\ UNCHANGED live
  /\ To(a, "done")
  /\ UNCHANGED <<owner, pointer, peopleVars>>

-----------------------------------------------------------------------------
SignIn(a) ==
  \/ \E p \in Persons : MeetNew(a, p) \/ MeetKnown(a, p)
  \/ SeedRole(a) \/ Check(a) \/ InsertSession(a) \/ ApplyConfiguredAdmin(a)

Administer(a) ==
  \/ \E by, p \in Persons :
       \/ \E to \in Roles : AskRole(a, by, p, to)
       \/ \E to \in {"removed", "here"} : AskAccess(a, by, p, to)
  \/ FindForRole(a) \/ SetRole(a)
  \/ FindForAccess(a) \/ Deny(a) \/ Restore(a)
  \/ ReadOwned(a) \/ RetireOne(a) \/ RetireFails(a) \/ Retired(a)

Tie(a) ==
  \/ \E p \in Persons : Connect(a, p)
  \/ ConsentFails(a) \/ Callback(a) \/ CreateCredential(a) \/ PointTo(a)
  \/ RevokePrevious(a)

Next == \E a \in Acts : SignIn(a) \/ Administer(a) \/ Tie(a)

Spec == Init /\ [][Next]_vars

-----------------------------------------------------------------------------
(***************************************************************************)
(* A removal an administrator was told of holds until it is undone: with   *)
(* nothing under way the person has no session and, when no write to the   *)
(* vault failed, no live token of theirs is left in it.                    *)
(* (people/store.ts revoke, session.create.before, retireConnectionsFor)   *)
(***************************************************************************)
RemovalHolds ==
  AtRest => \A p \in Persons : told[p] = "removed" =>
    /\ p \notin session
    /\ faults = 0 => \A s \in live : owner[s] # p

(***************************************************************************)
(* Some administrator can always sign in: the checks on one's own role,    *)
(* one's own access and the configured floor leave at least one who is not *)
(* denied, however roles and access are passed around.                     *)
(* (the role and access routes of app.ts)                                  *)
(***************************************************************************)
AnAdminRemains ==
  AtRest => \E p \in account : role[p] = "admin" /\ p \notin denied

(***************************************************************************)
(* A removal leaves nothing of the person's in the vault even when a write *)
(* failed on the way, because removing them again finishes it.             *)
(* (the comment on the order of people/store.ts revoke)                    *)
(***************************************************************************)
SecretsRetired ==
  AtRest => \A p \in Persons : told[p] = "removed" =>
              \A s \in live : owner[s] # p
=============================================================================
