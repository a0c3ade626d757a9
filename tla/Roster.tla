------------------------------- MODULE Roster -------------------------------
(***************************************************************************)
(* The roster of Bots: agents/profile-store.ts and the routes over it, the *)
(* key a Bot's own endpoint sits behind (agents/auth-header.ts), the token *)
(* a Bot calls tools back with (agents/callback-token.ts), the loader that *)
(* mounts the Bots a person may run (agents/runtime-agents.ts) and the     *)
(* creation of a channel of Bots (channels/routes.ts).                     *)
(*                                                                         *)
(* A request is a READ COMMITTED transaction that takes row locks one by   *)
(* one: an edit the agents row and then the profile row, both FOR UPDATE;  *)
(* a channel the profile rows FOR SHARE and, by the foreign key of each    *)
(* link it inserts, the agents rows FOR KEY SHARE.  The vault is written   *)
(* through the pool, outside of the transaction, so what a rollback undoes *)
(* is the rows and never the vault.                                        *)
(***************************************************************************)
EXTENDS Naturals, Sequences, FiniteSets

CONSTANTS BotIds,       \* the ids a Bot may be given
          Owner,        \* who owns the Bots that are created here
          People,       \* everybody who sends requests, Owner among them
          Admins,       \* those of them who administer
          Txs,          \* requests under way at once
          MaxAsked,     \* how many requests are sent
          None

VARIABLES
    bot,        \* the committed rows of a Bot, agents and agent_profiles
    vault,      \* the state of each key, in the order they were stored
    links,      \* channel_agents: the Bots of each channel, in the order they were made
    hidden,     \* agent_preferences: who hid which Bot
    tx,         \* the requests under way
    locks,      \* the row locks they hold
    token,      \* how many callback tokens were issued
    sent,       \* the Bots whose key went out with a run or that a token acted as, and whether late
    gone,       \* the Bots whose deletion was answered
    failed,     \* the Bots of which a revocation or a commit failed
    asked       \* how many requests were sent

vars == <<bot, vault, links, hidden, tx, locks, token, sent, gone, failed, asked>>

Idle == [op |-> "none", by |-> None, of |-> <<>>, auth |-> FALSE, pc |-> "idle",
         at |-> 0, key |-> 0, prev |-> 0]
Unborn == [state |-> "unborn", public |-> FALSE, system |-> FALSE, key |-> 0, token |-> 0]

Init ==
    /\ \E born \in BotIds, key \in {0, 1}, system \in BOOLEAN :
        /\ bot = [b \in BotIds |-> IF b = born
                                   THEN [state |-> "live", public |-> system, system |-> system,
                                         key |-> key, token |-> 0]
                                   ELSE Unborn]
        /\ vault = IF key = 1 THEN <<"live">> ELSE <<>>
    /\ links = <<>>
    /\ hidden = {}
    /\ tx = [t \in Txs |-> Idle]
    /\ locks = {}
    /\ token = 0
    /\ sent = {}
    /\ gone = {}
    /\ failed = {}
    /\ asked = 0

-----------------------------------------------------------------------------
\* findAccessibleProfile: the row, unless it is deleted or not this person's to see.
Accessible(p, b) ==
    /\ bot[b].state = "live"
    /\ p \in Admins \/ bot[b].public \/ (p = Owner /\ ~bot[b].system)

\* requireManageable, after canManageAgent.
Manageable(p, b) == ~bot[b].system /\ (p = Owner \/ p \in Admins)

\* FOR UPDATE excludes every other lock of the row; FOR SHARE and FOR KEY SHARE go together.
Grantable(t, row, mode) ==
    \A l \in locks : l.row = row /\ l.tx # t => mode # "update" /\ l.mode # "update"

Take(t, row, mode) ==
    /\ Grantable(t, row, mode)
    /\ locks' = locks \cup {[tx |-> t, row |-> row, mode |-> mode]}

Release(t) == locks' = {l \in locks : l.tx # t}

\* Committed or rolled back, the request is over and its locks are free.
End(t) == tx' = [tx EXCEPT ![t] = Idle] /\ Release(t)

RolledBack(t) == End(t) /\ UNCHANGED <<bot, vault, links, hidden, token, sent, gone, asked>>
Abort(t) == RolledBack(t) /\ UNCHANGED failed

Goto(t, pc) == tx' = [tx EXCEPT ![t].pc = pc]

\* A request comes in: an edit with or without a new key, a deletion, a token issued or revoked, a
\* run of a Bot, or a channel of some of them, in the order of their ids.
Send(t) ==
    /\ tx[t].pc = "idle"
    /\ asked < MaxAsked
    /\ asked' = asked + 1
    /\ \E p \in People :
        \/ \E op \in {"update", "delete", "issue", "revoke"}, b \in BotIds, auth \in BOOLEAN :
            /\ auth => op = "update"
            /\ tx' = [tx EXCEPT ![t] = [Idle EXCEPT !.op = op, !.by = p, !.of = <<b>>,
                                                     !.auth = auth, !.pc = "agents"]]
        \/ \E b \in BotIds :
            tx' = [tx EXCEPT ![t] = [Idle EXCEPT !.op = "run", !.by = p, !.of = <<b>>,
                                                 !.pc = "load"]]
        \/ \E of \in {s \in {<<b>> : b \in BotIds} \cup (BotIds \X BotIds) :
                        \A i, j \in DOMAIN s : i # j => s[i] # s[j]} :
            tx' = [tx EXCEPT ![t] = [Idle EXCEPT !.op = "channel", !.by = p, !.of = of,
                                                 !.pc = "share", !.at = 1]]
    /\ UNCHANGED <<bot, vault, links, hidden, locks, token, sent, gone, failed>>

\* A wrong variant: the rows are read without being held.
LockNothing(t) ==
    /\ tx[t].pc = "agents"
    /\ Goto(t, "judge")
    /\ UNCHANGED <<bot, vault, links, hidden, locks, token, sent, gone, asked, failed>>

-----------------------------------------------------------------------------
\* lockProfileMutationRows: the agents row, then the profile row.
LockMutationRows(t) ==
    LET b == tx[t].of[1] IN
    /\ \/ /\ tx[t].pc = "agents"
          /\ Take(t, <<"agents", b>>, "update")
          /\ Goto(t, "profiles")
       \/ /\ tx[t].pc = "profiles"
          /\ Take(t, <<"profiles", b>>, "update")
          /\ Goto(t, "judge")
    /\ UNCHANGED <<bot, vault, links, hidden, token, sent, gone, asked, failed>>

\* Under the locks the row is read again and the actor judged; the key it names is kept for later.
Judge(t) ==
    LET b == tx[t].of[1]
        next == CASE tx[t].op = "update" /\ tx[t].auth -> "store"
                  [] tx[t].op = "delete" -> "retire"
                  [] OTHER -> "commit" IN
    /\ tx[t].pc = "judge"
    /\ IF Accessible(tx[t].by, b) /\ Manageable(tx[t].by, b)
       THEN /\ tx' = [tx EXCEPT ![t].pc = next, ![t].prev = bot[b].key, ![t].key = bot[b].key]
            /\ UNCHANGED <<bot, vault, links, hidden, locks, token, sent, gone, asked, failed>>
       ELSE Abort(t)

\* storeAgentAuth: the new key is in the vault before the row names it.
StoreAgentAuth(t) ==
    /\ tx[t].pc = "store"
    /\ vault' = Append(vault, "live")
    /\ tx' = [tx EXCEPT ![t].pc = "retire", ![t].key = Len(vault')]
    /\ UNCHANGED <<bot, links, hidden, locks, token, sent, gone, asked, failed>>

\* A wrong variant: the vault is left as it is.
RetireNothing(t) ==
    /\ tx[t].pc = "retire"
    /\ Goto(t, "commit")
    /\ UNCHANGED <<bot, vault, links, hidden, locks, token, sent, gone, asked, failed>>

\* retireReplacedKey: the old key is revoked; a vault that refuses is only logged.
RetireReplacedKey(t) ==
    /\ tx[t].pc = "retire"
    /\ \/ /\ vault' = [k \in DOMAIN vault |-> IF k = tx[t].prev THEN "revoked" ELSE vault[k]]
          /\ UNCHANGED failed
       \/ /\ tx[t].prev # 0
          /\ failed' = failed \cup {tx[t].of[1]}
          /\ UNCHANGED vault
    /\ Goto(t, "commit")
    /\ UNCHANGED <<bot, links, hidden, locks, token, sent, gone, asked>>

\* What the mutation wrote becomes visible, and the route answers: the new configuration and the
\* visibility asked for; the deletion; the hash of a fresh token, or none.
CommitMutation(t) ==
    LET b == tx[t].of[1] IN
    /\ tx[t].pc = "commit"
    /\ End(t)
    /\ CASE tx[t].op = "update" ->
              /\ \E public \in BOOLEAN :
                    bot' = [bot EXCEPT ![b].key = tx[t].key, ![b].public = public]
              /\ UNCHANGED <<gone, token>>
         [] tx[t].op = "delete" ->
              /\ bot' = [bot EXCEPT ![b].state = "deleted"]
              /\ gone' = gone \cup {b}
              /\ UNCHANGED token
         [] tx[t].op = "issue" ->
              /\ token' = token + 1
              /\ bot' = [bot EXCEPT ![b].token = token']
              /\ UNCHANGED gone
         [] tx[t].op = "revoke" ->
              /\ bot' = [bot EXCEPT ![b].token = 0]
              /\ UNCHANGED <<gone, token>>
    /\ UNCHANGED <<vault, links, hidden, sent, asked, failed>>

\* The connection is lost, or the server stops, before the commit: the rows are as they were.
LoseMutation(t) ==
    /\ tx[t].pc \in {"store", "retire", "commit"}
    /\ failed' = failed \cup {tx[t].of[1]}
    /\ RolledBack(t)

\* A wrong variant: the profile is read and not held.
GetUnlocked(t) ==
    /\ tx[t].pc = "share"
    /\ IF Accessible(tx[t].by, tx[t].of[tx[t].at])
       THEN /\ tx' = IF tx[t].at = Len(tx[t].of)
                     THEN [tx EXCEPT ![t].pc = "link", ![t].at = 1]
                     ELSE [tx EXCEPT ![t].at = @ + 1]
            /\ UNCHANGED <<bot, vault, links, hidden, locks, token, sent, gone, asked, failed>>
       ELSE Abort(t)

-----------------------------------------------------------------------------
\* getWithin, one Bot of the channel after the other: share its profile row, then read it.
GetWithin(t) ==
    LET b == tx[t].of[tx[t].at] IN
    /\ tx[t].pc = "share"
    /\ Grantable(t, <<"profiles", b>>, "share")
    /\ IF Accessible(tx[t].by, b)
       THEN /\ Take(t, <<"profiles", b>>, "share")
            /\ tx' = IF tx[t].at = Len(tx[t].of)
                     THEN [tx EXCEPT ![t].pc = "link", ![t].at = 1]
                     ELSE [tx EXCEPT ![t].at = @ + 1]
            /\ UNCHANGED <<bot, vault, links, hidden, token, sent, gone, asked, failed>>
       ELSE Abort(t)

\* The rows of the new channel are inserted; each link holds the agents row it refers to, and the
\* last one commits.
LinkChannel(t) ==
    LET b == tx[t].of[tx[t].at] IN
    /\ tx[t].pc = "link"
    /\ Grantable(t, <<"agents", b>>, "share")
    /\ IF tx[t].at < Len(tx[t].of)
       THEN /\ Take(t, <<"agents", b>>, "share")
            /\ tx' = [tx EXCEPT ![t].at = @ + 1]
            /\ UNCHANGED links
       ELSE /\ links' = Append(links, {tx[t].of[i] : i \in DOMAIN tx[t].of})
            /\ End(t)
    /\ UNCHANGED <<bot, vault, hidden, token, sent, gone, asked, failed>>

-----------------------------------------------------------------------------
\* Which row a request waits for, and in which mode.
Wants(t) ==
    CASE tx[t].pc = "agents" -> <<<<"agents", tx[t].of[1]>>, "update">>
      [] tx[t].pc = "profiles" -> <<<<"profiles", tx[t].of[1]>>, "update">>
      [] tx[t].pc = "share" -> <<<<"profiles", tx[t].of[tx[t].at]>>, "share">>
      [] tx[t].pc = "link" -> <<<<"agents", tx[t].of[tx[t].at]>>, "share">>
      [] OTHER -> <<>>

WaitsFor(t, u) ==
    /\ Wants(t) # <<>>
    /\ \E l \in locks : /\ l.tx = u /\ u # t
                        /\ l.row = Wants(t)[1]
                        /\ l.mode = "update" \/ Wants(t)[2] = "update"

\* Two requests that wait for each other: the database ends one of them.
BreakDeadlock(t) ==
    /\ \E u \in Txs : WaitsFor(t, u) /\ WaitsFor(u, t)
    /\ Abort(t)

-----------------------------------------------------------------------------
\* The loader of runtime-agents.ts: the row of a Bot this person may run, and then its key, which a
\* revocation in between makes no header at all.
LoadRow(t) ==
    LET b == tx[t].of[1] IN
    /\ tx[t].pc = "load"
    /\ IF Accessible(tx[t].by, b)
       THEN /\ tx' = [tx EXCEPT ![t].pc = "header", ![t].key = bot[b].key]
            /\ UNCHANGED <<bot, vault, links, hidden, locks, token, sent, gone, asked, failed>>
       ELSE Abort(t)

AgentAuthHeaders(t) ==
    LET b == tx[t].of[1] IN
    /\ tx[t].pc = "header"
    /\ sent' = IF tx[t].key # 0 /\ vault[tx[t].key] = "live"
               THEN sent \cup {[as |-> "key", bot |-> b, late |-> b \in gone]} ELSE sent
    /\ End(t)
    /\ UNCHANGED <<bot, vault, links, hidden, token, gone, asked, failed>>

\* authoriseAgentCall: a machine presents a token of a Bot it ran for, old or new; the hash must be
\* the one the row of that Bot holds, and the Bot not deleted.
Call(b) ==
    /\ bot[b].token # 0
    /\ bot[b].state = "live"
    /\ sent' = sent \cup {[as |-> "call", bot |-> b, late |-> b \in gone]}
    /\ UNCHANGED <<bot, vault, links, hidden, tx, locks, token, gone, asked, failed>>

-----------------------------------------------------------------------------
\* create: the key is stored outside of the transaction that inserts both rows.
Create(b) ==
    /\ bot[b].state = "unborn" /\ asked < MaxAsked
    /\ asked' = asked + 1
    /\ \E auth \in BOOLEAN, public \in BOOLEAN, lost \in BOOLEAN :
        /\ vault' = IF auth THEN Append(vault, "live") ELSE vault
        /\ bot' = IF lost THEN bot
                  ELSE [bot EXCEPT ![b] = [state |-> "live", public |-> public, system |-> FALSE,
                                           key |-> IF auth THEN Len(vault') ELSE 0, token |-> 0]]
    /\ UNCHANGED <<links, hidden, tx, locks, token, sent, gone, failed>>

\* duplicate, by Owner, whose the copy is: it runs on the Bot in the box, is private and has no key.
Duplicate(b, copy) ==
    /\ Accessible(Owner, b) /\ bot[copy].state = "unborn" /\ asked < MaxAsked
    /\ asked' = asked + 1
    /\ bot' = [bot EXCEPT ![copy] = [Unborn EXCEPT !.state = "live"]]
    /\ UNCHANGED <<vault, links, hidden, tx, locks, token, sent, gone, failed>>

\* setHidden: one person's view of the roster.
SetHidden(p, b) ==
    /\ Accessible(p, b) /\ asked < MaxAsked
    /\ asked' = asked + 1
    /\ hidden' \in {hidden \cup {<<p, b>>}, hidden \ {<<p, b>>}}
    /\ UNCHANGED <<bot, vault, links, tx, locks, token, sent, gone, failed>>

Next ==
    \/ \E t \in Txs :
        \/ Send(t) \/ LockMutationRows(t) \/ Judge(t) \/ StoreAgentAuth(t) \/ RetireReplacedKey(t)
        \/ CommitMutation(t) \/ LoseMutation(t) \/ GetWithin(t) \/ LinkChannel(t)
        \/ BreakDeadlock(t) \/ LoadRow(t) \/ AgentAuthHeaders(t)
    \/ \E b \in BotIds : Call(b) \/ Create(b)
    \/ \E b \in BotIds : \/ \E p \in People : SetHidden(p, b)
                        \/ \E c \in BotIds : Duplicate(b, c)

Spec == Init /\ [][Next]_vars

-----------------------------------------------------------------------------
\* The state has the shape the code gives it.
TypeOK ==
    /\ \A b \in BotIds : bot[b].state \in {"unborn", "live", "deleted"} /\ bot[b].key \in 0..Len(vault)
    /\ hidden \subseteq People \X BotIds
    /\ \A i \in DOMAIN links : \A b \in links[i] : bot[b].state # "unborn"
    /\ gone \subseteq {b \in BotIds : bot[b].state = "deleted"}

\* No edit of this Bot is under way.
Settled(b) == \A t \in Txs : tx[t].of # <<b>> \/ tx[t].op = "run" \/ tx[t].pc = "idle"

\* The key a live Bot's row names is a key that works: however its edits overlap, the last one to
\* commit named a key that no other retired.  (A commit that fails after the old key was retired is
\* another matter.)
KeyWorks ==
    \A b \in BotIds \ failed : bot[b].state = "live" /\ bot[b].key # 0 /\ Settled(b)
                        => vault[bot[b].key] = "live"

\* Once its deletion is answered, a Bot's key is sent nowhere and no token acts as it, unless the vault
\* refused to revoke the key.
DeletedIsSilent == \A s \in sent : s.late => s.bot \in failed /\ s.as = "key"

\* The comment on retireReplacedKey: whatever fails, the Bot works, with a key too many rather than
\* with none.
KeyNeverLost ==
    \A b \in BotIds : bot[b].state = "live" /\ bot[b].key # 0 /\ Settled(b)
                        => vault[bot[b].key] = "live"

\* A channel is created only with Bots that are not deleted when it is.
ChannelOfLivingBots == [][\A i \in DOMAIN links' \ DOMAIN links : \A b \in links'[i] : bot[b].state = "live"]_vars
=============================================================================
