----------------------------- MODULE ToolCalls -----------------------------
(***************************************************************************)
(* The MCP half of plugins/store.ts and plugins/routes.ts: the servers an  *)
(* administrator adds, the tools each was last seen to offer, which Bot    *)
(* holds which tool, and the one path a call takes: grant, server,         *)
(* boundary, credential, vendor, row.                                      *)
(*                                                                         *)
(* A refresh is three awaits (ask the vendor, delete the tools held,       *)
(* insert the ones listed) outside any transaction, and a call is eight,   *)
(* so edits by administrators fall between any two of them.                *)
(***************************************************************************)
EXTENDS FiniteSets, Naturals, Sequences

CONSTANTS Curated,      \* servers of the build's catalogue
          Custom,       \* servers added by address
          Tools,
          WriteTools,   \* the catalogue's list of tools that write
          Bots,
          Calls,
          MaxEdits,     \* administrators' requests
          MaxFaults     \* inserts that fail

Servers == Curated \cup Custom
Refs == Servers \X Tools

VARIABLES added,        \* mcp_servers
          held,         \* mcp_tools, by server
          failing,      \* servers whose lastError is set
          seen,         \* servers listed successfully since they were added
          refresh,      \* the refresh under way, by server
          granted,      \* plugin_grants of kind mcp: <<ref, bot>>
          forbids,      \* the effects the action policy refuses
          call,         \* each call's progress
          rows,         \* the audit rows of each call
          edits, faults

callVars == <<call, rows>>
adminVars == <<added, held, failing, seen, refresh, granted, forbids, edits>>
vars == <<added, held, failing, seen, refresh, granted, forbids, call, rows,
          edits, faults>>

Quiet == [step |-> "none", list |-> {}]
Unmade == [step |-> "unmade", ref |-> <<>>, bot |-> "", effect |-> "",
           outcome |-> "unasked"]

Effects == {"read", "write"}
Events == {"call_rejected", "call_succeeded", "call_failed"}

TypeOK ==
  /\ added \subseteq Servers
  /\ held \in [Servers -> SUBSET Tools]
  /\ \A s \in Servers : held[s] # {} => s \in added
  /\ failing \subseteq Servers /\ seen \subseteq Servers
  /\ \A s \in Servers :
       /\ refresh[s].step \in {"none", "list", "delete", "insert", "settle"}
       /\ refresh[s].list \subseteq Tools
  /\ granted \subseteq Refs \X Bots
  /\ forbids \subseteq Effects
  /\ \A c \in Calls :
       /\ call[c].step \in {"unmade", "server", "advertised", "judge",
                            "token", "vendor", "record", "catch", "done"}
       /\ call[c].outcome \in {"unasked", "ok", "isError", "threw"}
       /\ rows[c] \in Seq(Events)
  /\ edits \in 0..MaxEdits /\ faults \in 0..MaxFaults

Init ==
  /\ added = {} /\ failing = {} /\ seen = {} /\ granted = {} /\ forbids = {}
  /\ held = [s \in Servers |-> {}]
  /\ refresh = [s \in Servers |-> Quiet]
  /\ call = [c \in Calls |-> Unmade]
  /\ rows = [c \in Calls |-> <<>>]
  /\ edits = 0 /\ faults = 0

-----------------------------------------------------------------------------
(***************************************************************************)
(* classifyTool: what nobody reviewed, and what the server is not known to *)
(* offer, is a write.                                                      *)
(***************************************************************************)
ClassifyTool(s, t, advertised) ==
  IF s \in Curated /\ advertised /\ t \notin WriteTools THEN "read" ELSE "write"

Edit == edits < MaxEdits /\ edits' = edits + 1

RefreshStep(s, step) == refresh' = [refresh EXCEPT ![s].step = step]

(***************************************************************************)
(* addServer and addCustomServer: the row is written or overwritten, and   *)
(* the tools are refreshed at once.                                        *)
(***************************************************************************)
Added(s) ==
  /\ Edit /\ refresh[s] = Quiet
  /\ added' = added \cup {s}
  /\ failing' = IF s \in added THEN failing ELSE failing \ {s}
  /\ RefreshStep(s, "list")
  /\ UNCHANGED <<held, seen, granted, forbids, callVars, faults>>

AddServer(s) == s \in Curated /\ Added(s)

\* A custom server may not take a curated entry's name.
AddCustomServer(s) == s \in Custom \ Curated /\ Added(s)

\* The row alone, as a delete without the cascade would.
RemoveServerAlone(s) ==
  /\ Edit /\ s \in added
  /\ added' = added \ {s}
  /\ failing' = failing \ {s} /\ seen' = seen \ {s}
  /\ UNCHANGED <<held, refresh, granted, forbids, callVars, faults>>

(***************************************************************************)
(* removeServer: the tools go with the row; the grants, which name the     *)
(* server only by text, stay.                                              *)
(***************************************************************************)
RemoveServer(s) ==
  /\ Edit /\ s \in added
  /\ added' = added \ {s}
  /\ held' = [held EXCEPT ![s] = {}]
  /\ failing' = failing \ {s} /\ seen' = seen \ {s}
  /\ UNCHANGED <<refresh, granted, forbids, callVars, faults>>

(***************************************************************************)
(* The refresh route, on a server that is there.                           *)
(***************************************************************************)
AskRefresh(s) ==
  /\ Edit /\ s \in added /\ refresh[s] = Quiet
  /\ RefreshStep(s, "list")
  /\ UNCHANGED <<added, held, failing, seen, granted, forbids, callVars, faults>>

RefreshListEmptied(s) ==
  /\ refresh[s].step = "list"
  /\ \/ \E list \in (SUBSET Tools) \ {{}} :
          refresh' = [refresh EXCEPT ![s] = [step |-> "insert", list |-> list]]
        /\ UNCHANGED failing
     \/ /\ refresh' = [refresh EXCEPT ![s] = Quiet]
        /\ failing' = failing \cup ({s} \cap added)
  /\ held' = [held EXCEPT ![s] = {}]
  /\ UNCHANGED <<added, seen, granted, forbids, edits, faults, callVars>>

(***************************************************************************)
(* The vendor is asked.  When it cannot be, the error is kept on the row   *)
(* and nothing else changes.  A vendor with nothing to offer is left out:  *)
(* it empties the list by right.                                           *)
(***************************************************************************)
RefreshList(s) ==
  /\ refresh[s].step = "list"
  /\ \/ \E list \in (SUBSET Tools) \ {{}} :
          refresh' = [refresh EXCEPT ![s] = [step |-> "delete", list |-> list]]
        /\ UNCHANGED failing
     \/ /\ refresh' = [refresh EXCEPT ![s] = Quiet]
        /\ failing' = failing \cup ({s} \cap added)
  /\ UNCHANGED <<added, held, seen, granted, forbids, edits, faults, callVars>>

RefreshDelete(s) ==
  /\ refresh[s].step = "delete"
  /\ held' = [held EXCEPT ![s] = {}]
  /\ RefreshStep(s, "insert")
  /\ UNCHANGED <<added, failing, seen, granted, forbids, edits, faults, callVars>>

(***************************************************************************)
(* The insert fails when the server has gone meanwhile (its tools          *)
(* reference it) or the database does; either way only lastError says so.  *)
(***************************************************************************)
RefreshInsert(s) ==
  /\ refresh[s].step = "insert"
  /\ \/ /\ s \in added
        /\ held' = [held EXCEPT ![s] = refresh[s].list]
        /\ seen' = seen \cup {s}
        /\ RefreshStep(s, "settle")
        /\ UNCHANGED <<failing, faults>>
     \/ /\ \/ s \notin added /\ UNCHANGED faults
           \/ s \in added /\ faults < MaxFaults /\ faults' = faults + 1
        /\ failing' = failing \cup ({s} \cap added)
        /\ refresh' = [refresh EXCEPT ![s] = Quiet]
        /\ UNCHANGED <<held, seen>>
  /\ UNCHANGED <<added, granted, forbids, edits, callVars>>

RefreshSettle(s) ==
  /\ refresh[s].step = "settle"
  /\ failing' = failing \ {s}
  /\ refresh' = [refresh EXCEPT ![s] = Quiet]
  /\ UNCHANGED <<added, held, seen, granted, forbids, edits, faults, callVars>>

(***************************************************************************)
(* The grants routes for a tool, an administrator's always; nothing asks   *)
(* that the tool exist.                                                    *)
(***************************************************************************)
Grant(ref, b) ==
  /\ Edit /\ <<ref, b>> \notin granted
  /\ granted' = granted \cup {<<ref, b>>}
  /\ UNCHANGED <<added, held, failing, seen, refresh, forbids, callVars, faults>>

Revoke(ref, b) ==
  /\ Edit /\ <<ref, b>> \in granted
  /\ granted' = granted \ {<<ref, b>>}
  /\ UNCHANGED <<added, held, failing, seen, refresh, forbids, callVars, faults>>

(***************************************************************************)
(* An administrator edits the boundary (modelled in PolicyStore).          *)
(***************************************************************************)
EditPolicy(effects) ==
  /\ Edit /\ forbids # effects
  /\ forbids' = effects
  /\ UNCHANGED <<added, held, failing, seen, refresh, granted, callVars, faults>>

-----------------------------------------------------------------------------
Step(c, step) == call' = [call EXCEPT ![c].step = step]

(***************************************************************************)
(* recordAuditEvent: the row is written, or the insert fails and the       *)
(* request takes the path `otherwise` of its own.                          *)
(***************************************************************************)
Record(c, event, then, otherwise) ==
  \/ /\ rows' = [rows EXCEPT ![c] = Append(@, event)]
     /\ Step(c, then)
     /\ UNCHANGED faults
  \/ /\ faults < MaxFaults /\ faults' = faults + 1
     /\ Step(c, otherwise)
     /\ UNCHANGED rows

(***************************************************************************)
(* callTool's first look: the grant, as it stands now and whatever the     *)
(* model was offered when its turn began.                                  *)
(***************************************************************************)
Decide(c, ref, b) ==
  /\ call[c] = Unmade
  /\ <<ref, b>> \in granted
  /\ call' = [call EXCEPT ![c] = [Unmade EXCEPT !.step = "server",
                                                !.ref = ref, !.bot = b]]
  /\ UNCHANGED <<adminVars, rows, faults>>

DecideRefuses(c, ref, b) ==
  /\ call[c] = Unmade
  /\ <<ref, b>> \notin granted
  /\ Record(c, "call_rejected", "done", "done")
  /\ UNCHANGED adminVars

(***************************************************************************)
(* requireServer: a tool still granted on a server since removed is a 404  *)
(* and no row.                                                             *)
(***************************************************************************)
RequireServer(c) ==
  /\ call[c].step = "server"
  /\ Step(c, IF call[c].ref[1] \in added THEN "advertised" ELSE "done")
  /\ UNCHANGED <<adminVars, rows, faults>>

ReadAdvertised(c) ==
  LET s == call[c].ref[1]  t == call[c].ref[2] IN
  /\ call[c].step = "advertised"
  /\ call' = [call EXCEPT ![c].step = "judge",
                          ![c].effect = ClassifyTool(s, t, t \in held[s])]
  /\ UNCHANGED <<adminVars, rows, faults>>

JudgeRecordsFirst(c) ==
  /\ call[c].step = "judge"
  /\ IF call[c].effect \in forbids
       THEN Record(c, "call_rejected", "done", "done")
       ELSE Record(c, "call_succeeded", "token", "done")
  /\ UNCHANGED adminVars

(***************************************************************************)
(* The boundary in force now; a refusal is the whole event.                *)
(***************************************************************************)
Judge(c) ==
  /\ call[c].step = "judge"
  /\ \/ /\ call[c].effect \in forbids
        /\ Record(c, "call_rejected", "done", "done")
     \/ /\ call[c].effect \notin forbids
        /\ Step(c, "token")
        /\ UNCHANGED <<rows, faults>>
  /\ UNCHANGED adminVars

(***************************************************************************)
(* connectionTokenFor: no connection, a revoked secret, a token endpoint   *)
(* that refuses; all of them throw into the catch.                         *)
(***************************************************************************)
ConnectionTokenFor(c) ==
  /\ call[c].step = "token"
  /\ \E next \in {"vendor", "catch"} : Step(c, next)
  /\ UNCHANGED <<adminVars, rows, faults>>

CallVendor(c) ==
  /\ call[c].step = "vendor"
  /\ \E outcome \in {"ok", "isError", "threw"} :
       call' = [call EXCEPT ![c].outcome = outcome,
                            ![c].step = IF outcome = "threw" THEN "catch"
                                                             ELSE "record"]
  /\ UNCHANGED <<adminVars, rows, faults>>

(***************************************************************************)
(* The row says what happened.  It is written inside the try, so an insert *)
(* that fails is caught as the vendor's failure is.                        *)
(***************************************************************************)
RecordOutcome(c) ==
  /\ call[c].step = "record"
  /\ Record(c, IF call[c].outcome = "ok" THEN "call_succeeded"
                                         ELSE "call_failed", "done", "catch")
  /\ UNCHANGED adminVars

RecordFailure(c) ==
  /\ call[c].step = "catch"
  /\ Record(c, "call_failed", "done", "done")
  /\ UNCHANGED adminVars

-----------------------------------------------------------------------------
Administer ==
  \/ \E s \in Servers : \/ AddServer(s) \/ AddCustomServer(s)
                       \/ RemoveServer(s) \/ AskRefresh(s)
  \/ \E ref \in Refs, b \in Bots : Grant(ref, b) \/ Revoke(ref, b)
  \/ \E effects \in SUBSET Effects : EditPolicy(effects)

Refreshing == \E s \in Servers :
  RefreshList(s) \/ RefreshDelete(s) \/ RefreshInsert(s) \/ RefreshSettle(s)

CallTool(c) ==
  \/ \E ref \in Refs, b \in Bots : Decide(c, ref, b) \/ DecideRefuses(c, ref, b)
  \/ RequireServer(c) \/ ReadAdvertised(c) \/ Judge(c)
  \/ ConnectionTokenFor(c) \/ CallVendor(c)
  \/ RecordOutcome(c) \/ RecordFailure(c)

Next == Administer \/ Refreshing \/ \E c \in Calls : CallTool(c)

Spec == Init /\ [][Next]_vars

-----------------------------------------------------------------------------
(***************************************************************************)
(* The trail says what a call came to.  No call has two rows; a row of     *)
(* success means the vendor carried it out, a row of refusal that it was   *)
(* never asked; and when no insert failed, a call the vendor was asked for *)
(* has its one row, success exactly when the vendor said so.               *)
(* (callTool, "Attempt first, record second", store.ts:1549, which is what *)
(* the code does; the header of callTool, store.ts:1423, still says        *)
(* "Decide, record, then act", the order of JudgeRecordsFirst.)            *)
(***************************************************************************)
TrailTellsCall ==
  \A c \in Calls :
    /\ Len(rows[c]) <= 1
    /\ rows[c] = <<"call_succeeded">> => call[c].outcome = "ok"
    /\ rows[c] = <<"call_rejected">> => call[c].outcome = "unasked"
    /\ call[c].step = "done" /\ call[c].outcome # "unasked" /\ faults = 0 =>
         rows[c] = <<IF call[c].outcome = "ok" THEN "call_succeeded"
                                               ELSE "call_failed">>

(***************************************************************************)
(* A vendor that is briefly unreachable takes no tool away: a server that  *)
(* was listed since it was added, and is not being refreshed, has tools,   *)
(* unless the database failed.  (refreshTools, the order list, delete,     *)
(* insert)                                                                 *)
(***************************************************************************)
ToolsSurvive ==
  \A s \in seen : refresh[s] = Quiet /\ faults = 0 => held[s] # {}
=============================================================================
