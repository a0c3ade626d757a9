------------------------------- MODULE Skills -------------------------------
(***************************************************************************)
(* The skill half of plugins/store.ts and plugins/routes.ts, and what a    *)
(* skill is for: narrowing the tools a run is offered                      *)
(* (plugins/selection.ts, as copilot.ts buildAgent uses it).               *)
(*                                                                         *)
(* A request checks first (skillRefusal, enablementRefusal) and writes in  *)
(* a later statement; with Patient no other request is between the two.    *)
(* A grant names a skill by its slug, and so does not go with it.          *)
(***************************************************************************)
EXTENDS Naturals, Selection

CONSTANTS Users, Admins,    \* who may ask; the administrators among them
          BotIds,           \* Bots
          BotOwner,         \* [BotIds -> Users \cup {Deployment}]
          Slugs,            \* names of skills
          ToolRefs,
          Given,            \* [BotIds -> SUBSET ToolRefs], the tools granted
          Floor,            \* SELECTION_FLOOR
          MaxRequests,
          Deployment, Absent,
          Patient

Requests == 1..MaxRequests  \* in the order they are sent

VARIABLES skillOwner,       \* skills.owner_user_id, Absent when no row
          author,           \* whose words the row holds
          declares,         \* skill_tools
          holds,            \* plugin_grants of kind skill: <<slug, bot, by>>
          request,          \* each request's progress
          offer             \* the tools each Bot's latest run was offered

vars == <<skillOwner, author, declares, holds, request, offer>>

Unsent == [step |-> "unsent", by |-> Absent, slug |-> Absent, bot |-> Absent,
           to |-> Absent, tools |-> {}]
NoList == {Absent}          \* a save that says nothing of tools

TypeOK ==
  /\ skillOwner \in [Slugs -> Users \cup {Deployment, Absent}]
  /\ author \in [Slugs -> Users \cup {Absent}]
  /\ declares \in [Slugs -> SUBSET ToolRefs]
  /\ holds \subseteq Slugs \X BotIds \X Users
  /\ \A r \in Requests :
       request[r].step \in {"unsent", "save", "declare", "delete", "grant",
                            "revoke", "done"}
  /\ \A b \in BotIds : offer[b] \subseteq Given[b]

Init ==
  /\ skillOwner = [s \in Slugs |-> Absent]
  /\ author = [s \in Slugs |-> Absent]
  /\ declares = [s \in Slugs |-> {}]
  /\ holds = {}
  /\ request = [r \in Requests |-> Unsent]
  /\ offer = [b \in BotIds |-> {}]

MayBegin(r) ==
  /\ request[r] = Unsent
  /\ \A q \in 1..(r - 1) : request[q] # Unsent
  /\ Patient => \A q \in Requests : request[q].step \in {"unsent", "done"}

Finish(r) == request' = [request EXCEPT ![r] = [Unsent EXCEPT !.step = "done"]]

-----------------------------------------------------------------------------
SkillRefusalNever(p, s) == FALSE

(***************************************************************************)
(* skillRefusal: an administrator may touch anything, anybody a new name   *)
(* or their own.                                                           *)
(***************************************************************************)
SkillRefusal(p, s) == p \notin Admins /\ skillOwner[s] \notin {Absent, p}

(***************************************************************************)
(* enablementRefusal for a skill: their own, on a Bot of their own.        *)
(***************************************************************************)
EnablementRefusal(p, s, b) ==
  p \notin Admins /\ (skillOwner[s] # p \/ BotOwner[b] # p)

(***************************************************************************)
(* The refusing branches answer and change nothing.                        *)
(***************************************************************************)
Refuse(r) ==
  /\ MayBegin(r)
  /\ \E p \in Users, s \in Slugs :
       \/ SkillRefusal(p, s)
       \/ \E b \in BotIds : EnablementRefusal(p, s, b)
  /\ Finish(r)
  /\ UNCHANGED <<skillOwner, author, declares, holds, offer>>

AskSave(r, p, s, to, tools) ==
  /\ MayBegin(r)
  /\ to = Deployment => p \in Admins
  /\ ~SkillRefusal(p, s)
  /\ request' = [request EXCEPT ![r] =
       [Unsent EXCEPT !.step = "save", !.by = p, !.slug = s, !.to = to,
                      !.tools = tools]]
  /\ UNCHANGED <<skillOwner, author, declares, holds, offer>>

(***************************************************************************)
(* installSkill: insert, or on the slug's conflict overwrite the words and *)
(* keep the owner; then replace the declared tools.                        *)
(***************************************************************************)
InstallSkill(r) ==
  LET s == request[r].slug IN
  /\ request[r].step = "save"
  /\ skillOwner' = [skillOwner EXCEPT ![s] = IF @ = Absent THEN request[r].to
                                                           ELSE @]
  /\ author' = [author EXCEPT ![s] = request[r].by]
  /\ request' = [request EXCEPT ![r].step = "declare"]
  /\ UNCHANGED <<declares, holds, offer>>

(***************************************************************************)
(* The declarations reference the skill: with the row gone the insert      *)
(* fails and the request with it.  A save that lists no tools leaves them. *)
(* (Every reference is one knownToolRefs knows; others are refused.)       *)
(***************************************************************************)
DeclareTools(r) ==
  LET s == request[r].slug IN
  /\ request[r].step = "declare"
  /\ declares' = IF skillOwner[s] = Absent \/ request[r].tools = NoList
                   THEN declares
                 ELSE [declares EXCEPT ![s] = request[r].tools]
  /\ Finish(r)
  /\ UNCHANGED <<skillOwner, author, holds, offer>>

AskDelete(r, p, s) ==
  /\ MayBegin(r) /\ ~SkillRefusal(p, s) /\ skillOwner[s] # Absent
  /\ request' = [request EXCEPT ![r] =
       [Unsent EXCEPT !.step = "delete", !.by = p, !.slug = s]]
  /\ UNCHANGED <<skillOwner, author, declares, holds, offer>>

(***************************************************************************)
(* uninstallSkill: the row and its declarations; the grants stay.          *)
(***************************************************************************)
UninstallSkill(r) ==
  LET s == request[r].slug IN
  /\ request[r].step = "delete"
  /\ skillOwner' = [skillOwner EXCEPT ![s] = Absent]
  /\ author' = [author EXCEPT ![s] = Absent]
  /\ declares' = [declares EXCEPT ![s] = {}]
  /\ Finish(r)
  /\ UNCHANGED <<holds, offer>>

AskGrant(r, p, s, b, step) ==
  /\ MayBegin(r) /\ ~EnablementRefusal(p, s, b)
  /\ request' = [request EXCEPT ![r] =
       [Unsent EXCEPT !.step = step, !.by = p, !.slug = s, !.bot = b]]
  /\ UNCHANGED <<skillOwner, author, declares, holds, offer>>

Others(s, b) == {h \in holds : h[1] # s \/ h[2] # b}

Grant(r) ==
  LET s == request[r].slug  b == request[r].bot IN
  /\ request[r].step = "grant"
  /\ holds' = Others(s, b) \cup {<<s, b, request[r].by>>}
  /\ Finish(r)
  /\ UNCHANGED <<skillOwner, author, declares, offer>>

Revoke(r) ==
  /\ request[r].step = "revoke"
  /\ holds' = Others(request[r].slug, request[r].bot)
  /\ Finish(r)
  /\ UNCHANGED <<skillOwner, author, declares, offer>>

-----------------------------------------------------------------------------
(***************************************************************************)
(* listForAgent, the skills: those granted that still exist.               *)
(***************************************************************************)
ListForAgent(b) == {s \in Slugs : /\ skillOwner[s] # Absent
                                  /\ \E h \in holds : h[1] = s /\ h[2] = b}

(***************************************************************************)
(* buildAgent and offeredFor: the skills are read (or reading them fails,  *)
(* which is none), the selector answers, the run is offered the result.    *)
(***************************************************************************)
OfferRun(b) ==
  \E skills \in {ListForAgent(b), {}} : \E chosen \in SUBSET skills :
    /\ offer' = [offer EXCEPT ![b] =
         SelectTools(Given[b], skills, declares, chosen, Floor)]
    /\ UNCHANGED <<skillOwner, author, declares, holds, request>>

-----------------------------------------------------------------------------
Ask(r) ==
  \/ Refuse(r)
  \/ \E p \in Users, s \in Slugs :
       \/ \E to \in {p, Deployment}, tools \in (SUBSET ToolRefs) \cup {NoList} :
            AskSave(r, p, s, to, tools)
       \/ AskDelete(r, p, s)
       \/ \E b \in BotIds, step \in {"grant", "revoke"} : AskGrant(r, p, s, b, step)

Serve(r) == InstallSkill(r) \/ DeclareTools(r) \/ UninstallSkill(r)
            \/ Grant(r) \/ Revoke(r)

Next == \/ \E r \in Requests : Ask(r) \/ Serve(r)
        \/ \E b \in BotIds : OfferRun(b)

Spec == Init /\ [][Next]_vars

-----------------------------------------------------------------------------
(***************************************************************************)
(* A skill says what its owner, or an administrator, wrote: nobody's words *)
(* stand under somebody else's name.  (skillRefusal and the upsert of      *)
(* installSkill, which keeps the owner and replaces the words)             *)
(***************************************************************************)
WordsAreOwners ==
  \A s \in Slugs : skillOwner[s] # Absent =>
    author[s] \in Admins \cup {skillOwner[s]}

(***************************************************************************)
(* A skill somebody who is no administrator put on a Bot is theirs, and so *)
(* is the Bot.  (enablementRefusal: "somebody may put their own skill on a *)
(* Bot they own, and neither half alone is enough")                        *)
(***************************************************************************)
GrantsFollowOwners ==
  \A h \in holds : h[3] \notin Admins /\ skillOwner[h[1]] # Absent =>
    skillOwner[h[1]] = h[3] /\ BotOwner[h[2]] = h[3]
=============================================================================
