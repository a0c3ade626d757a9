------------------------------ MODULE Screens ------------------------------
(***************************************************************************)
(* The browser's side of the same requests: what a page reads, what it     *)
(* offers to change, and the cache between (app/src/lib/*/queries.ts and   *)
(* mutations.ts, query-client.ts, and the pages).                          *)
(*                                                                         *)
(* A page draws from the cache.  A change that came back throws one family *)
(* of cached answers away, and nothing else brings them up to date: the    *)
(* cache is told not to look again when a window gets the focus.           *)
(*                                                                         *)
(* A behaviour is about one page, one change it offers and one answer it   *)
(* draws; Init chooses them, and keeps of them what tells them apart.      *)
(***************************************************************************)
EXTENDS Routes, SequencesExt, Integers

CONSTANTS
    MaxOthers,          \* writes by others to what the page draws, and changes of what the person may do
    MaxSaves, MaxVisits,
    WithControlPlane    \* whether the page of a Bot has the panel that only its manager is shown

VARIABLES
    choice,     \* what tells this page, change and answer from another
    stored,     \* how often the server has rewritten what the answer is read from
    facts,      \* what is so of the person
    me,         \* what the browser last learned that the person may do, and after how many changes
    at,         \* Away, or when what the page was opened on was learned
    seen,       \* the answer the page draws
    fetch,      \* the request for it that is out
    change,     \* the change that is out
    least,      \* what the page must draw once nothing is out
    spent

vars == <<choice, stored, facts, me, at, seen, fetch, change, least, spent>>

-----------------------------------------------------------------------------
\* queries.ts.  `draws`: the tables that what is drawn of the answer comes from; `polls`: asked
\* again at an interval; `keeps`: not asked again while it is fresh.
Query(gets, family) ==
  [gets |-> gets, draws |-> gets.reads, family |-> family, polls |-> FALSE, keeps |-> FALSE]
Polled(query) == [query EXCEPT !.polls = TRUE]
Kept(query) == [query EXCEPT !.keeps = TRUE]

currentUserQuery == Kept(Query(GetMe, "auth"))
authProvidersQuery == Kept(Query(GetCapabilities, "auth"))
agentListQuery == Query(GetAgents, "agents")
agentQuery == Query(GetAgent, "agents")
\* The roster draws no row as that of a deleted Bot: it leaves `active' alone.
channelListQuery == [Query(GetChannels, "channels") EXCEPT !.draws = {"channels"}]
channelQuery == Query(GetChannel, "channels")
artifactsQuery == Query(GetArtifacts, "artifacts")
artifactDetailQuery == Query(GetArtifact, "artifacts")
agentArtifactsQuery == Query(GetAgentArtifacts, "artifacts")
auditEventsQuery == Query(GetAuditEvents, "audit")
componentListQuery == Query(GetComponents, "components")
agentComponentsQuery == Polled(Query(GetAgentComponents, "components"))
dataFunctionsQuery == Query(GetFunctions, "components")
meshNodesQuery == Polled(Query(GetNodes, "computers"))
placementsQuery == Query(GetPlacements, "computers")
computerFleetQuery == Query(GetFleet, "computers")
actionPolicyQuery == Query(GetPolicy, "computers")
connectionsQuery == Query(GetConnections, "connections")
credentialListQuery == Query(GetCredentials, "credentials")
identityProviderListQuery == Query(GetIdentityProviders, "identity-providers")
providersQuery == Query(GetProviders, "models")
modelRouteQuery == Query(GetModelRoute, "models")
usageQuery == Polled(Query(GetUsage, "models"))
peopleListQuery == Query(GetPeople, "people")
accountsQuery == Query(GetAccounts, "plugins")
pluginsPageQuery == Query(GetPlugins, "plugins")
agentPluginsQuery == Polled(Query(GetAgentPlugins, "plugins"))
sandboxedListQuery == Query(GetSandboxed, "sandboxed")
publishedSandboxedQuery == Polled(Query(GetPublishedSandboxed, "sandboxed"))
triggersQuery == Polled(Query(GetTriggers, "triggers"))
\* A pane asks for these itself, over and over while it is shown.
screenshotPolled == Polled(Query(GetScreenshot, "pane"))
controlPolled == Polled(Query(GetControl, "pane"))

-----------------------------------------------------------------------------
\* mutations.ts.  A change sends one request, or one after another; when it is done (`settles`: or
\* failed) it invalidates a family, unless the page puts an onSuccess of its own in the place of it.
Mutation(sends, family) == [sends |-> sends, family |-> family, settles |-> FALSE,
                           leaves |-> FALSE, overridden |-> FALSE]
Settled(mutation) == [mutation EXCEPT !.settles = TRUE]
Overridden(mutation) == [mutation EXCEPT !.overridden = TRUE]
\* The page is left when it is done.
Leaving(mutations) == {[mutation EXCEPT !.leaves = TRUE] : mutation \in mutations}

createAgent == Mutation(PostAgent, "agents")
updateAgent == Mutation(PatchAgent, "agents")
duplicateAgent == Mutation(DuplicateAgent, "agents")
setAgentHidden == Mutation(HideAgent, "agents")
setAgentShown == Mutation(UnhideAgent, "agents")
deleteAgent == Mutation(DeleteAgent, "agents")
issueCallbackToken == Mutation(IssueCallbackToken, "agents")
revokeCallbackToken == Mutation(RevokeCallbackToken, "agents")
createChannel == Mutation(PostChannel, "channels")
createArtifact == Mutation(PostArtifact, "artifacts")
saveArtifactVersion == Mutation(PostArtifactVersion, "artifacts")
deleteArtifact == Mutation(DeleteArtifact, "artifacts")
attachArtifact == Mutation(AttachArtifact, "artifacts")
detachArtifact == Mutation(DetachArtifact, "artifacts")
grantComponent == Mutation(GrantComponent, "components")
withholdComponent == Mutation(WithholdComponent, "components")
grantFunction == Mutation(GrantFunction, "components")
revokeFunction == Mutation(RevokeFunction, "components")
setComponentPublished == Mutation(PublishComponent, "components")
saveComponentDraft == Mutation(PutDraft, "components")
stopComputer == Mutation(StopComputer, "computers")
resetComputer == Mutation(ResetComputer, "computers")
saveActionPolicy == Mutation(PutPolicy, "computers")
mintEnrollmentToken == Mutation(MintEnrollmentToken, "none")
setNodePlacement == Mutation(PatchNode, "computers")
removeNode == Mutation(DeleteNode, "computers")
moveComputer == Mutation(MoveComputer, "computers")
saveConnection == Mutation(PutConnection, "connections")
removeConnection == Mutation(DeleteConnection, "connections")
grantConnection == Mutation(GrantConnection, "connections")
revokeConnection == Mutation(RevokeConnection, "connections")
verifyConnection == Settled(Mutation(VerifyConnection, "connections"))
connectBegin == Mutation(ConnectBegin, "none")
connectCapture == Settled(Mutation(ConnectCapture, "connections"))
msConnectStart == Mutation(MsConnectStart, "none")
msConnectPoll == Settled(Mutation(MsConnectPoll, "connections"))
createCredential == Mutation(PostCredential, "credentials")
revokeCredential == Mutation(RevokeCredential, "credentials")
registerIdentityProvider == Mutation(RegisterIdentityProvider, "identity-providers")
deleteIdentityProvider == Mutation(DeleteIdentityProvider, "identity-providers")
saveProvider == Mutation(PutProvider, "models")
removeProvider == Mutation(DeleteProvider, "models")
setModelRoute == Mutation(PutModelRoute, "models")
clearModelRoute == Mutation(DeleteModelRoute, "models")
setPersonRole == Mutation(PostPersonRole, "people")
setPersonAccess == Mutation(PostPersonAccess, "people")
grantPlugin == Mutation(GrantPlugin, "plugins")
revokePlugin == Mutation(RevokePlugin, "plugins")
addCuratedServer == Mutation(AddServer, "plugins")
refreshPluginServer == Mutation(RefreshServer, "plugins")
removePluginServer == Mutation(RemoveServer, "plugins")
registerOAuthClient == Mutation(RegisterOAuthClient, "plugins")
connectAccount == Mutation(ConnectAccount, "none")
saveSkill == Mutation(PostSkill, "plugins")
removeSkill == Mutation(DeleteSkill, "plugins")
saveSandboxedDraft == Mutation(PostSandboxed, "sandboxed")
\* What is on the screen is saved first, and published if that worked.
publishSandboxed == Mutation(PostSandboxed \o PublishSandboxed, "sandboxed")
deleteSandboxed == Mutation(DeleteSandboxed, "sandboxed")
createTrigger == Mutation(PostTrigger, "triggers")
updateTrigger == Mutation(PatchTrigger, "triggers")
removeTrigger == Mutation(DeleteTrigger, "triggers")
fireTrigger == Settled(Mutation(FireTrigger, "triggers"))

\* What a pane sends, and the tools that the page hands to a run: no cached answer comes of them.
Sent(sends) == Mutation(sends, "none")
takeControl == Sent(TakeWheel)
releaseControl == Sent(ReleaseWheel)
supplySecret == Sent(SupplySecret)
sendHumanInput == Sent(HumanInput)
navigateTool == Sent(PostNavigate)
readTool == Sent(PostRead)
snapshotTool == Sent(PostSnapshot)
typeTool == Sent(PostType)
clickTool == Sent(PostClick)
keyTool == Sent(PostKey)
requestSecretTool == Sent(RequestSecret)
requestHelpTool == Sent(RequestHelp)
listFilesTool == Sent(PostFilesList)
readFileTool == Sent(PostFilesRead)
runCommandTool == Sent(PostExec)
writeFileTool == Sent(PostFilesWrite)
scrollTool == Sent(PostScroll)

-----------------------------------------------------------------------------
\* The pages: who opens each, what it draws, and what it offers to whom.  "sees", "manages" and
\* "owns" are what the answer it drew says of the person and the Bot or skill.
\* `stays`: what is drawn beside the page and stays when it is left.
Page(shows, offers) == [gate |-> {"anybody"}, shows |-> shows, offers |-> offers, stays |-> {}]
AdminPage(shows, mutations) ==
  [Page(shows, {"all"} \X mutations) EXCEPT !.gate = {"anybody", "admin"}]
To(who, mutations) == {who} \X mutations
With(page, panel) == [page EXCEPT !.shows = @ \cup panel.shows, !.offers = @ \cup panel.offers]

\* components/: panels that pages hold.
AppSidebar == Page({channelListQuery, currentUserQuery}, {})
\* routes/_authed/_app.tsx: the sidebar stands beside whichever of its pages is open.
InApp(page) == [With(page, AppSidebar) EXCEPT !.stays = AppSidebar.shows]
CallbackTokenPanel == Page({}, To("manages", {issueCallbackToken, revokeCallbackToken}))
ModelRow == Page({providersQuery, modelRouteQuery}, To("manages", {setModelRoute, clearModelRoute}))
ArtifactRow ==
  Page({artifactsQuery, agentArtifactsQuery}, To("manages", {attachArtifact, detachArtifact}))
ControlPlane == IF WithControlPlane THEN With(ModelRow, ArtifactRow) ELSE Page({}, {})
ProfileOffers == To("sees", Leaving({duplicateAgent, setAgentHidden}) \cup {setAgentShown})
                   \cup To("manages", {updateAgent} \cup Leaving({deleteAgent}))
AgentProfile == With(With(Page({agentQuery}, ProfileOffers), CallbackTokenPanel), ControlPlane)
NewAgent == Page({}, To("all", {createAgent}))
SkillAgents == Page({agentListQuery}, To("owns", {grantPlugin, revokePlugin}))
EditSkill == With(Page({pluginsPageQuery}, To("all", {saveSkill})), SkillAgents)
NewSkill == Page({}, To("all", {saveSkill}))
GalleryTools == Page({agentComponentsQuery}, {})
SandboxedTools == Page({publishedSandboxedQuery, agentComponentsQuery}, {})
ComputerView == Page({screenshotPolled, controlPolled},
                     To("sees", {takeControl, releaseControl, supplySecret, sendHumanInput}))
NeedsYou == Page({controlPolled}, {})
ComputerTools ==
  Page({}, To("sees", {navigateTool, readTool, snapshotTool, typeTool, clickTool, keyTool,
                       requestSecretTool, requestHelpTool, listFilesTool, readFileTool,
                       runCommandTool, writeFileTool, scrollTool}))
ChannelChat == Page({agentListQuery, agentPluginsQuery}, {})

\* routes/_authed: what everybody who is signed in opens, and routes/sign.
SignPage == [Page({authProvidersQuery, currentUserQuery}, {}) EXCEPT !.gate = {}]
HomePage == InApp(Page({agentListQuery}, To("all", {createChannel})))
AgentsPage == InApp(With(With(Page({agentListQuery}, {}), AgentProfile), NewAgent))
Conversing == With(With(With(ChannelChat, GalleryTools), SandboxedTools), ComputerTools)
Watching == With(ComputerView, NeedsYou)
ChannelPage ==
  InApp(With(With(With(Page({channelQuery}, {}), AgentProfile), Conversing), Watching))
NewChannelPage ==
  InApp(Page({agentListQuery, agentQuery, agentPluginsQuery}, To("all", {createChannel})))
\* The page replaces the onSuccess of the removal by one that clears its own message.
SkillsPage ==
  InApp(With(With(Page({pluginsPageQuery, currentUserQuery}, To("owns", {Overridden(removeSkill)})),
                  NewSkill), EditSkill))
AccountPage == Page({pluginsPageQuery, accountsQuery}, To("all", {connectAccount}))
AccountsPage == Page({pluginsPageQuery, accountsQuery}, {})
GalleryPage == Page({componentListQuery}, {})
GalleryDetailPage == Page({componentListQuery}, {})

\* routes/_authed/admin.
ArtifactsPage == AdminPage({artifactsQuery}, {deleteArtifact})
CreateDialog == AdminPage({artifactsQuery}, {createArtifact})
EditDialog == AdminPage({artifactDetailQuery}, {saveArtifactVersion})
AuditPage == AdminPage({auditEventsQuery, agentListQuery}, {})
BoundariesPage == AdminPage({actionPolicyQuery}, {saveActionPolicy})
ComputersPage ==
  AdminPage({computerFleetQuery, meshNodesQuery, placementsQuery, agentListQuery},
            {stopComputer, resetComputer, moveComputer, mintEnrollmentToken, setNodePlacement,
             removeNode})
ConnectionsPage ==
  AdminPage({connectionsQuery, agentListQuery},
            {saveConnection, removeConnection, grantConnection, revokeConnection,
             verifyConnection, connectBegin, connectCapture, msConnectStart, msConnectPoll})
CredentialsPage == AdminPage({credentialListQuery}, {createCredential, revokeCredential})
IdentityProvidersPage ==
  AdminPage({identityProviderListQuery}, {registerIdentityProvider, deleteIdentityProvider})
ModelsPage == AdminPage({providersQuery}, {saveProvider, removeProvider})
PeoplePage == AdminPage({peopleListQuery, currentUserQuery}, {setPersonRole, setPersonAccess})
PlaygroundPage ==
  AdminPage({sandboxedListQuery}, {saveSandboxedDraft, publishSandboxed, deleteSandboxed})
AdminSkillsPage ==
  AdminPage({pluginsPageQuery, agentListQuery}, {saveSkill, removeSkill, grantPlugin, revokePlugin})
TriggersPage ==
  AdminPage({triggersQuery, agentListQuery}, {createTrigger, updateTrigger, removeTrigger, fireTrigger})
UsagePage == AdminPage({usageQuery, agentListQuery}, {})
ComponentsPage == AdminPage({componentListQuery}, {})
ComponentPage ==
  AdminPage({componentListQuery, agentListQuery, dataFunctionsQuery},
            {grantComponent, withholdComponent, grantFunction, revokeFunction,
             setComponentPublished, saveComponentDraft})
PluginsPage == AdminPage({pluginsPageQuery, accountsQuery}, {})
PluginPage ==
  AdminPage({pluginsPageQuery, accountsQuery, agentListQuery},
            {addCuratedServer, registerOAuthClient, refreshPluginServer,
             removePluginServer, connectAccount})
PluginToolPage == AdminPage({pluginsPageQuery, agentListQuery}, {grantPlugin, revokePlugin})

Pages ==
  {SignPage, HomePage, AgentsPage, ChannelPage, NewChannelPage, SkillsPage, AccountPage,
   AccountsPage, GalleryPage, GalleryDetailPage, ArtifactsPage, CreateDialog, EditDialog, AuditPage,
   BoundariesPage, ComputersPage, ConnectionsPage, CredentialsPage, IdentityProvidersPage,
   ModelsPage, PeoplePage, PlaygroundPage, AdminSkillsPage, TriggersPage, UsagePage,
   ComponentsPage, ComponentPage, PluginsPage, PluginPage, PluginToolPage}

-----------------------------------------------------------------------------
\* Of a person: has a role here; it is an administrator's; owns the Bot or skill the page is about;
\* the Bot is one that everybody may see.
Facts == {"role", "admin", "owns", "shared"}

\* auth/guards.ts and agents/profile-policy.ts.  "all": whoever is on the page.
Needs ==
  [world |-> {{}}, all |-> {{}}, anybody |-> {{"role"}}, admin |-> {{"role", "admin"}},
   sees |-> {{"role", "shared"}, {"role", "owns"}, {"role", "admin"}},
   manages |-> {{"role", "owns"}, {"role", "admin"}},
   owns |-> {{"role", "owns"}}]
Rights(of) == {right \in DOMAIN Needs : \E way \in Needs[right] : way \subseteq of}

\* routes/_authed.tsx and admin/route.tsx, and the list a Bot's page is opened from.
Gate(page, query) == page.gate \cup ({query.gets.asks} \cap {"sees"})

\* Of a handler, what asks and what rewrites the answer matter, and where it may fail between.
MayFail == [does |-> "checks", who |-> ""]
Choice(page, offer, query) ==
  LET mutation == offer[2]
      Keep(course, step) ==
        IF step.does = "asks" \/ step.of \cap query.draws # {}
        THEN Append(course, [does |-> step.does, who |-> step.who])
        ELSE IF step.does \in {"notes", "tries"} \/ (course # <<>> /\ Last(course) = MayFail)
             THEN course
             ELSE Append(course, MayFail)
  IN  [course |-> FoldLeft(Keep, <<>>, mutation.sends), to |-> offer[1],
       gate |-> Gate(page, query), asks |-> query.gets.asks,
       covers |-> mutation.family = query.family /\ ~mutation.overridden,
       overridden |-> mutation.family = query.family /\ mutation.overridden,
       promises |-> mutation.family # "none", settles |-> mutation.settles,
       leaves |-> mutation.leaves /\ query \notin page.stays,
       polls |-> query.polls, keeps |-> query.keeps]

Nothing == <<"all", Mutation(<<>>, "none")>>
Situations == UNION {{Choice(page, offer, query) :
                     offer \in page.offers \cup {Nothing}, query \in page.shows} : page \in Pages}

\* What the tables have to say for a page to keep its word.  Whoever may open it and is offered the
\* change is one whom the handlers behind both let pass; and a change that tells of its end throws
\* away what it has rewritten, or leaves the page, and rewrites nothing that is kept.
StepsOf(c) == {c.course[i] : i \in DOMAIN c.course}
Answerable(c) ==
  \A of \in SUBSET Facts : c.gate \subseteq Rights(of) =>
    /\ c.asks \in Rights(of)
    /\ c.to \in Rights(of) =>
         \A step \in StepsOf(c) : step.does = "asks" => step.who \in Rights(of)
MayWrite(c) == \E step \in StepsOf(c) : step.does \in {"writes", "tries"}
\* A page that asks again by itself, and one that lost its change's onSuccess.
Exempt(c) == c.polls \/ c.overridden
Refreshed(c) ==
  c.promises /\ MayWrite(c) =>
    Exempt(c) \/ (~c.keeps /\ (c.covers \/ (c.leaves /\ ~c.settles)))

Agree(c) == c.course \in Seq(StepsOf(c)) /\ Answerable(c) /\ Refreshed(c)

Away == -1
NoFetch == [stage |-> "idle", row |-> 0, basis |-> 0, joined |-> FALSE]
NoChange == [left |-> <<>>, reply |-> "idle", basis |-> 0, wrote |-> 0]
Unspent == [elsewhere |-> 0, changes |-> 0, saves |-> 0, visits |-> 0]

Init ==
    /\ choice \in Situations
    /\ stored = 0
    /\ facts \in {of \in SUBSET Facts : "role" \in of}
    /\ me = [may |-> Rights(facts), since |-> 0]
    /\ at = Away
    /\ seen = [drawn |-> FALSE, row |-> 0, failed |-> FALSE, joined |-> FALSE]
    /\ fetch = NoFetch /\ change = NoChange
    /\ least = 0
    /\ spent = Unspent

Spend(what) == spent' = [spent EXCEPT ![what] = @ + 1]

-----------------------------------------------------------------------------
\* The cache.  A page that opens asks again, and joins a request that is out already.
Asked(basis) == [NoFetch EXCEPT !.stage = "asked", !.basis = basis]
Joined == [fetch EXCEPT !.joined = TRUE]

Open ==
    /\ at = Away /\ spent.visits < MaxVisits
    /\ choice.gate \subseteq me.may
    /\ at' = me.since
    /\ \/ fetch.stage # "idle" /\ fetch' = Joined /\ UNCHANGED least
       \/ fetch.stage = "idle" /\ fetch' = Asked(at') /\ least' = stored
       \/ choice.keeps /\ seen.drawn /\ fetch.stage = "idle" /\ UNCHANGED <<fetch, least>>
    /\ Spend("visits")
    /\ UNCHANGED <<choice, stored, facts, me, seen, change>>

\* What is out is not called back.
Leave ==
    /\ at # Away
    /\ at' = Away
    /\ UNCHANGED <<choice, stored, facts, me, seen, fetch, change, least, spent>>

Poll ==
    /\ choice.polls /\ at # Away /\ fetch.stage = "idle"
    /\ fetch' = Asked(at)
    /\ UNCHANGED <<choice, stored, facts, me, at, seen, change, least, spent>>

\* The server's side of a GET.
Answer ==
    /\ fetch.stage = "asked"
    /\ fetch' = IF choice.asks \in Rights(facts) THEN [fetch EXCEPT !.stage = "read", !.row = stored]
                ELSE [fetch EXCEPT !.stage = "refused"]
    /\ UNCHANGED <<choice, stored, facts, me, at, seen, change, least, spent>>

Arrive ==
    /\ fetch.stage = "read"
    /\ seen' = [drawn |-> TRUE, row |-> fetch.row, failed |-> FALSE, joined |-> fetch.joined]
    /\ fetch' = NoFetch
    /\ UNCHANGED <<choice, stored, facts, me, at, change, least, spent>>

\* An answer that is lost, or a refusal, is asked for once more (query-client.ts) or shown as an error.
Miss ==
    /\ fetch.stage # "idle"
    /\ \/ fetch' = [fetch EXCEPT !.stage = "asked", !.row = 0] /\ UNCHANGED seen
       \/ fetch' = NoFetch /\ seen' = [seen EXCEPT !.failed = TRUE]
    /\ UNCHANGED <<choice, stored, facts, me, at, change, least, spent>>

\* invalidateQueries: what a page draws is asked for anew, over a request that is out; a page that
\* has drawn nothing yet joins that one; what no page draws is asked for when one opens.
\* A wrong variant: what is out is waited for, instead of being asked for again.
InvalidateUnlessOut ==
  fetch' = IF ~choice.covers \/ at = Away \/ fetch.stage # "idle" THEN fetch ELSE Asked(at)
Invalidate ==
  fetch' = IF ~choice.covers \/ at = Away THEN fetch
           ELSE IF seen.drawn \/ fetch.stage = "idle" THEN Asked(at) ELSE Joined

\* /api/me, and the lists of Bots and skills, asked again whenever the browser does.
Learn ==
    /\ me' = [may |-> Rights(facts), since |-> spent.changes]
    /\ me' # me
    /\ UNCHANGED <<choice, stored, facts, at, seen, fetch, change, least, spent>>

-----------------------------------------------------------------------------
\* A change: the page sends it, the handler takes its course, and the answer comes back or is lost.
Send ==
    /\ at # Away /\ change.reply = "idle" /\ change.left = <<>>
    /\ choice.course # <<>> /\ choice.to \in me.may
    /\ spent.saves < MaxSaves
    /\ change' = [left |-> choice.course, reply |-> "waiting", basis |-> at, wrote |-> 0]
    /\ Spend("saves")
    /\ UNCHANGED <<choice, stored, facts, me, at, seen, fetch, least>>

\* A handler nobody waits for any more goes on.
Ends(reply) ==
  change' = IF change.reply = "orphan" THEN NoChange
            ELSE [change EXCEPT !.left = <<>>, !.reply = reply]
GoesOn(wrote) ==
  LET left == Tail(change.left)
  IN  change' = IF change.reply # "orphan"
                THEN [change EXCEPT !.left = left, !.wrote = wrote,
                                    !.reply = IF left = <<>> THEN "ok" ELSE @]
                ELSE IF left = <<>> THEN NoChange ELSE [change EXCEPT !.left = left]
DoesWrite == stored' = stored + 1 /\ GoesOn(stored')
DoesNot == UNCHANGED stored /\ GoesOn(change.wrote)
Stops(reply) == UNCHANGED stored /\ Ends(reply)

\* One step of the handler.
Handle ==
    /\ change.left # <<>>
    /\ LET step == Head(change.left)
       IN  \/ step.does = "asks" /\ step.who \in Rights(facts) /\ DoesNot
           \/ step.does = "asks" /\ step.who \notin Rights(facts) /\ Stops("refused")
           \/ step.does \in {"checks", "tries"} /\ DoesNot
           \/ step.does \in {"writes", "tries"} /\ DoesWrite
           \/ step.does \in {"checks", "writes"} /\ Stops("failed")
    /\ UNCHANGED <<choice, facts, me, at, seen, fetch, least, spent>>

Larger(a, b) == IF a > b THEN a ELSE b

\* onSuccess, or onSettled.
Land ==
    /\ change.reply \in {"ok", "failed", "refused"}
    /\ change' = NoChange
    /\ IF change.reply = "ok" \/ choice.settles
       THEN /\ Invalidate
            /\ least' = IF choice.promises THEN Larger(least, change.wrote) ELSE least
       ELSE UNCHANGED <<fetch, least>>
    /\ at' = IF change.reply = "ok" /\ choice.leaves THEN Away ELSE at
    /\ UNCHANGED <<choice, stored, facts, me, seen, spent>>

Lose ==
    /\ change.reply \notin {"idle", "orphan"}
    /\ change' = IF change.left = <<>> THEN NoChange
                 ELSE [NoChange EXCEPT !.left = change.left, !.reply = "orphan"]
    /\ IF choice.settles THEN Invalidate ELSE UNCHANGED fetch
    /\ UNCHANGED <<choice, stored, facts, me, at, seen, least, spent>>

-----------------------------------------------------------------------------
\* Somebody else changes what the page draws, or what the person may do.
Others == spent.elsewhere + spent.changes

Elsewhere ==
    /\ Others < MaxOthers
    /\ stored' = stored + 1
    /\ Spend("elsewhere")
    /\ UNCHANGED <<choice, facts, me, at, seen, fetch, change, least>>

RightsChange ==
    /\ Others < MaxOthers
    /\ \E fact \in Facts : facts' = (facts \ {fact}) \cup ({fact} \ facts)
    /\ Spend("changes")
    /\ UNCHANGED <<choice, stored, me, at, seen, fetch, change, least>>

Next ==
    \/ Open \/ Leave \/ Poll \/ Answer \/ Arrive \/ Miss \/ Learn
    \/ Send \/ Handle \/ Land \/ Lose
    \/ Elsewhere \/ RightsChange

Spec == Init /\ [][Next]_vars

-----------------------------------------------------------------------------
TypeOK ==
    /\ choice.to \in DOMAIN Needs
    /\ stored \in Nat /\ least \in 0..stored
    /\ facts \subseteq Facts
    /\ me.may \subseteq DOMAIN Needs /\ me.since \in 0..MaxOthers
    /\ at \in -1..MaxOthers
    /\ seen.row \in 0..stored
    /\ fetch.stage \in {"idle", "asked", "read", "refused"} /\ fetch.row \in 0..stored
    /\ change.reply \in {"idle", "waiting", "orphan", "ok", "failed", "refused"}
    /\ change.wrote \in 0..stored

\* Nothing is out and what is drawn came to a request of this page's own.
Quiet ==
    /\ at # Away /\ fetch.stage = "idle" /\ change.reply = "idle"
    /\ seen.drawn /\ ~seen.failed /\ ~seen.joined

\* What a person was told has been saved, and what was there when they opened the page, is what the
\* page draws once nothing is out: every change throws away the family of every answer on its page
\* that its handler rewrites, or the page asks again by itself.  One change is left out: the removal
\* of a skill on the page of one's own skills, where the page overrides the mutation's onSuccess.
SavedIsShown == Quiet /\ ~Exempt(choice) => seen.row >= least

\* As its factory says of that removal too (plugins/mutations.ts:241).  Not so: a skill that was
\* removed stays drawn until the page is opened again.
SavedIsShownEverywhere == Quiet /\ ~choice.polls => seen.row >= least

\* A page offers nothing, and asks for nothing, that the server refuses: whoever is refused was
\* allowed it when the browser last learned what they may do.
OfferedIsAllowed ==
    /\ change.reply = "refused" => spent.changes > change.basis
    /\ fetch.stage = "refused" => spent.changes > fetch.basis
=============================================================================
