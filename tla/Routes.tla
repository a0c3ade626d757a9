------------------------------- MODULE Routes -------------------------------
(***************************************************************************)
(* The server's handlers behind the screens: app.ts and the route files.   *)
(* Each is the order of what it does for one request:                      *)
(*                                                                         *)
(*   asks    who is asking, read afresh (auth/guards.ts); a refusal ends it *)
(*   checks  its arguments and that what it is about exists; may answer    *)
(*           4xx instead of going on                                       *)
(*   writes  some tables, by itself or through a store                     *)
(*   tries   a write whose failure is swallowed                            *)
(*   tells   the audit trail; a row that cannot be written is an error,    *)
(*           and what was written before it stays                          *)
(*   notes   the audit trail, where a failure is logged and swallowed      *)
(*                                                                         *)
(* Screens gives a request its course.                                     *)
(***************************************************************************)
EXTENDS Sequences

Step(does, who, of) == [does |-> does, who |-> who, of |-> of]
Checks == Step("checks", "", {})
Writes(tables) == Step("writes", "", tables)
Tries(tables) == Step("tries", "", tables)
Tells == Step("tells", "", {})
Notes == Step("notes", "", {})

\* Somebody signed in with a role; an administrator; somebody who may see the Bot, or change it.
Anybody == Step("asks", "anybody", {})
AdminOnly == Step("asks", "admin", {})
WhoSees == Step("asks", "sees", {})
WhoManages == Step("asks", "manages", {})

\* What a GET draws from, and who it answers.
Reads(who, tables) == [asks |-> who.who, reads |-> tables]

-----------------------------------------------------------------------------
\* app.ts: the person, people, identity providers, credentials.  Whoever is not signed in is told so
\* by /api/me, and the page takes that for an answer.
GetMe == Reads(Step("asks", "world", {}), {"session"})
GetCapabilities == Reads(Step("asks", "world", {}), {"idps"})
GetPeople == Reads(AdminOnly, {"people"})
PostPersonRole == <<AdminOnly, Checks, Writes({"people"}), Tells>>
PostPersonAccess == <<AdminOnly, Checks, Writes({"people"}), Tells>>
GetIdentityProviders == Reads(AdminOnly, {"idps"})
\* The route is the library's; the check that an administrator asks stands before it.
RegisterIdentityProvider == <<AdminOnly, Checks, Writes({"idps"})>>
DeleteIdentityProvider == <<AdminOnly, Checks, Writes({"idps"}), Tells>>
GetCredentials == Reads(AdminOnly, {"credentials"})
PostCredential == <<AdminOnly, Checks, Writes({"credentials"}), Tells>>
RevokeCredential == <<AdminOnly, Checks, Writes({"credentials"}), Tells>>
GetAuditEvents == Reads(AdminOnly, {"events"})

\* agents/routes.ts.  The profile is changed in one transaction, which asks who may.
GetAgents == Reads(Anybody, {"profiles"})
GetAgent == Reads(WhoSees, {"profiles"})
PostAgent == <<Anybody, Checks, Writes({"profiles"}), Notes>>
PatchAgent == <<Anybody, Checks, WhoManages, Writes({"profiles"}), Notes>>
DuplicateAgent == <<WhoSees, Checks, Writes({"profiles"}), Notes>>
HideAgent == <<WhoSees, Writes({"profiles"}), Notes>>
UnhideAgent == <<WhoSees, Writes({"profiles"}), Notes>>
IssueCallbackToken == <<WhoManages, Writes({"profiles"}), Notes>>
RevokeCallbackToken == <<WhoManages, Writes({"profiles"}), Notes>>
DeleteAgent == <<WhoManages, Writes({"profiles", "deleted"}), Notes>>

\* channels/routes.ts.  What is said in a channel is Activity's.
GetChannels == Reads(Anybody, {"channels", "deleted"})
GetChannel == Reads(Anybody, {"channels", "deleted"})
PostChannel == <<Anybody, Checks, Writes({"channels"})>>

\* artifacts/routes.ts: no row is written to the trail.
GetArtifacts == Reads(AdminOnly, {"artifacts"})
GetArtifact == Reads(AdminOnly, {"artifacts", "versions"})
PostArtifact == <<AdminOnly, Checks, Writes({"artifacts", "versions"})>>
PostArtifactVersion == <<AdminOnly, Checks, Writes({"artifacts", "versions"})>>
DeleteArtifact == <<AdminOnly, Checks, Writes({"artifacts", "versions", "attached"})>>
GetAgentArtifacts == Reads(AdminOnly, {"artifacts", "attached"})
AttachArtifact == <<AdminOnly, Checks, Writes({"attached"})>>
DetachArtifact == <<AdminOnly, Checks, Writes({"attached"})>>

\* providers/routes.ts: nor here.  Removing a provider takes the routes to it along.
GetProviders == Reads(AdminOnly, {"providers"})
PutProvider == <<AdminOnly, Checks, Writes({"providers"})>>
DeleteProvider == <<AdminOnly, Checks, Writes({"providers", "routed"})>>
GetModelRoute == Reads(AdminOnly, {"routed"})
PutModelRoute == <<AdminOnly, Checks, Writes({"routed"})>>
DeleteModelRoute == <<AdminOnly, Checks, Writes({"routed"})>>
GetUsage == Reads(AdminOnly, {"usage"})

-----------------------------------------------------------------------------
\* connections/routes.ts.  A sign-in that worked keeps its session too, if it can; one that is
\* captured gives the wheel back.
GetConnections == Reads(AdminOnly, {"connections"})
PutConnection == <<AdminOnly, Checks, Writes({"connections"}), Tells>>
DeleteConnection == <<AdminOnly, Checks, Writes({"connections"}), Tells>>
GrantConnection == <<AdminOnly, Checks, Writes({"connections"}), Tells>>
RevokeConnection == <<AdminOnly, Checks, Writes({"connections"}), Tells>>
VerifyConnection ==
  <<AdminOnly, Checks, Writes({"connections"}), Tells, Tries({"connections"}), Notes>>
ConnectBegin == <<AdminOnly, Checks, Writes({"wheel"})>>
ConnectCapture == <<AdminOnly, Checks, Writes({"connections"}), Tells, Writes({"wheel"})>>
MsConnectStart == <<AdminOnly, Writes({"connections"}), Tells, Checks>>
MsConnectPoll == <<AdminOnly, Checks, Writes({"connections"}), Tells>>

\* triggers/routes.ts.  A firing marks the row, runs, and marks it again.
GetTriggers == Reads(AdminOnly, {"triggers"})
PostTrigger == <<AdminOnly, Checks, Writes({"triggers"})>>
PatchTrigger == <<AdminOnly, Checks, Writes({"triggers"})>>
DeleteTrigger == <<AdminOnly, Checks, Writes({"triggers"})>>
FireTrigger == <<AdminOnly, Checks, Writes({"triggers"}), Writes({"triggers"}), Tells>>

\* mesh/routes.ts and computer/routes.ts.
GetNodes == Reads(AdminOnly, {"nodes"})
MintEnrollmentToken == <<AdminOnly, Writes({"tokens"})>>
PatchNode == <<AdminOnly, Checks, Writes({"nodes"})>>
DeleteNode == <<AdminOnly, Checks, Writes({"nodes", "placements"}), Tells>>
GetPlacements == Reads(AdminOnly, {"placements"})
MoveComputer ==
  <<AdminOnly, Checks, Writes({"computers"}), Writes({"computers"}), Writes({"placements"}), Tells>>
GetFleet == Reads(AdminOnly, {"computers"})
StopComputer == <<WhoSees, Writes({"computers"}), Tells>>
ResetComputer == <<WhoSees, Writes({"computers"}), Writes({"snapshots"}), Tells>>
GetPolicy == Reads(AdminOnly, {"policy"})
PutPolicy == <<AdminOnly, Checks, Writes({"policy"})>>

\* computer/routes.ts, behind one guard.  What the gateway judges has its row before it is done, and
\* may be refused between; a hand on the wheel, a stop and a reset are done and then told; what a
\* person does with mouse and keyboard has no row.
Governed(tables) == <<Tells, Checks, Writes(tables)>>
GetScreenshot == Reads(WhoSees, {"screen"})
GetControl == Reads(WhoSees, {"wheel"})
PostRead == <<WhoSees, Checks>>
PostSnapshot == <<WhoSees, Checks, Writes({"snapshots"})>>
PostNavigate == <<WhoSees, Checks>> \o Governed({"screen"})
PostClick == <<WhoSees, Checks>> \o Governed({"screen"})
PostType == <<WhoSees, Checks>> \o Governed({"screen"})
PostKey == <<WhoSees, Checks>> \o Governed({"screen"})
PostScroll == <<WhoSees>> \o Governed({"screen"})
PostFilesList == <<WhoSees>> \o Governed({})
PostFilesRead == <<WhoSees, Checks>> \o Governed({})
PostFilesWrite == <<WhoSees, Checks>> \o Governed({"files"})
PostExec == <<WhoSees, Checks>> \o Governed({"files"})
RequestHelp == <<WhoSees, Writes({"wheel"}), Tells>>
RequestSecret == <<WhoSees, Checks, Writes({"wheel"}), Tells>>
TakeWheel == <<WhoSees, Writes({"wheel"}), Tells>>
ReleaseWheel == <<WhoSees, Writes({"wheel"}), Tells>>
SupplySecret == <<WhoSees, Checks, Writes({"wheel", "screen"}), Tells>>
HumanInput == <<WhoSees, Checks, Writes({"screen"})>>

\* components/routes.ts and components/sandboxed-routes.ts.  An authored component has two rows,
\* which are not written together.
GetComponents == Reads(Anybody, {"components", "functions", "exclusions"})
GetAgentComponents == Reads(WhoSees, {"components", "exclusions"})
GetFunctions == Reads(Anybody, {})
GrantComponent == <<AdminOnly, Checks, Writes({"exclusions"}), Tells>>
WithholdComponent == <<AdminOnly, Checks, Writes({"exclusions"}), Tells>>
GrantFunction == <<AdminOnly, Checks, Writes({"functions"}), Tells>>
RevokeFunction == <<AdminOnly, Writes({"functions"}), Tells>>
PublishComponent == <<AdminOnly, Checks, Writes({"components"}), Tells>>
PutDraft == <<AdminOnly, Checks, Writes({"components"}), Tells>>
GetSandboxed == Reads(AdminOnly, {"authored"})
GetPublishedSandboxed == Reads(Anybody, {"authored"})
PostSandboxed == <<AdminOnly, Checks, Writes({"authored"}), Writes({"components"}), Tells>>
PublishSandboxed == <<AdminOnly, Checks, Writes({"authored"}), Writes({"components"}), Tells>>
DeleteSandboxed == <<AdminOnly, Checks, Writes({"authored"}), Writes({"components"}), Tells>>

\* plugins/routes.ts.  A server that was added or refreshed is asked for its tools, which may fail
\* without failing the request.
GetPlugins == Reads(Anybody, {"servers", "tools", "skills", "grants"})
GetAccounts == Reads(Anybody, {"accounts"})
GetAgentPlugins == Reads(WhoSees, {"grants", "skills", "tools"})
AddServer == <<AdminOnly, Checks, Writes({"servers"}), Tells, Writes({"servers", "tools"})>>
RefreshServer == <<AdminOnly, Checks, Writes({"servers", "tools"})>>
RemoveServer == <<AdminOnly, Writes({"servers", "tools"}), Tells>>
RegisterOAuthClient ==
  <<AdminOnly, Checks, Writes({"credentials"}), Writes({"servers"}), Tries({"credentials"}), Tells>>
ConnectAccount == <<Anybody, Checks>>
\* A name somebody else's skill has is refused as an argument would be: the name is typed.
PostSkill == <<Anybody, Checks, Writes({"skills"}), Writes({"skills"}), Tells>>
DeleteSkill == <<WhoManages, Writes({"skills"}), Tells>>
GrantPlugin == <<WhoManages, Checks, Writes({"grants"}), Tells>>
RevokePlugin == <<WhoManages, Checks, Writes({"grants"}), Tells>>
=============================================================================
