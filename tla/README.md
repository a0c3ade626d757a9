# A verification project for cadre

Cadre gives each AI coworker (a *Bot*) a computer of its own: a container with a
Chromium browser, a shell and a workspace. A server decides what a Bot may do, writes
every decision to an audit trail, keeps the Bots, their tools, connections, components
and conversations, and lets people watch, take over and supply secrets. A supervisor on
each machine builds and removes the containers; a command line keeps the machine up.

The TLA+ modules here model the logic of those parts at the granularity at which the code
can be interrupted: **every `await`, and every statement of a transaction, is a step
boundary**. TLC checks small instances. TLAPS proves the safety properties of the gateway, the
policy, the supervisor, the computer, the deployment, its records and the app, for all values of
the constants.

    tlc -workers 2 -config turns.cfg MCTurns
    tlapm ComputerGatewayProofs.tla

## 1. Inventory

| Component | State | Operations | Interacts with | What is hard |
|---|---|---|---|---|
| Computer gateway `server/src/computer/gateway.ts` | none of its own | `govern` (decide, record, act), `snapshot`, `resetComputer`, handovers, secrets | policy, snapshot store, audit, provider, computer | several replicas; a computer replaced behind a stored row; late answers |
| Action policy `policy.ts` | none | `evaluateActionPolicy` | called by `govern` | broken rules must refuse in `deny` and not permit in `allow` |
| Snapshot store `snapshot-store.ts` | one row per computer | save, load, clear | Postgres | saves out of order, counters that start again |
| Policy store and listener | one row; a copy per process | set, reset, load, refresh | LISTEN/NOTIFY | lost notifications, re-reads beside assignments |
| agent-computer `index.ts`, `control.ts` | generations, wheel, pending secret, ring of typed values | actions, snapshot, take, release, secret, session import | the browser; the gateway; a person | handlers interleave at every await of the page |
| Browser pool `profiles.ts` | live browsers, launches in flight | page, stop, reset, cap, idle sweep | Chromium, profile directory | launches racing stops and resets |
| Shell, workspace, harness | processes, files, turns | run, read, write, hook | container, policy hook | pipes that outlive a command; links; several ways to end |
| Supervisor `supervisor/src` | none: Docker is asked each time | ensure, stop, reset, admission | Docker | requests overlap, names change hands, images are rebuilt |
| Mesh `server/src/mesh` | nodes, placements, tokens | enrol, place, move | supervisors | a move is many steps across two machines |
| Triggers `server/src/triggers` | rows, in-flight set | fire, tick, webhook | thread runner | overlapping firings, crash while running |
| Thread runner `runtime/postgres-runner.ts` | threads in memory and in Postgres | run, connect, stop, hydrate | agents, Postgres | ownership of a thread across awaits |
| Stall guard, watchdog `server/src/channels` | open streams, sweeper | watch, sweep, give up | Bots' streams | a stall racing the end of the stream |
| Channels | last message, sockets | report, announce, list | browsers | lost and reordered reports, lists read before an event |
| People and auth | accounts, roles, deny list, sessions | sign in, change role, remove, return | vault | check, await, write; a removal of several parts |
| Plugins | servers, tools, grants, skills, accounts | call, refresh, add, remove, connect | vendors, trail | rows written after the vendor answered |
| Connections, credentials | rows with encrypted secrets, pending codes | save, grant, use, sign in, rotate | egress proxy, browser | a secret that outlives its address or its grant |
| Agents | Bots, keys, tokens | create, edit, hide, delete, load | vault, channels | row locks, and a vault outside of the transaction |
| Providers | models and routes | save, remove, route | runs | several statements, one default |
| Components, artifacts | catalogue, grants, sources; versions | publish, grant, draw; update, attach | browsers, runs | browsers act on an old poll; unlocked reads |
| App | open conversation, queue, pane, lists | type, join, call tools, take over | all of the above | the page is one process shared by conversations |
| Screens `app/src/routes`, `app/src/lib/*/queries.ts`, `mutations.ts` | a cache of answers in each browser | draw, offer, send a change, throw cached answers away | every HTTP route | nothing asks again but the change itself; rights change elsewhere |
| Audit trail `server/src/audit.ts`, `audit-retention.ts` | rows, a session lock | append, page, sweep | every part that acts; a reader | rows that arrive while pages are read; a lock kept on a connection |
| Tenant package `tenant-package.ts` | versions, Bots, skills, documents | write at start | Postgres, catalogue | servers that start at once, with different packages |
| Runs `server/src/copilot.ts`, `agents/callback-token.ts` | none: built per request | build, offer tools, stop, call back | grants, tokens, Bots elsewhere | what was read at the start of a run, used as long as it lasts |
| Bots elsewhere `agent-langgraph`, `agent-bot` | the conversation they were sent | answer, call tools, stream | a model, the call route | a stream behind the graph; calls that nobody answers |
| CLI `cli/slice.ts` | containers, backups, keychain | up, down, backup, restore, key, guard | Postgres, launchd | two starters of one machine |

What makes each part correct is what its run checks (section 3). `PROJECT.json` lists every
component (`components`), the hazards with the line each bites at (`hazards`) and the lines
every definition translates (`map`).

## 2. Modules

| Module | Models | Instantiated in |
|---|---|---|
| `ComputerGateway` | `govern`, `snapshot`, `resetComputer`, the snapshot row, the session cache, the generations of agent-computer; `policy.ts` as operators | `MCComputerGateway` |
| `PolicyStore` | the saved policy and its copies | itself |
| `Supervisor` | ensure, stop, reset and admission over Docker | `MCSupervisor` |
| `ComputerControl` | the wheel, the secret channel, the scrubbing of snapshots | `MCComputers` |
| `Profiles` | the pool of browsers | `MCComputers` |
| `Mesh` | enrolment, placement, moves between nodes | `MCComputers` |
| `Harness`, `Workspace`, `Shell` | a coding engine's turns; paths over links; a command and its pipes | `MCComputers` |
| `ThreadRunner` | a conversation's runs, their rows and their replay | `MCDeployment` |
| `Triggers` | firings; which minutes a schedule matches | `MCDeployment` |
| `People` | accounts, roles, removal, vendor accounts | `MCDeployment` |
| `ToolCalls` | servers, their tools, and a call from judgement to its row | `MCDeployment` |
| `Skills` (extends `Selection`) | skills, who may write and grant them, and the tools they offer | `MCDeployment` |
| `Runtime` (extends `Selection`) | a run: the Bot and tools of a request, the offer, stop, and calls back with a token and an assertion | `MCDeployment` |
| `Loop` | the loop of the LangGraph Bot and of the Bot written by hand, what they stream and what history their models are shown | `MCDeployment` |
| `Vault` | connections: saved, granted, used, signed in to | `MCRecords` |
| `Providers`, `Credentials` | model providers statement by statement; the model key and its rotation | `MCRecords` |
| `Roster` | Bots with row locks, keys, tokens, the loader, channels of Bots | `MCRecords` |
| `Gallery`, `Artifacts` | components and the browsers that draw them; versions and attachments | `MCRecords` |
| `Package` | the tenant package written at start by several servers | `MCRecords` |
| `Routes` | the HTTP handlers as courses: whom they ask for, what may stop them, what they write and note, which answers that makes stale | `MCRecords` |
| `Screens` (extends `Routes`) | queries, mutations and pages as tables, and the browser's cache as a machine over them | `MCRecords` |
| `StallGuard`, `Relay` | the streams of Bots; what one stream promises | `MCTurns` |
| `Conversation` | composer, queue, join and turns of one open conversation | `MCTurns` |
| `Assist` | the computer tools of the page, the pane and the control card | `MCTurns` |
| `Activity` | the last message of each channel and a tab's list of channels | `MCTurns` |
| `Slice` | the machine, its guard, backups, restore, master key | `MCTurns` |
| `Trail` | the audit table, a reader's pages, the sweep of old rows and its lock | `MCTurns` |
| `ComputerGatewayProofs`, `SupervisorProofs`, `TurnsProofs`, `ComputersProofs`, `DeploymentProofs`, `LoopProofs`, `RecordsProofs` | theorems about the module they extend (section 5); those about `PolicyStore` stand at its end | - |

An operator that is commented "a wrong variant" and stands before another one is used by
nothing. Put in place of that one, it makes a property fail, which shows that the property
depends on that code (`mutants` in `PROJECT.json` lists one for each property).

`MCTurns`, `MCDeployment`, `MCComputers` and `MCRecords` hold several *machines* that share
no state in these models: `Init` picks one of `Machines`, the others stay as they are, and
the state spaces add up instead of multiplying. An invariant is then the conjunction of
what is asked of the machines it names. Where parts do interact they are in one module:
gateway, computer and trail; people, sessions and vendor secrets; channels and Bots; tool
calls, the page and the control state of each computer; the guard and the operator.

How state and actions correspond to the code, for the modules that need a word:

* **ComputerGateway**: `pc[c]` is where `govern` or `snapshot` of call `c` stands and `job[c]`
  how far the computer has got with it; they are separate because the server may give up
  (deadline, Stop, crash) while the computer goes on. A page has one element and the ref is
  the same string on every page, because that is the case that goes wrong (Playwright
  numbers refs per document). A rule is a function from what is judged to true, false or
  broken. The computer's session is its run number, and 0 stands for one that is not known.
* **PolicyStore**: `Commit` is the transaction with its NOTIFY, `Assign` the assignment after
  the await, `Hear`, `Select` and `Refreshed` a re-read, `Drop` and `Relisten` a lost LISTEN
  connection, `RefreshFails` a select that fails.
* **ComputerControl**: a handler that reads the control state and then awaits the page is two
  actions (`Admit` and `Land`, `Deliver`, `Fill` and `Supplied`). A field is its ref; `Turns`
  loads another document, on which the same ref names another field.
* **Supervisor**: a slot serves any number of requests; `ensure` is `List` (listing and
  admission), `Inspect`, `Judge`, `RemoveStale`, `CreateVolumes`, `Create`, `Dispute` (the
  409), `Start`, `StartMisses`, `Ready` or `NotAnswering`.
* **Profiles**: a call holds what it read of the map across its awaits. A browser context is up, half-dead,
  closing, closed (its `close()` returned) or gone, and its process may end in any of these: the code waits for
  `close()`, with or without two seconds more, and cannot see the end of the process.
* **Harness**: every line is an action, those after a terminal one (`late`) and those of an attempt that was killed
  for a stale session and is still read (`KilledLine`, `KilledRemembers`) too.
* **Mesh**: files are a set per place; a move is `AskStatus`, `Bundle`, `EnsureTarget`,
  `RestoreWorkspace`, `RestoreProfiles`, `StopSource`, `Place`, with `MoveFails` anywhere.
* **Vault**: a use is in steps (looked up, judged, sent or typed); a computer that fetches from 1Password has the
  two awaits of its route (`AskCred`, `HandCred`).
* **Gallery**: a call is deciding, asking for its data or answered, and `Draws` says what the transcript renders at
  any moment from what was polled, whatever the handler came to.
* **ThreadRunner**: `stored` are rows, `thread` the process's copy; `Finalize`, `Persist`,
  `LetGo` and `Complete` are the parts of `finalizeRun` between its awaits. A run's three
  events stand for its stream.
* **Triggers**: a firing is `Read` (the row, awaited), `Claim` (inFlight asked and entered in
  one step), `MarkRunning`, the run, `Settle`; the writes may fail.
* **StallGuard**: time is counted in ticks of the sweep; a reader that is slow is a pump that
  does not read, and `blamed` remembers of how much silence a Bot was accused.
* **People, ToolCalls, Skills**: requests are records that walk through the awaits of their
  handler, in the order they are sent.
* **Providers, Roster, Artifacts**: READ COMMITTED Postgres, by what a statement may see, the
  row locks it takes and waits for, and the abort of one of two that wait for each other.
* **Conversation**: a message is a number; `turn` is what counts for `turnsInFlight` and has
  several runs with browser tools in between; `join` is the effect that connects, detaches
  at a deadline, waits until the detach has settled (`Detached`), waits a grace and restores. A run that begins while
  a connect is still in flight tears it down, which may erase what was just added (`TornDown`).
* **Assist**: `surface` is the page's one active Bot; a call keeps the computer it was sent
  to (`at`) apart from its Bot (`of`). `Tick` is one poll interval.
* **Activity**: a message is its time; reports are a set, for HTTP requests overtake each
  other; announcements are a queue, for NOTIFY keeps commit order.
* **Routes, Screens**: a handler is the sequence of its steps: it `asks` who somebody is, `checks`
  something and may stop, `writes`, `tries` a write whose failure it swallows, `notes` in the trail. A step that writes
  names the answers it makes stale. A query is the handler that answers it, the family of cache
  keys it belongs to, and whether it is polled or kept; a mutation is the handlers it sends,
  one after the other, and the family it throws away, unless the page overrides that (`Overridden`); a page is what
  it shows and what it offers to whom, and a page of the app has the sidebar beside it, which `stays` when the page is
  left. `choice` is one page with one of its queries and one of its mutations, reduced
  to what tells two choices apart, so that `Init` goes over all of them. A row is its version:
  `stored` on the server, `seen` in the cache, `least` what the person may expect to see.
* **Slice**: the operator's commands and the guard (launchd's timer) are two starters of one
  stack; a restore is three processes, and so is a `down`. The database's VM may die under a server that runs.

## 3. Runs

| Run | Expect | Shows |
|---|---|---|
| `gateway_sequential` | pass | `JudgedIsActedOn`: through restarts, resets and failed snapshots the element acted on is the one that was judged |
| `gateway_overlap` | pass | two calls, two replicas, a crash: `RecordedFirst`, `TrailTellsOutcome` |
| `policy_one_at_a_time` | pass | `SettledAgrees`, `Converges` through lost connections, restarts, failed re-reads |
| `supervisor` | pass | `SliceHolds`, `KeepsCurrent`, `ResetWipes`, `AdoptsNothing` |
| `turns` | pass | `BlameIsEarned`, `SilentEnds`, `RelayKept` (StallGuard); `QueueKept`, `NeverSilent` (Conversation); `PaneTellsOwn`, `WaitEnds` (Assist); `RosterKept` (Activity); `StackKept` (Slice); `TrailKept` (Trail) |
| `computers` | pass | `PersonKept` (ComputerControl); `ProfilesKept`; `MeshKept`; `ToolsKept` (Harness, Workspace, Shell) |
| `deployment` | pass | `ThreadKept`; `FiringsTold`; `PeopleKept`; `CallsKept`; `WordsAreOwners`; `RunsKept` (Runtime, Loop) |
| `records` | pass | `SecretsKept` (Vault, Providers, Credentials); `BotsKept` (Roster); `ShelfKept` (Gallery, Artifacts); `PackageKept` (Package); `ScreensKept` (Screens, Routes) |
| `policy_overlap` | violation | two changes at once leave a server on the wrong policy |
| `removed_again` | violation | a removal that failed half way is not finished by removing again |
| `restore_guarded` | violation | the guard starts the stack in the middle of a restore |
| `wrong_computer` | violation | a run's call acts on the computer of the conversation opened meanwhile |

What the grouped properties are made of, each part commented where it is defined:
`ThreadKept` is one turn at a time on a thread, events shown once and in order, and rows in
order; `FiringsTold` one firing of a trigger at a time, and a row that tells an idle
trigger's outcome; `PeopleKept` that nobody removed can act and that an administrator
remains; `CallsKept` that the trail tells each vendor call and that tools survive a refresh;
`QueueKept` that parked messages run between turns and in order; `SecretsKept` that a secret
goes only to the address it was entered for, that it is forwarded or typed only for Bots it was granted to, that what
a computer fetches is recorded first, that there is one default provider and that a rotation leaves no gap; `BotsKept` that a Bot's key
works, a deleted Bot is silent and no channel is given one; `ShelfKept` that a compiled component drawn by an
answered call was permitted at some moment of that call, and a version that a run was given stays; `PackageKept` that
all the reported package ships is there, that what people wrote stays and that it takes no reserved name; `StackKept` that
the master key is always somewhere and that server and supervisor come back when they went down; `TrailKept` that pages
skip no row and old rows go; `RunsKept` that a run is offered what its Bot held when it was asked
for, that a call belongs to a run that was sent and is not too late, and that the stream of a Bot
elsewhere can be followed, tells every call once, and shows its model an answer to each; `PersonKept` a bounded number of actions after a takeover,
secrets in the field they were asked for, and never in a snapshot; `ProfilesKept` one open browser
per profile, and no profile deleted under an open one; `MeshKept` that files follow a Bot and a token
admits one node; `ToolsKept` that a harness turn that closes has its ending, once and last unless the engine said
more after it, a decision before each use, no path
outside of the workspace, and a cut that is told; `RosterKept` that a channel's last message
only moves forward and the list catches up; `ScreensKept` that a page draws what it was told was saved,
the removal on the page of one's own skills excepted, and offers nothing that the server then refuses.

**Further instances**, not among the runs, each ending in a violation that section 4
describes: `gateway_sequential.cfg` with `Servers = {s1, s2}`, `ServerOf <- TwoServers`, `MaxGen = 1`
and no `SYMMETRY` (`JudgedIsActedOn`), and `removed_again.cfg` with `Machines = {"skills"}` and
`INVARIANT GrantsFollowOwners`. The claims that section 4 names by a definition
(`StackOutlives`, `GrantCoversEveryUse`, `OnlyPermittedDrawn` and others) stand beside the properties of their module; each
fails in the instance of the passing run with its machine alone in `Machines` (`slice`, `pool`, `vault`, `gallery`,
`package`, `screens`), once the MC module has a definition for it, such as `Stack == Host!StackOutlives`.

**Bounds.** Each instance is the smallest in which the hazard can happen, and a little more.

* `gateway_*`: a snapshot, a change of run and an action go wrong on one server, hence three
  calls and two runs; two generations let a citation be current, outdated or from the
  future. The overlap has two calls because its properties relate one call to the trail.
* `policy_*`: two servers and two changes let a re-read and an assignment cross; two drops let
  a connection fail and its recovery fail as well.
* `supervisor`: two Bots, memory for one computer and cores for eight, so that the second
  dimension refuses; one rebuild of the image; requests are unlimited.
* `turns`: two streams, so that one disarms what the other needs; a stall of two ticks; two
  messages and two turns with one browser tool each, so that a turn has two runs; two Bots,
  two calls one after the other and a pane that lists one of them; two channels, three
  messages, one lost socket; two commands and one crash; three rows, read a page of one at a time
  and swept in two batches of one.
* `computers`: two calls of a Bot beside one person and two fields; two Bots and three
  browsers for a cap of one; one workspace file and one profile file, two moves, one token
  presented twice; two turns of one thread on engines of three kinds; every file system of
  the four paths of `MCComputers` with every link, followed up to four hops; output of six
  units over a cap of two, with a process that keeps the pipes open.
* `deployment`: two runs on one thread, one viewer and one restart; one trigger, two firings
  and one fault; three people of whom one is configured as administrator, five requests and
  two vendor accounts; one call beside four administrators' requests; three skill requests; one run
  of one of three Bots, two of which run elsewhere, beside two changes; two runs of a Bot elsewhere
  with three calls and three answers a run.
* `records`: a connection removed and created again, over two addresses; two saves of three
  providers; three credentials; three requests on two Bots in two transactions; two browsers,
  one compiled component and one authored; two updates at once and three contents; two
  servers that start with their packages; every page with every pair of its queries and mutations,
  opened twice, one save and one change by somebody else (of what is drawn or of a right), for a
  person who sees a Bot, owns it, or is an administrator.

`CHECK_DEADLOCK FALSE` stands where requests, faults or things to say are used up.

**Assumptions a passing run makes about the environment** are constants, and switching one
off shows what the code relies on:

* `Sequential` (gateway): one call, restart or reset at a time. Without it, or with
  `ReportsSessions = FALSE`, `JudgedIsActedOn` fails.
* `OneAtATime` (policy, vault): a change waits until nothing of the last one is on its way; a
  save or removal of a connection overlaps nothing.
* `OneSecret`, `PageStays` (control): one secret is waited for at a time, and no document is
  loaded meanwhile.
* `~overlapped` in the supervisor's properties. Without it all four fail.
* `Detaches` (conversation): `detach()` settles. `joinWithin` bounds the connect it ends and not the
  `await` of the detach before it; without it `NeverSilent` fails.
* `Patient` (pool): the calls for one Bot wait while a browser of its is dropped, stopped or evicted, and no launch is
  in flight for a Bot that is reset. Two callers that drop the same half-dead browser are left out by it, and launch
  twice (section 4). (people, skills): one request at a time.
  (runs): nobody presses Stop while tools are chosen.
* `ReadBack` (loop): FALSE says that the LangGraph Bot is sent conversations in the order they were
  held. `Legacy` (runs): the deployment-wide token is not set; `RunsKept` holds with it too.
* `Fine` (trail): 1 says that no two rows are closer than a cursor can tell.
* `Quiet`, `Answering` (mesh): a Bot does not act during its move, and its source answers.
* `OneNewAtATime` (providers): no two saves create a provider at once.
* `WithControlPlane = FALSE` (screens): a Bot's profile is opened without its control plane (section 4).
  A page that joins a request which was out before it opened expects nothing of that answer.
  `TablesAssumption` (`MCRecords`) says what the tables of pages have to agree on; the run evaluates it.

`Decisions = {}` (gallery) is only for size: `ShelfKept` asks nothing of decision cards.

**Fairness** is stated only where the code goes on by itself:

* `PolicyStore`: a committed request reaches its assignment, the driver delivers, reconnects
  and answers a select. `Converges` excepts a server that has logged a failed re-read.
* `StallGuard`: the sweeper's interval and the clock. Nothing makes a Bot speak or a reader read.
* `Conversation`: the join's deadline and grace are timers, a detach settles (`Detaches`), effects run when their
  condition holds, and a turn is ended in the end, which is what the stall guard and a finished run
  promise (`SilentEnds`), hence strong fairness for `EndTurn`. That a connect ends is nobody's
  promise and is not assumed.
* `Assist`: time passes and a request is answered, refused or times out. No person acts.
* `Activity`: the socket is retried after each loss, announcements are delivered while it is
  open, a list request is answered. Reports may be lost.
* `Slice`: the guard wakes, a `slice up` goes on to its next step, a command the operator gave
  goes on; crashes and commands are not fair.
* `Trail`: the sweep's timer fires and a sweep that began goes on. Writers and readers are not fair.

`MCTurns` restates these for the machine that was picked.

**Refinement.** `StallGuard` implements `Relay`: a stream hands on chunks and then ends, once,
in one of the ways there are, and says nothing after it. `RelayKept` is `Relay!Spec` under
`INSTANCE Relay` with the history `relay` of what each stream was handed.

## 4. What disagrees with its comments, and what is not covered

Four runs end in a violation of a sentence of the repository; `findings` quotes them. Four
more instances do, on the way: `gateway.ts:418` "Comparing the run closes both." holds on one
server only (two replicas, section 3); `control.ts:5` "every acting call from the Bot is refused"
leaves out session import and secrets from the vault (`WheelIsExclusive` of `ComputerControl`); `plugins/routes.ts:544`
"neither half alone is enough", but grants name a skill by its slug and outlive it
(`GrantsFollowOwners`, section 3); a secret request that a take-over or a failed fill closed is reported
to the Bot as entered (`wrong_computer.cfg` with `INVARIANT DeliveredMeansReceived`, against
`agent-computer/src/index.ts:619-620`).

Others are told by one definition each. `audit.ts:502`: a cursor keeps milliseconds of a column that has
microseconds, and pages skip rows (`PagesMissNothing` with `Fine = 2`).
`tenant-package.ts:718`: a skill that an administrator edits keeps its origin, so the next start
does what the comment says it does not, "silently replacing something somebody wrote".
`copilot.ts:800`: Stop finds no inner run while the tools are being chosen, and the run begins
(`StopIsHeard` with `Patient = FALSE`). `agent-langgraph/src/index.ts:502`: "agent-bot has the same
hazard and the same ordering", but the catch of `agent-bot/src/index.ts:191` closes no message
(`ErrorsCloseMessages`). `agent-bot/src/history.ts:38`: the store gives results before their calls, and
"the pairing is rebuilt here instead of trusted"; `toLangChainMessages` trusts it
(`EveryCallAnswered` with `ReadBack = TRUE`).

`agent-profile.tsx:147` shows the control plane to whoever may manage a Bot, and its routes are an
administrator's: an owner is refused what the page offers (`OfferedIsAllowed` with `WithControlPlane = TRUE`).

Several parts do less than their comments say. A definition in brackets states the claim and fails in the instance of
the passing run, unless it is said to hold:

* `slice.ts:1057` "so the stack outlives reboots and crashes", `:1111` "the guard keeps everything else alive". The
  guard asks `/health` of the server and the supervisor (`:1068-1074`), and the server's does not ask the database
  (`app.ts:198`): a Postgres that stops under a running server is not started again (`StackOutlives`).
* `join-thread.ts:36` waits for `detach()` with no bound, against "bounded" (`:2`, `:43`): a detach that does not
  settle keeps the join's gate shut and what is typed unanswered (`NeverSilent` with `Detaches = FALSE`). And a
  connect that outlived its grace is torn down by the next run and may erase the message that started it, as `:52`
  admits and `channel-chat.tsx:232` means to prevent; nothing else erases one (`ErasedOnlyLate` holds).
* `profiles.ts:280` "instead of starting another browser against the same profile directory", `:368` "the browser is
  closed before the directory is deleted": what is waited for is `close()`, which "only asks it to exit" (`:137`), and
  two seconds, and in the drop of a half-dead browser (`:297`) `close()` alone. A process may still be there
  (`OneProcessPerProfile`).
* `harness-adapters.ts:56` "once the run's terminal event has been emitted": nothing stops what the engine says after
  it (`harness.ts:320-330`), nor what an attempt killed for a stale session had in its pipe (`:303-309`): such a line
  reaches the stream of the fresh attempt, may end it early, and may write the stale session back (`:323`).
  `OneEnding` holds when there was no such line; `EndingTold` always.
* `postgres-runner.ts:375` completes a connection at once when there are no runs and nothing is running, although a
  stop was asked for and the condition at `:385` would have let it watch: whoever connects while the first turn of a
  thread is being stopped is sent nothing of it.
* `plugins/store.ts:1420-1423` "Decide, record, then act" heads a function that says "Attempt first, record second" at
  `:1549` and does that. `CallsKept` is of the second; the order of the first is its wrong variant
  `JudgeRecordsFirst`.
* `connections/store.ts:12-16`: secrets are "decrypted in two places only", "both check a grant first" and "both leave
  an audit row". A third place, `GET /api/computer-cred/:connection` (`app.ts:755`, `store.ts:346`), fetches the
  credential of a connection from 1Password for a computer, with a token all computers share and no grant
  (`GrantCoversEveryUse`). The egress proxy leaves no row (`UseIsRecorded`).
* `components/queries.ts:50` "call-time checks still enforce the grant", `gallery-tools.tsx:133` "Nothing was
  displayed": a compiled component is drawn from the poll while its decision is out (`gallery-tools.tsx:88-108`), one
  authored in a browser even after a refusal, which is looked up under another id than it was put down under
  (`sandboxed-tools.tsx:80` reads `toolCall.id`, where the gallery at `:90` reads `toolCallId`), and about a decision
  card nobody is asked (`OnlyPermittedDrawn`).
* `tenant-package.ts:551` itself says that "nothing here removes a canonical agent when a package stops declaring
  one": a deployment that reports one content may still serve a Bot of an older one (`NothingOlder`). `PackageKept` is
  of what the reported one ships.
* `plugins/mutations.ts:241` throws the answers away after a skill was removed, and `_app/skills.tsx:79-83` spreads
  these options and then puts an `onSuccess` of its own in their place: the skill stays drawn
  (`SavedIsShownEverywhere`).

Smaller ones: `control.ts:182` "A failure leaves the request open" where `index.ts:643-647` closes it;
`gateway.ts:681` "the row is written whatever happens next" where a failing `provider.reset`
writes none; `docker.ts:608` "409 is 'still in use', which resolves itself" where nothing tries
again; `profile-store.ts:410` on the old key of a Bot, where a commit that is lost after the
old key was retired leaves a header with no key (`KeyNeverLost` of `Roster`); `auth/queries.ts:57`
"cannot change without the process restarting" of an answer that follows the identity providers,
which change at runtime (`app.ts:229-253`).

Hazards met in the code that no passing property covers, for whoever continues:

* *Computer.* The generation is read again after an await (`agent-computer/src/index.ts:306`);
  beyond 32 Bots sessions are forgotten (`:152`); handovers act and then write their row
  (`gateway.ts:685`); a failed re-read of the policy is not repeated (`policy-listener.ts:34`); a
  failed `pg_notify` is swallowed in a transaction it has aborted (`policy-store.ts:191`); a
  reset of a computer that was removed elsewhere keeps the volume (`docker.ts:592`); an exited
  container has an older reservation (`supervisor/src/index.ts:258`); two callers of a half-dead
  browser launch twice (`profiles.ts:294`).
* *Mesh.* The client cache is keyed by the length of a token (`provider.ts:96`); a stopped
  source is moved without its files (`:249`).
* *Runs.* A rejected hydrate is kept (`postgres-runner.ts:135`); a write that throws leaves a
  trigger claimed for the life of the process (`engine.ts:178`).
* *People and plugins.* A callback finishes after the removal (`plugins/routes.ts:398`);
  overlapping reconnects orphan a credential (`store.ts:1195`); removing a server leaves its
  grants (`:657`), and a granted tool of a removed server is answered 404 with no row (`:1455`);
  refreshes overlap (`:721`).
* *Records.* A device-code poll deletes a newer pending entry, or stores into a connection that
  was created again; a verified status outlives a change of the secret; two new providers saved at once are both
  default; a channel and an edit lock two rows in opposite orders and Postgres aborts one; a
  run that begins during a rotation sends no header (`runtime-agents.ts:44`); a component
  published while its draft is saved may show a half of each (`PublishedTogether`); one of two concurrent updates of an artifact is answered 404; a
  pinned version that is gone resolves to an empty text (`artifacts/store.ts:254`).
* *Page.* A list that was read before an event and arrives after it takes the event back
  (`use-channel-events.ts:41`; `RosterCatchesUp` exempts it); `clearActivity` has no caller
  (`activity.ts:109`); a slow poll of the control state overwrites a newer take; a help request
  that expires just before the deadline is reported as handed back.
* *Screens.* Signing in to a connection creates its row and throws no answer away
  (`MsConnectStart`); a publication that fails at its second request leaves the saved draft
  undrawn; one failing poll of a device code ends the polling silently
  (`admin/connections.tsx`); two mutations and queries are used by no page.
* *CLI.* The daily backup may save a half-restored database (`slice.ts:987`); `init --force`
  overwrites the key (`:129`).

## 5. Proofs

A theorem holds for every value of the constants that satisfies the named assumptions of its
module; TLC evaluates those in the runs. A theorem that needs one of the assumptions about the
environment of section 3 has it as its hypothesis, as in `Patient => (Spec => []ProfilesKept)`: it is the
value the run gives that constant, and section 3 or 4 says what the code does without it.

None of the safety properties is inductive. Each proof has an invariant that says where every request stands and what it
has read, `Init` establishes it, each action preserves it (one step of the proof per action), and the
property follows. In the composed modules a step is a step of one machine and leaves the others'
variables alone (the `*Steps` lemmas), so each machine has an invariant of its own, named below.

* `ComputerGatewayProofs`: `TypeCorrect`, `RecordedFirstAlways`, `TrailTellsOutcomeAlways`,
  `JudgedIsActedOnAlways`. That a call which reached the browser has its row depends on how it got
  there. `RecordInv` says it call by call: which steps belong to which kind of call, that the
  computer has been asked for nothing until the call is past `Record` (`JobFollowsCall`), that a call
  let through has a forwarding decision in the trail (`DecisionStands`), and that failure rows and
  failed calls go together (`FailureStands`). For the element that is acted on, `JudgedInv` adds what the row
  of the snapshot says of the page (`RowTellsPage`) and what a call has loaded and cited; hypothesis
  `Serial`: one server, which does not crash and hears of runs, and one call, restart or reset at a time.
* `PolicyStore`: `TypeCorrect`, and `AgreementWhenSerial`, `SettledAgrees` under
  `OneAtATime`. The invariant is that whatever is on its way carries the saved policy
  (`InFlightIsSaved`) and that a server that is behind has something on its way
  (`BehindIsReached`).
* `SupervisorProofs`: `TypeCorrect`, `SliceHoldsAlways`, `KeepsCurrentAlways`, `ResetWipesAlways`,
  `AdoptsNothingAlways`. While no two requests have overlapped, at most one is served, and an ensure
  that was let in keeps room for its Bot's computer until it is over (`RoomKept`).
  `AdmitMakesRoom` is the arithmetic of `admit`, `FitsSubset` that fewer computers fit as well. The three
  action properties need `NameInv`: what a request has seen of the container under its Bot's name is
  still there, and it acts only on one that is ours. `WhoTouchesWhat` goes over the actions once for the three.
* `TurnsProofs`: `BlameIsEarnedAlways`, `RelayKeptAlways`, `QueueKeptAlways`, `PaneTellsOwnAlways`, `TypeCorrect`, and
  the safety parts of `RosterKept`, `StackKept` and `TrailKept`: `LastMovesForwardAlways`, `KeyKeptAlways`,
  `PagesMissNothingAlways` (`Fine = 1`).
  `GuardInv` (assumption `GuardAssumption`) ties the silence that is counted to the chunks and pauses of each stream;
  `RelayKeptAlways` is the refinement, step by step: under the mapping `Ends` a step of the guard is
  a step of `Relay` or a stutter. `ChatInv` orders what was typed over all the places where a message may
  be (`InOrder`), and `GateInv` says that a join which is over has a connect in flight only if that outlived its
  grace; the lemmas about ascending sequences are for appending, concatenation and removal.
  `AssistInv` says that a call knows its computer for as long as it is out. `KeyInv`: while the key is moved the env
  file has one, and before it is taken out there the keychain has the same. `PageInv`: the cursor parts what
  was shown from what is still to come, because a page of a finite trail has a last row and whatever is not
  on it comes after (`NewestIs`, by the number of rows above each, `AboveCounts`; `TrailAssumption`, a page has a row).
* `ComputersProofs`: `PersonKeptAlways` (`OneSecret`, `PageStays`), `ProfilesKeptAlways` (`Patient`),
  `MeshKeptAlways` (`Quiet`, `Answering`), `ToolsKeptAlways` and `TypesKept`, both with no hypothesis (that a turn
  ends once says itself of which turns). `ControlInv`: no document was loaded under a
  secret, each sender is bound for the field its value is for (`SecretsAreMeant`), and what a field
  echoes is remembered or about to be (`EchoesAreKnown`). The ring forgets its oldest value, and `RingKeeps`
  shows that it forgets none of the page's while it has room for one of each field, by the
  cardinality of an injection (`DistinctFit`, with `FiniteAssumption`). `PoolInv`: of the calls that close, start
  or wipe for a Bot there is one (`OneExclusive`), what the map names is its Bot's, what is open is mapped or
  closing, and while such a call is under way nothing is open but what it is closing (`Agrees`).
  `PoolAssumption`: the cap is positive, for with none the browser that was just launched would be evicted.
  `MovesInv`: a move has carried what its step says (`Carries`); `JoinsInv`: of the
  requests that a token let in or is about to there is one. `EngineInv`: while no line came late, a stream has its
  ending exactly when its turn is finished; and a tool that may be used has a row no use has claimed. `ShellInv`
  (`SizesAssumption`). `FilesInv`: what a write resolved to lands in the workspace or nowhere (`WritesLandInside`), for every
  file system, link and request. Where the kernel leads it leads nowhere else from there (`RealpathSettles`), nothing
  lies beyond a name that leads to nothing (`NothingBeyond`), the nearest folder that exists is where the longest such
  prefix leads (`NearestIsLongest`), and a chain of links ends at no link (`DestinationIsNoLink`). `Realpath`, `Lands`,
  `NearestExistingAncestor` and `WriteDestination` are recursive functions of a path and a count of links; that they
  satisfy their equations is proved from `Iterates`, the repetition of a function as a function, with induction as a
  fact about sets of numbers. `FilesAssumption`: paths are sequences of names, the workspace is not the top of the file system,
  and no path is the mark for what was refused. `TypesKept`: a sender that still has something to send knows its field
  (`ControlTypes`), no call is under way for no Bot, and the order of use names the Bots of the map, each once
  (`PoolTypes`), so a launch makes one browser too many at most and evicting the first leaves the two in step
  (`OrderHas`). `SomethingAssumption`: there is a thread, an engine, a Bot, a token and a node.
* `DeploymentProofs`: `ThreadKeptAlways`, `FiringsToldAlways`, `CallsKeptAlways`, `RunsAreOwnAlways`,
  `PeopleKeptAlways` and `WordsAreOwnersAlways` (both `Patient`), and three facts about what the choice
  of skills may offer: `OfferIsGranted`, `WithheldIsClaimed`, `NoAnswerNoLoss`. `RunnerInv`: until a row is lost,
  rows, copy and history are as long as one another (`RowsAreAll`), and what a connection was told of at
  its start is over or watched (`ViewStands`). `EngineInv`: a trigger is in flight exactly while a firing of it
  goes on, or its update was refused. `VendorInv`: what the rows of a call may be at each of its steps.
  `FolkInv` (with `FoundersAssumption`, somebody is configured as administrator): what a request has read
  still holds, and what the vault keeps of somebody removed is on its way out. `TurnInv`, `ShelfInv`.
* `LoopProofs` (extends `DeploymentProofs`): `RunsKeptAlways` (`ReadBack = FALSE`) and `TypesKept`, the `TypeOK` of
  the deployment, with no hypothesis. `BotInv` follows a call through the graph, the queue of
  its events, the relay and the stream: what has been streamed so far can be gone on from (`StreamIsWellFormed`), the
  calls of a run are the last ids given out (`CallsAreLast`), a call that is not yet told waits in the queue or in
  `pending` (`CallsAreKept`), the surface keeps an answer to each call that was made (`PastIsSound`), and the conversation
  given to the model has one behind each call but those whose tools are running (`GivenIsSound`). Flattened, selected and appended sequences are described by the places their
  elements come from (`MadeOf`, `FlattenPlaces`), with the least-number principle for induction over their lengths
  (`UpTo`, from the well-foundedness of the finite sets under inclusion). `TypesKept` puts together a shape of each machine.
  That a row of a thread is numbered below the number of its runs needs that rows and copy name each run once
  (`EachOnce`: then the rows are as many as the runs they name, so what `hydrate` reads is an injection, `LoadedOnce`), and that a connection is sent
  an event twice at most, that nothing is shown that was not said and nothing is said twice (`SaidShape`).
  `BoundsAssumption`: the bounds are numbers, `Runs` is finite, and `NoOne` is nobody.
* `RecordsProofs`: `SecretsKeptAlways` (`OneAtATime`, `OneNewAtATime`), `BotsKeptAlways`, `ShelfKeptAlways`,
  `PackageKeptAlways`, `ScreensKeptAlways` (`~WithControlPlane`). `VaultInv`, `RouteInv` (of the saves that
  overlap one clears the defaults, and it holds every default row), `KeyInv`. `BotsInv` follows the
  row locks: who holds one, and what they have read stays as it was until they commit.
  `GalleryInv` (`KindsAssumption`: a compiled component with a handler is neither a decision card nor authored), and
  `WorkInv` for two updates that read the same version (`TextsAssumption`). `PackageInv`: the row of the
  package is the first a start takes and the last it gives back (`NamesAssumption`: the
  ids of people, tenants and packages are told apart, for they are columns of their own). `ScreenInv`: what is on its way to a page is as new as the page has to show.
  It needs of the tables that a page draws what its changes make stale, unless it overrides them, and offers what their
  handlers answer, which is `TablesAssumption`, a finite statement about them that TLC evaluates.

**Model-checked only.** Liveness: `Converges`, `SilentEnds`, `NeverSilent`, `WaitEnds`, `RosterCatchesUp` of `RosterKept`,
`StackComesBack` of `StackKept`, `OldRowsGo` of `TrailKept`. The library's induction theorems
take an operator, which the provers do not instantiate: for the sequences of `Loop` and the paths of `Workspace` the
least-number principle stands in, as a fact about sets. Not yet proved:
the `TypeOK` of `MCRecords`, of which the inductive invariants above contain as
much as the proofs need.

## 6. Not modelled, and how far the map reaches

The map covers about 23% of the implementation's lines. Of the server, the computer and the
supervisor, what keeps state and waits is modelled. The larger part of the rest is the app. The part of it
that has state of its own is in `Conversation`, `Assist`, `Activity` and `Gallery`. Its pages are in `Screens`,
as much of them as decides what is shown, offered and asked again: an entry of a page stands for a component most of
whose lines are layout, forms and wording, which are not modelled. A form is sent
or it is not; its fields, their checks and dialogs are left out. The page `_app/bot.tsx` holds the chat of a library and is not
modelled.

Left out for a reason: the contents of pages, files and commands; CEL itself and the checks of
URLs and names; parsing (aria snapshots, vendors' streams, cron text, bundles); encryption and
one-time codes; SPIRE registration; the OAuth exchange with a vendor and the MCP transport, of
which `ToolCalls` and `People` keep the outcomes; the Apple backend, which repeats Docker's verbs
over a CLI; the prompt of `copilot.ts` and the label of `routing/classify.ts`; configuration and
wiring; the cursors of lists other than the trail; heartbeats and capacity of nodes; the worker.

## 7. Plan

1. Theorems: the `TypeOK` of `MCRecords`, as `TypesKept` has it of a deployment and of a computer.
2. Modules still worth writing: the OAuth exchange with overlapping callbacks, and the heartbeats
   of nodes.
