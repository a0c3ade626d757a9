---------------------------- MODULE MCComputers ----------------------------
(***************************************************************************)
(* The machines of a Bot's computer, for TLC: the wheel and its secrets,   *)
(* the pool of browsers, the mesh that places and moves computers, the     *)
(* harness, the workspace and the shell.  They share no state here, so a   *)
(* behaviour is one of one machine: Init chooses it, and the state spaces  *)
(* add up.                                                                 *)
(***************************************************************************)
EXTENDS Naturals, Sequences, FiniteSets

CONSTANTS BotCalls, Person, Fields, OneSecret, PageStays, Ring, MaxTakes,
          Bots, Calls, Contexts, MaxLive, Patient,
          MovedBots, Nodes, Local, WorkspaceFiles, ProfileFiles, Moves, Tokens, Joins, Quiet,
          Answering,
          Threads, HarnessTurns, Sessions, Engines, MaxEvents,
          Root, Paths, Links, Requests, MaxHops,
          MaxOutput, MaxWritten, Daemons

\* The pool holds a browser, and the marks for none are no browser, call or field.
ASSUME PoolAssumption == MaxLive \in Nat \ {0} /\ "none" \notin Calls \cup Contexts \cup Fields
\* A Bot has finitely many calls outstanding, and a page finitely many fields.
ASSUME FiniteAssumption == IsFiniteSet(BotCalls) /\ IsFiniteSet(Fields)
ASSUME SizesAssumption == Ring \in Nat /\ MaxOutput \in Nat /\ MaxWritten \in Nat /\ MaxTakes \in Nat
\* There is a thread, an engine, a Bot that may be moved, a token and a node.
ASSUME SomethingAssumption == {} \notin {Threads, Engines, MovedBots, Tokens, Nodes}

\* Paths and what links and requests say are sequences of names, the workspace is not the top, and the
\* mark for what was refused is no path of it.
ASSUME FilesAssumption ==
    /\ Root \in Seq(STRING) /\ Root # <<>> /\ Paths \subseteq Seq(STRING)
    /\ <<"refused">> \notin Paths \cup {Root}
    /\ Links \subseteq [abs : BOOLEAN, to : Seq(STRING)]
    /\ Requests \subseteq [abs : BOOLEAN, names : Seq(STRING)] /\ Requests # {}
    /\ MaxHops \in Nat

\* For TLC the workspace is /w, beside it is /b; links lead out, in, around and relatively.
OneRoot == <<"w">>
FewPaths == {<<"b">>, <<"w", "a">>, <<"w", "b">>, <<"w", "a", "b">>}
Link(abs, to) == [abs |-> abs, to |-> to]
FewLinks == {Link(TRUE, <<"b">>), Link(TRUE, <<"w">>), Link(TRUE, <<"w", "a">>),
             Link(TRUE, <<"w", "a", "b">>), Link(FALSE, <<"..", "b">>), Link(FALSE, <<"b">>)}
Request(abs, names) == [abs |-> abs, names |-> names]
FewRequests == {Request(FALSE, n) : n \in {<<"a">>, <<"b">>, <<"a", "b">>, <<"b", "b">>, <<"b", "a">>,
                                           <<"..", "b">>, <<"b", "a", "b">>}}
               \cup {Request(TRUE, <<"b">>)}

VARIABLES
    machine,
    holder, asked, pending, acting, input, sending, meant, into, contents, described, moved,
    astray, remembered, looking, captured, late, inflight, uninvited, misplaced, takes,
    live, used, starting, chromium, profile, call, torn,
    nodes, open, placement, computer, disk, move, token, join, kept, admitted,
    session, home, turn, said, tool, rows, toolsUsed,
    fs, ask, resolved, touched,
    bash, group, daemon, text, dropped, written, timer, result

controlVars == <<holder, asked, pending, acting, input, sending, meant, into, contents, described,
                 moved, astray, remembered, looking, captured, late, inflight, uninvited,
                 misplaced, takes>>
poolVars == <<live, used, starting, chromium, profile, call, torn>>
meshVars == <<nodes, open, placement, computer, disk, move, token, join, kept, admitted>>
harnessVars == <<session, home, turn, said, tool, rows, toolsUsed>>
workspaceVars == <<fs, ask, resolved, touched>>
shellVars == <<bash, group, daemon, text, dropped, written, timer, result>>
vars == <<machine, controlVars, poolVars, meshVars, harnessVars, workspaceVars, shellVars>>

Control == INSTANCE ComputerControl
Pool == INSTANCE Profiles
Placing == INSTANCE Mesh WITH Bots <- MovedBots
Engine == INSTANCE Harness WITH used <- toolsUsed, Turns <- HarnessTurns
Files == INSTANCE Workspace
Command == INSTANCE Shell

\* The one workspace the other machines are run beside.
AnyWorkspace ==
    /\ fs = [p \in Paths |-> [kind |-> "none"]]
    /\ ask = CHOOSE a \in [request : Requests, forWrite : BOOLEAN] : TRUE
    /\ resolved = <<>> /\ touched = <<>>

Init ==
    /\ machine \in {"control", "pool", "mesh", "harness", "workspace", "shell"}
    /\ Control!Init /\ Pool!Init /\ Placing!Init /\ Engine!Init /\ Command!Init
    /\ IF machine = "workspace" THEN Files!Init ELSE AnyWorkspace

Next ==
    \/ /\ machine = "control" /\ Control!Next
       /\ UNCHANGED <<machine, poolVars, meshVars, harnessVars, workspaceVars, shellVars>>
    \/ /\ machine = "pool" /\ Pool!Next
       /\ UNCHANGED <<machine, controlVars, meshVars, harnessVars, workspaceVars, shellVars>>
    \/ /\ machine = "mesh" /\ Placing!Next
       /\ UNCHANGED <<machine, controlVars, poolVars, harnessVars, workspaceVars, shellVars>>
    \/ /\ machine = "harness" /\ Engine!Next
       /\ UNCHANGED <<machine, controlVars, poolVars, meshVars, workspaceVars, shellVars>>
    \/ /\ machine = "workspace" /\ Files!Next
       /\ UNCHANGED <<machine, controlVars, poolVars, meshVars, harnessVars, shellVars>>
    \/ /\ machine = "shell" /\ Command!Next
       /\ UNCHANGED <<machine, controlVars, poolVars, meshVars, harnessVars, workspaceVars>>

Spec == Init /\ [][Next]_vars

-----------------------------------------------------------------------------
\* The state of the machines has the shape the code gives it.
TypeOK == Control!TypeOK /\ Pool!TypeOK /\ Placing!TypeOK /\ Engine!TypeOK /\ Command!TypeOK

\* ComputerControl: what lands after a take was admitted before it; a secret is typed into the field
\* it was given for; no snapshot the Bot reads echoes a secret still remembered.
PersonKept == Control!TakeoverIsBounded /\ Control!SecretInNamedField /\ Control!SnapshotHidesSecrets

\* Profiles: one open browser on a profile directory, the next one started only when close() of the
\* one before has returned; a reset deletes no directory under a browser that is not closed.
ProfilesKept == Pool!OneOpenPerProfile /\ Pool!WipedAtRest

\* Mesh: a Bot's files are where its placement says, all of them; an enrolment token admits one node.
MeshKept == Placing!FilesFollow /\ Placing!TokenAdmitsOne

\* Harness, Workspace, Shell: a stream that closed has an ending, one and last unless its engine went
\* on after it, and a tool that was used has its decision on the trail; the file touched is under the
\* workspace; output that was cut is said to be.
ToolsKept ==
    /\ Engine!EndingTold /\ Engine!OneEnding /\ Engine!UsedIsRecorded
    /\ Files!Confined
    /\ Command!TruncationTold
=============================================================================
