-------------------------------- MODULE Mesh --------------------------------
(***************************************************************************)
(* One deployment over several machines: nodes enrol with one-time tokens, *)
(* a placement says where each Bot's computer is, and a move carries its   *)
(* workspace and its browser profile to another node.  Every step of a     *)
(* move is a call to a supervisor, so anything can happen in between.      *)
(***************************************************************************)
EXTENDS Naturals, FiniteSets

CONSTANTS
    Bots, Nodes,
    Local,           \* LOCAL_NODE, the deployment's own supervisor
    WorkspaceFiles,  \* what is under /workspace
    ProfileFiles,    \* what is under /profiles
    Moves,           \* move requests under way at a time
    Tokens,          \* enrolment tokens, each minted once: bounds the enrolments
    Joins,           \* enrolment requests, each made once
    Quiet,           \* a Bot does nothing while it is moved, and is moved once at a time
    Answering        \* a computer that is to be moved runs, and its supervisor says so

Places == Nodes \union {Local}
Files == WorkspaceFiles \union ProfileFiles

VARIABLES
    nodes,       \* the nodes table: the ids enrolled
    open,        \* the ones with placementEnabled
    placement,   \* the placements table
    computer,    \* on each place, each Bot's computer: absent, stopped or running
    disk,        \* on each place, each Bot's files
    move,        \* each move request: where its handler is and what it holds
    token,       \* the enrollment tokens table
    join,        \* each enrolment request
    kept,        \* history: the files each Bot has written and not deleted
    admitted     \* history: the requests each token let in

vars == <<nodes, open, placement, computer, disk, move, token, join, kept, admitted>>
tables == <<nodes, open, placement>>
enrolment == <<token, join, admitted>>

Steps == {"idle", "asked", "bundling", "target", "workspace", "profiles", "stopping", "placing"}
NoMove == [at |-> "idle", bot |-> CHOOSE b \in Bots : TRUE, from |-> Local, to |-> Local,
           bundled |-> FALSE, bundle |-> {}]
MoveType == [at : Steps, bot : Bots, from : Places, to : Places, bundled : BOOLEAN, bundle : SUBSET Files]
NoJoin == [at |-> "new", token |-> CHOOSE t \in Tokens : TRUE, id |-> CHOOSE n \in Nodes : TRUE]

TypeOK ==
    /\ nodes \subseteq Nodes /\ open \subseteq Nodes
    /\ placement \in [Bots -> Places]
    /\ computer \in [Places -> [Bots -> {"absent", "stopped", "running"}]]
    /\ disk \in [Places -> [Bots -> SUBSET Files]]
    /\ move \in [Moves -> MoveType]
    /\ token \in [Tokens -> {"unminted", "fresh", "expired", "used"}]
    /\ join \in [Joins -> [at : {"new", "checking", "done"}, token : Tokens, id : Nodes]]
    /\ kept \in [Bots -> SUBSET Files]
    /\ admitted \in [Tokens -> SUBSET Joins]

Init ==
    /\ nodes = {} /\ open = {}
    /\ placement = [b \in Bots |-> Local]
    /\ computer = [p \in Places |-> [b \in Bots |-> "absent"]]
    /\ disk = [p \in Places |-> [b \in Bots |-> {}]]
    /\ move = [m \in Moves |-> NoMove]
    /\ token = [t \in Tokens |-> "unminted"]
    /\ join = [j \in Joins |-> NoJoin]
    /\ kept = [b \in Bots |-> {}]
    /\ admitted = [t \in Tokens |-> {}]

\* clientForNode: a supervisor can be called while its node is enrolled.
Callable(p) == p = Local \/ p \in nodes
Moving(b) == \E m \in Moves : move[m].at # "idle" /\ move[m].bot = b
Undisturbed(b) == Quiet => ~Moving(b)

-----------------------------------------------------------------------------
(* The tables *)

Mint(t) ==
    /\ token[t] = "unminted"
    /\ token' = [token EXCEPT ![t] = "fresh"]
    /\ UNCHANGED <<tables, computer, disk, move, join, kept, admitted>>

\* ENROLLMENT_TTL_MS pass.
Expire(t) ==
    /\ token[t] = "fresh"
    /\ token' = [token EXCEPT ![t] = "expired"]
    /\ UNCHANGED <<tables, computer, disk, move, join, kept, admitted>>

\* A token that is marked only once its node is enrolled.
ConsumeUnmarked(j, t, n) ==
    /\ join[j].at = "new" /\ token[t] # "unminted"
    /\ join' = [join EXCEPT ![j] = [at |-> IF token[t] = "fresh" THEN "checking" ELSE "done",
                                    token |-> t, id |-> n]]
    /\ UNCHANGED <<tables, computer, disk, move, token, kept, admitted>>

\* consumeEnrollmentToken: one update that marks an unused token; an expired one is marked
\* too, and refused.
Consume(j, t, n) ==
    /\ join[j].at = "new" /\ token[t] # "unminted"
    /\ token' = [token EXCEPT ![t] = "used"]
    /\ join' = [join EXCEPT ![j] = [at |-> IF token[t] = "fresh" THEN "checking" ELSE "done",
                                    token |-> t, id |-> n]]
    /\ UNCHANGED <<tables, computer, disk, move, kept, admitted>>

\* The supervisor answers: the node is stored, or stored again with its switch as it was.
Enrolled(j) ==
    LET n == join[j].id IN
    /\ join[j].at = "checking"
    /\ nodes' = nodes \union {n}
    /\ open' = IF n \in nodes THEN open ELSE open \union {n}
    /\ admitted' = [admitted EXCEPT ![join[j].token] = @ \union {j}]
    /\ join' = [join EXCEPT ![j].at = "done"]
    /\ UNCHANGED <<placement, computer, disk, move, token, kept>>

\* It does not: 400, and the token stays spent.
Unreached(j) ==
    /\ join[j].at = "checking"
    /\ join' = [join EXCEPT ![j].at = "done"]
    /\ UNCHANGED <<tables, computer, disk, move, token, kept, admitted>>

SetPlacementEnabled(n, on) ==
    /\ n \in nodes
    /\ open' = IF on THEN open \union {n} ELSE open \ {n}
    /\ UNCHANGED <<nodes, placement, computer, disk, move, enrolment, kept>>

\* The placements on it stay, and lead nowhere until it is enrolled again.
Remove(n) ==
    /\ n \in nodes
    /\ nodes' = nodes \ {n} /\ open' = open \ {n}
    /\ UNCHANGED <<placement, computer, disk, move, enrolment, kept>>

-----------------------------------------------------------------------------
(* A Bot at work, on the node its placement names *)

\* locate ensures the computer, and the action leaves a file or removes one.
Act(b, f) ==
    LET p == placement[b] IN
    /\ Undisturbed(b) /\ Callable(p)
    /\ computer' = [computer EXCEPT ![p][b] = "running"]
    /\ \/ /\ disk' = [disk EXCEPT ![p][b] = @ \union {f}]
          /\ kept' = [kept EXCEPT ![b] = @ \union {f}]
       \/ /\ disk' = [disk EXCEPT ![p][b] = @ \ {f}]
          /\ kept' = [kept EXCEPT ![b] = @ \ {f}]
    /\ UNCHANGED <<tables, move, enrolment>>

Stop(b) ==
    LET p == placement[b] IN
    /\ Undisturbed(b) /\ Callable(p) /\ computer[p][b] = "running"
    /\ computer' = [computer EXCEPT ![p][b] = "stopped"]
    /\ UNCHANGED <<tables, disk, move, enrolment, kept>>

\* What an earlier home still holds is not touched.
Reset(b) ==
    LET p == placement[b] IN
    /\ Undisturbed(b) /\ Callable(p)
    /\ computer' = [computer EXCEPT ![p][b] = "absent"]
    /\ disk' = [disk EXCEPT ![p][b] = {}]
    /\ kept' = [kept EXCEPT ![b] = {}]
    /\ UNCHANGED <<tables, move, enrolment>>

\* A computer goes down by itself.
Halts(p, b) ==
    /\ computer[p][b] = "running"
    /\ Answering => \A m \in Moves : ~(move[m].at = "asked" /\ move[m].bot = b)
    /\ computer' = [computer EXCEPT ![p][b] = "stopped"]
    /\ UNCHANGED <<tables, disk, move, enrolment, kept>>

-----------------------------------------------------------------------------
(* move *)

Goes(m, at) == move' = [move EXCEPT ![m].at = at]

\* The placement is read, the target must take placements, and both must be callable.
Begin(m, b, to) ==
    LET from == placement[b] IN
    /\ move[m].at = "idle" /\ Undisturbed(b)
    /\ from # to
    /\ to # Local => to \in open
    /\ Callable(from) /\ Callable(to)
    /\ Answering => computer[from][b] # "stopped"
    /\ move' = [move EXCEPT ![m] = [NoMove EXCEPT !.at = "asked", !.bot = b, !.from = from, !.to = to]]
    /\ UNCHANGED <<tables, computer, disk, enrolment, kept>>

\* Running: it is to be bundled.  Otherwise, a supervisor that does not
\* answer included, there is nothing to carry.
AskStatus(m) ==
    LET b == move[m].bot
        up == computer[move[m].from][b] = "running"
    IN  /\ move[m].at = "asked"
        /\ \/ up /\ Goes(m, "bundling")
           \/ ~up /\ Goes(m, "target")
           \/ ~Answering /\ Goes(m, "target")
        /\ UNCHANGED <<tables, computer, disk, enrolment, kept>>

\* The source is located, which starts one that has gone down since, and exportBundle takes
\* its two tars.
Bundle(m) ==
    LET b == move[m].bot IN
    /\ move[m].at = "bundling"
    /\ computer' = [computer EXCEPT ![move[m].from][b] = "running"]
    /\ move' = [move EXCEPT ![m] = [@ EXCEPT !.at = "target", !.bundled = TRUE,
                                             !.bundle = disk[move[m].from][b]]]
    /\ UNCHANGED <<tables, disk, enrolment, kept>>

EnsureTarget(m) ==
    /\ move[m].at = "target"
    /\ computer' = [computer EXCEPT ![move[m].to][move[m].bot] = "running"]
    /\ Goes(m, IF move[m].bundled THEN "workspace" ELSE "placing")
    /\ UNCHANGED <<tables, disk, enrolment, kept>>

\* importBundle: one archive, then the other, each laid over what the target has.
Extract(m, part, next) ==
    LET b == move[m].bot IN
    /\ computer[move[m].to][b] = "running"
    /\ disk' = [disk EXCEPT ![move[m].to][b] = @ \union (move[m].bundle \intersect part)]
    /\ Goes(m, next)
    /\ UNCHANGED <<tables, computer, enrolment, kept>>

RestoreWorkspace(m) == move[m].at = "workspace" /\ Extract(m, WorkspaceFiles, "profiles")

\* A restore whose second archive is not looked at.
RestoreProfilesSkipped(m) == move[m].at = "profiles" /\ Extract(m, {}, "stopping")

RestoreProfiles(m) == move[m].at = "profiles" /\ Extract(m, ProfileFiles, "stopping")

StopSource(m) ==
    LET b == move[m].bot IN
    /\ move[m].at = "stopping"
    /\ computer' = [computer EXCEPT ![move[m].from][b] = IF @ = "running" THEN "stopped" ELSE @]
    /\ Goes(m, "placing")
    /\ UNCHANGED <<tables, disk, enrolment, kept>>

\* The placement is written; the row in the trail follows, and the answer.
Place(m) ==
    /\ move[m].at = "placing"
    /\ placement' = [placement EXCEPT ![move[m].bot] = move[m].to]
    /\ move' = [move EXCEPT ![m] = NoMove]
    /\ UNCHANGED <<nodes, open, computer, disk, enrolment, kept>>

\* Any call may throw: 409, and what was done stays done.
MoveFails(m) ==
    /\ move[m].at # "idle"
    /\ move' = [move EXCEPT ![m] = NoMove]
    /\ UNCHANGED <<tables, computer, disk, enrolment, kept>>

Next ==
    \/ \E t \in Tokens : Mint(t) \/ Expire(t)
    \/ \E j \in Joins : Enrolled(j) \/ Unreached(j) \/ \E t \in Tokens, n \in Nodes : Consume(j, t, n)
    \/ \E n \in Nodes : Remove(n) \/ \E on \in BOOLEAN : SetPlacementEnabled(n, on)
    \/ \E b \in Bots : Stop(b) \/ Reset(b) \/ (\E f \in Files : Act(b, f)) \/ \E p \in Places : Halts(p, b)
    \/ \E m \in Moves :
          \/ \E b \in Bots, to \in Places : Begin(m, b, to)
          \/ AskStatus(m) \/ Bundle(m) \/ EnsureTarget(m) \/ RestoreWorkspace(m) \/ RestoreProfiles(m)
          \/ StopSource(m) \/ Place(m) \/ MoveFails(m)

Spec == Init /\ [][Next]_vars

-----------------------------------------------------------------------------
\* Wherever a Bot is placed, all its files are: a move that goes through carries every
\* one, and one that fails at any step leaves the Bot where its state is intact.
FilesFollow == \A b \in Bots : kept[b] \subseteq disk[placement[b]][b]

\* A token lets one node in, however many requests carry it at once.
TokenAdmitsOne == \A t \in Tokens : Cardinality(admitted[t]) <= 1
=============================================================================
