----------------------------- MODULE Artifacts ------------------------------
(***************************************************************************)
(* The artifact registry, artifacts/store.ts and its routes: what is       *)
(* created is version 1, an update appends a version, a profile is         *)
(* attached to an artifact at a pinned version or the latest, and a run    *)
(* resolves what its profile is attached to.                               *)
(*                                                                         *)
(* An update is a READ COMMITTED transaction that reads the latest version *)
(* without a lock; the primary key of the versions makes the second of two *)
(* inserts of one number wait for the first and then fail, and the route   *)
(* answers it as an artifact that is not there.                            *)
(***************************************************************************)
EXTENDS Naturals, FiniteSets

CONSTANTS Works,        \* the ids an artifact may be given
          Profiles,
          Updates,      \* updates under way at once
          MaxTexts      \* how many contents are written

VARIABLES
    artifact,   \* the committed rows: the latest version, 0 for no row
    content,    \* artifact_versions: what each version says, 0 for none
    attached,   \* profile_artifacts: the version a profile pins, 0 for the latest
    update,     \* the updates under way
    answered,   \* the updates that were answered with a version, and what they wrote
    run,        \* what a run is resolving
    given,      \* what runs were given
    texts       \* how many contents were written

vars == <<artifact, content, attached, update, answered, run, given, texts>>

Versions == 1..MaxTexts
NoUpdate == [work |-> "none", pc |-> "idle", next |-> 0, text |-> 0]
NoRun == [todo |-> {}]

Init ==
    /\ artifact = [a \in Works |-> 0]
    /\ content = [a \in Works |-> [v \in Versions |-> 0]]
    /\ attached = {}
    /\ update = [u \in Updates |-> NoUpdate]
    /\ answered = {}
    /\ run = NoRun
    /\ given = {}
    /\ texts = 0

\* create: the row and its version 1 in one transaction.  An id is never used again.
Create(a) ==
    /\ artifact[a] = 0 /\ texts < MaxTexts
    /\ \A x \in answered : x.work # a
    /\ texts' = texts + 1
    /\ artifact' = [artifact EXCEPT ![a] = 1]
    /\ content' = [content EXCEPT ![a][1] = texts']
    /\ answered' = answered \cup {[work |-> a, version |-> 1, text |-> texts']}
    /\ UNCHANGED <<attached, update, run, given>>

\* update reads the latest version; with no row it is refused.
ReadLatest(u, a) ==
    /\ update[u].pc = "idle" /\ texts < MaxTexts
    /\ artifact[a] # 0
    /\ texts' = texts + 1
    /\ update' = [update EXCEPT ![u] = [work |-> a, pc |-> "insert", next |-> artifact[a] + 1,
                                        text |-> texts']]
    /\ UNCHANGED <<artifact, content, attached, answered, run, given>>

\* A wrong variant: a version that is there is written over.
UpsertVersion(u) ==
    /\ update[u].pc = "insert"
    /\ update' = [update EXCEPT ![u] =
                    IF artifact[update[u].work] # 0 THEN [@ EXCEPT !.pc = "move"] ELSE NoUpdate]
    /\ UNCHANGED <<artifact, content, attached, answered, run, given, texts>>

\* The insert of the version.  It waits for an uncommitted one of the same number; a committed one,
\* or an artifact that is gone, fails it.
InsertVersion(u) ==
    LET a == update[u].work  v == update[u].next IN
    /\ update[u].pc = "insert"
    /\ \A w \in Updates \ {u} :
          ~(update[w].pc = "move" /\ update[w].work = a /\ update[w].next = v)
    /\ update' = [update EXCEPT ![u] =
                    IF artifact[a] # 0 /\ content[a][v] = 0 THEN [@ EXCEPT !.pc = "move"] ELSE NoUpdate]
    /\ UNCHANGED <<artifact, content, attached, answered, run, given, texts>>

\* The latest version moves, and the transaction commits.
MoveLatest(u) ==
    LET a == update[u].work  v == update[u].next IN
    /\ update[u].pc = "move"
    /\ artifact' = [artifact EXCEPT ![a] = v]
    /\ content' = [content EXCEPT ![a][v] = update[u].text]
    /\ answered' = answered \cup {[work |-> a, version |-> v, text |-> update[u].text]}
    /\ update' = [update EXCEPT ![u] = NoUpdate]
    /\ UNCHANGED <<attached, run, given, texts>>

\* remove: the versions and the attachments go with the row.  The insert of an update holds the row
\* it refers to, so a removal waits for it.
Remove(a) ==
    /\ artifact[a] # 0
    /\ \A u \in Updates : ~(update[u].pc = "move" /\ update[u].work = a)
    /\ artifact' = [artifact EXCEPT ![a] = 0]
    /\ content' = [content EXCEPT ![a] = [v \in Versions |-> 0]]
    /\ attached' = {x \in attached : x.work # a}
    /\ UNCHANGED <<update, answered, run, given, texts>>

\* attach: at the latest version, or at one an administrator names; no one asks whether it exists.
Attach(p, a, v) ==
    /\ artifact[a] # 0
    /\ attached' = {x \in attached : ~(x.profile = p /\ x.work = a)}
                    \cup {[profile |-> p, work |-> a, pin |-> v]}
    /\ UNCHANGED <<artifact, content, update, answered, run, given, texts>>

Detach(p, a) ==
    /\ attached' = {x \in attached : ~(x.profile = p /\ x.work = a)}
    /\ attached' # attached
    /\ UNCHANGED <<artifact, content, update, answered, run, given, texts>>

\* resolveForRun reads the attachments with their versions, and then each content by a query of its
\* own; a version that is not there by then is an empty text.
ReadAttached(p) ==
    /\ run = NoRun
    /\ run' = [todo |-> {[work |-> x.work, version |-> IF x.pin = 0 THEN artifact[x.work] ELSE x.pin] :
                            x \in {y \in attached : y.profile = p}}]
    /\ run' # NoRun
    /\ UNCHANGED <<artifact, content, attached, update, answered, given, texts>>

ReadContent ==
    \E x \in run.todo :
        /\ run' = [todo |-> run.todo \ {x}]
        /\ given' = given \cup {[work |-> x.work, version |-> x.version,
                                 text |-> content[x.work][x.version]]}
        /\ UNCHANGED <<artifact, content, attached, update, answered, texts>>

Next ==
    \/ \E a \in Works :
        \/ Create(a) \/ Remove(a)
        \/ \E u \in Updates : ReadLatest(u, a)
        \/ \E p \in Profiles : Detach(p, a) \/ \E v \in {0} \cup Versions : Attach(p, a, v)
    \/ \E u \in Updates : InsertVersion(u) \/ MoveLatest(u)
    \/ \E p \in Profiles : ReadAttached(p)
    \/ ReadContent

Spec == Init /\ [][Next]_vars

-----------------------------------------------------------------------------
\* The versions of an artifact are 1 up to its latest, and there are none without a row.
TypeOK ==
    /\ \A a \in Works, v \in Versions : content[a][v] # 0 <=> v <= artifact[a]
    /\ \A x \in attached : artifact[x.work] # 0

\* A version that was answered says what that request wrote, for as long as the artifact is there,
\* and a run that is given text under that number is given those words.
VersionsAreKept ==
    \A x \in answered :
        /\ content[x.work][x.version] \in {0, x.text}
        /\ \A g \in given : g.work = x.work /\ g.version = x.version => g.text \in {0, x.text}
=============================================================================
