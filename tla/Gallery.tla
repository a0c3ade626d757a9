------------------------------ MODULE Gallery -------------------------------
(***************************************************************************)
(* The components a Bot answers with: components/store.ts and its routes,  *)
(* the ones authored in a browser (components/sandboxed.ts), and the tools *)
(* the app registers for them (app/src/lib/copilot/gallery-tools.tsx and   *)
(* sandboxed-tools.tsx).                                                   *)
(*                                                                         *)
(* A description and a source are version numbers, 0 for none.  None of    *)
(* the stores' operations is a transaction: publishing reads the row and   *)
(* then writes it, and what is authored in a browser has a second row, its *)
(* source, that is written and deleted by a statement of its own.          *)
(***************************************************************************)
EXTENDS Naturals, FiniteSets

CONSTANTS Shown,        \* compiled components that only draw
          Decisions,    \* compiled components that ask the person something
          Customs,      \* names a component authored in a browser may have
          Bots,
          Browsers,     \* open apps: each announces, polls and draws
          Editors,      \* administrators' requests under way at once
          MaxEdits,     \* how many changes administrators make
          MaxDrafts     \* how many drafts are written

VARIABLES
    comp,       \* the rows of components
    source,     \* the rows of sandboxed_components
    withheld,   \* component_exclusions
    reads,      \* component_functions: the components granted the data function
    edit,       \* the administrators' requests under way
    announcing, \* what each app believes is missing while it announces its build
    held,       \* each app's snapshot of what its Bot may draw, and with which source
    call,       \* the last call of each app's Bot, which the transcript keeps, and (a history)
                \* whether its component was permitted at some moment until it was answered
    arrivals,   \* how often the trail says a component was first seen
    drafts,     \* how many drafts were written
    edits       \* how many changes were made

vars == <<comp, source, withheld, reads, edit, announcing, held, call, arrivals, drafts, edits>>
rows == <<comp, source, withheld, reads>>

Compiled == Shown \cup Decisions
Names == Compiled \cup Customs
NoRow == [there |-> FALSE, draft |-> 0, pub |-> 0, published |-> FALSE]
NoEdit == [op |-> "none", name |-> "none", pc |-> "idle", draft |-> 0]
NoCall == [name |-> "none", bot |-> "none", pc |-> "idle", refused |-> FALSE, ok |-> FALSE]
NotAnnouncing == [busy |-> FALSE, missing |-> {}]

Init ==
    /\ comp = [n \in Names |-> NoRow]
    /\ source = [n \in Customs |-> NoRow]
    /\ withheld = {}
    /\ reads = {}
    /\ edit = [e \in Editors |-> NoEdit]
    /\ announcing = [w \in Browsers |-> NotAnnouncing]
    /\ held = [w \in Browsers |-> {}]
    /\ call = [w \in Browsers |-> NoCall]
    /\ arrivals = [n \in Compiled |-> 0]
    /\ drafts = 0
    /\ edits = 0

\* decide: the row is there, published with words, and not withheld from this Bot.
Permitted(n, b) == comp[n].there /\ comp[n].published /\ comp[n].pub # 0 /\ <<n, b>> \notin withheld

\* A call during which its component became permitted is one that may draw it.
Open(w) == call[w].pc \in {"deciding", "data"}
Noticed ==
    call' = [w \in Browsers |->
                IF ~Open(w) THEN call[w]
                ELSE [call[w] EXCEPT !.ok = @ \/ <<call[w].name, call[w].bot>> \in
                        {nb \in Names \X Bots : Permitted(nb[1], nb[2])'}]]

-----------------------------------------------------------------------------
\* An app announces its build: it reads what is known, and inserts what is missing.
ReadCatalogue(w) ==
    /\ ~announcing[w].busy
    /\ held[w] = {}
    /\ announcing' = [announcing EXCEPT ![w] =
                        [busy |-> TRUE, missing |-> {n \in Compiled : ~comp[n].there}]]
    /\ UNCHANGED <<rows, edit, held, call, arrivals, drafts, edits>>

\* A wrong variant: the trail is told of everything that was missing when it was read.
InsertMissing(w) ==
    LET new == {n \in announcing[w].missing : ~comp[n].there} IN
    /\ announcing[w].busy
    /\ comp' = [n \in Names |-> IF n \in new
                                THEN [there |-> TRUE, draft |-> 1, pub |-> 1, published |-> TRUE]
                                ELSE comp[n]]
    /\ arrivals' = [n \in Compiled |-> IF n \in announcing[w].missing
                                       THEN arrivals[n] + 1 ELSE arrivals[n]]
    /\ announcing' = [announcing EXCEPT ![w] = NotAnnouncing]
    /\ UNCHANGED <<source, withheld, reads, edit, held, drafts, edits>>
    /\ Noticed

\* syncCatalogue: on conflict do nothing, and only what was inserted is told.
SyncCatalogue(w) ==
    LET new == {n \in announcing[w].missing : ~comp[n].there} IN
    /\ announcing[w].busy
    /\ comp' = [n \in Names |-> IF n \in new
                                THEN [there |-> TRUE, draft |-> 1, pub |-> 1, published |-> TRUE]
                                ELSE comp[n]]
    /\ arrivals' = [n \in Compiled |-> IF n \in new THEN arrivals[n] + 1 ELSE arrivals[n]]
    /\ announcing' = [announcing EXCEPT ![w] = NotAnnouncing]
    /\ UNCHANGED <<source, withheld, reads, edit, held, drafts, edits>>
    /\ Noticed

-----------------------------------------------------------------------------
\* One administrator's change that is one statement.  `requireComponent' reads the row first, and a
\* row that is not there is a 404.
Change(n) ==
    /\ edits < MaxEdits
    /\ edits' = edits + 1
    /\ comp[n].there
    /\ UNCHANGED <<source, edit, announcing, held, arrivals>>

Grant(n, b) ==
    /\ Change(n)
    /\ withheld' = withheld \ {<<n, b>>}
    /\ UNCHANGED <<comp, reads, drafts>>
    /\ Noticed

Revoke(n, b) ==
    /\ Change(n)
    /\ withheld' = withheld \cup {<<n, b>>}
    /\ UNCHANGED <<comp, reads, drafts>>
    /\ Noticed

\* grantFunction and revokeFunction.
SetFunction(n) ==
    /\ Change(n)
    /\ reads' = IF n \in reads THEN reads \ {n} ELSE reads \cup {n}
    /\ UNCHANGED <<comp, withheld, drafts>>
    /\ Noticed

\* The withholdings are left alone.
Unpublish(n) ==
    /\ Change(n)
    /\ comp' = [comp EXCEPT ![n].published = FALSE]
    /\ UNCHANGED <<withheld, reads, drafts>>
    /\ Noticed

\* saveDraft: the words only.
SaveDraft(n) ==
    /\ drafts < MaxDrafts
    /\ Change(n)
    /\ drafts' = drafts + 1
    /\ comp' = [comp EXCEPT ![n].draft = drafts + 2]
    /\ UNCHANGED <<withheld, reads>>
    /\ Noticed

\* A request of more than one statement begins: it reads the row it is about, or is refused.
Begin(e, op, n) ==
    /\ edit[e].pc = "idle"
    /\ edits < MaxEdits
    /\ edits' = edits + 1
    /\ CASE op = "publish" -> comp[n].there
         [] op = "save" -> n \in Customs /\ drafts < MaxDrafts
         [] op = "release" -> n \in Customs /\ source[n].there
         [] op = "remove" -> n \in Customs /\ comp[n].there
    /\ drafts' = IF op = "save" THEN drafts + 1 ELSE drafts
    /\ edit' = [edit EXCEPT ![e] =
                  [op |-> op, name |-> n,
                   pc |-> IF op = "publish" THEN "words" ELSE "source",
                   draft |-> CASE op = "publish" -> comp[n].draft
                               [] op = "save" -> drafts + 2
                               [] op = "release" -> source[n].draft
                               [] OTHER -> 0]]
    /\ UNCHANGED <<rows, announcing, held, call, arrivals>>

\* The first statement of the sandboxed store, on the source.
WriteSource(e) ==
    LET n == edit[e].name  d == edit[e].draft IN
    /\ edit[e].pc = "source"
    /\ source' = [source EXCEPT ![n] =
                    CASE edit[e].op = "save" -> [@ EXCEPT !.there = TRUE, !.draft = d]
                      [] edit[e].op = "release" ->
                            IF @.there THEN [@ EXCEPT !.pub = d, !.published = TRUE] ELSE @
                      [] OTHER -> NoRow]
    /\ edit' = [edit EXCEPT ![e].pc = "words"]
    /\ UNCHANGED <<comp, withheld, reads, announcing, held, call, arrivals, drafts, edits>>

\* The last one, on the governance row: a save makes it unpublished or leaves its publication alone,
\* both ways of publishing promote the draft that was read, a removal takes what refers to it.
WriteWords(e) ==
    LET n == edit[e].name  d == edit[e].draft IN
    /\ edit[e].pc = "words"
    /\ comp' = [comp EXCEPT ![n] =
                  CASE edit[e].op = "save" -> [@ EXCEPT !.there = TRUE, !.draft = d]
                    [] edit[e].op \in {"publish", "release"} ->
                          IF @.there THEN [@ EXCEPT !.pub = d, !.published = TRUE] ELSE @
                    [] OTHER -> NoRow]
    /\ withheld' = IF edit[e].op = "remove" THEN {x \in withheld : x[1] # n} ELSE withheld
    /\ reads' = IF edit[e].op = "remove" THEN reads \ {n} ELSE reads
    /\ edit' = [edit EXCEPT ![e] = NoEdit]
    /\ Noticed
    /\ UNCHANGED <<source, announcing, held, arrivals, drafts, edits>>

-----------------------------------------------------------------------------
\* The polls of an app for one Bot: listForAgent, and the published sources.
Poll(w, b) ==
    /\ held' = [held EXCEPT ![w] =
                  {[name |-> n, bot |-> b] :
                     n \in {m \in Names : /\ Permitted(m, b)
                                          /\ m \in Customs => source[m].published /\ source[m].pub # 0}}]
    /\ UNCHANGED <<rows, edit, announcing, call, arrivals, drafts, edits>>

\* The model calls a tool it was offered.  A decision card has no handler: nobody is asked about it.
BeginCall(w) ==
    /\ ~Open(w)
    /\ \E h \in held[w] :
        call' = [call EXCEPT ![w] =
                    [name |-> h.name, bot |-> h.bot, refused |-> FALSE, ok |-> Permitted(h.name, h.bot),
                     pc |-> IF h.name \in Decisions THEN "answered" ELSE "deciding"]]
    /\ UNCHANGED <<rows, edit, announcing, held, arrivals, drafts, edits>>

Answer(w, refused) == call' = [call EXCEPT ![w].pc = "answered", ![w].refused = refused]

\* A wrong variant: what the app polled decides.
DecideHeld(w) ==
    /\ call[w].pc = "deciding"
    /\ Answer(w, FALSE)
    /\ UNCHANGED <<rows, edit, announcing, held, arrivals, drafts, edits>>

\* The handler of a tool asks the server again: the component, and then the data it will read, which
\* is asked about for a component that reads any.  No answer is a refusal.
Decide(w) ==
    /\ call[w].pc = "deciding"
    /\ \/ Answer(w, TRUE)
       \/ /\ Permitted(call[w].name, call[w].bot)
          /\ Answer(w, FALSE) \/ call' = [call EXCEPT ![w].pc = "data"]
    /\ UNCHANGED <<rows, edit, announcing, held, arrivals, drafts, edits>>

MayCall(w) ==
    /\ call[w].pc = "data"
    /\ Answer(w, TRUE) \/ (call[w].name \in reads /\ Answer(w, FALSE))
    /\ UNCHANGED <<rows, edit, announcing, held, arrivals, drafts, edits>>

\* A component authored in a browser is drawn once its call is answered, with a refusal too: that
\* is looked up under another id than it was put down under.
AuthoredDraws(w) == call[w].pc = "answered"

\* What the transcript draws of the last call is decided at every render, from what was polled: a
\* compiled component as soon as the call is there and unless it was refused.
Draws(w) ==
    /\ call[w].pc # "idle"
    /\ \E h \in held[w] : h.name = call[w].name
    /\ IF call[w].name \in Customs THEN AuthoredDraws(w) ELSE ~call[w].refused

Next ==
    \/ \E w \in Browsers :
        \/ ReadCatalogue(w) \/ SyncCatalogue(w) \/ BeginCall(w) \/ Decide(w) \/ MayCall(w)
        \/ \E b \in Bots : Poll(w, b)
    \/ \E n \in Names :
        \/ SetFunction(n) \/ Unpublish(n) \/ SaveDraft(n)
        \/ \E b \in Bots : Grant(n, b) \/ Revoke(n, b)
        \/ \E e \in Editors, op \in {"publish", "save", "release", "remove"} : Begin(e, op, n)
    \/ \E e \in Editors : WriteSource(e) \/ WriteWords(e)

Spec == Init /\ [][Next]_vars

-----------------------------------------------------------------------------
\* The state has the shape the code gives it; what is withheld is a component with a row.
TypeOK ==
    /\ \A n \in Names : comp[n].published => comp[n].there
    /\ withheld \subseteq {n \in Names : comp[n].there} \X Bots
    /\ reads \subseteq {n \in Names : comp[n].there}
    /\ \A n \in Customs : source[n].published => source[n].there /\ source[n].pub # 0

\* Once a call has been answered, a compiled component it draws was permitted at some moment of
\* the call: one withheld or unpublished before the call does not stay on the screen, however old
\* the app's list of tools, and whatever is polled later.
RevokedIsGone ==
    \A w \in Browsers :
        call[w].name \in Shown /\ call[w].pc = "answered" /\ Draws(w) => call[w].ok

\* What queries.ts:50-51 says of every component, and "Nothing was displayed" of a refused one
\* (gallery-tools.tsx:133).  Not so: one is drawn while the decision is out, one authored in a
\* browser also after a refusal, and about a decision card nobody is asked.
OnlyPermittedDrawn == \A w \in Browsers : Draws(w) => call[w].ok

\* Two apps that announce the same build at once leave one row in the trail for each component.
ArrivalToldOnce == \A n \in Compiled : arrivals[n] <= 1

\* The words and the source of what is published were published together: no Bot is told of a
\* version that is not the one it draws.
PublishedTogether ==
    \A n \in Customs :
        (\A e \in Editors : edit[e].name # n) /\ comp[n].published /\ source[n].published
            => comp[n].pub = source[n].pub
=============================================================================
