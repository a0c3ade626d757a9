-------------------------- MODULE ComputerControl --------------------------
(***************************************************************************)
(* Who has the wheel of one Bot's browser, and the channel secrets travel  *)
(* on: agent-computer/src/control.ts and the handlers of                   *)
(* agent-computer/src/index.ts that read and change it, with the two       *)
(* callers of server/src/computer/gateway.ts that send a secret.           *)
(*                                                                         *)
(* A handler reads the control state before it awaits the page and acts on *)
(* the page after, so reading and acting are two steps.  A Bot may have    *)
(* several calls outstanding (one per conversation or parallel tool call); *)
(* a person does one thing at a time.                                      *)
(*                                                                         *)
(* A field is known by its ref.  Playwright numbers refs afresh in every   *)
(* document and resolves them only once the document has been described,   *)
(* so the same ref names another field after the page has moved on.        *)
(***************************************************************************)
EXTENDS Naturals, Sequences, FiniteSets, SequencesExt

CONSTANTS
    BotCalls,   \* the Bot's outstanding calls
    Person,     \* the person, as a sender of secrets
    Fields,     \* the refs of a page's fields; the secret meant for a field is named by it
    OneSecret,  \* whether a secret is asked for only when none is being waited for
    PageStays,  \* whether the page stays while a secret is being waited for
    Ring,       \* TYPED_SECRETS_LIMIT: how many typed values are remembered
    MaxTakes    \* bound on handovers

None    == "none"
Senders == BotCalls \cup {Person}

VARIABLES
    holder,     \* "bot" or "human"
    asked,      \* the Bot has asked for help and nobody has taken the wheel
    pending,    \* secretRef: the field a secret is wanted for, or None
    acting,     \* each Bot call: idle, or an action admitted past assertBotMayAct
    input,      \* the person's gesture: idle, or admitted past humanMayDrive
    sending,    \* each sender: idle, ready with a value, delivering it, or filled
    meant,      \* the field the sender's value is for
    into,       \* the field `/human/secret` read from the pending request
    contents,   \* what each field holds: None or the secret it was filled with
    described,  \* the document shown has been described, so its refs resolve
    moved,      \* another document was loaded since `pending` was asked for
    astray,     \* another document was loaded since each sender's value was asked for
    remembered, \* typedSecrets, oldest first
    looking,    \* each Bot call: idle, or a snapshot captured and not yet scrubbed
    captured,   \* the secrets such a snapshot echoes
    late,       \* Bot actions that landed since the person took the wheel
    inflight,   \* Bot actions that were admitted when the person took it
    uninvited,  \* a call the wheel does not check has changed the page under a person
    misplaced,  \* a value has been typed into a field it was not meant for
    takes

wheelVars  == <<holder, asked, acting, input, late, inflight, uninvited, takes>>
pageVars   == <<contents, described, moved, astray>>
secretVars == <<pending, sending, meant, into, pageVars, remembered, misplaced>>
lookVars   == <<looking, captured>>
vars == <<wheelVars, secretVars, lookVars>>

TypeOK ==
    /\ holder \in {"bot", "human"} /\ asked \in BOOLEAN
    /\ pending \in Fields \cup {None}
    /\ acting \in [BotCalls -> {"idle", "admitted"}]
    /\ input \in {"idle", "admitted"}
    /\ sending \in [Senders -> {"idle", "ready", "delivering", "filled"}]
    /\ meant \in [Senders -> Fields \cup {None}] /\ into \in [Senders -> Fields \cup {None}]
    /\ contents \in [Fields -> Fields \cup {None}]
    /\ described \in BOOLEAN /\ moved \in BOOLEAN /\ astray \in [Senders -> BOOLEAN]
    /\ remembered \in Seq(Fields) /\ Len(remembered) <= Ring
    /\ looking \in [BotCalls -> {"idle", "captured"}]
    /\ captured \in [BotCalls -> SUBSET Fields]
    /\ late \in Nat /\ inflight \in Nat
    /\ misplaced \in BOOLEAN /\ uninvited \in BOOLEAN /\ takes \in 0..MaxTakes

Init ==
    /\ holder = "bot" /\ asked = FALSE /\ pending = None
    /\ acting = [b \in BotCalls |-> "idle"] /\ input = "idle"
    /\ sending = [d \in Senders |-> "idle"]
    /\ meant = [d \in Senders |-> None] /\ into = [d \in Senders |-> None]
    /\ contents = [f \in Fields |-> None] /\ remembered = <<>>
    /\ described = FALSE /\ moved = FALSE /\ astray = [d \in Senders |-> FALSE]
    /\ looking = [b \in BotCalls |-> "idle"]
    /\ captured = [b \in BotCalls |-> {}]
    /\ late = 0 /\ inflight = 0 /\ misplaced = FALSE /\ uninvited = FALSE /\ takes = 0

Free(b) == acting[b] = "idle" /\ sending[b] = "idle" /\ looking[b] = "idle"
PersonFree == input = "idle" /\ sending[Person] = "idle"
NoSecretOnItsWay == pending = None /\ \A d \in Senders : sending[d] = "idle"

-----------------------------------------------------------------------------
(* The page. *)

\* Another document is loaded: its fields are empty, and nobody has described it.
Turns ==
    /\ PageStays => NoSecretOnItsWay
    /\ contents' = [f \in Fields |-> None]
    /\ described' = FALSE
    /\ moved' = (pending # None)
    /\ astray' = [d \in Senders |-> sending[d] # "idle"]
MayTurn == Turns \/ UNCHANGED pageVars

\* The page loads one by itself: a script, a link clicked a moment ago, a session that ended.
PageMoves ==
    /\ Turns
    /\ UNCHANGED <<wheelVars, pending, sending, meant, into, remembered, misplaced, lookVars>>

-----------------------------------------------------------------------------
(* The wheel. *)

\* A click, a type, a key, a scroll or a navigation passes assertBotMayAct.
AdmitUnchecked(b) ==
    /\ Free(b)
    /\ acting' = [acting EXCEPT ![b] = "admitted"]
    /\ UNCHANGED <<holder, asked, input, late, inflight, uninvited, takes, secretVars, lookVars>>
Admit(b) ==
    /\ Free(b) /\ holder = "bot"
    /\ acting' = [acting EXCEPT ![b] = "admitted"]
    /\ UNCHANGED <<holder, asked, input, late, inflight, uninvited, takes, secretVars, lookVars>>

\* Once the page is there, the action lands.  It may load another document, which empties the fields.
Land(b) ==
    /\ acting[b] = "admitted"
    /\ acting' = [acting EXCEPT ![b] = "idle"]
    /\ late' = IF holder = "human" THEN late + 1 ELSE late
    /\ MayTurn
    /\ UNCHANGED <<holder, asked, input, inflight, uninvited, takes, pending, sending, meant, into,
                   remembered, misplaced, lookVars>>

\* The action fails: the ref is stale, the page did not come, the caller pressed Stop.
LandFails(b) ==
    /\ acting[b] = "admitted"
    /\ acting' = [acting EXCEPT ![b] = "idle"]
    /\ UNCHANGED <<holder, asked, input, late, inflight, uninvited, takes, secretVars, lookVars>>

\* useSession: /session/import loads cookies and opens a page, and is not asked who has the wheel.
LoadSession(b) ==
    /\ Free(b)
    /\ MayTurn
    /\ uninvited' = (uninvited \/ holder = "human")
    /\ UNCHANGED <<holder, asked, acting, input, late, inflight, takes, pending, sending, meant,
                   into, remembered, misplaced, lookVars>>

RequestHelp(b) ==
    /\ Free(b) /\ ~asked
    /\ asked' = TRUE
    /\ UNCHANGED <<holder, acting, input, late, inflight, uninvited, takes, secretVars, lookVars>>

\* `get` drops a request nobody answered once it is older than HELP_REQUEST_TTL_MS, and only ever
\* the ask.
Expire ==
    /\ asked /\ holder = "bot"
    /\ asked' = FALSE
    /\ UNCHANGED <<holder, acting, input, late, inflight, uninvited, takes, secretVars, lookVars>>

\* `take`: the wheel, with the ask answered and any wanted secret forgotten.
Take ==
    /\ PersonFree /\ takes < MaxTakes
    /\ holder' = "human" /\ asked' = FALSE /\ pending' = None
    /\ late' = 0 /\ inflight' = Cardinality({b \in BotCalls : acting[b] = "admitted"})
    /\ takes' = takes + 1
    /\ UNCHANGED <<acting, input, uninvited, sending, meant, into, pageVars, remembered, misplaced,
                   lookVars>>

\* `release`, which a person asks for and which stopping the browser does too.  Stopping or
\* resetting also closes the page.
Release ==
    /\ PersonFree
    /\ holder' = "bot" /\ asked' = FALSE /\ pending' = None
    /\ MayTurn
    /\ late' = 0 /\ inflight' = 0
    /\ UNCHANGED <<acting, input, uninvited, takes, sending, meant, into, remembered, misplaced, lookVars>>

\* A person's gesture: refused unless they hold the wheel, then applied.
AdmitInput ==
    /\ PersonFree /\ holder = "human"
    /\ input' = "admitted"
    /\ UNCHANGED <<holder, asked, acting, late, inflight, uninvited, takes, secretVars, lookVars>>
LandInput ==
    /\ input = "admitted"
    /\ input' = "idle"
    /\ MayTurn
    /\ UNCHANGED <<holder, asked, acting, late, inflight, uninvited, takes, pending, sending, meant, into,
                   remembered, misplaced, lookVars>>

-----------------------------------------------------------------------------
(* The secret channel. *)

\* A field of the document the Bot has a description of.
MayAsk == described /\ (OneSecret => NoSecretOnItsWay)

\* `requestSecret`: the Bot names a field and goes on.
RequestSecret(b, f) ==
    /\ Free(b) /\ MayAsk
    /\ pending' = f
    /\ moved' = FALSE
    /\ UNCHANGED <<wheelVars, sending, meant, into, contents, described, astray, remembered, misplaced,
                   lookVars>>

\* `typeSecret`: the server names the field and follows with the value from the vault.
NameField(b, f) ==
    /\ Free(b) /\ MayAsk
    /\ pending' = f
    /\ sending' = [sending EXCEPT ![b] = "ready"]
    /\ meant' = [meant EXCEPT ![b] = f]
    /\ moved' = FALSE /\ astray' = [astray EXCEPT ![b] = FALSE]
    /\ UNCHANGED <<wheelVars, into, contents, described, remembered, misplaced, lookVars>>

\* A person sees the masked box for the wanted field and fills it in.
Compose ==
    /\ PersonFree /\ pending # None
    /\ sending' = [sending EXCEPT ![Person] = "ready"]
    /\ meant' = [meant EXCEPT ![Person] = pending]
    /\ astray' = [astray EXCEPT ![Person] = moved]
    /\ UNCHANGED <<wheelVars, pending, into, contents, described, moved, remembered, misplaced, lookVars>>

\* POST /human/secret: refused when nothing is pending, else bound for the pending field.
Deliver(d) ==
    /\ sending[d] = "ready"
    /\ sending' = [sending EXCEPT ![d] = IF pending = None THEN "idle" ELSE "delivering"]
    /\ meant' = [meant EXCEPT ![d] = IF pending = None THEN None ELSE @]
    /\ into' = [into EXCEPT ![d] = pending]
    /\ UNCHANGED <<wheelVars, pending, pageVars, remembered, misplaced, lookVars>>

\* The ref resolves, and the value is in the field that has it now.  No generation is compared.
FillFocused(d) ==
    /\ sending[d] = "delivering"
    /\ sending' = [sending EXCEPT ![d] = "filled"]
    /\ \E f \in Fields : /\ contents' = [contents EXCEPT ![f] = meant[d]]
                         /\ misplaced' = (misplaced \/ f # meant[d])
    /\ uninvited' = (uninvited \/ (d \in BotCalls /\ holder = "human"))
    /\ UNCHANGED <<holder, asked, acting, input, late, inflight, takes, pending, meant, into, described,
                   moved, astray, remembered, lookVars>>
Fill(d) ==
    /\ sending[d] = "delivering" /\ described
    /\ sending' = [sending EXCEPT ![d] = "filled"]
    /\ contents' = [contents EXCEPT ![into[d]] = meant[d]]
    /\ misplaced' = (misplaced \/ into[d] # meant[d] \/ astray[d])
    /\ uninvited' = (uninvited \/ (d \in BotCalls /\ holder = "human"))
    /\ UNCHANGED <<holder, asked, acting, input, late, inflight, takes, pending, meant, into, described,
                   moved, astray, remembered, lookVars>>

\* The field cannot be filled: the request is closed all the same.
FillFails(d) ==
    /\ sending[d] = "delivering"
    /\ sending' = [sending EXCEPT ![d] = "idle"]
    /\ pending' = None
    /\ meant' = [meant EXCEPT ![d] = None] /\ into' = [into EXCEPT ![d] = None]
    /\ UNCHANGED <<wheelVars, pageVars, remembered, misplaced, lookVars>>

\* rememberTypedSecret: the oldest value is forgotten once the ring is full.
RememberGrows(ring, v) == Append(ring, v)
Remember(ring, v) ==
    LET grown == Append(ring, v)
    IN  IF Contains(ring, v) THEN ring ELSE IF Len(grown) > Ring THEN Tail(grown) ELSE grown

\* Back from the page: the value is remembered and the request closed.
SuppliedForgets(d) ==
    /\ sending[d] = "filled"
    /\ sending' = [sending EXCEPT ![d] = "idle"]
    /\ pending' = None
    /\ meant' = [meant EXCEPT ![d] = None] /\ into' = [into EXCEPT ![d] = None]
    /\ UNCHANGED <<wheelVars, pageVars, remembered, misplaced, lookVars>>
Supplied(d) ==
    /\ sending[d] = "filled"
    /\ sending' = [sending EXCEPT ![d] = "idle"]
    /\ remembered' = Remember(remembered, meant[d])
    /\ pending' = None
    /\ meant' = [meant EXCEPT ![d] = None] /\ into' = [into EXCEPT ![d] = None]
    /\ UNCHANGED <<wheelVars, pageVars, misplaced, lookVars>>

-----------------------------------------------------------------------------
(* Snapshots, which echo what fields hold. *)

Capture(b) ==
    /\ Free(b)
    /\ looking' = [looking EXCEPT ![b] = "captured"]
    /\ captured' = [captured EXCEPT ![b] = {contents[f] : f \in Fields} \ {None}]
    /\ described' = TRUE
    /\ UNCHANGED <<wheelVars, pending, sending, meant, into, contents, moved, astray, remembered, misplaced>>

\* scrubTypedSecrets, over what is remembered when the description is parsed: what is left of the
\* secrets the snapshot echoes.
Scrubbed(b) == captured[b] \ ToSet(remembered)

\* The description is scrubbed and handed to the Bot.
Return(b) ==
    /\ looking[b] = "captured"
    /\ looking' = [looking EXCEPT ![b] = "idle"]
    /\ captured' = [captured EXCEPT ![b] = {}]
    /\ UNCHANGED <<wheelVars, secretVars>>

-----------------------------------------------------------------------------
Bot(b) ==
    \/ Admit(b) \/ Land(b) \/ LandFails(b) \/ LoadSession(b) \/ RequestHelp(b) \/ Capture(b) \/ Return(b)
    \/ \E f \in Fields : RequestSecret(b, f) \/ NameField(b, f)
Wheel   == Expire \/ Take \/ Release \/ AdmitInput \/ LandInput \/ Compose
Sends(d) == Deliver(d) \/ Fill(d) \/ FillFails(d) \/ Supplied(d)

Next == PageMoves \/ Wheel \/ (\E b \in BotCalls : Bot(b)) \/ (\E d \in Senders : Sends(d))
Spec == Init /\ [][Next]_vars

-----------------------------------------------------------------------------
\* Taking the wheel stops the Bot's clicks, keys and navigations but for those it had already been
\* let into (control.ts `assertBotMayAct`, read before the page is awaited): no more of them land
\* while the person holds it than had been admitted when they took it, and none is admitted meanwhile.
TakeoverIsBounded ==
    holder = "human" =>
        late + Cardinality({b \in BotCalls : acting[b] = "admitted"}) <= inflight

\* One driver (control.ts: "While a person holds control every acting call from the Bot is refused"):
\* no secret is typed for the Bot and no session loaded for it while a person has the wheel.
WheelIsExclusive == ~uninvited

\* A secret goes into the field it was meant for (gateway.ts, the secret rows name "which field it
\* went in").
SecretInNamedField == ~misplaced

\* A snapshot about to be handed back echoes no value typed through the secret channel (index.ts,
\* "scrubbed from every snapshot that would echo it").  Two cases are outside it: more distinct
\* values than the ring holds, and a delivery that stands between filling the field and
\* remembering the value at that moment.
SnapshotHidesSecrets ==
    Cardinality(Fields) <= Ring =>
        \A b \in BotCalls : Scrubbed(b) # {} => \E d \in Senders : sending[d] = "filled"

=============================================================================
