----------------------------- MODULE MCRecords -----------------------------
(***************************************************************************)
(* What the server keeps for a deployment, for TLC: the vault of           *)
(* connections, the model providers and their key, the Bots with their     *)
(* channels, the gallery of components, the artifacts, the package a       *)
(* server starts with, and the screens these are changed on.  They share no state here, so a behaviour is one of *)
(* one machine: Init chooses it among Machines, and the state spaces add   *)
(* up.                                                                     *)
(***************************************************************************)
EXTENDS Naturals, Sequences

CONSTANTS Machines,
          Ids, Bots, Urls, Savers, Uses, MaxSecrets, MaxBorn, OneAtATime,
          Models, Routed, Txs, OneNewAtATime, MaxCredentials,
          BotIds, Owner, People, Admins, MaxAsked, None,
          Shown, Decisions, Customs, Browsers, Editors, MaxEdits, MaxDrafts,
          Works, Profiles, Updates, MaxTexts,
          Boots, Writers, Curators, MaxWrites,
          MaxOthers, MaxSaves, MaxVisits, WithControlPlane,
          b1

\* How many contents are written is counted: a bound of the instance, not of the code.
ASSUME TextsAssumption == MaxTexts \in Nat

\* A component only draws, asks for a decision, or was authored in a browser.
ASSUME KindsAssumption == Shown \cap (Decisions \cup Customs) = {}

\* Two contents of one tenant's package, and another tenant's that shares names with them; its
\* second content names a Bot after a route.
Tenants == {"acme", "other"}
Versions == 1..2
\* The origin of a row, its owner and its package are columns of their own: the ids of people, tenants
\* and packages are told apart, and none is the absent value.
ASSUME NamesAssumption ==
    /\ None \notin Boots \cup Writers \cup Tenants \cup (Tenants \X Versions) \cup {"catalogue"}
    /\ Writers \cap ({"catalogue"} \cup Tenants \cup (Tenants \X Versions)) = {}

Shipped(kind, name) == [kind |-> kind, name |-> name]
Channel == Shipped("channel", "general")
Skill == Shipped("skill", "standup")
Reserved == {Shipped("agent", "policy")}
SkillRows == {Skill}
Ships == [p \in Tenants \X Versions |->
    CASE p = <<"acme", 1>> -> <<Channel, Skill>>
      [] p = <<"acme", 2>> -> <<Shipped("agent", "x"), Shipped("agent", "y"), Channel, Skill>>
      [] p = <<"other", 1>> -> <<Shipped("agent", "y"), Channel, Skill>>
      [] p = <<"other", 2>> -> <<Shipped("agent", "policy")>>]

VARIABLES
    machine,
    conn, grants, save, use, code, born, typed, entered, granted, out,
    provider, saving, routeOf,
    live, created, rotating, wanted,
    bot, vault, links, hidden, tx, locks, token, sent, gone, failed, asked,
    comp, source, withheld, reads, edit, announcing, held, call, arrivals, drafts, edits,
    artifact, content, attached, update, answered, run, given, texts,
    table, boot, request, writes,
    choice, stored, facts, me, at, seen, fetch, change, least, spent

vaultVars == <<conn, grants, save, use, code, born, typed, entered, granted, out>>
routeVars == <<provider, saving, routeOf>>
keyVars == <<live, created, rotating, wanted>>
botVars == <<bot, vault, links, hidden, tx, locks, token, sent, gone, failed, asked>>
galleryVars == <<comp, source, withheld, reads, edit, announcing, held, call, arrivals, drafts, edits>>
workVars == <<artifact, content, attached, update, answered, run, given, texts>>
packageVars == <<table, boot, request, writes>>
screenVars == <<choice, stored, facts, me, at, seen, fetch, change, least, spent>>
secretVars == <<vaultVars, routeVars, keyVars>>
shelfVars == <<botVars, galleryVars, workVars, packageVars, screenVars>>
vars == <<machine, secretVars, shelfVars>>

Safe == INSTANCE Vault
Route == INSTANCE Providers WITH tx <- saving
Key == INSTANCE Credentials
Crew == INSTANCE Roster
Parts == INSTANCE Gallery
Library == INSTANCE Artifacts
Screen == INSTANCE Screens
Start == INSTANCE Package WITH Admins <- Curators, Nobody <- None

\* The tables of pages, queries, changes and handlers agree, without the panel that is offered to more
\* people than its routes answer.
ASSUME TablesAssumption ==
    WithControlPlane \/ \A c \in Screen!Situations : Screen!Agree(c)

\* Whoever sees a Bot, owns it, or is an administrator.
Asking == {{"role", "shared"}, {"role", "owns"}, {"role", "admin"}}

\* Ids of Bots are interchangeable: the Bot there is at the start is the first.
Init ==
    /\ machine \in Machines
    /\ Safe!Init /\ Route!Init /\ Key!Init /\ Parts!Init /\ Library!Init /\ Start!Init
    /\ Crew!Init /\ bot[b1].state = "live"
    /\ Screen!Init /\ facts \in Asking
    /\ machine # "screens" => /\ choice = CHOOSE any \in Screen!Situations : TRUE
                              /\ facts = {"role", "admin"}
    /\ machine # "bots" => vault = <<>> /\ ~bot[b1].system
    /\ machine # "package" => \A row \in Reserved : table[row] = Start!Absent

Secrets ==
    /\ \/ machine = "vault" /\ Safe!Next /\ UNCHANGED <<routeVars, keyVars>>
       \/ machine = "routes" /\ Route!Next /\ UNCHANGED <<vaultVars, keyVars>>
       \/ machine = "keys" /\ Key!Next /\ UNCHANGED <<vaultVars, routeVars>>
    /\ UNCHANGED <<machine, shelfVars>>

Shelves ==
    /\ \/ machine = "bots" /\ Crew!Next /\ UNCHANGED <<galleryVars, workVars, packageVars, screenVars>>
       \/ machine = "gallery" /\ Parts!Next /\ UNCHANGED <<botVars, workVars, packageVars, screenVars>>
       \/ machine = "works" /\ Library!Next /\ UNCHANGED <<botVars, galleryVars, packageVars, screenVars>>
       \/ machine = "package" /\ Start!Next /\ UNCHANGED <<botVars, galleryVars, workVars, screenVars>>
       \/ machine = "screens" /\ Screen!Next
            /\ UNCHANGED <<botVars, galleryVars, workVars, packageVars>>
    /\ UNCHANGED <<machine, secretVars>>

Next == Secrets \/ Shelves

Spec == Init /\ [][Next]_vars

-----------------------------------------------------------------------------
\* The state of the machines has the shape the code gives it.
TypeOK ==
    /\ Safe!TypeOK /\ Route!TypeOK /\ Key!TypeOK
    /\ Crew!TypeOK /\ Parts!TypeOK /\ Library!TypeOK /\ Start!TypeOK
    /\ Screen!TypeOK

\* Vault, Providers and Credentials: a secret goes to the address it was entered for, and is forwarded
\* or typed only for a Bot it was granted to; what a computer fetches is recorded first; one provider is
\* the default; and a rotation leaves no gap.
SecretsKept ==
    /\ Safe!SecretGoesHome /\ Safe!GrantCoversUse /\ Safe!FetchIsRecorded
    /\ Route!OneDefault /\ Key!RotationLeavesNoGap

\* Roster: the key a Bot's row points at works; a deleted Bot is silent: its key goes out with no run
\* that starts later and its token acts as nobody; and a channel is made of Bots that are there.
BotsKept == [](Crew!KeyWorks /\ Crew!DeletedIsSilent) /\ Crew!ChannelOfLivingBots

\* Gallery and Artifacts: what was revoked does not stay drawn by a call that starts later, and what a
\* version says is never rewritten.
ShelfKept == Parts!RevokedIsGone /\ Library!VersionsAreKept

\* Package: all that the reported package ships is there as it says; what people wrote stays; and
\* no Bot is served under a reserved name.
PackageKept == Start!ActiveIsWhole /\ Start!WrittenStays /\ Start!NoReservedBot

\* Screens: what was saved is on the screen that said so, but for a removal that a page takes into its
\* own hands, and a screen offers nothing the server refuses.
ScreensKept == Screen!SavedIsShown /\ Screen!OfferedIsAllowed
=============================================================================
