------------------------------- MODULE Package -------------------------------
(***************************************************************************)
(* The package of a deployment (tenant-package.ts): a server that starts   *)
(* reads the files, refuses a package that is wrong, and writes its Bots,  *)
(* channels and skills in one READ COMMITTED transaction before it serves. *)
(* Servers start when they like, an older package after a newer one among  *)
(* them, while people write skills (installSkill, uninstallSkill).         *)
(*                                                                         *)
(* A row is the package's own row, a Bot with its profile, a channel with  *)
(* its Bots, or a skill with the tools it declares.  An upsert waits for   *)
(* whoever holds the row and holds it until its transaction ends.          *)
(***************************************************************************)
EXTENDS Naturals, Sequences

CONSTANTS Tenants,      \* tenant.id of the packages there are
          Versions,     \* contents a tenant's package had
          Ships,        \* [Tenants \X Versions -> Seq(row)]: the Bots, channels and skills, in order
          Reserved,     \* the Bots' rows whose ids are DEPLOYMENT_ROUTES
          SkillRows,    \* the skills' rows
          Boots,        \* servers that start
          Writers, Admins, MaxWrites,
          Nobody

Catalogue == "catalogue"    \* the origin of a skill that a package shipped

Packages == Tenants \X Versions
OwnRow(t) == [kind |-> "package", name |-> t]
Rows == {OwnRow(t) : t \in Tenants} \cup SkillRows \cup Reserved
        \cup UNION {{Ships[p][i] : i \in DOMAIN Ships[p]} : p \in Packages}

VARIABLES
    table,    \* committed: whose each row is, who wrote what it says, and its declared tools
    boot,     \* the start of each server: its package, its progress, the rows it holds and wrote
    request,  \* the skill each person is saving or deleting
    writes    \* how many requests there were

vars == <<table, boot, request, writes>>

Absent == [whose |-> Nobody, says |-> Nobody, tools |-> Nobody]
Off == [step |-> "off", pkg |-> Nobody, at |-> 0, holds |-> {}, wrote |-> <<>>]
Asked == [step |-> "none", row |-> Nobody]

\* A Bot may hold a name that was reserved after its package declared it.
Init ==
    /\ \E old \in SUBSET Reserved, t \in Tenants :
        table = [r \in Rows |-> IF r \in old THEN [Absent EXCEPT !.whose = t] ELSE Absent]
    /\ boot = [b \in Boots |-> Off]
    /\ request = [w \in Writers |-> Asked]
    /\ writes = 0

-----------------------------------------------------------------------------
Own(b) == boot[b].pkg[1]

\* The statement the transaction is at: the package's own row, then what it ships.
Row(b) == IF boot[b].at = 0 THEN OwnRow(Own(b)) ELSE Ships[boot[b].pkg][boot[b].at]

HeldByAnother(row, b) == \E o \in Boots \ {b} : row \in boot[o].holds

\* What a boot that throws leaves: nothing.
Thrown == [Off EXCEPT !.step = "failed"]

\* validateTenantPackage: a package that names a Bot after a route of the deployment is refused.
Validate(p) == \A i \in DOMAIN Ships[p] : Ships[p][i] \notin Reserved

Load(b, p) ==
    /\ boot[b] = Off
    /\ boot' = [boot EXCEPT ![b] = IF Validate(p)
                                   THEN [Off EXCEPT !.step = "check", !.pkg = p]
                                   ELSE Thrown]
    /\ UNCHANGED <<table, request, writes>>

\* A Bot that holds a reserved name refuses the start.
CheckReserved(b) ==
    /\ boot[b].step = "check"
    /\ boot' = [boot EXCEPT ![b] = IF \E r \in Reserved : table[r] # Absent
                                   THEN Thrown
                                   ELSE [@ EXCEPT !.step = "write"]]
    /\ UNCHANGED <<table, request, writes>>

\* The row as the package says it.
Put(b, whose) ==
    LET row == Row(b) IN
    boot' = [boot EXCEPT ![b].at = @ + 1, ![b].holds = @ \cup {row},
                         ![b].wrote = [r \in DOMAIN @ \cup {row} |->
                            IF r = row THEN [whose |-> whose, says |-> boot[b].pkg,
                                             tools |-> boot[b].pkg]
                            ELSE @[r]]]

At(b, kind) ==
    /\ boot[b].step = "write" /\ boot[b].at <= Len(Ships[boot[b].pkg])
    /\ Row(b).kind = kind /\ ~HeldByAnother(Row(b), b)
    /\ UNCHANGED <<table, request, writes>>

UpsertPackage(b) == At(b, "package") /\ Put(b, Own(b))

\* Only the package's own Bot; another's throws.
UpsertAgent(b) ==
    /\ At(b, "agent")
    /\ \/ table[Row(b)].whose \in {Nobody, Own(b)} /\ Put(b, Own(b))
       \/ table[Row(b)].whose \notin {Nobody, Own(b)} /\ boot' = [boot EXCEPT ![b] = Thrown]

\* Whosever channel it was.
UpsertChannel(b) == At(b, "channel") /\ Put(b, Own(b))

\* A skill that is there keeps its origin and its owner.
PutSkill(b) == Put(b, IF table[Row(b)] = Absent THEN Catalogue ELSE table[Row(b)].whose)

\* A wrong variant: without the condition on the origin.
UpsertSkillAnyway(b) == At(b, "skill") /\ PutSkill(b)

\* Only a skill that was shipped; one that somebody wrote keeps the name, and is locked all the same.
UpsertSkill(b) ==
    /\ At(b, "skill")
    /\ \/ table[Row(b)].whose \in {Nobody, Catalogue} /\ PutSkill(b)
       \/ /\ table[Row(b)].whose \notin {Nobody, Catalogue}
          /\ boot' = [boot EXCEPT ![b].at = @ + 1, ![b].holds = @ \cup {Row(b)}]

Commit(b) ==
    /\ boot[b].step = "write" /\ boot[b].at > Len(Ships[boot[b].pkg])
    /\ table' = [r \in Rows |-> IF r \in DOMAIN boot[b].wrote THEN boot[b].wrote[r] ELSE table[r]]
    /\ boot' = [boot EXCEPT ![b] = [Off EXCEPT !.step = "serves", !.pkg = boot[b].pkg]]
    /\ UNCHANGED <<request, writes>>

\* The server dies, or the database names it the victim of a deadlock.
Dies(b) ==
    /\ boot[b].step \in {"check", "write"}
    /\ boot' = [boot EXCEPT ![b] = Thrown]
    /\ UNCHANGED <<table, request, writes>>

-----------------------------------------------------------------------------
\* skillRefusal, on the row as it is committed.
Ask(w, step, row) ==
    /\ request[w] = Asked /\ writes < MaxWrites
    /\ w \in Admins \/ table[row].whose \in {Nobody, w}
    /\ request' = [request EXCEPT ![w] = [step |-> step, row |-> row]]
    /\ writes' = writes + 1
    /\ UNCHANGED <<table, boot>>

\* installSkill's first statement keeps the origin and the owner of a row that is there.
Save(w) ==
    LET row == request[w].row IN
    /\ request[w].step = "save" /\ ~HeldByAnother(row, Nobody)
    /\ table' = [table EXCEPT ![row].whose = IF @ = Nobody THEN w ELSE @, ![row].says = w]
    /\ request' = [request EXCEPT ![w].step = "declare"]
    /\ UNCHANGED <<boot, writes>>

\* Its second: the declarations, which a skill that is gone refuses.
Declare(w) ==
    LET row == request[w].row IN
    /\ request[w].step = "declare" /\ ~HeldByAnother(row, Nobody)
    /\ table' = [table EXCEPT ![row].tools = IF table[row] = Absent THEN @ ELSE w]
    /\ request' = [request EXCEPT ![w] = Asked]
    /\ UNCHANGED <<boot, writes>>

\* uninstallSkill.
Uninstall(w) ==
    LET row == request[w].row IN
    /\ request[w].step = "delete" /\ ~HeldByAnother(row, Nobody)
    /\ table' = [table EXCEPT ![row] = Absent]
    /\ request' = [request EXCEPT ![w] = Asked]
    /\ UNCHANGED <<boot, writes>>

Next ==
    \/ \E b \in Boots :
        \/ \E p \in Packages : Load(b, p)
        \/ CheckReserved(b)
        \/ UpsertPackage(b) \/ UpsertAgent(b) \/ UpsertChannel(b) \/ UpsertSkill(b)
        \/ Commit(b) \/ Dies(b)
    \/ \E w \in Writers :
        \/ \E row \in SkillRows : Ask(w, "save", row) \/ Ask(w, "delete", row)
        \/ Save(w) \/ Declare(w) \/ Uninstall(w)

Spec == Init /\ [][Next]_vars

-----------------------------------------------------------------------------
\* Nobody holds a row that another holds, and a transaction wrote only rows it holds.
TypeOK ==
    /\ \A b \in Boots :
        /\ boot[b].step \in {"off", "check", "write", "serves", "failed"}
        /\ DOMAIN boot[b].wrote \subseteq boot[b].holds
        /\ \A r \in boot[b].holds : ~HeldByAnother(r, b)
    /\ writes \in 0..MaxWrites

\* What the package a deployment reports ships is there as that package says it, all of it: however
\* the starts of servers with different packages overlap, and wherever one dies, no Bot, channel or
\* shipped skill it names is missing or says what another content of the package says.  It asks
\* nothing about what an older content named and this one does not (NothingOlder).
ActiveIsWhole ==
    \A t \in Tenants : LET p == table[OwnRow(t)].says IN
        p # Nobody => \A i \in DOMAIN Ships[p] : LET row == table[Ships[p][i]] IN
            /\ Ships[p][i].kind = "agent" => row.whose = t /\ row.says = p
            /\ Ships[p][i].kind = "channel" => row # Absent /\ (row.whose = t => row.says = p)
            /\ Ships[p][i].kind = "skill" /\ row.whose = Catalogue /\ row.says \in {t} \X Versions
                => row.says = p

\* Every Bot of a tenant is one of its package.  Not so: a content that stops naming a Bot leaves it,
\* as nothing removes a canonical agent (tenant-package.ts:551).
NothingOlder ==
    \A t \in Tenants, r \in Rows :
        r.kind = "agent" /\ table[r].whose = t /\ table[OwnRow(t)].says # Nobody
            => table[r].says = table[OwnRow(t)].says

\* A skill somebody wrote under a name of their own says what people wrote, whatever a package ships.
WrittenStays ==
    \A r \in SkillRows : table[r].whose \in Writers => table[r].says \in Writers
                                                       /\ table[r].tools \in Writers \cup {Nobody}

\* A server that serves has no Bot under a name of the deployment's routes.
NoReservedBot == \A b \in Boots : boot[b].step = "serves" => \A r \in Reserved : table[r] = Absent
=============================================================================
