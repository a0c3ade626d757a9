---------------------------- MODULE Credentials ----------------------------
(***************************************************************************)
(* The deployment's model key: the newest live credential of its name,     *)
(* else the environment's (credentials.ts).  Rotating stores the new one   *)
(* and then revokes the old one.  One kind, provider and key id.           *)
(***************************************************************************)
EXTENDS Naturals

CONSTANT MaxCredentials

VARIABLES
    live,      \* the credentials that were created and not revoked
    created,
    rotating,  \* the credential a rotation has still to revoke, or 0
    wanted     \* history: an administrator stored a key and revoked none since

vars == <<live, created, rotating, wanted>>

Init == live = {} /\ created = 0 /\ rotating = 0 /\ wanted = FALSE

\* resolveModelApiKey: the newest live credential, or the environment's key (0).
ModelApiKey == IF live = {} THEN 0 ELSE CHOOSE n \in live : \A m \in live : m <= n

\* POST /admin/credentials.
CreateCredential ==
    /\ created < MaxCredentials
    /\ created' = created + 1 /\ live' = live \cup {created + 1} /\ wanted' = TRUE
    /\ UNCHANGED rotating

\* As if the old credential were revoked before the new one is stored.
RevokeThenCreate(n) ==
    /\ rotating = 0 /\ n \in live /\ created < MaxCredentials
    /\ live' = live \ {n} /\ rotating' = n
    /\ UNCHANGED <<created, wanted>>

\* POST /admin/credentials/:id/rotate: the new one is stored ...
BeginRotate(n) ==
    /\ rotating = 0 /\ n \in 1 .. created /\ created < MaxCredentials
    /\ created' = created + 1 /\ live' = live \cup {created + 1} /\ wanted' = TRUE
    /\ rotating' = n

\* ... and the old one revoked, unless the database fails in between.
EndRotate ==
    /\ rotating # 0
    /\ live' \in {live, live \ {rotating}} /\ rotating' = 0
    /\ UNCHANGED <<created, wanted>>

\* POST /admin/credentials/:id/revoke.
RevokeCredential(n) ==
    /\ n \in live
    /\ live' = live \ {n} /\ wanted' = FALSE
    /\ UNCHANGED <<created, rotating>>

Next ==
    \/ CreateCredential \/ EndRotate
    \/ \E n \in 1 .. MaxCredentials : BeginRotate(n) \/ RevokeCredential(n)

Spec == Init /\ [][Next]_vars

-----------------------------------------------------------------------------
\* Only what was created is live or being replaced.
TypeOK == live \subseteq 1 .. created /\ rotating \in 0 .. created

\* While an administrator's key is in force a run never pays with the environment's key,
\* in the middle of a rotation or after one that failed either.
RotationLeavesNoGap == wanted => ModelApiKey # 0
=============================================================================
