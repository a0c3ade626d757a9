----------------------------- MODULE Workspace -----------------------------
(***************************************************************************)
(* The Bot's files (createWorkspace): which file a request reads or        *)
(* writes, over every file system of a few names, with links that point    *)
(* in, out, at each other and at nothing.  A path is the sequence of its   *)
(* names from the top; links and requests may go up with "..".             *)
(***************************************************************************)
EXTENDS Naturals, Sequences

CONSTANTS
    Root,       \* the workspace, a directory no link leads to
    Paths,      \* the paths that may exist besides Root
    Links,      \* what a link may say: an absolute path, or names from where it is
    Requests,   \* what a Bot may ask for: names, or an absolute path
    MaxHops     \* MAX_LINK_HOPS, and how many links the kernel follows

VARIABLES
    fs,        \* what is at each path: nothing, a file, a folder or a link
    ask,       \* the request: what, and whether to write
    resolved,  \* what resolvePath made of it
    touched    \* the file the kernel reads or writes in the end

vars == <<fs, ask, resolved, touched>>

Front(p) == SubSeq(p, 1, Len(p) - 1)
Last(p) == p[Len(p)]
Nothing == [kind |-> "none"]
Refused == <<"refused">>

\* Paths as text, of the names there are.
NamesIn(p) == {p[i] : i \in DOMAIN p}
Names == {"..", "refused"} \union UNION (
    {NamesIn(p) : p \in Paths \union {Root}} \union {NamesIn(l.to) : l \in Links}
      \union {NamesIn(r.names) : r \in Requests})
Texts == Seq(Names)
Hops == 0..MaxHops

\* Names from a folder, as text: each leading ".." goes up by one, from the top to the top.
Ups(names) == CHOOSE n \in 0..Len(names) : /\ \A i \in 1..n : names[i] = ".."
                                          /\ n < Len(names) => names[n + 1] # ".."
Lexical(base, names) ==
    (IF Ups(names) < Len(base) THEN SubSeq(base, 1, Len(base) - Ups(names)) ELSE <<>>)
      \o SubSeq(names, Ups(names) + 1, Len(names))

\* Where a link at p leads.
Aim(p, link) == IF link.abs THEN link.to ELSE Lexical(Front(p), link.to)

At(p) == IF p = <<>> \/ p = Root THEN [kind |-> "folder"] ELSE IF p \in Paths THEN fs[p] ELSE Nothing

-----------------------------------------------------------------------------
(* The kernel *)

\* realpath, or Refused where there is nothing.
Realpath[c \in Texts \X Hops] ==
    LET p == c[1]
        hops == c[2]
        holder == Realpath[<<Front(p), hops>>]
        q == Append(holder, Last(p))
    IN  IF p = <<>> THEN p
        ELSE IF holder = Refused \/ At(holder).kind # "folder" \/ At(q).kind = "none" THEN Refused
        ELSE IF At(q).kind # "link" THEN q
        ELSE IF hops = 0 THEN Refused
        ELSE Realpath[<<Aim(q, At(q).link), hops - 1>>]

Real(p) == Realpath[<<p, MaxHops>>]

\* lstat: the last name is not followed.
Lstat(p) == IF p = <<>> \/ Real(Front(p)) = Refused THEN Nothing ELSE At(Append(Real(Front(p)), Last(p)))

\* writeFile follows a link at the last name, and creates what a dangling one names.
Lands[c \in Texts \X Hops] ==
    LET p == c[1]
        hops == c[2]
        holder == Real(Front(p))
        q == Append(holder, Last(p))
    IN  IF p = <<>> \/ holder = Refused \/ At(holder).kind # "folder" \/ At(q).kind = "folder" THEN Refused
        ELSE IF At(q).kind # "link" THEN q
        ELSE IF hops = 0 THEN Refused
        ELSE Lands[<<Aim(q, At(q).link), hops - 1>>]

\* mkdir with its parents, then writeFile: what is missing is created in the deepest folder
\* there is, unless a name on the way is taken by a file or by a link to nothing.
LandsWithParents(p) ==
    IF Real(Front(p)) # Refused THEN Lands[<<p, MaxHops>>]
    ELSE LET n == CHOOSE i \in 0..(Len(p) - 2) :
                     Real(SubSeq(p, 1, i)) # Refused /\ Real(SubSeq(p, 1, i + 1)) = Refused
             base == Real(SubSeq(p, 1, n))
         IN  IF At(base).kind # "folder" \/ At(Append(base, p[n + 1])).kind # "none" THEN Refused
             ELSE base \o SubSeq(p, n + 1, Len(p))

-----------------------------------------------------------------------------
(* resolvePath *)

\* assertInside, by whole names.
Inside(p) == Len(p) >= Len(Root) /\ SubSeq(p, 1, Len(Root)) = Root

\* nearestExistingAncestor, never above the root.
NearestExistingAncestor[p \in Texts] ==
    IF Real(p) # Refused THEN Real(p)
    ELSE IF ~Inside(Front(p)) THEN Refused ELSE NearestExistingAncestor[Front(p)]

\* writeDestination: links followed one by one from the path as text.
WriteDestination[c \in Texts \X (0..(MaxHops + 1))] ==
    LET p == c[1]
        hop == c[2]
    IN  IF hop > MaxHops THEN Refused
        ELSE IF Lstat(p).kind # "link" THEN p
        ELSE WriteDestination[<<Aim(p, Lstat(p).link), hop + 1>>]

\* What the destination of a link must pass.
Followed(landing) ==
    LET holder == IF landing \in {Refused, <<>>} THEN Refused ELSE Real(Front(landing))
    IN  IF holder = Refused \/ ~Inside(holder) THEN Refused
        ELSE IF Inside(Append(holder, Last(landing))) THEN Append(holder, Last(landing)) ELSE Refused

\* A resolvePath that checks the folder of a file and not the name itself.
ResolveHolderOnly(request, forWrite) ==
    LET target == Root \o request.names
        real == IF forWrite THEN NearestExistingAncestor[Front(target)] ELSE Real(target)
    IN  IF request.abs \/ (\E i \in DOMAIN request.names : request.names[i] = "..") \/ real = Refused \/ ~Inside(real) THEN Refused
        ELSE IF forWrite THEN target ELSE real

ResolvePath(request, forWrite) ==
    LET target == Root \o request.names
        real == IF forWrite THEN NearestExistingAncestor[Front(target)] ELSE Real(target)
        landing == WriteDestination[<<target, 0>>]
    IN  IF request.abs \/ (\E i \in DOMAIN request.names : request.names[i] = "..") \/ real = Refused \/ ~Inside(real) THEN Refused
        ELSE IF ~forWrite THEN real
        ELSE IF landing = target THEN target ELSE Followed(landing)

-----------------------------------------------------------------------------
Entries == {Nothing, [kind |-> "file"], [kind |-> "folder"]} \union {[kind |-> "link", link |-> l] : l \in Links}

\* A path has something only if what holds it is a folder.
Consistent(tree) ==
    \A p \in Paths : tree[p].kind # "none" =>
        LET h == Front(p) IN h = <<>> \/ h = Root \/ (h \in Paths /\ tree[h].kind = "folder")

Init ==
    /\ fs \in {tree \in [Paths -> Entries] : Consistent(tree)}
    /\ ask \in [request : Requests, forWrite : BOOLEAN]
    /\ resolved = <<>> /\ touched = <<>>

Resolve ==
    /\ resolved = <<>>
    /\ resolved' = ResolvePath(ask.request, ask.forWrite)
    /\ UNCHANGED <<fs, ask, touched>>

\* read: what is there, unless it is a folder.
Read ==
    /\ resolved \notin {<<>>, Refused} /\ ~ask.forWrite /\ touched = <<>>
    /\ touched' = IF At(resolved).kind = "file" THEN resolved ELSE Refused
    /\ UNCHANGED <<fs, ask, resolved>>

\* list: a folder, walked downwards; the walk skips links, so all it names is under it.
List ==
    /\ resolved \notin {<<>>, Refused} /\ ~ask.forWrite /\ touched = <<>>
    /\ At(resolved).kind = "folder"
    /\ touched' = resolved
    /\ UNCHANGED <<fs, ask, resolved>>

Write ==
    /\ resolved \notin {<<>>, Refused} /\ ask.forWrite /\ touched = <<>>
    /\ touched' = LandsWithParents(resolved)
    /\ UNCHANGED <<fs, ask, resolved>>

Next == Resolve \/ Read \/ List \/ Write

Spec == Init /\ [][Next]_vars

-----------------------------------------------------------------------------
\* What a request reads, lists or writes is inside the workspace, whatever the links in it say:
\* to another folder, to each other, to a name that does not exist yet, or up and out.
Confined == touched \in {<<>>, Refused} \/ Inside(touched)
=============================================================================
