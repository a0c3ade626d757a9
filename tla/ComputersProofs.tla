--------------------------- MODULE ComputersProofs ---------------------------
(***************************************************************************)
(* The machines of a Bot's computer, proved for every number of Bots,      *)
(* calls, contexts, nodes, moves and turns: the wheel and its secrets, the *)
(* pool of browsers, the mesh, the harness, the shell and the workspace.   *)
(* The machines share no state, so each has an inductive invariant of its  *)
(* own (ControlInv, PoolInv, MovesInv and JoinsInv, EngineInv, ShellInv,   *)
(* FilesInv; ControlTypes and PoolTypes for the shapes), which the steps   *)
(* of the others leave alone.                                              *)
(***************************************************************************)
EXTENDS MCComputers, FiniteSetTheorems, SequenceTheorems, TLAPS

\* A step of the composition is a step of one machine, and leaves the state of the others alone.
LEMMA MachineSteps == [Next]_vars =>
    /\ [Control!Next]_controlVars /\ [Pool!Next]_poolVars /\ [Placing!Next]_meshVars
    /\ [Engine!Next]_harnessVars /\ [Files!Next]_workspaceVars /\ [Command!Next]_shellVars
BY DEF Next, vars

-----------------------------------------------------------------------------
(***************************************************************************)
(* The shell.                                                              *)
(***************************************************************************)

\* What is collected of a pipe is all that was written to it, or some was cut, and then more than is
\* ever shown was written.
ShellInv ==
    /\ text \in [Command!Pipes -> Nat] /\ written \in [Command!Pipes -> Nat]
    /\ dropped \in [Command!Pipes -> BOOLEAN]
    /\ result \in [answered : BOOLEAN, shown : [Command!Pipes -> Nat], truncated : BOOLEAN]
    /\ \A p \in Command!Pipes :
          IF dropped[p] THEN written[p] > MaxOutput ELSE text[p] = written[p]
    /\ Command!TruncationTold

\* Every chunk, exit and answer keeps what is collected and what was written in step.
LEMMA ShellInvStays == ShellInv /\ [Command!Next]_shellVars => ShellInv'
<1> SUFFICES ASSUME ShellInv, [Command!Next]_shellVars PROVE ShellInv'
  OBVIOUS
<1> USE SizesAssumption
<1>1. ASSUME NEW p \in Command!Pipes, NEW n \in 1 .. MaxOutput, Command!Writes(p, n) PROVE ShellInv'
  <2>1. text[p] \in Nat /\ written[p] \in Nat /\ n \in Nat
    BY DEF ShellInv
  <2> DEFINE size == text[p] + n
             over == size > 2 * MaxOutput
  <2>2. /\ ~result.answered /\ result' = result
        /\ written' = [written EXCEPT ![p] = @ + n]
        /\ text' = [text EXCEPT ![p] = IF over THEN MaxOutput ELSE size]
        /\ dropped' = [dropped EXCEPT ![p] = @ \/ over]
    BY <1>1 DEF Command!Writes
  <2>3. /\ text' \in [Command!Pipes -> Nat] /\ written' \in [Command!Pipes -> Nat]
        /\ dropped' \in [Command!Pipes -> BOOLEAN]
    BY <2>1, <2>2 DEF ShellInv
  <2>4. ASSUME NEW q \in Command!Pipes
        PROVE  IF dropped'[q] THEN written'[q] > MaxOutput ELSE text'[q] = written'[q]
    <3>1. CASE q # p
      BY <3>1, <2>2 DEF ShellInv
    <3>2. CASE q = p
      <4>1. written'[p] = written[p] + n /\ text'[p] = IF over THEN MaxOutput ELSE size
        BY <2>2 DEF ShellInv
      <4>2. dropped'[p] <=> dropped[p] \/ over
        BY <2>2 DEF ShellInv
      <4>3. IF dropped[p] THEN written[p] > MaxOutput ELSE text[p] = written[p]
        BY DEF ShellInv
      <4>4. CASE dropped[p]
        BY <3>2, <4>1, <4>2, <4>3, <4>4, <2>1
      <4>5. CASE ~dropped[p]
        BY <3>2, <4>1, <4>2, <4>3, <4>5, <2>1
      <4> QED
        BY <4>4, <4>5
    <3> QED
      BY <3>1, <3>2
  <2> QED
    BY <2>2, <2>3, <2>4 DEF ShellInv, Command!TruncationTold
<1>2. CASE Command!Answer
  <2>1. /\ ~result.answered /\ UNCHANGED <<text, dropped, written>>
        /\ result' = [answered |-> TRUE, shown |-> [p \in Command!Pipes |-> Command!Clamp(text[p])],
                      truncated |-> \E p \in Command!Pipes : text[p] > MaxOutput \/ dropped[p]]
    BY <1>2 DEF Command!Answer, Command!output
  <2>2. result'.answered /\ result'.truncated = (\E p \in Command!Pipes : text[p] > MaxOutput \/ dropped[p])
        /\ \A p \in Command!Pipes : result'.shown[p] = Command!Clamp(text[p])
    BY <2>1
  <2>3. \A p \in Command!Pipes : Command!Clamp(text[p]) \in Nat
    BY DEF Command!Clamp, ShellInv
  <2>4. result' \in [answered : BOOLEAN, shown : [Command!Pipes -> Nat], truncated : BOOLEAN]
    BY <2>1, <2>3
  <2>5. \A p \in Command!Pipes : (text[p] > MaxOutput \/ dropped[p]) <=> written[p] > Command!Clamp(text[p])
    BY DEF Command!Clamp, ShellInv
  <2>6. Command!TruncationTold'
    BY <2>1, <2>2, <2>5 DEF Command!TruncationTold
  <2> QED
    BY <2>1, <2>4, <2>6 DEF ShellInv
<1>3. CASE UNCHANGED <<text, dropped, written, result>>
  BY <1>3 DEF ShellInv, Command!TruncationTold
<1>4. Command!Backgrounds \/ Command!BashExits \/ Command!GroupExits \/ Command!DaemonExits
      \/ Command!TimerFires \/ Command!Abort \/ UNCHANGED shellVars
      => UNCHANGED <<text, dropped, written, result>>
  BY DEF Command!Backgrounds, Command!BashExits, Command!GroupExits, Command!DaemonExits,
         Command!TimerFires, Command!Abort, Command!output, shellVars
<1> QED
  BY <1>1, <1>2, <1>3, <1>4 DEF Command!Next

-----------------------------------------------------------------------------
(***************************************************************************)
(* The workspace.  Realpath, Lands, NearestExistingAncestor and            *)
(* WriteDestination are recursive functions: that each has a value at all  *)
(* is shown by counting the steps it takes (Iterates), and then its        *)
(* equation holds.                                                         *)
(***************************************************************************)

\* A set of numbers that is not empty has a least one.
LEMMA Least ==
  ASSUME NEW S \in SUBSET Nat, S # {}
  PROVE  \E n \in S : \A m \in S : n <= m
<1> DEFINE T == {0..m : m \in S}
           R == StrictSubsetOrdering(Nat)
<1>1. T \in SUBSET FiniteSubsetsOf(Nat)
  <2>1. ASSUME NEW m \in Nat PROVE 0..m \in FiniteSubsetsOf(Nat)
    <3>1. IsFiniteSet(0..m)
      BY FS_Interval
    <3>2. 0..m \in SUBSET Nat
      OBVIOUS
    <3> QED
      BY <3>1, <3>2 DEF FiniteSubsetsOf
  <2> HIDE DEF R
  <2> QED
    BY <2>1
<1>2. PICK x \in T : \A y \in T : ~(<<y, x>> \in R)
  <2> HIDE DEF R, T
  <2>1. T # {}
    BY DEF T
  <2>2. IsWellFoundedOn(R, FiniteSubsetsOf(Nat))
    BY FS_StrictSubsetOrderingWellFounded DEF R
  <2> QED
    BY <2>1, <2>2, <1>1, WFMin, SMTT(30)
<1>3. PICK n \in S : x = 0..n
  BY <1>2
<1>4. ASSUME NEW m \in S, m < n PROVE FALSE
  <2>1. 0..m \subseteq 0..n /\ n \in 0..n /\ n \notin 0..m
    BY <1>4
  <2>2. 0..m \in SUBSET Nat /\ 0..n \in SUBSET Nat
    OBVIOUS
  <2>3. <<0..m, 0..n>> \in R
    BY <2>1, <2>2 DEF StrictSubsetOrdering
  <2> HIDE DEF R
  <2> QED
    BY <2>3, <1>2, <1>3
<1> QED
  BY <1>4

\* What holds of 0, and of the next number whenever it holds of a number, holds of all of them.
LEMMA Induction ==
  ASSUME NEW S, 0 \in S, \A n \in Nat : n \in S => n + 1 \in S
  PROVE  \A n \in Nat : n \in S
<1> DEFINE Rest == {n \in Nat : n \notin S}
<1> SUFFICES ASSUME Rest # {} PROVE FALSE
  OBVIOUS
<1>1. PICK n \in Rest : \A m \in Rest : n <= m
  BY Least
<1>2. n \in Nat \ {0} /\ n - 1 \in Nat
  OBVIOUS
<1>3. n - 1 \in S
  BY <1>1, <1>2
<1> QED
  BY <1>1, <1>2, <1>3

\* Steps from a value can be counted: there is a function that gives what each number of them leads to.
LEMMA Iterates ==
  ASSUME NEW V, NEW z \in V, NEW T \in [V -> V]
  PROVE  \E f \in [Nat -> V] : f[0] = z /\ \A n \in Nat : f[n + 1] = T[f[n]]
<1> DEFINE Counts(n, f) == f \in [0..n -> V] /\ f[0] = z /\ \A i \in 0..(n - 1) : f[i + 1] = T[f[i]]
           Far == {n \in Nat : \E f \in [0..n -> V] : Counts(n, f)}
<1>1. \A n \in Nat : n \in Far
  <2>1. 0 \in Far
    <3>1. Counts(0, [i \in 0..0 |-> z])
      OBVIOUS
    <3> QED
      BY <3>1
  <2>2. ASSUME NEW n \in Nat, n \in Far PROVE n + 1 \in Far
    <3>1. PICK f \in [0..n -> V] : Counts(n, f)
      BY <2>2
    <3> DEFINE g == [i \in 0..(n + 1) |-> IF i <= n THEN f[i] ELSE T[f[n]]]
    <3>2. Counts(n + 1, g)
      <4>1. g \in [0..(n + 1) -> V] /\ g[0] = z
        BY <3>1
      <4>2. ASSUME NEW i \in 0..n PROVE g[i + 1] = T[g[i]]
        <5>1. CASE i = n
          BY <5>1
        <5>2. CASE i # n
          BY <5>2, <3>1
        <5> QED
          BY <5>1, <5>2
      <4> QED
        BY <4>1, <4>2
    <3> QED
      BY <3>2
  <2> HIDE DEF Far
  <2> QED
    BY <2>1, <2>2, Induction
<1>2. ASSUME NEW n \in Nat, NEW f, NEW g, Counts(n, f), Counts(n + 1, g) PROVE f[n] = g[n]
  <2> DEFINE Same == {i \in Nat : i <= n => f[i] = g[i]}
  <2>1. 0 \in Same
    BY <1>2
  <2>2. ASSUME NEW i \in Nat, i \in Same PROVE i + 1 \in Same
    BY <1>2, <2>2
  <2>3. n \in Same
    <3> HIDE DEF Same
    <3> QED
      BY <2>1, <2>2, Induction
  <2> QED
    BY <2>3
<1> DEFINE At(n) == CHOOSE f \in [0..n -> V] : Counts(n, f)
           F == [n \in Nat |-> At(n)[n]]
<1>3. \A n \in Nat : Counts(n, At(n))
  BY <1>1
<1> HIDE DEF At
<1>4. F \in [Nat -> V] /\ F[0] = z
  BY <1>3
<1>5. ASSUME NEW n \in Nat PROVE F[n + 1] = T[F[n]]
  <2>1. At(n + 1)[n + 1] = T[At(n + 1)[n]]
    BY <1>3
  <2>2. At(n)[n] = At(n + 1)[n]
    <3> HIDE DEF Counts
    <3> QED
      BY <1>2, <1>3
  <2> QED
    BY <2>1, <2>2
<1> QED
  BY <1>4, <1>5

\* What is at each path is one of the entries there are.
FilesStand == fs \in [Paths -> Files!Entries]

\* The workspace, its paths, what links and requests say, and the mark for what was refused are texts.
LEMMA TextsAre ==
    /\ Root \in Files!Texts /\ Root # <<>> /\ Root # Files!Refused
    /\ Paths \subseteq Files!Texts /\ Files!Refused \notin Paths
    /\ Files!Refused \in Files!Texts /\ Files!Refused # <<>> /\ <<>> \in Files!Texts
    /\ \A l \in Links : l.to \in Files!Texts
    /\ \A r \in Requests : r.names \in Files!Texts
<1>1. ASSUME NEW p \in Seq(STRING), NEW S, \A i \in DOMAIN p : p[i] \in S PROVE p \in Seq(S)
  <2>1. p = [i \in 1..Len(p) |-> p[i]] /\ DOMAIN p = 1..Len(p) /\ Len(p) \in Nat
    OBVIOUS
  <2> QED
    BY <1>1, <2>1
<1> DEFINE In == {Files!NamesIn(p) : p \in Paths \cup {Root}}
           To == {Files!NamesIn(l.to) : l \in Links}
           Of == {Files!NamesIn(r.names) : r \in Requests}
<1>2. ASSUME NEW p \in Seq(STRING), Files!NamesIn(p) \in In \cup To \cup Of PROVE p \in Files!Texts
  <2>1. Files!NamesIn(p) \subseteq Files!Names
    <3>1. Files!Names = {"..", "refused"} \cup UNION (In \cup To \cup Of)
      BY DEF Files!Names
    <3> HIDE DEF In, To, Of
    <3> QED
      BY <1>2, <3>1
  <2>2. \A i \in DOMAIN p : p[i] \in Files!NamesIn(p)
    BY DEF Files!NamesIn
  <2> QED
    BY <1>1, <2>1, <2>2 DEF Files!Texts
<1>3. \A p \in Paths \cup {Root} : p \in Files!Texts
  BY <1>2, FilesAssumption
<1>4. (\A l \in Links : l.to \in Files!Texts) /\ (\A r \in Requests : r.names \in Files!Texts)
  BY <1>2, FilesAssumption
<1>5. Files!Refused \in Files!Texts
  BY DEF Files!Refused, Files!Texts, Files!Names
<1>6. <<>> \in Files!Texts
  BY DEF Files!Texts
<1> QED
  BY <1>2, <1>3, <1>4, <1>5, <1>6, FilesAssumption DEF Files!Refused

\* A text that is not empty is its folder and its last name.
LEMMA Splits ==
  ASSUME NEW p \in Files!Texts
  PROVE  /\ Len(p) \in Nat /\ (p = <<>> <=> Len(p) = 0) /\ Files!Front(p) \in Files!Texts
         /\ p # <<>> => /\ Files!Front(p) \in Files!Texts /\ Len(Files!Front(p)) = Len(p) - 1
                        /\ Files!Last(p) \in Files!Names /\ p = Append(Files!Front(p), Files!Last(p))
         /\ \A x \in Files!Names : /\ Append(p, x) \in Files!Texts /\ Append(p, x) # <<>>
                                   /\ Len(Append(p, x)) = Len(p) + 1
                                   /\ Files!Front(Append(p, x)) = p /\ Files!Last(Append(p, x)) = x
<1>1. p \in Seq(Files!Names)
  BY DEF Files!Texts
<1> HIDE DEF Files!Names
<1>2. Len(p) \in Nat /\ (p = <<>> <=> Len(p) = 0)
  BY <1>1
<1>3. ASSUME p # <<>>
      PROVE  /\ Files!Front(p) \in Files!Texts /\ Len(Files!Front(p)) = Len(p) - 1
             /\ Files!Last(p) \in Files!Names /\ p = Append(Files!Front(p), Files!Last(p))
  <2>1. Files!Front(p) \in Files!Texts /\ Len(Files!Front(p)) = Len(p) - 1
        /\ \A i \in 1..(Len(p) - 1) : Files!Front(p)[i] = p[i]
    BY <1>1, <1>2, <1>3 DEF Files!Front, Files!Texts
  <2>2. Files!Last(p) \in Files!Names
    BY <1>1, <1>2, <1>3 DEF Files!Last
  <2> DEFINE front == Files!Front(p)
             last == Files!Last(p)
  <2>3. front \in Seq(Files!Names) /\ last = p[Len(p)]
    BY <2>1 DEF Files!Texts, Files!Last
  <2>4. Append(front, last) = p
    <3> HIDE DEF front, last
    <3>1. Append(front, last) \in Seq(Files!Names) /\ Len(Append(front, last)) = Len(p)
      BY <2>1, <2>2, <2>3, <1>2 DEF front, last
    <3>2. \A i \in 1..Len(p) : Append(front, last)[i] = p[i]
      BY <2>1, <2>2, <2>3, <1>2 DEF front
    <3> QED
      BY <3>1, <3>2, <1>1, SeqEqual
  <2> QED
    BY <2>1, <2>2, <2>4
<1>4. ASSUME NEW x \in Files!Names
      PROVE  /\ Append(p, x) \in Files!Texts /\ Append(p, x) # <<>>
             /\ Len(Append(p, x)) = Len(p) + 1
             /\ Files!Front(Append(p, x)) = p /\ Files!Last(Append(p, x)) = x
  BY <1>1, <1>2 DEF Files!Front, Files!Last, Files!Texts
<1>5. CASE p = <<>>
  <2>1. SubSeq(p, 1, Len(p) - 1) \in Seq(Files!Names)
    BY <1>1, <1>2, <1>5
  <2> QED
    BY <2>1, <1>2, <1>3, <1>4, <1>5 DEF Files!Front, Files!Texts
<1> QED
  BY <1>2, <1>3, <1>4, <1>5

\* What is at a text: never anything at the mark for what was refused, and a link leads to a text.
LEMMA EntriesAt ==
  ASSUME FilesStand
  PROVE  /\ Files!At(Files!Refused).kind = "none"
         /\ Files!At(<<>>).kind = "folder"
         /\ \A q \in Files!Texts : Files!At(q).kind \in {"none", "file", "folder", "link"}
         /\ \A p, q \in Files!Texts : Files!At(q).kind = "link" => Files!Aim(p, Files!At(q).link) \in Files!Texts
<1>1. Files!At(Files!Refused).kind = "none"
  BY TextsAre DEF Files!At, Files!Nothing
<1>2. Files!At(<<>>).kind = "folder"
  BY DEF Files!At
<1>3. ASSUME NEW q \in Files!Texts
      PROVE  /\ Files!At(q).kind \in {"none", "file", "folder", "link"}
             /\ Files!At(q).kind = "link" => q # <<>> /\ Files!At(q).link \in Links
  BY DEF Files!At, Files!Nothing, FilesStand, Files!Entries
<1>4. ASSUME NEW base \in Files!Texts, NEW names \in Files!Texts PROVE Files!Lexical(base, names) \in Files!Texts
  <2>1. Files!Ups(names) \in 0..Len(names)
    <3> DEFINE Stop == {n \in 0..Len(names) : n < Len(names) => names[n + 1] # ".."}
    <3>1. Len(names) \in Nat
      BY Splits
    <3>2. Stop # {} /\ Stop \in SUBSET Nat
      BY <3>1
    <3>3. PICK n \in Stop : \A m \in Stop : n <= m
      <4> HIDE DEF Stop
      <4> QED
        BY <3>2, Least
    <3>4. \A i \in 1..n : names[i] = ".."
      <4> TAKE i \in 1..n
      <4>1. i - 1 \in 0..Len(names) /\ i - 1 < n /\ i - 1 < Len(names)
        BY <3>1
      <4> QED
        BY <3>3, <4>1
    <3> QED
      BY <3>4 DEF Files!Ups
  <2>2. base \in Seq(Files!Names) /\ names \in Seq(Files!Names)
    BY DEF Files!Texts
  <2> DEFINE n == Files!Ups(names)
             upper == IF n < Len(base) THEN SubSeq(base, 1, Len(base) - n) ELSE <<>>
             rest == SubSeq(names, n + 1, Len(names))
  <2>3. upper \in Seq(Files!Names)
    <3> HIDE DEF Files!Names
    <3> QED
      BY <2>1, <2>2
  <2>4. rest \in Seq(Files!Names)
    <3> HIDE DEF Files!Names
    <3> QED
      BY <2>1, <2>2
  <2>5. upper \o rest \in Seq(Files!Names)
    <3> HIDE DEF upper, rest, Files!Names
    <3> QED
      BY <2>3, <2>4
  <2> QED
    BY <2>5 DEF Files!Lexical, Files!Texts
<1>5. ASSUME NEW p \in Files!Texts, NEW q \in Files!Texts, Files!At(q).kind = "link"
      PROVE  Files!Aim(p, Files!At(q).link) \in Files!Texts
  <2>1. Files!At(q).link \in Links
    BY <1>3, <1>5
  <2>2. Files!Front(p) \in Files!Texts /\ Files!At(q).link.to \in Files!Texts
    BY <2>1, Splits, TextsAre
  <2> QED
    BY <2>2, <1>4 DEF Files!Aim
<1> QED
  BY <1>1, <1>2, <1>3, <1>5

\* Where the last name of a path leads, when its folder leads to dir and G says where links aim.
Reach(p, dir, G) ==
    LET q == Append(dir, Files!Last(p))
    IN  IF p = <<>> THEN p
        ELSE IF dir = Files!Refused \/ Files!At(dir).kind # "folder" \/ Files!At(q).kind = "none" THEN Files!Refused
        ELSE IF Files!At(q).kind # "link" THEN q
        ELSE G[Files!Aim(q, Files!At(q).link)]

\* The same with the links a path may still go through, as Realpath counts them down.
ReachIn(p, h, f) ==
    LET dir == f[<<Files!Front(p), h>>]
        q == Append(dir, Files!Last(p))
    IN  IF p = <<>> THEN p
        ELSE IF dir = Files!Refused \/ Files!At(dir).kind # "folder" \/ Files!At(q).kind = "none" THEN Files!Refused
        ELSE IF Files!At(q).kind # "link" THEN q
        ELSE IF h = 0 THEN Files!Refused
        ELSE f[<<Files!Aim(q, Files!At(q).link), h - 1>>]

LEMMA ReachIsText ==
  ASSUME FilesStand, NEW p \in Files!Texts, NEW dir \in Files!Texts, NEW G \in [Files!Texts -> Files!Texts]
  PROVE  Reach(p, dir, G) \in Files!Texts
<1> DEFINE q == Append(dir, Files!Last(p))
<1>1. p # <<>> => q \in Files!Texts
  BY Splits
<1>2. p # <<>> /\ Files!At(q).kind = "link" => G[Files!Aim(q, Files!At(q).link)] \in Files!Texts
  BY <1>1, EntriesAt
<1>3. Reach(p, dir, G) = IF p = <<>> THEN p
        ELSE IF dir = Files!Refused \/ Files!At(dir).kind # "folder" \/ Files!At(q).kind = "none" THEN Files!Refused
        ELSE IF Files!At(q).kind # "link" THEN q
        ELSE G[Files!Aim(q, Files!At(q).link)]
  BY DEF Reach
<1> HIDE DEF q
<1> QED
  BY <1>1, <1>2, <1>3, TextsAre

\* Following a path name by name, for links that lead where G says.
LEMMA Walks ==
  ASSUME FilesStand, NEW G \in [Files!Texts -> Files!Texts]
  PROVE  \E W \in [Files!Texts -> Files!Texts] :
           \A p \in Files!Texts : W[p] = Reach(p, W[Files!Front(p)], G)
<1> DEFINE V == [Files!Texts -> Files!Texts]
           z == [p \in Files!Texts |-> <<>>]
           T == [A \in V |-> [p \in Files!Texts |-> Reach(p, A[Files!Front(p)], G)]]
<1>0. \A p \in Files!Texts : Files!Front(p) \in Files!Texts
  BY Splits
<1>1. z \in V /\ T \in [V -> V]
  <2>1. ASSUME NEW A \in V, NEW p \in Files!Texts PROVE Reach(p, A[Files!Front(p)], G) \in Files!Texts
    BY <1>0, ReachIsText
  <2> QED
    BY <2>1, TextsAre
<1>2. PICK f \in [Nat -> V] : f[0] = z /\ \A n \in Nat : f[n + 1] = T[f[n]]
  <2>1. \A S : \A s \in S : \A U \in [S -> S] : \E f \in [Nat -> S] : f[0] = s /\ \A n \in Nat : f[n + 1] = U[f[n]]
    BY ONLY Iterates
  <2> HIDE DEF V, z, T
  <2>3. \A s \in V : \A U \in [V -> V] : \E f \in [Nat -> V] : f[0] = s /\ \A n \in Nat : f[n + 1] = U[f[n]]
    BY ONLY <2>1
  <2> QED
    BY ONLY <1>1, <2>3
<1> DEFINE W == [p \in Files!Texts |-> f[Len(p)][p]]
<1>3. W \in [Files!Texts -> Files!Texts]
  <2>1. \A p \in Files!Texts : f[Len(p)] \in V
    BY Splits
  <2> QED
    BY <2>1
<1>4. ASSUME NEW p \in Files!Texts PROVE W[p] = Reach(p, W[Files!Front(p)], G)
  <2>1. CASE p = <<>>
    BY <2>1, <1>2, Splits DEF Reach
  <2>2. CASE p # <<>>
    <3>1. Len(p) - 1 \in Nat /\ Len(Files!Front(p)) = Len(p) - 1 /\ Files!Front(p) \in Files!Texts
      BY <2>2, Splits
    <3>2. f[Len(p)] = T[f[Len(p) - 1]]
      <4> HIDE DEF T
      <4> QED
        BY <3>1, <1>2
    <3>3. f[Len(p) - 1] \in V
      BY <3>1
    <3>4. f[Len(p)][p] = Reach(p, f[Len(p) - 1][Files!Front(p)], G)
      BY <3>2, <3>3
    <3> QED
      BY <3>1, <3>4
  <2> QED
    BY <2>1, <2>2
<1> QED
  BY <1>3, <1>4

\* Realpath is what its equation says: following each path name by name, as many links deep as may be.
LEMMA RealpathIs ==
  ASSUME FilesStand
  PROVE  \A p \in Files!Texts, h \in Files!Hops : Files!Realpath[<<p, h>>] = ReachIn(p, h, Files!Realpath)
<1> DEFINE V == [Files!Texts -> Files!Texts]
           z == [p \in Files!Texts |-> Files!Refused]
           Walk(G) == CHOOSE W \in V : \A p \in Files!Texts : W[p] = Reach(p, W[Files!Front(p)], G)
           T == [G \in V |-> Walk(G)]
           Given(f) == f = [c \in Files!Texts \X Files!Hops |-> ReachIn(c[1], c[2], f)]
<1>1. \A G \in V : Walk(G) \in V /\ \A p \in Files!Texts : Walk(G)[p] = Reach(p, Walk(G)[Files!Front(p)], G)
  BY Walks
<1>2. PICK f \in [Nat -> V] : f[0] = z /\ \A n \in Nat : f[n + 1] = T[f[n]]
  <2>1. z \in V /\ T \in [V -> V]
    BY <1>1, TextsAre
  <2>2. \A S : \A s \in S : \A U \in [S -> S] : \E f \in [Nat -> S] : f[0] = s /\ \A n \in Nat : f[n + 1] = U[f[n]]
    BY ONLY Iterates
  <2> HIDE DEF V, z, T
  <2>3. \A s \in V : \A U \in [V -> V] : \E f \in [Nat -> V] : f[0] = s /\ \A n \in Nat : f[n + 1] = U[f[n]]
    BY ONLY <2>2
  <2> QED
    BY ONLY <2>1, <2>3
<1> DEFINE g == [c \in Files!Texts \X Files!Hops |-> f[c[2] + 1][c[1]]]
<1>3. Given(g)
  <2>1. ASSUME NEW p \in Files!Texts, NEW h \in Files!Hops
        PROVE  f[h + 1][p] = ReachIn(p, h, g)
    <3>1. h \in Nat /\ MaxHops \in Nat
      BY FilesAssumption DEF Files!Hops
    <3>2. f[h] \in V /\ f[h + 1] = Walk(f[h]) /\ f[h + 1] \in V
      <4> HIDE DEF Walk, V
      <4>1. f[h] \in V /\ f[h + 1] \in V
        BY <3>1
      <4>2. f[h + 1] = T[f[h]]
        <5> HIDE DEF T
        <5> QED
          BY <3>1, <1>2
      <4> QED
        BY <4>1, <4>2
    <3> DEFINE dir == f[h + 1][Files!Front(p)]
               q == Append(dir, Files!Last(p))
               aim == Files!Aim(q, Files!At(q).link)
    <3>3. f[h + 1][p] = Reach(p, dir, f[h])
      BY <3>2, <1>1
    <3>4. dir \in Files!Texts
      BY <3>2, Splits
    <3>5. g[<<Files!Front(p), h>>] = dir
      BY Splits
    <3>6. p # <<>> /\ Files!At(q).kind = "link" => aim \in Files!Texts
      BY <3>4, Splits, EntriesAt
    <3>7. ASSUME p # <<>>, Files!At(q).kind = "link"
          PROVE  f[h][aim] = IF h = 0 THEN Files!Refused ELSE g[<<aim, h - 1>>]
      <4>1. CASE h = 0
        BY <4>1, <1>2, <3>6, <3>7
      <4>2. CASE h # 0
        <5>1. h - 1 \in Files!Hops /\ aim \in Files!Texts
          BY <3>1, <3>6, <3>7, <4>2 DEF Files!Hops
        <5>2. <<aim, h - 1>> \in Files!Texts \X Files!Hops
          BY <5>1
        <5>3. g[<<aim, h - 1>>] = f[h - 1 + 1][aim]
          <6> HIDE DEF aim
          <6> QED
            BY <5>2
        <5> QED
          BY <5>3, <4>2, <3>1
      <4> QED
        BY <4>1, <4>2
    <3> HIDE DEF g, dir
    <3> QED
      BY <3>3, <3>5, <3>7 DEF Reach, ReachIn
  <2> QED
    BY <2>1
<1>4. Files!Realpath = CHOOSE u : Given(u)
  BY DEF Files!Realpath, ReachIn
<1>5. Given(Files!Realpath)
  <2> HIDE DEF Given
  <2> QED
    BY <1>3, <1>4
<1> DEFINE r == Files!Realpath
<1>6. Given(r)
  BY <1>5
<1> HIDE DEF r
<1>7. \A p \in Files!Texts, h \in Files!Hops : r[<<p, h>>] = ReachIn(p, h, r)
  BY <1>6
<1> QED
  BY <1>7 DEF r

\* Where the kernel leads is a text, and from there it leads nowhere else.
Settles(p, h) ==
    LET q == Files!Realpath[<<p, h>>]
    IN  q \in Files!Texts /\ (q = Files!Refused \/ \A k \in Files!Hops : Files!Realpath[<<q, k>>] = q)

LEMMA RealpathSettles ==
  ASSUME FilesStand
  PROVE  \A p \in Files!Texts, h \in Files!Hops : Settles(p, h)
<1> DEFINE r == Files!Realpath
<1>1. \A p \in Files!Texts, h \in Files!Hops : r[<<p, h>>] = ReachIn(p, h, r)
  BY RealpathIs
<1>2. MaxHops \in Nat /\ Files!Hops = 0..MaxHops
  BY FilesAssumption DEF Files!Hops
<1>3. ASSUME NEW p \in Files!Texts, NEW h \in Files!Hops,
             p # <<>> => Settles(Files!Front(p), h), h # 0 => \A q \in Files!Texts : Settles(q, h - 1)
      PROVE  Settles(p, h)
  <2> DEFINE dir == r[<<Files!Front(p), h>>]
             q == Append(dir, Files!Last(p))
             aim == Files!Aim(q, Files!At(q).link)
             end == r[<<p, h>>]
  <2>1. end = IF p = <<>> THEN p
              ELSE IF dir = Files!Refused \/ Files!At(dir).kind # "folder" \/ Files!At(q).kind = "none" THEN Files!Refused
              ELSE IF Files!At(q).kind # "link" THEN q
              ELSE IF h = 0 THEN Files!Refused
              ELSE r[<<aim, h - 1>>]
    <3> HIDE DEF r
    <3> QED
      BY <1>1 DEF ReachIn
  <2> HIDE DEF r
  <2>2. Settles(p, h) <=> end \in Files!Texts /\ (end = Files!Refused \/ \A k \in Files!Hops : r[<<end, k>>] = end)
    BY DEF Settles, r
  <2>3. CASE p = <<>>
    <3>1. \A k \in Files!Hops : r[<<p, k>>] = p
      BY <1>1, <2>3 DEF ReachIn
    <3> QED
      BY <2>1, <2>2, <2>3, <3>1
  <2>4. CASE end = Files!Refused
    BY <2>2, <2>4, TextsAre
  <2>5. CASE p # <<>> /\ end = q /\ dir # Files!Refused /\ Files!At(dir).kind = "folder"
             /\ Files!At(q).kind \notin {"none", "link"}
    <3>1. dir \in Files!Texts /\ \A k \in Files!Hops : r[<<dir, k>>] = dir
      BY <1>3, <2>5 DEF Settles, r
    <3>2. Files!Last(p) \in Files!Names
      BY <2>5, Splits
    <3>3. q \in Files!Texts /\ q # <<>> /\ Files!Front(q) = dir /\ Append(dir, Files!Last(q)) = q
      <4> HIDE DEF dir
      <4> QED
        BY <3>1, <3>2, Splits
    <3>4. ASSUME NEW k \in Files!Hops PROVE r[<<q, k>>] = q
      <4>1. r[<<q, k>>] = ReachIn(q, k, r)
        BY <1>1, <3>3
      <4>2. r[<<Files!Front(q), k>>] = dir
        BY <3>1, <3>3
      <4> HIDE DEF dir, q
      <4> QED
        BY <4>1, <4>2, <3>3, <2>5 DEF ReachIn
    <3> HIDE DEF end, q
    <3> QED
      BY <2>2, <2>5, <3>3, <3>4
  <2>6. CASE end = r[<<aim, h - 1>>] /\ h # 0 /\ p # <<>> /\ Files!At(q).kind = "link"
    <3>1. dir \in Files!Texts
      BY <1>3, <2>6 DEF Settles, r
    <3>2. q \in Files!Texts
      <4> HIDE DEF dir
      <4> QED
        BY <3>1, <2>6, Splits
    <3>3. aim \in Files!Texts
      <4> HIDE DEF q
      <4> QED
        BY <3>2, <2>6, EntriesAt
    <3>4. Settles(aim, h - 1)
      BY <1>3, <3>3, <2>6
    <3> HIDE DEF end, aim, q
    <3> QED
      BY <3>4, <2>2, <2>6 DEF Settles, r
  <2> HIDE DEF end, q, dir, aim
  <2> QED
    BY <2>1, <2>3, <2>4, <2>5, <2>6
<1> HIDE DEF r
<1>4. ASSUME NEW h \in Files!Hops, h # 0 => \A q \in Files!Texts : Settles(q, h - 1)
      PROVE  \A p \in Files!Texts : Settles(p, h)
  <2> DEFINE Short == {n \in Nat : \A p \in Files!Texts : Len(p) = n => Settles(p, h)}
  <2>1. 0 \in Short
    BY <1>3, <1>4, Splits
  <2>2. ASSUME NEW n \in Nat, n \in Short PROVE n + 1 \in Short
    <3> SUFFICES ASSUME NEW p \in Files!Texts, Len(p) = n + 1 PROVE Settles(p, h)
      OBVIOUS
    <3>1. Files!Front(p) \in Files!Texts /\ Len(Files!Front(p)) = n
      BY Splits
    <3> QED
      BY <3>1, <2>2, <1>3, <1>4
  <2>3. \A n \in Nat : n \in Short
    <3> HIDE DEF Short
    <3> QED
      BY <2>1, <2>2, Induction
  <2> QED
    BY <2>3, Splits
<1>5. \A h \in Nat : h \in {k \in Nat : k \in Files!Hops => \A p \in Files!Texts : Settles(p, k)}
  <2> DEFINE Deep == {k \in Nat : k \in Files!Hops => \A p \in Files!Texts : Settles(p, k)}
  <2>1. 0 \in Deep
    BY <1>2, <1>4
  <2>2. ASSUME NEW k \in Nat, k \in Deep PROVE k + 1 \in Deep
    <3> SUFFICES ASSUME k + 1 \in Files!Hops PROVE \A p \in Files!Texts : Settles(p, k + 1)
      OBVIOUS
    <3>1. k \in Files!Hops /\ k + 1 - 1 = k
      BY <1>2
    <3>2. \A p \in Files!Texts : Settles(p, k + 1 - 1)
      BY <2>2, <3>1
    <3> QED
      BY <3>2, <1>4
  <2> HIDE DEF Deep
  <2>3. \A k \in Nat : k \in Deep
    BY <2>1, <2>2, Induction
  <2> QED
    BY <2>3 DEF Deep
<1> QED
  BY <1>2, <1>5

\* The same of the kernel's realpath: where it leads, and that a path through nothing leads to nothing.
LEMMA Reals ==
  ASSUME FilesStand
  PROVE  /\ Files!Real(<<>>) = <<>>
         /\ \A p \in Files!Texts :
              /\ Files!Real(p) \in Files!Texts
              /\ Files!Real(p) # Files!Refused => Files!Real(Files!Real(p)) = Files!Real(p)
              /\ p # <<>> /\ Files!Real(Files!Front(p)) = Files!Refused => Files!Real(p) = Files!Refused
<1>1. MaxHops \in Files!Hops
  BY FilesAssumption DEF Files!Hops
<1>2. \A p \in Files!Texts : Files!Real(p) = ReachIn(p, MaxHops, Files!Realpath)
  BY <1>1, RealpathIs DEF Files!Real
<1>3. Files!Real(<<>>) = <<>>
  BY <1>2, TextsAre DEF ReachIn
<1>4. \A p \in Files!Texts : /\ Files!Real(p) \in Files!Texts
                             /\ Files!Real(p) # Files!Refused => Files!Real(Files!Real(p)) = Files!Real(p)
  BY <1>1, RealpathSettles DEF Settles, Files!Real
<1>5. \A p \in Files!Texts : p # <<>> /\ Files!Real(Files!Front(p)) = Files!Refused => Files!Real(p) = Files!Refused
  BY <1>2 DEF ReachIn, Files!Real
<1> QED
  BY <1>3, <1>4, <1>5

\* The prefixes of a text are texts, and theirs are its own.
LEMMA Prefixes ==
  ASSUME NEW p \in Files!Texts, NEW m \in 0..Len(p)
  PROVE  /\ SubSeq(p, 1, m) \in Files!Texts /\ Len(SubSeq(p, 1, m)) = m
         /\ SubSeq(p, 1, Len(p)) = p
         /\ \A k \in 0..m : SubSeq(SubSeq(p, 1, m), 1, k) = SubSeq(p, 1, k)
         /\ m # 0 => SubSeq(p, 1, m) # <<>> /\ Files!Front(SubSeq(p, 1, m)) = SubSeq(p, 1, m - 1)
<1>1. p \in Seq(Files!Names) /\ Len(p) \in Nat
  BY DEF Files!Texts
<1> HIDE DEF Files!Names
<1> DEFINE s == SubSeq(p, 1, m)
<1>2. s \in Seq(Files!Names) /\ Len(s) = m /\ \A n \in 1..m : s[n] = p[n]
  BY <1>1
<1>3. SubSeq(p, 1, Len(p)) = p
  <2> DEFINE a == SubSeq(p, 1, Len(p))
  <2>1. a \in Seq(Files!Names) /\ Len(a) = Len(p) /\ \A n \in 1..Len(a) : a[n] = p[n]
    BY <1>1
  <2> HIDE DEF a
  <2>2. a = p
    BY <2>1, <1>1, SeqEqual
  <2> QED
    BY <2>2 DEF a
<1> HIDE DEF s
<1>4. ASSUME NEW k \in 0..m PROVE SubSeq(s, 1, k) = SubSeq(p, 1, k)
  <2> DEFINE a == SubSeq(s, 1, k)
             b == SubSeq(p, 1, k)
  <2>2. a \in Seq(Files!Names) /\ Len(a) = k /\ \A n \in 1..k : a[n] = s[n]
    BY <1>2
  <2>3. b \in Seq(Files!Names) /\ Len(b) = k /\ \A n \in 1..k : b[n] = p[n]
    BY <1>1
  <2> HIDE DEF a, b
  <2>4. \A n \in 1..Len(a) : a[n] = b[n]
    BY <1>2, <2>2, <2>3
  <2>5. a = b
    BY <2>4, <2>2, <2>3, SeqEqual
  <2> QED
    BY <2>5 DEF a, b
<1>5. m # 0 => s # <<>> /\ Files!Front(s) = SubSeq(p, 1, m - 1)
  <2> SUFFICES ASSUME m # 0 PROVE s # <<>> /\ Files!Front(s) = SubSeq(p, 1, m - 1)
    OBVIOUS
  <2>1. SubSeq(s, 1, m - 1) = SubSeq(p, 1, m - 1)
    BY <1>1, <1>4
  <2> QED
    BY <2>1, <1>2 DEF Files!Front
<1>6. s \in Files!Texts
  BY <1>2 DEF Files!Texts
<1> QED
  BY <1>2, <1>3, <1>4, <1>5, <1>6 DEF s

\* Past the first name that leads to nothing, nothing is led to.
LEMMA NothingBeyond ==
  ASSUME FilesStand, NEW p \in Files!Texts, NEW i \in 0..Len(p), NEW j \in 0..Len(p), i <= j,
         Files!Real(SubSeq(p, 1, i)) = Files!Refused
  PROVE  Files!Real(SubSeq(p, 1, j)) = Files!Refused
<1>1. Len(p) \in Nat
  BY Splits
<1>2. ASSUME NEW k \in 0..Len(p), k + 1 <= Len(p)
      PROVE  /\ SubSeq(p, 1, k + 1) \in Files!Texts /\ SubSeq(p, 1, k + 1) # <<>>
             /\ Files!Front(SubSeq(p, 1, k + 1)) = SubSeq(p, 1, k)
  <2>1. k + 1 \in 0..Len(p) /\ k + 1 # 0 /\ k + 1 - 1 = k
    BY <1>1, <1>2
  <2>2. \A m \in 0..Len(p) : /\ SubSeq(p, 1, m) \in Files!Texts
                             /\ m # 0 => SubSeq(p, 1, m) # <<>> /\ Files!Front(SubSeq(p, 1, m)) = SubSeq(p, 1, m - 1)
    BY Prefixes
  <2> DEFINE m == k + 1
  <2>3. SubSeq(p, 1, m) \in Files!Texts /\ SubSeq(p, 1, m) # <<>> /\ Files!Front(SubSeq(p, 1, m)) = SubSeq(p, 1, m - 1)
    <3> HIDE DEF m
    <3> QED
      BY <2>1, <2>2 DEF m
  <2> QED
    BY <2>1, <2>3
<1> DEFINE Past == {k \in Nat : k \in i..Len(p) => Files!Real(SubSeq(p, 1, k)) = Files!Refused}
<1>3. 0 \in Past
  OBVIOUS
<1>4. ASSUME NEW k \in Nat, k \in Past PROVE k + 1 \in Past
  <2> SUFFICES ASSUME k + 1 \in i..Len(p) PROVE Files!Real(SubSeq(p, 1, k + 1)) = Files!Refused
    OBVIOUS
  <2>1. CASE k + 1 = i
    BY <2>1
  <2>2. CASE k + 1 # i
    <3>1. k \in i..Len(p) /\ k \in 0..Len(p) /\ k + 1 <= Len(p)
      BY <1>1, <2>2
    <3>2. Files!Real(SubSeq(p, 1, k)) = Files!Refused
      BY <3>1, <1>4
    <3> QED
      BY <3>1, <3>2, <1>2, Reals
  <2> QED
    BY <2>1, <2>2
<1>5. j \in Past
  <2> HIDE DEF Past
  <2> QED
    BY <1>1, <1>3, <1>4, Induction
<1> QED
  BY <1>1, <1>5

\* The nearest folder that exists is where the longest prefix that leads anywhere leads.
LongestReal(p, end) ==
    \E i \in 0..Len(p) : /\ end = Files!Real(SubSeq(p, 1, i)) /\ end # Files!Refused
                         /\ i = Len(p) \/ Files!Real(SubSeq(p, 1, i + 1)) = Files!Refused

LEMMA NearestIs ==
  ASSUME FilesStand
  PROVE  \A p \in Files!Texts :
           Files!NearestExistingAncestor[p] =
             IF Files!Real(p) # Files!Refused THEN Files!Real(p)
             ELSE IF ~Files!Inside(Files!Front(p)) THEN Files!Refused
             ELSE Files!NearestExistingAncestor[Files!Front(p)]
<1> DEFINE V == [Files!Texts -> Files!Texts]
           z == [p \in Files!Texts |-> <<>>]
           Up(p, A) == IF Files!Real(p) # Files!Refused THEN Files!Real(p)
                       ELSE IF ~Files!Inside(Files!Front(p)) THEN Files!Refused
                       ELSE A[Files!Front(p)]
           T == [A \in V |-> [p \in Files!Texts |-> Up(p, A)]]
           Given(f) == f = [p \in Files!Texts |-> Up(p, f)]
<1>1. z \in V /\ T \in [V -> V]
  <2>1. ASSUME NEW A \in V, NEW p \in Files!Texts PROVE Up(p, A) \in Files!Texts
    BY Splits, Reals, TextsAre
  <2> HIDE DEF Up
  <2> QED
    BY <2>1, TextsAre
<1>2. PICK f \in [Nat -> V] : f[0] = z /\ \A n \in Nat : f[n + 1] = T[f[n]]
  <2>2. \A S : \A s \in S : \A U \in [S -> S] : \E f \in [Nat -> S] : f[0] = s /\ \A n \in Nat : f[n + 1] = U[f[n]]
    BY ONLY Iterates
  <2> HIDE DEF V, z, T
  <2>3. \A s \in V : \A U \in [V -> V] : \E f \in [Nat -> V] : f[0] = s /\ \A n \in Nat : f[n + 1] = U[f[n]]
    BY ONLY <2>2
  <2> QED
    BY ONLY <1>1, <2>3
<1> DEFINE g == [p \in Files!Texts |-> f[Len(p)][p]]
<1>3. Given(g)
  <2>1. ASSUME NEW p \in Files!Texts PROVE f[Len(p)][p] = Up(p, g)
    <3>1. CASE p = <<>>
      BY <3>1, <1>2, Splits, Reals, TextsAre
    <3>2. CASE p # <<>>
      <4>1. Len(p) - 1 \in Nat /\ Len(Files!Front(p)) = Len(p) - 1 /\ Files!Front(p) \in Files!Texts
        BY <3>2, Splits
      <4>2. f[Len(p)] = T[f[Len(p) - 1]]
        <5> HIDE DEF T
        <5> QED
          BY <4>1, <1>2
      <4>3. f[Len(p) - 1] \in V
        BY <4>1
      <4>4. f[Len(p)][p] = Up(p, f[Len(p) - 1])
        <5> HIDE DEF Up
        <5> QED
          BY <4>2, <4>3
      <4>5. g[Files!Front(p)] = f[Len(p) - 1][Files!Front(p)]
        BY <4>1
      <4> HIDE DEF g
      <4> QED
        BY <4>4, <4>5
    <3> QED
      BY <3>1, <3>2
  <2> HIDE DEF Up
  <2> QED
    BY <2>1
<1>4. Files!NearestExistingAncestor = CHOOSE r : Given(r)
  BY DEF Files!NearestExistingAncestor
<1>5. Given(Files!NearestExistingAncestor)
  <2> HIDE DEF Given
  <2> QED
    BY <1>3, <1>4
<1> DEFINE r == Files!NearestExistingAncestor
<1>6. Given(r)
  BY <1>5
<1> HIDE DEF r
<1>7. \A p \in Files!Texts : r[p] = Up(p, r)
  <2> HIDE DEF Up
  <2> QED
    BY <1>6
<1> QED
  BY <1>7 DEF r

LEMMA NearestIsLongest ==
  ASSUME FilesStand
  PROVE  \A p \in Files!Texts :
           \/ Files!NearestExistingAncestor[p] = Files!Refused
           \/ LongestReal(p, Files!NearestExistingAncestor[p])
<1> DEFINE r == Files!NearestExistingAncestor
<1>1. \A p \in Files!Texts : r[p] = IF Files!Real(p) # Files!Refused THEN Files!Real(p)
                                    ELSE IF ~Files!Inside(Files!Front(p)) THEN Files!Refused
                                    ELSE r[Files!Front(p)]
  BY NearestIs
<1> HIDE DEF r
<1> DEFINE Good == {n \in Nat : \A p \in Files!Texts : Len(p) = n => r[p] = Files!Refused \/ LongestReal(p, r[p])}
<1>2. ASSUME NEW p \in Files!Texts, Files!Real(p) # Files!Refused PROVE LongestReal(p, r[p])
  <2>1. Len(p) \in 0..Len(p) /\ SubSeq(p, 1, Len(p)) = p
    BY Splits, Prefixes
  <2> QED
    BY <2>1, <1>1, <1>2 DEF LongestReal
<1>3. 0 \in Good
  <2> SUFFICES ASSUME NEW p \in Files!Texts, Len(p) = 0 PROVE LongestReal(p, r[p])
    OBVIOUS
  <2>1. p = <<>>
    BY Splits
  <2> QED
    BY <2>1, <1>2, Reals, TextsAre
<1>4. ASSUME NEW n \in Nat, n \in Good PROVE n + 1 \in Good
  <2> SUFFICES ASSUME NEW p \in Files!Texts, Len(p) = n + 1, Files!Real(p) = Files!Refused, r[p] # Files!Refused
               PROVE  LongestReal(p, r[p])
    BY <1>2
  <2> DEFINE q == Files!Front(p)
  <2>1. q \in Files!Texts /\ Len(q) = n /\ q = SubSeq(p, 1, n)
    <3>1. p # <<>> /\ Len(p) - 1 = n
      OBVIOUS
    <3>2. q \in Files!Texts /\ Len(q) = n
      BY <3>1, Splits
    <3> QED
      BY <3>1, <3>2 DEF Files!Front
  <2>2. r[p] = r[q]
    BY <1>1
  <2>3. LongestReal(q, r[q])
    BY <2>1, <2>2, <1>4
  <2>4. PICK i \in 0..n : /\ r[q] = Files!Real(SubSeq(q, 1, i)) /\ r[q] # Files!Refused
                          /\ i = n \/ Files!Real(SubSeq(q, 1, i + 1)) = Files!Refused
    BY <2>1, <2>3 DEF LongestReal
  <2>5. \A k \in 0..n : SubSeq(q, 1, k) = SubSeq(p, 1, k)
    <3>1. n \in 0..Len(p)
      OBVIOUS
    <3> HIDE DEF q
    <3> QED
      BY <3>1, <2>1, Prefixes
  <2> HIDE DEF q
  <2>6. SubSeq(p, 1, n + 1) = p
    <3>1. n \in 0..Len(p)
      OBVIOUS
    <3> QED
      BY <3>1, Prefixes
  <2>7. Files!Real(SubSeq(p, 1, i + 1)) = Files!Refused
    <3>1. CASE i = n
      BY <3>1, <2>6
    <3>2. CASE i # n
      <4>1. i + 1 \in 0..n
        BY <3>2
      <4>2. SubSeq(q, 1, i + 1) = SubSeq(p, 1, i + 1)
        BY <4>1, <2>5
      <4> QED
        BY <3>2, <2>4, <4>2
    <3> QED
      BY <3>1, <3>2
  <2>8. r[p] = Files!Real(SubSeq(p, 1, i)) /\ i \in 0..Len(p)
    <3>1. SubSeq(q, 1, i) = SubSeq(p, 1, i)
      BY <2>5
    <3>2. i \in 0..Len(p)
      OBVIOUS
    <3> QED
      BY ONLY <2>2, <2>4, <3>1, <3>2
  <2> QED
    BY <2>4, <2>2, <2>7, <2>8 DEF LongestReal
<1>5. \A n \in Nat : n \in Good
  <2> HIDE DEF Good
  <2> QED
    BY <1>3, <1>4, Induction
<1> QED
  BY <1>5, Splits DEF r

\* Lands is what its equation says, one link after the other.
LandsIn(p, h, f) ==
    LET dir == Files!Real(Files!Front(p))
        q == Append(dir, Files!Last(p))
    IN  IF p = <<>> \/ dir = Files!Refused \/ Files!At(dir).kind # "folder" \/ Files!At(q).kind = "folder"
        THEN Files!Refused
        ELSE IF Files!At(q).kind # "link" THEN q
        ELSE IF h = 0 THEN Files!Refused
        ELSE f[<<Files!Aim(q, Files!At(q).link), h - 1>>]

LEMMA LandsIs ==
  ASSUME FilesStand
  PROVE  \A p \in Files!Texts, h \in Files!Hops : Files!Lands[<<p, h>>] = LandsIn(p, h, Files!Lands)
<1> DEFINE V == [Files!Texts -> Files!Texts]
           z == [p \in Files!Texts |-> Files!Refused]
           End(p, G) ==
             LET dir == Files!Real(Files!Front(p))
                 q == Append(dir, Files!Last(p))
             IN  IF p = <<>> \/ dir = Files!Refused \/ Files!At(dir).kind # "folder" \/ Files!At(q).kind = "folder"
                 THEN Files!Refused
                 ELSE IF Files!At(q).kind # "link" THEN q ELSE G[Files!Aim(q, Files!At(q).link)]
           T == [G \in V |-> [p \in Files!Texts |-> End(p, G)]]
           Given(f) == f = [c \in Files!Texts \X Files!Hops |-> LandsIn(c[1], c[2], f)]
<1>1. \A p \in Files!Texts : p # <<>> => Append(Files!Real(Files!Front(p)), Files!Last(p)) \in Files!Texts
  <2> TAKE p \in Files!Texts
  <2> DEFINE dir == Files!Real(Files!Front(p))
  <2>1. dir \in Files!Texts /\ (p # <<>> => Files!Last(p) \in Files!Names)
    BY Splits, Reals
  <2> HIDE DEF dir
  <2>2. p # <<>> => Append(dir, Files!Last(p)) \in Files!Texts
    BY <2>1, Splits
  <2> QED
    BY <2>2 DEF dir
<1>2. z \in V /\ T \in [V -> V]
  <2>1. ASSUME NEW G \in V, NEW p \in Files!Texts PROVE End(p, G) \in Files!Texts
    <3> DEFINE q == Append(Files!Real(Files!Front(p)), Files!Last(p))
               aim == Files!Aim(q, Files!At(q).link)
    <3>1. p # <<>> => q \in Files!Texts
      BY <1>1
    <3>2. p # <<>> /\ Files!At(q).kind = "link" => aim \in Files!Texts
      <4> HIDE DEF q
      <4> QED
        BY <3>1, EntriesAt
    <3>3. End(p, G) \in {Files!Refused, q, G[aim]} /\ (p = <<>> => End(p, G) = Files!Refused)
          /\ (End(p, G) = G[aim] \/ End(p, G) = q \/ End(p, G) = Files!Refused)
          /\ (Files!At(q).kind # "link" => End(p, G) \in {Files!Refused, q})
      OBVIOUS
    <3> HIDE DEF End, q, aim
    <3> QED
      BY <3>1, <3>2, <3>3, TextsAre
  <2> HIDE DEF End
  <2> QED
    BY <2>1, TextsAre
<1>3. PICK f \in [Nat -> V] : f[0] = z /\ \A n \in Nat : f[n + 1] = T[f[n]]
  <2>2. \A S : \A s \in S : \A U \in [S -> S] : \E f \in [Nat -> S] : f[0] = s /\ \A n \in Nat : f[n + 1] = U[f[n]]
    BY ONLY Iterates
  <2> HIDE DEF V, z, T
  <2>3. \A s \in V : \A U \in [V -> V] : \E f \in [Nat -> V] : f[0] = s /\ \A n \in Nat : f[n + 1] = U[f[n]]
    BY ONLY <2>2
  <2> QED
    BY ONLY <1>2, <2>3
<1> DEFINE g == [c \in Files!Texts \X Files!Hops |-> f[c[2] + 1][c[1]]]
<1>4. Given(g)
  <2>1. ASSUME NEW p \in Files!Texts, NEW h \in Files!Hops PROVE f[h + 1][p] = LandsIn(p, h, g)
    <3>1. h \in Nat /\ MaxHops \in Nat
      BY FilesAssumption DEF Files!Hops
    <3>2. f[h + 1][p] = End(p, f[h])
      <4> HIDE DEF End
      <4>1. f[h] \in V
        BY <3>1
      <4>2. f[h + 1] = T[f[h]]
        <5> HIDE DEF T
        <5> QED
          BY <3>1, <1>3
      <4> QED
        BY <4>1, <4>2
    <3> DEFINE q == Append(Files!Real(Files!Front(p)), Files!Last(p))
               aim == Files!Aim(q, Files!At(q).link)
    <3>3. p # <<>> /\ Files!At(q).kind = "link" => aim \in Files!Texts
      <4>1. p # <<>> => q \in Files!Texts
        BY <1>1
      <4> HIDE DEF q
      <4> QED
        BY <4>1, EntriesAt
    <3>4. ASSUME p # <<>>, Files!At(q).kind = "link"
          PROVE  f[h][aim] = IF h = 0 THEN Files!Refused ELSE g[<<aim, h - 1>>]
      <4>1. CASE h = 0
        BY <4>1, <1>3, <3>3, <3>4
      <4>2. CASE h # 0
        <5>1. h - 1 \in Files!Hops /\ aim \in Files!Texts
          BY <3>1, <3>3, <3>4, <4>2 DEF Files!Hops
        <5>2. <<aim, h - 1>> \in Files!Texts \X Files!Hops
          BY <5>1
        <5>3. g[<<aim, h - 1>>] = f[h - 1 + 1][aim]
          <6> HIDE DEF aim
          <6> QED
            BY <5>2
        <5> QED
          BY <5>3, <4>2, <3>1
      <4> QED
        BY <4>1, <4>2
    <3> HIDE DEF g
    <3> QED
      BY <3>2, <3>4 DEF LandsIn
  <2> QED
    BY <2>1
<1>5. Files!Lands = CHOOSE u : Given(u)
  BY DEF Files!Lands, LandsIn
<1>6. Given(Files!Lands)
  <2> HIDE DEF Given
  <2> QED
    BY <1>4, <1>5
<1> DEFINE r == Files!Lands
<1>7. Given(r)
  BY <1>6
<1> HIDE DEF r
<1>8. \A p \in Files!Texts, h \in Files!Hops : r[<<p, h>>] = LandsIn(p, h, r)
  BY <1>7
<1> QED
  BY <1>8 DEF r

\* A link found by lstat leads to a text.
LEMMA LinksAim ==
  ASSUME FilesStand, NEW p \in Files!Texts, Files!Lstat(p).kind = "link"
  PROVE  Files!Aim(p, Files!Lstat(p).link) \in Files!Texts
<1> DEFINE dir == Files!Real(Files!Front(p))
           q == Append(dir, Files!Last(p))
<1>1. p # <<>> /\ Files!Lstat(p) = Files!At(q)
  BY DEF Files!Lstat, Files!Nothing
<1>2. dir \in Files!Texts /\ Files!Last(p) \in Files!Names
  BY <1>1, Splits, Reals
<1>3. q \in Files!Texts
  <2> HIDE DEF dir
  <2> QED
    BY <1>2, Splits
<1> HIDE DEF q
<1> QED
  BY <1>1, <1>3, EntriesAt

\* WriteDestination is what its equation says, one link after the other.
LEMMA DestinationIs ==
  ASSUME FilesStand
  PROVE  \A p \in Files!Texts, hop \in 0..(MaxHops + 1) :
           Files!WriteDestination[<<p, hop>>] =
             IF hop > MaxHops THEN Files!Refused
             ELSE IF Files!Lstat(p).kind # "link" THEN p
             ELSE Files!WriteDestination[<<Files!Aim(p, Files!Lstat(p).link), hop + 1>>]
<1> DEFINE V == [Files!Texts -> Files!Texts]
           z == [p \in Files!Texts |-> Files!Refused]
           aim(p) == Files!Aim(p, Files!Lstat(p).link)
           End(p, G) == IF Files!Lstat(p).kind # "link" THEN p ELSE G[aim(p)]
           In(p, hop, f) == IF hop > MaxHops THEN Files!Refused
                            ELSE IF Files!Lstat(p).kind # "link" THEN p
                            ELSE f[<<aim(p), hop + 1>>]
           T == [G \in V |-> [p \in Files!Texts |-> End(p, G)]]
           Given(f) == f = [c \in Files!Texts \X (0..(MaxHops + 1)) |-> In(c[1], c[2], f)]
<1>1. MaxHops \in Nat
  BY FilesAssumption
<1>2. ASSUME NEW p \in Files!Texts, Files!Lstat(p).kind = "link" PROVE aim(p) \in Files!Texts
  BY <1>2, LinksAim
<1> HIDE DEF aim
<1>3. z \in V /\ T \in [V -> V]
  <2>1. \A G \in V, p \in Files!Texts : End(p, G) \in Files!Texts
    BY <1>2
  <2> HIDE DEF End
  <2> QED
    BY <2>1, TextsAre
<1>4. PICK f \in [Nat -> V] : f[0] = z /\ \A n \in Nat : f[n + 1] = T[f[n]]
  <2>2. \A S : \A s \in S : \A U \in [S -> S] : \E f \in [Nat -> S] : f[0] = s /\ \A n \in Nat : f[n + 1] = U[f[n]]
    BY ONLY Iterates
  <2> HIDE DEF V, z, T
  <2>3. \A s \in V : \A U \in [V -> V] : \E f \in [Nat -> V] : f[0] = s /\ \A n \in Nat : f[n + 1] = U[f[n]]
    BY ONLY <2>2
  <2> QED
    BY ONLY <1>3, <2>3
<1> DEFINE g == [c \in Files!Texts \X (0..(MaxHops + 1)) |-> f[MaxHops + 1 - c[2]][c[1]]]
<1>5. Given(g)
  <2>1. ASSUME NEW p \in Files!Texts, NEW hop \in 0..(MaxHops + 1)
        PROVE  f[MaxHops + 1 - hop][p] = In(p, hop, g)
    <3>1. CASE hop > MaxHops
      <4>1. MaxHops + 1 - hop = 0
        BY <1>1, <3>1
      <4> QED
        BY <4>1, <1>1, <1>4, <3>1
    <3>2. CASE hop <= MaxHops
      <4> DEFINE n == MaxHops - hop
      <4>1. n \in Nat /\ MaxHops + 1 - hop = n + 1 /\ MaxHops + 1 - (hop + 1) = n /\ hop + 1 \in 0..(MaxHops + 1)
        BY <1>1, <3>2
      <4> HIDE DEF n
      <4>2. f[n + 1][p] = End(p, f[n])
        <5> HIDE DEF End
        <5>1. f[n] \in V
          BY <4>1
        <5>2. f[n + 1] = T[f[n]]
          <6> HIDE DEF T
          <6> QED
            BY <4>1, <1>4
        <5> QED
          BY <5>1, <5>2
      <4>3. ASSUME Files!Lstat(p).kind = "link" PROVE g[<<aim(p), hop + 1>>] = f[n][aim(p)]
        BY <4>1, <4>3, <1>2
      <4> HIDE DEF g
      <4> QED
        BY <4>1, <4>2, <4>3, <3>2, <1>1
    <3> QED
      BY <3>1, <3>2, <1>1
  <2> HIDE DEF In
  <2> QED
    BY <2>1
<1>6. Files!WriteDestination = CHOOSE u : Given(u)
  BY DEF Files!WriteDestination, aim
<1>7. Given(Files!WriteDestination)
  <2> HIDE DEF Given
  <2> QED
    BY <1>5, <1>6
<1> DEFINE r == Files!WriteDestination
<1>8. Given(r)
  BY <1>7
<1> HIDE DEF r
<1>9. \A p \in Files!Texts, hop \in 0..(MaxHops + 1) : r[<<p, hop>>] = In(p, hop, r)
  <2> HIDE DEF In
  <2> QED
    BY <1>8
<1>10. \A p \in Files!Texts : aim(p) = Files!Aim(p, Files!Lstat(p).link)
  BY DEF aim
<1> QED
  BY <1>9, <1>10 DEF r

\* Where a chain of links ends, nothing is a link any more.
LEMMA DestinationIsNoLink ==
  ASSUME FilesStand
  PROVE  \A p \in Files!Texts, hop \in 0..(MaxHops + 1) :
           LET end == Files!WriteDestination[<<p, hop>>]
           IN  end = Files!Refused \/ (end \in Files!Texts /\ Files!Lstat(end).kind # "link")
<1> DEFINE r == Files!WriteDestination
           Ends(end) == end = Files!Refused \/ (end \in Files!Texts /\ Files!Lstat(end).kind # "link")
           Done == {n \in Nat : \A p \in Files!Texts, hop \in 0..(MaxHops + 1) :
                                  hop + n = MaxHops + 1 => Ends(r[<<p, hop>>])}
<1>1. MaxHops \in Nat
  BY FilesAssumption
<1>2. \A p \in Files!Texts, hop \in 0..(MaxHops + 1) :
        r[<<p, hop>>] = IF hop > MaxHops THEN Files!Refused
                        ELSE IF Files!Lstat(p).kind # "link" THEN p
                        ELSE r[<<Files!Aim(p, Files!Lstat(p).link), hop + 1>>]
  BY DestinationIs
<1> HIDE DEF r
<1>3. 0 \in Done
  <2> SUFFICES ASSUME NEW p \in Files!Texts, NEW hop \in 0..(MaxHops + 1), hop + 0 = MaxHops + 1
               PROVE  Ends(r[<<p, hop>>])
    OBVIOUS
  <2>1. hop > MaxHops
    BY <1>1
  <2> QED
    BY <1>2, <2>1
<1>4. ASSUME NEW n \in Nat, n \in Done PROVE n + 1 \in Done
  <2> SUFFICES ASSUME NEW p \in Files!Texts, NEW hop \in 0..(MaxHops + 1), hop + (n + 1) = MaxHops + 1
               PROVE  Ends(r[<<p, hop>>])
    OBVIOUS
  <2> DEFINE aim == Files!Aim(p, Files!Lstat(p).link)
  <2>1. hop <= MaxHops /\ hop + 1 \in 0..(MaxHops + 1) /\ hop + 1 + n = MaxHops + 1
    BY <1>1
  <2>2. CASE Files!Lstat(p).kind # "link"
    BY <1>1, <1>2, <2>1, <2>2
  <2>3. CASE Files!Lstat(p).kind = "link"
    <3>1. r[<<p, hop>>] = r[<<aim, hop + 1>>]
      BY <1>1, <1>2, <2>1, <2>3
    <3>2. aim \in Files!Texts
      BY <2>3, LinksAim
    <3>3. Ends(r[<<aim, hop + 1>>])
      <4> HIDE DEF aim, Ends
      <4> QED
        BY <3>2, <2>1, <1>4
    <3> QED
      BY <3>1, <3>3
  <2> QED
    BY <2>2, <2>3
<1>5. \A n \in Nat : n \in Done
  <2> HIDE DEF Done
  <2> QED
    BY <1>3, <1>4, Induction
<1>6. ASSUME NEW p \in Files!Texts, NEW hop \in 0..(MaxHops + 1) PROVE Ends(r[<<p, hop>>])
  <2>1. MaxHops + 1 - hop \in Nat /\ hop + (MaxHops + 1 - hop) = MaxHops + 1
    BY <1>1
  <2> HIDE DEF Ends
  <2> QED
    BY <2>1, <1>5
<1> QED
  BY <1>6 DEF r

\* What is under a folder inside the workspace is inside it.
LEMMA InsideBelow ==
  ASSUME NEW p \in Files!Texts, Files!Inside(p)
  PROVE  /\ \A rest \in Files!Texts : p \o rest \in Files!Texts /\ Files!Inside(p \o rest)
         /\ \A x \in Files!Names : Files!Inside(Append(p, x))
<1>1. ASSUME NEW s \in Files!Texts, Len(p) <= Len(s), SubSeq(s, 1, Len(p)) = p PROVE Files!Inside(s)
  <2>1. Len(p) \in 0..Len(s) /\ Len(Root) \in 0..Len(p) /\ Len(s) \in Nat /\ SubSeq(p, 1, Len(Root)) = Root
    BY <1>1, Splits, TextsAre DEF Files!Inside
  <2>2. SubSeq(SubSeq(s, 1, Len(p)), 1, Len(Root)) = SubSeq(s, 1, Len(Root))
    BY <2>1, Prefixes
  <2> QED
    BY <2>1, <2>2, <1>1 DEF Files!Inside
<1>2. p \in Seq(Files!Names) /\ Len(p) \in Nat
  BY DEF Files!Texts
<1>3. ASSUME NEW rest \in Files!Texts PROVE p \o rest \in Files!Texts /\ Files!Inside(p \o rest)
  <2> DEFINE s == p \o rest
  <2>1. s \in Seq(Files!Names) /\ Len(p) <= Len(s) /\ \A i \in 1..Len(p) : s[i] = p[i]
    <3>1. rest \in Seq(Files!Names)
      BY DEF Files!Texts
    <3> HIDE DEF Files!Names
    <3> QED
      BY <1>2, <3>1
  <2> HIDE DEF s
  <2>2. s \in Files!Texts
    BY <2>1 DEF Files!Texts
  <2>3. SubSeq(s, 1, Len(p)) = p
    <3> HIDE DEF Files!Names
    <3> DEFINE a == SubSeq(s, 1, Len(p))
    <3>1. a \in Seq(Files!Names) /\ Len(a) = Len(p) /\ \A i \in 1..Len(a) : a[i] = p[i]
      BY <1>2, <2>1
    <3> HIDE DEF a
    <3>2. a = p
      BY <1>2, <3>1, SeqEqual
    <3> QED
      BY <3>2 DEF a
  <2>4. s \in Files!Texts /\ Files!Inside(s)
    BY <1>1, <2>1, <2>2, <2>3
  <2> QED
    BY <2>4 DEF s
<1>4. ASSUME NEW x \in Files!Names PROVE Files!Inside(Append(p, x))
  <2>1. <<x>> \in Files!Texts
    BY DEF Files!Texts
  <2>2. Append(p, x) = p \o <<x>>
    <3> HIDE DEF Files!Names
    <3> QED
      BY <1>2
  <2> QED
    BY <1>3, <2>1, <2>2
<1> QED
  BY <1>3, <1>4

\* Whatever links there are, what resolvePath lets a Bot write to lands in the workspace or nowhere.
LEMMA WritesLandInside ==
  ASSUME FilesStand, NEW request \in Requests, Files!ResolvePath(request, TRUE) # Files!Refused
  PROVE  LET end == Files!LandsWithParents(Files!ResolvePath(request, TRUE))
         IN  end = Files!Refused \/ Files!Inside(end)
<1> DEFINE target == Root \o request.names
           landing == Files!WriteDestination[<<target, 0>>]
           real == Files!NearestExistingAncestor[Files!Front(target)]
           d == Files!ResolvePath(request, TRUE)
           end == Files!LandsWithParents(d)
           top(p) == Files!Real(Files!Front(p))
           at(p) == Append(top(p), Files!Last(p))
<1>1. /\ real # Files!Refused /\ Files!Inside(real)
      /\ d = IF landing = target THEN target ELSE Files!Followed(landing)
  BY DEF Files!ResolvePath
<1>2. request.names \in Files!Texts /\ Root \in Files!Texts /\ MaxHops \in Nat /\ MaxHops \in Files!Hops
  BY TextsAre, FilesAssumption DEF Files!Hops
<1>3. target \in Files!Texts /\ target # <<>> /\ target # Files!Refused
  <2>1. Root \in Seq(Files!Names) /\ request.names \in Seq(Files!Names) /\ Root # <<>>
    BY <1>2, TextsAre DEF Files!Texts
  <2>2. target \in Seq(Files!Names) /\ target # <<>>
    <3> HIDE DEF Files!Names
    <3> QED
      BY <2>1
  <2>3. target # Files!Refused
    <3> SUFFICES ASSUME target = <<"refused">> PROVE FALSE
      BY DEF Files!Refused
    <3>1. Len(request.names) \in Nat /\ Len(Root) \in Nat \ {0} /\ Len(Root) + Len(request.names) = 1
      <4> HIDE DEF Files!Names
      <4> QED
        BY <2>1
    <3>2. Len(request.names) = 0
      BY <3>1
    <3>4. request.names = <<>>
      BY <3>2, <1>2, Splits
    <3>3. target = Root
      <4> HIDE DEF Files!Names
      <4> QED
        BY <2>1, <3>4
    <3> QED
      BY <3>3, TextsAre DEF Files!Refused
  <2> QED
    BY <2>2, <2>3 DEF Files!Texts
<1>4. landing = Files!Refused \/ (landing \in Files!Texts /\ Files!Lstat(landing).kind # "link")
  <2>1. 0 \in 0..(MaxHops + 1)
    BY <1>2
  <2> QED
    BY <1>3, <2>1, DestinationIsNoLink
<1> HIDE DEF target, landing, real
\* What is written where the folder exists, when the last name is no link.
<1>5. ASSUME NEW p \in Files!Texts, p # <<>>, top(p) # Files!Refused, Files!At(at(p)).kind # "link"
      PROVE  Files!LandsWithParents(p) \in {Files!Refused, at(p)}
  <2>1. Files!LandsWithParents(p) = Files!Lands[<<p, MaxHops>>]
    BY <1>5 DEF Files!LandsWithParents
  <2>2. Files!Lands[<<p, MaxHops>>] = LandsIn(p, MaxHops, Files!Lands)
    BY <1>2, LandsIs
  <2> QED
    BY <2>1, <2>2, <1>5 DEF LandsIn
<1>6. CASE landing = target /\ top(target) # Files!Refused
  <2>1. d = target /\ Files!Lstat(target) = Files!At(at(target))
    BY <1>1, <1>6, <1>3 DEF Files!Lstat
  <2>2. Files!At(at(target)).kind # "link"
    BY <2>1, <1>3, <1>4, <1>6
  <2>3. end \in {Files!Refused, at(target)}
    BY <2>1, <2>2, <1>3, <1>5, <1>6
  <2>4. real = top(target)
    BY <1>3, <1>6, Splits, NearestIs DEF real
  <2>5. top(target) \in Files!Texts /\ Files!Last(target) \in Files!Names /\ Files!Inside(top(target))
    BY <2>4, <1>1, <1>3, Splits, Reals
  <2>6. Files!Inside(at(target))
    <3> HIDE DEF top
    <3> QED
      BY <2>5, InsideBelow
  <2> HIDE DEF at, end
  <2> QED
    BY <2>3, <2>6 DEF end
<1>7. CASE landing = target /\ top(target) = Files!Refused
  <2> DEFINE n == CHOOSE i \in 0..(Len(target) - 2) :
                     Files!Real(SubSeq(target, 1, i)) # Files!Refused /\ Files!Real(SubSeq(target, 1, i + 1)) = Files!Refused
             base == Files!Real(SubSeq(target, 1, n))
             rest == SubSeq(target, n + 1, Len(target))
             f == Files!Front(target)
  <2>1. d = target /\ end \in {Files!Refused, base \o rest}
    BY <1>1, <1>7 DEF Files!LandsWithParents
  <2>2. /\ f \in Files!Texts /\ Len(f) = Len(target) - 1 /\ Len(target) \in Nat \ {0}
        /\ f = SubSeq(target, 1, Len(target) - 1)
    BY <1>3, Splits DEF Files!Front
  <2>3. \A k \in 0..Len(f) : SubSeq(f, 1, k) = SubSeq(target, 1, k)
    <3>1. Len(target) - 1 \in 0..Len(target)
      BY <2>2
    <3> HIDE DEF f
    <3> QED
      BY <3>1, <2>2, <1>3, Prefixes
  <2>4. PICK i \in 0..Len(f) : /\ real = Files!Real(SubSeq(f, 1, i)) /\ real # Files!Refused
                               /\ i = Len(f) \/ Files!Real(SubSeq(f, 1, i + 1)) = Files!Refused
    BY <2>2, <1>1, NearestIsLongest DEF real, LongestReal
  <2>5. SubSeq(f, 1, Len(f)) = f
    BY <2>2, Prefixes
  <2> HIDE DEF f
  <2>6. i # Len(f)
    BY <2>4, <2>5, <1>7 DEF f
  <2>7. i \in 0..(Len(target) - 2) /\ i + 1 \in 0..Len(f)
    BY <2>2, <2>6
  <2>8. Files!Real(SubSeq(target, 1, i)) = real /\ Files!Real(SubSeq(target, 1, i + 1)) = Files!Refused
    <3>1. SubSeq(f, 1, i) = SubSeq(target, 1, i) /\ SubSeq(f, 1, i + 1) = SubSeq(target, 1, i + 1)
      BY <2>3, <2>7
    <3> QED
      BY <2>4, <2>6, <3>1
  <2>9. /\ n \in 0..(Len(target) - 2) /\ Files!Real(SubSeq(target, 1, n)) # Files!Refused
        /\ Files!Real(SubSeq(target, 1, n + 1)) = Files!Refused
    <3>1. \E j \in 0..(Len(target) - 2) :
            Files!Real(SubSeq(target, 1, j)) # Files!Refused /\ Files!Real(SubSeq(target, 1, j + 1)) = Files!Refused
      BY <2>7, <2>8, <2>4
    <3> QED
      BY <3>1
  <2> HIDE DEF n
  <2>10. n = i
    <3>1. /\ n \in Nat /\ n \in 0..Len(target) /\ n + 1 \in 0..Len(target)
          /\ i \in Nat /\ i \in 0..Len(target) /\ i + 1 \in 0..Len(target)
      BY <2>2, <2>7, <2>9
    <3>2. \A j, k \in 0..Len(target) : j <= k /\ Files!Real(SubSeq(target, 1, j)) = Files!Refused
                                         => Files!Real(SubSeq(target, 1, k)) = Files!Refused
      BY <1>3, NothingBeyond
    <3>3. ~(i + 1 <= n)
      BY <3>1, <3>2, <2>8, <2>9
    <3>4. ~(n + 1 <= i)
      BY <3>1, <3>2, <2>8, <2>9, <2>4
    <3> QED
      BY <3>1, <3>3, <3>4
  <2>11. base = real /\ base \in Files!Texts /\ Files!Inside(base)
    <3>1. base = real
      BY <2>8, <2>10
    <3>2. SubSeq(target, 1, n) \in Files!Texts
      <4>1. n \in 0..Len(target)
        BY <2>2, <2>9
      <4> QED
        BY <4>1, <1>3, Prefixes
    <3> QED
      BY <3>1, <3>2, <1>1, Reals
  <2>12. rest \in Files!Texts
    <3>1. target \in Seq(Files!Names) /\ n \in 0..(Len(target) - 2)
      BY <1>3, <2>9 DEF Files!Texts
    <3>2. rest \in Seq(Files!Names)
      <4> HIDE DEF Files!Names
      <4> QED
        BY <3>1
    <3> QED
      BY <3>2 DEF Files!Texts
  <2> HIDE DEF base, rest, end
  <2>13. Files!Inside(base \o rest)
    BY <2>11, <2>12, InsideBelow
  <2> QED
    BY <2>1, <2>13 DEF end
<1>8. CASE landing # target
  <2>1. d = Files!Followed(landing) /\ d # Files!Refused
    BY <1>1, <1>8
  <2>2. /\ landing \notin {Files!Refused, <<>>} /\ top(landing) # Files!Refused
        /\ d = at(landing) /\ Files!Inside(at(landing))
    <3> HIDE DEF d
    <3> QED
      BY <2>1 DEF Files!Followed
  <2>3. landing \in Files!Texts /\ Files!Lstat(landing).kind # "link" /\ Files!Lstat(landing) = Files!At(at(landing))
    BY <2>2, <1>4 DEF Files!Lstat
  <2> DEFINE dir == top(landing)
             last == Files!Last(landing)
  <2>4. dir \in Files!Texts /\ last \in Files!Names /\ Files!Real(dir) = dir
    BY <2>2, <2>3, Splits, Reals
  <2> DEFINE q == Append(dir, last)
  <2>5. q = at(landing) /\ d = q
    BY <2>2
  <2>6. q \in Files!Texts /\ q # <<>> /\ Files!Front(q) = dir /\ Files!Last(q) = last
    <3> HIDE DEF dir, last
    <3> QED
      BY <2>4, Splits
  <2> HIDE DEF q
  <2>7. top(q) = dir /\ at(q) = q
    BY <2>4, <2>6 DEF q
  <2>8. Files!LandsWithParents(q) \in {Files!Refused, at(q)}
    <3>1. top(q) # Files!Refused /\ Files!At(at(q)).kind # "link"
      BY <2>2, <2>3, <2>5, <2>7
    <3> HIDE DEF top, at
    <3> QED
      BY <3>1, <2>6, <1>5
  <2> QED
    BY <2>2, <2>5, <2>7, <2>8
<1> QED
  BY <1>6, <1>7, <1>8

\* Where a path lands is a matter of the file system alone.
LEMMA LandsTheSame ==
  ASSUME UNCHANGED fs, NEW p
  PROVE  Files!LandsWithParents(p)' = Files!LandsWithParents(p)
<1>1. Files!Realpath' = Files!Realpath
  BY DEF Files!Realpath, Files!At
<1>2. Files!Lands' = Files!Lands
  BY DEF Files!Realpath, Files!At, Files!Lands, Files!Real
<1> QED
  BY <1>1, <1>2 DEF Files!LandsWithParents, Files!Real, Files!At

\* What a read resolves to is under the workspace; what a write resolves to lands there or nowhere.
LandsInside(p) == LET end == Files!LandsWithParents(p) IN end = Files!Refused \/ Files!Inside(end)
FilesInv ==
    /\ FilesStand
    /\ ask \in [request : Requests, forWrite : BOOLEAN]
    /\ ~ask.forWrite => resolved \in {<<>>, Files!Refused} \/ Files!Inside(resolved)
    /\ ask.forWrite => \A p : p = resolved => p \in {<<>>, Files!Refused} \/ LandsInside(p)
    /\ Files!Confined

\* Resolving, reading, listing and writing keep a Bot inside the workspace.
LEMMA FilesInvStays == FilesInv /\ [Files!Next]_workspaceVars => FilesInv'
<1> SUFFICES ASSUME FilesInv, [Files!Next]_workspaceVars PROVE FilesInv'
  OBVIOUS
<1>1. UNCHANGED <<fs, ask>>
  BY DEF Files!Next, Files!Resolve, Files!Read, Files!List, Files!Write, workspaceVars
<1>2. FilesStand' /\ (ask \in [request : Requests, forWrite : BOOLEAN])'
  BY <1>1 DEF FilesInv, FilesStand
<1>3. \A p : LandsInside(p)' <=> LandsInside(p)
  <2> TAKE p
  <2>1. Files!LandsWithParents(p)' = Files!LandsWithParents(p)
    BY <1>1, LandsTheSame
  <2> QED
    BY <2>1 DEF LandsInside, Files!Inside
<1>4. (~ask.forWrite => resolved \in {<<>>, Files!Refused} \/ Files!Inside(resolved))'
  <2>1. CASE Files!Resolve
    BY <2>1 DEF Files!Resolve, Files!ResolvePath, Files!Inside
  <2>2. CASE UNCHANGED resolved
    BY <2>2, <1>1 DEF FilesInv, Files!Inside
  <2> QED
    BY <2>1, <2>2 DEF Files!Next, Files!Read, Files!List, Files!Write, workspaceVars
<1>5. (ask.forWrite => \A p : p = resolved => p \in {<<>>, Files!Refused} \/ LandsInside(p))'
  <2>1. CASE Files!Resolve
    <3> SUFFICES ASSUME ask.forWrite, NEW p, p = Files!ResolvePath(ask.request, ask.forWrite), p # Files!Refused
                 PROVE  LandsInside(p)
      BY <1>1, <1>3, <2>1 DEF Files!Resolve
    <3>1. ask.request \in Requests /\ ask.forWrite = TRUE
      BY DEF FilesInv
    <3>2. p = Files!ResolvePath(ask.request, TRUE)
      BY <3>1
    <3> QED
      BY <3>1, <3>2, WritesLandInside DEF LandsInside, FilesInv
  <2>2. CASE UNCHANGED resolved
    BY <2>2, <1>1, <1>3 DEF FilesInv
  <2> QED
    BY <2>1, <2>2 DEF Files!Next, Files!Read, Files!List, Files!Write, workspaceVars
<1>6. Files!Confined'
  <2>1. CASE Files!Read \/ Files!List
    BY <2>1 DEF Files!Read, Files!List, FilesInv, Files!Confined, Files!Inside
  <2>2. CASE Files!Write
    <3>1. LandsInside(resolved)
      BY <2>2 DEF Files!Write, FilesInv
    <3> QED
      BY <2>2, <3>1 DEF Files!Write, LandsInside, Files!Confined, Files!Inside
  <2>3. CASE UNCHANGED touched
    BY <2>3 DEF FilesInv, Files!Confined, Files!Inside
  <2> QED
    BY <2>1, <2>2, <2>3 DEF Files!Next, Files!Resolve, workspaceVars
<1> QED
  BY <1>2, <1>4, <1>5, <1>6 DEF FilesInv

-----------------------------------------------------------------------------
(***************************************************************************)
(* The harness.                                                            *)
(***************************************************************************)

TurnRows == [at : {"idle", "resumed", "fresh", "closed", "gone", "dead"},
             thread : Threads \cup {Engine!NewTurn.thread}, engine : Engines \cup {Engine!NewTurn.engine},
             resume : Sessions \cup {Engine!None}, finished : BOOLEAN, sawWork : BOOLEAN,
             killed : Sessions \cup {Engine!None}, killedSaid : BOOLEAN, late : BOOLEAN]

\* A stream that has not ended, one that has, and one that has once and with its last event.
Unended(events) == \A i \in DOMAIN events : events[i] \notin Engine!Terminal
HasEnded(events) == \E i \in DOMAIN events : events[i] \in Engine!Terminal
EndedOnce(events) ==
    /\ events[Len(events)] \in Engine!Terminal
    /\ \A i \in 1 .. (Len(events) - 1) : events[i] \notin Engine!Terminal

EngineStands ==
    /\ turn \in [HarnessTurns -> TurnRows]
    /\ session \in [Engines \X Threads -> Sessions \cup {Engine!None}]
    /\ said \in [HarnessTurns -> Seq(Engine!Events)]

\* The stream of a turn under way ends with the event that finishes it; that of a closed one has
\* ended; and both once, if no line came late.
Ended(row) == row.at = "closed" \/ (row.at \in {"resumed", "fresh"} /\ row.finished)
Ends(row, events) ==
    /\ row.at = "idle" => events = <<>>
    /\ Ended(row) => HasEnded(events) /\ (~row.late => EndedOnce(events))
    /\ row.at \in {"resumed", "fresh"} /\ ~row.finished /\ ~row.late => Unended(events)
StreamsEnd == \A r \in HarnessTurns : Ends(turn[r], said[r])

\* A tool that may be used has a row no use has claimed.
UsesHaveRows ==
    /\ tool \in [HarnessTurns -> {"none", "asked", "allowed"}]
    /\ rows \in [HarnessTurns -> Nat] /\ toolsUsed \in [HarnessTurns -> Nat]
    /\ \A r \in HarnessTurns : /\ toolsUsed[r] <= rows[r]
                               /\ tool[r] = "allowed" => toolsUsed[r] < rows[r]

EngineInv == EngineStands /\ StreamsEnd /\ UsesHaveRows

\* One event more: the stream has ended once if it is a last one, else not.
LEMMA OneMoreEvent ==
  ASSUME NEW s \in Seq(Engine!Events), NEW e \in Engine!Events
  PROVE  /\ Append(s, e) \in Seq(Engine!Events)
         /\ HasEnded(s) \/ e \in Engine!Terminal => HasEnded(Append(s, e))
         /\ Unended(s) /\ e \in Engine!Terminal => EndedOnce(Append(s, e))
         /\ Unended(s) /\ e \notin Engine!Terminal => Unended(Append(s, e))
<1>1. Append(s, e) \in Seq(Engine!Events) /\ Len(Append(s, e)) = Len(s) + 1
  OBVIOUS
<1>2. Append(s, e)[Len(s) + 1] = e /\ \A i \in 1 .. Len(s) : Append(s, e)[i] = s[i]
  OBVIOUS
<1>3. /\ Len(s) \in Nat /\ DOMAIN s = 1 .. Len(s) /\ DOMAIN Append(s, e) = 1 .. Len(s) + 1
  OBVIOUS
<1>4. HasEnded(s) \/ e \in Engine!Terminal => HasEnded(Append(s, e))
  <2>1. CASE HasEnded(s)
    BY <2>1, <1>2, <1>3 DEF HasEnded
  <2>2. CASE e \in Engine!Terminal
    <3>1. Len(s) + 1 \in 1 .. Len(s) + 1
      BY <1>3
    <3> QED
      BY <3>1, <2>2, <1>2, <1>3 DEF HasEnded
  <2> QED
    BY <2>1, <2>2
<1>5. Unended(s) /\ e \in Engine!Terminal => EndedOnce(Append(s, e))
  BY <1>1, <1>2, <1>3 DEF Unended, EndedOnce
<1>6. Unended(s) /\ e \notin Engine!Terminal => Unended(Append(s, e))
  BY <1>2, <1>3 DEF Unended
<1> QED
  BY <1>1, <1>4, <1>5, <1>6

\* A turn that changes its row and its stream, each of them in step, keeps the turns in step.
LEMMA TurnStands ==
  ASSUME EngineInv, NEW r \in HarnessTurns, NEW row \in TurnRows, turn' = [turn EXCEPT ![r] = row],
         NEW s \in Seq(Engine!Events), said' = [said EXCEPT ![r] = s], Ends(row, s),
         session' \in [Engines \X Threads -> Sessions \cup {Engine!None}]
  PROVE  EngineStands' /\ StreamsEnd'
<1>1. turn \in [HarnessTurns -> TurnRows] /\ said \in [HarnessTurns -> Seq(Engine!Events)]
  BY DEF EngineInv, EngineStands
<1>2. EngineStands'
  BY <1>1 DEF EngineStands
<1>3. ASSUME NEW o \in HarnessTurns PROVE Ends(turn[o], said[o])'
  <2>1. CASE o = r
    <3>1. turn'[o] = row /\ said'[o] = s
      BY <2>1, <1>1
    <3> QED
      BY <3>1 DEF Ends, Ended, HasEnded, EndedOnce, Unended
  <2>2. CASE o # r
    <3>1. turn'[o] = turn[o] /\ said'[o] = said[o]
      BY <2>2, <1>1
    <3>2. Ends(turn[o], said[o])
      BY DEF EngineInv, StreamsEnd
    <3> QED
      BY <3>1, <3>2 DEF Ends, Ended, HasEnded, EndedOnce, Unended
  <2> QED
    BY <2>1, <2>2
<1> QED
  BY <1>2, <1>3 DEF StreamsEnd

\* What a turn says and whether it has finished stay in step; what it says after that is late.
LEMMA SayingStands ==
  ASSUME EngineInv, NEW r \in HarnessTurns, Engine!Running(r),
         NEW e \in Engine!Events, Engine!Says(r, e),
         NEW row \in TurnRows, turn' = [turn EXCEPT ![r] = row],
         row.at \in {"resumed", "fresh", "closed"},
         turn[r].late \/ turn[r].finished => row.late,
         Ended(row) => turn[r].finished \/ e \in Engine!Terminal,
         ~row.late => (Ended(row) <=> e \in Engine!Terminal),
         session' = session
  PROVE  EngineStands' /\ StreamsEnd'
<1>1. said[r] \in Seq(Engine!Events) /\ Ends(turn[r], said[r]) /\ turn[r] \in TurnRows
  BY DEF EngineInv, EngineStands, StreamsEnd
<1>2. said' = [said EXCEPT ![r] = Append(said[r], e)]
  BY DEF Engine!Says
<1>3. Ends(row, Append(said[r], e))
  <2>1. turn[r].finished => HasEnded(said[r])
    BY <1>1 DEF Ends, Ended, Engine!Running
  <2>2. ~row.late => Unended(said[r])
    BY <1>1 DEF Ends, Engine!Running, TurnRows
  <2>3. row.finished \in BOOLEAN /\ row.late \in BOOLEAN /\ row.at # "idle"
    BY DEF TurnRows
  <2>4. Ended(row) => HasEnded(Append(said[r], e))
    BY <2>1, <1>1, OneMoreEvent
  <2>5. Ended(row) /\ ~row.late => EndedOnce(Append(said[r], e))
    BY <2>2, <1>1, OneMoreEvent
  <2>6. ~Ended(row) /\ ~row.late => Unended(Append(said[r], e))
    BY <2>2, <1>1, OneMoreEvent
  <2> QED
    BY <2>3, <2>4, <2>5, <2>6 DEF Ends, Ended
<1>4. Append(said[r], e) \in Seq(Engine!Events)
  BY <1>1, OneMoreEvent
<1>5. session' \in [Engines \X Threads -> Sessions \cup {Engine!None}]
  BY DEF EngineInv, EngineStands
<1> QED
  BY <1>2, <1>3, <1>4, <1>5, TurnStands

\* A stale attempt has said nothing that ends its turn, or what follows is late.
LEMMA StaleStands ==
  ASSUME EngineInv, NEW r \in HarnessTurns, Engine!Running(r), NEW killed \in Sessions \cup {Engine!None},
         Engine!StaleResume(r, killed)
  PROVE  EngineInv'
<1>1. turn[r] \in TurnRows /\ said[r] \in Seq(Engine!Events) /\ Ends(turn[r], said[r])
  BY DEF EngineInv, EngineStands, StreamsEnd
<1> DEFINE row == [turn[r] EXCEPT !.at = "fresh", !.resume = Engine!None, !.finished = FALSE,
                                  !.killed = killed, !.late = @ \/ turn[r].finished]
<1>2. row \in TurnRows /\ row.at = "fresh" /\ ~row.finished /\ row.late = (turn[r].late \/ turn[r].finished)
  BY <1>1, Zenon DEF TurnRows
<1> HIDE DEF row
<1>3. /\ turn' = [turn EXCEPT ![r] = row] /\ tool' = [tool EXCEPT ![r] = "none"]
      /\ session' = [session EXCEPT ![Engine!Key(r)] = Engine!None] /\ UNCHANGED <<said, rows, toolsUsed>>
  BY DEF Engine!StaleResume, Engine!governed, row
<1>4. Ends(row, said[r])
  BY <1>1, <1>2 DEF Ends, Ended, Engine!Running
<1>5. said' = [said EXCEPT ![r] = said[r]]
  BY <1>3 DEF EngineInv, EngineStands
<1>6. session' \in [Engines \X Threads -> Sessions \cup {Engine!None}]
  BY <1>3 DEF EngineInv, EngineStands
<1>7. EngineStands' /\ StreamsEnd'
  BY <1>1, <1>2, <1>3, <1>4, <1>5, <1>6, TurnStands
<1>8. UsesHaveRows'
  BY <1>3 DEF EngineInv, UsesHaveRows
<1> QED
  BY <1>7, <1>8 DEF EngineInv

\* Every event, hook and end of a turn keeps its stream and its rows in step.
LEMMA EngineInvStays == EngineInv /\ [Engine!Next]_harnessVars => EngineInv'
<1> SUFFICES ASSUME EngineInv, [Engine!Next]_harnessVars PROVE EngineInv'
  OBVIOUS
<1>0. /\ turn \in [HarnessTurns -> TurnRows] /\ said \in [HarnessTurns -> Seq(Engine!Events)]
      /\ session \in [Engines \X Threads -> Sessions \cup {Engine!None}]
      /\ \A r \in HarnessTurns : turn[r] \in TurnRows /\ said[r] \in Seq(Engine!Events) /\ Ends(turn[r], said[r])
  BY DEF EngineInv, EngineStands, StreamsEnd
<1>1. ASSUME NEW r \in HarnessTurns, NEW e \in Engines, NEW t \in Threads, NEW prompt \in BOOLEAN,
             Engine!Run(r, e, t, prompt)
      PROVE  EngineInv'
  <2>1. turn[r].at = "idle" /\ UNCHANGED <<session, tool, rows, toolsUsed>>
    BY <1>1 DEF Engine!Run, Engine!governed
  <2>2. said[r] = <<>>
    BY <2>1, <1>0 DEF Ends
  <2>3. ASSUME NEW row \in TurnRows, turn' = [turn EXCEPT ![r] = row], NEW s \in Seq(Engine!Events),
               said' = [said EXCEPT ![r] = s],
               \/ row.at = "closed" /\ EndedOnce(s) /\ HasEnded(s)
               \/ row.at \in {"fresh", "resumed"} /\ ~row.finished /\ Unended(s)
        PROVE  EngineInv'
    <3>1. Ends(row, s)
      BY <2>3 DEF Ends, Ended
    <3> QED
      BY <3>1, <2>1, <2>3, <1>0, TurnStands DEF EngineInv, UsesHaveRows
  <2>4. CASE e \notin DOMAIN Engine!Adapters \/ ~prompt
    <3> DEFINE row == [turn[r] EXCEPT !.at = "closed", !.thread = t, !.engine = e]
               s == <<"RUN_STARTED", "RUN_ERROR">>
    <3>1. turn' = [turn EXCEPT ![r] = row] /\ said' = [said EXCEPT ![r] = s]
      BY <1>1, <2>4 DEF Engine!Run
    <3>2. row \in TurnRows /\ row.at = "closed"
      BY <1>0 DEF TurnRows
    <3>3. s \in Seq(Engine!Events) /\ EndedOnce(s) /\ HasEnded(s)
      BY DEF Engine!Events, EndedOnce, HasEnded, Engine!Terminal
    <3> QED
      BY <2>3, <3>1, <3>2, <3>3
  <2>5. CASE ~(e \notin DOMAIN Engine!Adapters \/ ~prompt)
    <3> DEFINE row == [Engine!NewTurn EXCEPT !.at = IF session[<<e, t>>] = Engine!None THEN "fresh" ELSE "resumed",
                                             !.thread = t, !.engine = e, !.resume = session[<<e, t>>]]
               s == Append(<<>>, "RUN_STARTED")
    <3>1. turn' = [turn EXCEPT ![r] = row] /\ said' = [said EXCEPT ![r] = s]
      BY <1>1, <2>5, <2>2 DEF Engine!Run, Engine!Says
    <3>2. session[<<e, t>>] \in Sessions \cup {Engine!None}
      BY <1>0
    <3>3. row \in TurnRows /\ row.at \in {"fresh", "resumed"} /\ ~row.finished
      BY <3>2 DEF TurnRows, Engine!NewTurn
    <3>4. s \in Seq(Engine!Events) /\ Unended(s)
      BY DEF Engine!Events, Unended, Engine!Terminal
    <3> QED
      BY <2>3, <3>1, <3>3, <3>4
  <2> QED
    BY <2>4, <2>5
<1>2. ASSUME NEW r \in HarnessTurns, Engine!Remember(r) \/ Engine!KilledRemembers(r) PROVE EngineInv'
  <2>1. UNCHANGED <<turn, said, tool, rows, toolsUsed>>
    BY <1>2 DEF Engine!Remember, Engine!KilledRemembers, Engine!governed
  <2>2. PICK s \in Sessions \cup {Engine!None} : session' = [session EXCEPT ![Engine!Key(r)] = s]
    <3>1. turn[r].killed \in Sessions \cup {Engine!None}
      BY <1>0 DEF TurnRows
    <3> QED
      BY <1>2, <3>1 DEF Engine!Remember, Engine!KilledRemembers
  <2>3. session' \in [Engines \X Threads -> Sessions \cup {Engine!None}]
    BY <2>2, <1>0
  <2> QED
    BY <2>1, <2>3 DEF EngineInv, EngineStands, StreamsEnd, Ends, Ended, UsesHaveRows
<1>3. ASSUME NEW r \in HarnessTurns, Engine!Work(r) \/ Engine!AskTool(r) PROVE EngineInv'
  <2> DEFINE work == [turn[r] EXCEPT !.sawWork = TRUE]
             row == [work EXCEPT !.late = @ \/ turn[r].finished]
  <2>1. /\ Engine!Running(r) /\ Engine!Says(r, "work")
        /\ turn' = [turn EXCEPT ![r] = row] /\ UNCHANGED <<session, rows, toolsUsed>>
        /\ tool' = tool \/ tool' = [tool EXCEPT ![r] = "asked"]
    BY <1>3 DEF Engine!Work, Engine!AskTool, Engine!Speaks, Engine!Sees, Engine!governed
  <2>2. work \in TurnRows /\ work.at = turn[r].at /\ work.finished = turn[r].finished /\ work.late = turn[r].late
    BY <1>0 DEF TurnRows
  <2>3. row \in TurnRows /\ row.at = turn[r].at /\ row.finished = turn[r].finished
        /\ row.late = (turn[r].late \/ turn[r].finished)
    <3> HIDE DEF work
    <3> QED
      BY <2>2, <1>0, Zenon DEF TurnRows
  <2>4. "work" \in Engine!Events /\ "work" \notin Engine!Terminal
    BY DEF Engine!Events, Engine!Terminal
  <2>5. row.at \in {"resumed", "fresh"}
    BY <2>1, <2>3 DEF Engine!Running
  <2> HIDE DEF row, work
  <2>6. Ended(row) => turn[r].finished
    BY <2>3, <2>5 DEF Ended
  <2>7. EngineStands' /\ StreamsEnd'
    BY <2>1, <2>3, <2>4, <2>5, <2>6, SayingStands
  <2>8. UsesHaveRows'
    BY <2>1 DEF EngineInv, UsesHaveRows
  <2> QED
    BY <2>7, <2>8 DEF EngineInv
<1>4. ASSUME NEW r \in HarnessTurns, NEW e \in {"RUN_FINISHED", "RUN_ERROR"},
             Engine!Running(r), Engine!Says(r, e),
             Engine!Sees(r, [turn[r] EXCEPT !.finished = TRUE]), UNCHANGED <<session, tool, rows, toolsUsed>>
      PROVE  EngineInv'
  <2> DEFINE done == [turn[r] EXCEPT !.finished = TRUE]
             row == [done EXCEPT !.late = @ \/ turn[r].finished]
  <2>1. turn' = [turn EXCEPT ![r] = row]
    BY <1>4 DEF Engine!Sees
  <2>2. done \in TurnRows /\ done.at = turn[r].at /\ done.finished /\ done.late = turn[r].late
    BY <1>0 DEF TurnRows
  <2>3. row \in TurnRows /\ row.at = turn[r].at /\ row.finished /\ row.late = (turn[r].late \/ turn[r].finished)
    <3> HIDE DEF done
    <3> QED
      BY <2>2, <1>0, Zenon DEF TurnRows
  <2>4. e \in Engine!Events /\ e \in Engine!Terminal
    BY DEF Engine!Events, Engine!Terminal
  <2>5. row.at \in {"resumed", "fresh"}
    BY <1>4, <2>3 DEF Engine!Running
  <2> HIDE DEF row, done
  <2>6. Ended(row)
    BY <2>3, <2>5 DEF Ended
  <2>7. EngineStands' /\ StreamsEnd'
    BY <1>4, <2>1, <2>3, <2>4, <2>5, <2>6, SayingStands
  <2> QED
    BY <1>4, <2>7 DEF EngineInv, UsesHaveRows
<1>5. ASSUME NEW r \in HarnessTurns, Engine!EndLine(r) PROVE EngineInv'
  BY <1>4, <1>5 DEF Engine!EndLine, Engine!Speaks, Engine!governed
<1>6. ASSUME NEW r \in HarnessTurns, Engine!ErrorLine(r) PROVE EngineInv'
  <2>1. Engine!Running(r) /\ turn[r].resume \in Sessions \cup {Engine!None}
    BY <1>6, <1>0 DEF Engine!ErrorLine, Engine!Speaks, TurnRows
  <2>2. CASE Engine!StaleResume(r, turn[r].resume)
    BY <2>1, <2>2, StaleStands
  <2>3. CASE ~Engine!StaleResume(r, turn[r].resume)
    BY <1>4, <1>6, <2>1, <2>3 DEF Engine!ErrorLine, Engine!governed
  <2> QED
    BY <2>2, <2>3
<1>13. ASSUME NEW r \in HarnessTurns, NEW event \in Engine!Events, Engine!KilledLine(r, event) PROVE EngineInv'
  <2> DEFINE row == [turn[r] EXCEPT !.killedSaid = @ \/ event = "work", !.late = TRUE]
  <2>1. /\ turn[r].at = "fresh" /\ Engine!Says(r, event) /\ turn' = [turn EXCEPT ![r] = row]
        /\ UNCHANGED <<session, tool, rows, toolsUsed>>
    BY <1>13 DEF Engine!KilledLine, Engine!governed
  <2>2. row \in TurnRows /\ row.at = turn[r].at /\ row.finished = turn[r].finished /\ row.late
    BY <1>0, Zenon DEF TurnRows
  <2> HIDE DEF row
  <2>3. Ended(row) => turn[r].finished
    BY <2>1, <2>2 DEF Ended
  <2>4. Engine!Running(r) /\ row.at \in {"resumed", "fresh"}
    BY <2>1, <2>2 DEF Engine!Running
  <2>5. EngineStands' /\ StreamsEnd'
    BY <2>1, <2>2, <2>3, <2>4, SayingStands
  <2> QED
    BY <2>1, <2>5 DEF EngineInv, UsesHaveRows
<1>7. ASSUME NEW r \in HarnessTurns, NEW clean \in BOOLEAN, Engine!Exits(r, clean) PROVE EngineInv'
  <2> DEFINE row == [turn[r] EXCEPT !.at = "closed"]
             e == IF Engine!Adapters[turn[r].engine].finishOnExit /\ clean THEN "RUN_FINISHED" ELSE "RUN_ERROR"
  <2>1. Engine!Running(r)
    BY <1>7 DEF Engine!Exits
  <2>2. CASE Engine!StaleResume(r, Engine!None)
    BY <2>1, <2>2, StaleStands
  <2>3. CASE ~Engine!StaleResume(r, Engine!None)
    <3>1. /\ turn' = [turn EXCEPT ![r] = row] /\ tool' = [tool EXCEPT ![r] = "none"]
          /\ UNCHANGED <<session, rows, toolsUsed>>
          /\ IF turn[r].finished THEN said' = said ELSE Engine!Says(r, e)
      BY <1>7, <2>3, <1>0 DEF Engine!Exits, Engine!governed
    <3>2. row \in TurnRows /\ row.at = "closed" /\ row.late = turn[r].late /\ row.late \in BOOLEAN
      BY <1>0 DEF TurnRows
    <3>3. e \in Engine!Events /\ e \in Engine!Terminal
      BY DEF Engine!Events, Engine!Terminal
    <3> HIDE DEF row, e
    <3>4. UsesHaveRows'
      BY <3>1 DEF EngineInv, UsesHaveRows
    <3>5. Ended(row)
      BY <3>2 DEF Ended
    <3>6. CASE ~turn[r].finished
      <4>1. EngineStands' /\ StreamsEnd'
        BY <2>1, <3>1, <3>2, <3>3, <3>5, <3>6, SayingStands
      <4> QED
        BY <4>1, <3>4 DEF EngineInv
    <3>7. CASE turn[r].finished
      <4>1. Ends(row, said[r])
        BY <2>1, <3>2, <3>7, <1>0 DEF Ends, Ended, Engine!Running
      <4>2. said' = [said EXCEPT ![r] = said[r]]
        BY <3>1, <3>7, <1>0
      <4>3. EngineStands' /\ StreamsEnd'
        BY <3>1, <3>2, <4>1, <4>2, <1>0, TurnStands
      <4> QED
        BY <4>3, <3>4 DEF EngineInv
    <3> QED
      BY <3>6, <3>7
  <2> QED
    BY <2>2, <2>3
<1>8. ASSUME NEW r \in HarnessTurns, Engine!HangUp(r) PROVE EngineInv'
  <2> DEFINE row == [turn[r] EXCEPT !.at = "gone"]
  <2>1. turn' = [turn EXCEPT ![r] = row] /\ UNCHANGED <<session, said, tool, rows, toolsUsed>>
    BY <1>8, <1>0 DEF Engine!HangUp, Engine!governed
  <2>2. row \in TurnRows /\ row.at = "gone"
    BY <1>0 DEF TurnRows
  <2> HIDE DEF row
  <2>3. Ends(row, said[r]) /\ said' = [said EXCEPT ![r] = said[r]]
    BY <2>1, <2>2, <1>0 DEF Ends, Ended
  <2>4. EngineStands' /\ StreamsEnd'
    BY <2>1, <2>2, <2>3, <1>0, TurnStands
  <2> QED
    BY <2>1, <2>4 DEF EngineInv, UsesHaveRows
<1>9. CASE Engine!Rebuild
  <2> DEFINE left(r) == [turn[r] EXCEPT !.at = IF Engine!Engaged(r) THEN "dead" ELSE @, !.killed = Engine!None]
  <2>1. /\ turn' = [r \in HarnessTurns |-> left(r)]
        /\ tool' = [r \in HarnessTurns |-> "none"] /\ UNCHANGED <<session, said, rows, toolsUsed>>
    BY <1>9 DEF Engine!Rebuild, Engine!governed
  <2>2. ASSUME NEW r \in HarnessTurns
        PROVE  /\ left(r) \in TurnRows /\ left(r).at \in {turn[r].at, "dead"}
               /\ left(r).finished = turn[r].finished /\ left(r).late = turn[r].late
    <3>1. (IF Engine!Engaged(r) THEN "dead" ELSE turn[r].at) \in {turn[r].at, "dead"}
      OBVIOUS
    <3> QED
      BY <3>1, <1>0 DEF TurnRows
  <2> HIDE DEF left
  <2>3. \A r \in HarnessTurns : turn'[r] = left(r)
    BY <2>1
  <2>4. \A r \in HarnessTurns : Ends(left(r), said[r])
    BY <2>2, <1>0 DEF Ends, Ended
  <2>5. EngineStands'
    BY <2>1, <2>2 DEF EngineInv, EngineStands
  <2>6. StreamsEnd'
    BY <2>1, <2>3, <2>4 DEF StreamsEnd, Ends, Ended
  <2>7. UsesHaveRows'
    BY <2>1 DEF EngineInv, UsesHaveRows
  <2> QED
    BY <2>5, <2>6, <2>7 DEF EngineInv
<1>10. ASSUME NEW r \in HarnessTurns, NEW allowed \in BOOLEAN, NEW recorded \in BOOLEAN,
              Engine!Decide(r, allowed, recorded)
       PROVE  EngineInv'
  <2>1. /\ rows' = IF recorded THEN [rows EXCEPT ![r] = @ + 1] ELSE rows
        /\ tool' = [tool EXCEPT ![r] = IF allowed /\ recorded THEN "allowed" ELSE "none"]
        /\ UNCHANGED <<session, turn, said, toolsUsed>>
    BY <1>10 DEF Engine!Decide
  <2>2. UsesHaveRows'
    BY <2>1 DEF EngineInv, UsesHaveRows
  <2> QED
    BY <2>1, <2>2 DEF EngineInv, EngineStands, StreamsEnd, Ends, Ended
<1>11. ASSUME NEW r \in HarnessTurns, Engine!Use(r) PROVE EngineInv'
  <2>1. /\ tool[r] = "allowed" /\ toolsUsed' = [toolsUsed EXCEPT ![r] = @ + 1]
        /\ tool' = [tool EXCEPT ![r] = "none"] /\ UNCHANGED <<session, turn, said, rows>>
    BY <1>11 DEF Engine!Use
  <2>2. UsesHaveRows'
    BY <2>1 DEF EngineInv, UsesHaveRows
  <2> QED
    BY <2>1, <2>2 DEF EngineInv, EngineStands, StreamsEnd, Ends, Ended
<1>12. CASE UNCHANGED harnessVars
  BY <1>12 DEF harnessVars, EngineInv, EngineStands, StreamsEnd, Ends, Ended, UsesHaveRows
<1> QED
  BY <1>1, <1>2, <1>3, <1>5, <1>6, <1>7, <1>8, <1>9, <1>10, <1>11, <1>12, <1>13 DEF Engine!Next
-----------------------------------------------------------------------------
(***************************************************************************)
(* The mesh: a move that carries a Bot's files.                            *)
(***************************************************************************)

MoveRows == [at : Placing!Steps, bot : MovedBots \cup {Placing!NoMove.bot}, from : Placing!Places,
             to : Placing!Places, bundled : BOOLEAN, bundle : SUBSET Placing!Files]

MeshStands ==
    /\ placement \in [MovedBots -> Placing!Places]
    /\ computer \in [Placing!Places -> [MovedBots -> {"absent", "stopped", "running"}]]
    /\ disk \in [Placing!Places -> [MovedBots -> SUBSET Placing!Files]]
    /\ move \in [Moves -> MoveRows]
    /\ kept \in [MovedBots -> SUBSET Placing!Files]
    /\ \A m \in Moves : move[m].at # "idle" => move[m].bot \in MovedBots

OneMove == \A m, o \in Moves :
    move[m].at # "idle" /\ move[o].at # "idle" /\ move[m].bot = move[o].bot => m = o

\* Where there is no computer there is nothing to carry.
AbsentIsEmpty == \A b \in MovedBots : computer[placement[b]][b] = "absent" => kept[b] = {}

Bundled == {"target", "workspace", "profiles", "stopping", "placing"}
Restoring == {"workspace", "profiles", "stopping"}

\* What a move has carried at each of its steps.
Carries(row) ==
    LET b == row.bot
        there == disk[row.to][b]
    IN  /\ row.at # "idle" => row.from = placement[b] /\ row.to # row.from
        /\ row.at = "asked" => computer[row.from][b] # "stopped"
        /\ row.at \in {"asked", "bundling"} => ~row.bundled
        /\ row.at \in Bundled => kept[b] \subseteq IF row.bundled THEN row.bundle ELSE {}
        /\ row.at \in Restoring => row.bundled
        /\ row.at \in Restoring \cup {"placing"} => computer[row.to][b] # "absent"
        /\ row.at \in {"profiles", "stopping", "placing"} => kept[b] \cap WorkspaceFiles \subseteq there
        /\ row.at \in {"stopping", "placing"} => kept[b] \cap ProfileFiles \subseteq there

MovesInv ==
    /\ MeshStands /\ OneMove /\ AbsentIsEmpty
    /\ \A m \in Moves : Carries(move[m])
    /\ Placing!FilesFollow

\* One move goes a step on: the others stay as they are, and none of them is of its Bot.
LEMMA MoveGoesOn ==
  ASSUME MovesInv, NEW m \in Moves, NEW row \in MoveRows, move' = [move EXCEPT ![m] = row],
         row.at # "idle" => row.bot \in MovedBots,
         row.at # "idle" => \A o \in Moves \ {m} : move[o].at # "idle" => move[o].bot # row.bot,
         UNCHANGED <<placement, computer, disk, kept>>,
         Carries(row)
  PROVE  MovesInv'
<1>1. MeshStands' /\ OneMove'
  BY DEF MovesInv, MeshStands, OneMove
<1>2. AbsentIsEmpty' /\ Placing!FilesFollow'
  BY DEF MovesInv, AbsentIsEmpty, Placing!FilesFollow
<1>3. \A o \in Moves : Carries(move[o])'
  <2> SUFFICES ASSUME NEW o \in Moves PROVE Carries(move[o])'
    OBVIOUS
  <2>1. move'[o] = (IF o = m THEN row ELSE move[o])
    BY DEF MovesInv, MeshStands
  <2>2. Carries(move[o])
    BY DEF MovesInv
  <2>3. CASE o = m
    BY <2>1, <2>3 DEF Carries
  <2>4. CASE o # m
    BY <2>1, <2>2, <2>4 DEF Carries
  <2> QED
    BY <2>3, <2>4
<1> QED
  BY <1>1, <1>2, <1>3 DEF MovesInv

\* A Bot nobody is moving does something at home: no move is touched.
LEMMA HomeStands ==
  ASSUME MovesInv, NEW b \in MovedBots, \A m \in Moves : move[m].at # "idle" => move[m].bot # b,
         NEW state \in {"absent", "stopped", "running"}, NEW files \in SUBSET Placing!Files,
         computer' = [computer EXCEPT ![placement[b]][b] = state],
         disk' = [disk EXCEPT ![placement[b]][b] = files],
         NEW mine \in SUBSET Placing!Files, kept' = [kept EXCEPT ![b] = mine], mine \subseteq files,
         state = "absent" => mine = {},
         UNCHANGED <<placement, move>>
  PROVE  MovesInv'
<1>1. placement[b] \in Placing!Places
  BY DEF MovesInv, MeshStands
<1>2. /\ computer' \in [Placing!Places -> [MovedBots -> {"absent", "stopped", "running"}]]
      /\ disk' \in [Placing!Places -> [MovedBots -> SUBSET Placing!Files]]
      /\ kept' \in [MovedBots -> SUBSET Placing!Files]
  BY <1>1 DEF MovesInv, MeshStands
<1>3. MeshStands' /\ OneMove'
  BY <1>2 DEF MovesInv, MeshStands, OneMove
<1>4. \A o \in MovedBots \ {b} : kept'[o] = kept[o] /\ \A p \in Placing!Places :
        computer'[p][o] = computer[p][o] /\ disk'[p][o] = disk[p][o]
  BY <1>1 DEF MovesInv, MeshStands
<1>5. kept'[b] = mine /\ computer'[placement[b]][b] = state /\ disk'[placement[b]][b] = files
  BY <1>1 DEF MovesInv, MeshStands
<1>6. \A o \in MovedBots : placement[o] \in Placing!Places
  BY DEF MovesInv, MeshStands
<1>7. AbsentIsEmpty'
  BY <1>4, <1>5, <1>6 DEF MovesInv, AbsentIsEmpty
<1>8. Placing!FilesFollow'
  BY <1>4, <1>5, <1>6 DEF MovesInv, Placing!FilesFollow
<1>9. ASSUME NEW m \in Moves PROVE Carries(move[m])'
  <2>1. Carries(move[m]) /\ move[m] \in MoveRows
    BY DEF MovesInv, MeshStands
  <2>2. CASE move[m].at = "idle"
    BY <2>2 DEF Carries, Bundled, Restoring
  <2>3. CASE move[m].at # "idle"
    <3>1. move[m].bot \in MovedBots \ {b} /\ move[m].to \in Placing!Places /\ move[m].from \in Placing!Places
      BY <2>1, <2>3 DEF MovesInv, MeshStands, MoveRows
    <3> QED
      BY <2>1, <3>1, <1>4 DEF Carries
  <2> QED
    BY <2>2, <2>3
<1> QED
  BY <1>3, <1>7, <1>8, <1>9 DEF MovesInv

\* A computer that is there changes its state and stays there, with its files or more of them.
LEMMA PlaceStands ==
  ASSUME MovesInv, NEW p \in Placing!Places, NEW b \in MovedBots,
         NEW state \in {"stopped", "running"}, NEW files \in SUBSET Placing!Files,
         computer' = [computer EXCEPT ![p][b] = state],
         disk' = [disk EXCEPT ![p][b] = files], disk[p][b] \subseteq files,
         UNCHANGED <<placement, move, kept>>,
         \A m \in Moves : move[m].at = "asked" /\ move[m].bot = b /\ p = move[m].from => state # "stopped"
  PROVE  MovesInv'
<1>1. MeshStands' /\ OneMove'
  BY DEF MovesInv, MeshStands, OneMove
<1>2. \A q \in Placing!Places, o \in MovedBots :
         /\ computer'[q][o] = (IF q = p /\ o = b THEN state ELSE computer[q][o])
         /\ disk[q][o] \subseteq disk'[q][o]
  BY DEF MovesInv, MeshStands
<1>3. \A o \in MovedBots : placement[o] \in Placing!Places
  BY DEF MovesInv, MeshStands
<1>4. AbsentIsEmpty'
  BY <1>2, <1>3 DEF MovesInv, AbsentIsEmpty
<1>5. Placing!FilesFollow'
  BY <1>2, <1>3 DEF MovesInv, Placing!FilesFollow
<1>6. ASSUME NEW m \in Moves PROVE Carries(move[m])'
  <2>1. Carries(move[m]) /\ move[m] \in MoveRows
    BY DEF MovesInv, MeshStands
  <2>2. CASE move[m].at = "idle"
    BY <2>2 DEF Carries, Bundled, Restoring
  <2>3. CASE move[m].at # "idle"
    <3>1. move[m].bot \in MovedBots /\ move[m].to \in Placing!Places /\ move[m].from \in Placing!Places
      BY <2>1, <2>3 DEF MovesInv, MeshStands, MoveRows
    <3> DEFINE o == move[m].bot
    <3>2. disk[move[m].to][o] \subseteq disk'[move[m].to][o]
      BY <1>2, <3>1
    <3>3. computer[move[m].to][o] # "absent" => computer'[move[m].to][o] # "absent"
      BY <1>2, <3>1
    <3>4. move[m].at = "asked" => computer'[move[m].from][o] # "stopped"
      BY <1>2, <3>1, <2>1 DEF Carries
    <3> QED
      BY <2>1, <3>2, <3>3, <3>4 DEF Carries
  <2> QED
    BY <2>2, <2>3
<1> QED
  BY <1>1, <1>4, <1>5, <1>6 DEF MovesInv
\* A move goes a step on and changes its Bot's computer or adds to its files: no other move is of
\* that Bot.
LEMMA MoveActs ==
  ASSUME MovesInv, NEW m \in Moves, move[m].at # "idle", NEW row \in MoveRows,
         move' = [move EXCEPT ![m] = row], row.bot = move[m].bot,
         NEW p \in Placing!Places, NEW state \in {"absent", "stopped", "running"},
         computer' = [computer EXCEPT ![p][move[m].bot] = state],
         state = "absent" => computer[p][move[m].bot] = "absent",
         NEW files \in SUBSET Placing!Files,
         disk' = [disk EXCEPT ![p][move[m].bot] = files], disk[p][move[m].bot] \subseteq files,
         UNCHANGED <<placement, kept>>,
         Carries(row)'
  PROVE  MovesInv'
<1> DEFINE b == move[m].bot
<1>0. b \in MovedBots
  BY DEF MovesInv, MeshStands
<1>1. MeshStands' /\ OneMove'
  BY <1>0 DEF MovesInv, MeshStands, OneMove
<1>2. \A q \in Placing!Places, o \in MovedBots :
         /\ computer'[q][o] = (IF q = p /\ o = b THEN state ELSE computer[q][o])
         /\ disk'[q][o] = (IF q = p /\ o = b THEN files ELSE disk[q][o])
  BY DEF MovesInv, MeshStands
<1>3. \A o \in MovedBots : placement[o] \in Placing!Places
  BY DEF MovesInv, MeshStands
<1> HIDE DEF b
<1>4. AbsentIsEmpty'
  BY <1>2, <1>3 DEF MovesInv, AbsentIsEmpty, b
<1>5. Placing!FilesFollow'
  BY <1>2, <1>3 DEF MovesInv, Placing!FilesFollow, b
<1>6. ASSUME NEW k \in Moves PROVE Carries(move[k])'
  <2>1. Carries(move[k]) /\ move[k] \in MoveRows /\ move'[k] = (IF k = m THEN row ELSE move[k])
    BY DEF MovesInv, MeshStands
  <2>2. CASE k = m
    BY <2>1, <2>2 DEF Carries
  <2>3. CASE k # m /\ move[k].at = "idle"
    BY <2>1, <2>3 DEF Carries, Bundled, Restoring
  <2>4. CASE k # m /\ move[k].at # "idle"
    <3>1. move[k].bot \in MovedBots /\ move[k].to \in Placing!Places /\ move[k].from \in Placing!Places
      BY <2>1, <2>4 DEF MovesInv, MeshStands, MoveRows
    <3>2. move[k].bot # b
      BY <2>4 DEF MovesInv, OneMove, b
    <3>3. /\ computer'[move[k].to][move[k].bot] = computer[move[k].to][move[k].bot]
          /\ computer'[move[k].from][move[k].bot] = computer[move[k].from][move[k].bot]
          /\ disk'[move[k].to][move[k].bot] = disk[move[k].to][move[k].bot]
      BY <1>2, <3>1, <3>2
    <3> QED
      BY <2>1, <2>4, <3>3 DEF Carries
  <2> QED
    BY <2>2, <2>3, <2>4
<1> QED
  BY <1>1, <1>4, <1>5, <1>6 DEF MovesInv

\* No move is a move of nothing.
LEMMA NoMoveRow == Placing!NoMove \in MoveRows /\ Placing!NoMove.at = "idle" /\ ~Placing!NoMove.bundled
BY DEF Placing!NoMove, MoveRows, Placing!Steps, Placing!Places, Placing!Files

\* A move that goes a step on keeps all but the step.
LEMMA RowGoes ==
  ASSUME NEW row \in MoveRows, NEW at \in Placing!Steps
  PROVE  /\ [row EXCEPT !.at = at] \in MoveRows
         /\ [row EXCEPT !.at = at].at = at
         /\ [row EXCEPT !.at = at].bot = row.bot
         /\ [row EXCEPT !.at = at].from = row.from
         /\ [row EXCEPT !.at = at].to = row.to
         /\ [row EXCEPT !.at = at].bundled = row.bundled
         /\ [row EXCEPT !.at = at].bundle = row.bundle
BY DEF MoveRows

\* Every step of a move keeps what it has carried so far.
LEMMA MovesInvStays == Quiet /\ Answering /\ MovesInv /\ [Placing!Next]_meshVars => MovesInv'
<1> SUFFICES ASSUME Quiet, Answering, MovesInv, [Placing!Next]_meshVars PROVE MovesInv'
  OBVIOUS
<1>0. /\ \A m \in Moves : move[m] \in MoveRows /\ Carries(move[m])
      /\ \A b \in MovedBots : placement[b] \in Placing!Places /\ kept[b] \in SUBSET Placing!Files
      /\ \A p \in Placing!Places, b \in MovedBots :
            disk[p][b] \in SUBSET Placing!Files /\ computer[p][b] \in {"absent", "stopped", "running"}
      /\ \A b \in MovedBots : kept[b] \subseteq disk[placement[b]][b]
  BY DEF MovesInv, MeshStands, Placing!FilesFollow
<1>1. ASSUME UNCHANGED <<placement, computer, disk, move, kept>> PROVE MovesInv'
  BY <1>1 DEF MovesInv, MeshStands, OneMove, AbsentIsEmpty, Carries, Placing!FilesFollow
<1>2. ASSUME NEW t \in Tokens, Placing!Mint(t) \/ Placing!Expire(t) PROVE MovesInv'
  BY <1>1, <1>2 DEF Placing!Mint, Placing!Expire, Placing!tables
<1>3. ASSUME NEW j \in Joins, Placing!Enrolled(j) \/ Placing!Unreached(j)
             \/ \E t \in Tokens, n \in Nodes : Placing!Consume(j, t, n)
      PROVE  MovesInv'
  BY <1>1, <1>3 DEF Placing!Enrolled, Placing!Unreached, Placing!Consume, Placing!tables
<1>4. ASSUME NEW n \in Nodes, Placing!Remove(n) \/ \E on \in BOOLEAN : Placing!SetPlacementEnabled(n, on)
      PROVE  MovesInv'
  BY <1>1, <1>4 DEF Placing!Remove, Placing!SetPlacementEnabled
<1>5. ASSUME NEW b \in MovedBots, Placing!Undisturbed(b)
      PROVE  \A m \in Moves : move[m].at # "idle" => move[m].bot # b
  BY <1>5 DEF Placing!Undisturbed, Placing!Moving
<1>6. ASSUME NEW b \in MovedBots, NEW f \in Placing!Files, Placing!Act(b, f) PROVE MovesInv'
  <2> DEFINE p == placement[b]
  <2>1. /\ Placing!Undisturbed(b) /\ computer' = [computer EXCEPT ![p][b] = "running"]
        /\ UNCHANGED <<placement, move>>
    BY <1>6 DEF Placing!Act, Placing!tables
  <2>2. PICK files \in {disk[p][b] \cup {f}, disk[p][b] \ {f}}, mine \in {kept[b] \cup {f}, kept[b] \ {f}} :
          /\ disk' = [disk EXCEPT ![p][b] = files] /\ kept' = [kept EXCEPT ![b] = mine]
          /\ mine \subseteq files
    BY <1>6, <1>0 DEF Placing!Act
  <2>3. files \in SUBSET Placing!Files /\ mine \in SUBSET Placing!Files
    BY <1>0, <2>2
  <2> QED
    BY <2>1, <2>2, <2>3, <1>5, HomeStands
<1>7. ASSUME NEW b \in MovedBots, Placing!Stop(b) PROVE MovesInv'
  <2> DEFINE p == placement[b]
  <2>1. /\ Placing!Undisturbed(b) /\ computer' = [computer EXCEPT ![p][b] = "stopped"]
        /\ UNCHANGED <<placement, move, disk, kept>>
    BY <1>7 DEF Placing!Stop, Placing!tables
  <2>2. disk' = [disk EXCEPT ![p][b] = disk[p][b]] /\ kept' = [kept EXCEPT ![b] = kept[b]]
    BY <2>1 DEF MovesInv, MeshStands
  <2>3. /\ disk[p][b] \in SUBSET Placing!Files /\ kept[b] \in SUBSET Placing!Files
        /\ kept[b] \subseteq disk[p][b]
    BY <1>0
  <2>4. \A m \in Moves : move[m].at # "idle" => move[m].bot # b
    BY <2>1, <1>5
  <2> QED
    BY <2>1, <2>2, <2>3, <2>4, HomeStands
<1>8. ASSUME NEW b \in MovedBots, Placing!Reset(b) PROVE MovesInv'
  <2>1. /\ Placing!Undisturbed(b) /\ computer' = [computer EXCEPT ![placement[b]][b] = "absent"]
        /\ disk' = [disk EXCEPT ![placement[b]][b] = {}] /\ kept' = [kept EXCEPT ![b] = {}]
        /\ UNCHANGED <<placement, move>>
    BY <1>8 DEF Placing!Reset, Placing!tables
  <2>2. \A m \in Moves : move[m].at # "idle" => move[m].bot # b
    BY <2>1, <1>5
  <2>3. {} \in SUBSET Placing!Files
    OBVIOUS
  <2> QED
    BY <2>1, <2>2, <2>3, HomeStands
<1>9. ASSUME NEW b \in MovedBots, NEW p \in Placing!Places, Placing!Halts(p, b) PROVE MovesInv'
  <2>1. /\ computer' = [computer EXCEPT ![p][b] = "stopped"] /\ UNCHANGED <<placement, move, disk, kept>>
        /\ \A m \in Moves : ~(move[m].at = "asked" /\ move[m].bot = b)
    BY <1>9 DEF Placing!Halts, Placing!tables
  <2>2. disk' = [disk EXCEPT ![p][b] = disk[p][b]]
    BY <2>1 DEF MovesInv, MeshStands
  <2>3. disk[p][b] \in SUBSET Placing!Files
    BY <1>0
  <2>4. UNCHANGED <<placement, move, kept>> /\ disk[p][b] \subseteq disk[p][b] /\ "stopped" \in {"stopped", "running"}
    BY <2>1
  <2>5. \A m \in Moves : move[m].at = "asked" /\ move[m].bot = b /\ p = move[m].from => "stopped" # "stopped"
    BY <2>1
  <2>6. computer' = [computer EXCEPT ![p][b] = "stopped"]
    BY <2>1
  <2> QED
    BY <2>2, <2>3, <2>4, <2>5, <2>6, PlaceStands
<1>10. ASSUME NEW m \in Moves, NEW b \in MovedBots, NEW to \in Placing!Places, Placing!Begin(m, b, to)
       PROVE  MovesInv'
  <2> DEFINE row == [Placing!NoMove EXCEPT !.at = "asked", !.bot = b, !.from = placement[b], !.to = to]
  <2>1. /\ Placing!Undisturbed(b) /\ placement[b] # to /\ computer[placement[b]][b] # "stopped"
        /\ move' = [move EXCEPT ![m] = row] /\ UNCHANGED <<placement, computer, disk, kept>>
    BY <1>10 DEF Placing!Begin, Placing!tables
  <2>2. row \in MoveRows
    BY <1>0, NoMoveRow DEF MoveRows, Placing!Steps
  <2>3. row.at = "asked" /\ row.bot = b /\ row.from = placement[b] /\ row.to = to /\ ~row.bundled
    BY NoMoveRow DEF Placing!NoMove
  <2> HIDE DEF row
  <2>4. Carries(row)
    BY <2>1, <2>3 DEF Carries, Bundled, Restoring
  <2> QED
    BY <2>1, <2>2, <2>3, <2>4, <1>5, MoveGoesOn
<1>11. ASSUME NEW m \in Moves, move[m].at # "idle" PROVE
         /\ move[m].bot \in MovedBots /\ move[m].from = placement[move[m].bot] /\ move[m].to # move[m].from
         /\ move[m].to \in Placing!Places /\ move[m].from \in Placing!Places
         /\ \A o \in Moves \ {m} : move[o].at # "idle" => move[o].bot # move[m].bot
  <2>1. move[m].bot \in MovedBots /\ \A o \in Moves \ {m} : move[o].at # "idle" => move[o].bot # move[m].bot
    BY <1>11 DEF MovesInv, MeshStands, OneMove
  <2>2. Carries(move[m]) /\ move[m].to \in Placing!Places /\ move[m].from \in Placing!Places
    BY <1>0 DEF MoveRows
  <2> QED
    BY <1>11, <2>1, <2>2 DEF Carries
<1>12. ASSUME NEW m \in Moves, Placing!AskStatus(m) PROVE MovesInv'
  <2> DEFINE b == move[m].bot
  <2>1. /\ move[m].at = "asked" /\ UNCHANGED <<placement, computer, disk, kept>>
        /\ \/ computer[move[m].from][b] = "running" /\ Placing!Goes(m, "bundling")
           \/ computer[move[m].from][b] # "running" /\ Placing!Goes(m, "target")
    BY <1>12 DEF Placing!AskStatus, Placing!tables
  <2>2. PICK at \in {"bundling", "target"} : 
          /\ at = "target" => computer[move[m].from][b] # "running"
          /\ move' = [move EXCEPT ![m].at = at]
    BY <2>1 DEF Placing!Goes
  <2> DEFINE row == [move[m] EXCEPT !.at = at]
  <2>3. at \in Placing!Steps
    BY DEF Placing!Steps
  <2>4. /\ row \in MoveRows /\ row.bot = b
        /\ row.at = at /\ row.from = move[m].from /\ row.to = move[m].to
        /\ row.bundled = move[m].bundled /\ row.bundle = move[m].bundle
    BY <1>0, <2>3, RowGoes
  <2>5. move' = [move EXCEPT ![m] = row]
    BY <2>2, <1>0 DEF MovesInv, MeshStands
  <2> HIDE DEF row
  <2>6. at = "target" => kept[b] = {}
    BY <2>1, <2>2, <1>0, <1>11 DEF Carries, MovesInv, AbsentIsEmpty
  <2>7. Carries(row)
    BY <2>1, <2>2, <2>4, <2>6, <1>11, <1>0 DEF Carries, Bundled, Restoring
  <2> QED
    BY <2>1, <2>4, <2>5, <2>7, <1>11, MoveGoesOn
<1>13. ASSUME NEW m \in Moves, Placing!Bundle(m) PROVE MovesInv'
  <2> DEFINE b == move[m].bot
             p == move[m].from
  <2>0. PICK row : row = [move[m] EXCEPT !.at = "target", !.bundled = TRUE, !.bundle = disk[p][b]]
    OBVIOUS
  <2>1. /\ move[m].at = "bundling" /\ computer' = [computer EXCEPT ![p][b] = "running"]
        /\ move' = [move EXCEPT ![m] = row] /\ UNCHANGED <<placement, disk, kept>>
    BY <1>13, <2>0 DEF Placing!Bundle, Placing!tables
  <2>2. /\ move[m] \in MoveRows /\ b \in MovedBots /\ p \in Placing!Places /\ p = placement[b]
        /\ disk[p][b] \in SUBSET Placing!Files /\ kept[b] \subseteq disk[p][b] /\ move[m].to # p
    BY <1>0, <1>11, <2>1
  <2>3. /\ row \in MoveRows /\ row.bot = b /\ row.at = "target" /\ row.from = p /\ row.to = move[m].to
        /\ row.bundle = disk[p][b] /\ row.bundled
    BY <2>0, <2>2 DEF MoveRows, Placing!Steps
  <2>4. disk' = [disk EXCEPT ![p][b] = disk[p][b]]
    BY <2>1 DEF MovesInv, MeshStands
  <2>5. Carries(row)'
    BY <2>1, <2>2, <2>3 DEF Carries, Bundled, Restoring
  <2>6. move[m].at # "idle" /\ disk[p][b] \subseteq disk[p][b] /\ "running" # "absent"
    BY <2>1
  <2> QED
    BY <2>1, <2>2, <2>3, <2>4, <2>5, <2>6, MoveActs
<1>14. ASSUME NEW m \in Moves, Placing!EnsureTarget(m) PROVE MovesInv'
  <2> DEFINE b == move[m].bot
             p == move[m].to
             at == IF move[m].bundled THEN "workspace" ELSE "placing"
  <2>0. PICK row : row = [move[m] EXCEPT !.at = at]
    OBVIOUS
  <2>1. /\ move[m].at = "target" /\ computer' = [computer EXCEPT ![p][b] = "running"]
        /\ move' = [move EXCEPT ![m].at = at] /\ UNCHANGED <<placement, disk, kept>>
    BY <1>14 DEF Placing!EnsureTarget, Placing!tables, Placing!Goes
  <2>2. at \in Placing!Steps
    BY DEF Placing!Steps
  <2>3. /\ row \in MoveRows /\ row.bot = b
        /\ row.at = at /\ row.from = move[m].from /\ row.to = move[m].to
        /\ row.bundled = move[m].bundled /\ row.bundle = move[m].bundle
    BY <1>0, <2>0, <2>2, RowGoes
  <2>4. move' = [move EXCEPT ![m] = row] /\ disk' = [disk EXCEPT ![p][b] = disk[p][b]]
    BY <2>0, <2>1, <1>0 DEF MovesInv, MeshStands
  <2>5. /\ b \in MovedBots /\ p \in Placing!Places /\ disk[p][b] \in SUBSET Placing!Files
        /\ move[m].from = placement[b] /\ p # move[m].from /\ Carries(move[m])
    BY <2>1, <1>0, <1>11
  <2>6. computer'[p][b] = "running"
    BY <2>1, <2>5 DEF MovesInv, MeshStands
  <2>7. Carries(row)'
    BY <2>1, <2>3, <2>5, <2>6 DEF Carries, Bundled, Restoring
  <2>8. move[m].at # "idle" /\ disk[p][b] \subseteq disk[p][b] /\ "running" # "absent"
    BY <2>1
  <2> QED
    BY <2>1, <2>3, <2>4, <2>5, <2>7, <2>8, MoveActs
<1>15. ASSUME NEW m \in Moves, NEW part, NEW at \in Placing!Steps, Placing!Extract(m, part, at),
              \/ move[m].at = "workspace" /\ at = "profiles" /\ part = WorkspaceFiles
              \/ move[m].at = "profiles" /\ at = "stopping" /\ part = ProfileFiles
       PROVE  MovesInv'
  <2> DEFINE b == move[m].bot
             p == move[m].to
             files == disk[p][b] \cup (move[m].bundle \cap part)
  <2>0. PICK row : row = [move[m] EXCEPT !.at = at]
    OBVIOUS
  <2>1. /\ computer[p][b] = "running" /\ disk' = [disk EXCEPT ![p][b] = @ \cup (move[m].bundle \cap part)]
        /\ move' = [move EXCEPT ![m].at = at] /\ UNCHANGED <<placement, computer, kept>>
    BY <1>15 DEF Placing!Extract, Placing!tables, Placing!Goes
  <2>2. /\ row \in MoveRows /\ row.bot = b
        /\ row.at = at /\ row.from = move[m].from /\ row.to = move[m].to
        /\ row.bundled = move[m].bundled /\ row.bundle = move[m].bundle
    BY <1>0, <2>0, RowGoes
  <2>3. move[m].at # "idle"
    BY <1>15
  <2>4. /\ b \in MovedBots /\ p \in Placing!Places /\ disk[p][b] \in SUBSET Placing!Files
        /\ move[m].from = placement[b] /\ p # move[m].from /\ Carries(move[m])
    BY <2>3, <1>0, <1>11
  <2>5. move[m].bundle \in SUBSET Placing!Files
    BY <1>0 DEF MoveRows
  <2>6. /\ move' = [move EXCEPT ![m] = row] /\ disk' = [disk EXCEPT ![p][b] = files]
        /\ computer' = [computer EXCEPT ![p][b] = "running"]
    BY <2>0, <2>1, <2>4, <1>0 DEF MovesInv, MeshStands
  <2>7. files \in SUBSET Placing!Files /\ disk[p][b] \subseteq files
    BY <2>4, <2>5
  <2>8. disk'[p][b] = files /\ computer'[p][b] = "running"
    BY <2>1, <2>4, <2>6 DEF MovesInv, MeshStands
  <2>9. Carries(row)'
    BY <1>15, <2>1, <2>2, <2>4, <2>8 DEF Carries, Bundled, Restoring
  <2> HIDE DEF files
  <2>10. computer[p][b] # "absent" /\ "running" # "absent"
    BY <2>1
  <2> QED
    BY <2>1, <2>2, <2>3, <2>4, <2>6, <2>7, <2>9, <2>10, MoveActs
<1>16. ASSUME NEW m \in Moves, Placing!RestoreWorkspace(m) \/ Placing!RestoreProfiles(m) PROVE MovesInv'
  <2>1. "profiles" \in Placing!Steps /\ "stopping" \in Placing!Steps
    BY DEF Placing!Steps
  <2> QED
    BY <1>15, <1>16, <2>1 DEF Placing!RestoreWorkspace, Placing!RestoreProfiles
<1>17. ASSUME NEW m \in Moves, Placing!StopSource(m) PROVE MovesInv'
  <2> DEFINE b == move[m].bot
             p == move[m].from
             state == IF computer[p][b] = "running" THEN "stopped" ELSE computer[p][b]
  <2>0. PICK row : row = [move[m] EXCEPT !.at = "placing"]
    OBVIOUS
  <2>1. /\ move[m].at = "stopping" /\ UNCHANGED <<placement, disk, kept>>
        /\ computer' = [computer EXCEPT ![p][b] = IF @ = "running" THEN "stopped" ELSE @]
        /\ move' = [move EXCEPT ![m].at = "placing"]
    BY <1>17 DEF Placing!StopSource, Placing!tables, Placing!Goes
  <2>2. "placing" \in Placing!Steps
    BY DEF Placing!Steps
  <2>3. /\ row \in MoveRows /\ row.bot = b
        /\ row.at = "placing" /\ row.from = move[m].from /\ row.to = move[m].to
        /\ row.bundled = move[m].bundled /\ row.bundle = move[m].bundle
    BY <1>0, <2>0, <2>2, RowGoes
  <2>4. /\ b \in MovedBots /\ p \in Placing!Places /\ disk[p][b] \in SUBSET Placing!Files
        /\ move[m].to \in Placing!Places
        /\ p = placement[b] /\ move[m].to # p /\ Carries(move[m])
    BY <2>1, <1>0, <1>11
  <2>5. /\ move' = [move EXCEPT ![m] = row] /\ disk' = [disk EXCEPT ![p][b] = disk[p][b]]
        /\ computer' = [computer EXCEPT ![p][b] = state]
    BY <2>0, <2>1, <2>4, <1>0 DEF MovesInv, MeshStands
  <2>6. state \in {"absent", "stopped", "running"} /\ (state = "absent" => computer[p][b] = "absent")
    BY <2>4, <1>0
  <2>7. computer'[move[m].to][b] = computer[move[m].to][b]
    BY <2>4, <2>5 DEF MovesInv, MeshStands
  <2> HIDE DEF state
  <2>8. Carries(row)'
    BY <2>1, <2>3, <2>4, <2>7 DEF Carries, Bundled, Restoring
  <2>9. move[m].at # "idle" /\ disk[p][b] \subseteq disk[p][b]
    BY <2>1
  <2> QED
    BY <2>1, <2>3, <2>4, <2>5, <2>6, <2>8, <2>9, MoveActs
<1>18. ASSUME NEW m \in Moves, Placing!Place(m) PROVE MovesInv'
  <2> DEFINE b == move[m].bot
             p == move[m].to
  <2>1. /\ move[m].at = "placing" /\ UNCHANGED <<computer, disk, kept>>
        /\ placement' = [placement EXCEPT ![b] = p]
        /\ move' = [move EXCEPT ![m] = Placing!NoMove]
    BY <1>18 DEF Placing!Place
  <2>2. /\ b \in MovedBots /\ p \in Placing!Places /\ Carries(move[m])
        /\ \A o \in Moves \ {m} : move[o].at # "idle" => move[o].bot # b
    BY <2>1, <1>0, <1>11
  <2>3. computer[p][b] # "absent" /\ kept[b] \subseteq disk[p][b]
    <3>1. /\ computer[p][b] # "absent"
          /\ kept[b] \cap WorkspaceFiles \subseteq disk[p][b] /\ kept[b] \cap ProfileFiles \subseteq disk[p][b]
      BY <2>1, <2>2 DEF Carries, Restoring
    <3> QED
      BY <3>1, <2>2, <1>0 DEF Placing!Files
  <2>4. MeshStands' /\ OneMove'
    BY <2>1, <2>2, NoMoveRow DEF MovesInv, MeshStands, OneMove
  <2>5. \A o \in MovedBots : placement'[o] = IF o = b THEN p ELSE placement[o]
    BY <2>1 DEF MovesInv, MeshStands
  <2>6. AbsentIsEmpty' /\ Placing!FilesFollow'
    BY <2>1, <2>3, <2>5 DEF MovesInv, AbsentIsEmpty, Placing!FilesFollow
  <2>7. ASSUME NEW o \in Moves PROVE Carries(move[o])'
    <3>1. move'[o] = IF o = m THEN Placing!NoMove ELSE move[o]
      BY <2>1 DEF MovesInv, MeshStands
    <3>2. CASE move'[o].at = "idle"
      BY <3>2 DEF Carries, Bundled, Restoring
    <3>3. CASE move'[o].at # "idle"
      <4>1. o # m /\ move'[o] = move[o] /\ Carries(move[o])
        BY <3>1, <3>3, <1>0, NoMoveRow
      <4>2. move[o].bot \in MovedBots \ {b}
        BY <3>3, <4>1, <2>2 DEF MovesInv, MeshStands
      <4>3. placement'[move[o].bot] = placement[move[o].bot]
        BY <4>2, <2>5
      <4> QED
        BY <4>1, <4>3, <2>1 DEF Carries
    <3> QED
      BY <3>2, <3>3
  <2> QED
    BY <2>4, <2>6, <2>7 DEF MovesInv
<1>19. ASSUME NEW m \in Moves, Placing!MoveFails(m) PROVE MovesInv'
  <2>1. /\ UNCHANGED <<placement, computer, disk, kept>>
        /\ move' = [move EXCEPT ![m] = Placing!NoMove]
    BY <1>19 DEF Placing!MoveFails, Placing!tables
  <2>2. Carries(Placing!NoMove)
    BY NoMoveRow DEF Carries, Bundled, Restoring
  <2> QED
    BY <2>1, <2>2, NoMoveRow, MoveGoesOn
<1>20. CASE UNCHANGED meshVars
  BY <1>1, <1>20 DEF meshVars
<1> QED
  BY <1>2, <1>3, <1>4, <1>6, <1>7, <1>8, <1>9, <1>10, <1>12, <1>13, <1>14, <1>16, <1>17, <1>18, <1>19, <1>20
     DEF Placing!Next
-----------------------------------------------------------------------------
(***************************************************************************)
(* The mesh: a token that admits one node.                                 *)
(***************************************************************************)

JoinRows == [at : {"new", "checking", "done"}, token : Tokens \cup {Placing!NoJoin.token},
             id : Nodes \cup {Placing!NoJoin.id}]

enrolmentVars == <<token, join, admitted>>

\* The requests a token has let in or is about to.
LetIn(t) == admitted[t] \cup {j \in Joins : join[j].at = "checking" /\ join[j].token = t}

\* A token that is not used up has let nobody in, and a used one lets in one request.
JoinsInv ==
    /\ token \in [Tokens -> {"unminted", "fresh", "expired", "used"}]
    /\ admitted \in [Tokens -> SUBSET Joins]
    /\ join \in [Joins -> JoinRows]
    /\ \A j \in Joins : join[j].at # "new" => join[j].token \in Tokens
    /\ \A t \in Tokens : /\ token[t] # "used" => LetIn(t) = {}
                         /\ \A j, k \in LetIn(t) : j = k

\* Every enrolment keeps a token to one request.
LEMMA JoinsInvStays == JoinsInv /\ [Placing!Next]_meshVars => JoinsInv'
<1> SUFFICES ASSUME JoinsInv, [Placing!Next]_meshVars PROVE JoinsInv'
  OBVIOUS
<1>1. ASSUME NEW t \in Tokens, Placing!Mint(t) \/ Placing!Expire(t) PROVE JoinsInv'
  <2>1. /\ UNCHANGED <<join, admitted>> /\ token[t] \in {"unminted", "fresh"}
        /\ token' \in {[token EXCEPT ![t] = "fresh"], [token EXCEPT ![t] = "expired"]}
    BY <1>1 DEF Placing!Mint, Placing!Expire
  <2>2. \A o \in Tokens : LetIn(o)' = LetIn(o) /\ (token'[o] # "used" => token[o] # "used")
    BY <2>1 DEF LetIn, JoinsInv
  <2> QED
    BY <2>1, <2>2 DEF JoinsInv
<1>2. ASSUME NEW j \in Joins, NEW t \in Tokens, NEW n \in Nodes, Placing!Consume(j, t, n) PROVE JoinsInv'
  <2>0. PICK row : row = [at |-> IF token[t] = "fresh" THEN "checking" ELSE "done", token |-> t, id |-> n]
    OBVIOUS
  <2>1. /\ row \in JoinRows /\ row.at \in {"checking", "done"} /\ row.token = t
        /\ row.at = "checking" => token[t] = "fresh"
        /\ join' = [join EXCEPT ![j] = row]
    BY <1>2, <2>0 DEF Placing!Consume, JoinRows
  <2>2. /\ join[j].at = "new" /\ admitted' = admitted /\ token' = [token EXCEPT ![t] = "used"]
    BY <1>2 DEF Placing!Consume
  <2>3. \A o \in Tokens : LetIn(o)' \subseteq IF o = t THEN LetIn(o) \cup {j} ELSE LetIn(o)
    BY <2>1, <2>2 DEF LetIn, JoinsInv
  <2>4. token[t] # "fresh" => LetIn(t)' = LetIn(t)
    BY <2>1, <2>2 DEF LetIn, JoinsInv
  <2>5. token[t] = "fresh" => LetIn(t) = {}
    BY DEF JoinsInv
  <2>6. \A o \in Tokens : /\ token'[o] # "used" => LetIn(o)' = {}
                          /\ \A i, k \in LetIn(o)' : i = k
    BY <2>2, <2>3, <2>4, <2>5 DEF JoinsInv
  <2> QED
    BY <2>1, <2>2, <2>6 DEF JoinsInv
<1>3. ASSUME NEW j \in Joins, Placing!Enrolled(j) \/ Placing!Unreached(j) PROVE JoinsInv'
  <2> DEFINE t == join[j].token
  <2>1. /\ join[j].at = "checking" /\ token' = token /\ join' = [join EXCEPT ![j].at = "done"]
        /\ admitted' \in {admitted, [admitted EXCEPT ![t] = admitted[t] \cup {j}]}
    BY <1>3 DEF Placing!Enrolled, Placing!Unreached, JoinsInv
  <2>2. t \in Tokens /\ j \in LetIn(t)
    BY <2>1 DEF JoinsInv, LetIn
  <2>3. join' \in [Joins -> JoinRows] /\ admitted' \in [Tokens -> SUBSET Joins]
        /\ \A o \in Joins : join'[o].token = join[o].token /\ join'[o].at = IF o = j THEN "done" ELSE join[o].at
    BY <2>1, <2>2 DEF JoinsInv, JoinRows
  <2>4. \A o \in Tokens : LetIn(o)' \subseteq LetIn(o)
    BY <2>1, <2>2, <2>3 DEF LetIn, JoinsInv
  <2> QED
    BY <2>1, <2>2, <2>3, <2>4 DEF JoinsInv
<1>4. ASSUME UNCHANGED enrolmentVars PROVE JoinsInv'
  BY <1>4 DEF enrolmentVars, JoinsInv, LetIn
<1>5. \A n \in Nodes : Placing!Remove(n) \/ (\E on \in BOOLEAN : Placing!SetPlacementEnabled(n, on)) => UNCHANGED enrolmentVars
  BY DEF Placing!Remove, Placing!SetPlacementEnabled, Placing!enrolment, enrolmentVars
<1>6. \A b \in MovedBots :
        Placing!Stop(b) \/ Placing!Reset(b) \/ (\E f \in Placing!Files : Placing!Act(b, f))
        \/ (\E p \in Placing!Places : Placing!Halts(p, b)) => UNCHANGED enrolmentVars
  BY DEF Placing!Stop, Placing!Reset, Placing!Act, Placing!Halts, Placing!enrolment, enrolmentVars
<1>7. \A m \in Moves :
        (\E b \in MovedBots, to \in Placing!Places : Placing!Begin(m, b, to)) \/ Placing!AskStatus(m)
        \/ Placing!Bundle(m) \/ Placing!EnsureTarget(m) \/ Placing!RestoreWorkspace(m)
        \/ Placing!RestoreProfiles(m) \/ Placing!StopSource(m) \/ Placing!Place(m) \/ Placing!MoveFails(m)
        => UNCHANGED enrolmentVars
  BY DEF Placing!Begin, Placing!AskStatus, Placing!Bundle, Placing!EnsureTarget, Placing!RestoreWorkspace,
         Placing!RestoreProfiles, Placing!Extract, Placing!StopSource, Placing!Place, Placing!MoveFails,
         Placing!enrolment, enrolmentVars
<1>8. UNCHANGED meshVars => UNCHANGED enrolmentVars
  BY DEF meshVars, enrolmentVars
<1> QED
  BY <1>1, <1>2, <1>3, <1>4, <1>5, <1>6, <1>7, <1>8 DEF Placing!Next

\* One request at most is one node at most.
LEMMA OneIsAdmitted == JoinsInv => Placing!TokenAdmitsOne
<1>0. \A S : Placing!Cardinality(S) = Cardinality(S)
  BY DEF Placing!Cardinality, Cardinality
<1> SUFFICES ASSUME JoinsInv, NEW t \in Tokens PROVE Cardinality(admitted[t]) <= 1
  BY <1>0 DEF Placing!TokenAdmitsOne
<1>1. \A j, k \in admitted[t] : j = k
  BY DEF JoinsInv, LetIn
<1>2. CASE admitted[t] = {}
  BY <1>2, FS_EmptySet
<1>3. CASE admitted[t] # {}
  <2>1. PICK j : admitted[t] = {j}
    BY <1>1, <1>3
  <2> QED
    BY <2>1, FS_Singleton
<1> QED
  BY <1>2, <1>3
-----------------------------------------------------------------------------
(***************************************************************************)
(* The wheel of a computer and its secrets.                                *)
(***************************************************************************)

ControlStands ==
    /\ holder \in {"bot", "human"} /\ pending \in Fields \cup {Control!None}
    /\ acting \in [BotCalls -> {"idle", "admitted"}]
    /\ sending \in [Control!Senders -> {"idle", "ready", "delivering", "filled"}]
    /\ meant \in [Control!Senders -> Fields \cup {Control!None}]
    /\ into \in [Control!Senders -> Fields \cup {Control!None}]
    /\ contents \in [Fields -> Fields \cup {Control!None}]
    /\ captured \in [BotCalls -> SUBSET Fields]
    /\ late \in Nat /\ inflight \in Nat
    /\ \A d \in Control!Senders : sending[d] # "idle" => meant[d] \in Fields

\* No document was loaded since a secret was asked for, and every sender that still may deliver is
\* bound for the field its value is for.
SecretsAreMeant ==
    /\ moved = FALSE /\ misplaced = FALSE
    /\ astray = [d \in Control!Senders |-> FALSE]
    /\ \A d \in Control!Senders :
          /\ sending[d] = "ready" /\ pending # Control!None => meant[d] = pending
          /\ sending[d] = "delivering" => into[d] = meant[d]

Distinct(s) == \A i, j \in DOMAIN s : s[i] = s[j] => i = j
Holds(s, v) == \E i \in DOMAIN s : s[i] = v

\* A value that is in a field, or was when the page was described, is remembered or about to be.
Known(v) == Holds(remembered, v) \/ \E d \in Control!Senders : sending[d] = "filled" /\ meant[d] = v
EchoesAreKnown ==
    /\ remembered \in Seq(Fields) /\ Distinct(remembered)
    /\ Cardinality(Fields) <= Ring =>
          /\ \A f \in Fields : contents[f] # Control!None => Known(contents[f])
          /\ \A b \in BotCalls : \A v \in captured[b] : Known(v)

ControlInv == ControlStands /\ SecretsAreMeant /\ EchoesAreKnown /\ Control!TakeoverIsBounded

\* What is admitted can be counted.
Admitted == {b \in BotCalls : acting[b] = "admitted"}

\* What is admitted can be counted.
LEMMA AdmittedIsFinite == IsFiniteSet(Admitted) /\ Cardinality(Admitted) \in Nat
BY FiniteAssumption, FS_Subset, FS_CardinalityType DEF Admitted

\* The wheel counts calls as everybody does.
LEMMA Counts == Control!Cardinality(Admitted) = Cardinality(Admitted)
BY DEF Control!Cardinality, Cardinality

\* So it does fields.
LEMMA FieldsCount == Control!Cardinality(Fields) = Cardinality(Fields)
BY DEF Control!Cardinality, Cardinality

\* Distinct values of a finite set are no more than the set has.
LEMMA DistinctFit ==
  ASSUME NEW s \in Seq(Fields), Distinct(s)
  PROVE  Len(s) <= Cardinality(Fields)
<1>1. s \in Injection(1 .. Len(s), Fields)
  BY DEF Distinct, Injection, IsInjective
<1>2. Cardinality(1 .. Len(s)) <= Cardinality(Fields)
  BY <1>1, FS_Injection, FiniteAssumption
<1>3. Cardinality(1 .. Len(s)) = Len(s)
  <2>1. Len(s) \in Nat /\ Len(s) \in Int /\ 1 \in Int
    OBVIOUS
  <2>2. Cardinality(1 .. Len(s)) = IF 1 > Len(s) THEN 0 ELSE Len(s) - 1 + 1
    BY <2>1, FS_Interval
  <2> QED
    BY <2>1, <2>2
<1> QED
  BY <1>2, <1>3

\* A value that is remembered stays so as long as the ring has room for every field's.
LEMMA RingKeeps ==
  ASSUME NEW s \in Seq(Fields), Distinct(s), NEW v \in Fields
  PROVE  /\ Control!Remember(s, v) \in Seq(Fields) /\ Distinct(Control!Remember(s, v))
         /\ Cardinality(Fields) <= Ring =>
               \A w : Holds(s, w) \/ w = v => Holds(Control!Remember(s, v), w)
<1> DEFINE grown == Append(s, v)
<1>1. CASE Control!Contains(s, v)
  <2>1. Control!Remember(s, v) = s
    BY <1>1 DEF Control!Remember
  <2> QED
    BY <1>1, <2>1 DEF Control!Contains, Holds
<1>2. CASE ~Control!Contains(s, v)
  <2>1. \A i \in 1 .. Len(s) : s[i] # v
    BY <1>2 DEF Control!Contains
  <2>2. grown \in Seq(Fields) /\ Distinct(grown) /\ Len(grown) = Len(s) + 1
    BY <2>1 DEF Distinct
  <2>3. \A w : Holds(s, w) \/ w = v => Holds(grown, w)
    <3>1. grown[Len(s) + 1] = v /\ \A i \in 1 .. Len(s) : grown[i] = s[i]
      OBVIOUS
    <3>2. DOMAIN grown = 1 .. Len(s) + 1 /\ DOMAIN s = 1 .. Len(s)
      OBVIOUS
    <3> HIDE DEF grown
    <3> QED
      BY <3>1, <3>2 DEF Holds
  <2>4. CASE Len(grown) > Ring
    <3>1. Control!Remember(s, v) = Tail(grown)
      BY <1>2, <2>4 DEF Control!Remember
    <3>2. Cardinality(Fields) > Ring
      <4>1. Cardinality(Fields) \in Nat /\ Len(grown) \in Nat
        BY <2>2, FiniteAssumption, FS_CardinalityType
      <4>2. Len(grown) <= Cardinality(Fields)
        BY <2>2, DistinctFit
      <4> QED
        BY <2>4, <4>1, <4>2, SizesAssumption
    <3>3. Tail(grown) \in Seq(Fields) /\ Distinct(Tail(grown))
      BY <2>2 DEF Distinct
    <3> QED
      BY <3>1, <3>2, <3>3, SizesAssumption, FiniteAssumption, FS_CardinalityType
  <2>5. CASE ~(Len(grown) > Ring)
    <3>1. Control!Remember(s, v) = grown
      BY <1>2, <2>5 DEF Control!Remember
    <3> QED
      BY <3>1, <2>2, <2>3
  <2> QED
    BY <2>4, <2>5
<1> QED
  BY <1>1, <1>2

\* The steps that leave the secrets, what fields hold and what was described alone.
LEMMA SecretsStand ==
  ASSUME ControlInv,
         UNCHANGED <<pending, sending, meant, into, contents, moved, astray, remembered, misplaced, captured>>
  PROVE  SecretsAreMeant' /\ EchoesAreKnown'
BY DEF ControlInv, SecretsAreMeant, EchoesAreKnown, Known, Holds, Distinct

\* The steps that leave the wheel alone.
LEMMA WheelStands ==
  ASSUME ControlInv, UNCHANGED <<holder, acting, late, inflight>>
  PROVE  Control!TakeoverIsBounded'
BY DEF ControlInv, Control!TakeoverIsBounded

\* Another document is loaded, or none, while senders stay as they are or no value is on its way.
LEMMA PageStands ==
  ASSUME ControlInv, PageStays, Control!MayTurn,
         UNCHANGED <<sending, meant, into, remembered, misplaced, captured>>,
         pending' \in {pending, Control!None}
  PROVE  /\ SecretsAreMeant' /\ EchoesAreKnown'
         /\ contents' \in [Fields -> Fields \cup {Control!None}]
<1>1. CASE UNCHANGED Control!pageVars
  <2>1. UNCHANGED <<contents, moved, astray>>
    BY <1>1 DEF Control!pageVars
  <2> QED
    BY <2>1 DEF ControlInv, ControlStands, SecretsAreMeant, EchoesAreKnown, Known, Holds, Distinct
<1>2. CASE Control!Turns
  <2>1. /\ pending = Control!None /\ \A d \in Control!Senders : sending[d] = "idle"
        /\ contents' = [f \in Fields |-> Control!None] /\ moved' = (pending # Control!None)
        /\ astray' = [d \in Control!Senders |-> sending[d] # "idle"]
    BY <1>2 DEF Control!Turns, Control!NoSecretOnItsWay
  <2>2. SecretsAreMeant'
    BY <2>1 DEF ControlInv, SecretsAreMeant
  <2>3. EchoesAreKnown'
    BY <2>1 DEF ControlInv, EchoesAreKnown, Known, Holds, Distinct
  <2> QED
    BY <2>1, <2>2, <2>3
<1> QED
  BY <1>1, <1>2 DEF Control!MayTurn

\* Every step of the wheel, of a secret and of the page keeps the three promises together.
LEMMA ControlInvStays == OneSecret /\ PageStays /\ ControlInv /\ [Control!Next]_controlVars => ControlInv'
<1> SUFFICES ASSUME OneSecret, PageStays, ControlInv, [Control!Next]_controlVars PROVE ControlInv'
  OBVIOUS
<1> USE DEF Control!wheelVars, Control!secretVars, Control!lookVars
<1>0. ControlStands /\ SecretsAreMeant /\ EchoesAreKnown /\ Control!TakeoverIsBounded
  BY DEF ControlInv
<1>p. Control!Turns => Control!MayTurn
  BY DEF Control!MayTurn
<1>1. CASE Control!PageMoves
  <2>1. /\ Control!MayTurn /\ UNCHANGED <<holder, acting, late, inflight, pending, sending, meant, into, remembered,
                                          misplaced, captured>>
    BY <1>1, <1>p DEF Control!PageMoves
  <2>2. SecretsAreMeant' /\ EchoesAreKnown' /\ contents' \in [Fields -> Fields \cup {Control!None}]
    BY <2>1, PageStands
  <2>3. ControlStands'
    BY <2>1, <2>2, <1>0 DEF ControlStands
  <2> QED
    BY <2>1, <2>2, <2>3, WheelStands DEF ControlInv
<1>2. ASSUME NEW b \in BotCalls, Control!Admit(b) PROVE ControlInv'
  <2>1. /\ holder = "bot" /\ acting' = [acting EXCEPT ![b] = "admitted"]
        /\ UNCHANGED <<holder, late, inflight, pending, sending, meant, into, contents, moved, astray,
                       remembered, misplaced, captured>>
    BY <1>2 DEF Control!Admit, Control!pageVars
  <2>2. ControlStands' /\ Control!TakeoverIsBounded'
    BY <2>1, <1>0 DEF ControlStands, Control!TakeoverIsBounded
  <2> QED
    BY <2>1, <2>2, SecretsStand DEF ControlInv
<1>3. ASSUME NEW b \in BotCalls, acting[b] = "admitted", acting' = [acting EXCEPT ![b] = "idle"],
             late' = late \/ late' = IF holder = "human" THEN late + 1 ELSE late, UNCHANGED <<holder, inflight>>
      PROVE  Control!TakeoverIsBounded' /\ acting' \in [BotCalls -> {"idle", "admitted"}] /\ late' \in Nat
  <2>1. Admitted' = Admitted \ {b} /\ b \in Admitted /\ late \in Nat /\ inflight \in Nat
    BY <1>0, <1>3 DEF Admitted, ControlStands
  <2>2. Cardinality(Admitted') = Cardinality(Admitted) - 1
    BY <2>1, AdmittedIsFinite, FS_RemoveElement
  <2>3. Control!Cardinality(Admitted') = Cardinality(Admitted')
    BY DEF Control!Cardinality, Cardinality
  <2>4. holder = "human" => late + Cardinality(Admitted) <= inflight
    BY <1>0, Counts DEF Control!TakeoverIsBounded, Admitted
  <2>5. holder' = "human" => late' + Control!Cardinality(Admitted') <= inflight'
    BY <1>3, <2>1, <2>2, <2>3, <2>4, AdmittedIsFinite
  <2>6. acting' \in [BotCalls -> {"idle", "admitted"}] /\ late' \in Nat
    BY <1>0, <1>3 DEF ControlStands
  <2> QED
    BY <2>5, <2>6 DEF Control!TakeoverIsBounded, Admitted
<1>4. ASSUME NEW b \in BotCalls, Control!Land(b) PROVE ControlInv'
  <2>1. /\ acting[b] = "admitted" /\ acting' = [acting EXCEPT ![b] = "idle"] /\ Control!MayTurn
        /\ late' = IF holder = "human" THEN late + 1 ELSE late
        /\ UNCHANGED <<holder, inflight, pending, sending, meant, into, remembered, misplaced, captured>>
    BY <1>4 DEF Control!Land
  <2>2. SecretsAreMeant' /\ EchoesAreKnown' /\ contents' \in [Fields -> Fields \cup {Control!None}]
    BY <2>1, PageStands
  <2>3. Control!TakeoverIsBounded' /\ acting' \in [BotCalls -> {"idle", "admitted"}] /\ late' \in Nat
    BY <2>1, <1>3
  <2>4. ControlStands'
    BY <2>1, <2>2, <2>3, <1>0 DEF ControlStands
  <2> QED
    BY <2>2, <2>3, <2>4 DEF ControlInv
<1>5. ASSUME NEW b \in BotCalls, Control!LandFails(b) PROVE ControlInv'
  <2>1. /\ acting[b] = "admitted" /\ acting' = [acting EXCEPT ![b] = "idle"]
        /\ UNCHANGED <<holder, late, inflight, pending, sending, meant, into, contents, moved, astray,
                       remembered, misplaced, captured>>
    BY <1>5 DEF Control!LandFails, Control!pageVars
  <2>2. Control!TakeoverIsBounded' /\ acting' \in [BotCalls -> {"idle", "admitted"}]
    BY <2>1, <1>3
  <2>3. ControlStands'
    BY <2>1, <2>2, <1>0 DEF ControlStands
  <2> QED
    BY <2>1, <2>2, <2>3, SecretsStand DEF ControlInv
<1>6. ASSUME NEW b \in BotCalls, Control!LoadSession(b) PROVE ControlInv'
  <2>1. /\ Control!MayTurn
        /\ UNCHANGED <<holder, acting, late, inflight, pending, sending, meant, into, remembered, misplaced, captured>>
    BY <1>6 DEF Control!LoadSession
  <2>2. SecretsAreMeant' /\ EchoesAreKnown' /\ contents' \in [Fields -> Fields \cup {Control!None}]
    BY <2>1, PageStands
  <2>3. ControlStands'
    BY <2>1, <2>2, <1>0 DEF ControlStands
  <2> QED
    BY <2>1, <2>2, <2>3, WheelStands DEF ControlInv
<1>7. ASSUME UNCHANGED <<holder, acting, late, inflight, pending, sending, meant, into, contents, moved, astray,
                         remembered, misplaced, captured>>
      PROVE  ControlInv'
  <2>1. ControlStands'
    BY <1>7, <1>0 DEF ControlStands
  <2> QED
    BY <1>7, <2>1, SecretsStand, WheelStands DEF ControlInv
<1>8. ASSUME NEW b \in BotCalls, Control!RequestHelp(b) PROVE ControlInv'
  BY <1>7, <1>8 DEF Control!RequestHelp, Control!pageVars
<1>9. CASE Control!Expire \/ Control!AdmitInput
  BY <1>7, <1>9 DEF Control!Expire, Control!AdmitInput, Control!pageVars
<1>10. CASE Control!Take
  <2>1. /\ holder' = "human" /\ pending' = Control!None /\ late' = 0 /\ inflight' = Control!Cardinality(Admitted)
        /\ UNCHANGED <<acting, sending, meant, into, contents, moved, astray, remembered, misplaced, captured>>
    BY <1>10 DEF Control!Take, Control!pageVars, Admitted
  <2>2. SecretsAreMeant' /\ EchoesAreKnown'
    BY <2>1, <1>0 DEF SecretsAreMeant, EchoesAreKnown, Known, Holds, Distinct
  <2>3. inflight' \in Nat /\ inflight' = Cardinality(Admitted)
    BY <2>1, Counts, AdmittedIsFinite
  <2>4. ControlStands'
    BY <2>1, <2>3, <1>0 DEF ControlStands
  <2>5. Control!TakeoverIsBounded'
    <3>1. Control!Cardinality({b \in BotCalls : acting'[b] = "admitted"}) = Cardinality(Admitted)
      BY <2>1, Counts DEF Admitted
    <3> QED
      BY <2>1, <2>3, <3>1, AdmittedIsFinite DEF Control!TakeoverIsBounded
  <2> QED
    BY <2>2, <2>4, <2>5 DEF ControlInv
<1>11. CASE Control!Release
  <2>1. /\ holder' = "bot" /\ pending' = Control!None /\ late' = 0 /\ inflight' = 0 /\ Control!MayTurn
        /\ UNCHANGED <<acting, sending, meant, into, remembered, misplaced, captured>>
    BY <1>11 DEF Control!Release
  <2>2. SecretsAreMeant' /\ EchoesAreKnown' /\ contents' \in [Fields -> Fields \cup {Control!None}]
    BY <2>1, PageStands
  <2>3. ControlStands' /\ Control!TakeoverIsBounded'
    BY <2>1, <2>2, <1>0 DEF ControlStands, Control!TakeoverIsBounded
  <2> QED
    BY <2>2, <2>3 DEF ControlInv
<1>12. CASE Control!LandInput
  <2>1. /\ Control!MayTurn
        /\ UNCHANGED <<holder, acting, late, inflight, pending, sending, meant, into, remembered, misplaced, captured>>
    BY <1>12 DEF Control!LandInput
  <2>2. SecretsAreMeant' /\ EchoesAreKnown' /\ contents' \in [Fields -> Fields \cup {Control!None}]
    BY <2>1, PageStands
  <2>3. ControlStands'
    BY <2>1, <2>2, <1>0 DEF ControlStands
  <2> QED
    BY <2>1, <2>2, <2>3, WheelStands DEF ControlInv
<1>13. ASSUME NEW b \in BotCalls, NEW f \in Fields, Control!RequestSecret(b, f) PROVE ControlInv'
  <2>1. /\ pending' = f /\ moved' = FALSE /\ \A d \in Control!Senders : sending[d] = "idle"
        /\ UNCHANGED <<holder, acting, late, inflight, sending, meant, into, contents, astray,
                       remembered, misplaced, captured>>
    BY <1>13 DEF Control!RequestSecret, Control!MayAsk, Control!NoSecretOnItsWay
  <2>2. SecretsAreMeant' /\ EchoesAreKnown'
    BY <2>1, <1>0 DEF SecretsAreMeant, EchoesAreKnown, Known, Holds, Distinct
  <2>3. ControlStands'
    BY <2>1, <1>0 DEF ControlStands
  <2> QED
    BY <2>1, <2>2, <2>3, WheelStands DEF ControlInv
<1>14. ASSUME NEW b \in BotCalls, NEW f \in Fields, Control!NameField(b, f) PROVE ControlInv'
  <2>1. /\ pending' = f /\ moved' = FALSE /\ \A d \in Control!Senders : sending[d] = "idle"
        /\ sending' = [sending EXCEPT ![b] = "ready"] /\ meant' = [meant EXCEPT ![b] = f]
        /\ astray' = [astray EXCEPT ![b] = FALSE]
        /\ UNCHANGED <<holder, acting, late, inflight, into, contents, remembered, misplaced, captured>>
    BY <1>14 DEF Control!NameField, Control!MayAsk, Control!NoSecretOnItsWay
  <2>2. b \in Control!Senders
    BY DEF Control!Senders
  <2>3. ControlStands'
    BY <2>1, <2>2, <1>0 DEF ControlStands
  <2>4. SecretsAreMeant'
    BY <2>1, <2>2, <1>0 DEF SecretsAreMeant, ControlStands
  <2>5. EchoesAreKnown'
    BY <2>1, <2>2, <1>0 DEF ControlStands, EchoesAreKnown, Known, Holds, Distinct
  <2> QED
    BY <2>1, <2>3, <2>4, <2>5, WheelStands DEF ControlInv
<1>15. CASE Control!Compose
  <2>1. /\ sending[Person] = "idle" /\ pending # Control!None
        /\ sending' = [sending EXCEPT ![Person] = "ready"] /\ meant' = [meant EXCEPT ![Person] = pending]
        /\ astray' = [astray EXCEPT ![Person] = moved]
        /\ UNCHANGED <<holder, acting, late, inflight, pending, into, contents, moved, remembered, misplaced, captured>>
    BY <1>15 DEF Control!Compose, Control!PersonFree
  <2>2. Person \in Control!Senders /\ pending \in Fields
    BY <2>1, <1>0 DEF Control!Senders, ControlStands
  <2>3. ControlStands'
    BY <2>1, <2>2, <1>0 DEF ControlStands
  <2>4. SecretsAreMeant'
    BY <2>1, <2>2, <1>0 DEF SecretsAreMeant, ControlStands
  <2>5. EchoesAreKnown'
    BY <2>1, <2>2, <1>0 DEF ControlStands, EchoesAreKnown, Known, Holds, Distinct
  <2> QED
    BY <2>1, <2>3, <2>4, <2>5, WheelStands DEF ControlInv
<1>16. ASSUME NEW d \in Control!Senders, Control!Deliver(d) PROVE ControlInv'
  <2>1. /\ sending[d] = "ready"
        /\ sending' = [sending EXCEPT ![d] = IF pending = Control!None THEN "idle" ELSE "delivering"]
        /\ meant' = [meant EXCEPT ![d] = IF pending = Control!None THEN Control!None ELSE meant[d]]
        /\ into' = [into EXCEPT ![d] = pending]
        /\ UNCHANGED <<holder, acting, late, inflight, pending, contents, moved, astray, remembered, misplaced, captured>>
    BY <1>16, <1>0 DEF Control!Deliver, Control!pageVars, ControlStands
  <2>2. ControlStands'
    BY <2>1, <1>0 DEF ControlStands
  <2>3. SecretsAreMeant'
    BY <2>1, <1>0 DEF SecretsAreMeant, ControlStands
  <2>4. EchoesAreKnown'
    BY <2>1, <1>0 DEF ControlStands, EchoesAreKnown, Known, Holds, Distinct
  <2> QED
    BY <2>1, <2>2, <2>3, <2>4, WheelStands DEF ControlInv
<1>17. ASSUME NEW d \in Control!Senders, Control!Fill(d) PROVE ControlInv'
  <2>1. /\ sending[d] = "delivering" /\ sending' = [sending EXCEPT ![d] = "filled"]
        /\ contents' = [contents EXCEPT ![into[d]] = meant[d]]
        /\ misplaced' = (misplaced \/ into[d] # meant[d] \/ astray[d])
        /\ UNCHANGED <<holder, acting, late, inflight, pending, meant, into, moved, astray, remembered, captured>>
    BY <1>17 DEF Control!Fill
  <2>2. into[d] = meant[d] /\ meant[d] \in Fields /\ ~astray[d] /\ ~misplaced
    BY <2>1, <1>0 DEF SecretsAreMeant, ControlStands
  <2>3. ControlStands'
    BY <2>1, <2>2, <1>0 DEF ControlStands
  <2>4. SecretsAreMeant'
    BY <2>1, <2>2, <1>0 DEF SecretsAreMeant, ControlStands
  <2>5. \A v : Known(v) => Known(v)'
    BY <2>1, <1>0 DEF Known, Holds, ControlStands
  <2>6. Known(meant[d])'
    BY <2>1, <1>0 DEF Known, ControlStands
  <2>7. EchoesAreKnown'
    BY <2>1, <2>2, <2>5, <2>6, <1>0 DEF ControlStands, EchoesAreKnown
  <2> QED
    BY <2>1, <2>3, <2>4, <2>7, WheelStands DEF ControlInv
<1>18. ASSUME NEW d \in Control!Senders, Control!FillFails(d) PROVE ControlInv'
  <2>1. /\ sending[d] = "delivering" /\ sending' = [sending EXCEPT ![d] = "idle"]
        /\ pending' = Control!None
        /\ meant' = [meant EXCEPT ![d] = Control!None] /\ into' = [into EXCEPT ![d] = Control!None]
        /\ UNCHANGED <<holder, acting, late, inflight, contents, moved, astray, remembered, misplaced, captured>>
    BY <1>18 DEF Control!FillFails, Control!pageVars
  <2>2. ControlStands'
    BY <2>1, <1>0 DEF ControlStands
  <2>3. SecretsAreMeant'
    BY <2>1, <1>0 DEF SecretsAreMeant, ControlStands
  <2>4. EchoesAreKnown'
    BY <2>1, <1>0 DEF ControlStands, EchoesAreKnown, Known, Holds, Distinct
  <2> QED
    BY <2>1, <2>2, <2>3, <2>4, WheelStands DEF ControlInv
<1>19. ASSUME NEW d \in Control!Senders, Control!Supplied(d) PROVE ControlInv'
  <2>1. /\ sending[d] = "filled" /\ sending' = [sending EXCEPT ![d] = "idle"]
        /\ pending' = Control!None /\ remembered' = Control!Remember(remembered, meant[d])
        /\ meant' = [meant EXCEPT ![d] = Control!None] /\ into' = [into EXCEPT ![d] = Control!None]
        /\ UNCHANGED <<holder, acting, late, inflight, contents, moved, astray, misplaced, captured>>
    BY <1>19 DEF Control!Supplied, Control!pageVars
  <2>2. meant[d] \in Fields /\ remembered \in Seq(Fields) /\ Distinct(remembered)
    BY <2>1, <1>0 DEF ControlStands, EchoesAreKnown
  <2>3. /\ remembered' \in Seq(Fields) /\ Distinct(remembered')
        /\ Cardinality(Fields) <= Ring => \A w : Holds(remembered, w) \/ w = meant[d] => Holds(remembered', w)
    BY <2>1, <2>2, RingKeeps
  <2>4. ControlStands'
    BY <2>1, <1>0 DEF ControlStands
  <2>5. SecretsAreMeant'
    BY <2>1, <1>0 DEF SecretsAreMeant, ControlStands
  <2>6. Cardinality(Fields) <= Ring => \A v : Known(v) => Known(v)'
    BY <2>1, <2>3, <1>0 DEF Known, ControlStands
  <2>7. EchoesAreKnown'
    BY <2>1, <2>3, <2>6, <1>0 DEF EchoesAreKnown
  <2> QED
    BY <2>1, <2>4, <2>5, <2>7, WheelStands DEF ControlInv
<1>20. ASSUME NEW b \in BotCalls, Control!Capture(b) PROVE ControlInv'
  <2> DEFINE seen == {contents[f] : f \in Fields} \ {Control!None}
  <2>1. /\ captured' = [captured EXCEPT ![b] = seen]
        /\ UNCHANGED <<holder, acting, late, inflight, pending, sending, meant, into, contents, moved, astray,
                       remembered, misplaced>>
    BY <1>20 DEF Control!Capture
  <2>2. seen \in SUBSET Fields
    BY <1>0 DEF ControlStands
  <2>3. ControlStands'
    BY <2>1, <2>2, <1>0 DEF ControlStands
  <2>4. SecretsAreMeant'
    BY <2>1, <1>0 DEF SecretsAreMeant
  <2>5. \A v : Known(v)' <=> Known(v)
    BY <2>1 DEF Known, Holds
  <2>6. Cardinality(Fields) <= Ring => \A v \in seen : Known(v)
    BY <1>0 DEF EchoesAreKnown
  <2>7. EchoesAreKnown'
    <3> HIDE DEF seen
    <3>1. \A c \in BotCalls : captured'[c] = IF c = b THEN seen ELSE captured[c]
      BY <2>1, <1>0 DEF ControlStands
    <3> QED
      BY <2>1, <2>5, <2>6, <3>1, <1>0 DEF EchoesAreKnown
  <2> QED
    BY <2>1, <2>3, <2>4, <2>7, WheelStands DEF ControlInv
<1>21. ASSUME NEW b \in BotCalls, Control!Return(b) PROVE ControlInv'
  <2>1. /\ captured' = [captured EXCEPT ![b] = {}]
        /\ UNCHANGED <<holder, acting, late, inflight, pending, sending, meant, into, contents, moved, astray,
                       remembered, misplaced>>
    BY <1>21 DEF Control!Return, Control!pageVars
  <2>2. ControlStands'
    BY <2>1, <1>0 DEF ControlStands
  <2>3. SecretsAreMeant'
    BY <2>1, <1>0 DEF SecretsAreMeant
  <2>4. \A v : Known(v)' <=> Known(v)
    BY <2>1 DEF Known, Holds
  <2>5. \A c \in BotCalls : captured'[c] \subseteq captured[c]
    BY <2>1, <1>0 DEF ControlStands
  <2>6. EchoesAreKnown'
    BY <2>1, <2>4, <2>5, <1>0 DEF EchoesAreKnown
  <2> QED
    BY <2>1, <2>2, <2>3, <2>6, WheelStands DEF ControlInv
<1>22. CASE UNCHANGED controlVars
  BY <1>7, <1>22 DEF controlVars
<1> QED
  BY <1>1, <1>2, <1>4, <1>5, <1>6, <1>8, <1>9, <1>10, <1>11, <1>12, <1>13, <1>14, <1>15, <1>16, <1>17, <1>18, <1>19,
     <1>20, <1>21, <1>22 DEF Control!Next, Control!Bot, Control!Wheel, Control!Sends

\* What is left of a snapshot once it is scrubbed is a value about to be remembered.
LEMMA SnapshotHides == ControlInv => Control!SnapshotHidesSecrets
<1> SUFFICES ASSUME ControlInv, Control!Cardinality(Fields) <= Ring,
                    NEW b \in BotCalls, NEW v \in Control!Scrubbed(b)
             PROVE  \E d \in Control!Senders : sending[d] = "filled"
  BY DEF Control!SnapshotHidesSecrets
<1>1. v \in captured[b] /\ ~Holds(remembered, v)
  BY DEF Control!Scrubbed, Control!ToSet, Holds
<1>2. Known(v)
  BY <1>1, FieldsCount DEF ControlInv, EchoesAreKnown
<1> QED
  BY <1>1, <1>2 DEF Known
-----------------------------------------------------------------------------
(***************************************************************************)
(* The pool of browsers.                                                   *)
(***************************************************************************)

CallRows == [at : Pool!Waiting, bot : Bots \cup {Pool!None}, on : Contexts \cup {Pool!None},
             then : {"stop", "reset", Pool!None}]
BrowserRows == [bot : Bots \cup {Pool!None}, is : Pool!ProcessStates]

\* Every launch lets the pool forget a browser at most: no Bot is twice in the order of use.
PoolStands ==
    /\ live \in [Bots -> Contexts \cup {Pool!None}]
    /\ used \in Seq(Bots) /\ Distinct(used)
    /\ starting \in [Bots -> Calls \cup {Pool!None}]
    /\ chromium \in [Contexts -> BrowserRows]
    /\ call \in [Calls -> CallRows]
    /\ \A c \in Calls : call[c].at # "idle" => call[c].bot \in Bots

\* Context x is open, and it is Bot b's.
Runs(x, b) == chromium[x].bot = b /\ chromium[x].is \in {"up", "half", "closing"}

MappedIsOwn == \A b \in Bots : live[b] # Pool!None =>
    chromium[live[b]].bot = b /\ chromium[live[b]].is # "unborn"
UpIsMapped == \A b \in Bots, x \in Contexts : Runs(x, b) /\ chromium[x].is # "closing" => live[b] = x
OneOpen == \A b \in Bots, x, y \in Contexts : Runs(x, b) /\ Runs(y, b) => x = y

\* A launch in flight is a call that launches, or waits for the browser the cap closes.
Launching == {"launching", "capping"}
StartsAreCalls ==
    /\ \A c \in Calls : call[c].at \in Launching => starting[call[c].bot] = c
    /\ \A b \in Bots : starting[b] # Pool!None =>
          call[starting[b]].bot = b /\ call[starting[b]].at \in Launching

\* Of the calls that close a Bot's browser, start it or delete its directory there is one at a time.
Exclusive == {"dropping", "launching", "stopping", "wiping"}
OneExclusive == \A c, d \in Calls :
    call[c].at \in Exclusive /\ call[d].at \in Exclusive /\ call[c].bot = call[d].bot => c = d

\* While one of them is under way nothing of its Bot runs but what it is closing.
Agrees(row) ==
    LET b == row.bot IN
    /\ row.at \in {"launching", "wiping"} => live[b] = Pool!None /\ \A x \in Contexts : ~Runs(x, b)
    /\ row.at \in {"dropping", "stopping"} =>
          row.on \in Contexts /\ \A x \in Contexts : Runs(x, b) => x = row.on
    /\ row.at = "dropping" => live[b] \in {Pool!None, row.on} /\ starting[b] = Pool!None
    /\ row.at = "stopping" => live[b] = Pool!None

PoolInv ==
    /\ PoolStands /\ MappedIsOwn /\ UpIsMapped /\ OneOpen /\ StartsAreCalls /\ OneExclusive
    /\ \A c \in Calls : Agrees(call[c])
    /\ torn = {}

\* The order of use without one Bot: the others are all in it.
LEMMA WithoutIs ==
  ASSUME PoolStands, NEW b \in Bots
  PROVE  /\ Pool!Without(b) \in Seq(Bots) /\ Distinct(Pool!Without(b))
         /\ \A i \in DOMAIN Pool!Without(b) : Pool!Without(b)[i] # b
         /\ Pool!Range(Pool!Without(b)) = Pool!Range(used) \ {b}
         /\ Len(Pool!Without(b)) = IF b \in Pool!Range(used) THEN Len(used) - 1 ELSE Len(used)
<1>0. used \in Seq(Bots) /\ Distinct(used)
  BY DEF PoolStands
<1>1. CASE b \notin Pool!Range(used)
  <2>1. Pool!Without(b) = used
    BY <1>1 DEF Pool!Without
  <2> QED
    BY <1>0, <1>1, <2>1 DEF Pool!Range
<1>2. CASE b \in Pool!Range(used)
  <2> DEFINE k == CHOOSE i \in DOMAIN used : used[i] = b
  <2>1. k \in DOMAIN used /\ used[k] = b
    BY <1>2 DEF Pool!Range
  <2>2. PICK n : n = k
    OBVIOUS
  <2>3. n \in 1 .. Len(used) /\ used[n] = b
    BY <1>0, <2>1, <2>2
  <2>4. Pool!Without(b) = SubSeq(used, 1, n - 1) \o SubSeq(used, n + 1, Len(used))
    BY <1>2, <2>2 DEF Pool!Without, Pool!RemoveAt
  <2> HIDE DEF k
  <2> DEFINE left == SubSeq(used, 1, n - 1)
             right == SubSeq(used, n + 1, Len(used))
             s == left \o right
  <2>5. /\ left \in Seq(Bots) /\ Len(left) = n - 1 /\ \A i \in 1 .. n - 1 : left[i] = used[i]
        /\ right \in Seq(Bots) /\ Len(right) = Len(used) - n
        /\ \A i \in 1 .. Len(used) - n : right[i] = used[i + n]
    BY <1>0, <2>3
  <2>6. s = left \o right
    OBVIOUS
  <2> HIDE DEF left, right
  <2>7. s \in Seq(Bots) /\ Len(s) = Len(used) - 1
    <3>1. s \in Seq(Bots) /\ Len(s) = Len(left) + Len(right)
      BY <2>5, ConcatProperties
    <3> QED
      BY <1>0, <2>3, <2>5, <3>1
  <2>8. \A i \in 1 .. Len(s) : s[i] = used[IF i < n THEN i ELSE i + 1]
    <3> SUFFICES ASSUME NEW i \in 1 .. Len(s) PROVE s[i] = used[IF i < n THEN i ELSE i + 1]
      OBVIOUS
    <3>1. i \in 1 .. Len(left) + Len(right) /\ Len(left) \in Nat /\ Len(used) \in Nat
      BY <1>0, <2>3, <2>5, <2>7
    <3>2. s[i] = IF i <= Len(left) THEN left[i] ELSE right[i - Len(left)]
      BY <2>5, <3>1, ConcatProperties
    <3>3. CASE i < n
      BY <2>3, <2>5, <3>1, <3>2, <3>3
    <3>4. CASE ~(i < n)
      <4>1. i - Len(left) \in 1 .. Len(used) - n /\ i - Len(left) + n = i + 1
        BY <2>3, <2>5, <2>7, <3>1, <3>4
      <4>2. s[i] = right[i - Len(left)]
        BY <2>3, <2>5, <3>1, <3>2, <3>4
      <4> QED
        BY <2>5, <3>4, <4>1, <4>2
    <3> QED
      BY <3>3, <3>4
  <2> HIDE DEF s
  <2>9. \A i \in 1 .. Len(s) : (IF i < n THEN i ELSE i + 1) \in 1 .. Len(used) \ {n}
    BY <1>0, <2>3, <2>7
  <2>10. DOMAIN s = 1 .. Len(s) /\ DOMAIN used = 1 .. Len(used) /\ Len(used) \in Nat /\ Len(s) \in Nat
    BY <1>0, <2>7
  <2>11. \A i \in DOMAIN s : s[i] # b
    BY <1>0, <2>3, <2>8, <2>9, <2>10 DEF Distinct
  <2>12. Distinct(s)
    <3> SUFFICES ASSUME NEW i \in DOMAIN s, NEW j \in DOMAIN s, s[i] = s[j] PROVE i = j
      BY DEF Distinct
    <3>1. (IF i < n THEN i ELSE i + 1) = (IF j < n THEN j ELSE j + 1)
      BY <1>0, <2>8, <2>9, <2>10 DEF Distinct
    <3> QED
      BY <3>1, <2>3, <2>10
  <2>13. ASSUME NEW j \in 1 .. Len(used), j # n PROVE \E i \in 1 .. Len(s) : s[i] = used[j]
    <3> DEFINE i == IF j < n THEN j ELSE j - 1
    <3>1. i \in 1 .. Len(s) /\ (IF i < n THEN i ELSE i + 1) = j
      BY <1>0, <2>3, <2>7, <2>13
    <3> QED
      BY <2>8, <3>1
  <2>14. Pool!Range(s) = Pool!Range(used) \ {b}
    <3>1. ASSUME NEW v \in Pool!Range(s) PROVE v \in Pool!Range(used) \ {b}
      BY <2>8, <2>9, <2>10, <2>11 DEF Pool!Range
    <3>2. ASSUME NEW v \in Pool!Range(used), v # b PROVE v \in Pool!Range(s)
      <4>1. PICK j \in 1 .. Len(used) : used[j] = v
        BY <2>10 DEF Pool!Range
      <4> QED
        BY <2>3, <2>10, <2>13, <3>2, <4>1 DEF Pool!Range
    <3> QED
      BY <3>1, <3>2
  <2> QED
    BY <1>2, <2>4, <2>7, <2>11, <2>12, <2>14 DEF s, left, right
<1> QED
  BY <1>1, <1>2

\* The Bot that has just used its browser is last, and those the cap closes are before it.
LEMMA AppendedIs ==
  ASSUME PoolStands, NEW b \in Bots
  PROVE  LET order == Append(Pool!Without(b), b) IN
         /\ order \in Seq(Bots) /\ Distinct(order)
         /\ Len(order) > MaxLive =>
               /\ b \notin Pool!Range(Pool!ChooseEvictions(order))
               /\ SubSeq(order, Len(order) - MaxLive + 1, Len(order)) \in Seq(Bots)
               /\ Distinct(SubSeq(order, Len(order) - MaxLive + 1, Len(order)))
<1> DEFINE w == Pool!Without(b)
           order == Append(w, b)
<1>1. w \in Seq(Bots) /\ Distinct(w) /\ \A i \in DOMAIN w : w[i] # b
  BY WithoutIs
<1> HIDE DEF w
<1>2. /\ order \in Seq(Bots) /\ Len(order) = Len(w) + 1 /\ order[Len(w) + 1] = b
      /\ \A i \in 1 .. Len(w) : order[i] = w[i]
      /\ DOMAIN w = 1 .. Len(w) /\ DOMAIN order = 1 .. Len(order) /\ Len(w) \in Nat
  BY <1>1
<1> HIDE DEF order
<1>3. Distinct(order)
  BY <1>1, <1>2 DEF Distinct
<1>4. ASSUME Len(order) > MaxLive
      PROVE  /\ b \notin Pool!Range(Pool!ChooseEvictions(order))
             /\ SubSeq(order, Len(order) - MaxLive + 1, Len(order)) \in Seq(Bots)
             /\ Distinct(SubSeq(order, Len(order) - MaxLive + 1, Len(order)))
  <2> DEFINE m == Len(order) - MaxLive
             out == SubSeq(order, 1, m)
             rest == SubSeq(order, m + 1, Len(order))
  <2>1. m \in Nat /\ m <= Len(w) /\ m < Len(order)
    BY <1>2, <1>4, PoolAssumption
  <2>2. DOMAIN out = 1 .. m /\ \A i \in 1 .. m : out[i] = order[i]
    BY <1>2, <2>1
  <2>3. \A i \in 1 .. m : out[i] # b
    BY <1>1, <1>2, <2>1, <2>2
  <2>4. b \notin Pool!Range(out)
    BY <2>2, <2>3 DEF Pool!Range
  <2>5. rest \in Seq(Bots) /\ Len(rest) = MaxLive /\ \A i \in 1 .. MaxLive : rest[i] = order[i + m]
    BY <1>2, <2>1, PoolAssumption
  <2>6. Distinct(rest)
    BY <1>2, <1>3, <2>1, <2>5, PoolAssumption DEF Distinct
  <2> QED
    BY <2>4, <2>5, <2>6 DEF Pool!ChooseEvictions
<1> QED
  BY <1>2, <1>3, <1>4 DEF order, w

\* Browsers go and none comes: what was true of each of them, and of each call, stays so.
LEMMA BrowsersFade ==
  ASSUME PoolInv, UNCHANGED starting,
         live' \in [Bots -> Contexts \cup {Pool!None}], chromium' \in [Contexts -> BrowserRows],
         \A b \in Bots : live'[b] \in {live[b], Pool!None},
         \A x \in Contexts :
            /\ chromium'[x].bot = chromium[x].bot
            /\ chromium'[x].is = "unborn" => chromium[x].is = "unborn"
            /\ chromium'[x].is \in {"up", "half", "closing"} => chromium[x].is \in {"up", "half", "closing"}
            /\ chromium'[x].is \in {"up", "half"} => chromium[x].is \in {"up", "half"},
         \A b \in Bots, x \in Contexts :
            Runs(x, b)' /\ chromium'[x].is # "closing" => live'[b] = live[b]
  PROVE  /\ MappedIsOwn' /\ UpIsMapped' /\ OneOpen'
         /\ \A row \in CallRows : (row.at # "idle" => row.bot \in Bots) /\ Agrees(row) => Agrees(row)'
<1>1. \A b \in Bots, x \in Contexts : Runs(x, b)' => Runs(x, b)
  BY DEF Runs
<1>2. \A b \in Bots : live[b] \in Contexts \cup {Pool!None}
  BY DEF PoolInv, PoolStands
<1>3. MappedIsOwn'
  BY <1>2 DEF PoolInv, MappedIsOwn
<1>4. UpIsMapped'
  BY <1>1 DEF PoolInv, UpIsMapped, Runs
<1>5. OneOpen'
  BY <1>1 DEF PoolInv, OneOpen
<1>6. ASSUME NEW row \in CallRows, row.at # "idle" => row.bot \in Bots, Agrees(row) PROVE Agrees(row)'
  <2>1. CASE row.at \notin Exclusive
    BY <2>1 DEF Agrees, Exclusive
  <2>2. CASE row.at \in Exclusive
    <3>1. row.bot \in Bots
      BY <1>6, <2>2 DEF Exclusive
    <3> QED
      BY <1>1, <1>6, <3>1 DEF Agrees
  <2> QED
    BY <2>1, <2>2
<1> QED
  BY <1>3, <1>4, <1>5, <1>6

\* One call goes on, and no launch begins or ends.
LEMMA CallGoesOn ==
  ASSUME PoolInv, UNCHANGED starting, NEW c \in Calls, NEW row \in CallRows,
         call' = [call EXCEPT ![c] = row], row.at # "idle" => row.bot \in Bots,
         call[c].at \in Launching => row.at \in Launching /\ row.bot = call[c].bot,
         row.at \in Launching => call[c].at \in Launching,
         row.at \in Exclusive => 
            \A d \in Calls \ {c} : call[d].at \in Exclusive => call[d].bot # row.bot
  PROVE  /\ call' \in [Calls -> CallRows]
         /\ \A d \in Calls : call'[d].at # "idle" => call'[d].bot \in Bots
         /\ StartsAreCalls' /\ OneExclusive'
<1>1. /\ call' \in [Calls -> CallRows]
      /\ \A d \in Calls : call'[d] = IF d = c THEN row ELSE call[d]
  BY DEF PoolInv, PoolStands
<1>2. \A d \in Calls : call'[d].at # "idle" => call'[d].bot \in Bots
  BY <1>1 DEF PoolInv, PoolStands
<1>3. OneExclusive'
  BY <1>1 DEF PoolInv, OneExclusive
<1>4. StartsAreCalls'
  <2>1. ASSUME NEW d \in Calls, call'[d].at \in Launching PROVE starting'[call'[d].bot] = d
    BY <1>1, <2>1 DEF PoolInv, StartsAreCalls
  <2>2. ASSUME NEW b \in Bots, starting'[b] # Pool!None
        PROVE  call'[starting'[b]].bot = b /\ call'[starting'[b]].at \in Launching
    <3>1. starting[b] \in Calls /\ call[starting[b]].bot = b /\ call[starting[b]].at \in Launching
      BY <2>2 DEF PoolInv, PoolStands, StartsAreCalls
    <3>2. CASE starting[b] # c
      BY <1>1, <3>1, <3>2
    <3>3. CASE starting[b] = c
      BY <1>1, <3>1, <3>3
    <3> QED
      BY <3>2, <3>3
  <2> QED
    BY <2>1, <2>2 DEF StartsAreCalls
<1> QED
  BY <1>1, <1>2, <1>3, <1>4

\* What a request may count on when it has asked: nothing of its Bot is being closed.
LEMMA AskedFinds ==
  ASSUME PoolInv, Patient, NEW c \in Calls, NEW b \in Bots, Pool!Asks(c, b)
  PROVE  /\ call[c].at = "idle"
         /\ \A d \in Calls : call[d].bot = b => call[d].at \notin {"dropping", "stopping", "wiping"}
         /\ \A x \in Contexts : Runs(x, b) => live[b] = x
         /\ starting[b] = Pool!None => \A d \in Calls : call[d].at \in Exclusive => call[d].bot # b
         /\ live[b] # Pool!None => \A d \in Calls : call[d].at \in Exclusive => call[d].bot # b
<1>1. call[c].at = "idle" /\ ~Pool!Closing(b)
  BY DEF Pool!Asks
<1>2. \A d \in Calls : call[d].bot = b => call[d].at \notin {"dropping", "stopping", "wiping"}
  BY <1>1 DEF Pool!Closing
<1>3. \A x \in Contexts : Runs(x, b) => chromium[x].is # "closing"
  BY <1>1 DEF Pool!Closing, Pool!Open, Runs
<1>4. \A x \in Contexts : Runs(x, b) => live[b] = x
  BY <1>3 DEF PoolInv, UpIsMapped
<1>5. ASSUME NEW d \in Calls, call[d].at = "launching", call[d].bot = b
      PROVE  starting[b] = d /\ d # Pool!None /\ live[b] = Pool!None
  BY <1>5, PoolAssumption DEF PoolInv, StartsAreCalls, Launching, Agrees, Pool!None
<1> QED
  BY <1>1, <1>2, <1>4, <1>5 DEF Exclusive

\* A browser that is asked to close, or is closing, does not stay up.
LEMMA CloseIs ==
  ASSUME PoolInv, NEW b \in Bots, live[b] # Pool!None, chromium' = Pool!Is(live[b], "closing")
  PROVE  /\ chromium' \in [Contexts -> BrowserRows] /\ live[b] \in Contexts
         /\ \A x \in Contexts :
               /\ chromium'[x].bot = chromium[x].bot
               /\ chromium'[x].is = IF x = live[b] /\ chromium[x].is \in {"up", "half"}
                                    THEN "closing" ELSE chromium[x].is
<1>1. live[b] \in Contexts /\ chromium \in [Contexts -> BrowserRows]
  BY DEF PoolInv, PoolStands
<1>2. PICK x : x = live[b]
  OBVIOUS
<1>3. chromium' = [chromium EXCEPT ![x] = [chromium[x] EXCEPT !.is = 
                      IF chromium[x].is \in {"up", "half"} THEN "closing" ELSE chromium[x].is]]
  BY <1>1, <1>2 DEF Pool!Is
<1>4. PICK row : row = [chromium[x] EXCEPT !.is = 
                      IF chromium[x].is \in {"up", "half"} THEN "closing" ELSE chromium[x].is]
  OBVIOUS
<1>5. /\ row \in BrowserRows /\ row.bot = chromium[x].bot
      /\ row.is = IF chromium[x].is \in {"up", "half"} THEN "closing" ELSE chromium[x].is
  BY <1>1, <1>2, <1>4 DEF BrowserRows, Pool!ProcessStates
<1>6. chromium' = [chromium EXCEPT ![x] = row]
  BY <1>3, <1>4
<1>7. chromium' \in [Contexts -> BrowserRows]
  BY <1>1, <1>2, <1>5, <1>6
<1>8. \A y \in Contexts : chromium'[y] = IF y = x THEN row ELSE chromium[y]
  BY <1>1, <1>2, <1>6
<1> QED
  BY <1>1, <1>2, <1>5, <1>7, <1>8

\* A Bot leaves the map, and its browser is closed.
LEMMA EvictStands ==
  ASSUME PoolInv, NEW b \in Bots, live[b] # Pool!None, Pool!Evict(b), UNCHANGED starting
  PROVE  /\ live' \in [Bots -> Contexts \cup {Pool!None}] /\ chromium' \in [Contexts -> BrowserRows]
         /\ used' \in Seq(Bots) /\ Distinct(used')
         /\ MappedIsOwn' /\ UpIsMapped' /\ OneOpen'
         /\ \A row \in CallRows : (row.at # "idle" => row.bot \in Bots) /\ Agrees(row) => Agrees(row)'
<1>1. live' = [live EXCEPT ![b] = Pool!None] /\ used' = Pool!Without(b) /\ chromium' = Pool!Is(live[b], "closing")
  BY DEF Pool!Evict
<1>2. /\ live' \in [Bots -> Contexts \cup {Pool!None}]
      /\ \A o \in Bots : live'[o] = IF o = b THEN Pool!None ELSE live[o]
  BY <1>1 DEF PoolInv, PoolStands
<1>3. /\ chromium' \in [Contexts -> BrowserRows] /\ live[b] \in Contexts
      /\ \A x \in Contexts :
            /\ chromium'[x].bot = chromium[x].bot
            /\ chromium'[x].is = IF x = live[b] /\ chromium[x].is \in {"up", "half"}
                                 THEN "closing" ELSE chromium[x].is
  BY <1>1, CloseIs
<1>4. used' \in Seq(Bots) /\ Distinct(used')
  BY <1>1, WithoutIs DEF PoolInv
<1>5. ASSUME NEW o \in Bots, NEW x \in Contexts, Runs(x, o)', chromium'[x].is # "closing" PROVE live'[o] = live[o]
  <2>1. Runs(x, o) /\ chromium[x].is # "closing" /\ x # live[b]
    BY <1>3, <1>5 DEF Runs
  <2>2. live[o] = x
    BY <2>1 DEF PoolInv, UpIsMapped
  <2> QED
    BY <1>2, <2>1, <2>2
<1> QED
  BY <1>2, <1>3, <1>4, <1>5, BrowsersFade

\* A call goes where it is set to.
LEMMA SetIs ==
  ASSUME PoolInv, NEW c \in Calls, NEW at \in Pool!Waiting, NEW b \in Bots,
         NEW x \in Contexts \cup {Pool!None}, Pool!Set(c, at, b, x)
  PROVE  \E row \in CallRows : /\ row.at = at /\ row.bot = b /\ row.on = x
                               /\ call' = [call EXCEPT ![c] = row]
<1>1. call[c] \in CallRows
  BY DEF PoolInv, PoolStands
<1>2. PICK row : row = [call[c] EXCEPT !.at = at, !.bot = b, !.on = x]
  OBVIOUS
<1>3. row \in CallRows /\ row.at = at /\ row.bot = b /\ row.on = x
  BY <1>1, <1>2 DEF CallRows
<1>4. call' = [call EXCEPT ![c] = row]
  BY <1>2 DEF Pool!Set
<1> QED
  BY <1>3, <1>4

\* A call that is over is on nothing.
LEMMA IdleIs == Pool!IdleCall \in CallRows /\ Pool!IdleCall.at = "idle"
BY DEF Pool!IdleCall, CallRows, Pool!Waiting

\* A call goes on and nothing else changes but, at most, the order of use and what is on disk.
LEMMA CallStands ==
  ASSUME PoolInv, UNCHANGED <<live, starting, chromium, torn>>, used' \in Seq(Bots), Distinct(used'),
         NEW c \in Calls, NEW row \in CallRows,
         call' = [call EXCEPT ![c] = row], row.at # "idle" => row.bot \in Bots, Agrees(row),
         call[c].at \notin Launching, row.at \notin Launching,
         row.at \in Exclusive =>
            \A d \in Calls \ {c} : call[d].at \in Exclusive => call[d].bot # row.bot
  PROVE  PoolInv'
<1>1. /\ call' \in [Calls -> CallRows]
      /\ \A d \in Calls : call'[d].at # "idle" => call'[d].bot \in Bots
      /\ StartsAreCalls' /\ OneExclusive'
  BY CallGoesOn
<1>2. MappedIsOwn' /\ UpIsMapped' /\ OneOpen' /\ \A r : Agrees(r)' <=> Agrees(r)
  BY DEF PoolInv, MappedIsOwn, UpIsMapped, OneOpen, Runs, Agrees
<1>3. \A d \in Calls : call'[d] = IF d = c THEN row ELSE call[d]
  BY DEF PoolInv, PoolStands
<1>4. \A d \in Calls : Agrees(call'[d])
  BY <1>3 DEF PoolInv
<1>5. \A d \in Calls : Agrees(call[d])'
  BY <1>2, <1>4 DEF Agrees, Runs
<1> QED
  BY <1>1, <1>2, <1>5 DEF PoolInv, PoolStands

\* A launch begins for a Bot of which nothing runs, and no other call closes it or starts it.
LEMMA LaunchBegins ==
  ASSUME PoolInv, NEW c \in Calls, NEW b \in Bots, call[c].at \notin Launching,
         starting[b] = Pool!None, \A x \in Contexts : ~Runs(x, b),
         \A d \in Calls \ {c} : call[d].at \in Exclusive => call[d].bot # b,
         live' = [live EXCEPT ![b] = Pool!None], starting' = [starting EXCEPT ![b] = c],
         used' \in Seq(Bots), Distinct(used'), Pool!Set(c, "launching", b, Pool!None),
         UNCHANGED <<chromium, torn>>
  PROVE  PoolInv'
<1>0. /\ PoolStands /\ MappedIsOwn /\ UpIsMapped /\ OneOpen /\ StartsAreCalls /\ OneExclusive
      /\ \A d \in Calls : Agrees(call[d])
      /\ torn = {}
  BY DEF PoolInv
<1>3. "launching" \in Pool!Waiting
  BY DEF Pool!Waiting
<1>4. PICK row \in CallRows : row.at = "launching" /\ row.bot = b /\ call' = [call EXCEPT ![c] = row]
  BY <1>3, SetIs
<1>6. /\ live' \in [Bots -> Contexts \cup {Pool!None}] /\ starting' \in [Bots -> Calls \cup {Pool!None}]
      /\ call' \in [Calls -> CallRows]
      /\ \A o \in Bots : /\ live'[o] = IF o = b THEN Pool!None ELSE live[o]
                         /\ starting'[o] = IF o = b THEN c ELSE starting[o]
      /\ \A d \in Calls : call'[d] = IF d = c THEN row ELSE call[d]
  BY <1>4, <1>0 DEF PoolStands
<1>7. PoolStands'
  BY <1>4, <1>6, <1>0 DEF PoolStands
<1>8. \A x, o : Runs(x, o)' <=> Runs(x, o)
  BY DEF Runs
<1>9. MappedIsOwn' /\ UpIsMapped' /\ OneOpen'
  BY <1>6, <1>8, <1>0 DEF MappedIsOwn, UpIsMapped, OneOpen
<1>10. StartsAreCalls'
  <2>1. ASSUME NEW d \in Calls, call'[d].at \in Launching PROVE starting'[call'[d].bot] = d
    <3>1. CASE d = c
      BY <3>1, <1>4, <1>6
    <3>2. CASE d # c
      <4>1. call'[d] = call[d] /\ starting[call[d].bot] = d /\ d # Pool!None /\ call[d].bot \in Bots
        BY <3>2, <2>1, <1>6, <1>0, PoolAssumption DEF StartsAreCalls, PoolStands, Launching, Pool!None
      <4> QED
        BY <4>1, <1>6
    <3> QED
      BY <3>1, <3>2
  <2>2. ASSUME NEW o \in Bots, starting'[o] # Pool!None
        PROVE  call'[starting'[o]].bot = o /\ call'[starting'[o]].at \in Launching
    <3>1. CASE o = b
      BY <3>1, <1>4, <1>6 DEF Launching
    <3>2. CASE o # b
      <4>1. starting'[o] = starting[o] /\ starting[o] \in Calls
            /\ call[starting[o]].bot = o /\ call[starting[o]].at \in Launching
        BY <3>2, <2>2, <1>6, <1>0 DEF StartsAreCalls, PoolStands
      <4>2. starting[o] # c
        BY <3>2, <4>1
      <4> QED
        BY <4>1, <4>2, <1>6
    <3> QED
      BY <3>1, <3>2
  <2> QED
    BY <2>1, <2>2 DEF StartsAreCalls
<1>11. OneExclusive'
  BY <1>4, <1>6, <1>0 DEF OneExclusive
<1>12. ASSUME NEW d \in Calls PROVE Agrees(call[d])'
  <2>1. CASE d = c
    BY <2>1, <1>4, <1>6, <1>8 DEF Agrees
  <2>2. CASE d # c
    <3>1. call'[d] = call[d] /\ Agrees(call[d]) /\ (call[d].at # "idle" => call[d].bot \in Bots)
      BY <2>2, <1>6, <1>0 DEF PoolStands
    <3>2. CASE call[d].at \notin Exclusive
      BY <3>1, <3>2 DEF Agrees, Exclusive
    <3>3. CASE call[d].at \in Exclusive
      <4>1. call[d].bot \in Bots /\ call[d].bot # b
        BY <3>1, <3>3, <2>2 DEF Exclusive
      <4> QED
        BY <3>1, <4>1, <1>6, <1>8 DEF Agrees
    <3> QED
      BY <3>2, <3>3
  <2> QED
    BY <2>1, <2>2
<1> QED
  BY <1>7, <1>9, <1>10, <1>11, <1>12, <1>0 DEF PoolInv

\* The calls stay as they are, and so does what each of them counts on.
LEMMA SameCalls ==
  ASSUME PoolInv, UNCHANGED call,
         \A r \in CallRows : (r.at # "idle" => r.bot \in Bots) /\ Agrees(r) => Agrees(r)'
  PROVE  \A d \in Calls : Agrees(call[d])'
<1> SUFFICES ASSUME NEW d \in Calls PROVE Agrees(call[d])'
  OBVIOUS
<1>1. PICK r \in CallRows : r = call[d] /\ r = call'[d]
  BY DEF PoolInv, PoolStands
<1>2. Agrees(r)'
  BY <1>1 DEF PoolInv, PoolStands
<1> QED
  BY <1>1, <1>2 DEF Agrees, Runs

\* A browser is up: its Bot had none, and the cap closes those of other Bots.
LEMMA LaunchedStands == ASSUME PoolInv, NEW c \in Calls, Pool!Launched(c) PROVE PoolInv'
<1> DEFINE b == call[c].bot
           order == Append(Pool!Without(b), b)
           evicted == IF Len(order) > MaxLive THEN Pool!Range(Pool!ChooseEvictions(order)) ELSE {}
<1>0. /\ PoolStands /\ MappedIsOwn /\ UpIsMapped /\ OneOpen /\ StartsAreCalls /\ OneExclusive
      /\ \A d \in Calls : Agrees(call[d])
      /\ torn = {}
  BY DEF PoolInv
<1>1. /\ call[c].at = "launching" /\ UNCHANGED <<starting, torn>>
      /\ used' = IF evicted = {} THEN order ELSE SubSeq(order, Len(order) - MaxLive + 1, Len(order))
  BY DEF Pool!Launched
<1>2. PICK x \in Contexts :
        /\ chromium[x].is = "unborn"
        /\ live' = [o \in Bots |-> IF o \in evicted THEN Pool!None ELSE [live EXCEPT ![b] = x][o]]
        /\ chromium' = [y \in Contexts |->
              IF y = x THEN [bot |-> b, is |-> "up"]
              ELSE IF \E o \in evicted : live[o] = y /\ chromium[y].is \in {"up", "half"}
              THEN [chromium[y] EXCEPT !.is = "closing"] ELSE chromium[y]]
        /\ Pool!Set(c, "capping", b, IF evicted = {} THEN Pool!None ELSE live[CHOOSE o \in evicted : TRUE])
  BY DEF Pool!Launched
<1>3. /\ b \in Bots /\ live[b] = Pool!None /\ \A y \in Contexts : ~Runs(y, b)
      /\ \A d \in Calls \ {c} : call[d].at \in Exclusive => call[d].bot # b
  BY <1>1, <1>0 DEF PoolStands, Agrees, OneExclusive, Exclusive
<1>4. /\ b \notin evicted /\ used' \in Seq(Bots) /\ Distinct(used')
      /\ order \in Seq(Bots)
  BY <1>0, <1>1, <1>3, AppendedIs
<1>5. evicted \subseteq Bots
  <2>1. CASE Len(order) > MaxLive
    <3>1. Len(order) - MaxLive \in Nat /\ Len(order) - MaxLive <= Len(order)
      BY <1>4, <2>1, PoolAssumption
    <3>2. Pool!ChooseEvictions(order) \in Seq(Bots)
      BY <1>4, <3>1 DEF Pool!ChooseEvictions
    <3> QED
      BY <3>2 DEF Pool!Range
  <2>2. CASE ~(Len(order) > MaxLive)
    BY <2>2
  <2> QED
    BY <2>1, <2>2
<1> HIDE DEF evicted, order, b
<1>6. /\ live' \in [Bots -> Contexts \cup {Pool!None}] /\ live'[b] = x
      /\ \A o \in Bots \ {b} : live'[o] = IF o \in evicted THEN Pool!None ELSE live[o]
  BY <1>0, <1>2, <1>3, <1>4 DEF PoolStands
<1>7. /\ chromium' \in [Contexts -> BrowserRows]
      /\ chromium'[x].bot = b /\ chromium'[x].is = "up"
      /\ \A y \in Contexts \ {x} :
            /\ chromium'[y].bot = chromium[y].bot
            /\ chromium'[y].is = IF \E o \in evicted : live[o] = y /\ chromium[y].is \in {"up", "half"}
                                 THEN "closing" ELSE chromium[y].is
  <2>1. \A y \in Contexts : chromium[y] \in BrowserRows
    BY <1>0 DEF PoolStands
  <2>2. [bot |-> b, is |-> "up"] \in BrowserRows
    BY <1>3 DEF BrowserRows, Pool!ProcessStates
  <2>3. \A y \in Contexts : /\ [chromium[y] EXCEPT !.is = "closing"] \in BrowserRows
                            /\ [chromium[y] EXCEPT !.is = "closing"].bot = chromium[y].bot
                            /\ [chromium[y] EXCEPT !.is = "closing"].is = "closing"
    BY <2>1 DEF BrowserRows, Pool!ProcessStates
  <2> QED
    BY <1>2, <2>1, <2>2, <2>3
<1>8. \E row \in CallRows : /\ row.at = "capping" /\ row.bot = b
                             /\ call' = [call EXCEPT ![c] = row]
  <2>1. (IF evicted = {} THEN Pool!None ELSE live[CHOOSE o \in evicted : TRUE]) \in Contexts \cup {Pool!None}
    <3>1. evicted # {} => (CHOOSE o \in evicted : TRUE) \in Bots
      BY <1>5
    <3> QED
      BY <3>1, <1>0 DEF PoolStands
  <2>2. "capping" \in Pool!Waiting
    BY DEF Pool!Waiting
  <2> QED
    BY <1>2, <1>3, <2>1, <2>2, SetIs
<1>9. PICK row \in CallRows : row.at = "capping" /\ row.bot = b /\ call' = [call EXCEPT ![c] = row]
  BY <1>8
<1>10. /\ call' \in [Calls -> CallRows]
       /\ \A d \in Calls : call'[d].at # "idle" => call'[d].bot \in Bots
       /\ StartsAreCalls' /\ OneExclusive'
  BY <1>1, <1>3, <1>9, CallGoesOn DEF Launching, Exclusive, b
<1>11. \A o \in Bots \ {b} : live[o] # x
  BY <1>0, <1>2, PoolAssumption DEF MappedIsOwn, PoolStands, Pool!None
<1>12. ASSUME NEW o \in Bots, o = b, NEW y \in Contexts, Runs(y, o)' PROVE y = x
  <2>1. ~Runs(y, o)
    BY <1>3, <1>12
  <2> QED
    BY <2>1, <1>7, <1>12 DEF Runs
<1>13. \A o \in Bots \ {b}, y \in Contexts : Runs(y, o)' => y # x /\ Runs(y, o)
  BY <1>7 DEF Runs
<1>14. MappedIsOwn'
  <2> SUFFICES ASSUME NEW o \in Bots, live'[o] # Pool!None
               PROVE  chromium'[live'[o]].bot = o /\ chromium'[live'[o]].is # "unborn"
    BY DEF MappedIsOwn
  <2>1. CASE o = b
    BY <2>1, <1>6, <1>7
  <2>2. CASE o # b
    <3>1. live'[o] = live[o] /\ live[o] \in Contexts \ {x}
      BY <2>2, <1>0, <1>6, <1>11 DEF PoolStands
    <3> QED
      BY <3>1, <1>0, <1>7 DEF MappedIsOwn
  <2> QED
    BY <2>1, <2>2
<1>15. UpIsMapped'
  <2> SUFFICES ASSUME NEW o \in Bots, NEW y \in Contexts, Runs(y, o)', chromium'[y].is # "closing"
               PROVE  live'[o] = y
    BY DEF UpIsMapped
  <2>1. CASE o = b
    BY <2>1, <1>6, <1>12
  <2>2. CASE o # b
    <3>1. y # x /\ Runs(y, o) /\ chromium'[y].is = chromium[y].is
      BY <2>2, <1>7, <1>13
    <3>2. live[o] = y /\ chromium[y].is \in {"up", "half"}
      BY <3>1, <1>0 DEF UpIsMapped, Runs
    <3>3. o \notin evicted
      BY <3>1, <3>2, <1>7
    <3> QED
      BY <2>2, <3>2, <3>3, <1>6
  <2> QED
    BY <2>1, <2>2
<1>16. OneOpen'
  <2> SUFFICES ASSUME NEW o \in Bots, NEW y \in Contexts, NEW z \in Contexts, Runs(y, o)', Runs(z, o)'
               PROVE  y = z
    BY DEF OneOpen
  <2>1. CASE o = b
    BY <2>1, <1>12
  <2>2. CASE o # b
    BY <2>2, <1>13, <1>0 DEF OneOpen
  <2> QED
    BY <2>1, <2>2
<1>17. ASSUME NEW d \in Calls PROVE Agrees(call[d])'
  <2>1. call'[d] = IF d = c THEN row ELSE call[d]
    BY <1>0, <1>9 DEF PoolStands
  <2>2. CASE call'[d].at \notin Exclusive
    BY <2>2 DEF Agrees, Exclusive
  <2>3. CASE call'[d].at \in Exclusive
    <3>1. d # c /\ call'[d] = call[d] /\ Agrees(call[d])
      BY <2>1, <2>3, <1>0, <1>9 DEF Exclusive
    <3>2. call[d].bot \in Bots /\ call[d].bot # b
      BY <3>1, <2>3, <1>0, <1>3 DEF PoolStands, Exclusive
    <3>3. live'[call[d].bot] \in {Pool!None, live[call[d].bot]}
      BY <3>2, <1>6
    <3> QED
      BY <3>1, <3>2, <3>3, <1>1, <1>13 DEF Agrees
  <2> QED
    BY <2>2, <2>3
<1>18. PoolStands'
  BY <1>0, <1>1, <1>4, <1>6, <1>7, <1>10 DEF PoolStands
<1> QED
  BY <1>0, <1>1, <1>10, <1>14, <1>15, <1>16, <1>17, <1>18 DEF PoolInv

\* Every call, exit and sweep of the pool keeps one open browser to a directory.
LEMMA PoolInvStays == Patient /\ PoolInv /\ [Pool!Next]_poolVars => PoolInv'
<1> SUFFICES ASSUME Patient, PoolInv, [Pool!Next]_poolVars PROVE PoolInv'
  OBVIOUS
<1>0. /\ PoolStands /\ MappedIsOwn /\ UpIsMapped /\ OneOpen /\ StartsAreCalls /\ OneExclusive
      /\ \A c \in Calls : Agrees(call[c])
      /\ used \in Seq(Bots) /\ Distinct(used) /\ torn = {}
  BY DEF PoolInv, PoolStands
<1>1. ASSUME NEW c \in Calls, NEW b \in Bots, Pool!PageJoins(c, b) PROVE PoolInv'
  <2>1. "joined" \in Pool!Waiting
    BY DEF Pool!Waiting
  <2>2. PICK row \in CallRows : row.at = "joined" /\ row.bot = b /\ call' = [call EXCEPT ![c] = row]
    BY <1>1, <2>1, SetIs DEF Pool!PageJoins
  <2>3. call[c].at = "idle" /\ UNCHANGED <<live, used, starting, chromium, torn>>
    BY <1>1 DEF Pool!PageJoins, Pool!Asks
  <2>4. Agrees(row) /\ row.at \notin Launching /\ row.at \notin Exclusive /\ call[c].at \notin Launching
    BY <2>2, <2>3 DEF Agrees, Launching, Exclusive
  <2> QED
    BY <1>0, <2>2, <2>3, <2>4, CallStands
<1>2. ASSUME NEW c \in Calls, NEW b \in Bots, Pool!PageHits(c, b) PROVE PoolInv'
  <2>1. used' = Append(Pool!Without(b), b) /\ UNCHANGED <<live, starting, chromium, call, torn>>
    BY <1>2 DEF Pool!PageHits
  <2>2. used' \in Seq(Bots) /\ Distinct(used')
    BY <2>1, <1>0, AppendedIs
  <2>3. PoolStands'
    BY <2>1, <2>2, <1>0 DEF PoolStands
  <2> QED
    BY <2>1, <2>3, <1>0 DEF PoolInv, MappedIsOwn, UpIsMapped, OneOpen, StartsAreCalls, OneExclusive, Agrees, Runs
<1>3. ASSUME NEW c \in Calls, NEW b \in Bots, Pool!PageDrops(c, b) PROVE PoolInv'
  <2>1. /\ Pool!Asks(c, b) /\ starting[b] = Pool!None /\ live[b] # Pool!None
        /\ chromium' = Pool!Is(live[b], "closing") /\ Pool!Set(c, "dropping", b, live[b])
        /\ UNCHANGED <<live, used, starting, torn>>
    BY <1>3 DEF Pool!PageDrops
  <2>2. /\ chromium' \in [Contexts -> BrowserRows] /\ live[b] \in Contexts
        /\ \A x \in Contexts :
              /\ chromium'[x].bot = chromium[x].bot
              /\ chromium'[x].is = IF x = live[b] /\ chromium[x].is \in {"up", "half"}
                                   THEN "closing" ELSE chromium[x].is
    BY <2>1, CloseIs
  <2>3. "dropping" \in Pool!Waiting
    BY DEF Pool!Waiting
  <2>4. PICK row \in CallRows : row.at = "dropping" /\ row.bot = b /\ row.on = live[b] /\ call' = [call EXCEPT ![c] = row]
    BY <2>1, <2>2, <2>3, SetIs
  <2>5. live' \in [Bots -> Contexts \cup {Pool!None}] /\ \A o \in Bots : live'[o] = live[o]
    BY <2>1, <1>0 DEF PoolStands
  <2>6. /\ MappedIsOwn' /\ UpIsMapped' /\ OneOpen'
        /\ \A r \in CallRows : (r.at # "idle" => r.bot \in Bots) /\ Agrees(r) => Agrees(r)'
    BY <2>1, <2>2, <2>5, BrowsersFade
  <2>7. /\ call[c].at = "idle" /\ \A x \in Contexts : Runs(x, b) => live[b] = x
        /\ \A d \in Calls : call[d].at \in Exclusive => call[d].bot # b
    BY <2>1, AskedFinds
  <2>8. Agrees(row)
    BY <2>1, <2>2, <2>4, <2>7 DEF Agrees
  <2>9. /\ call' \in [Calls -> CallRows]
        /\ \A d \in Calls : call'[d].at # "idle" => call'[d].bot \in Bots
        /\ StartsAreCalls' /\ OneExclusive'
    BY <2>1, <2>4, <2>7, CallGoesOn DEF Launching
  <2>10. ASSUME NEW d \in Calls PROVE Agrees(call[d])'
    <3>1. call'[d] = (IF d = c THEN row ELSE call[d]) /\ call'[d] \in CallRows
          /\ (call'[d].at # "idle" => call'[d].bot \in Bots)
      BY <2>4, <2>9, <1>0 DEF PoolStands
    <3>2. PICK r \in CallRows : r = call'[d]
      BY <3>1
    <3>3. Agrees(r)
      BY <3>1, <3>2, <2>8, <1>0
    <3>4. Agrees(r)'
      BY <3>1, <3>2, <3>3, <2>6
    <3> QED
      BY <3>2, <3>4 DEF Agrees, Runs
  <2> QED
    BY <2>1, <2>2, <2>6, <2>9, <2>10, <1>0 DEF PoolInv, PoolStands
<1>4. ASSUME NEW c \in Calls, Pool!Dropped(c) PROVE PoolInv'
  <2> DEFINE b == call[c].bot
  <2>1. /\ call[c].at = "dropping" /\ Pool!Returned(call[c].on)
        /\ live' = [live EXCEPT ![b] = Pool!None] /\ used' = Pool!Without(b)
        /\ starting' = [starting EXCEPT ![b] = c] /\ Pool!Set(c, "launching", b, Pool!None)
        /\ UNCHANGED <<chromium, torn>>
    BY <1>4 DEF Pool!Dropped
  <2>2. b \in Bots /\ starting[b] = Pool!None
        /\ (\A x \in Contexts : ~Runs(x, b))
        /\ \A d \in Calls \ {c} : call[d].at \in Exclusive => call[d].bot # b
    BY <2>1, <1>0 DEF PoolStands, Agrees, Runs, OneExclusive, Exclusive, Pool!Returned
  <2>3. used' \in Seq(Bots) /\ Distinct(used')
    BY <2>1, <2>2, <1>0, WithoutIs
  <2>4. call[c].at \notin Launching
    BY <2>1 DEF Launching
  <2> QED
    BY <2>1, <2>2, <2>3, <2>4, LaunchBegins
<1>5. ASSUME NEW c \in Calls, NEW b \in Bots, Pool!PageStarts(c, b) PROVE PoolInv'
  <2>1. /\ Pool!Asks(c, b) /\ starting[b] = Pool!None /\ live[b] = Pool!None
        /\ starting' = [starting EXCEPT ![b] = c] /\ Pool!Set(c, "launching", b, Pool!None)
        /\ UNCHANGED <<live, used, chromium, torn>>
    BY <1>5 DEF Pool!PageStarts
  <2>2. /\ call[c].at = "idle" /\ \A x \in Contexts : Runs(x, b) => live[b] = x
        /\ \A d \in Calls : call[d].at \in Exclusive => call[d].bot # b
    BY <2>1, AskedFinds
  <2>3. \A x \in Contexts : ~Runs(x, b)
    BY <2>1, <2>2, PoolAssumption DEF Pool!None
  <2>4. live' = [live EXCEPT ![b] = Pool!None]
    BY <2>1, <1>0 DEF PoolStands
  <2>5. call[c].at \notin Launching
    BY <2>2 DEF Launching
  <2> QED
    BY <2>1, <2>2, <2>3, <2>4, <2>5, <1>0, LaunchBegins
<1>6. ASSUME NEW c \in Calls, Pool!Launched(c) PROVE PoolInv'
  BY <1>6, LaunchedStands
<1>7. ASSUME NEW c \in Calls, Pool!LaunchEnds(c) PROVE PoolInv'
  <2> DEFINE b == call[c].bot
  <2>1. /\ call[c].at \in Launching /\ starting' = [starting EXCEPT ![b] = Pool!None]
        /\ call' = [d \in Calls |-> IF d = c \/ (call[d].at = "joined" /\ call[d].bot = b)
                                    THEN Pool!IdleCall ELSE call[d]]
        /\ UNCHANGED <<live, used, chromium, torn>>
    BY <1>7 DEF Pool!LaunchEnds, Launching
  <2>2. b \in Bots /\ starting[b] = c
    BY <2>1, <1>0 DEF PoolStands, StartsAreCalls, Launching
  <2>3. /\ starting' \in [Bots -> Calls \cup {Pool!None}]
        /\ \A o \in Bots : starting'[o] = IF o = b THEN Pool!None ELSE starting[o]
    BY <2>1, <2>2, <1>0 DEF PoolStands
  <2>4. /\ call' \in [Calls -> CallRows]
        /\ \A d \in Calls : call'[d].at # "idle" => d # c /\ call'[d] = call[d] /\ call[d].bot \in Bots
    BY <2>1, IdleIs, <1>0 DEF PoolStands
  <2>5. PoolStands'
    BY <2>1, <2>3, <2>4, <1>0 DEF PoolStands
  <2>6. \A x, o : Runs(x, o)' <=> Runs(x, o)
    BY <2>1 DEF Runs
  <2>7. MappedIsOwn' /\ UpIsMapped' /\ OneOpen'
    BY <2>1, <2>6, <1>0 DEF MappedIsOwn, UpIsMapped, OneOpen
  <2>8. StartsAreCalls'
    <3>1. ASSUME NEW d \in Calls, call'[d].at \in Launching PROVE starting'[call'[d].bot] = d
      <4>1. d # c /\ call'[d] = call[d] /\ call[d].bot \in Bots
        BY <2>4, <3>1 DEF Launching
      <4> QED
        BY <4>1, <3>1, <2>2, <2>3, <1>0 DEF StartsAreCalls
    <3>2. ASSUME NEW o \in Bots, starting'[o] # Pool!None
          PROVE  call'[starting'[o]].bot = o /\ call'[starting'[o]].at \in Launching
      <4>1. o # b /\ starting'[o] = starting[o] /\ starting[o] \in Calls
            /\ call[starting[o]].bot = o /\ call[starting[o]].at \in Launching
        BY <3>2, <2>3, <1>0 DEF StartsAreCalls, PoolStands
      <4>2. call'[starting[o]] = call[starting[o]]
        BY <4>1, <2>1 DEF Launching
      <4> QED
        BY <4>1, <4>2
    <3> QED
      BY <3>1, <3>2 DEF StartsAreCalls
  <2>9. OneExclusive'
    BY <2>4, <1>0 DEF OneExclusive, Exclusive
  <2>10. ASSUME NEW d \in Calls PROVE Agrees(call[d])'
    <3>1. CASE call'[d].at = "idle"
      BY <3>1 DEF Agrees
    <3>2. CASE call'[d].at # "idle"
      <4>1. call'[d] = call[d] /\ call[d].bot \in Bots /\ Agrees(call[d])
        BY <3>2, <2>4, <1>0
      <4> QED
        BY <4>1, <2>1, <2>3, <2>6 DEF Agrees
    <3> QED
      BY <3>1, <3>2
  <2> QED
    BY <2>1, <2>5, <2>7, <2>8, <2>9, <2>10, <1>0 DEF PoolInv
<1>8. ASSUME NEW c \in Calls, NEW b \in Bots, NEW then \in {"stop", "reset"}, Pool!Stop(c, b, then)
      PROVE  PoolInv'
  <2>1. PICK row : row = [at |-> "stopping", bot |-> b, on |-> live[b], then |-> then]
    OBVIOUS
  <2>2. /\ Pool!Asks(c, b) /\ live[b] # Pool!None /\ Pool!Evict(b) /\ call' = [call EXCEPT ![c] = row]
        /\ UNCHANGED <<starting, torn>>
    BY <1>8, <2>1 DEF Pool!Stop
  <2>3. /\ live' \in [Bots -> Contexts \cup {Pool!None}] /\ chromium' \in [Contexts -> BrowserRows]
        /\ used' \in Seq(Bots) /\ Distinct(used')
        /\ MappedIsOwn' /\ UpIsMapped' /\ OneOpen'
        /\ \A r \in CallRows : (r.at # "idle" => r.bot \in Bots) /\ Agrees(r) => Agrees(r)'
    BY <2>2, EvictStands
  <2>4. /\ call[c].at = "idle" /\ \A x \in Contexts : Runs(x, b) => live[b] = x
        /\ \A d \in Calls : call[d].at \in Exclusive => call[d].bot # b
    BY <2>2, AskedFinds
  <2>5. live[b] \in Contexts
    BY <2>2, <1>0 DEF PoolStands
  <2>6. row \in CallRows /\ row.at = "stopping" /\ row.bot = b /\ row.on = live[b]
    BY <2>1, <2>5 DEF CallRows, Pool!Waiting
  <2>7. /\ call' \in [Calls -> CallRows]
        /\ \A d \in Calls : call'[d].at # "idle" => call'[d].bot \in Bots
        /\ StartsAreCalls' /\ OneExclusive'
    BY <2>2, <2>4, <2>6, CallGoesOn DEF Launching
  <2>8. Agrees(row)'
    <3>1. \A x \in Contexts : Runs(x, b)' => Runs(x, b)
      BY <2>2, CloseIs DEF Pool!Evict, Runs
    <3>2. live'[b] = Pool!None
      BY <2>2, <1>0 DEF Pool!Evict, PoolStands
    <3> QED
      BY <3>1, <3>2, <2>4, <2>5, <2>6 DEF Agrees
  <2>9. ASSUME NEW d \in Calls PROVE Agrees(call[d])'
    <3>1. call'[d] = (IF d = c THEN row ELSE call[d])
      BY <2>2, <1>0 DEF PoolStands
    <3>2. CASE d = c
      BY <3>1, <3>2, <2>8 DEF Agrees, Runs
    <3>3. CASE d # c
      <4>1. PICK r \in CallRows : r = call[d] /\ r = call'[d]
        BY <3>1, <3>3, <1>0 DEF PoolStands
      <4>2. Agrees(r)'
        BY <4>1, <2>3, <1>0 DEF PoolStands
      <4> QED
        BY <4>1, <4>2 DEF Agrees, Runs
    <3> QED
      BY <3>2, <3>3
  <2> QED
    BY <2>2, <2>3, <2>7, <2>9, <1>0 DEF PoolInv, PoolStands
<1>9. ASSUME NEW c \in Calls, NEW b \in Bots, Pool!ResetCold(c, b) PROVE PoolInv'
  <2>1. PICK row : row = [at |-> "wiping", bot |-> b, on |-> Pool!None, then |-> "reset"]
    OBVIOUS
  <2>2. /\ Pool!Asks(c, b) /\ live[b] = Pool!None /\ starting[b] = Pool!None
        /\ call' = [call EXCEPT ![c] = row] /\ UNCHANGED <<live, used, starting, chromium, torn>>
    BY <1>9, <2>1 DEF Pool!ResetCold
  <2>3. /\ call[c].at = "idle" /\ \A x \in Contexts : Runs(x, b) => live[b] = x
        /\ \A d \in Calls : call[d].at \in Exclusive => call[d].bot # b
    BY <2>2, AskedFinds
  <2>4. row \in CallRows /\ row.at = "wiping" /\ row.bot = b
    BY <2>1 DEF CallRows, Pool!Waiting
  <2>5. Agrees(row)
    BY <2>2, <2>3, <2>4, PoolAssumption DEF Agrees, Pool!None
  <2>6. call[c].at \notin Launching /\ row.at \notin Launching
    BY <2>3, <2>4 DEF Launching
  <2> QED
    BY <2>2, <2>3, <2>4, <2>5, <2>6, <1>0, CallStands
<1>10. ASSUME NEW c \in Calls, Pool!Stopped(c) PROVE PoolInv'
  <2> DEFINE b == call[c].bot
  <2>1. /\ call[c].at = "stopping" /\ Pool!Returned(call[c].on)
        /\ UNCHANGED <<live, used, starting, chromium, torn>>
        /\ Pool!Set(c, "wiping", b, Pool!None) \/ call' = [call EXCEPT ![c] = Pool!IdleCall]
    BY <1>10 DEF Pool!Stopped, Pool!Done
  <2>2. /\ b \in Bots /\ live[b] = Pool!None /\ \A x \in Contexts : ~Runs(x, b)
        /\ \A d \in Calls \ {c} : call[d].at \in Exclusive => call[d].bot # b
    BY <2>1, <1>0 DEF PoolStands, Agrees, Runs, OneExclusive, Exclusive, Pool!Returned
  <2>3. "wiping" \in Pool!Waiting
    BY DEF Pool!Waiting
  <2>4. PICK row \in CallRows : /\ call' = [call EXCEPT ![c] = row]
                                /\ row.at = "idle" \/ (row.at = "wiping" /\ row.bot = b)
    BY <2>1, <2>2, <2>3, SetIs, IdleIs
  <2>5. Agrees(row)
    BY <2>2, <2>4 DEF Agrees
  <2>6. call[c].at \notin Launching /\ row.at \notin Launching /\ (row.at \in Exclusive => row.at # "idle")
    BY <2>1, <2>4 DEF Launching, Exclusive
  <2> QED
    BY <2>1, <2>2, <2>4, <2>5, <2>6, <1>0, CallStands
<1>11. ASSUME NEW c \in Calls, Pool!Wipe(c) PROVE PoolInv'
  <2> DEFINE b == call[c].bot
  <2>1. /\ call[c].at = "wiping" /\ call' = [call EXCEPT ![c] = Pool!IdleCall]
        /\ torn' = IF Pool!Open(b) # {} THEN torn \cup {b} ELSE torn
        /\ UNCHANGED <<live, used, starting, chromium>>
    BY <1>11 DEF Pool!Wipe, Pool!Done
  <2>2. Pool!Open(b) = {}
    BY <2>1, <1>0 DEF Agrees, Runs, Pool!Open
  <2>3. Agrees(Pool!IdleCall) /\ Pool!IdleCall.at \notin Launching /\ Pool!IdleCall.at \notin Exclusive
        /\ call[c].at \notin Launching
    BY <2>1, IdleIs DEF Agrees, Launching, Exclusive
  <2> QED
    BY <2>1, <2>2, <2>3, <1>0, IdleIs, CallStands
<1>12. ASSUME NEW b \in Bots, Pool!SweepIdle(b) PROVE PoolInv'
  <2>1. live[b] # Pool!None /\ Pool!Evict(b) /\ UNCHANGED <<starting, call, torn>>
    BY <1>12 DEF Pool!SweepIdle
  <2>2. /\ live' \in [Bots -> Contexts \cup {Pool!None}] /\ chromium' \in [Contexts -> BrowserRows]
        /\ used' \in Seq(Bots) /\ Distinct(used')
        /\ MappedIsOwn' /\ UpIsMapped' /\ OneOpen'
        /\ \A r \in CallRows : (r.at # "idle" => r.bot \in Bots) /\ Agrees(r) => Agrees(r)'
    BY <2>1, EvictStands
  <2> QED
    BY <2>1, <2>2, <1>0, SameCalls DEF PoolInv, PoolStands, StartsAreCalls, OneExclusive
<1>13. ASSUME NEW x \in Contexts, Pool!CloseReturns(x) \/ Pool!Exits(x) \/ Pool!PageCloses(x) PROVE PoolInv'
  <2>1. PICK is \in {"closed", "gone", "half"} :
          /\ chromium' = [chromium EXCEPT ![x].is = is] /\ chromium[x].is # "unborn"
          /\ is = "half" => chromium[x].is = "up"
          /\ UNCHANGED <<live, used, starting, call, torn>>
    BY <1>13 DEF Pool!CloseReturns, Pool!Exits, Pool!PageCloses
  <2>2. PICK row : row = [chromium[x] EXCEPT !.is = is]
    OBVIOUS
  <2>3. row \in BrowserRows /\ row.bot = chromium[x].bot /\ row.is = is
    BY <2>2, <1>0 DEF PoolStands, BrowserRows, Pool!ProcessStates
  <2>4. /\ chromium' \in [Contexts -> BrowserRows]
        /\ \A y \in Contexts : chromium'[y] = IF y = x THEN row ELSE chromium[y]
    BY <2>1, <2>2, <2>3, <1>0 DEF PoolStands
  <2>5. live' \in [Bots -> Contexts \cup {Pool!None}] /\ \A o \in Bots : live'[o] = live[o]
    BY <2>1, <1>0 DEF PoolStands
  <2>6. \A y \in Contexts :
            /\ chromium'[y].bot = chromium[y].bot
            /\ chromium'[y].is = "unborn" => chromium[y].is = "unborn"
            /\ chromium'[y].is \in {"up", "half", "closing"} => chromium[y].is \in {"up", "half", "closing"}
            /\ chromium'[y].is \in {"up", "half"} => chromium[y].is \in {"up", "half"}
    BY <2>1, <2>3, <2>4
  <2>7. /\ MappedIsOwn' /\ UpIsMapped' /\ OneOpen'
        /\ \A r \in CallRows : (r.at # "idle" => r.bot \in Bots) /\ Agrees(r) => Agrees(r)'
    BY <2>1, <2>4, <2>5, <2>6, BrowsersFade
  <2> QED
    BY <2>1, <2>4, <2>7, <1>0, SameCalls DEF PoolInv, PoolStands, StartsAreCalls, OneExclusive
<1>14. CASE UNCHANGED poolVars
  BY <1>14, <1>0 DEF poolVars, PoolInv, PoolStands, MappedIsOwn, UpIsMapped, OneOpen, StartsAreCalls, OneExclusive,
                     Agrees, Runs
<1> QED
  BY <1>1, <1>2, <1>3, <1>4, <1>5, <1>6, <1>7, <1>8, <1>9, <1>10, <1>11, <1>12, <1>13, <1>14 DEF Pool!Next

\* One open context at most is a set of one at most.
LEMMA OneIsOpen == PoolInv => Pool!OneOpenPerProfile /\ Pool!WipedAtRest
<1>0. \A S : Pool!Cardinality(S) = Cardinality(S)
  BY DEF Pool!Cardinality, Cardinality
<1> SUFFICES ASSUME PoolInv, NEW b \in Bots PROVE Cardinality(Pool!Open(b)) <= 1
  BY <1>0 DEF Pool!OneOpenPerProfile, Pool!WipedAtRest, PoolInv
<1>1. \A x, y \in Pool!Open(b) : x = y
  BY DEF PoolInv, OneOpen, Runs, Pool!Open
<1>2. CASE Pool!Open(b) = {}
  BY <1>2, FS_EmptySet
<1>3. CASE Pool!Open(b) # {}
  <2>1. PICK x : Pool!Open(b) = {x}
    BY <1>1, <1>3
  <2>2. Cardinality({x}) = 1
    BY FS_Singleton
  <2> QED
    BY <2>1, <2>2
<1> QED
  BY <1>2, <1>3

-----------------------------------------------------------------------------
(***************************************************************************)
(* The shapes of the machines.                                             *)
(***************************************************************************)

\* A chunk that is cut leaves no more than is kept, and an answer shows no more than is shown.
LEMMA CommandShape == Command!TypeOK /\ [Command!Next]_shellVars => Command!TypeOK'
<1> SUFFICES ASSUME Command!TypeOK, [Command!Next]_shellVars PROVE Command!TypeOK'
  OBVIOUS
<1> USE SizesAssumption DEF Command!TypeOK
<1>1. ASSUME NEW p \in Command!Pipes, NEW n \in 1..MaxOutput, Command!Writes(p, n) PROVE Command!TypeOK'
  <2>1. UNCHANGED <<bash, group, daemon, timer, result>>
    BY <1>1 DEF Command!Writes
  <2>2. written' \in [Command!Pipes -> 0..MaxWritten]
    <3>1. written[p] + n <= MaxWritten /\ written' = [written EXCEPT ![p] = @ + n]
      BY <1>1 DEF Command!Writes
    <3> QED
      BY <3>1
  <2>3. text' \in [Command!Pipes -> 0..(2 * MaxOutput)]
    <3>1. text' = [text EXCEPT ![p] = IF text[p] + n > 2 * MaxOutput THEN MaxOutput ELSE text[p] + n]
      BY <1>1 DEF Command!Writes
    <3> QED
      BY <3>1
  <2>4. dropped' \in [Command!Pipes -> BOOLEAN]
    <3>1. \E v \in BOOLEAN : dropped' = [dropped EXCEPT ![p] = v]
      BY <1>1 DEF Command!Writes
    <3> QED
      BY <3>1
  <2> QED
    BY <2>1, <2>2, <2>3, <2>4
<1>2. CASE Command!Backgrounds \/ Command!BashExits \/ Command!GroupExits \/ Command!DaemonExits
  BY <1>2 DEF Command!Backgrounds, Command!BashExits, Command!GroupExits, Command!DaemonExits, Command!output
<1>3. CASE Command!TimerFires \/ Command!Abort
  BY <1>3 DEF Command!TimerFires, Command!Abort, Command!KillGroup, Command!output
<1>4. CASE Command!Answer
  <2>1. UNCHANGED <<bash, group, daemon, text, dropped, written>> /\ timer' \in {"armed", "fired", "cleared"}
    BY <1>4 DEF Command!Answer, Command!output
  <2>2. \A p \in Command!Pipes : Command!Clamp(text[p]) \in 0..MaxOutput
    BY DEF Command!Clamp
  <2>3. [p \in Command!Pipes |-> Command!Clamp(text[p])] \in [Command!Pipes -> 0..MaxOutput]
    BY <2>2
  <2>4. result' \in [answered : BOOLEAN, shown : [Command!Pipes -> 0..MaxOutput], truncated : BOOLEAN]
    <3> DEFINE cut == \E p \in Command!Pipes : text[p] > MaxOutput \/ dropped[p]
               shown == [p \in Command!Pipes |-> Command!Clamp(text[p])]
    <3>1. result' = [answered |-> TRUE, shown |-> shown, truncated |-> cut] /\ cut \in BOOLEAN
      BY <1>4 DEF Command!Answer
    <3>2. shown \in [Command!Pipes -> 0..MaxOutput]
      BY <2>3
    <3> HIDE DEF cut, shown
    <3> QED
      BY ONLY <3>1, <3>2
  <2> QED
    BY <2>1, <2>4
<1>5. CASE UNCHANGED shellVars
  BY <1>5 DEF shellVars
<1> QED
  BY <1>1, <1>2, <1>3, <1>4, <1>5 DEF Command!Next

\* What a stream says is events, and a turn names a session, a thread and an engine of the code's.
LEMMA EngineShape == Engine!TypeOK /\ [Engine!Next]_harnessVars => Engine!TypeOK'
<1> SUFFICES ASSUME Engine!TypeOK, [Engine!Next]_harnessVars PROVE Engine!TypeOK'
  OBVIOUS
<1> DEFINE Is == [at : {"idle", "resumed", "fresh", "closed", "gone", "dead"},
                  thread : Threads, engine : Engines, resume : Sessions \cup {Engine!None}, finished : BOOLEAN,
                  sawWork : BOOLEAN, killed : Sessions \cup {Engine!None}, killedSaid : BOOLEAN, late : BOOLEAN]
           HasSessions == session \in [Engines \X Threads -> Sessions \cup {Engine!None}] /\ home \subseteq Sessions
           HasTurns == turn \in [HarnessTurns -> Is]
           HasSaid == said \in [HarnessTurns -> Seq(Engine!Events)]
           HasTools == tool \in [HarnessTurns -> {"none", "asked", "allowed"}]
           HasRows == rows \in [HarnessTurns -> Nat] /\ toolsUsed \in [HarnessTurns -> Nat]
<1>0. /\ HasSessions /\ HasTurns /\ HasSaid /\ HasTools /\ HasRows
      /\ HasSessions' /\ HasTurns' /\ HasSaid' /\ HasTools' /\ HasRows' => Engine!TypeOK'
  BY DEF Engine!TypeOK, Engine!TurnType
<1>1. \A r \in HarnessTurns : \A e \in Engine!Events : Engine!Says(r, e) => HasSaid'
  <2> TAKE r \in HarnessTurns
  <2> TAKE e \in Engine!Events
  <2>1. Append(said[r], e) \in Seq(Engine!Events)
    BY <1>0
  <2> QED
    BY <1>0, <2>1 DEF Engine!Says
<1>2. {"RUN_STARTED", "work", "RUN_FINISHED", "RUN_ERROR"} = Engine!Events
  BY DEF Engine!Events
<1>3. \A r \in HarnessTurns : /\ turn[r] \in Is
                              /\ \A at \in {"closed", "gone", "dead"} : [turn[r] EXCEPT !.at = at] \in Is
                              /\ [turn[r] EXCEPT !.sawWork = TRUE] \in Is /\ [turn[r] EXCEPT !.finished = TRUE] \in Is
                              /\ turn[r].resume \in Sessions \cup {Engine!None}
                              /\ turn[r].killed \in Sessions \cup {Engine!None}
                              /\ Engine!Key(r) \in Engines \X Threads
  <2> TAKE r \in HarnessTurns
  <2>1. turn[r] \in Is
    BY <1>0
  <2> QED
    BY <2>1 DEF Engine!Key
<1>15. ASSUME NEW row \in Is, NEW was \in BOOLEAN PROVE [row EXCEPT !.late = was] \in Is
  OBVIOUS
<1>16. ASSUME NEW row \in Is, NEW killed \in Sessions \cup {Engine!None}
       PROVE  [row EXCEPT !.at = "fresh", !.resume = Engine!None, !.finished = FALSE, !.killed = killed] \in Is
  OBVIOUS
<1>17. ASSUME NEW row \in Is, NEW spoke \in BOOLEAN
       PROVE  [row EXCEPT !.killedSaid = spoke, !.late = TRUE] \in Is
  OBVIOUS
<1>18. ASSUME NEW row \in Is, NEW at \in {row.at, "dead"}
       PROVE  [row EXCEPT !.at = at, !.killed = Engine!None] \in Is
  OBVIOUS
<1>21. ASSUME NEW row \in Is, NEW t \in Threads, NEW e \in Engines
       PROVE  [row EXCEPT !.at = "closed", !.thread = t, !.engine = e] \in Is
  OBVIOUS
<1> HIDE DEF Is, HasSessions, HasTurns, HasSaid, HasTools, HasRows
<1>19. \A r \in HarnessTurns : \A row \in Is : Engine!Sees(r, row) => HasTurns'
  <2> TAKE r \in HarnessTurns
  <2> TAKE row \in Is
  <2>1. PICK seen \in Is : seen = [row EXCEPT !.late = @ \/ turn[r].finished]
    <3>1. (row.late \/ turn[r].finished) \in BOOLEAN
      BY Zenon
    <3> QED
      BY <3>1, <1>15
  <2> QED
    BY <2>1, <1>0 DEF Engine!Sees, HasTurns
<1>4. ASSUME NEW r \in HarnessTurns, NEW e \in Engines, NEW t \in Threads, NEW prompt \in BOOLEAN,
             Engine!Run(r, e, t, prompt)
      PROVE  Engine!TypeOK'
  <2>1. HasSessions' /\ HasTools' /\ HasRows'
    BY <1>4, <1>0 DEF Engine!Run, Engine!governed, HasSessions, HasTools, HasRows
  <2>2. session[<<e, t>>] \in Sessions \cup {Engine!None}
    BY <1>0 DEF HasSessions
  <2>3. [turn[r] EXCEPT !.at = "closed", !.thread = t, !.engine = e] \in Is
    <3>1. turn[r] \in Is
      BY <1>3
    <3> QED
      BY <3>1, <1>21
  <2>4. ASSUME NEW at \in {"fresh", "resumed"}
        PROVE [Engine!NewTurn EXCEPT !.at = at, !.thread = t, !.engine = e, !.resume = session[<<e, t>>]] \in Is
    BY <2>2 DEF Is, Engine!NewTurn
  <2>5. HasTurns'
    <3>1. \E row \in Is : turn' = [turn EXCEPT ![r] = row]
      BY <1>4, <2>3, <2>4 DEF Engine!Run
    <3> QED
      BY <3>1, <1>0 DEF HasTurns
  <2>6. HasSaid'
    <3>1. <<"RUN_STARTED", "RUN_ERROR">> \in Seq(Engine!Events)
      BY <1>2
    <3>2. said' = [said EXCEPT ![r] = <<"RUN_STARTED", "RUN_ERROR">>] \/ Engine!Says(r, "RUN_STARTED")
      BY <1>4 DEF Engine!Run
    <3>3. CASE Engine!Says(r, "RUN_STARTED")
      BY <3>3, <1>1, <1>2
    <3>4. CASE said' = [said EXCEPT ![r] = <<"RUN_STARTED", "RUN_ERROR">>]
      BY <3>1, <3>4, <1>0 DEF HasSaid
    <3> QED
      BY <3>2, <3>3, <3>4
  <2> QED
    BY <1>0, <2>1, <2>5, <2>6
<1>5. ASSUME NEW r \in HarnessTurns, NEW killed \in Sessions \cup {Engine!None}, Engine!StaleResume(r, killed)
      PROVE  Engine!TypeOK'
  <2>1. HasSessions'
    BY <1>5, <1>0, <1>3 DEF Engine!StaleResume, HasSessions
  <2>2. HasTurns'
    <3> DEFINE fresh == [turn[r] EXCEPT !.at = "fresh", !.resume = Engine!None, !.finished = FALSE, !.killed = killed]
    <3>1. PICK row \in Is : turn' = [turn EXCEPT ![r] = row]
      <4>1. fresh \in Is
        BY <1>3, <1>16
      <4>2. turn' = [turn EXCEPT ![r] = [fresh EXCEPT !.late = turn[r].late \/ turn[r].finished]]
        BY <1>5 DEF Engine!StaleResume
      <4>3. (turn[r].late \/ turn[r].finished) \in BOOLEAN
        BY Zenon
      <4> HIDE DEF fresh
      <4> QED
        BY <4>1, <4>2, <4>3, <1>15
    <3> QED
      BY <3>1, <1>0 DEF HasTurns
  <2>3. HasTools' /\ HasSaid' /\ HasRows'
    BY <1>5, <1>0 DEF Engine!StaleResume, HasTools, HasSaid, HasRows, Engine!governed
  <2> QED
    BY <1>0, <2>1, <2>2, <2>3
<1>6. ASSUME NEW r \in HarnessTurns, Engine!Remember(r) \/ Engine!KilledRemembers(r) PROVE Engine!TypeOK'
  <2>1. HasSessions'
    BY <1>6, <1>0, <1>3 DEF Engine!Remember, Engine!KilledRemembers, HasSessions
  <2>2. HasTools' /\ HasSaid' /\ HasRows' /\ HasTurns'
    BY <1>6, <1>0 DEF Engine!Remember, Engine!KilledRemembers, HasTools, HasSaid, HasRows, HasTurns, Engine!governed
  <2> QED
    BY <1>0, <2>1, <2>2
<1>7. ASSUME NEW r \in HarnessTurns, Engine!Work(r) \/ Engine!EndLine(r) \/ Engine!AskTool(r) PROVE Engine!TypeOK'
  <2>1. HasSessions' /\ HasRows'
    BY <1>7, <1>0 DEF Engine!Work, Engine!EndLine, Engine!AskTool, Engine!governed, HasSessions, HasRows
  <2>2. HasSaid'
    BY <1>7, <1>1, <1>2 DEF Engine!Work, Engine!EndLine, Engine!AskTool
  <2>3. HasTurns'
    BY <1>7, <1>3, <1>19 DEF Engine!Work, Engine!EndLine, Engine!AskTool
  <2>4. HasTools'
    BY <1>7, <1>0 DEF Engine!Work, Engine!EndLine, Engine!AskTool, HasTools
  <2> QED
    BY <1>0, <2>1, <2>2, <2>3, <2>4
<1>8. ASSUME NEW r \in HarnessTurns, Engine!ErrorLine(r) PROVE Engine!TypeOK'
  <2> SUFFICES ASSUME ~Engine!StaleResume(r, turn[r].resume) PROVE Engine!TypeOK'
    BY <1>3, <1>5
  <2>1. /\ Engine!Says(r, "RUN_ERROR") /\ Engine!Sees(r, [turn[r] EXCEPT !.finished = TRUE])
        /\ UNCHANGED <<session, home, tool, rows, toolsUsed>>
    BY <1>8 DEF Engine!ErrorLine, Engine!governed
  <2>2. HasSaid'
    BY <2>1, <1>1, <1>2
  <2>3. HasTurns' /\ HasTools' /\ HasSessions' /\ HasRows'
    BY <2>1, <1>0, <1>3, <1>19 DEF HasTools, HasSessions, HasRows
  <2> QED
    BY <1>0, <2>2, <2>3
<1>20. ASSUME NEW r \in HarnessTurns, NEW event \in Engine!Events, Engine!KilledLine(r, event) PROVE Engine!TypeOK'
  <2>1. Engine!Says(r, event) /\ UNCHANGED <<session, home, tool, rows, toolsUsed>>
    BY <1>20 DEF Engine!KilledLine, Engine!governed
  <2>2. PICK row \in Is : turn' = [turn EXCEPT ![r] = row]
    <3>1. (turn[r].killedSaid \/ event = "work") \in BOOLEAN
      BY Zenon
    <3> QED
      BY <3>1, <1>3, <1>17, <1>20 DEF Engine!KilledLine
  <2>3. HasSaid' /\ HasTurns'
    BY <2>1, <2>2, <1>0, <1>1 DEF HasTurns
  <2> QED
    BY <2>1, <2>3, <1>0 DEF HasSessions, HasTools, HasRows
<1>9. ASSUME NEW r \in HarnessTurns, NEW clean \in BOOLEAN, Engine!Exits(r, clean) PROVE Engine!TypeOK'
  <2> SUFFICES ASSUME ~Engine!StaleResume(r, Engine!None) PROVE Engine!TypeOK'
    BY <1>5
  <2>1. /\ turn' = [turn EXCEPT ![r].at = "closed"] /\ tool' = [tool EXCEPT ![r] = "none"]
        /\ UNCHANGED <<session, home, rows, toolsUsed>>
        /\ said' = said \/ Engine!Says(r, "RUN_FINISHED") \/ Engine!Says(r, "RUN_ERROR")
    BY <1>9 DEF Engine!Exits, Engine!governed
  <2>2. HasSaid'
    <3>1. CASE said' = said
      BY <3>1, <1>0 DEF HasSaid
    <3> QED
      BY <3>1, <2>1, <1>1, <1>2
  <2>3. HasTurns' /\ HasTools' /\ HasSessions' /\ HasRows'
    BY <2>1, <1>0, <1>3 DEF HasTurns, HasTools, HasSessions, HasRows
  <2> QED
    BY <1>0, <2>2, <2>3
<1>10. ASSUME NEW r \in HarnessTurns, Engine!HangUp(r) PROVE Engine!TypeOK'
  <2>1. HasTurns' /\ HasTools' /\ HasSessions' /\ HasRows' /\ HasSaid'
    BY <1>10, <1>0, <1>3 DEF Engine!HangUp, Engine!governed, HasTurns, HasTools, HasSessions, HasRows, HasSaid
  <2> QED
    BY <1>0, <2>1
<1>11. CASE Engine!Rebuild
  <2>1. HasTurns'
    <3> DEFINE at(r) == IF Engine!Engaged(r) THEN "dead" ELSE turn[r].at
               left(r) == [turn[r] EXCEPT !.at = at(r), !.killed = Engine!None]
    <3>1. turn' = [r \in HarnessTurns |-> left(r)]
      BY <1>11 DEF Engine!Rebuild
    <3>2. \A r \in HarnessTurns : left(r) \in Is
      <4> TAKE r \in HarnessTurns
      <4>1. at(r) \in {turn[r].at, "dead"}
        OBVIOUS
      <4> HIDE DEF at
      <4> QED
        BY <4>1, <1>3, <1>18
    <3> QED
      BY <3>1, <3>2 DEF HasTurns
  <2>2. HasTools' /\ HasSessions' /\ HasRows' /\ HasSaid'
    BY <1>11, <1>0 DEF Engine!Rebuild, Engine!governed, HasTools, HasSessions, HasRows, HasSaid
  <2> QED
    BY <1>0, <2>1, <2>2
<1>12. ASSUME NEW r \in HarnessTurns, NEW allowed \in BOOLEAN, NEW recorded \in BOOLEAN,
              Engine!Decide(r, allowed, recorded)
       PROVE  Engine!TypeOK'
  <2>1. HasRows'
    BY <1>12, <1>0 DEF Engine!Decide, HasRows
  <2>2. HasTurns' /\ HasTools' /\ HasSessions' /\ HasSaid'
    BY <1>12, <1>0 DEF Engine!Decide, HasTurns, HasTools, HasSessions, HasSaid
  <2> QED
    BY <1>0, <2>1, <2>2
<1>13. ASSUME NEW r \in HarnessTurns, Engine!Use(r) PROVE Engine!TypeOK'
  <2>1. HasRows'
    BY <1>13, <1>0 DEF Engine!Use, HasRows
  <2>2. HasTurns' /\ HasTools' /\ HasSessions' /\ HasSaid'
    BY <1>13, <1>0 DEF Engine!Use, HasTurns, HasTools, HasSessions, HasSaid
  <2> QED
    BY <1>0, <2>1, <2>2
<1>14. CASE UNCHANGED harnessVars
  BY <1>14, <1>0 DEF harnessVars, HasTurns, HasTools, HasSessions, HasRows, HasSaid
<1> QED
  BY <1>4, <1>6, <1>7, <1>8, <1>9, <1>10, <1>11, <1>12, <1>13, <1>14, <1>20 DEF Engine!Next

\* A node, a placement, a bundle and a move are of what there is, whoever moves what when.
LEMMA PlacingShape == Placing!TypeOK /\ [Placing!Next]_meshVars => Placing!TypeOK'
<1> SUFFICES ASSUME Placing!TypeOK, [Placing!Next]_meshVars PROVE Placing!TypeOK'
  OBVIOUS
<1> DEFINE Is == [at : Placing!Steps, bot : MovedBots, from : Placing!Places, to : Placing!Places,
                  bundled : BOOLEAN, bundle : SUBSET Placing!Files]
           Ask == [at : {"new", "checking", "done"}, token : Tokens, id : Nodes]
           HasTables == nodes \subseteq Nodes /\ open \subseteq Nodes /\ placement \in [MovedBots -> Placing!Places]
           HasComputers == computer \in [Placing!Places -> [MovedBots -> {"absent", "stopped", "running"}]]
           HasDisks == disk \in [Placing!Places -> [MovedBots -> SUBSET Placing!Files]]
                       /\ kept \in [MovedBots -> SUBSET Placing!Files]
           HasMoves == move \in [Moves -> Is]
           HasJoins == /\ token \in [Tokens -> {"unminted", "fresh", "expired", "used"}]
                       /\ join \in [Joins -> Ask] /\ admitted \in [Tokens -> SUBSET Joins]
<1>0. /\ HasTables /\ HasComputers /\ HasDisks /\ HasMoves /\ HasJoins
      /\ HasTables' /\ HasComputers' /\ HasDisks' /\ HasMoves' /\ HasJoins' => Placing!TypeOK'
  BY DEF Placing!TypeOK, Placing!MoveType
<1>1. /\ UNCHANGED <<nodes, open, placement>> => HasTables'
      /\ UNCHANGED computer => HasComputers'
      /\ UNCHANGED <<disk, kept>> => HasDisks'
      /\ UNCHANGED move => HasMoves'
      /\ UNCHANGED <<token, join, admitted>> => HasJoins'
  BY <1>0
<1>2. \A m \in Moves : move[m] \in Is
  BY <1>0
<1>3. \A j \in Joins : join[j] \in Ask
  BY <1>0
<1>4. Local \in Placing!Places /\ Placing!NoMove \in Is
  BY SomethingAssumption DEF Placing!Places, Placing!NoMove, Placing!Steps
<1> HIDE DEF HasTables, HasComputers, HasDisks, HasMoves, HasJoins, Is, Ask
<1>5. \A p \in Placing!Places, b \in MovedBots, v \in {"absent", "stopped", "running"} :
        computer' = [computer EXCEPT ![p][b] = v] => HasComputers'
  BY <1>0 DEF HasComputers
<1>6. \A p \in Placing!Places, b \in MovedBots, v \in SUBSET Placing!Files :
        disk' = [disk EXCEPT ![p][b] = v] => disk' \in [Placing!Places -> [MovedBots -> SUBSET Placing!Files]]
  BY <1>0 DEF HasDisks
<1>7. \A m \in Moves : \A row \in Is : move' = [move EXCEPT ![m] = row] => HasMoves'
  BY <1>0 DEF HasMoves
<1>8. \A m \in Moves : \A at \in Placing!Steps : Placing!Goes(m, at) => HasMoves'
  <2> TAKE m \in Moves
  <2> TAKE at \in Placing!Steps
  <2>1. [move[m] EXCEPT !.at = at] \in Is
    BY <1>2 DEF Is
  <2>2. Placing!Goes(m, at) => move' = [move EXCEPT ![m] = [move[m] EXCEPT !.at = at]]
    <3>1. move = [o \in Moves |-> move[o]]
      BY <1>0 DEF HasMoves
    <3> QED
      BY <3>1 DEF Placing!Goes
  <2> QED
    BY <2>1, <2>2, <1>7
<1>9. \A m \in Moves : /\ move[m].bot \in MovedBots /\ move[m].from \in Placing!Places /\ move[m].to \in Placing!Places
                       /\ move[m].bundle \subseteq Placing!Files /\ move[m].bundled \in BOOLEAN
  BY <1>2 DEF Is
<1>10. \A p \in Placing!Places, b \in MovedBots : /\ disk[p][b] \subseteq Placing!Files
                                                  /\ computer[p][b] \in {"absent", "stopped", "running"}
  BY <1>0 DEF HasDisks, HasComputers
<1>11. {"idle", "asked", "bundling", "target", "workspace", "profiles", "stopping", "placing"} = Placing!Steps
  BY DEF Placing!Steps
<1>12. \A b \in MovedBots : placement[b] \in Placing!Places /\ kept[b] \subseteq Placing!Files
  BY <1>0 DEF HasTables, HasDisks
<1>13. ASSUME NEW t \in Tokens, Placing!Mint(t) \/ Placing!Expire(t) PROVE Placing!TypeOK'
  <2>1. HasJoins'
    BY <1>13, <1>0 DEF Placing!Mint, Placing!Expire, HasJoins
  <2> QED
    BY <1>0, <1>1, <2>1, <1>13 DEF Placing!Mint, Placing!Expire, Placing!tables
<1>14. ASSUME NEW j \in Joins, NEW t \in Tokens, NEW n \in Nodes, Placing!Consume(j, t, n) PROVE Placing!TypeOK'
  <2>1. \E row \in Ask : join' = [join EXCEPT ![j] = row]
    <3>1. [at |-> IF token[t] = "fresh" THEN "checking" ELSE "done", token |-> t, id |-> n] \in Ask
      BY DEF Ask
    <3> QED
      BY <1>14, <3>1 DEF Placing!Consume
  <2>2. HasJoins'
    BY <1>14, <2>1, <1>0 DEF Placing!Consume, HasJoins
  <2> QED
    BY <1>0, <1>1, <2>2, <1>14 DEF Placing!Consume, Placing!tables
<1>15. ASSUME NEW j \in Joins, Placing!Enrolled(j) \/ Placing!Unreached(j) PROVE Placing!TypeOK'
  <2>1. [join[j] EXCEPT !.at = "done"] \in Ask /\ join[j].id \in Nodes /\ join[j].token \in Tokens
    BY <1>3 DEF Ask
  <2>2. join' = [join EXCEPT ![j] = [join[j] EXCEPT !.at = "done"]]
    <3>1. join = [o \in Joins |-> join[o]]
      BY <1>0 DEF HasJoins
    <3> QED
      BY <3>1, <1>15 DEF Placing!Enrolled, Placing!Unreached
  <2>3. HasJoins'
    <3>1. join' \in [Joins -> Ask]
      BY <2>1, <2>2, <1>0 DEF HasJoins
    <3> QED
      BY <3>1, <2>1, <1>15, <1>0 DEF Placing!Enrolled, Placing!Unreached, HasJoins
  <2>4. HasTables'
    BY <2>1, <1>15, <1>0 DEF Placing!Enrolled, Placing!Unreached, HasTables, Placing!tables
  <2> QED
    BY <1>0, <1>1, <2>3, <2>4, <1>15 DEF Placing!Enrolled, Placing!Unreached
<1>16. ASSUME NEW n \in Nodes, Placing!Remove(n) \/ \E on \in BOOLEAN : Placing!SetPlacementEnabled(n, on)
       PROVE  Placing!TypeOK'
  <2>1. HasTables'
    BY <1>16, <1>0 DEF Placing!Remove, Placing!SetPlacementEnabled, HasTables
  <2> QED
    BY <1>0, <1>1, <2>1, <1>16 DEF Placing!Remove, Placing!SetPlacementEnabled, Placing!enrolment
<1>17. ASSUME NEW b \in MovedBots, Placing!Stop(b) \/ \E p \in Placing!Places : Placing!Halts(p, b) PROVE Placing!TypeOK'
  <2>1. HasComputers'
    BY <1>17, <1>5, <1>12 DEF Placing!Stop, Placing!Halts
  <2> QED
    BY <1>0, <1>1, <2>1, <1>17 DEF Placing!Stop, Placing!Halts, Placing!enrolment, Placing!tables
<1>18. ASSUME NEW b \in MovedBots, Placing!Reset(b) \/ \E f \in Placing!Files : Placing!Act(b, f) PROVE Placing!TypeOK'
  <2>1. HasComputers'
    BY <1>18, <1>5, <1>12 DEF Placing!Reset, Placing!Act
  <2>2. disk' \in [Placing!Places -> [MovedBots -> SUBSET Placing!Files]]
    <3>1. PICK v \in SUBSET Placing!Files : disk' = [disk EXCEPT ![placement[b]][b] = v]
      <4>1. CASE Placing!Reset(b)
        BY <4>1 DEF Placing!Reset
      <4>2. ASSUME NEW f \in Placing!Files, Placing!Act(b, f)
            PROVE  \E v \in SUBSET Placing!Files : disk' = [disk EXCEPT ![placement[b]][b] = v]
        <5> DEFINE d == disk[placement[b]][b]
        <5>1. d \cup {f} \in SUBSET Placing!Files /\ d \ {f} \in SUBSET Placing!Files
          BY <1>10, <1>12
        <5>2. disk' = [disk EXCEPT ![placement[b]][b] = d \cup {f}] \/ disk' = [disk EXCEPT ![placement[b]][b] = d \ {f}]
          BY <4>2 DEF Placing!Act
        <5> HIDE DEF d
        <5> QED
          BY <5>1, <5>2
      <4> QED
        BY <1>18, <4>1, <4>2
    <3> QED
      BY <3>1, <1>6, <1>12
  <2>3. kept' \in [MovedBots -> SUBSET Placing!Files]
    <3>1. PICK v \in SUBSET Placing!Files : kept' = [kept EXCEPT ![b] = v]
      <4>1. CASE Placing!Reset(b)
        BY <4>1 DEF Placing!Reset
      <4>2. ASSUME NEW f \in Placing!Files, Placing!Act(b, f)
            PROVE  \E v \in SUBSET Placing!Files : kept' = [kept EXCEPT ![b] = v]
        <5> DEFINE d == kept[b]
        <5>1. d \cup {f} \in SUBSET Placing!Files /\ d \ {f} \in SUBSET Placing!Files
          BY <1>12
        <5>2. kept' = [kept EXCEPT ![b] = d \cup {f}] \/ kept' = [kept EXCEPT ![b] = d \ {f}]
          BY <4>2 DEF Placing!Act
        <5> HIDE DEF d
        <5> QED
          BY <5>1, <5>2
      <4> QED
        BY <1>18, <4>1, <4>2
    <3> QED
      BY <3>1, <1>0 DEF HasDisks
  <2>4. HasDisks'
    BY <2>2, <2>3 DEF HasDisks
  <2> QED
    BY <1>0, <1>1, <2>1, <2>4, <1>18 DEF Placing!Reset, Placing!Act, Placing!enrolment, Placing!tables
<1>19. ASSUME NEW m \in Moves, NEW b \in MovedBots, NEW to \in Placing!Places, Placing!Begin(m, b, to)
       PROVE  Placing!TypeOK'
  <2>1. [Placing!NoMove EXCEPT !.at = "asked", !.bot = b, !.from = placement[b], !.to = to] \in Is
    BY <1>4, <1>11, <1>12 DEF Is
  <2>2. HasMoves'
    BY <2>1, <1>7, <1>19 DEF Placing!Begin
  <2> QED
    BY <1>0, <1>1, <2>2, <1>19 DEF Placing!Begin, Placing!enrolment, Placing!tables
<1>20. ASSUME NEW m \in Moves, Placing!AskStatus(m) PROVE Placing!TypeOK'
  <2>1. HasMoves'
    BY <1>20, <1>8, <1>11 DEF Placing!AskStatus
  <2> QED
    BY <1>0, <1>1, <2>1, <1>20 DEF Placing!AskStatus, Placing!enrolment, Placing!tables
<1>21. ASSUME NEW m \in Moves, Placing!Bundle(m) PROVE Placing!TypeOK'
  <2>1. HasComputers'
    BY <1>21, <1>5, <1>9 DEF Placing!Bundle
  <2>2. disk[move[m].from][move[m].bot] \subseteq Placing!Files
    BY <1>9, <1>10
  <2>3. [move[m] EXCEPT !.at = "target", !.bundled = TRUE, !.bundle = disk[move[m].from][move[m].bot]] \in Is
    BY <2>2, <1>2, <1>11 DEF Is
  <2>4. HasMoves'
    BY <2>3, <1>7, <1>21 DEF Placing!Bundle
  <2> QED
    BY <1>0, <1>1, <2>1, <2>4, <1>21 DEF Placing!Bundle, Placing!enrolment, Placing!tables
<1>22. ASSUME NEW m \in Moves, Placing!EnsureTarget(m) PROVE Placing!TypeOK'
  <2>1. HasComputers'
    BY <1>22, <1>5, <1>9 DEF Placing!EnsureTarget
  <2>2. HasMoves'
    BY <1>22, <1>8, <1>11 DEF Placing!EnsureTarget
  <2> QED
    BY <1>0, <1>1, <2>1, <2>2, <1>22 DEF Placing!EnsureTarget, Placing!enrolment, Placing!tables
<1>23. ASSUME NEW m \in Moves, NEW part, NEW next \in Placing!Steps, Placing!Extract(m, part, next) PROVE Placing!TypeOK'
  <2> DEFINE d == disk[move[m].to][move[m].bot]
  <2>1. d \cup (move[m].bundle \cap part) \in SUBSET Placing!Files
    BY <1>9, <1>10
  <2>2. disk' = [disk EXCEPT ![move[m].to][move[m].bot] = d \cup (move[m].bundle \cap part)]
    BY <1>23 DEF Placing!Extract
  <2>3. disk' \in [Placing!Places -> [MovedBots -> SUBSET Placing!Files]]
    <3> HIDE DEF d
    <3> QED
      BY <2>1, <2>2, <1>6, <1>9
  <2>4. HasDisks'
    BY <2>3, <1>23, <1>0 DEF Placing!Extract, HasDisks
  <2>5. HasMoves'
    BY <1>23, <1>8 DEF Placing!Extract
  <2> QED
    BY <1>0, <1>1, <2>4, <2>5, <1>23 DEF Placing!Extract, Placing!enrolment, Placing!tables
<1>24. ASSUME NEW m \in Moves, Placing!StopSource(m) PROVE Placing!TypeOK'
  <2>1. HasComputers'
    <3>1. \E v \in {"absent", "stopped", "running"} : computer' = [computer EXCEPT ![move[m].from][move[m].bot] = v]
      BY <1>24, <1>9, <1>10 DEF Placing!StopSource
    <3> QED
      BY <3>1, <1>5, <1>9
  <2>2. HasMoves'
    BY <1>24, <1>8, <1>11 DEF Placing!StopSource
  <2> QED
    BY <1>0, <1>1, <2>1, <2>2, <1>24 DEF Placing!StopSource, Placing!enrolment, Placing!tables
<1>25. ASSUME NEW m \in Moves, Placing!Place(m) \/ Placing!MoveFails(m) PROVE Placing!TypeOK'
  <2>1. HasMoves'
    BY <1>25, <1>4, <1>7 DEF Placing!Place, Placing!MoveFails
  <2>2. HasTables'
    BY <1>25, <1>0, <1>9 DEF Placing!Place, Placing!MoveFails, HasTables, Placing!tables
  <2> QED
    BY <1>0, <1>1, <2>1, <2>2, <1>25 DEF Placing!Place, Placing!MoveFails, Placing!enrolment
<1>26. ASSUME NEW m \in Moves, Placing!RestoreWorkspace(m) \/ Placing!RestoreProfiles(m) PROVE Placing!TypeOK'
  BY <1>23, <1>26, <1>11 DEF Placing!RestoreWorkspace, Placing!RestoreProfiles
<1>27. CASE UNCHANGED meshVars
  BY <1>0, <1>1, <1>27 DEF meshVars
<1> QED
  BY <1>13, <1>14, <1>15, <1>16, <1>17, <1>18, <1>19, <1>20, <1>21, <1>22, <1>24, <1>25, <1>26, <1>27
     DEF Placing!Next

\* What a sender still has to send is meant for some field.
ControlTypes == Control!TypeOK /\ \A d \in Control!Senders : sending[d] # "idle" => meant[d] \in Fields

\* However many values are typed, the ring holds as many as it may.
LEMMA RingFits ==
  ASSUME NEW s \in Seq(Fields), Len(s) <= Ring, NEW v \in Fields
  PROVE  Control!Remember(s, v) \in Seq(Fields) /\ Len(Control!Remember(s, v)) <= Ring
<1> DEFINE grown == Append(s, v)
<1>1. grown \in Seq(Fields) /\ Len(grown) = Len(s) + 1 /\ Len(s) \in Nat
  OBVIOUS
<1>2. Len(grown) > Ring => Tail(grown) \in Seq(Fields) /\ Len(Tail(grown)) <= Ring
  BY <1>1, SizesAssumption
<1> QED
  BY <1>1, <1>2, SizesAssumption DEF Control!Remember

\* Every step of the Bot, of a person and of the page keeps the wheel and its secrets of their shape.
LEMMA ControlShape == ControlTypes /\ [Control!Next]_controlVars => ControlTypes'
<1> SUFFICES ASSUME ControlTypes, [Control!Next]_controlVars PROVE ControlTypes'
  OBVIOUS
<1> DEFINE Marked == Fields \cup {Control!None}
           HasHands == /\ holder \in {"bot", "human"} /\ acting \in [BotCalls -> {"idle", "admitted"}]
                       /\ input \in {"idle", "admitted"}
           HasMarks == asked \in BOOLEAN /\ uninvited \in BOOLEAN
           HasCounts == late \in Nat /\ inflight \in Nat /\ takes \in 0..MaxTakes
           HasWheel == HasHands /\ HasMarks /\ HasCounts
           HasSent == /\ sending \in [Control!Senders -> {"idle", "ready", "delivering", "filled"}]
                      /\ meant \in [Control!Senders -> Marked] /\ into \in [Control!Senders -> Marked]
                      /\ \A d \in Control!Senders : sending[d] # "idle" => meant[d] \in Fields
           HasPage == /\ contents \in [Fields -> Marked] /\ described \in BOOLEAN /\ moved \in BOOLEAN
                      /\ astray \in [Control!Senders -> BOOLEAN]
           HasWanted == pending \in Marked /\ misplaced \in BOOLEAN
           HasRing == remembered \in Seq(Fields) /\ Len(remembered) <= Ring
           HasLooks == looking \in [BotCalls -> {"idle", "captured"}] /\ captured \in [BotCalls -> SUBSET Fields]
<1>0. /\ HasWheel /\ HasSent /\ HasPage /\ HasWanted /\ HasRing /\ HasLooks
      /\ HasWheel' /\ HasSent' /\ HasPage' /\ HasWanted' /\ HasRing' /\ HasLooks' => ControlTypes'
  BY DEF ControlTypes, Control!TypeOK
<1>1. /\ UNCHANGED Control!wheelVars => HasWheel'
      /\ UNCHANGED <<sending, meant, into>> => HasSent'
      /\ UNCHANGED <<contents, described, moved, astray>> => HasPage'
      /\ UNCHANGED <<pending, misplaced>> => HasWanted'
      /\ UNCHANGED remembered => HasRing'
      /\ UNCHANGED <<looking, captured>> => HasLooks'
  BY <1>0 DEF Control!wheelVars
<1> HIDE DEF HasWheel, HasHands, HasMarks, HasCounts, HasSent, HasPage, HasWanted, HasRing, HasLooks
<1>2. Control!MayTurn => HasPage'
  BY <1>0 DEF HasPage, Control!MayTurn, Control!Turns, Control!pageVars
<1>3. Admitted = {b \in BotCalls : acting[b] = "admitted"} /\ Control!Cardinality(Admitted) \in Nat
  BY AdmittedIsFinite, Counts DEF Admitted
<1>4. BotCalls \subseteq Control!Senders /\ Person \in Control!Senders
  BY DEF Control!Senders
<1>5. ASSUME NEW d \in Control!Senders PROVE Control!None \in Marked /\ meant[d] \in Marked /\ into[d] \in Marked
  BY <1>0 DEF HasSent
<1>6. CASE Control!PageMoves
  <2>1. HasPage'
    BY <1>2, <1>6 DEF Control!PageMoves, Control!MayTurn
  <2> QED
    BY <1>0, <1>1, <2>1, <1>6 DEF Control!PageMoves, Control!lookVars
<1>7. CASE Control!Expire \/ Control!Take \/ Control!Release \/ Control!AdmitInput \/ Control!LandInput
  <2>1. HasWheel'
    <3>1. HasHands'
      BY <1>7, <1>0 DEF Control!Expire, Control!Take, Control!Release, Control!AdmitInput, Control!LandInput, HasWheel, HasHands
    <3>2. HasMarks'
      BY <1>7, <1>0 DEF Control!Expire, Control!Take, Control!Release, Control!AdmitInput, Control!LandInput, HasWheel, HasMarks
    <3>3. HasCounts'
      <4>1. CASE Control!Take
        <5>1. late' = 0 /\ takes' = takes + 1 /\ takes < MaxTakes /\ inflight' = Control!Cardinality(Admitted)
          BY <4>1, <1>3 DEF Control!Take
        <5> QED
          BY <5>1, <1>0, <1>3, SizesAssumption DEF HasWheel, HasCounts
      <4>2. CASE Control!Expire \/ Control!Release \/ Control!AdmitInput \/ Control!LandInput
        BY <4>2, <1>0 DEF Control!Expire, Control!Release, Control!AdmitInput, Control!LandInput, HasWheel, HasCounts
      <4> QED
        BY <1>7, <4>1, <4>2
    <3> QED
      BY <3>1, <3>2, <3>3 DEF HasWheel
  <2>2. HasPage'
    BY <1>7, <1>1, <1>2 DEF Control!Expire, Control!Take, Control!Release, Control!AdmitInput, Control!LandInput,
                            Control!secretVars, Control!pageVars
  <2>3. HasSent' /\ HasRing' /\ HasLooks'
    BY <1>7, <1>1 DEF Control!Expire, Control!Take, Control!Release, Control!AdmitInput, Control!LandInput,
                            Control!secretVars, Control!lookVars
  <2>4. HasWanted'
    BY <1>7, <1>0 DEF Control!Expire, Control!Take, Control!Release, Control!AdmitInput, Control!LandInput,
                            Control!secretVars, HasWanted
  <2> QED
    BY <1>0, <2>1, <2>2, <2>3, <2>4
<1>8. CASE Control!Compose
  <2>1. pending \in Fields /\ moved \in BOOLEAN
    BY <1>8, <1>0 DEF Control!Compose, HasWanted, HasPage
  <2>2. HasSent'
    BY <2>1, <1>8, <1>0, <1>4 DEF Control!Compose, HasSent
  <2>3. HasPage'
    BY <2>1, <1>8, <1>0, <1>4 DEF Control!Compose, HasPage
  <2> QED
    BY <1>0, <1>1, <2>2, <2>3, <1>8 DEF Control!Compose, Control!lookVars
<1>9. ASSUME NEW b \in BotCalls,
             Control!Admit(b) \/ Control!Land(b) \/ Control!LandFails(b) \/ Control!LoadSession(b) \/ Control!RequestHelp(b)
      PROVE  ControlTypes'
  <2>1. HasWheel'
    <3>1. HasHands'
      BY <1>9, <1>0 DEF Control!Admit, Control!Land, Control!LandFails, Control!LoadSession, Control!RequestHelp, HasWheel, HasHands
    <3>2. HasMarks'
      BY <1>9, <1>0 DEF Control!Admit, Control!Land, Control!LandFails, Control!LoadSession, Control!RequestHelp, HasWheel, HasMarks
    <3>3. HasCounts'
      BY <1>9, <1>0 DEF Control!Admit, Control!Land, Control!LandFails, Control!LoadSession, Control!RequestHelp, HasWheel, HasCounts
    <3> QED
      BY <3>1, <3>2, <3>3 DEF HasWheel
  <2>2. HasPage'
    BY <1>9, <1>1, <1>2 DEF Control!Admit, Control!Land, Control!LandFails, Control!LoadSession, Control!RequestHelp,
                            Control!secretVars, Control!pageVars
  <2> QED
    BY <1>0, <1>1, <2>1, <2>2, <1>9 DEF Control!Admit, Control!Land, Control!LandFails, Control!LoadSession,
                            Control!RequestHelp, Control!secretVars, Control!lookVars
<1>10. ASSUME NEW b \in BotCalls, Control!Capture(b) \/ Control!Return(b) PROVE ControlTypes'
  <2>1. {contents[f] : f \in Fields} \ {Control!None} \in SUBSET Fields
    BY <1>0 DEF HasPage
  <2>2. \E v \in SUBSET Fields, at \in {"idle", "captured"} :
           looking' = [looking EXCEPT ![b] = at] /\ captured' = [captured EXCEPT ![b] = v]
    BY <1>10, <2>1 DEF Control!Capture, Control!Return
  <2>3. HasLooks'
    BY <2>2, <1>0 DEF HasLooks
  <2>4. HasPage'
    BY <1>10, <1>0 DEF Control!Capture, Control!Return, HasPage, Control!secretVars, Control!pageVars
  <2> QED
    BY <1>0, <1>1, <2>3, <2>4, <1>10 DEF Control!Capture, Control!Return, Control!secretVars, Control!pageVars
<1>11. ASSUME NEW b \in BotCalls, NEW f \in Fields, Control!RequestSecret(b, f) \/ Control!NameField(b, f)
       PROVE  ControlTypes'
  <2>1. HasSent'
    BY <1>11, <1>0, <1>4 DEF Control!RequestSecret, Control!NameField, HasSent
  <2>2. HasPage'
    BY <1>11, <1>0, <1>4 DEF Control!RequestSecret, Control!NameField, HasPage
  <2>3. HasWanted'
    BY <1>11, <1>0 DEF Control!RequestSecret, Control!NameField, HasWanted
  <2> QED
    BY <1>0, <1>1, <2>1, <2>2, <2>3, <1>11 DEF Control!RequestSecret, Control!NameField, Control!lookVars
<1>12. ASSUME NEW d \in Control!Senders, Control!Deliver(d) PROVE ControlTypes'
  <2>1. PICK at \in {"idle", "delivering"}, v \in Marked :
           /\ sending' = [sending EXCEPT ![d] = at] /\ meant' = [meant EXCEPT ![d] = v]
           /\ at # "idle" => v = meant[d]
    BY <1>12, <1>5 DEF Control!Deliver
  <2>2. pending \in Marked /\ into' = [into EXCEPT ![d] = pending] /\ sending[d] = "ready"
    BY <1>12, <1>0 DEF Control!Deliver, HasWanted
  <2>3. HasSent'
    BY <2>1, <2>2, <1>0 DEF HasSent
  <2> QED
    BY <1>0, <1>1, <2>3, <1>12 DEF Control!Deliver, Control!lookVars, Control!pageVars
<1>13. ASSUME NEW d \in Control!Senders, Control!Fill(d) PROVE ControlTypes'
  <2>1. meant[d] \in Fields
    BY <1>13, <1>0 DEF Control!Fill, HasSent
  <2>2. HasSent'
    BY <1>13, <1>0, <2>1 DEF Control!Fill, HasSent
  <2>3. HasPage'
    BY <1>13, <1>0, <2>1 DEF Control!Fill, HasPage
  <2>4. HasWanted'
    <3>1. astray[d] \in BOOLEAN
      BY <1>0 DEF HasPage
    <3> QED
      BY <1>13, <1>0, <3>1 DEF Control!Fill, HasWanted
  <2>5. HasWheel'
    <3>1. UNCHANGED <<holder, asked, acting, input, late, inflight, takes>>
      BY <1>13 DEF Control!Fill
    <3>2. HasHands' /\ HasCounts'
      BY <1>0, <3>1 DEF HasWheel, HasHands, HasCounts
    <3>3. HasMarks'
      <4>1. uninvited' \in BOOLEAN
        BY <1>13 DEF Control!Fill
      <4> QED
        BY <1>0, <3>1, <4>1 DEF HasWheel, HasMarks
    <3> QED
      BY <3>2, <3>3 DEF HasWheel
  <2> QED
    BY <1>0, <1>1, <2>2, <2>3, <2>4, <2>5, <1>13 DEF Control!Fill, Control!lookVars
<1>14. ASSUME NEW d \in Control!Senders, Control!FillFails(d) \/ Control!Supplied(d) PROVE ControlTypes'
  <2>1. HasSent'
    BY <1>14, <1>0 DEF Control!FillFails, Control!Supplied, HasSent
  <2>2. HasWanted'
    BY <1>14, <1>0 DEF Control!FillFails, Control!Supplied, HasWanted
  <2>3. HasRing'
    <3>1. CASE Control!Supplied(d)
      <4>1. meant[d] \in Fields /\ remembered' = Control!Remember(remembered, meant[d])
        BY <3>1, <1>0 DEF Control!Supplied, HasSent
      <4> QED
        BY <4>1, <1>0, RingFits DEF HasRing
    <3>2. CASE Control!FillFails(d)
      BY <3>2, <1>1 DEF Control!FillFails
    <3> QED
      BY <1>14, <3>1, <3>2
  <2> QED
    BY <1>0, <1>1, <2>1, <2>2, <2>3, <1>14 DEF Control!FillFails, Control!Supplied, Control!lookVars, Control!pageVars
<1>15. CASE UNCHANGED controlVars
  BY <1>0, <1>1, <1>15 DEF controlVars, Control!wheelVars
<1> QED
  BY <1>6, <1>7, <1>8, <1>9, <1>10, <1>11, <1>12, <1>13, <1>14, <1>15
     DEF Control!Next, Control!Wheel, Control!Bot, Control!Sends

\* The order of use names the Bots with a browser, each once, and no more than the pool holds.
Mapped == {b \in Bots : live[b] # Pool!None}
PoolTypes ==
    /\ PoolStands /\ Pool!Range(used) = Mapped /\ Len(used) <= MaxLive
    /\ profile \subseteq Bots /\ torn \subseteq Bots

\* A Bot is put last in the order of use: at most one browser is then too many, another Bot's, and
\* what is left when it is closed is the rest.
LEMMA OrderHas ==
  ASSUME PoolTypes, NEW b \in Bots
  PROVE  LET order == Append(Pool!Without(b), b)
             out == Pool!Range(Pool!ChooseEvictions(order))
             rest == SubSeq(order, Len(order) - MaxLive + 1, Len(order))
         IN  /\ Pool!Range(order) = Mapped \cup {b} /\ Len(order) \in Nat
             /\ live[b] # Pool!None => Len(order) <= MaxLive
             /\ Len(order) > MaxLive => /\ out # {} /\ out \subseteq Mapped
                                        /\ Pool!Range(rest) = (Mapped \cup {b}) \ out /\ Len(rest) <= MaxLive
<1> DEFINE w == Pool!Without(b)
           order == Append(w, b)
           m == Len(order) - MaxLive
           out == SubSeq(order, 1, m)
           rest == SubSeq(order, m + 1, Len(order))
<1>1. /\ w \in Seq(Bots) /\ Pool!Range(w) = Mapped \ {b} /\ Len(used) \in Nat /\ MaxLive \in Nat \ {0}
      /\ Len(w) = IF b \in Mapped THEN Len(used) - 1 ELSE Len(used)
      /\ Len(used) <= MaxLive
  BY WithoutIs, PoolAssumption DEF PoolTypes, PoolStands
<1>2. order \in Seq(Bots) /\ Distinct(order)
  BY AppendedIs DEF PoolTypes
<1> HIDE DEF w
<1>3. /\ Len(order) = Len(w) + 1 /\ order[Len(w) + 1] = b /\ \A i \in 1 .. Len(w) : order[i] = w[i]
      /\ DOMAIN w = 1 .. Len(w) /\ DOMAIN order = 1 .. Len(order) /\ Len(w) \in Nat
  BY <1>1
<1> HIDE DEF order
<1>4. Pool!Range(order) = Mapped \cup {b}
  <2>1. ASSUME NEW v \in Pool!Range(order) PROVE v \in Pool!Range(w) \cup {b}
    <3>1. PICK i \in 1 .. Len(w) + 1 : order[i] = v
      BY <1>3 DEF Pool!Range
    <3> QED
      BY <1>3, <3>1 DEF Pool!Range
  <2>2. Pool!Range(w) \subseteq Pool!Range(order) /\ b \in Pool!Range(order)
    BY <1>3 DEF Pool!Range
  <2> QED
    BY <1>1, <2>1, <2>2
<1>5. live[b] # Pool!None => Len(order) <= MaxLive
  BY <1>1, <1>3 DEF Mapped
<1>6. ASSUME Len(order) > MaxLive
      PROVE  /\ Pool!Range(out) # {} /\ Pool!Range(out) \subseteq Mapped
             /\ Pool!Range(rest) = (Mapped \cup {b}) \ Pool!Range(out) /\ Len(rest) <= MaxLive
  <2>1. m = 1 /\ Len(order) = MaxLive + 1 /\ Len(w) = MaxLive
    BY <1>1, <1>3, <1>6
  <2>2. DOMAIN out = {1} /\ out[1] = order[1]
    BY <1>2, <2>1
  <2>3. Pool!Range(out) = {order[1]}
    BY <2>2 DEF Pool!Range
  <2>4. order[1] \in Mapped /\ order[1] # b
    <3>1. 1 \in DOMAIN w /\ order[1] = w[1]
      BY <1>1, <1>3, <2>1
    <3> QED
      BY <1>1, <3>1 DEF Pool!Range
  <2>5. /\ DOMAIN rest = 1 .. MaxLive /\ Len(rest) = MaxLive
        /\ \A i \in 1 .. MaxLive : rest[i] = order[i + 1]
    BY <1>1, <1>2, <2>1
  <2> HIDE DEF rest, out
  <2>6. Pool!Range(rest) = Pool!Range(order) \ {order[1]}
    <3>1. ASSUME NEW v \in Pool!Range(rest) PROVE v \in Pool!Range(order) \ {order[1]}
      <4>1. PICK i \in 1 .. MaxLive : rest[i] = v
        BY <2>5 DEF Pool!Range
      <4>2. i + 1 \in DOMAIN order /\ 1 \in DOMAIN order /\ i + 1 # 1 /\ v = order[i + 1]
        BY <1>1, <1>3, <2>1, <2>5, <4>1
      <4> QED
        BY <1>2, <4>2 DEF Distinct, Pool!Range
    <3>2. ASSUME NEW v \in Pool!Range(order), v # order[1] PROVE v \in Pool!Range(rest)
      <4>1. PICK i \in 1 .. MaxLive + 1 : order[i] = v
        BY <1>3, <2>1 DEF Pool!Range
      <4>2. i - 1 \in 1 .. MaxLive /\ i - 1 + 1 = i
        BY <1>1, <3>2, <4>1
      <4>3. rest[i - 1] = v
        BY <2>5, <4>1, <4>2
      <4> QED
        BY <2>5, <4>2, <4>3 DEF Pool!Range
    <3> QED
      BY <3>1, <3>2
  <2> QED
    BY <1>1, <1>4, <2>3, <2>4, <2>5, <2>6
<1> QED
  BY <1>1, <1>3, <1>4, <1>5, <1>6 DEF order, w, Pool!ChooseEvictions

\* Calls that interleave at every await leave the map and the order of use in step with each other.
LEMMA PoolShape == PoolTypes /\ [Pool!Next]_poolVars => PoolTypes'
<1> SUFFICES ASSUME PoolTypes, [Pool!Next]_poolVars PROVE PoolTypes'
  OBVIOUS
<1> DEFINE HasMap == live \in [Bots -> Contexts \cup {Pool!None}]
           HasUse == /\ used \in Seq(Bots) /\ Distinct(used) /\ Pool!Range(used) = Mapped
                     /\ Len(used) <= MaxLive
           HasStarts == starting \in [Bots -> Calls \cup {Pool!None}]
           HasBrowsers == chromium \in [Contexts -> BrowserRows]
           HasCalls == call \in [Calls -> CallRows] /\ \A c \in Calls : call[c].at # "idle" => call[c].bot \in Bots
           HasFiles == profile \subseteq Bots /\ torn \subseteq Bots
<1>0. /\ PoolStands /\ HasMap /\ HasUse /\ HasStarts /\ HasBrowsers /\ HasCalls /\ HasFiles
      /\ HasMap' /\ HasUse' /\ HasStarts' /\ HasBrowsers' /\ HasCalls' /\ HasFiles' => PoolTypes'
  BY DEF PoolTypes, PoolStands
<1>1. /\ UNCHANGED live => HasMap'
      /\ UNCHANGED <<live, used>> => HasUse'
      /\ UNCHANGED starting => HasStarts'
      /\ UNCHANGED chromium => HasBrowsers'
      /\ UNCHANGED call => HasCalls'
      /\ UNCHANGED <<profile, torn>> => HasFiles'
  BY <1>0 DEF Mapped
<1> HIDE DEF HasMap, HasUse, HasStarts, HasBrowsers, HasCalls, HasFiles
<1>2. \A c \in Calls : \A row \in CallRows :
         (row.at # "idle" => row.bot \in Bots) /\ call' = [call EXCEPT ![c] = row] => HasCalls'
  BY <1>0 DEF HasCalls
<1>3. ASSUME NEW c \in Calls, NEW at \in Pool!Waiting, NEW b \in Bots, NEW x \in Contexts \cup {Pool!None},
             Pool!Set(c, at, b, x)
      PROVE  HasCalls'
  <2>1. call[c] \in CallRows
    BY <1>0 DEF HasCalls
  <2>2. [call[c] EXCEPT !.at = at, !.bot = b, !.on = x] \in CallRows
    BY <2>1 DEF CallRows
  <2>3. [call[c] EXCEPT !.at = at, !.bot = b, !.on = x].bot = b
    BY <2>1 DEF CallRows
  <2>4. call' = [call EXCEPT ![c] = [call[c] EXCEPT !.at = at, !.bot = b, !.on = x]]
    BY <1>3 DEF Pool!Set
  <2> QED
    BY <1>2, <2>2, <2>3, <2>4
<1>4. \A c \in Calls : Pool!Done(c) => HasCalls'
  BY <1>2, IdleIs DEF Pool!Done
<1>5. \A c \in Calls : call[c].at # "idle" => call[c].bot \in Bots
  BY <1>0 DEF HasCalls
<1>6. \A at \in {"idle", "joined", "dropping", "launching", "capping", "stopping", "wiping"} : at \in Pool!Waiting
  BY DEF Pool!Waiting
<1>7. \A b \in Bots : live[b] \in Contexts \cup {Pool!None}
  BY <1>0 DEF HasMap
<1>8. ASSUME NEW x \in Contexts, NEW is \in Pool!ProcessStates PROVE [chromium[x] EXCEPT !.is = is] \in BrowserRows
  BY <1>0 DEF HasBrowsers, BrowserRows
<1>9. ASSUME NEW b \in Bots, live[b] # Pool!None, chromium' = Pool!Is(live[b], "closing") PROVE HasBrowsers'
  <2>1. PICK x \in Contexts : x = live[b]
    BY <1>7, <1>9
  <2>2. chromium[x].is \in Pool!ProcessStates /\ "closing" \in Pool!ProcessStates
    BY <1>0 DEF HasBrowsers, BrowserRows, Pool!ProcessStates
  <2>3. PICK is \in Pool!ProcessStates : is = IF chromium[x].is \in {"up", "half"} THEN "closing" ELSE chromium[x].is
    BY <2>2
  <2>4. chromium' = [chromium EXCEPT ![x] = [chromium[x] EXCEPT !.is = is]]
    BY <1>9, <2>1, <2>3 DEF Pool!Is
  <2> QED
    BY <2>4, <1>8, <1>0 DEF HasBrowsers
<1>10. ASSUME NEW b \in Bots, live' = [live EXCEPT ![b] = Pool!None], used' = Pool!Without(b) PROVE HasMap' /\ HasUse'
  <2>1. HasMap' /\ Mapped' = Mapped \ {b}
    BY <1>10, <1>0 DEF HasMap, Mapped
  <2>2. /\ Pool!Without(b) \in Seq(Bots) /\ Distinct(Pool!Without(b)) /\ Pool!Range(Pool!Without(b)) = Mapped \ {b}
        /\ Len(Pool!Without(b)) <= MaxLive
    BY <1>0, WithoutIs, PoolAssumption DEF HasUse
  <2> QED
    BY <1>10, <2>1, <2>2 DEF HasUse
<1>11. ASSUME NEW c \in Calls, NEW b \in Bots, Pool!PageJoins(c, b) PROVE PoolTypes'
  BY <1>0, <1>1, <1>3, <1>6, <1>11 DEF Pool!PageJoins
<1>12. ASSUME NEW c \in Calls, NEW b \in Bots, Pool!PageHits(c, b) PROVE PoolTypes'
  <2>1. live[b] # Pool!None /\ b \in Mapped /\ UNCHANGED live /\ used' = Append(Pool!Without(b), b)
    BY <1>12 DEF Pool!PageHits, Pool!Healthy, Mapped
  <2>2. /\ used' \in Seq(Bots) /\ Distinct(used') /\ Pool!Range(used') = Mapped \cup {b}
        /\ Len(used') <= MaxLive
    BY <1>0, <2>1, AppendedIs, OrderHas
  <2>3. HasUse'
    BY <2>1, <2>2 DEF HasUse, Mapped
  <2> QED
    BY <1>0, <1>1, <2>3, <1>12 DEF Pool!PageHits
<1>13. ASSUME NEW c \in Calls, NEW b \in Bots, Pool!PageDrops(c, b) PROVE PoolTypes'
  <2>1. HasCalls'
    BY <1>13, <1>3, <1>6, <1>7 DEF Pool!PageDrops
  <2>2. HasBrowsers'
    BY <1>13, <1>9 DEF Pool!PageDrops
  <2> QED
    BY <1>0, <1>1, <2>1, <2>2, <1>13 DEF Pool!PageDrops
<1>14. ASSUME NEW c \in Calls, Pool!Dropped(c) PROVE PoolTypes'
  <2>1. PICK b \in Bots : b = call[c].bot
    BY <1>14, <1>5 DEF Pool!Dropped
  <2>2. HasMap' /\ HasUse'
    BY <1>14, <2>1, <1>10 DEF Pool!Dropped
  <2>3. HasStarts'
    BY <1>14, <2>1, <1>0 DEF Pool!Dropped, HasStarts
  <2>4. HasCalls'
    BY <1>14, <2>1, <1>3, <1>6 DEF Pool!Dropped
  <2> QED
    BY <1>0, <1>1, <2>2, <2>3, <2>4, <1>14 DEF Pool!Dropped
<1>15. ASSUME NEW c \in Calls, NEW b \in Bots, Pool!PageStarts(c, b) PROVE PoolTypes'
  <2>1. HasStarts'
    BY <1>15, <1>0 DEF Pool!PageStarts, HasStarts
  <2>2. HasCalls'
    BY <1>15, <1>3, <1>6 DEF Pool!PageStarts
  <2> QED
    BY <1>0, <1>1, <2>1, <2>2, <1>15 DEF Pool!PageStarts
<1>16. ASSUME NEW c \in Calls, Pool!Launched(c) PROVE PoolTypes'
  <2> DEFINE b == call[c].bot
             order == Append(Pool!Without(b), b)
             evicted == IF Len(order) > MaxLive THEN Pool!Range(Pool!ChooseEvictions(order)) ELSE {}
             rest == SubSeq(order, Len(order) - MaxLive + 1, Len(order))
             on == IF evicted = {} THEN Pool!None ELSE live[CHOOSE o \in evicted : TRUE]
  <2>1. b \in Bots
    BY <1>16, <1>5 DEF Pool!Launched
  <2>2. PICK x \in Contexts :
           /\ live' = [o \in Bots |-> IF o \in evicted THEN Pool!None ELSE [live EXCEPT ![b] = x][o]]
           /\ chromium' = [y \in Contexts |->
                 IF y = x THEN [bot |-> b, is |-> "up"]
                 ELSE IF \E o \in evicted : live[o] = y /\ chromium[y].is \in {"up", "half"}
                 THEN [chromium[y] EXCEPT !.is = "closing"] ELSE chromium[y]]
           /\ Pool!Set(c, "capping", b, on)
    BY <1>16 DEF Pool!Launched
  <2>3. /\ used' = IF evicted = {} THEN order ELSE rest
        /\ profile' = profile \cup {b} /\ UNCHANGED <<starting, torn>>
    BY <1>16 DEF Pool!Launched
  <2> HIDE DEF b
  <2>4. /\ order \in Seq(Bots) /\ Distinct(order) /\ Pool!Range(order) = Mapped \cup {b} /\ Len(order) \in Nat
        /\ Len(order) > MaxLive => /\ b \notin Pool!Range(Pool!ChooseEvictions(order))
                                   /\ rest \in Seq(Bots) /\ Distinct(rest)
    BY <1>0, <2>1, AppendedIs, OrderHas
  <2>5. Len(order) > MaxLive => /\ Pool!Range(Pool!ChooseEvictions(order)) # {}
                                /\ Pool!Range(Pool!ChooseEvictions(order)) \subseteq Mapped
                                /\ Pool!Range(rest) = (Mapped \cup {b}) \ Pool!Range(Pool!ChooseEvictions(order))
                                /\ Len(rest) <= MaxLive
    BY <2>1, OrderHas
  <2>6. /\ evicted \subseteq Mapped /\ b \notin evicted
        /\ used' \in Seq(Bots) /\ Distinct(used') /\ Len(used') <= MaxLive
        /\ Pool!Range(used') = (Mapped \cup {b}) \ evicted
    <3> HIDE DEF order, rest
    <3>1. CASE Len(order) > MaxLive
      BY <2>3, <2>4, <2>5, <3>1
    <3>2. CASE ~(Len(order) > MaxLive)
      BY <2>3, <2>4, <3>2, PoolAssumption
    <3> QED
      BY <3>1, <3>2
  <2> HIDE DEF evicted, order, rest
  <2>7. evicted \subseteq Bots /\ x # Pool!None
    BY <2>6, PoolAssumption DEF Mapped, Pool!None
  <2>8. /\ HasMap'
        /\ \A o \in Bots : live'[o] = IF o \in evicted THEN Pool!None ELSE IF o = b THEN x ELSE live[o]
    BY <2>1, <2>2, <1>0 DEF HasMap
  <2>9. Mapped' = (Mapped \cup {b}) \ evicted
    BY <2>1, <2>6, <2>7, <2>8 DEF Mapped
  <2>10. HasUse'
    BY <2>6, <2>9 DEF HasUse
  <2>11. HasBrowsers'
    <3>1. [bot |-> b, is |-> "up"] \in BrowserRows
      BY <2>1 DEF BrowserRows, Pool!ProcessStates
    <3>2. \A y \in Contexts : [chromium[y] EXCEPT !.is = "closing"] \in BrowserRows /\ chromium[y] \in BrowserRows
      BY <1>0, <1>8 DEF HasBrowsers, Pool!ProcessStates
    <3> QED
      BY <2>2, <3>1, <3>2 DEF HasBrowsers
  <2>12. HasCalls'
    <3>1. on \in Contexts \cup {Pool!None}
      <4>1. evicted # {} => (CHOOSE o \in evicted : TRUE) \in evicted
        OBVIOUS
      <4> QED
        BY <4>1, <2>7, <1>7
    <3> HIDE DEF on
    <3> QED
      BY <2>1, <2>2, <3>1, <1>3, <1>6
  <2> QED
    BY <1>0, <1>1, <2>1, <2>3, <2>8, <2>10, <2>11, <2>12 DEF HasFiles
<1>17. ASSUME NEW c \in Calls, Pool!LaunchEnds(c) PROVE PoolTypes'
  <2>1. HasStarts'
    BY <1>17, <1>0 DEF Pool!LaunchEnds, HasStarts
  <2>2. HasCalls'
    BY <1>17, <1>0, IdleIs DEF Pool!LaunchEnds, HasCalls
  <2> QED
    BY <1>0, <1>1, <2>1, <2>2, <1>17 DEF Pool!LaunchEnds
<1>18. ASSUME NEW b \in Bots, live[b] # Pool!None, Pool!Evict(b) PROVE HasMap' /\ HasUse' /\ HasBrowsers'
  BY <1>18, <1>9, <1>10 DEF Pool!Evict
<1>19. ASSUME NEW c \in Calls, NEW b \in Bots, NEW then \in {"stop", "reset"}, Pool!Stop(c, b, then) PROVE PoolTypes'
  <2>1. [at |-> "stopping", bot |-> b, on |-> live[b], then |-> then] \in CallRows
    BY <1>6, <1>7 DEF CallRows
  <2>2. HasCalls'
    BY <1>19, <1>2, <2>1 DEF Pool!Stop
  <2> QED
    BY <1>0, <1>1, <1>18, <2>2, <1>19 DEF Pool!Stop
<1>20. ASSUME NEW c \in Calls, NEW b \in Bots, Pool!ResetCold(c, b) PROVE PoolTypes'
  <2>1. [at |-> "wiping", bot |-> b, on |-> Pool!None, then |-> "reset"] \in CallRows
    BY <1>6 DEF CallRows
  <2>2. HasCalls'
    BY <1>20, <1>2, <2>1 DEF Pool!ResetCold
  <2> QED
    BY <1>0, <1>1, <2>2, <1>20 DEF Pool!ResetCold
<1>21. ASSUME NEW c \in Calls, Pool!Stopped(c) \/ Pool!Wipe(c) PROVE PoolTypes'
  <2>1. PICK b \in Bots : b = call[c].bot
    BY <1>21, <1>5 DEF Pool!Stopped, Pool!Wipe
  <2>2. HasCalls'
    BY <1>21, <2>1, <1>3, <1>4, <1>6 DEF Pool!Stopped, Pool!Wipe
  <2>3. HasFiles'
    BY <1>21, <2>1, <1>0, <1>1 DEF Pool!Stopped, Pool!Wipe, HasFiles
  <2> QED
    BY <1>0, <1>1, <2>2, <2>3, <1>21 DEF Pool!Stopped, Pool!Wipe
<1>22. ASSUME NEW b \in Bots, Pool!SweepIdle(b) PROVE PoolTypes'
  BY <1>0, <1>1, <1>18, <1>22 DEF Pool!SweepIdle
<1>23. ASSUME NEW x \in Contexts, Pool!CloseReturns(x) \/ Pool!Exits(x) \/ Pool!PageCloses(x) PROVE PoolTypes'
  <2>1. PICK is \in Pool!ProcessStates : chromium' = [chromium EXCEPT ![x] = [chromium[x] EXCEPT !.is = is]]
    <3>1. "closed" \in Pool!ProcessStates /\ "gone" \in Pool!ProcessStates /\ "half" \in Pool!ProcessStates
      BY DEF Pool!ProcessStates
    <3>2. chromium = [y \in Contexts |-> chromium[y]]
      BY <1>0 DEF HasBrowsers
    <3> QED
      BY <1>23, <3>1, <3>2 DEF Pool!CloseReturns, Pool!Exits, Pool!PageCloses
  <2>2. HasBrowsers'
    BY <2>1, <1>8, <1>0 DEF HasBrowsers
  <2> QED
    BY <1>0, <1>1, <2>2, <1>23 DEF Pool!CloseReturns, Pool!Exits, Pool!PageCloses
<1>24. CASE UNCHANGED poolVars
  BY <1>0, <1>1, <1>24 DEF poolVars
<1> QED
  BY <1>11, <1>12, <1>13, <1>14, <1>15, <1>16, <1>17, <1>19, <1>20, <1>21, <1>22, <1>23, <1>24 DEF Pool!Next
-----------------------------------------------------------------------------
(***************************************************************************)
(* The theorems.                                                           *)
(***************************************************************************)

\* The marks of nothing are among the values of a state that has not moved yet.
LEMMA InitStands == Init => ShellInv /\ FilesInv /\ EngineInv /\ MovesInv /\ JoinsInv /\ PoolInv /\ ControlInv
<1> SUFFICES ASSUME Init PROVE ShellInv /\ FilesInv /\ EngineInv /\ MovesInv /\ JoinsInv /\ PoolInv /\ ControlInv
  OBVIOUS
<1>1. ShellInv
  <2>1. Command!Pending \in [answered : BOOLEAN, shown : [Command!Pipes -> Nat], truncated : BOOLEAN]
        /\ ~Command!Pending.answered
    BY DEF Command!Pending
  <2> QED
    BY <2>1 DEF Init, Command!Init, ShellInv, Command!TruncationTold
<1>2. FilesInv
  <2>1. (CHOOSE a \in [request : Requests, forWrite : BOOLEAN] : TRUE) \in [request : Requests, forWrite : BOOLEAN]
    <3>1. PICK r \in Requests : TRUE
      BY FilesAssumption
    <3>2. [request |-> r, forWrite |-> TRUE] \in [request : Requests, forWrite : BOOLEAN]
      OBVIOUS
    <3> QED
      BY <3>2
  <2>2. ask \in [request : Requests, forWrite : BOOLEAN] /\ resolved = <<>> /\ touched = <<>>
    BY <2>1 DEF Init, Files!Init, AnyWorkspace
  <2>3. FilesStand
    BY DEF Init, Files!Init, AnyWorkspace, FilesStand, Files!Entries, Files!Nothing
  <2> QED
    BY <2>2, <2>3 DEF FilesInv, Files!Confined
<1>3. EngineInv
  <2>1. Engine!NewTurn \in TurnRows /\ Engine!NewTurn.at = "idle"
    BY DEF Engine!NewTurn, TurnRows
  <2>2. <<>> \in Seq(Engine!Events)
    OBVIOUS
  <2>3. /\ turn = [r \in HarnessTurns |-> Engine!NewTurn] /\ said = [r \in HarnessTurns |-> <<>>]
        /\ session = [k \in Engines \X Threads |-> Engine!None]
        /\ tool = [r \in HarnessTurns |-> "none"]
        /\ rows = [r \in HarnessTurns |-> 0] /\ toolsUsed = [r \in HarnessTurns |-> 0]
    BY DEF Init, Engine!Init
  <2>4. EngineStands
    BY <2>1, <2>2, <2>3 DEF EngineStands
  <2>5. StreamsEnd
    BY <2>1, <2>3 DEF StreamsEnd, Ends, Ended
  <2>6. UsesHaveRows
    BY <2>3 DEF UsesHaveRows
  <2> QED
    BY <2>4, <2>5, <2>6 DEF EngineInv
<1>4. MovesInv
  <2>1. /\ placement = [b \in MovedBots |-> Local]
        /\ computer = [p \in Placing!Places |-> [b \in MovedBots |-> "absent"]]
        /\ disk = [p \in Placing!Places |-> [b \in MovedBots |-> {}]]
        /\ move = [m \in Moves |-> Placing!NoMove] /\ kept = [b \in MovedBots |-> {}]
    BY DEF Init, Placing!Init
  <2>2. Local \in Placing!Places
    BY DEF Placing!Places
  <2>3. MeshStands
    BY <2>1, <2>2, NoMoveRow DEF MeshStands
  <2>4. OneMove /\ AbsentIsEmpty /\ Placing!FilesFollow
    BY <2>1, <2>2, NoMoveRow DEF OneMove, AbsentIsEmpty, Placing!FilesFollow
  <2>5. \A m \in Moves : Carries(move[m])
    BY <2>1, NoMoveRow DEF Carries, Bundled, Restoring
  <2> QED
    BY <2>3, <2>4, <2>5 DEF MovesInv
<1>5. JoinsInv
  <2>1. Placing!NoJoin \in JoinRows /\ Placing!NoJoin.at = "new"
    BY DEF Placing!NoJoin, JoinRows
  <2>2. /\ token = [t \in Tokens |-> "unminted"] /\ join = [j \in Joins |-> Placing!NoJoin]
        /\ admitted = [t \in Tokens |-> {}]
    BY DEF Init, Placing!Init
  <2> QED
    BY <2>1, <2>2 DEF JoinsInv, LetIn
<1>6. PoolInv
  <2>1. PICK unborn : unborn = [bot |-> Pool!None, is |-> "unborn"]
    OBVIOUS
  <2>2. unborn \in BrowserRows /\ unborn.is = "unborn"
    BY <2>1 DEF BrowserRows, Pool!ProcessStates
  <2>3. /\ live = [b \in Bots |-> Pool!None] /\ used = <<>> /\ starting = [b \in Bots |-> Pool!None]
        /\ chromium = [x \in Contexts |-> unborn] /\ torn = {}
        /\ call = [c \in Calls |-> Pool!IdleCall]
    BY <2>1 DEF Init, Pool!Init
  <2>4. PoolStands
    BY <2>2, <2>3, IdleIs DEF PoolStands, Distinct
  <2>5. \A x \in Contexts : \A b : ~Runs(x, b)
    BY <2>2, <2>3 DEF Runs
  <2>6. MappedIsOwn /\ UpIsMapped /\ OneOpen
    BY <2>3, <2>5 DEF MappedIsOwn, UpIsMapped, OneOpen
  <2>7. StartsAreCalls /\ OneExclusive
    BY <2>3, IdleIs DEF StartsAreCalls, OneExclusive, Launching, Exclusive
  <2>8. \A c \in Calls : Agrees(call[c])
    BY <2>3, IdleIs DEF Agrees
  <2> QED
    BY <2>3, <2>4, <2>6, <2>7, <2>8 DEF PoolInv
<1>7. ControlInv
  <2>1. /\ holder = "bot" /\ pending = Control!None
        /\ acting = [b \in BotCalls |-> "idle"]
        /\ sending = [d \in Control!Senders |-> "idle"]
        /\ meant = [d \in Control!Senders |-> Control!None] /\ into = [d \in Control!Senders |-> Control!None]
        /\ contents = [f \in Fields |-> Control!None] /\ remembered = <<>>
        /\ moved = FALSE /\ astray = [d \in Control!Senders |-> FALSE]
        /\ captured = [b \in BotCalls |-> {}]
        /\ late = 0 /\ inflight = 0 /\ misplaced = FALSE
    BY DEF Init, Control!Init
  <2>2. ControlStands
    BY <2>1 DEF ControlStands
  <2>3. SecretsAreMeant
    BY <2>1 DEF SecretsAreMeant
  <2>4. EchoesAreKnown
    BY <2>1 DEF EchoesAreKnown, Distinct
  <2>5. Control!TakeoverIsBounded
    BY <2>1 DEF Control!TakeoverIsBounded
  <2> QED
    BY <2>2, <2>3, <2>4, <2>5 DEF ControlInv
<1> QED
  BY <1>1, <1>2, <1>3, <1>4, <1>5, <1>6, <1>7

\* The shapes the machines keep together.
ShapesInv == ControlTypes /\ PoolTypes /\ Placing!TypeOK /\ Engine!TypeOK /\ Command!TypeOK

\* Nothing has happened yet: there is nothing of a wrong shape.
LEMMA InitShapes == Init => ShapesInv
<1> SUFFICES ASSUME Init PROVE ShapesInv
  OBVIOUS
<1> USE SizesAssumption, SomethingAssumption, PoolAssumption
<1>1. Command!TypeOK
  <2>1. Command!Pending \in [answered : BOOLEAN, shown : [Command!Pipes -> 0..MaxOutput], truncated : BOOLEAN]
    BY DEF Command!Pending
  <2>2. 0 \in 0..(2 * MaxOutput) /\ 0 \in 0..MaxWritten
    OBVIOUS
  <2>3. /\ text = [p \in Command!Pipes |-> 0] /\ written = [p \in Command!Pipes |-> 0]
        /\ dropped = [p \in Command!Pipes |-> FALSE] /\ result = Command!Pending
        /\ bash = "running" /\ timer = "armed"
    BY DEF Init, Command!Init
  <2>4. group \in BOOLEAN /\ daemon \in BOOLEAN
    BY DEF Init, Command!Init
  <2>5. dropped \in [Command!Pipes -> BOOLEAN]
    BY <2>3
  <2> QED
    BY <2>1, <2>2, <2>3, <2>4, <2>5 DEF Command!TypeOK
<1>2. Engine!TypeOK
  <2>1. Engine!NewTurn \in Engine!TurnType
    <3>1. (CHOOSE t \in Threads : TRUE) \in Threads /\ (CHOOSE e \in Engines : TRUE) \in Engines
      OBVIOUS
    <3> QED
      BY <3>1 DEF Engine!NewTurn, Engine!TurnType
  <2>2. <<>> \in Seq(Engine!Events)
    OBVIOUS
  <2> QED
    BY <2>1, <2>2 DEF Init, Engine!Init, Engine!TypeOK
<1>3. Placing!TypeOK
  <2>1. /\ (CHOOSE b \in MovedBots : TRUE) \in MovedBots /\ (CHOOSE t \in Tokens : TRUE) \in Tokens
        /\ (CHOOSE n \in Nodes : TRUE) \in Nodes /\ Local \in Placing!Places
    BY DEF Placing!Places
  <2>2. Placing!NoMove \in Placing!MoveType
    BY <2>1 DEF Placing!NoMove, Placing!MoveType, Placing!Steps
  <2>3. Placing!NoJoin \in [at : {"new", "checking", "done"}, token : Tokens, id : Nodes]
    BY <2>1 DEF Placing!NoJoin
  <2> QED
    BY <2>1, <2>2, <2>3 DEF Init, Placing!Init, Placing!TypeOK
<1>4. PoolTypes
  <2>1. PoolStands
    BY InitStands DEF PoolInv
  <2>2. /\ live = [b \in Bots |-> Pool!None] /\ used = <<>> /\ profile = {} /\ torn = {}
    BY DEF Init, Pool!Init
  <2>3. Pool!Range(used) = {} /\ Mapped = {} /\ Len(used) = 0
    BY <2>2 DEF Pool!Range, Mapped
  <2> QED
    BY <2>1, <2>2, <2>3 DEF PoolTypes
<1>5. ControlTypes
  <2>1. /\ holder = "bot" /\ pending = Control!None /\ input = "idle"
        /\ acting = [b \in BotCalls |-> "idle"] /\ looking = [b \in BotCalls |-> "idle"]
        /\ sending = [d \in Control!Senders |-> "idle"] /\ captured = [b \in BotCalls |-> {}]
        /\ meant = [d \in Control!Senders |-> Control!None] /\ into = [d \in Control!Senders |-> Control!None]
        /\ contents = [f \in Fields |-> Control!None] /\ remembered = <<>>
        /\ late = 0 /\ inflight = 0 /\ takes = 0
    BY DEF Init, Control!Init
  <2>2. asked \in BOOLEAN /\ described \in BOOLEAN /\ moved \in BOOLEAN /\ misplaced \in BOOLEAN /\ uninvited \in BOOLEAN
    BY DEF Init, Control!Init
  <2>3. astray \in [Control!Senders -> BOOLEAN]
    BY DEF Init, Control!Init
  <2>4. /\ acting \in [BotCalls -> {"idle", "admitted"}] /\ looking \in [BotCalls -> {"idle", "captured"}]
        /\ captured \in [BotCalls -> SUBSET Fields] /\ contents \in [Fields -> Fields \cup {Control!None}]
        /\ sending \in [Control!Senders -> {"idle", "ready", "delivering", "filled"}]
        /\ meant \in [Control!Senders -> Fields \cup {Control!None}]
        /\ into \in [Control!Senders -> Fields \cup {Control!None}]
        /\ \A d \in Control!Senders : sending[d] = "idle"
    BY <2>1
  <2>5. remembered \in Seq(Fields) /\ Len(remembered) <= Ring /\ takes \in 0..MaxTakes
    BY <2>1
  <2> QED
    BY <2>1, <2>2, <2>3, <2>4, <2>5 DEF ControlTypes, Control!TypeOK
<1> QED
  BY <1>1, <1>2, <1>3, <1>4, <1>5 DEF ShapesInv

\* With one secret on its way at a time and no document loaded under it (ComputerControl's named
\* conditions), whatever else interleaves: a take bounds what still lands, a secret is typed into the
\* field it was given for, and no snapshot the Bot reads echoes one that is remembered.
THEOREM PersonKeptAlways == OneSecret /\ PageStays => (Spec => []PersonKept)
<1> SUFFICES ASSUME OneSecret /\ PageStays PROVE Spec => []PersonKept
  OBVIOUS
<1>1. Init => ControlInv
  BY InitStands
<1>2. ControlInv /\ [Next]_vars => ControlInv'
  BY MachineSteps, ControlInvStays
<1>3. ControlInv => PersonKept
  BY SnapshotHides DEF PersonKept, ControlInv, SecretsAreMeant, Control!SecretInNamedField
<1> QED
  BY <1>1, <1>2, <1>3, PTL DEF Spec

\* When callers wait for a close that is under way, a profile directory has one open browser at
\* most, and a reset deletes no directory one still runs in.
THEOREM ProfilesKeptAlways == Patient => (Spec => []ProfilesKept)
<1> SUFFICES ASSUME Patient PROVE Spec => []ProfilesKept
  OBVIOUS
<1>1. Init => PoolInv
  BY InitStands
<1>2. PoolInv /\ [Next]_vars => PoolInv'
  BY MachineSteps, PoolInvStays
<1>3. PoolInv => ProfilesKept
  BY OneIsOpen DEF ProfilesKept
<1> QED
  BY <1>1, <1>2, <1>3, PTL DEF Spec

\* While a Bot that is moved is left alone and every node answers, its files are where its placement
\* says, all of them; and a token lets one node in, however many requests carry it.
THEOREM MeshKeptAlways == Quiet /\ Answering => (Spec => []MeshKept)
<1> SUFFICES ASSUME Quiet /\ Answering PROVE Spec => []MeshKept
  OBVIOUS
<1>1. Init => MovesInv /\ JoinsInv
  BY InitStands
<1>2. MovesInv /\ JoinsInv /\ [Next]_vars => (MovesInv /\ JoinsInv)'
  BY MachineSteps, MovesInvStays, JoinsInvStays
<1>3. MovesInv /\ JoinsInv => MeshKept
  BY OneIsAdmitted DEF MeshKept, MovesInv
<1> QED
  BY <1>1, <1>2, <1>3, PTL DEF Spec

\* A stream that closed has its ending, once and last unless its engine went on after it; the tools a
\* turn used have their rows; what is read, listed or written is in the workspace wherever its links
\* lead; and output that was cut is said to be.
THEOREM ToolsKeptAlways == Spec => []ToolsKept
<1> DEFINE IInv == ShellInv /\ FilesInv /\ EngineInv
<1>1. Init => IInv
  BY InitStands
<1>2. IInv /\ [Next]_vars => IInv'
  BY MachineSteps, ShellInvStays, FilesInvStays, EngineInvStays
<1>3. IInv => ToolsKept
  <2> SUFFICES ASSUME IInv PROVE ToolsKept
    OBVIOUS
  <2>1. Engine!EndingTold /\ Engine!OneEnding
    BY DEF EngineInv, StreamsEnd, Ends, Ended, HasEnded, EndedOnce, Engine!EndingTold, Engine!OneEnding
  <2>2. Engine!UsedIsRecorded
    BY DEF EngineInv, UsesHaveRows, Engine!UsedIsRecorded
  <2>3. Files!Confined
    BY DEF FilesInv
  <2> QED
    BY <2>1, <2>2, <2>3 DEF ToolsKept, ShellInv
<1> QED
  BY <1>1, <1>2, <1>3, PTL DEF Spec

\* The state of the machines keeps its shape, whatever the page, a person, a node or an engine does:
\* no pool holds more browsers than it may, no ring more secrets, no shell more output, and the order
\* of use names the Bots with a browser, each once.
THEOREM TypesKept == Spec => []TypeOK
<1>1. Init => ShapesInv
  BY InitShapes
<1>2. ShapesInv /\ [Next]_vars => ShapesInv'
  BY MachineSteps, ControlShape, PoolShape, PlacingShape, EngineShape, CommandShape DEF ShapesInv
<1>3. ShapesInv => TypeOK
  <2> SUFFICES ASSUME ShapesInv PROVE TypeOK
    OBVIOUS
  <2>1. Pool!TypeOK
    BY DEF ShapesInv, PoolTypes, PoolStands, Mapped, Pool!TypeOK, CallRows, BrowserRows, Pool!CallType
  <2> QED
    BY <2>1 DEF ShapesInv, ControlTypes, TypeOK
<1> QED
  BY <1>1, <1>2, <1>3, PTL DEF Spec
=============================================================================
