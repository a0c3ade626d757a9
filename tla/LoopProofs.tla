----------------------------- MODULE LoopProofs -----------------------------
(***************************************************************************)
(* Proofs about the loop of a Bot that runs elsewhere (Loop, in the        *)
(* deployment of MCDeployment), for any number of runs, answers and calls: *)
(* what it streams, what a finished run has told, and what its model is    *)
(* shown.  BotInv is the inductive invariant; what the model works with    *)
(* are sequences, and the lemmas that come first say which places of which *)
(* sequence a selection, a sequence of sequences put together or an        *)
(* appended message come from.                                             *)
(* The module ends with the types of a deployment, which rest on the       *)
(* shapes that DeploymentProofs gives its other machines.                  *)
(***************************************************************************)
EXTENDS DeploymentProofs, SequenceTheorems

CallOf == [id : Nat, ours : BOOLEAN]
MessageOf == [role : {"assistant", "tool"}, id : Nat, real : BOOLEAN]
TypesSent == {"RUN_STARTED", "TEXT_MESSAGE_START", "TEXT_MESSAGE_CONTENT", "TEXT_MESSAGE_END",
              "TOOL_CALL", "TOOL_CALL_RESULT", "RUN_FINISHED", "RUN_ERROR"}
EventOf == [type : TypesSent, id : Nat]
Emitted == [type : {"stream", "model", "tools"}, calls : Seq(CallOf)]

BotShape ==
  /\ byHand \in BOOLEAN /\ spoke \in BOOLEAN /\ textOpen \in BOOLEAN
  /\ node \in {"none", "answer", "tools", "end", "failed"}
  /\ relay \in {"none", "on", "closed"}
  /\ used \in Nat /\ since \in Nat /\ since <= used /\ ran \subseteq 1..used
  /\ calls \in Seq(CallOf) /\ pending \in Seq(CallOf) /\ queue \in Seq(Emitted)
  /\ sent \in Seq(EventOf) /\ given \in Seq(MessageOf) /\ past \in Seq(MessageOf)
  /\ Bot!Ids(pending) \subseteq 1..used

In(s, e) == \E i \in 1..Len(s) : s[i] = e
IsTold(n) == In(sent, Bot!Event("TOOL_CALL", n))
IsAnswered(n) == In(sent, Bot!Event("TOOL_CALL_RESULT", n))

\* No two of the calls cs have an id in common.
Distinct(cs) == \A i, j \in 1..Len(cs) : cs[i].id = cs[j].id => i = j
HasId(cs, n) == \E i \in 1..Len(cs) : cs[i].id = n

\* Call c is in an event of queue q of a kind, or in one before place k.
Before(q, k, kind, c) == \E l \in 1..(k - 1) : q[l].type = kind /\ In(q[l].calls, c)
Carried(q, kind, c) == \E l \in 1..Len(q) : q[l].type = kind /\ In(q[l].calls, c)

\* The events of a kind name an id once.
Once(q, kind) ==
  \A k, l \in 1..Len(q) : q[k].type = kind /\ q[l].type = kind =>
    \A i \in 1..Len(q[k].calls) : \A j \in 1..Len(q[l].calls) :
      q[k].calls[i].id = q[l].calls[j].id => k = l /\ i = j

\* The calls of the last answer have the ids given out last, in this run.
CallsAreLast ==
  /\ \A i \in 1..Len(calls) : calls[i].id = (used - Len(calls)) + i
  /\ used - Len(calls) >= since
  /\ node = "tools" => \A i \in 1..Len(calls) : calls[i].ours /\ ~IsTold(calls[i].id)

\* What was told in this run is a call of this run, and an answer told is one that was made.
ToldIsOfRun ==
  /\ \A p \in DOMAIN sent : Bot!IsCall(sent[p]) => sent[p].id \in (since + 1)..used
  /\ \A n \in (since + 1)..used : IsAnswered(n) => n \in ran
  /\ relay = "on" => \A n \in (since + 1)..used : IsTold(n) => IsAnswered(n)

\* While runAgent follows its graph, textOpen says whether a message is open.
RelayFollows ==
  relay = "on" => /\ sent # <<>>
                  /\ \A p \in DOMAIN sent : sent[p].type \notin Bot!Closing
                  /\ textOpen <=> Bot!MessageOpenAt(Len(sent) + 1)

\* A call is told, or waits to be, or runAgent has yet to see it; and it is one of the three.
CallsAreKept ==
  relay = "on" =>
    /\ \A n \in (since + 1)..used :
         \/ IsTold(n)
         \/ \E c \in CallOf : c.id = n /\ (In(pending, c) \/ Carried(queue, "model", c))
    /\ Distinct(pending) /\ Once(queue, "model")
    /\ \A c \in CallOf : In(pending, c) \/ Carried(queue, "model", c) =>
         c.id \in (since + 1)..used /\ ~IsTold(c.id)
    /\ \A c, d \in CallOf : In(pending, c) /\ Carried(queue, "model", d) => c.id # d.id

\* The results on their way are of calls that runAgent knows, or will have seen before them.
ResultsFollow ==
  relay = "on" =>
    /\ Once(queue, "tools")
    /\ \A k \in 1..Len(queue) : queue[k].type = "tools" =>
         \A c \in CallOf : In(queue[k].calls, c) =>
           /\ c.id \in ran
           /\ In(pending, c) \/ Before(queue, k, "model", c)
           /\ node = "tools" => ~HasId(calls, c.id)
    /\ node = "tools" => \A i \in 1..Len(calls) :
         In(pending, calls[i]) \/ Carried(queue, "model", calls[i])
    /\ \A n \in ran : n > since =>
         \/ IsAnswered(n)
         \/ node = "tools" /\ HasId(calls, n)
         \/ \E c \in CallOf : c.id = n /\ Carried(queue, "tools", c)

\* A run that finished is over for its graph too.
FinishedIsOver ==
  (sent # <<>> /\ sent[Len(sent)].type = "RUN_FINISHED") => node = "end"

\* What the surface keeps: each call once, each answer once and after its call, and an answer to
\* every call that was made.
Stands(s, i, made) ==
  /\ s[i].real
  /\ \A j \in 1..Len(s) : s[i] = s[j] => i = j
  /\ s[i].role = "tool" => \E j \in 1..(i - 1) : s[j] = Bot!Message("assistant", s[i].id)
  /\ s[i].role = "assistant" /\ s[i].id \in made =>
       \E j \in 1..Len(s) : s[j] = Bot!Message("tool", s[i].id)
PastIsSound ==
  \A i \in 1..Len(past) : /\ past[i].id \in 1..used
                          /\ past[i].id > since => IsTold(past[i].id)
                          /\ Stands(past, i, ran)

\* A call of conversation s, at place i, has one answer, behind it, the real one when there was one.
AnsweredIn(s, i, made) ==
  /\ \A j \in 1..Len(s) : s[j] = s[i] => j = i
  /\ \E j \in 1..Len(s) :
       /\ j > i /\ s[j].role = "tool" /\ s[j].id = s[i].id /\ (s[i].id \in made => s[j].real)
       /\ \A l \in 1..Len(s) : s[l].role = "tool" /\ s[l].id = s[i].id => l = j

\* The model's conversation: while tools run, it lacks the answers to their calls and no others.
GivenIsSound ==
  /\ \A i \in 1..Len(given) : given[i].id \in 1..used
  /\ \A i \in 1..Len(given) : given[i].role = "assistant" =>
       /\ node = "answer" => AnsweredIn(given, i, ran)
       /\ node = "tools" =>
            IF HasId(calls, given[i].id)
            THEN \A j \in 1..Len(given) : given[j].id = given[i].id => j = i
            ELSE AnsweredIn(given, i, ran)

BotInv ==
  /\ BotShape /\ CallsAreLast /\ ToldIsOfRun /\ Bot!StreamIsWellFormed /\ RelayFollows
  /\ CallsAreKept /\ ResultsFollow /\ FinishedIsOver /\ Bot!FinishedTellsAll
  /\ PastIsSound /\ GivenIsSound
(***************************************************************************)
(* Sequences put together.  Induction is by the least number of a set,     *)
(* which the well-foundedness of the finite sets gives.                    *)
(***************************************************************************)

\* A sequence is the function of its places.
LEMMA SeqIs ==
  ASSUME NEW T, NEW s \in Seq(T)
  PROVE  Len(s) \in Nat /\ DOMAIN s = 1..Len(s) /\ s \in [1..Len(s) -> T] /\ \A i \in 1..Len(s) : s[i] \in T
  OBVIOUS

\* A function of the first n numbers is a sequence.
LEMMA IsSeq ==
  ASSUME NEW T, NEW n \in Nat, NEW s \in [1..n -> T]
  PROVE  s \in Seq(T) /\ Len(s) = n /\ DOMAIN s = 1..n
  OBVIOUS

\* Sequences of one and of two.
LEMMA Pairs ==
  ASSUME NEW a, NEW c
  PROVE  /\ Len(<<a>>) = 1 /\ Len(<<a, c>>) = 2
         /\ \A T : a \in T => <<a>> \in Seq(T) /\ (c \in T => <<a, c>> \in Seq(T))
  OBVIOUS

\* A set of numbers that is not empty has a least one.
LEMMA Least ==
  ASSUME NEW S \in SUBSET Nat, S # {}
  PROVE  \E n \in S : \A m \in S : n <= m
<1> DEFINE T == {0..m : m \in S}
           R == StrictSubsetOrdering(Nat)
<1>1. T \in SUBSET FiniteSubsetsOf(Nat)
  <2>1. ASSUME NEW m \in Nat PROVE 0..m \in FiniteSubsetsOf(Nat)
    <3>1. IsFiniteSet(0..m)
      BY FS_Interval
    <3>2. 0..m \in SUBSET Nat
      OBVIOUS
    <3> QED
      BY <3>1, <3>2 DEF FiniteSubsetsOf
  <2> HIDE DEF R
  <2> QED
    BY <2>1
<1>2. PICK x \in T : \A y \in T : ~(<<y, x>> \in R)
  <2> HIDE DEF R, T
  <2>1. T # {}
    BY DEF T
  <2>2. IsWellFoundedOn(R, FiniteSubsetsOf(Nat))
    BY FS_StrictSubsetOrderingWellFounded DEF R
  <2> QED
    BY <2>1, <2>2, <1>1, WFMin, SMTT(30)
<1>3. PICK n \in S : x = 0..n
  BY <1>2
<1>4. ASSUME NEW m \in S, m < n PROVE FALSE
  <2>1. 0..m \subseteq 0..n /\ n \in 0..n /\ n \notin 0..m
    BY <1>4
  <2>2. 0..m \in SUBSET Nat /\ 0..n \in SUBSET Nat
    OBVIOUS
  <2>3. <<0..m, 0..n>> \in R
    BY <2>1, <2>2 DEF StrictSubsetOrdering
  <2> HIDE DEF R
  <2> QED
    BY <2>3, <1>2, <1>3
<1> QED
  BY <1>4

\* What holds of 1 and, with a number, of the next, holds of all the numbers up to a bound.
LEMMA UpTo ==
  ASSUME NEW b \in Nat, NEW S \in SUBSET (1..b), b >= 1 => 1 \in S,
         \A n \in S : n + 1 <= b => n + 1 \in S
  PROVE  S = 1..b
<1> SUFFICES ASSUME S # 1..b PROVE FALSE
  OBVIOUS
<1> DEFINE T == (1..b) \ S
<1>1. PICK n \in T : \A m \in T : n <= m
  <2>1. T \in SUBSET Nat
    OBVIOUS
  <2>2. PICK m \in 1..b : m \notin S
    OBVIOUS
  <2>3. T # {}
    BY <2>2
  <2> HIDE DEF T
  <2> QED
    BY <2>1, <2>3, Least
<1>2. n # 1 /\ n - 1 \in 1..b /\ n - 1 \in S
  BY <1>1
<1> QED
  BY <1>1, <1>2

\* The recursive function of FlattenSeq, for a prefix.
Flat(seqs, n) == CHOOSE g : g = [i \in 1..n |-> IF i = 1 THEN seqs[i] ELSE g[i - 1] \o seqs[i]]

\* FlattenSeq's function is there.
LEMMA FlatIs ==
  ASSUME NEW seqs, NEW b \in Nat
  PROVE  Flat(seqs, b) = [i \in 1..b |-> IF i = 1 THEN seqs[i] ELSE Flat(seqs, b)[i - 1] \o seqs[i]]
<1> DEFINE Rec(g, n) == g = [i \in 1..n |-> IF i = 1 THEN seqs[i] ELSE g[i - 1] \o seqs[i]]
           S == {n \in 1..b : \E g : Rec(g, n)}
<1>1. ASSUME b >= 1 PROVE 1 \in S
  <2> DEFINE g == [i \in 1..1 |-> seqs[i]]
  <2>1. Rec(g, 1)
    OBVIOUS
  <2> HIDE DEF Rec, g
  <2> QED
    BY <2>1, <1>1
<1>2. ASSUME NEW n \in S, n + 1 <= b PROVE n + 1 \in S
  <2>1. PICK h : Rec(h, n)
    OBVIOUS
  <2> DEFINE g == [i \in 1..(n + 1) |-> IF i = n + 1 THEN h[n] \o seqs[i] ELSE h[i]]
  <2>2. n \in 1..b
    OBVIOUS
  <2>3. ASSUME NEW i \in 1..(n + 1) PROVE g[i] = IF i = 1 THEN seqs[i] ELSE g[i - 1] \o seqs[i]
    <3>1. CASE i = n + 1
      <4>1. i # 1 /\ i - 1 = n /\ n \in 1..(n + 1) /\ n # n + 1
        BY <3>1, <2>2
      <4>2. g[i] = h[n] \o seqs[i] /\ g[n] = h[n]
        BY <3>1, <4>1
      <4> HIDE DEF g
      <4> QED
        BY <4>1, <4>2
    <3>2. CASE i # n + 1
      <4>1. i \in 1..n /\ (i # 1 => i - 1 \in 1..n /\ i - 1 # n + 1 /\ i - 1 \in 1..(n + 1))
        BY <3>2, <2>2
      <4>2. h[i] = IF i = 1 THEN seqs[i] ELSE h[i - 1] \o seqs[i]
        BY <4>1, <2>1
      <4> QED
        BY <4>1, <4>2, <3>2
    <3> QED
      BY <3>1, <3>2
  <2>4. Rec(g, n + 1)
    BY <2>3
  <2>5. n + 1 \in 1..b
    BY <1>2, <2>2
  <2> HIDE DEF Rec, g
  <2> QED
    BY <2>4, <2>5
<1>3. \E g : Rec(g, b)
  <2>1. CASE b = 0
    <3> DEFINE g == [i \in 1..0 |-> seqs[i]]
    <3>1. Rec(g, 0)
      OBVIOUS
    <3> HIDE DEF Rec, g
    <3> QED
      BY <3>1, <2>1
  <2>2. CASE b # 0
    <3>1. S = 1..b
      <4> HIDE DEF Rec
      <4>1. S \in SUBSET (1..b)
        OBVIOUS
      <4> HIDE DEF S
      <4> QED
        BY <4>1, <1>1, <1>2, UpTo
    <3> HIDE DEF Rec
    <3> QED
      BY <3>1, <2>2
  <2> QED
    BY <2>1, <2>2
<1>4. Flat(seqs, b) = CHOOSE g : Rec(g, b)
  BY DEF Flat
<1>5. Rec(Flat(seqs, b), b)
  <2> HIDE DEF Rec
  <2> QED
    BY <1>3, <1>4
<1> QED
  BY <1>5

\* FlattenSeq is the last value of that function.
LEMMA FlattenIsFlat ==
  ASSUME NEW seqs, Len(seqs) # 0
  PROVE  Bot!FlattenSeq(seqs) = Flat(seqs, Len(seqs))[Len(seqs)]
  BY DEF Bot!FlattenSeq, Flat

\* r is the first n of the sequences seqs put together: its place p is the place nth[p] of the
\* sequence of[p], and the places are in order.
MadeOf(r, seqs, n, of, nth) ==
  /\ of \in [1..Len(r) -> 1..n] /\ nth \in [1..Len(r) -> Nat]
  /\ \A p \in 1..Len(r) : nth[p] \in 1..Len(seqs[of[p]]) /\ r[p] = seqs[of[p]][nth[p]]
  /\ \A i \in 1..n : \A j \in 1..Len(seqs[i]) : \E p \in 1..Len(r) : of[p] = i /\ nth[p] = j
  /\ \A p, q \in 1..Len(r) : p < q <=> of[p] < of[q] \/ (of[p] = of[q] /\ nth[p] < nth[q])

\* One sequence more.
LEMMA MadeOfOneMore ==
  ASSUME NEW T, NEW seqs, NEW n \in Nat, NEW r \in Seq(T), NEW s \in Seq(T), s = seqs[n + 1],
         NEW of, NEW nth, MadeOf(r, seqs, n, of, nth)
  PROVE  r \o s \in Seq(T) /\ \E oof, nnth : MadeOf(r \o s, seqs, n + 1, oof, nnth)
<1> DEFINE k == Len(r)
           m == k + Len(s)
           rs == r \o s
           oof == [p \in 1..m |-> IF p <= k THEN of[p] ELSE n + 1]
           nnth == [p \in 1..m |-> IF p <= k THEN nth[p] ELSE p - k]
<1>1. k \in Nat /\ Len(s) \in Nat /\ k = Len(r)
  OBVIOUS
<1> HIDE DEF k
<1>2. /\ rs \in Seq(T) /\ Len(rs) = m
      /\ \A p \in 1..m : rs[p] = IF p <= k THEN r[p] ELSE s[p - k]
  BY <1>1, ConcatProperties
<1>3. \A p \in 1..m : \/ /\ p \in 1..k /\ rs[p] = r[p] /\ oof[p] = of[p] /\ nnth[p] = nth[p]
                           /\ of[p] \in 1..n /\ nth[p] \in Nat
                        \/ /\ p \in (k + 1)..m /\ p - k \in 1..Len(s)
                           /\ rs[p] = s[p - k] /\ oof[p] = n + 1 /\ nnth[p] = p - k
  <2> TAKE p \in 1..m
  <2>1. CASE p <= k
    <3>1. p \in 1..k /\ p \in 1..Len(r) /\ rs[p] = r[p] /\ oof[p] = of[p] /\ nnth[p] = nth[p]
      BY <2>1, <1>1, <1>2
    <3> QED
      BY <3>1 DEF MadeOf
  <2>2. CASE ~(p <= k)
    BY <2>2, <1>1, <1>2
  <2> QED
    BY <2>1, <2>2
<1>4. \A p \in 1..k : p \in 1..m /\ oof[p] = of[p] /\ nnth[p] = nth[p]
  BY <1>1
<1>5. \A j \in 1..Len(s) : k + j \in 1..m /\ oof[k + j] = n + 1 /\ nnth[k + j] = j
  BY <1>1
<1>6. oof \in [1..m -> 1..(n + 1)] /\ nnth \in [1..m -> Nat]
  BY <1>1 DEF MadeOf
<1>m. m \in Nat /\ m = k + Len(s)
  BY <1>1
<1> HIDE DEF m, rs, oof, nnth
<1>7. \A p \in 1..m : nnth[p] \in 1..Len(seqs[oof[p]]) /\ rs[p] = seqs[oof[p]][nnth[p]]
  BY <1>3, <1>1 DEF MadeOf
<1>8. ASSUME NEW i \in 1..(n + 1), NEW j \in 1..Len(seqs[i])
      PROVE  \E p \in 1..m : oof[p] = i /\ nnth[p] = j
  <2>1. CASE i = n + 1
    BY <2>1, <1>5
  <2>2. CASE i # n + 1
    <3>1. PICK p \in 1..Len(r) : of[p] = i /\ nth[p] = j
      BY <2>2 DEF MadeOf
    <3> QED
      BY <3>1, <1>4, <1>1
  <2> QED
    BY <2>1, <2>2
<1>9. ASSUME NEW p \in 1..m, NEW q \in 1..m
      PROVE  p < q <=> oof[p] < oof[q] \/ (oof[p] = oof[q] /\ nnth[p] < nnth[q])
  <2>1. CASE p \in 1..k /\ q \in 1..k
    BY <2>1, <1>4, <1>1 DEF MadeOf
  <2>0. \A x \in 1..m : (x \in 1..k => oof[x] \in 1..n) /\ (x \in (k + 1)..m => oof[x] = n + 1)
    <3> TAKE x \in 1..m
    <3>1. CASE x \in 1..k
      BY <3>1, <1>4, <1>1 DEF MadeOf
    <3>2. CASE x \in (k + 1)..m
      BY <3>2, <1>3, <1>1
    <3> QED
      BY <3>1, <3>2, <1>1
  <2>2. CASE p \in 1..k /\ q \in (k + 1)..m
    <3>1. oof[p] \in 1..n /\ oof[q] = n + 1
      BY <2>0, <2>2
    <3>2. p < q
      BY ONLY <2>2, <1>1, <1>m
    <3> QED
      BY <3>1, <3>2
  <2>3. CASE p \in (k + 1)..m /\ q \in 1..k
    <3>1. oof[p] = n + 1 /\ oof[q] \in 1..n
      BY <2>0, <2>3
    <3>2. q < p /\ p \in Nat /\ q \in Nat
      BY ONLY <2>3, <1>1, <1>m
    <3> QED
      BY <3>1, <3>2
  <2>4. CASE p \in (k + 1)..m /\ q \in (k + 1)..m
    <3>1. oof[p] = n + 1 /\ oof[q] = n + 1 /\ nnth[p] = p - k /\ nnth[q] = q - k
      BY <2>4, <1>3, <1>1, <1>m
    <3> QED
      BY <3>1, <1>1, <1>m
  <2> QED
    BY <2>1, <2>2, <2>3, <2>4, <1>1, <1>m
<1>10. MadeOf(rs, seqs, n + 1, oof, nnth)
  <2>1. Len(rs) = m
    BY <1>2
  <2>2. oof \in [1..Len(rs) -> 1..(n + 1)] /\ nnth \in [1..Len(rs) -> Nat]
    BY <2>1, <1>6
  <2>3. \A p \in 1..Len(rs) : nnth[p] \in 1..Len(seqs[oof[p]]) /\ rs[p] = seqs[oof[p]][nnth[p]]
    BY <2>1, <1>7
  <2>4. \A i \in 1..(n + 1) : \A j \in 1..Len(seqs[i]) :
          \E p \in 1..Len(rs) : oof[p] = i /\ nnth[p] = j
    BY <2>1, <1>8
  <2>5. \A p, q \in 1..Len(rs) :
          p < q <=> oof[p] < oof[q] \/ (oof[p] = oof[q] /\ nnth[p] < nnth[q])
    BY <2>1, <1>9
  <2> QED
    BY <2>2, <2>3, <2>4, <2>5, Zenon DEF MadeOf
<1>11. \E oo, nn : MadeOf(rs, seqs, n + 1, oo, nn)
  BY <1>10
<1> QED
  BY <1>11, <1>2 DEF rs

\* Where the elements of a flattened sequence come from.
LEMMA FlattenPlaces ==
  ASSUME NEW T, NEW seqs \in Seq(Seq(T))
  PROVE  /\ Bot!FlattenSeq(seqs) \in Seq(T)
         /\ \E of, nth : MadeOf(Bot!FlattenSeq(seqs), seqs, Len(seqs), of, nth)
<1> DEFINE Placed(r, n) == r \in Seq(T) /\ \E of, nth : MadeOf(r, seqs, n, of, nth)
           b == Len(seqs)
           flat == Flat(seqs, b)
           S == {n \in 1..b : Placed(flat[n], n)}
<1>0. b \in Nat /\ DOMAIN seqs = 1..b /\ \A i \in 1..b : seqs[i] \in Seq(T)
  OBVIOUS
<1>1. \A i \in 1..b : flat[i] = IF i = 1 THEN seqs[i] ELSE flat[i - 1] \o seqs[i]
  <2>1. flat = [i \in 1..b |-> IF i = 1 THEN seqs[i] ELSE flat[i - 1] \o seqs[i]]
    BY <1>0, FlatIs
  <2> HIDE DEF flat, b
  <2> QED
    BY <2>1
<1> HIDE DEF flat
<1>2. ASSUME b >= 1 PROVE 1 \in S
  <2> DEFINE r == seqs[1]
             of == [p \in 1..Len(r) |-> 1]
             nth == [p \in 1..Len(r) |-> p]
  <2>1. 1 \in 1..b /\ flat[1] = r /\ r \in Seq(T) /\ Len(r) \in Nat
    BY <1>2, <1>1, <1>0
  <2>2. MadeOf(r, seqs, 1, of, nth)
    BY <2>1 DEF MadeOf
  <2>3. Placed(r, 1)
    BY <2>1, <2>2
  <2> HIDE DEF Placed, r
  <2> QED
    BY <2>1, <2>3
<1>3. ASSUME NEW n \in S, n + 1 <= b PROVE n + 1 \in S
  <2>1. n \in 1..b /\ Placed(flat[n], n)
    OBVIOUS
  <2>2. n \in Nat /\ n + 1 \in 1..b /\ n + 1 # 1 /\ (n + 1) - 1 = n
    BY <2>1, <1>3, <1>0
  <2>3. flat[n + 1] = flat[n] \o seqs[n + 1] /\ seqs[n + 1] \in Seq(T)
    BY <2>2, <1>1, <1>0
  <2>4. PICK of, nth : MadeOf(flat[n], seqs, n, of, nth)
    BY <2>1
  <2>5. Placed(flat[n] \o seqs[n + 1], n + 1)
    BY <2>1, <2>2, <2>3, <2>4, MadeOfOneMore
  <2> HIDE DEF Placed
  <2> QED
    BY <2>5, <2>3, <2>2
<1>4. CASE b = 0
  <2> DEFINE f == [p \in 1..0 |-> 0]
  <2>1. Bot!FlattenSeq(seqs) = seqs /\ seqs = <<>>
    BY <1>4, <1>0, EmptySeq DEF Bot!FlattenSeq
  <2>2. MadeOf(<<>>, seqs, 0, f, f)
    BY <2>1 DEF MadeOf
  <2>3. seqs \in Seq(T)
    BY <2>1
  <2> HIDE DEF f
  <2> QED
    BY <2>1, <2>2, <2>3, <1>4
<1>5. CASE b # 0
  <2>1. S = 1..b
    <3> HIDE DEF Placed
    <3>1. S \in SUBSET (1..b)
      OBVIOUS
    <3> HIDE DEF S
    <3> QED
      BY <3>1, <1>0, <1>2, <1>3, UpTo
  <2>2. Placed(flat[b], b)
    <3> HIDE DEF Placed
    <3>1. b \in 1..b
      BY <1>5, <1>0
    <3> QED
      BY <3>1, <2>1
  <2>3. Bot!FlattenSeq(seqs) = flat[b]
    BY <1>5, FlattenIsFlat DEF flat
  <2> QED
    BY <2>2, <2>3
<1> QED
  BY <1>4, <1>5, <1>0

\* r is the places K of s, in order.
PartOf(r, s, K, of) ==
  /\ of \in [1..Len(r) -> K]
  /\ \A p \in 1..Len(r) : r[p] = s[of[p]]
  /\ \A i \in K : \E p \in 1..Len(r) : of[p] = i
  /\ \A p, q \in 1..Len(r) : p < q <=> of[p] < of[q]

\* What a selection takes from a sequence.
LEMMA SelectionPlaces ==
  ASSUME NEW T, NEW s \in Seq(T), NEW K \in SUBSET (1..Len(s)), NEW r,
         r = Bot!FlattenSeq([i \in DOMAIN s |-> IF i \in K THEN <<s[i]>> ELSE <<>>])
  PROVE  r \in Seq(T) /\ \E of : PartOf(r, s, K, of)
<1> DEFINE seqs == [i \in DOMAIN s |-> IF i \in K THEN <<s[i]>> ELSE <<>>]
<1>1. DOMAIN s = 1..Len(s) /\ Len(s) \in Nat /\ \A i \in 1..Len(s) : s[i] \in T
  OBVIOUS
<1>2. \A i \in 1..Len(s) : (IF i \in K THEN <<s[i]>> ELSE <<>>) \in Seq(T)
  BY <1>1
<1>3. seqs \in Seq(Seq(T)) /\ Len(seqs) = Len(s)
  <2>1. seqs \in [1..Len(s) -> Seq(T)]
    BY <1>1, <1>2
  <2> QED
    BY <2>1, <1>1
<1>4. \A i \in 1..Len(s) : Len(seqs[i]) = IF i \in K THEN 1 ELSE 0
  BY <1>1
<1>5. \A i \in K : seqs[i][1] = s[i] /\ i \in 1..Len(s)
  BY <1>1
<1> HIDE DEF seqs
<1>6. r \in Seq(T) /\ \E of, nth : MadeOf(r, seqs, Len(s), of, nth)
  BY <1>3, FlattenPlaces DEF seqs
<1>7. PICK of, nth : MadeOf(r, seqs, Len(s), of, nth)
  BY <1>6
<1>8. \A p \in 1..Len(r) : of[p] \in K /\ nth[p] = 1
  <2> TAKE p \in 1..Len(r)
  <2>1. of[p] \in 1..Len(s) /\ nth[p] \in 1..Len(seqs[of[p]])
    BY <1>7 DEF MadeOf
  <2> QED
    BY <2>1, <1>4
<1>9. \A i \in K : \E p \in 1..Len(r) : of[p] = i
  <2> TAKE i \in K
  <2>1. 1 \in 1..Len(seqs[i])
    BY <1>4, <1>5
  <2> QED
    BY <2>1, <1>5, <1>7 DEF MadeOf
<1>10. PartOf(r, s, K, of)
  <2>1. of \in [1..Len(r) -> K]
    BY <1>7, <1>8 DEF MadeOf
  <2>2. \A p \in 1..Len(r) : r[p] = s[of[p]]
    <3> TAKE p \in 1..Len(r)
    <3>1. r[p] = seqs[of[p]][nth[p]]
      BY <1>7 DEF MadeOf
    <3>2. of[p] \in K /\ nth[p] = 1
      BY <1>8
    <3>3. seqs[of[p]][1] = s[of[p]]
      BY <3>2, <1>5
    <3> QED
      BY <3>1, <3>2, <3>3
  <2>3. \A p, q \in 1..Len(r) : p < q <=> of[p] < of[q]
    BY <1>7, <1>8 DEF MadeOf
  <2> QED
    BY <2>1, <2>2, <2>3, <1>9 DEF PartOf
<1> QED
  BY <1>6, <1>10

\* Two sequences, one behind the other.
LEMMA Joined ==
  ASSUME NEW T, NEW s \in Seq(T), NEW t \in Seq(T), NEW st, st = s \o t
  PROVE  /\ st \in Seq(T) /\ Len(s) \in Nat /\ Len(t) \in Nat /\ Len(st) = Len(s) + Len(t)
         /\ DOMAIN s = 1..Len(s) /\ DOMAIN t = 1..Len(t) /\ DOMAIN st = 1..Len(st)
         /\ \A i \in 1..Len(s) : st[i] = s[i] /\ s[i] \in T /\ i \in 1..Len(st)
         /\ \A j \in 1..Len(t) : /\ st[Len(s) + j] = t[j] /\ t[j] \in T
                                 /\ Len(s) + j \in 1..Len(st)
         /\ \A i \in 1..Len(st) : i \in 1..Len(s) \/ \E j \in 1..Len(t) : i = Len(s) + j
<1>1. st \in Seq(T) /\ Len(st) = Len(s) + Len(t)
      /\ \A i \in 1..(Len(s) + Len(t)) : st[i] = IF i <= Len(s) THEN s[i] ELSE t[i - Len(s)]
  BY ConcatProperties
<1>2. Len(s) \in Nat /\ Len(t) \in Nat
  OBVIOUS
<1>3. \A i \in 1..Len(st) : i \in 1..Len(s) \/ \E j \in 1..Len(t) : i = Len(s) + j
  <2> SUFFICES ASSUME NEW i \in 1..Len(st), i \notin 1..Len(s)
               PROVE  \E j \in 1..Len(t) : i = Len(s) + j
    OBVIOUS
  <2>1. i - Len(s) \in 1..Len(t) /\ i = Len(s) + (i - Len(s))
    BY <1>1, <1>2
  <2> QED
    BY <2>1
<1>4. \A j \in 1..Len(t) : st[Len(s) + j] = t[j] /\ Len(s) + j \in 1..Len(st)
  <2> TAKE j \in 1..Len(t)
  <2>1. Len(s) + j \in 1..(Len(s) + Len(t)) /\ ~(Len(s) + j <= Len(s)) /\ (Len(s) + j) - Len(s) = j
    BY <1>2
  <2> QED
    BY <2>1, <1>1
<1>5. \A i \in 1..Len(s) : st[i] = s[i] /\ i \in 1..Len(st)
  BY <1>1, <1>2
<1>6. /\ \A i \in 1..Len(s) : s[i] \in T
      /\ \A j \in 1..Len(t) : t[j] \in T
      /\ DOMAIN s = 1..Len(s) /\ DOMAIN t = 1..Len(t) /\ DOMAIN st = 1..Len(st)
  BY <1>1
<1> QED
  BY <1>1, <1>2, <1>3, <1>4, <1>5, <1>6

-----------------------------------------------------------------------------
(***************************************************************************)
(* What a stream stays while runAgent adds to it.                          *)
(***************************************************************************)

\* At place i of stream s a message was begun that has not ended.
OpenIn(s, i) == \E j \in 1..(i - 1) : /\ s[j].type = "TEXT_MESSAGE_START"
                                      /\ \A k \in j..(i - 1) : s[k].type # "TEXT_MESSAGE_END"

\* A stream that can go on.
Going(s) ==
  /\ s \in Seq(EventOf)
  /\ \A i \in 1..Len(s) :
       /\ s[i].type \notin Bot!Closing
       /\ s[i].type \in Bot!Outside => ~OpenIn(s, i)
       /\ s[i].type \in Bot!InMessage => OpenIn(s, i)
       /\ Bot!IsCall(s[i]) => \A j \in 1..Len(s) : s[j] = s[i] => j = i
       /\ s[i].type = "TOOL_CALL_RESULT" => \E j \in 1..(i - 1) : s[j] = Bot!Event("TOOL_CALL", s[i].id)
EndsOpen(s) == OpenIn(s, Len(s) + 1)

\* What follows does not change what is open before it.
LEMMA OpenStays ==
  ASSUME NEW s \in Seq(EventOf), NEW t \in Seq(EventOf), NEW i \in 1..(Len(s) + 1)
  PROVE  OpenIn(s \o t, i) <=> OpenIn(s, i)
<1>1. \A j \in 1..Len(s) : (s \o t)[j] = s[j]
  BY Joined
<1>2. \A j \in 1..(i - 1) : \A k \in j..(i - 1) : k \in 1..Len(s)
  OBVIOUS
<1>3. \A j \in 1..(i - 1) : j \in 1..Len(s)
  OBVIOUS
<1> QED
  BY <1>1, <1>2, <1>3 DEF OpenIn

\* An event after a stream.
LEMMA OneMore ==
  ASSUME NEW s, Going(s), NEW e \in EventOf, NEW st, st = Append(s, e),
         e.type \notin Bot!Closing, ~Bot!IsCall(e),
         e.type \in Bot!Outside => ~EndsOpen(s), e.type \in Bot!InMessage => EndsOpen(s)
  PROVE  /\ Going(st)
         /\ EndsOpen(st) <=> \/ e.type = "TEXT_MESSAGE_START"
                             \/ EndsOpen(s) /\ e.type # "TEXT_MESSAGE_END"
         /\ \A c \in EventOf : Bot!IsCall(c) => (In(st, c) <=> In(s, c))
<1>0. s \in Seq(EventOf) /\ <<e>> \in Seq(EventOf) /\ st = s \o <<e>> /\ Len(<<e>>) = 1
  BY DEF Going
<1> DEFINE n == Len(s)
<1>1. /\ st \in Seq(EventOf) /\ n \in Nat /\ Len(st) = n + 1
      /\ \A i \in 1..n : st[i] = s[i] /\ i \in 1..(n + 1)
      /\ st[n + 1] = e
      /\ \A i \in 1..(n + 1) : i \in 1..n \/ i = n + 1
  BY <1>0
<1>2. \A i \in 1..(n + 1) : OpenIn(st, i) <=> OpenIn(s, i)
  BY <1>0, OpenStays, ZenonT(60)
<1>3. EndsOpen(st) <=> \/ e.type = "TEXT_MESSAGE_START"
                       \/ EndsOpen(s) /\ e.type # "TEXT_MESSAGE_END"
  <2>1. EndsOpen(st) <=> \E j \in 1..(n + 1) : /\ st[j].type = "TEXT_MESSAGE_START"
                                               /\ \A k \in j..(n + 1) : st[k].type # "TEXT_MESSAGE_END"
    BY <1>1 DEF EndsOpen, OpenIn
  <2>2. EndsOpen(s) <=> \E j \in 1..n : /\ s[j].type = "TEXT_MESSAGE_START"
                                        /\ \A k \in j..n : s[k].type # "TEXT_MESSAGE_END"
    BY <1>1 DEF EndsOpen, OpenIn
  <2>3. \A j \in 1..n : \A k : k \in j..(n + 1) <=> k \in j..n \/ k = n + 1
    BY <1>1
  <2>4. \A j \in 1..n : \A k \in j..n : k \in 1..n
    BY <1>1
  <2>5. \A k \in (n + 1)..(n + 1) : k = n + 1
    BY <1>1
  <2>6. n + 1 \in 1..(n + 1) /\ n + 1 \in (n + 1)..(n + 1)
    BY <1>1
  <2> HIDE DEF n
  <2>7. ASSUME EndsOpen(st)
        PROVE  e.type = "TEXT_MESSAGE_START" \/ (EndsOpen(s) /\ e.type # "TEXT_MESSAGE_END")
    <3>1. PICK j \in 1..(n + 1) : /\ st[j].type = "TEXT_MESSAGE_START"
                                  /\ \A k \in j..(n + 1) : st[k].type # "TEXT_MESSAGE_END"
      BY <2>7, <2>1
    <3>2. CASE j = n + 1
      BY <3>1, <3>2, <1>1
    <3>3. CASE j \in 1..n
      BY <3>1, <3>3, <1>1, <2>2, <2>3, <2>4
    <3> QED
      BY <3>2, <3>3, <1>1
  <2>8. ASSUME e.type = "TEXT_MESSAGE_START" PROVE EndsOpen(st)
    BY <2>8, <2>1, <1>1, <2>5, <2>6
  <2>9. ASSUME EndsOpen(s), e.type # "TEXT_MESSAGE_END" PROVE EndsOpen(st)
    <3>1. PICK j \in 1..n : /\ s[j].type = "TEXT_MESSAGE_START"
                            /\ \A k \in j..n : s[k].type # "TEXT_MESSAGE_END"
      BY <2>9, <2>2
    <3>2. \A k \in j..(n + 1) : st[k].type # "TEXT_MESSAGE_END"
      BY <3>1, <2>9, <2>3, <2>4, <1>1
    <3> QED
      BY <3>1, <3>2, <2>1, <1>1
  <2> QED
    BY <2>7, <2>8, <2>9
<1>4. Going(st)
  <2>1. ASSUME NEW i \in 1..(n + 1)
        PROVE  /\ st[i].type \notin Bot!Closing
               /\ st[i].type \in Bot!Outside => ~OpenIn(st, i)
               /\ st[i].type \in Bot!InMessage => OpenIn(st, i)
               /\ Bot!IsCall(st[i]) => \A j \in 1..(n + 1) : st[j] = st[i] => j = i
               /\ st[i].type = "TOOL_CALL_RESULT" =>
                    \E j \in 1..(i - 1) : st[j] = Bot!Event("TOOL_CALL", st[i].id)
    <3>1. CASE i \in 1..n
      <4>1. \A j \in 1..(i - 1) : j \in 1..n
        BY <3>1, <1>1
      <4> QED
        BY <3>1, <4>1, <1>1, <1>2 DEF Going
    <3>2. CASE i = n + 1
      <4>1. EndsOpen(s) <=> OpenIn(s, i)
        BY <3>2 DEF EndsOpen
      <4>2. e.type # "TOOL_CALL_RESULT"
        BY DEF Bot!IsCall
      <4> QED
        BY <3>2, <4>1, <4>2, <1>1, <1>2
    <3> QED
      BY <3>1, <3>2, <1>1
  <2> QED
    BY <2>1, <1>1 DEF Going
<1>5. \A c \in EventOf : Bot!IsCall(c) => (In(st, c) <=> In(s, c))
  BY <1>1 DEF In
<1> QED
  BY <1>3, <1>4, <1>5

\* Calls told after a stream that has no message open.
LEMMA CallsMore ==
  ASSUME NEW s, Going(s), ~EndsOpen(s), NEW t \in Seq(EventOf), NEW st, st = s \o t,
         \A i \in 1..Len(t) :
           /\ Bot!IsCall(t[i]) /\ ~In(s, t[i])
           /\ \A j \in 1..Len(t) : t[j] = t[i] => j = i
           /\ t[i].type = "TOOL_CALL_RESULT" => \E j \in 1..(i - 1) : t[j] = Bot!Event("TOOL_CALL", t[i].id)
  PROVE  /\ Going(st) /\ ~EndsOpen(st)
         /\ \A c \in EventOf : In(st, c) <=> In(s, c) \/ In(t, c)
<1> DEFINE n == Len(s)
           m == Len(t)
<1>0. s \in Seq(EventOf)
  BY DEF Going
<1>1. /\ st \in Seq(EventOf) /\ n \in Nat /\ m \in Nat /\ Len(st) = n + m
      /\ \A i \in 1..n : st[i] = s[i]
      /\ \A j \in 1..m : st[n + j] = t[j] /\ n + j \in 1..(n + m)
      /\ \A i \in 1..(n + m) : i \in 1..n \/ \E j \in 1..m : i = n + j
  <2> HIDE DEF n, m
  <2>1. Len(st) = n + m /\ st \in Seq(EventOf) /\ n \in Nat /\ m \in Nat
    BY <1>0, Joined DEF n, m
  <2>2. /\ \A i \in 1..n : st[i] = s[i]
        /\ \A j \in 1..m : st[n + j] = t[j] /\ n + j \in 1..Len(st)
    BY <1>0, Joined DEF n, m
  <2>3. \A i \in 1..Len(st) : i \in 1..n \/ \E j \in 1..m : i = n + j
    BY <1>0, Joined DEF n, m
  <2> QED
    BY <2>1, <2>2, <2>3
<1>2. \A i \in 1..(n + 1) : OpenIn(st, i) <=> OpenIn(s, i)
  BY <1>0, OpenStays
<1>3. \A j \in 1..m : /\ t[j].type \in {"TOOL_CALL", "TOOL_CALL_RESULT"}
                      /\ t[j].type # "TEXT_MESSAGE_START"
  BY DEF Bot!IsCall
<1> HIDE DEF n, m
<1>4. ASSUME NEW i \in 1..(n + m + 1), i > n PROVE ~OpenIn(st, i)
  <2> SUFFICES ASSUME NEW j \in 1..(i - 1), st[j].type = "TEXT_MESSAGE_START",
                      \A k \in j..(i - 1) : st[k].type # "TEXT_MESSAGE_END"
               PROVE  FALSE
    BY DEF OpenIn
  <2>1. j \in 1..(n + m)
    BY <1>1
  <2>2. j \in 1..n
    BY <2>1, <1>1, <1>3
  <2>3. \A k \in j..n : k \in j..(i - 1)
    BY <1>1, <1>4
  <2>4. OpenIn(st, n + 1)
    <3>1. (n + 1) - 1 = n
      BY <1>1
    <3> QED
      BY <2>2, <2>3, <3>1 DEF OpenIn
  <2>5. n + 1 \in 1..(n + 1)
    BY <1>1
  <2> QED
    BY <2>4, <2>5, <1>2 DEF EndsOpen, n
<1>5. ASSUME NEW i \in 1..(n + m)
      PROVE  /\ st[i].type \notin Bot!Closing
             /\ st[i].type \in Bot!Outside => ~OpenIn(st, i)
             /\ st[i].type \in Bot!InMessage => OpenIn(st, i)
             /\ Bot!IsCall(st[i]) => \A j \in 1..(n + m) : st[j] = st[i] => j = i
             /\ st[i].type = "TOOL_CALL_RESULT" =>
                  \E j \in 1..(i - 1) : st[j] = Bot!Event("TOOL_CALL", st[i].id)
  <2>1. CASE i \in 1..n
    <3>1. \A j \in 1..(i - 1) : j \in 1..n
      BY <2>1, <1>1
    <3>2. st[i] = s[i] /\ (OpenIn(st, i) <=> OpenIn(s, i))
      BY <2>1, <1>1, <1>2
    <3>3. ASSUME Bot!IsCall(s[i]), NEW j \in 1..(n + m), st[j] = s[i] PROVE j = i
      <4>1. CASE j \in 1..n
        BY <4>1, <3>3, <2>1, <1>1 DEF Going, n
      <4>2. ASSUME NEW l \in 1..m, j = n + l PROVE FALSE
        <5>1. t[l] = s[i]
          BY <4>2, <3>3, <1>1
        <5>2. In(s, t[l])
          BY <5>1, <2>1 DEF In, n
        <5>3. ~In(s, t[l])
          BY DEF m
        <5> QED
          BY <5>2, <5>3
      <4> QED
        BY <4>1, <4>2, <1>1
    <3> QED
      BY <2>1, <3>1, <3>2, <3>3, <1>1, ZenonT(60) DEF Going, n
  <2>2. ASSUME NEW l \in 1..m, i = n + l
        PROVE  /\ st[i].type \notin Bot!Closing
               /\ st[i].type \in Bot!Outside => ~OpenIn(st, i)
               /\ st[i].type \in Bot!InMessage => OpenIn(st, i)
               /\ Bot!IsCall(st[i]) => \A j \in 1..(n + m) : st[j] = st[i] => j = i
               /\ st[i].type = "TOOL_CALL_RESULT" =>
                    \E j \in 1..(i - 1) : st[j] = Bot!Event("TOOL_CALL", st[i].id)
    <3>0. st[i] = t[l]
      BY <2>2, <1>1
    <3>1. st[i] = t[l] /\ i > n /\ i \in 1..(n + m + 1)
      <4>1. n \in Nat /\ m \in Nat
        BY <1>1
      <4> QED
        BY <3>0, <4>1, <2>2
    <3>2. ~OpenIn(st, i)
      BY <3>1, <1>4
    <3>3. st[i].type \in {"TOOL_CALL", "TOOL_CALL_RESULT"}
      BY <3>1, <1>3
    <3>4. ASSUME NEW j \in 1..(n + m), st[j] = t[l] PROVE j = i
      <4>1. CASE j \in 1..n
        BY <4>1, <3>4, <1>1 DEF In, n, m
      <4>2. ASSUME NEW q \in 1..m, j = n + q PROVE j = i
        BY <4>2, <3>4, <2>2, <1>1 DEF m
      <4> QED
        BY <4>1, <4>2, <1>1
    <3>5. ASSUME t[l].type = "TOOL_CALL_RESULT"
          PROVE  \E j \in 1..(i - 1) : st[j] = Bot!Event("TOOL_CALL", t[l].id)
      <4>1. PICK j \in 1..(l - 1) : t[j] = Bot!Event("TOOL_CALL", t[l].id)
        BY <3>5 DEF m
      <4>2. n + j \in 1..(i - 1) /\ j \in 1..m
        BY <2>2, <1>1
      <4> QED
        BY <4>1, <4>2, <1>1
    <3> QED
      BY <3>1, <3>2, <3>3, <3>4, <3>5 DEF Bot!Closing, Bot!InMessage
  <2> QED
    BY <2>1, <2>2, <1>1
<1>6. Going(st)
  BY <1>1, <1>5 DEF Going
<1>7. ~EndsOpen(st)
  <2>1. Len(st) + 1 \in 1..(n + m + 1) /\ Len(st) + 1 > n
    BY <1>1
  <2> QED
    BY <2>1, <1>4 DEF EndsOpen
<1>8. \A c \in EventOf : In(st, c) <=> In(s, c) \/ In(t, c)
  <2> TAKE c \in EventOf
  <2>1. ASSUME In(st, c) PROVE In(s, c) \/ In(t, c)
    <3>1. PICK i \in 1..(n + m) : st[i] = c
      BY <2>1, <1>1 DEF In
    <3> QED
      BY <3>1, <1>1 DEF In, n, m
  <2>2. ASSUME In(s, c) PROVE In(st, c)
    <3>1. PICK i \in 1..n : s[i] = c
      BY <2>2 DEF In, n
    <3>2. i \in 1..Len(st)
      BY <1>1
    <3> QED
      BY <3>1, <3>2, <1>1 DEF In
  <2>3. ASSUME In(t, c) PROVE In(st, c)
    <3>1. PICK i \in 1..m : t[i] = c
      BY <2>3 DEF In, m
    <3> QED
      BY <3>1, <1>1 DEF In
  <2> QED
    BY <2>1, <2>2, <2>3
<1> QED
  BY <1>6, <1>7, <1>8

\* What runAgent says before anything else: the message is closed if one is open.
LEMMA TextClosed ==
  ASSUME NEW s, Going(s), NEW open, open <=> EndsOpen(s), NEW st,
         st = s \o (IF open THEN <<Bot!Event("TEXT_MESSAGE_END", 0)>> ELSE <<>>)
  PROVE  Going(st) /\ ~EndsOpen(st) /\ \A c \in EventOf : Bot!IsCall(c) => (In(st, c) <=> In(s, c))
<1>0. s \in Seq(EventOf)
  BY DEF Going
<1>1. CASE EndsOpen(s)
  <2> DEFINE e == Bot!Event("TEXT_MESSAGE_END", 0)
  <2>1. e \in EventOf /\ e.type = "TEXT_MESSAGE_END"
    BY DEF Bot!Event, EventOf, TypesSent
  <2>2. st = Append(s, e)
    BY <1>1, <1>0, <2>1
  <2>3. e.type \notin Bot!Closing /\ ~Bot!IsCall(e) /\ e.type \notin Bot!Outside
    BY <2>1 DEF Bot!Closing, Bot!IsCall, Bot!Outside
  <2> HIDE DEF e
  <2> QED
    BY <1>1, <2>1, <2>2, <2>3, OneMore
<1>2. CASE ~EndsOpen(s)
  <2>1. st = s
    BY <1>2, <1>0
  <2> QED
    BY <2>1, <1>2
<1> QED
  BY <1>1, <1>2

\* Calls told with their results: each event once, and a result behind its call.
LEMMA ToldWithResults ==
  ASSUME NEW cs \in Seq(CallOf), Distinct(cs), NEW t,
         t = Bot!FlattenSeq([i \in DOMAIN cs |-> Bot!WithResult(cs[i])])
  PROVE  /\ t \in Seq(EventOf)
         /\ \A i \in 1..Len(t) :
              /\ Bot!IsCall(t[i])
              /\ \A j \in 1..Len(t) : t[j] = t[i] => j = i
              /\ t[i].type = "TOOL_CALL_RESULT" =>
                   \E j \in 1..(i - 1) : t[j] = Bot!Event("TOOL_CALL", t[i].id)
         /\ \A c \in EventOf : In(t, c) <=>
              \E i \in DOMAIN cs : \/ c = Bot!Event("TOOL_CALL", cs[i].id)
                                   \/ c = Bot!Event("TOOL_CALL_RESULT", cs[i].id)
<1> DEFINE seqs == [i \in DOMAIN cs |-> Bot!WithResult(cs[i])]
           Plain(i) == Bot!Event("TOOL_CALL", cs[i].id)
           Result(i) == Bot!Event("TOOL_CALL_RESULT", cs[i].id)
<1>0. DOMAIN cs = 1..Len(cs) /\ Len(cs) \in Nat /\ \A i \in 1..Len(cs) : cs[i].id \in Nat
  <2>1. DOMAIN cs = 1..Len(cs) /\ Len(cs) \in Nat /\ \A i \in 1..Len(cs) : cs[i] \in CallOf
    BY SeqIs
  <2> QED
    BY <2>1 DEF CallOf
<1>1. \A i \in 1..Len(cs) : Plain(i) \in EventOf /\ Result(i) \in EventOf
  BY <1>0 DEF Bot!Event, EventOf, TypesSent
<1>2. \A i \in 1..Len(cs) : seqs[i] = <<Plain(i), Result(i)>>
  BY <1>0 DEF Bot!WithResult
<1>3. \A i, j \in 1..Len(cs) :
        /\ Plain(i) # Result(j)
        /\ Plain(i) = Plain(j) => i = j
        /\ Result(i) = Result(j) => i = j
        /\ Plain(i).type = "TOOL_CALL" /\ Result(i).type = "TOOL_CALL_RESULT" /\ Result(i).id = cs[i].id
  BY <1>0 DEF Bot!Event, Distinct
<1>4. seqs \in Seq(Seq(EventOf)) /\ Len(seqs) = Len(cs)
  <2> HIDE DEF Plain, Result
  <2>1. \A i \in 1..Len(cs) : seqs[i] \in Seq(EventOf)
    <3> TAKE i \in 1..Len(cs)
    <3> HIDE DEF seqs
    <3>1. Plain(i) \in EventOf /\ Result(i) \in EventOf /\ seqs[i] = <<Plain(i), Result(i)>>
      BY <1>1, <1>2
    <3> QED
      BY <3>1, Pairs
  <2>2. seqs \in [1..Len(cs) -> Seq(EventOf)]
    BY <2>1, <1>0
  <2> HIDE DEF seqs
  <2> QED
    BY <2>2, <1>0, IsSeq
<1>5. t \in Seq(EventOf) /\ \E of, nth : MadeOf(t, seqs, Len(cs), of, nth)
  <2> HIDE DEF Plain, Result
  <2>1. t = Bot!FlattenSeq(seqs)
    OBVIOUS
  <2> HIDE DEF seqs
  <2> QED
    BY <1>4, <2>1, FlattenPlaces
<1> HIDE DEF seqs, Plain, Result
<1>6. PICK of, nth : MadeOf(t, seqs, Len(cs), of, nth)
  BY <1>5
<1>7. \A p \in 1..Len(t) : /\ of[p] \in 1..Len(cs)
                           /\ \/ nth[p] = 1 /\ t[p] = Plain(of[p])
                              \/ nth[p] = 2 /\ t[p] = Result(of[p])
  <2> TAKE p \in 1..Len(t)
  <2>1. of[p] \in 1..Len(cs) /\ nth[p] \in 1..Len(seqs[of[p]]) /\ t[p] = seqs[of[p]][nth[p]]
    BY <1>6 DEF MadeOf
  <2>2. seqs[of[p]] = <<Plain(of[p]), Result(of[p])>>
    BY <2>1, <1>2
  <2> QED
    BY <2>1, <2>2, SMTT(30)
<1>8. \A i \in 1..Len(cs) : /\ \E p \in 1..Len(t) : of[p] = i /\ nth[p] = 1
                            /\ \E p \in 1..Len(t) : of[p] = i /\ nth[p] = 2
  <2> TAKE i \in 1..Len(cs)
  <2>1. Len(seqs[i]) = 2
    BY <1>2, Pairs
  <2>2. 1 \in 1..Len(seqs[i]) /\ 2 \in 1..Len(seqs[i])
    BY <2>1
  <2>3. \A j \in 1..Len(seqs[i]) : \E p \in 1..Len(t) : of[p] = i /\ nth[p] = j
    BY <1>6 DEF MadeOf
  <2> QED
    BY <2>2, <2>3
<1>9. \A p, q \in 1..Len(t) : p < q <=> of[p] < of[q] \/ (of[p] = of[q] /\ nth[p] < nth[q])
  BY <1>6 DEF MadeOf
<1>10. ASSUME NEW i \in 1..Len(t)
       PROVE  /\ Bot!IsCall(t[i])
              /\ \A j \in 1..Len(t) : t[j] = t[i] => j = i
              /\ t[i].type = "TOOL_CALL_RESULT" =>
                   \E j \in 1..(i - 1) : t[j] = Bot!Event("TOOL_CALL", t[i].id)
  <2>1. Bot!IsCall(t[i])
    BY <1>7, <1>3 DEF Bot!IsCall
  <2>2. ASSUME NEW j \in 1..Len(t), t[j] = t[i] PROVE j = i
    <3>1. of[j] = of[i] /\ nth[j] = nth[i]
      BY <2>2, <1>7, <1>3
    <3>2. ~(j < i) /\ ~(i < j)
      BY <3>1, <1>9, <1>7
    <3> QED
      BY <3>2
  <2>3. ASSUME t[i].type = "TOOL_CALL_RESULT"
        PROVE  \E j \in 1..(i - 1) : t[j] = Bot!Event("TOOL_CALL", t[i].id)
    <3>1. of[i] \in 1..Len(cs) /\ nth[i] = 2 /\ t[i] = Result(of[i])
      BY <2>3, <1>7, <1>3
    <3>2. PICK j \in 1..Len(t) : of[j] = of[i] /\ nth[j] = 1
      BY <3>1, <1>8
    <3>3. j < i /\ t[j] = Plain(of[i])
      BY <3>1, <3>2, <1>9, <1>7
    <3>4. j \in 1..(i - 1)
      BY <3>3
    <3>5. Plain(of[i]) = Bot!Event("TOOL_CALL", t[i].id)
      BY <3>1, <1>3 DEF Plain
    <3> QED
      BY <3>3, <3>4, <3>5
  <2> QED
    BY <2>1, <2>2, <2>3
<1>11. ASSUME NEW c \in EventOf
       PROVE  In(t, c) <=> \E i \in 1..Len(cs) : c = Plain(i) \/ c = Result(i)
  <2>1. ASSUME In(t, c) PROVE \E i \in 1..Len(cs) : c = Plain(i) \/ c = Result(i)
    BY <2>1, <1>7 DEF In
  <2>2. ASSUME NEW i \in 1..Len(cs), c = Plain(i) PROVE In(t, c)
    <3>1. PICK p \in 1..Len(t) : of[p] = i /\ nth[p] = 1
      BY <1>8
    <3>2. t[p] = c
      BY <3>1, <2>2, <1>7
    <3> QED
      BY <3>2 DEF In
  <2>3. ASSUME NEW i \in 1..Len(cs), c = Result(i) PROVE In(t, c)
    <3>1. PICK p \in 1..Len(t) : of[p] = i /\ nth[p] = 2
      BY <1>8
    <3>2. t[p] = c
      BY <3>1, <2>3, <1>7
    <3> QED
      BY <3>2 DEF In
  <2> QED
    BY <2>1, <2>2, <2>3
<1> QED
  BY <1>5, <1>10, <1>11, <1>0 DEF Plain, Result

\* Calls told without: each once.
LEMMA ToldPlainly ==
  ASSUME NEW cs \in Seq(CallOf), Distinct(cs), NEW t,
         t = Bot!FlattenSeq([i \in DOMAIN cs |-> Bot!Call(cs[i])])
  PROVE  /\ t \in Seq(EventOf)
         /\ \A i \in 1..Len(t) :
              /\ Bot!IsCall(t[i]) /\ t[i].type = "TOOL_CALL"
              /\ \A j \in 1..Len(t) : t[j] = t[i] => j = i
         /\ \A c \in EventOf : In(t, c) <=> \E i \in DOMAIN cs : c = Bot!Event("TOOL_CALL", cs[i].id)
<1> DEFINE seqs == [i \in DOMAIN cs |-> Bot!Call(cs[i])]
           Plain(i) == Bot!Event("TOOL_CALL", cs[i].id)
<1>0. DOMAIN cs = 1..Len(cs) /\ Len(cs) \in Nat /\ \A i \in 1..Len(cs) : cs[i].id \in Nat
  <2>1. DOMAIN cs = 1..Len(cs) /\ Len(cs) \in Nat /\ \A i \in 1..Len(cs) : cs[i] \in CallOf
    BY SeqIs
  <2> QED
    BY <2>1 DEF CallOf
<1>1. \A i \in 1..Len(cs) : Plain(i) \in EventOf
  BY <1>0 DEF Bot!Event, EventOf, TypesSent
<1>2. \A i \in 1..Len(cs) : seqs[i] = <<Plain(i)>>
  BY <1>0 DEF Bot!Call
<1>3. \A i, j \in 1..Len(cs) : (Plain(i) = Plain(j) => i = j) /\ Plain(i).type = "TOOL_CALL"
  BY <1>0 DEF Bot!Event, Distinct
<1>4. seqs \in Seq(Seq(EventOf)) /\ Len(seqs) = Len(cs)
  <2> HIDE DEF Plain
  <2>1. \A i \in 1..Len(cs) : seqs[i] \in Seq(EventOf)
    <3> TAKE i \in 1..Len(cs)
    <3> HIDE DEF seqs
    <3> QED
      BY <1>1, <1>2, Pairs
  <2>2. seqs \in [1..Len(cs) -> Seq(EventOf)]
    BY <2>1, <1>0
  <2> HIDE DEF seqs
  <2> QED
    BY <2>2, <1>0, IsSeq
<1>5. t \in Seq(EventOf) /\ \E of, nth : MadeOf(t, seqs, Len(cs), of, nth)
  <2> HIDE DEF Plain
  <2>1. t = Bot!FlattenSeq(seqs)
    OBVIOUS
  <2> HIDE DEF seqs
  <2> QED
    BY <1>4, <2>1, FlattenPlaces
<1> HIDE DEF seqs, Plain
<1>6. PICK of, nth : MadeOf(t, seqs, Len(cs), of, nth)
  BY <1>5
<1>7. \A p \in 1..Len(t) : of[p] \in 1..Len(cs) /\ nth[p] = 1 /\ t[p] = Plain(of[p])
  <2> TAKE p \in 1..Len(t)
  <2>1. of[p] \in 1..Len(cs) /\ nth[p] \in 1..Len(seqs[of[p]]) /\ t[p] = seqs[of[p]][nth[p]]
    BY <1>6 DEF MadeOf
  <2>2. seqs[of[p]] = <<Plain(of[p])>>
    BY <2>1, <1>2
  <2> QED
    BY <2>1, <2>2
<1>8. \A i \in 1..Len(cs) : \E p \in 1..Len(t) : of[p] = i
  <2> TAKE i \in 1..Len(cs)
  <2>0. Len(seqs[i]) = 1
    BY <1>2, Pairs
  <2>1. 1 \in 1..Len(seqs[i])
    BY <2>0
  <2> QED
    BY <2>1, <1>6 DEF MadeOf
<1>9. \A p, q \in 1..Len(t) : p < q <=> of[p] < of[q] \/ (of[p] = of[q] /\ nth[p] < nth[q])
  BY <1>6 DEF MadeOf
<1>10. ASSUME NEW i \in 1..Len(t)
       PROVE  /\ Bot!IsCall(t[i]) /\ t[i].type = "TOOL_CALL"
              /\ \A j \in 1..Len(t) : t[j] = t[i] => j = i
  <2>1. Bot!IsCall(t[i]) /\ t[i].type = "TOOL_CALL"
    BY <1>7, <1>3 DEF Bot!IsCall
  <2>2. ASSUME NEW j \in 1..Len(t), t[j] = t[i] PROVE j = i
    <3>1. of[j] = of[i] /\ nth[j] = nth[i]
      BY <2>2, <1>7, <1>3
    <3>2. ~(j < i) /\ ~(i < j)
      BY <3>1, <1>9, <1>7
    <3> QED
      BY <3>2
  <2> QED
    BY <2>1, <2>2
<1>11. ASSUME NEW c \in EventOf
       PROVE  In(t, c) <=> \E i \in 1..Len(cs) : c = Plain(i)
  <2>1. ASSUME In(t, c) PROVE \E i \in 1..Len(cs) : c = Plain(i)
    BY <2>1, <1>7 DEF In
  <2>2. ASSUME NEW i \in 1..Len(cs), c = Plain(i) PROVE In(t, c)
    <3>1. PICK p \in 1..Len(t) : of[p] = i
      BY <1>8
    <3>2. t[p] = c
      BY <3>1, <2>2, <1>7
    <3> QED
      BY <3>2 DEF In
  <2> QED
    BY <2>1, <2>2
<1> QED
  BY <1>5, <1>10, <1>11, <1>0 DEF Plain

-----------------------------------------------------------------------------
(***************************************************************************)
(* From the streams to the state.                                          *)
(***************************************************************************)

\* While runAgent follows its graph, its stream can go on.
LEMMA RelayIsGoing ==
  ASSUME BotShape, Bot!StreamIsWellFormed, RelayFollows, relay = "on"
  PROVE  Going(sent) /\ (textOpen <=> EndsOpen(sent)) /\ sent # <<>>
<1>1. sent \in Seq(EventOf) /\ DOMAIN sent = 1..Len(sent)
  BY SeqIs DEF BotShape
<1>2. \A i : Bot!MessageOpenAt(i) <=> OpenIn(sent, i)
  BY DEF Bot!MessageOpenAt, OpenIn
<1>3. ASSUME NEW i \in 1..Len(sent)
      PROVE  /\ sent[i].type \notin Bot!Closing
             /\ sent[i].type \in Bot!Outside => ~OpenIn(sent, i)
             /\ sent[i].type \in Bot!InMessage => OpenIn(sent, i)
             /\ Bot!IsCall(sent[i]) => \A j \in 1..Len(sent) : sent[j] = sent[i] => j = i
             /\ sent[i].type = "TOOL_CALL_RESULT" =>
                  \E j \in 1..(i - 1) : sent[j] = Bot!Event("TOOL_CALL", sent[i].id)
  BY <1>1, <1>2 DEF Bot!StreamIsWellFormed, RelayFollows
<1> QED
  BY <1>1, <1>2, <1>3 DEF Going, EndsOpen, RelayFollows

\* A stream that can go on is one the surface can follow.
LEMMA GoesOn ==
  ASSUME Going(sent')
  PROVE  /\ Bot!StreamIsWellFormed'
         /\ sent' # <<>> /\ (textOpen' <=> EndsOpen(sent')) => RelayFollows'
<1>1. DOMAIN sent' = 1..Len(sent')
  BY SeqIs DEF Going
<1>2. \A i : Bot!MessageOpenAt(i)' <=> OpenIn(sent', i)
  BY DEF Bot!MessageOpenAt, OpenIn
<1>3. ASSUME NEW i \in 1..Len(sent')
      PROVE  /\ sent'[i].type \notin Bot!Closing
             /\ sent'[i].type \in Bot!Outside => ~OpenIn(sent', i)
             /\ sent'[i].type \in Bot!InMessage => OpenIn(sent', i)
             /\ Bot!IsCall(sent'[i]) => \A j \in 1..Len(sent') : sent'[j] = sent'[i] => j = i
             /\ sent'[i].type = "TOOL_CALL_RESULT" =>
                  \E j \in 1..(i - 1) : sent'[j] = Bot!Event("TOOL_CALL", sent'[i].id)
  BY DEF Going
<1>4. \A i : sent'[i].type = "RUN_ERROR" => sent'[i].type \in Bot!Closing
  BY DEF Bot!Closing
<1> QED
  BY <1>1, <1>2, <1>3, <1>4 DEF Bot!StreamIsWellFormed, RelayFollows, EndsOpen

\* So is one that ended.
LEMMA EndsWell ==
  ASSUME NEW s, Going(s), NEW e \in EventOf, e.type \in Bot!Closing,
         (e.type = "RUN_ERROR" /\ byHand') \/ ~EndsOpen(s), sent' = s \o <<e>>, relay' = "closed"
  PROVE  /\ Bot!StreamIsWellFormed' /\ RelayFollows' /\ sent' \in Seq(EventOf)
         /\ sent' # <<>> /\ sent'[Len(sent')] = e
         /\ \A c \in EventOf : Bot!IsCall(c) => (In(sent', c) <=> In(s, c))
<1> DEFINE n == Len(s)
           st == sent'
<1>0. s \in Seq(EventOf) /\ <<e>> \in Seq(EventOf)
  BY DEF Going
<1>1. /\ st \in Seq(EventOf) /\ n \in Nat /\ Len(st) = n + 1 /\ DOMAIN st = 1..(n + 1)
      /\ \A i \in 1..n : st[i] = s[i] /\ i \in 1..(n + 1)
      /\ st[n + 1] = e
      /\ \A i \in 1..(n + 1) : i \in 1..n \/ i = n + 1
  BY <1>0
<1>2. \A i \in 1..(n + 1) : Bot!MessageOpenAt(i)' <=> OpenIn(s, i)
  <2>1. \A i \in 1..(n + 1) : OpenIn(st, i) <=> OpenIn(s, i)
    BY <1>0, OpenStays
  <2>2. \A i : Bot!MessageOpenAt(i)' <=> OpenIn(st, i)
    BY DEF Bot!MessageOpenAt, OpenIn
  <2> QED
    BY <2>1, <2>2
<1>3. ~Bot!IsCall(e) /\ e.type \notin Bot!InMessage /\ e.type \in {"RUN_FINISHED", "RUN_ERROR"}
  BY DEF Bot!IsCall, Bot!Closing, Bot!InMessage
<1> HIDE DEF st
<1>4. ASSUME NEW i \in 1..(n + 1)
      PROVE  /\ st[i].type \in Bot!Outside => ~Bot!MessageOpenAt(i)'
             /\ st[i].type \in Bot!InMessage => Bot!MessageOpenAt(i)'
             /\ st[i].type = "RUN_ERROR" => byHand' \/ ~Bot!MessageOpenAt(i)'
             /\ st[i].type \in Bot!Closing => i = Len(st) /\ relay' = "closed"
             /\ Bot!IsCall(st[i]) => \A j \in 1..(n + 1) : st[j] = st[i] => j = i
             /\ st[i].type = "TOOL_CALL_RESULT" =>
                  \E j \in 1..(i - 1) : st[j] = Bot!Event("TOOL_CALL", st[i].id)
  <2>1. CASE i \in 1..n
    <3>1. \A j \in 1..(i - 1) : j \in 1..n
      BY <2>1, <1>1
    <3>2. s[i].type # "RUN_ERROR"
      BY <2>1 DEF Going, Bot!Closing
    <3>3. st[i] = s[i]
      BY <2>1, <1>1
    <3>4. ASSUME Bot!IsCall(s[i]), NEW j \in 1..(n + 1), st[j] = s[i] PROVE j = i
      <4>1. j # n + 1
        BY <3>4, <1>1, <1>3
      <4>2. j \in 1..n /\ s[j] = s[i]
        BY <4>1, <3>4, <1>1
      <4> QED
        BY <4>2, <3>4, <2>1 DEF Going
    <3>5. ASSUME s[i].type = "TOOL_CALL_RESULT"
          PROVE  \E j \in 1..(i - 1) : st[j] = Bot!Event("TOOL_CALL", s[i].id)
      BY <3>5, <2>1, <3>1, <1>1 DEF Going
    <3>6. /\ s[i].type \notin Bot!Closing
          /\ s[i].type \in Bot!Outside => ~OpenIn(s, i)
          /\ s[i].type \in Bot!InMessage => OpenIn(s, i)
      BY <2>1 DEF Going
    <3> QED
      BY <3>2, <3>3, <3>4, <3>5, <3>6, <1>1, <1>2
  <2>2. CASE i = n + 1
    <3>1. EndsOpen(s) <=> OpenIn(s, i)
      BY <2>2 DEF EndsOpen
    <3>2. e.type = "RUN_FINISHED" => ~EndsOpen(s)
      OBVIOUS
    <3>3. e.type # "TOOL_CALL_RESULT" /\ e.type # "TOOL_CALL" /\ e.type # "TEXT_MESSAGE_START"
      BY <1>3
    <3> QED
      BY <2>2, <3>1, <3>2, <3>3, <1>1, <1>2, <1>3 DEF Bot!Outside
  <2> QED
    BY <2>1, <2>2, <1>1
<1>5. Bot!StreamIsWellFormed'
  BY <1>4, <1>1 DEF Bot!StreamIsWellFormed, st
<1>6. \A c \in EventOf : Bot!IsCall(c) => (In(st, c) <=> In(s, c))
  BY <1>1, <1>3 DEF In
<1>7. RelayFollows'
  BY DEF RelayFollows
<1>8. st # <<>> /\ st[Len(st)] = e
  BY <1>1
<1> QED
  BY <1>5, <1>6, <1>7, <1>8, <1>1 DEF st

\* A call the surface has been told of after the step.
TellsNow(n) == In(sent', Bot!Event("TOOL_CALL", n))

\* The message the surface makes of an event.
Made(e) == Bot!Message(IF e.type = "TOOL_CALL" THEN "assistant" ELSE "tool", e.id)

\* An event that the surface may be told: a call it has not heard of, and with its result when it
\* has one.
MayTell(t) ==
  \A i \in 1..Len(t) : Bot!IsCall(t[i]) =>
    /\ t[i].id \in (since + 1)..used /\ ~IsTold(t[i].id)
    /\ \A j \in 1..Len(t) : t[j] = t[i] => j = i
    /\ t[i].type = "TOOL_CALL_RESULT" =>
         \E j \in 1..(i - 1) : t[j] = Bot!Event("TOOL_CALL", t[i].id)
    /\ t[i].type = "TOOL_CALL" /\ t[i].id \in ran => In(t, Bot!Event("TOOL_CALL_RESULT", t[i].id))

\* To what was kept came new, a message for each call event of t, in their order.
Grown(kept, t, new, of) ==
  /\ kept = past \o new
  /\ of \in [1..Len(new) -> {i \in 1..Len(t) : Bot!IsCall(t[i])}]
  /\ \A p \in 1..Len(new) : new[p] = Made(t[of[p]])
  /\ \A i \in {i \in 1..Len(t) : Bot!IsCall(t[i])} : \E p \in 1..Len(new) : of[p] = i
  /\ \A p, q \in 1..Len(new) : p < q <=> of[p] < of[q]

\* What the surface keeps of the events it is told.
LEMMA KeptPlaces ==
  ASSUME NEW t \in Seq(EventOf), past \in Seq(MessageOf), NEW kept,
         kept = Bot!Kept(Bot!Those(t, Bot!IsCall))
  PROVE  \E new \in Seq(MessageOf) : \E of : Grown(kept, t, new, of)
<1> DEFINE K == {i \in 1..Len(t) : Bot!IsCall(t[i])}
           r == Bot!Those(t, Bot!IsCall)
           new == [p \in DOMAIN r |-> Made(r[p])]
<1>0. DOMAIN t = 1..Len(t)
  OBVIOUS
<1>1. r = Bot!FlattenSeq([i \in DOMAIN t |-> IF i \in K THEN <<t[i]>> ELSE <<>>])
  <2>1. [i \in DOMAIN t |-> IF i \in K THEN <<t[i]>> ELSE <<>>] =
        [i \in DOMAIN t |-> IF Bot!IsCall(t[i]) THEN <<t[i]>> ELSE <<>>]
    BY <1>0
  <2> QED
    BY <2>1 DEF Bot!Those
<1>2. r \in Seq(EventOf) /\ \E of : PartOf(r, t, K, of)
  <2>1. K \in SUBSET (1..Len(t))
    OBVIOUS
  <2> HIDE DEF K, r
  <2> QED
    BY <1>1, <2>1, SelectionPlaces
<1>3. kept = past \o new
  BY DEF Bot!Kept, Made
<1> HIDE DEF r
<1>4. DOMAIN r = 1..Len(r) /\ Len(r) \in Nat /\ \A p \in 1..Len(r) : r[p] \in EventOf
  BY <1>2, SeqIs
<1>5. PICK of : PartOf(r, t, K, of)
  BY <1>2
<1>6. \A p \in 1..Len(r) : Made(r[p]) \in MessageOf
  BY <1>4 DEF Made, Bot!Message, MessageOf, EventOf
<1>7. new \in [1..Len(r) -> MessageOf] /\ \A p \in 1..Len(r) : new[p] = Made(r[p])
  BY <1>4, <1>6
<1> HIDE DEF new
<1>8. new \in Seq(MessageOf) /\ Len(new) = Len(r)
  BY <1>7, <1>4, IsSeq
<1>9. /\ of \in [1..Len(new) -> K]
      /\ \A p \in 1..Len(new) : new[p] = Made(t[of[p]])
      /\ \A i \in K : \E p \in 1..Len(new) : of[p] = i
      /\ \A p, q \in 1..Len(new) : p < q <=> of[p] < of[q]
  BY <1>5, <1>7, <1>8 DEF PartOf
<1>10. Grown(kept, t, new, of)
  BY <1>3, <1>9 DEF Grown
<1> QED
  BY <1>8, <1>10

\* So what it keeps stays sound.
LEMMA PastGrows ==
  ASSUME BotShape, PastIsSound, NEW t \in Seq(EventOf), MayTell(t),
         past' = Bot!Kept(Bot!Those(t, Bot!IsCall)), since' = since, used' = used, ran' = ran,
         \A d : IsTold(d) \/ In(t, Bot!Event("TOOL_CALL", d)) => TellsNow(d)
  PROVE  PastIsSound' /\ past' \in Seq(MessageOf)
<1>0. past \in Seq(MessageOf) /\ used \in Nat /\ since \in Nat /\ since <= used
  BY DEF BotShape
<1>1a. PICK new \in Seq(MessageOf) : \E of : Grown(past', t, new, of)
  <2>1. \E new \in Seq(MessageOf) : \E of : Grown(past', t, new, of)
    BY <1>0, KeptPlaces
  <2> QED
    BY <2>1
<1>1b. PICK of : Grown(past', t, new, of)
  BY <1>1a
<1>1. /\ past' = past \o new
      /\ of \in [1..Len(new) -> {i \in 1..Len(t) : Bot!IsCall(t[i])}]
      /\ \A p \in 1..Len(new) : new[p] = Made(t[of[p]])
      /\ \A i \in {i \in 1..Len(t) : Bot!IsCall(t[i])} : \E p \in 1..Len(new) : of[p] = i
      /\ \A p, q \in 1..Len(new) : p < q <=> of[p] < of[q]
  BY <1>1b DEF Grown
<1> DEFINE n == Len(past)
           m == Len(new)
           pp == past'
<1>2. /\ pp \in Seq(MessageOf) /\ n \in Nat /\ m \in Nat /\ DOMAIN past = 1..n /\ DOMAIN pp = 1..(n + m)
      /\ \A i \in 1..n : pp[i] = past[i] /\ past[i] \in MessageOf /\ i \in 1..(n + m)
      /\ \A j \in 1..m : pp[n + j] = new[j] /\ n + j \in 1..(n + m)
      /\ \A i \in 1..(n + m) : i \in 1..n \/ \E j \in 1..m : i = n + j
  <2>1. /\ pp \in Seq(MessageOf) /\ n \in Nat /\ m \in Nat /\ Len(pp) = n + m
        /\ DOMAIN past = 1..n /\ DOMAIN pp = 1..Len(pp)
        /\ \A i \in 1..n : pp[i] = past[i] /\ past[i] \in MessageOf /\ i \in 1..Len(pp)
    BY <1>0, <1>1, Joined DEF n, m
  <2>2. \A j \in 1..m : pp[n + j] = new[j] /\ n + j \in 1..Len(pp)
    BY <1>0, <1>1, Joined DEF n, m
  <2>3. \A i \in 1..Len(pp) : i \in 1..n \/ \E j \in 1..m : i = n + j
    <3> HIDE DEF pp
    <3>1. pp = past \o new
      BY <1>1 DEF pp
    <3> QED
      BY <1>0, <3>1, Joined DEF n, m
  <2> QED
    BY <2>1, <2>2, <2>3
<1>3. \A p \in 1..m : of[p] \in 1..Len(t) /\ Bot!IsCall(t[of[p]]) /\ new[p] = Made(t[of[p]])
  BY <1>1
<1>4. \A i \in 1..Len(t) : Bot!IsCall(t[i]) => \E p \in 1..m : of[p] = i
  BY <1>1
<1>5. \A p, q \in 1..m : (p < q <=> of[p] < of[q]) /\ (of[p] = of[q] => p = q)
  <2>1. \A p, q \in 1..m : p < q <=> of[p] < of[q]
    BY <1>1
  <2>2. \A p \in 1..m : of[p] \in Nat
    BY <1>3
  <2> QED
    BY <2>1, <2>2, <1>2
<1>6. \A i \in 1..Len(t) : t[i] \in EventOf
  OBVIOUS
<1>7. \A p \in 1..m :
        /\ new[p].id = t[of[p]].id /\ new[p].real
        /\ new[p].role = IF t[of[p]].type = "TOOL_CALL" THEN "assistant" ELSE "tool"
        /\ t[of[p]].type \in {"TOOL_CALL", "TOOL_CALL_RESULT"}
        /\ t[of[p]] = Bot!Event(t[of[p]].type, t[of[p]].id)
        /\ t[of[p]].id \in (since + 1)..used /\ ~IsTold(t[of[p]].id)
  <2> TAKE p \in 1..m
  <2>1. of[p] \in 1..Len(t) /\ Bot!IsCall(t[of[p]]) /\ new[p] = Made(t[of[p]]) /\ t[of[p]] \in EventOf
    BY <1>3, <1>6
  <2>2. t[of[p]].id \in (since + 1)..used /\ ~IsTold(t[of[p]].id)
    BY <2>1 DEF MayTell
  <2>3. \A e \in EventOf : e = Bot!Event(e.type, e.id)
    BY DEF EventOf, Bot!Event
  <2>4. t[of[p]].type \in {"TOOL_CALL", "TOOL_CALL_RESULT"}
    BY <2>1 DEF Bot!IsCall
  <2> QED
    BY <2>1, <2>2, <2>3, <2>4 DEF Made, Bot!Message
<1> HIDE DEF n, m, pp
<1>8. \A p \in 1..m : TellsNow(new[p].id)
  <2> TAKE p \in 1..m
  <2> DEFINE e == t[of[p]]
  <2>1. of[p] \in 1..Len(t) /\ Bot!IsCall(e)
    BY <1>3
  <2>2. CASE e.type = "TOOL_CALL"
    <3>1. t[of[p]] = Bot!Event("TOOL_CALL", e.id)
      BY <2>2, <1>7
    <3>2. In(t, Bot!Event("TOOL_CALL", e.id))
      BY <3>1, <2>1 DEF In
    <3> QED
      BY <3>2, <1>7
  <2>3. CASE e.type = "TOOL_CALL_RESULT"
    <3>1. In(t, Bot!Event("TOOL_CALL", e.id))
      BY <2>1, <2>3 DEF In, MayTell
    <3> QED
      BY <3>1, <1>7
  <2> QED
    BY <2>2, <2>3, <1>7
<1>l. Len(past) = n /\ Len(pp) = n + m
  BY <1>2 DEF n, pp
<1>s. \A i \in 1..n : /\ past[i].id \in 1..used /\ Stands(past, i, ran)
                      /\ past[i].id > since => IsTold(past[i].id)
  BY DEF PastIsSound, n
<1>9. \A i \in 1..n : \A p \in 1..m : past[i].id # new[p].id
  <2> TAKE i \in 1..n
  <2> TAKE p \in 1..m
  <2>1. new[p].id \in (since + 1)..used /\ ~IsTold(new[p].id)
    BY <1>7
  <2>2. past[i].id \in 1..used /\ (past[i].id > since => IsTold(past[i].id))
    BY <1>s, <1>0, <1>l
  <2> QED
    BY <2>1, <2>2, <1>0
<1>10. ASSUME NEW i \in 1..n, pp[i] = past[i]
       PROVE  /\ past[i].id \in 1..used
              /\ past[i].id > since => TellsNow(past[i].id)
              /\ Stands(pp, i, ran)
  <2>0. Stands(past, i, ran)
    BY <1>s, <1>0, <1>l
  <2>1. /\ past[i].id \in 1..used /\ past[i].real
        /\ past[i].id > since => TellsNow(past[i].id)
    BY <1>s, <2>0, <1>0, <1>l DEF Stands
  <2>2. ASSUME NEW j \in 1..(n + m), past[i] = pp[j] PROVE i = j
    <3>1. ASSUME NEW p \in 1..m, j = n + p PROVE FALSE
      <4>1. pp[j] = new[p]
        BY <3>1, <1>2
      <4>2. past[i].id # new[p].id
        BY <1>9
      <4> QED
        BY <4>1, <4>2, <2>2
    <3>2. j \in 1..n
      BY <3>1, <1>2
    <3> QED
      BY <3>2, <2>2, <1>2, <2>0, <1>l DEF Stands
  <2>3. ASSUME past[i].role = "tool"
        PROVE  \E j \in 1..(i - 1) : pp[j] = Bot!Message("assistant", past[i].id)
    <3>1. PICK j \in 1..(i - 1) : past[j] = Bot!Message("assistant", past[i].id)
      BY <2>3, <2>0 DEF Stands
    <3>2. pp[j] = past[j]
      BY <1>2
    <3> QED
      BY <3>1, <3>2
  <2>4. ASSUME past[i].role = "assistant", past[i].id \in ran
        PROVE  \E j \in 1..(n + m) : pp[j] = Bot!Message("tool", past[i].id)
    <3>1. PICK j \in 1..n : past[j] = Bot!Message("tool", past[i].id)
      BY <2>4, <2>0, <1>l DEF Stands
    <3> QED
      BY <3>1, <1>2
  <2> QED
    BY <2>1, <2>2, <2>3, <2>4, <1>10, <1>l DEF Stands
<1>11. ASSUME NEW p \in 1..m, NEW i, i = n + p, pp[i] = new[p]
       PROVE  /\ new[p].id \in 1..used
              /\ new[p].id > since => TellsNow(new[p].id)
              /\ Stands(pp, i, ran)
  <2> DEFINE e == t[of[p]]
  <2>0. /\ new[p].id = e.id /\ e.id \in (since + 1)..used /\ of[p] \in 1..Len(t) /\ Bot!IsCall(e)
        /\ new[p].role = IF e.type = "TOOL_CALL" THEN "assistant" ELSE "tool"
        /\ e.type \in {"TOOL_CALL", "TOOL_CALL_RESULT"}
    BY <1>7, <1>3
  <2>1. /\ new[p].id \in 1..used /\ new[p].real
        /\ new[p].id > since => TellsNow(new[p].id)
    BY <2>0, <1>7, <1>8, <1>0
  <2>2. ASSUME NEW j \in 1..(n + m), new[p] = pp[j] PROVE n + p = j
    <3>1. j \notin 1..n
      BY <2>2, <1>2, <1>9
    <3>2. PICK q \in 1..m : j = n + q
      BY <3>1, <1>2
    <3>3. new[p] = new[q]
      BY <3>2, <2>2, <1>2
    <3>4. t[of[p]].type = t[of[q]].type /\ t[of[p]].id = t[of[q]].id
      BY <3>3, <1>7
    <3>5. t[of[p]] = t[of[q]]
      BY <3>4, <1>7
    <3>6. of[p] = of[q]
      BY <3>5, <1>3 DEF MayTell
    <3> QED
      BY <3>6, <3>2, <1>5
  <2>3. ASSUME new[p].role = "tool"
        PROVE  \E j \in 1..(n + p - 1) : pp[j] = Bot!Message("assistant", new[p].id)
    <3>1. e.type = "TOOL_CALL_RESULT"
      BY <2>3, <2>0
    <3>2. PICK k \in 1..(of[p] - 1) : t[k] = Bot!Event("TOOL_CALL", e.id)
      BY <3>1, <2>0 DEF MayTell
    <3>3. k \in 1..Len(t) /\ k < of[p]
      BY <2>0, <3>2
    <3>4. Bot!IsCall(t[k])
      BY <3>2 DEF Bot!IsCall, Bot!Event
    <3>5. PICK q \in 1..m : of[q] = k
      BY <3>3, <3>4, <1>4
    <3>6. q < p
      BY <3>5, <3>3, <1>5
    <3>7. new[q] = Bot!Message("assistant", e.id)
      BY <3>5, <3>2, <1>3 DEF Made, Bot!Event
    <3>8. n + q \in 1..(n + p - 1) /\ pp[n + q] = new[q]
      BY <3>6, <1>2
    <3> QED
      BY <3>7, <3>8, <2>0
  <2>4. ASSUME new[p].role = "assistant", new[p].id \in ran
        PROVE  \E j \in 1..(n + m) : pp[j] = Bot!Message("tool", new[p].id)
    <3>1. e.type = "TOOL_CALL"
      BY <2>4, <2>0
    <3>2. In(t, Bot!Event("TOOL_CALL_RESULT", e.id))
      BY <3>1, <2>0, <2>4 DEF MayTell
    <3>3. PICK k \in 1..Len(t) : t[k] = Bot!Event("TOOL_CALL_RESULT", e.id)
      BY <3>2 DEF In
    <3>4. Bot!IsCall(t[k])
      BY <3>3 DEF Bot!IsCall, Bot!Event
    <3>5. PICK q \in 1..m : of[q] = k
      BY <3>4, <1>4
    <3>6. new[q] = Bot!Message("tool", e.id)
      BY <3>5, <3>3, <1>3 DEF Made, Bot!Event
    <3> QED
      BY <3>6, <1>2, <2>0
  <2> QED
    BY <2>1, <2>2, <2>3, <2>4, <1>11, <1>l DEF Stands
<1>12. ASSUME NEW i \in 1..(n + m)
       PROVE  /\ pp[i].id \in 1..used
              /\ pp[i].id > since => TellsNow(pp[i].id)
              /\ Stands(pp, i, ran)
  <2>1. CASE i \in 1..n
    <3>1. pp[i] = past[i]
      BY <2>1, <1>2
    <3> QED
      BY <3>1, <2>1, <1>10
  <2>2. ASSUME NEW p \in 1..m, i = n + p
        PROVE  /\ pp[i].id \in 1..used
               /\ pp[i].id > since => TellsNow(pp[i].id)
               /\ Stands(pp, i, ran)
    <3>1. pp[i] = new[p]
      BY <2>2, <1>2
    <3> QED
      BY <3>1, <2>2, <1>11
  <2> QED
    BY <2>1, <2>2, <1>2
<1>13. PastIsSound'
  BY <1>12, <1>l DEF PastIsSound, pp, TellsNow, IsTold
<1> QED
  BY <1>13, <1>2 DEF pp

-----------------------------------------------------------------------------
(***************************************************************************)
(* The queue.                                                              *)
(***************************************************************************)

\* An event behind the others.
LEMMA QueueGrows ==
  ASSUME NEW q \in Seq(Emitted), NEW e \in Emitted, NEW q2, q2 = Append(q, e)
  PROVE  /\ q2 \in Seq(Emitted) /\ Len(q) \in Nat /\ Len(q2) = Len(q) + 1
         /\ \A k \in 1..Len(q) : q2[k] = q[k]
         /\ q2[Len(q) + 1] = e
         /\ \A kind, c : Carried(q2, kind, c) <=> Carried(q, kind, c) \/ (e.type = kind /\ In(e.calls, c))
         /\ \A k \in 1..Len(q) : \A c : Before(q2, k, "model", c) <=> Before(q, k, "model", c)
         /\ \A c : Before(q2, Len(q) + 1, "model", c) <=> Carried(q, "model", c)
<1>1. /\ q2 \in Seq(Emitted) /\ Len(q) \in Nat /\ Len(q2) = Len(q) + 1
      /\ \A k \in 1..Len(q) : q2[k] = q[k]
      /\ q2[Len(q) + 1] = e
  OBVIOUS
<1>2. \A kind, c : Carried(q2, kind, c) <=> Carried(q, kind, c) \/ (e.type = kind /\ In(e.calls, c))
  <2> TAKE kind, c
  <2>1. \A k \in 1..Len(q2) : k \in 1..Len(q) \/ k = Len(q) + 1
    BY <1>1
  <2>2. \A k \in 1..Len(q) : k \in 1..Len(q2)
    BY <1>1
  <2>3. Len(q) + 1 \in 1..Len(q2)
    BY <1>1
  <2> QED
    BY <1>1, <2>1, <2>2, <2>3 DEF Carried
<1>3. \A k \in 1..Len(q) : \A c : Before(q2, k, "model", c) <=> Before(q, k, "model", c)
  <2> TAKE k \in 1..Len(q)
  <2> TAKE c
  <2>1. \A l \in 1..(k - 1) : l \in 1..Len(q)
    BY <1>1
  <2> QED
    BY <1>1, <2>1 DEF Before
<1>4. \A c : Before(q2, Len(q) + 1, "model", c) <=> Carried(q, "model", c)
  <2>1. \A l : l \in 1..((Len(q) + 1) - 1) <=> l \in 1..Len(q)
    BY <1>1
  <2> QED
    BY <1>1, <2>1 DEF Before, Carried
<1> QED
  BY <1>1, <1>2, <1>3, <1>4

\* Ids stay apart if those of the new event are.
LEMMA QueueStaysOnce ==
  ASSUME NEW q \in Seq(Emitted), NEW e \in Emitted, NEW q2, q2 = Append(q, e), NEW kind,
         Once(q, kind),
         e.type = kind => /\ Distinct(e.calls)
                          /\ \A c, d \in CallOf : In(e.calls, c) /\ Carried(q, kind, d) => c.id # d.id
  PROVE  Once(q2, kind)
<1>1. /\ q2 \in Seq(Emitted) /\ Len(q) \in Nat /\ Len(q2) = Len(q) + 1
      /\ \A k \in 1..Len(q) : q2[k] = q[k]
      /\ q2[Len(q) + 1] = e
      /\ \A k \in 1..Len(q2) : k \in 1..Len(q) \/ k = Len(q) + 1
  OBVIOUS
<1>c. \A k \in 1..Len(q) : q[k].calls \in Seq(CallOf)
  <2>1. \A k \in 1..Len(q) : q[k] \in Emitted
    OBVIOUS
  <2> QED
    BY <2>1 DEF Emitted
<1>e. e.calls \in Seq(CallOf)
  BY DEF Emitted
<1>2. ASSUME NEW k \in 1..Len(q), q[k].type = kind, e.type = kind,
             NEW i \in 1..Len(q[k].calls), NEW j \in 1..Len(e.calls), q[k].calls[i].id = e.calls[j].id
      PROVE  FALSE
  <2>1. In(e.calls, e.calls[j]) /\ e.calls[j] \in CallOf
    BY <1>e DEF In
  <2>2. In(q[k].calls, q[k].calls[i]) /\ q[k].calls[i] \in CallOf
    BY <1>c DEF In
  <2>3. Carried(q, kind, q[k].calls[i])
    BY <2>2, <1>2 DEF Carried
  <2> QED
    BY <2>1, <2>2, <2>3, <1>2
<1> SUFFICES ASSUME NEW k \in 1..Len(q2), NEW l \in 1..Len(q2), q2[k].type = kind, q2[l].type = kind,
                    NEW i \in 1..Len(q2[k].calls), NEW j \in 1..Len(q2[l].calls),
                    q2[k].calls[i].id = q2[l].calls[j].id
             PROVE  k = l /\ i = j
  BY DEF Once
<1>3. CASE k \in 1..Len(q) /\ l \in 1..Len(q)
  BY <1>3, <1>1 DEF Once
<1>4. CASE k \in 1..Len(q) /\ l = Len(q) + 1
  BY <1>4, <1>1, <1>2
<1>5. CASE l \in 1..Len(q) /\ k = Len(q) + 1
  BY <1>5, <1>1, <1>2
<1>6. CASE k = Len(q) + 1 /\ l = Len(q) + 1
  BY <1>6, <1>1 DEF Distinct
<1> QED
  BY <1>1, <1>3, <1>4, <1>5, <1>6

\* The calls of the first event have ids of their own.
LEMMA FirstIsApart ==
  ASSUME NEW q \in Seq(Emitted), q # <<>>, NEW q2, q2 = Tail(q), NEW kind, Once(q, kind),
         q[1].type = kind
  PROVE  \A c, d \in CallOf : In(q[1].calls, c) /\ Carried(q2, kind, d) => c.id # d.id
<1>0. /\ \A k \in 1..Len(q2) : q2[k] = q[k + 1] /\ k + 1 \in 1..Len(q)
      /\ 1 \in 1..Len(q)
  OBVIOUS
<1> SUFFICES ASSUME NEW c \in CallOf, NEW d \in CallOf, In(q[1].calls, c), Carried(q2, kind, d), c.id = d.id
             PROVE  FALSE
  OBVIOUS
<1>1. PICK i \in 1..Len(q[1].calls) : q[1].calls[i] = c
  BY DEF In
<1>2. PICK l \in 1..Len(q2) : q2[l].type = kind /\ In(q2[l].calls, d)
  BY DEF Carried
<1>3. PICK j \in 1..Len(q2[l].calls) : q2[l].calls[j] = d
  BY <1>2 DEF In
<1>4. l + 1 \in 1..Len(q) /\ q2[l] = q[l + 1] /\ l + 1 # 1
  BY <1>0
<1>5. q[1].calls[i].id = q[l + 1].calls[j].id
  BY <1>1, <1>3, <1>4
<1>6. 1 = l + 1
  BY <1>2, <1>4, <1>5, <1>0 DEF Once
<1> QED
  BY <1>4, <1>6

\* The first event gone.
LEMMA QueueShrinks ==
  ASSUME NEW q \in Seq(Emitted), q # <<>>, NEW q2, q2 = Tail(q)
  PROVE  /\ q2 \in Seq(Emitted) /\ Len(q2) \in Nat /\ Len(q) = Len(q2) + 1 /\ q[1] \in Emitted
         /\ \A k \in 1..Len(q2) : q2[k] = q[k + 1] /\ k + 1 \in 1..Len(q)
         /\ \A kind, c : Carried(q, kind, c) <=> Carried(q2, kind, c) \/ (q[1].type = kind /\ In(q[1].calls, c))
         /\ \A k \in 1..Len(q2) : \A c : Before(q, k + 1, "model", c) <=>
              Before(q2, k, "model", c) \/ (q[1].type = "model" /\ In(q[1].calls, c))
         /\ \A kind : Once(q, kind) =>
              /\ Once(q2, kind)
              /\ q[1].type = kind => Distinct(q[1].calls)
<1>1. /\ q2 \in Seq(Emitted) /\ Len(q2) \in Nat /\ Len(q) = Len(q2) + 1 /\ q[1] \in Emitted
      /\ \A k \in 1..Len(q2) : q2[k] = q[k + 1] /\ k + 1 \in 1..Len(q)
      /\ \A k \in 1..Len(q) : k = 1 \/ (k - 1 \in 1..Len(q2) /\ q[k] = q2[k - 1])
      /\ 1 \in 1..Len(q)
  OBVIOUS
<1>2. ASSUME NEW kind, NEW c
      PROVE  Carried(q, kind, c) <=> Carried(q2, kind, c) \/ (q[1].type = kind /\ In(q[1].calls, c))
  BY <1>1 DEF Carried
<1>3. ASSUME NEW k \in 1..Len(q2), NEW c
      PROVE  Before(q, k + 1, "model", c) <=>
               Before(q2, k, "model", c) \/ (q[1].type = "model" /\ In(q[1].calls, c))
  <2>1. \A l \in 1..((k + 1) - 1) : l = 1 \/ (l - 1 \in 1..(k - 1) /\ q[l] = q2[l - 1])
    BY <1>1
  <2>2. \A l \in 1..(k - 1) : l + 1 \in 1..((k + 1) - 1) /\ q2[l] = q[l + 1]
    BY <1>1
  <2>3. 1 \in 1..((k + 1) - 1)
    BY <1>1
  <2> QED
    BY <2>1, <2>2, <2>3, ZenonT(60) DEF Before
<1>4. ASSUME NEW kind, Once(q, kind) PROVE Once(q2, kind)
  <2> SUFFICES ASSUME NEW k \in 1..Len(q2), NEW l \in 1..Len(q2), q2[k].type = kind, q2[l].type = kind,
                      NEW i \in 1..Len(q2[k].calls), NEW j \in 1..Len(q2[l].calls),
                      q2[k].calls[i].id = q2[l].calls[j].id
               PROVE  k = l /\ i = j
    BY DEF Once
  <2>1. k + 1 \in 1..Len(q) /\ l + 1 \in 1..Len(q) /\ q2[k] = q[k + 1] /\ q2[l] = q[l + 1]
    BY <1>1
  <2>2. k + 1 = l + 1 /\ i = j
    BY <2>1, <1>4 DEF Once
  <2> QED
    BY <2>2
<1>5. ASSUME NEW kind, Once(q, kind), q[1].type = kind PROVE Distinct(q[1].calls)
  BY <1>5, <1>1 DEF Once, Distinct
<1>7. ASSUME NEW kind, Once(q, kind)
      PROVE  /\ Once(q2, kind)
             /\ q[1].type = kind => Distinct(q[1].calls)
  BY <1>4, <1>5, <1>7
<1> QED
  BY <1>1, <1>2, <1>3, <1>7

\* What a selection of calls has.
LEMMA Picked ==
  ASSUME NEW T, NEW s \in Seq(T), NEW K \in SUBSET (1..Len(s)), NEW r,
         r = Bot!FlattenSeq([i \in DOMAIN s |-> IF i \in K THEN <<s[i]>> ELSE <<>>])
  PROVE  /\ r \in Seq(T)
         /\ \A x : In(r, x) <=> \E i \in K : s[i] = x
         /\ Distinct(s) => Distinct(r)
<1>1. r \in Seq(T)
  BY SelectionPlaces
<1>2. PICK of : PartOf(r, s, K, of)
  BY SelectionPlaces
<1>3. /\ \A p \in 1..Len(r) : of[p] \in K /\ r[p] = s[of[p]]
      /\ \A i \in K : \E p \in 1..Len(r) : of[p] = i
      /\ \A p, q \in 1..Len(r) : p < q <=> of[p] < of[q]
  BY <1>2 DEF PartOf
<1>4. \A x : In(r, x) <=> \E i \in K : s[i] = x
  <2> TAKE x
  <2>1. ASSUME In(r, x) PROVE \E i \in K : s[i] = x
    <3>1. PICK p \in 1..Len(r) : r[p] = x
      BY <2>1 DEF In
    <3>2. of[p] \in K /\ s[of[p]] = x
      BY <3>1, <1>3
    <3> QED
      BY <3>2
  <2>2. ASSUME NEW i \in K, s[i] = x PROVE In(r, x)
    <3>1. PICK p \in 1..Len(r) : of[p] = i
      BY <1>3
    <3>2. r[p] = x
      BY <3>1, <2>2, <1>3
    <3> QED
      BY <3>2 DEF In
  <2> QED
    BY <2>1, <2>2
<1>5. ASSUME Distinct(s), NEW p \in 1..Len(r), NEW q \in 1..Len(r), r[p].id = r[q].id PROVE p = q
  <2>1. of[p] \in 1..Len(s) /\ of[q] \in 1..Len(s) /\ s[of[p]].id = s[of[q]].id
    BY <1>3, <1>5
  <2>2. of[p] = of[q]
    BY <2>1, <1>5 DEF Distinct
  <2>3. ~(p < q) /\ ~(q < p)
    BY <2>1, <2>2, <1>3
  <2> QED
    BY <2>3
<1> QED
  BY <1>1, <1>4, <1>5 DEF Distinct

\* A place of two sequences put together is one of the first or of the second.
LEMMA JoinedPlaces ==
  ASSUME NEW T, NEW s \in Seq(T), NEW t \in Seq(T), NEW st, st = s \o t
  PROVE  \A i \in 1..Len(st) : i \in 1..Len(s) \/ \E j \in 1..Len(t) : i = Len(s) + j
<1>1. Len(s) \in Nat /\ Len(t) \in Nat /\ Len(st) = Len(s) + Len(t)
  BY Joined
<1> TAKE i \in 1..Len(st)
<1>2. CASE i <= Len(s)
  BY <1>1, <1>2
<1>3. CASE i > Len(s)
  <2>1. i - Len(s) \in 1..Len(t) /\ i = Len(s) + (i - Len(s))
    BY <1>1, <1>3
  <2> QED
    BY <2>1
<1> QED
  BY <1>1, <1>2, <1>3

\* What is in two sequences put together.
LEMMA InJoined ==
  ASSUME NEW T, NEW s \in Seq(T), NEW t \in Seq(T), NEW st, st = s \o t
  PROVE  \A x : In(st, x) <=> In(s, x) \/ In(t, x)
<1>1. /\ \A i \in 1..Len(s) : st[i] = s[i] /\ i \in 1..Len(st)
      /\ \A j \in 1..Len(t) : st[Len(s) + j] = t[j] /\ Len(s) + j \in 1..Len(st)
  BY Joined
<1>2. \A i \in 1..Len(st) : i \in 1..Len(s) \/ \E j \in 1..Len(t) : i = Len(s) + j
  BY JoinedPlaces
<1> SUFFICES ASSUME NEW x PROVE In(st, x) <=> In(s, x) \/ In(t, x)
  OBVIOUS
<1>3. ASSUME In(st, x) PROVE In(s, x) \/ In(t, x)
  <2>1. PICK i \in 1..Len(st) : st[i] = x
    BY <1>3 DEF In
  <2>2. CASE i \in 1..Len(s)
    BY <2>1, <2>2, <1>1 DEF In
  <2>3. ASSUME NEW j \in 1..Len(t), i = Len(s) + j PROVE In(t, x)
    BY <2>1, <2>3, <1>1 DEF In
  <2> QED
    BY <2>2, <2>3, <1>2
<1>4. ASSUME In(s, x) PROVE In(st, x)
  <2>1. PICK i \in 1..Len(s) : s[i] = x
    BY <1>4 DEF In
  <2>2. i \in 1..Len(st) /\ st[i] = x
    BY <2>1, <1>1
  <2> QED
    BY <2>2 DEF In
<1>5. ASSUME In(t, x) PROVE In(st, x)
  <2>1. PICK i \in 1..Len(t) : t[i] = x
    BY <1>5 DEF In
  <2>2. Len(s) + i \in 1..Len(st) /\ st[Len(s) + i] = x
    BY <2>1, <1>1
  <2> QED
    BY <2>2 DEF In
<1> QED
  BY <1>3, <1>4, <1>5

Quiet(t) == \A i \in 1..Len(t) : ~Bot!IsCall(t[i])

\* Other events about the calls make no difference.
LEMMA QuietAround ==
  ASSUME NEW s \in Seq(EventOf), NEW t \in Seq(EventOf), NEW st, st = s \o t
  PROVE  /\ Quiet(s) /\ MayTell(t) => MayTell(st)
         /\ Quiet(t) /\ MayTell(s) => MayTell(st)
         /\ Quiet(s) => \A x : Bot!IsCall(x) => (In(st, x) <=> In(t, x))
         /\ Quiet(t) => \A x : Bot!IsCall(x) => (In(st, x) <=> In(s, x))
         /\ Quiet(s) => MayTell(s)
<1> DEFINE n == Len(s)
           m == Len(t)
<1>1. /\ n \in Nat /\ m \in Nat /\ Len(st) = n + m
      /\ \A i \in 1..n : st[i] = s[i] /\ i \in 1..Len(st)
      /\ \A j \in 1..m : st[n + j] = t[j] /\ n + j \in 1..Len(st)
  BY Joined
<1>2. \A i \in 1..Len(st) : i \in 1..n \/ \E j \in 1..m : i = n + j
  BY Joined
<1>3. /\ Quiet(s) => \A x : Bot!IsCall(x) => ~In(s, x)
      /\ Quiet(t) => \A x : Bot!IsCall(x) => ~In(t, x)
  BY DEF Quiet, In
<1>4. \A x : In(st, x) <=> In(s, x) \/ In(t, x)
  BY InJoined
<1>n. Len(s) = n /\ Len(t) = m
  OBVIOUS
<1> HIDE DEF n, m
<1>5. ASSUME Quiet(s), MayTell(t) PROVE MayTell(st)
  <2> SUFFICES ASSUME NEW i \in 1..Len(st), Bot!IsCall(st[i])
               PROVE  /\ st[i].id \in (since + 1)..used /\ ~IsTold(st[i].id)
                      /\ \A j \in 1..Len(st) : st[j] = st[i] => j = i
                      /\ st[i].type = "TOOL_CALL_RESULT" =>
                           \E j \in 1..(i - 1) : st[j] = Bot!Event("TOOL_CALL", st[i].id)
                      /\ st[i].type = "TOOL_CALL" /\ st[i].id \in ran =>
                           In(st, Bot!Event("TOOL_CALL_RESULT", st[i].id))
    BY DEF MayTell
  <2>1. \A j \in 1..n : ~Bot!IsCall(st[j])
    BY <1>1, <1>5, <1>n DEF Quiet
  <2>2. PICK l \in 1..m : i = n + l
    BY <2>1, <1>2
  <2>3. st[i] = t[l] /\ Bot!IsCall(t[l])
    BY <2>2, <1>1
  <2>4. /\ t[l].id \in (since + 1)..used /\ ~IsTold(t[l].id)
        /\ \A j \in 1..m : t[j] = t[l] => j = l
        /\ t[l].type = "TOOL_CALL" /\ t[l].id \in ran => In(t, Bot!Event("TOOL_CALL_RESULT", t[l].id))
    BY <2>3, <1>5, <1>n DEF MayTell
  <2>5. ASSUME NEW j \in 1..Len(st), st[j] = st[i] PROVE j = i
    <3>1. PICK k \in 1..m : j = n + k
      BY <2>1, <2>5, <1>2, <2>3
    <3>2. t[k] = t[l]
      BY <3>1, <2>5, <2>3, <1>1
    <3> QED
      BY <3>1, <3>2, <2>4, <2>2
  <2>6. ASSUME t[l].type = "TOOL_CALL_RESULT"
        PROVE  \E j \in 1..(i - 1) : st[j] = Bot!Event("TOOL_CALL", t[l].id)
    <3>1. PICK k \in 1..(l - 1) : t[k] = Bot!Event("TOOL_CALL", t[l].id)
      BY <2>6, <2>3, <1>5, <1>n DEF MayTell
    <3>2. k \in 1..m /\ n + k \in 1..(i - 1)
      BY <2>2, <1>1
    <3>3. st[n + k] = t[k]
      BY <3>2, <1>1
    <3> QED
      BY <3>1, <3>2, <3>3
  <2>7. ASSUME t[l].type = "TOOL_CALL", t[l].id \in ran
        PROVE  In(st, Bot!Event("TOOL_CALL_RESULT", t[l].id))
    BY <2>4, <2>7, <1>4
  <2> QED
    BY <2>3, <2>4, <2>5, <2>6, <2>7
<1>6. ASSUME Quiet(t), MayTell(s) PROVE MayTell(st)
  <2> SUFFICES ASSUME NEW i \in 1..Len(st), Bot!IsCall(st[i])
               PROVE  /\ st[i].id \in (since + 1)..used /\ ~IsTold(st[i].id)
                      /\ \A j \in 1..Len(st) : st[j] = st[i] => j = i
                      /\ st[i].type = "TOOL_CALL_RESULT" =>
                           \E j \in 1..(i - 1) : st[j] = Bot!Event("TOOL_CALL", st[i].id)
                      /\ st[i].type = "TOOL_CALL" /\ st[i].id \in ran =>
                           In(st, Bot!Event("TOOL_CALL_RESULT", st[i].id))
    BY DEF MayTell
  <2>1. \A j \in 1..m : ~Bot!IsCall(st[n + j])
    BY <1>1, <1>6, <1>n DEF Quiet
  <2>2. i \in 1..n
    BY <2>1, <1>2
  <2>3. st[i] = s[i] /\ Bot!IsCall(s[i])
    BY <2>2, <1>1
  <2>4. /\ s[i].id \in (since + 1)..used /\ ~IsTold(s[i].id)
        /\ \A j \in 1..n : s[j] = s[i] => j = i
        /\ s[i].type = "TOOL_CALL" /\ s[i].id \in ran => In(s, Bot!Event("TOOL_CALL_RESULT", s[i].id))
    BY <2>2, <2>3, <1>6, <1>n DEF MayTell
  <2>5. ASSUME NEW j \in 1..Len(st), st[j] = st[i] PROVE j = i
    <3>1. j \in 1..n
      BY <2>1, <2>5, <1>2
    <3>2. s[j] = s[i]
      BY <3>1, <2>5, <2>3, <1>1
    <3> QED
      BY <3>1, <3>2, <2>4
  <2>6. ASSUME s[i].type = "TOOL_CALL_RESULT"
        PROVE  \E j \in 1..(i - 1) : st[j] = Bot!Event("TOOL_CALL", s[i].id)
    <3>1. PICK k \in 1..(i - 1) : s[k] = Bot!Event("TOOL_CALL", s[i].id)
      BY <2>6, <2>2, <2>3, <1>6, <1>n DEF MayTell
    <3>2. k \in 1..n
      BY <2>2, <1>1
    <3>3. st[k] = s[k]
      BY <3>2, <1>1
    <3> QED
      BY <3>1, <3>3
  <2>7. ASSUME s[i].type = "TOOL_CALL", s[i].id \in ran
        PROVE  In(st, Bot!Event("TOOL_CALL_RESULT", s[i].id))
    BY <2>4, <2>7, <1>4
  <2> QED
    BY <2>3, <2>4, <2>5, <2>6, <2>7
<1>7. Quiet(s) => MayTell(s)
  BY DEF Quiet, MayTell
<1> QED
  BY <1>3, <1>4, <1>5, <1>6, <1>7

\* What closes a message is about no call.
LEMMA CloseTextIsQuiet ==
  ASSUME NEW c, c = Bot!CloseText
  PROVE  c \in Seq(EventOf) /\ Quiet(c)
<1>1. CASE textOpen
  <2> DEFINE e == Bot!Event("TEXT_MESSAGE_END", 0)
  <2>1. e \in EventOf /\ ~Bot!IsCall(e)
    BY DEF Bot!Event, EventOf, TypesSent, Bot!IsCall
  <2>2. c = <<e>>
    BY <1>1 DEF Bot!CloseText
  <2> HIDE DEF e
  <2>3. c \in Seq(EventOf) /\ Len(c) = 1 /\ c[1] = e
    BY <2>1, <2>2
  <2> QED
    BY <2>1, <2>3 DEF Quiet
<1>2. CASE ~textOpen
  <2>1. c = <<>>
    BY <1>2 DEF Bot!CloseText
  <2> QED
    BY <2>1 DEF Quiet
<1> QED
  BY <1>1, <1>2

-----------------------------------------------------------------------------
(***************************************************************************)
(* The steps of the graph.                                                 *)
(***************************************************************************)

\* Each part of the invariant stays while what it is about does.
LEMMA Unmoved ==
  /\ CallsAreLast /\ UNCHANGED <<calls, used, since, node, sent>> => CallsAreLast'
  /\ ToldIsOfRun /\ UNCHANGED <<sent, since, used, ran, relay>> => ToldIsOfRun'
  /\ Bot!StreamIsWellFormed /\ UNCHANGED <<sent, relay, byHand>> => Bot!StreamIsWellFormed'
  /\ RelayFollows /\ UNCHANGED <<sent, relay, textOpen>> => RelayFollows'
  /\ CallsAreKept /\ UNCHANGED <<relay, since, used, sent, pending, queue>> => CallsAreKept'
  /\ ResultsFollow /\ UNCHANGED <<relay, queue, ran, pending, calls, node, since, sent>> => ResultsFollow'
  /\ FinishedIsOver /\ UNCHANGED <<sent, node>> => FinishedIsOver'
  /\ Bot!FinishedTellsAll /\ UNCHANGED <<sent, since, used, ran>> => Bot!FinishedTellsAll'
  /\ PastIsSound /\ UNCHANGED <<past, used, since, sent, ran>> => PastIsSound'
  /\ GivenIsSound /\ UNCHANGED <<given, node, calls, used, ran>> => GivenIsSound'
<1>1. CallsAreLast /\ UNCHANGED <<calls, used, since, node, sent>> => CallsAreLast'
  BY DEF CallsAreLast, IsTold
<1>2. ToldIsOfRun /\ UNCHANGED <<sent, since, used, ran, relay>> => ToldIsOfRun'
  BY DEF ToldIsOfRun, IsTold, IsAnswered
<1>3. Bot!StreamIsWellFormed /\ UNCHANGED <<sent, relay, byHand>> => Bot!StreamIsWellFormed'
  BY DEF Bot!StreamIsWellFormed, Bot!MessageOpenAt
<1>4. RelayFollows /\ UNCHANGED <<sent, relay, textOpen>> => RelayFollows'
  BY DEF RelayFollows, Bot!MessageOpenAt
<1>5. CallsAreKept /\ UNCHANGED <<relay, since, used, sent, pending, queue>> => CallsAreKept'
  BY DEF CallsAreKept, IsTold
<1>6. ResultsFollow /\ UNCHANGED <<relay, queue, ran, pending, calls, node, since, sent>> => ResultsFollow'
  BY DEF ResultsFollow, IsAnswered
<1>7. FinishedIsOver /\ UNCHANGED <<sent, node>> => FinishedIsOver'
  BY DEF FinishedIsOver
<1>8. Bot!FinishedTellsAll /\ UNCHANGED <<sent, since, used, ran>> => Bot!FinishedTellsAll'
  BY DEF Bot!FinishedTellsAll
<1>9. PastIsSound /\ UNCHANGED <<past, used, since, sent, ran>> => PastIsSound'
  BY DEF PastIsSound, IsTold
<1>10. GivenIsSound /\ UNCHANGED <<given, node, calls, used, ran>> => GivenIsSound'
  BY DEF GivenIsSound
<1> QED
  BY <1>1, <1>2, <1>3, <1>4, <1>5, <1>6, <1>7, <1>8, <1>9, <1>10

\* While the graph goes on its run is not finished.
LEMMA NotFinished ==
  ASSUME FinishedIsOver, node # "end", sent' = sent
  PROVE  FinishedIsOver' /\ Bot!FinishedTellsAll'
  BY DEF FinishedIsOver, Bot!FinishedTellsAll, Bot!Last

\* The model says something.
LEMMA SpeaksKeeps == BotInv /\ Bot!Speaks => BotInv'
<1> SUFFICES ASSUME BotInv, Bot!Speaks PROVE BotInv'
  OBVIOUS
<1> DEFINE e == [type |-> "stream", calls |-> <<>>]
<1>1. /\ node = "answer" /\ spoke' = TRUE
      /\ queue' = IF relay = "on" THEN Append(queue, e) ELSE queue
      /\ UNCHANGED <<given, node, calls, ran, used, relay, textOpen, pending, sent, byHand, since, past>>
  BY DEF Bot!Speaks, Bot!Emits, Bot!Apart, Bot!relayVars
<1>2. e \in Emitted /\ e.type = "stream"
  BY DEF Emitted
<1> HIDE DEF e
<1>3. BotShape'
  BY <1>1, <1>2 DEF BotInv, BotShape
<1>q. queue \in Seq(Emitted)
  BY DEF BotInv, BotShape
<1>4. CallsAreKept'
  <2> SUFFICES ASSUME relay = "on" PROVE CallsAreKept'
    BY <1>1 DEF CallsAreKept
  <2>1. queue' = Append(queue, e)
    BY <1>1
  <2>g. \A kind, c : Carried(queue', kind, c) <=> Carried(queue, kind, c) \/ (e.type = kind /\ In(e.calls, c))
    BY <2>1, <1>q, <1>2, QueueGrows
  <2>2. \A c : Carried(queue', "model", c) <=> Carried(queue, "model", c)
    BY <2>g, <1>2
  <2>3. CallsAreKept /\ Once(queue, "model")
    BY DEF BotInv, CallsAreKept
  <2>4. Once(queue', "model")
    BY <2>1, <2>3, <1>q, <1>2, QueueStaysOnce
  <2> QED
    BY <2>2, <2>3, <2>4, <1>1 DEF CallsAreKept, IsTold
<1>5. ResultsFollow'
  <2> SUFFICES ASSUME relay = "on" PROVE ResultsFollow'
    BY <1>1 DEF ResultsFollow
  <2>1. queue' = Append(queue, e)
    BY <1>1
  <2>2. /\ \A c : Carried(queue', "model", c) <=> Carried(queue, "model", c)
        /\ \A c : Carried(queue', "tools", c) <=> Carried(queue, "tools", c)
    <3>1. \A kind, c : Carried(queue', kind, c) <=> Carried(queue, kind, c) \/ (e.type = kind /\ In(e.calls, c))
      BY <2>1, <1>q, <1>2, QueueGrows
    <3> QED
      BY <3>1, <1>2
  <2>3. ResultsFollow /\ Once(queue, "tools")
    BY DEF BotInv, ResultsFollow
  <2>4. Once(queue', "tools")
    BY <2>1, <2>3, <1>q, <1>2, QueueStaysOnce
  <2>5. ASSUME NEW k \in 1..Len(queue'), queue'[k].type = "tools"
        PROVE  /\ k \in 1..Len(queue) /\ queue'[k] = queue[k]
               /\ \A c : Before(queue', k, "model", c) <=> Before(queue, k, "model", c)
    <3>1. k \in 1..Len(queue) /\ queue'[k] = queue[k]
      BY <2>1, <2>5, <1>q, <1>2, QueueGrows
    <3> QED
      BY <3>1, <2>1, <1>q, <1>2, QueueGrows
  <2> QED
    BY <2>2, <2>3, <2>4, <2>5, <1>1 DEF ResultsFollow, IsAnswered
<1>6. CallsAreLast' /\ ToldIsOfRun' /\ Bot!StreamIsWellFormed' /\ RelayFollows' /\ PastIsSound' /\ GivenIsSound'
  BY <1>1, Unmoved DEF BotInv
<1>7. FinishedIsOver' /\ Bot!FinishedTellsAll'
  BY <1>1, NotFinished DEF BotInv
<1> QED
  BY <1>3, <1>4, <1>5, <1>6, <1>7 DEF BotInv


\* The calls that are made here.
LEMMA OursAre ==
  ASSUME calls \in Seq(CallOf), NEW r, r = Bot!Ours
  PROVE  /\ r \in Seq(CallOf)
         /\ \A c : In(r, c) <=> \E i \in 1..Len(calls) : calls[i].ours /\ calls[i] = c
         /\ Distinct(calls) => Distinct(r)
         /\ Bot!Ids(r) = {calls[i].id : i \in {i \in 1..Len(calls) : calls[i].ours}}
<1> DEFINE K == {i \in 1..Len(calls) : calls[i].ours}
<1>0. DOMAIN calls = 1..Len(calls)
  OBVIOUS
<1>1. r = Bot!FlattenSeq([i \in DOMAIN calls |-> IF i \in K THEN <<calls[i]>> ELSE <<>>])
  <2>1. [i \in DOMAIN calls |-> IF i \in K THEN <<calls[i]>> ELSE <<>>] =
        [i \in DOMAIN calls |-> IF calls[i].ours THEN <<calls[i]>> ELSE <<>>]
    BY <1>0
  <2> QED
    BY <2>1 DEF Bot!Ours, Bot!Those
<1>2. K \in SUBSET (1..Len(calls))
  OBVIOUS
<1> HIDE DEF K
<1>3. /\ r \in Seq(CallOf)
      /\ \A c : In(r, c) <=> \E i \in K : calls[i] = c
      /\ Distinct(calls) => Distinct(r)
  BY <1>1, <1>2, Picked
<1>4. \A c : In(r, c) <=> \E i \in 1..Len(calls) : calls[i].ours /\ calls[i] = c
  BY <1>3 DEF K
<1>5. Bot!Ids(r) = {calls[i].id : i \in {i \in 1..Len(calls) : calls[i].ours}}
  <2>1. Bot!Ids(r) = {r[i].id : i \in 1..Len(r)}
    BY <1>3, SeqIs DEF Bot!Ids
  <2>2. ASSUME NEW x \in Bot!Ids(r) PROVE x \in {calls[i].id : i \in {i \in 1..Len(calls) : calls[i].ours}}
    <3>1. PICK p \in 1..Len(r) : x = r[p].id
      BY <2>1
    <3>2. In(r, r[p])
      BY DEF In
    <3>3. PICK i \in 1..Len(calls) : calls[i].ours /\ calls[i] = r[p]
      BY <3>2, <1>4
    <3> QED
      BY <3>1, <3>3
  <2>3. ASSUME NEW i \in 1..Len(calls), calls[i].ours PROVE calls[i].id \in Bot!Ids(r)
    <3>1. In(r, calls[i])
      BY <2>3, <1>4
    <3>2. PICK p \in 1..Len(r) : r[p] = calls[i]
      BY <3>1 DEF In
    <3> QED
      BY <3>2, <2>1
  <2> QED
    BY <2>2, <2>3
<1> QED
  BY <1>3, <1>4, <1>5

\* The graph gives up.
LEMMA FailsKeeps == BotInv /\ Bot!Fails => BotInv'
<1> SUFFICES ASSUME BotInv, Bot!Fails PROVE BotInv'
  OBVIOUS
<1>1. /\ node' = "failed" /\ node \in {"answer", "tools"} /\ (node = "tools" => Bot!Ids(Bot!Ours) \cap ran = {})
      /\ UNCHANGED <<spoke, queue, given, calls, ran, used, relay, textOpen, pending, sent, byHand, since, past>>
  BY DEF Bot!Fails, Bot!Apart, Bot!relayVars
<1>2. BotShape'
  BY <1>1 DEF BotInv, BotShape
<1>3. /\ ToldIsOfRun' /\ Bot!StreamIsWellFormed' /\ RelayFollows' /\ CallsAreKept' /\ PastIsSound'
  BY <1>1, Unmoved DEF BotInv
<1>4. FinishedIsOver' /\ Bot!FinishedTellsAll'
  BY <1>1, NotFinished DEF BotInv
<1>5. CallsAreLast'
  BY <1>1 DEF BotInv, CallsAreLast
<1>6. GivenIsSound'
  BY <1>1 DEF BotInv, GivenIsSound
<1>7. ASSUME node = "tools", NEW n \in ran PROVE ~HasId(calls, n)
  <2>1. calls \in Seq(CallOf) /\ \A i \in 1..Len(calls) : calls[i].ours
    BY <1>7 DEF BotInv, BotShape, CallsAreLast
  <2>2. \A i \in 1..Len(calls) : calls[i].id \in Bot!Ids(Bot!Ours)
    BY <2>1, OursAre
  <2> QED
    BY <2>2, <1>1, <1>7 DEF HasId
<1>8. ResultsFollow'
  BY <1>1, <1>7 DEF BotInv, ResultsFollow, IsAnswered
<1> QED
  BY <1>2, <1>3, <1>4, <1>5, <1>6, <1>8 DEF BotInv

\* A call is made: its result is owed, to the surface too if it was told of it before.
LEMMA CallToolKeeps == BotInv /\ (\E i \in DOMAIN calls : Bot!CallTool(calls[i])) => BotInv'
<1> SUFFICES ASSUME BotInv, NEW i \in DOMAIN calls, Bot!CallTool(calls[i]) PROVE BotInv'
  OBVIOUS
<1> DEFINE c == calls[i]
<1>1. /\ node = "tools" /\ ran' = ran \cup {c.id}
      /\ UNCHANGED <<spoke, node, queue, given, calls, used, relay, textOpen, pending, sent, byHand, since, past>>
  BY DEF Bot!CallTool, Bot!Apart, Bot!relayVars
<1>0. /\ calls \in Seq(CallOf) /\ used \in Nat /\ since \in Nat /\ i \in 1..Len(calls)
      /\ Len(calls) \in Nat /\ c \in CallOf
  BY DEF BotInv, BotShape
<1>2. c.id \in (since + 1)..used /\ ~IsTold(c.id) /\ HasId(calls, c.id)
  <2>1. c.id = (used - Len(calls)) + i /\ used - Len(calls) >= since /\ ~IsTold(c.id)
    BY <1>0, <1>1 DEF BotInv, CallsAreLast
  <2> QED
    BY <2>1, <1>0 DEF HasId
<1> HIDE DEF c
<1>3. BotShape'
  <2>0. ran \subseteq 1..used
    BY DEF BotInv, BotShape
  <2>a. c.id \in 1..used
    BY <1>2, <1>0
  <2>b. ran' = ran \cup {c.id}
    BY <1>1
  <2>1. ran' \subseteq 1..used
    BY <2>0, <2>a, <2>b
  <2> QED
    BY <1>1, <2>1 DEF BotInv, BotShape
<1>4. /\ CallsAreLast' /\ Bot!StreamIsWellFormed' /\ RelayFollows' /\ CallsAreKept'
  BY <1>1, Unmoved DEF BotInv
<1>5. FinishedIsOver' /\ Bot!FinishedTellsAll'
  BY <1>1, NotFinished DEF BotInv
<1>6. ToldIsOfRun'
  BY <1>1 DEF BotInv, ToldIsOfRun, IsTold, IsAnswered
<1>7. ResultsFollow'
  BY <1>1, <1>2 DEF BotInv, ResultsFollow, IsAnswered
<1>8. PastIsSound'
  <2>1. \A j \in 1..Len(past) : past[j].id # c.id
    BY <1>2, <1>0 DEF BotInv, PastIsSound
  <2>2. \A j \in 1..Len(past) : Stands(past, j, ran) => Stands(past, j, ran')
    BY <2>1, <1>1 DEF Stands
  <2> QED
    BY <2>2, <1>1 DEF BotInv, PastIsSound, IsTold
<1>9. GivenIsSound'
  <2>1. ASSUME NEW j \in 1..Len(given), given[j].role = "assistant"
        PROVE  IF HasId(calls, given[j].id)
               THEN \A k \in 1..Len(given) : given[k].id = given[j].id => k = j
               ELSE AnsweredIn(given, j, ran')
    <3>1. CASE HasId(calls, given[j].id)
      BY <3>1, <2>1, <1>1 DEF BotInv, GivenIsSound
    <3>2. CASE ~HasId(calls, given[j].id)
      <4>1. AnsweredIn(given, j, ran)
        BY <3>2, <2>1, <1>1 DEF BotInv, GivenIsSound
      <4>2. given[j].id # c.id
        BY <3>2, <1>2
      <4>3. AnsweredIn(given, j, ran')
        BY <4>1, <4>2, <1>1 DEF AnsweredIn
      <4> QED
        BY <3>2, <4>3
    <3> QED
      BY <3>1, <3>2
  <2> QED
    BY <2>1, <1>1 DEF BotInv, GivenIsSound
<1> QED
  BY <1>3, <1>4, <1>5, <1>6, <1>7, <1>8, <1>9 DEF BotInv

\* What was told in this run is a call of this run.
LEMMA ToldWithin ==
  ASSUME BotShape, ToldIsOfRun, NEW n, IsTold(n) \/ IsAnswered(n)
  PROVE  n \in (since + 1)..used
<1>1. \A p \in 1..Len(sent) : Bot!IsCall(sent[p]) => sent[p].id \in (since + 1)..used
  BY SeqIs DEF BotShape, ToldIsOfRun
<1>2. PICK p \in 1..Len(sent) : \/ sent[p] = Bot!Event("TOOL_CALL", n)
                                \/ sent[p] = Bot!Event("TOOL_CALL_RESULT", n)
  BY DEF IsTold, IsAnswered, In
<1>3. Bot!IsCall(sent[p]) /\ sent[p].id = n
  BY <1>2 DEF Bot!IsCall, Bot!Event
<1> QED
  BY <1>1, <1>3

\* A call that was answered stays so when messages about others follow.
LEMMA AnsweredGrows ==
  ASSUME NEW s \in Seq(MessageOf), NEW t \in Seq(MessageOf), NEW i \in 1..Len(s), NEW made,
         AnsweredIn(s, i, made), \A j \in 1..Len(t) : t[j].id # s[i].id, NEW st, st = s \o t
  PROVE  AnsweredIn(st, i, made)
<1> DEFINE n == Len(s)
           m == Len(t)
<1>1. /\ n \in Nat /\ m \in Nat
      /\ \A j \in 1..n : st[j] = s[j] /\ j \in 1..Len(st)
      /\ \A j \in 1..m : st[n + j] = t[j]
  BY Joined
<1>2. \A j \in 1..Len(st) : j \in 1..n \/ \E l \in 1..m : j = n + l
  <2>1. \A j \in 1..Len(st) : j \in 1..Len(s) \/ \E l \in 1..Len(t) : j = Len(s) + l
    <3>1. s \in Seq(MessageOf) /\ t \in Seq(MessageOf) /\ st = s \o t
      OBVIOUS
    <3> QED
      BY ONLY <3>1, JoinedPlaces
  <2> QED
    BY <2>1
<1>3. PICK k \in 1..n :
        /\ k > i /\ s[k].role = "tool" /\ s[k].id = s[i].id /\ (s[i].id \in made => s[k].real)
        /\ \A l \in 1..n : s[l].role = "tool" /\ s[l].id = s[i].id => l = k
  BY DEF AnsweredIn
<1>4. \A j \in 1..n : s[j] = s[i] => j = i
  BY DEF AnsweredIn
<1>5. \A j \in 1..Len(st) : st[j].id = s[i].id => j \in 1..n /\ st[j] = s[j]
  BY <1>1, <1>2
<1>6. st[i] = s[i] /\ st[k] = s[k] /\ k \in 1..Len(st)
  BY <1>1
<1>7. \A j \in 1..Len(st) : st[j] = st[i] => j = i
  BY <1>4, <1>5, <1>6
<1>8. \A l \in 1..Len(st) : st[l].role = "tool" /\ st[l].id = st[i].id => l = k
  BY <1>3, <1>5, <1>6
<1> QED
  BY <1>3, <1>6, <1>7, <1>8 DEF AnsweredIn

\* The messages of calls.
LEMMA MessagesAre ==
  ASSUME NEW cs \in Seq(CallOf), NEW kind \in {"assistant", "tool"}, NEW ms, ms = Bot!Messages(kind, cs)
  PROVE  /\ ms \in Seq(MessageOf) /\ Len(ms) = Len(cs) /\ Len(ms) \in Nat
         /\ \A i \in 1..Len(cs) : ms[i].id = cs[i].id /\ ms[i].role = kind /\ ms[i].real
<1>1. DOMAIN cs = 1..Len(cs) /\ Len(cs) \in Nat /\ \A i \in 1..Len(cs) : cs[i] \in CallOf
  BY SeqIs
<1>2. ms = [i \in 1..Len(cs) |-> Bot!Message(kind, cs[i].id)]
  BY <1>1 DEF Bot!Messages
<1>3. \A i \in 1..Len(cs) : Bot!Message(kind, cs[i].id) \in MessageOf
  BY <1>1 DEF Bot!Message, MessageOf, CallOf
<1>4. ms \in [1..Len(cs) -> MessageOf]
  BY <1>2, <1>3
<1>5. \A i \in 1..Len(cs) : ms[i] = Bot!Message(kind, cs[i].id)
  BY <1>2
<1>6. ms \in Seq(MessageOf) /\ Len(ms) = Len(cs)
  BY <1>1, <1>4, IsSeq
<1>7. \A i \in 1..Len(cs) : ms[i].id = cs[i].id /\ ms[i].role = kind /\ ms[i].real
  <2> TAKE i \in 1..Len(cs)
  <2>1. ms[i] = Bot!Message(kind, cs[i].id)
    BY <1>5
  <2>2. \A x, y : /\ Bot!Message(x, y).id = y /\ Bot!Message(x, y).role = x
                 /\ Bot!Message(x, y).real
    BY DEF Bot!Message
  <2> QED
    BY <2>1, <2>2
<1> QED
  BY <1>1, <1>6, <1>7

\* The model answers: its calls get new ids.
LEMMA AnswerKeeps == BotInv /\ Bot!Answer => BotInv'
<1> SUFFICES ASSUME BotInv, Bot!Answer PROVE BotInv'
  OBVIOUS
<1> DEFINE cs == calls'
           e == [type |-> "model", calls |-> cs]
           ms == Bot!Messages("assistant", cs)
<1>n. PICK n \in 0..2 : \E ours \in [1..n -> IF byHand THEN {FALSE} ELSE BOOLEAN] :
        /\ cs = [i \in 1..n |-> [id |-> used + i, ours |-> ours[i]]]
        /\ used' = used + n
  BY DEF Bot!Answer
<1>1. PICK ours \in [1..n -> IF byHand THEN {FALSE} ELSE BOOLEAN] :
        /\ cs = [i \in 1..n |-> [id |-> used + i, ours |-> ours[i]]]
        /\ used' = used + n
  BY <1>n
<1>2. /\ node = "answer" /\ node' = Bot!After(cs) /\ spoke' = FALSE
      /\ given' = given \o ms
      /\ queue' = IF relay = "on" THEN Append(queue, e) ELSE queue
      /\ UNCHANGED <<ran, relay, textOpen, pending, sent, byHand, since, past>>
  BY DEF Bot!Answer, Bot!Emits, Bot!Apart, Bot!relayVars
<1>0. /\ used \in Nat /\ since \in Nat /\ since <= used /\ queue \in Seq(Emitted) /\ ran \subseteq 1..used
      /\ given \in Seq(MessageOf) /\ n \in Nat /\ used' \in Nat /\ used <= used' /\ pending \in Seq(CallOf)
  BY <1>1 DEF BotInv, BotShape
<1>3. /\ cs \in Seq(CallOf) /\ Len(cs) = n
      /\ \A i \in 1..n : cs[i].id = used + i /\ cs[i] \in CallOf
  <2>1. \A i \in 1..n : ours[i] \in BOOLEAN
    BY <1>1
  <2>2. \A i \in 1..n : used + i \in Nat
    BY <1>0
  <2>3. \A i \in 1..n : [id |-> used + i, ours |-> ours[i]] \in CallOf
    BY <2>1, <2>2 DEF CallOf
  <2>4. cs \in [1..n -> CallOf]
    BY <1>1, <2>3
  <2>5. cs \in Seq(CallOf) /\ Len(cs) = n
    BY <2>4, <1>0, IsSeq
  <2> QED
    BY <1>1, <2>5, <2>3
<1>4. node' \in {"tools", "end"} /\ (node' = "tools" => \A i \in 1..n : cs[i].ours)
  <2>1. DOMAIN cs = 1..n
    BY <1>1
  <2> QED
    BY <2>1, <1>2 DEF Bot!After, Bot!CallsTheSurface
<1>5. /\ ms \in Seq(MessageOf) /\ Len(ms) = n
      /\ \A i \in 1..n : ms[i].id = used + i /\ ms[i].role = "assistant"
  BY <1>3, MessagesAre
<1> HIDE DEF ms
<1>6. e \in Emitted /\ e.type = "model" /\ e.calls = cs
  BY <1>3 DEF Emitted
<1>c. calls' = cs
  OBVIOUS
<1> HIDE DEF e, cs
<1>7. BotShape'
  <2>1. queue' \in Seq(Emitted)
    BY <1>0, <1>2, <1>6
  <2>2. given' \in Seq(MessageOf)
    BY <1>0, <1>2, <1>5
  <2>3. ran' \subseteq 1..used' /\ since' <= used'
    BY <1>0, <1>2
  <2>4. Bot!Ids(pending)' \subseteq 1..used'
    <3>1. Bot!Ids(pending)' = Bot!Ids(pending)
      BY <1>2 DEF Bot!Ids
    <3>2. Bot!Ids(pending) \subseteq 1..used
      BY DEF BotInv, BotShape
    <3>3. 1..used \subseteq 1..used'
      BY <1>0
    <3> QED
      BY <3>1, <3>2, <3>3
  <2>5. node' \in {"none", "answer", "tools", "end", "failed"}
    BY <1>4
  <2> QED
    BY <2>1, <2>2, <2>3, <2>4, <2>5, <1>0, <1>2, <1>3, <1>c DEF BotInv, BotShape
<1>8. \A i \in 1..n : ~IsTold(used + i)
  BY <1>0, ToldWithin DEF BotInv
<1>9. CallsAreLast'
  <2>1. \A i \in 1..Len(cs) : cs[i].id = (used' - Len(cs)) + i
    BY <1>0, <1>1, <1>3
  <2>2. used' - Len(cs) >= since
    BY <1>0, <1>1, <1>3
  <2>3. node' = "tools" => \A i \in 1..Len(cs) : cs[i].ours /\ ~IsTold(cs[i].id)
    BY <1>3, <1>4, <1>8
  <2> QED
    BY <2>1, <2>2, <2>3, <1>2, <1>c DEF CallsAreLast, IsTold
<1>10. ToldIsOfRun'
  <2>1. \A x \in (since + 1)..used' : IsTold(x) \/ IsAnswered(x) => x \in (since + 1)..used
    BY ToldWithin DEF BotInv
  <2>2. \A p \in DOMAIN sent : Bot!IsCall(sent[p]) => sent[p].id \in (since + 1)..used
    BY DEF BotInv, ToldIsOfRun
  <2>3. \A x \in (since + 1)..used : x \in (since + 1)..used'
    BY <1>0
  <2>4. \A x \in (since + 1)..used' : IsAnswered(x) => x \in ran
    BY <2>1 DEF BotInv, ToldIsOfRun
  <2>5. relay = "on" => \A x \in (since + 1)..used' : IsTold(x) => IsAnswered(x)
    BY <2>1 DEF BotInv, ToldIsOfRun
  <2> QED
    BY <2>2, <2>3, <2>4, <2>5, <1>2 DEF ToldIsOfRun, IsTold, IsAnswered
<1>11. Bot!StreamIsWellFormed' /\ RelayFollows'
  BY <1>2, Unmoved DEF BotInv
<1>12. FinishedIsOver' /\ Bot!FinishedTellsAll'
  BY <1>2, NotFinished DEF BotInv
<1>13. PastIsSound'
  <2>1. \A i \in 1..Len(past) : past[i].id \in 1..used'
    BY <1>0 DEF BotInv, PastIsSound
  <2> QED
    BY <2>1, <1>2 DEF BotInv, PastIsSound, IsTold
<1>14. \A c : In(cs, c) <=> \E i \in 1..n : cs[i] = c
  BY <1>3 DEF In
<1>15. ASSUME relay = "on" PROVE CallsAreKept'
  <2>1. queue' = Append(queue, e)
    BY <1>2, <1>15
  <2>2. \A kind, c : Carried(queue', kind, c) <=> Carried(queue, kind, c) \/ (e.type = kind /\ In(e.calls, c))
    BY <2>1, <1>0, <1>6, QueueGrows
  <2>3. \A c : Carried(queue', "model", c) <=> Carried(queue, "model", c) \/ In(cs, c)
    BY <2>2, <1>6
  <2>4. /\ \A x \in (since + 1)..used : IsTold(x)
              \/ \E c \in CallOf : c.id = x /\ (In(pending, c) \/ Carried(queue, "model", c))
        /\ Distinct(pending) /\ Once(queue, "model")
        /\ \A c \in CallOf : In(pending, c) \/ Carried(queue, "model", c) =>
             c.id \in (since + 1)..used /\ ~IsTold(c.id)
        /\ \A c, d \in CallOf : In(pending, c) /\ Carried(queue, "model", d) => c.id # d.id
    BY <1>15 DEF BotInv, CallsAreKept
  <2>5. \A c \in CallOf : In(cs, c) => c.id > used /\ c.id \in (since + 1)..used' /\ ~IsTold(c.id)
    <3> TAKE c \in CallOf
    <3> HAVE In(cs, c)
    <3>1. PICK i \in 1..n : cs[i] = c
      BY <1>14
    <3>2. c.id = used + i /\ ~IsTold(used + i)
      BY <3>1, <1>3, <1>8
    <3>3. used' = used + n
      BY <1>1
    <3> QED
      BY <3>2, <3>3, <1>0
  <2>6. Once(queue', "model")
    <3>1. Distinct(cs)
      BY <1>3, <1>0 DEF Distinct
    <3>2. \A c, d \in CallOf : In(cs, c) /\ Carried(queue, "model", d) => c.id # d.id
      BY <2>4, <2>5, <1>0
    <3> QED
      BY <2>1, <2>4, <3>1, <3>2, <1>0, <1>6, QueueStaysOnce
  <2>7. \A x \in (since + 1)..used' : IsTold(x)
              \/ \E c \in CallOf : c.id = x /\ (In(pending, c) \/ Carried(queue', "model", c))
    <3> TAKE x \in (since + 1)..used'
    <3>1. CASE x \in (since + 1)..used
      BY <3>1, <2>4, <2>3
    <3>2. CASE x > used
      <4>1. x - used \in 1..n
        BY <3>2, <1>0, <1>1
      <4>2. cs[x - used].id = x /\ cs[x - used] \in CallOf /\ In(cs, cs[x - used])
        BY <4>1, <1>0, <1>3, <1>14
      <4> QED
        BY <4>2, <2>3
    <3> QED
      BY <3>1, <3>2, <1>0
  <2>8. \A c \in CallOf : In(pending, c) \/ Carried(queue', "model", c) =>
             c.id \in (since + 1)..used' /\ ~IsTold(c.id)
    <3>1. \A c \in CallOf : c.id \in (since + 1)..used => c.id \in (since + 1)..used'
      BY <1>0
    <3> QED
      BY <3>1, <2>3, <2>4, <2>5
  <2>9. \A c, d \in CallOf : In(pending, c) /\ Carried(queue', "model", d) => c.id # d.id
    <3>1. \A c, d \in CallOf : In(pending, c) /\ In(cs, d) => c.id # d.id
      BY <2>4, <2>5, <1>0
    <3> QED
      BY <3>1, <2>3, <2>4
  <2> QED
    BY <2>4, <2>6, <2>7, <2>8, <2>9, <1>2 DEF CallsAreKept, IsTold
<1>16. ASSUME relay = "on" PROVE ResultsFollow'
  <2>1. queue' = Append(queue, e)
    BY <1>2, <1>16
  <2>2. \A kind, c : Carried(queue', kind, c) <=> Carried(queue, kind, c) \/ (e.type = kind /\ In(e.calls, c))
    BY <2>1, <1>0, <1>6, QueueGrows
  <2>3. /\ \A c : Carried(queue', "model", c) <=> Carried(queue, "model", c) \/ In(cs, c)
        /\ \A c : Carried(queue', "tools", c) <=> Carried(queue, "tools", c)
    BY <2>2, <1>6
  <2>4. /\ Once(queue, "tools")
        /\ \A k \in 1..Len(queue) : queue[k].type = "tools" => \A c \in CallOf : In(queue[k].calls, c) =>
             c.id \in ran /\ (In(pending, c) \/ Before(queue, k, "model", c))
        /\ \A x \in ran : x > since =>
             IsAnswered(x) \/ \E c \in CallOf : c.id = x /\ Carried(queue, "tools", c)
    BY <1>16, <1>2 DEF BotInv, ResultsFollow
  <2>5. Once(queue', "tools")
    BY <2>1, <2>4, <1>0, <1>6, QueueStaysOnce
  <2>6. ASSUME NEW k \in 1..Len(queue'), queue'[k].type = "tools"
        PROVE  /\ k \in 1..Len(queue) /\ queue'[k] = queue[k]
               /\ \A c : Before(queue', k, "model", c) <=> Before(queue, k, "model", c)
    <3>1. k \in 1..Len(queue) /\ queue'[k] = queue[k]
      BY <2>1, <2>6, <1>0, <1>6, QueueGrows
    <3> QED
      BY <3>1, <2>1, <1>0, <1>6, QueueGrows
  <2>7. \A x \in ran : ~HasId(cs, x)
    BY <1>0, <1>3 DEF HasId
  <2>8. \A i \in 1..Len(cs) : Carried(queue', "model", cs[i])
    BY <2>3, <1>3, <1>14
  <2>9. \A k \in 1..Len(queue') : queue'[k].type = "tools" => \A c \in CallOf : In(queue'[k].calls, c) =>
             /\ c.id \in ran /\ (In(pending, c) \/ Before(queue', k, "model", c))
             /\ ~HasId(cs, c.id)
    BY <2>4, <2>6, <2>7
  <2>10. \A x \in ran : x > since =>
             IsAnswered(x) \/ \E c \in CallOf : c.id = x /\ Carried(queue', "tools", c)
    BY <2>3, <2>4
  <2> QED
    BY <2>5, <2>8, <2>9, <2>10, <1>2, <1>c DEF ResultsFollow, IsAnswered
<1>17. GivenIsSound'
  <2> DEFINE k == Len(given)
             g == given'
  <2>1. /\ k \in Nat /\ Len(g) = k + n
        /\ \A i \in 1..k : g[i] = given[i] /\ i \in 1..Len(g)
        /\ \A j \in 1..n : g[k + j] = ms[j] /\ k + j \in 1..Len(g)
    BY <1>0, <1>2, <1>5, Joined
  <2>2. \A i \in 1..Len(g) : i \in 1..k \/ \E j \in 1..n : i = k + j
    BY <1>0, <1>2, <1>5, Joined
  <2>3. \A i \in 1..k : given[i].id \in 1..used
    BY DEF BotInv, GivenIsSound
  <2> HIDE DEF k, g
  <2>4. \A i \in 1..k : \A j \in 1..n : given[i].id # ms[j].id
    BY <2>3, <1>5, <1>0
  <2>5. \A i \in 1..Len(g) : g[i].id \in 1..used'
    <3> TAKE i \in 1..Len(g)
    <3>0. used' = used + n
      BY <1>1
    <3>1. CASE i \in 1..k
      <4>1. g[i] = given[i] /\ given[i].id \in 1..used
        BY <3>1, <2>1, <2>3
      <4> QED
        BY <4>1, <3>0, <1>0
    <3>2. ASSUME NEW j \in 1..n, i = k + j PROVE g[i].id \in 1..used'
      <4>1. g[i].id = used + j
        BY <3>2, <2>1, <1>5
      <4> QED
        BY <4>1, <3>0, <1>0
    <3> QED
      BY <3>1, <3>2, <2>2
  <2>6. ASSUME NEW i \in 1..k, given[i].role = "assistant"
        PROVE  ~HasId(cs, given[i].id) /\ AnsweredIn(g, i, ran)
    <3>1. ~HasId(cs, given[i].id)
      BY <2>3, <1>0, <1>3 DEF HasId
    <3>2. AnsweredIn(given, i, ran)
      BY <2>6, <1>2 DEF BotInv, GivenIsSound, k
    <3>3. \A j \in 1..Len(ms) : ms[j].id # given[i].id
      BY <2>4, <1>5
    <3>4. AnsweredIn(g, i, ran)
      BY <3>2, <3>3, <1>0, <1>2, <1>5, AnsweredGrows DEF g, k
    <3> QED
      BY <3>1, <3>4
  <2>7. ASSUME NEW l \in 1..n
        PROVE  HasId(cs, ms[l].id) /\ \A j \in 1..Len(g) : g[j].id = ms[l].id => j = k + l
    <3>1. HasId(cs, ms[l].id)
      BY <1>3, <1>5 DEF HasId
    <3>2. ASSUME NEW j \in 1..Len(g), g[j].id = ms[l].id PROVE j = k + l
      <4>1. j \notin 1..k
        BY <3>2, <2>1, <2>4
      <4>2. PICK m \in 1..n : j = k + m
        BY <4>1, <2>2
      <4>3. ms[m].id = ms[l].id
        BY <4>2, <3>2, <2>1
      <4>4. m = l
        BY <4>3, <1>5, <1>0
      <4> QED
        BY <4>2, <4>4
    <3> QED
      BY <3>1, <3>2
  <2>8. ASSUME NEW i \in 1..Len(g), g[i].role = "assistant"
        PROVE  IF HasId(cs, g[i].id)
               THEN \A j \in 1..Len(g) : g[j].id = g[i].id => j = i
               ELSE AnsweredIn(g, i, ran)
    <3>1. CASE i \in 1..k
      BY <3>1, <2>1, <2>6, <2>8
    <3>2. ASSUME NEW l \in 1..n, i = k + l
          PROVE  HasId(cs, g[i].id) /\ \A j \in 1..Len(g) : g[j].id = g[i].id => j = i
      BY <3>2, <2>1, <2>7
    <3> QED
      BY <3>1, <3>2, <2>2
  <2> QED
    BY <2>5, <2>8, <1>2, <1>4, <1>c DEF GivenIsSound, g
<1>18. CallsAreKept' /\ ResultsFollow'
  BY <1>2, <1>15, <1>16 DEF CallsAreKept, ResultsFollow
<1> QED
  BY <1>7, <1>9, <1>10, <1>11, <1>12, <1>13, <1>17, <1>18 DEF BotInv

\* The calls of the last answer have ids of their own, of this run.
LEMMA CallsAreDistinct ==
  ASSUME BotShape, CallsAreLast
  PROVE  Distinct(calls) /\ Len(calls) \in Nat /\ \A i \in 1..Len(calls) : calls[i].id \in (since + 1)..used
<1>1. Len(calls) \in Nat /\ used \in Nat /\ since \in Nat /\ since <= used
  BY DEF BotShape
<1>2. /\ \A i \in 1..Len(calls) : calls[i].id = (used - Len(calls)) + i
      /\ used - Len(calls) >= since
  BY DEF CallsAreLast
<1> QED
  BY <1>1, <1>2 DEF Distinct

\* The tools have run: each call gets its answer.
LEMMA ToolsEndKeeps == BotInv /\ Bot!ToolsEnd => BotInv'
<1> SUFFICES ASSUME BotInv, Bot!ToolsEnd PROVE BotInv'
  OBVIOUS
<1> DEFINE cs == Bot!Ours
           e == [type |-> "tools", calls |-> cs]
           ms == Bot!Messages("tool", cs)
<1>1. /\ node = "tools" /\ node' = "answer" /\ Bot!Ids(cs) \subseteq ran
      /\ given' = given \o ms
      /\ queue' = IF relay = "on" THEN Append(queue, e) ELSE queue
      /\ UNCHANGED <<spoke, calls, used, ran, relay, textOpen, pending, sent, byHand, since, past>>
  BY DEF Bot!ToolsEnd, Bot!Emits, Bot!Apart, Bot!relayVars
<1>0. /\ calls \in Seq(CallOf) /\ queue \in Seq(Emitted) /\ given \in Seq(MessageOf) /\ used \in Nat
      /\ \A i \in 1..Len(calls) : calls[i] \in CallOf
  BY SeqIs DEF BotInv, BotShape
<1>2. /\ Distinct(calls) /\ Len(calls) \in Nat
      /\ \A i \in 1..Len(calls) : calls[i].id \in (since + 1)..used /\ calls[i].ours
  BY <1>1, CallsAreDistinct DEF BotInv, CallsAreLast
<1>3. /\ cs \in Seq(CallOf) /\ Distinct(cs)
      /\ \A c : In(cs, c) <=> In(calls, c)
      /\ \A i \in 1..Len(calls) : calls[i].id \in ran
  <2>1. /\ cs \in Seq(CallOf) /\ (Distinct(calls) => Distinct(cs))
        /\ \A c : In(cs, c) <=> \E i \in 1..Len(calls) : calls[i].ours /\ calls[i] = c
        /\ Bot!Ids(cs) = {calls[i].id : i \in {i \in 1..Len(calls) : calls[i].ours}}
    BY <1>0, OursAre
  <2> HIDE DEF cs
  <2>2. \A c : In(cs, c) <=> In(calls, c)
    BY <2>1, <1>2 DEF In
  <2>3. \A i \in 1..Len(calls) : calls[i].id \in Bot!Ids(cs)
    BY <2>1, <1>2
  <2> QED
    BY <2>1, <2>2, <2>3, <1>1, <1>2
<1>4. /\ ms \in Seq(MessageOf) /\ Len(ms) = Len(cs) /\ Len(ms) \in Nat
      /\ \A i \in 1..Len(cs) : ms[i].id = cs[i].id /\ ms[i].role = "tool" /\ ms[i].real
  BY <1>3, MessagesAre
<1> HIDE DEF ms, cs
<1>5. e \in Emitted /\ e.type = "tools" /\ e.calls = cs
  BY <1>3 DEF Emitted
<1> HIDE DEF e
<1>6. BotShape'
  <2>1. queue' \in Seq(Emitted)
    BY <1>0, <1>1, <1>5
  <2>2. given' \in Seq(MessageOf)
    BY <1>0, <1>1, <1>4
  <2> QED
    BY <2>1, <2>2, <1>1 DEF BotInv, BotShape, Bot!Ids
<1>7. CallsAreLast'
  BY <1>1 DEF BotInv, CallsAreLast
<1>8. ToldIsOfRun' /\ Bot!StreamIsWellFormed' /\ RelayFollows' /\ PastIsSound'
  BY <1>1, Unmoved DEF BotInv
<1>9. FinishedIsOver' /\ Bot!FinishedTellsAll'
  BY <1>1, NotFinished DEF BotInv
<1>10. \A c \in CallOf : In(cs, c) => HasId(calls, c.id) /\ In(calls, c) /\ c.id \in ran
  <2> TAKE c \in CallOf
  <2> HAVE In(cs, c)
  <2>1. In(calls, c)
    BY <1>3
  <2>2. PICK i \in 1..Len(calls) : calls[i] = c
    BY <2>1 DEF In
  <2> QED
    BY <2>1, <2>2, <1>3 DEF HasId
<1>11. ASSUME relay = "on" PROVE CallsAreKept' /\ ResultsFollow'
  <2>1. queue' = Append(queue, e)
    BY <1>1, <1>11
  <2>2. \A kind, c : Carried(queue', kind, c) <=> Carried(queue, kind, c) \/ (e.type = kind /\ In(e.calls, c))
    BY <2>1, <1>0, <1>5, QueueGrows
  <2>3. /\ \A c : Carried(queue', "model", c) <=> Carried(queue, "model", c)
        /\ \A c : Carried(queue', "tools", c) <=> Carried(queue, "tools", c) \/ In(cs, c)
    BY <2>2, <1>5
  <2>4. CallsAreKept /\ Once(queue, "model")
    BY <1>11 DEF BotInv, CallsAreKept
  <2>5. Once(queue', "model")
    BY <2>1, <2>4, <1>0, <1>5, QueueStaysOnce
  <2>6. CallsAreKept'
    BY <2>3, <2>4, <2>5, <1>1 DEF CallsAreKept, IsTold
  <2>7. /\ Once(queue, "tools")
        /\ \A k \in 1..Len(queue) : queue[k].type = "tools" => \A c \in CallOf : In(queue[k].calls, c) =>
             c.id \in ran /\ (In(pending, c) \/ Before(queue, k, "model", c)) /\ ~HasId(calls, c.id)
        /\ \A i \in 1..Len(calls) : In(pending, calls[i]) \/ Carried(queue, "model", calls[i])
        /\ \A x \in ran : x > since =>
             IsAnswered(x) \/ HasId(calls, x) \/ \E c \in CallOf : c.id = x /\ Carried(queue, "tools", c)
    BY <1>11, <1>1 DEF BotInv, ResultsFollow
  <2>8. Once(queue', "tools")
    <3>1. ASSUME NEW c \in CallOf, NEW d \in CallOf, In(cs, c), Carried(queue, "tools", d) PROVE c.id # d.id
      <4>1. HasId(calls, c.id)
        BY <3>1, <1>10
      <4>2. PICK k \in 1..Len(queue) : queue[k].type = "tools" /\ In(queue[k].calls, d)
        BY <3>1 DEF Carried
      <4>3. ~HasId(calls, d.id)
        BY <4>2, <2>7
      <4> QED
        BY <4>1, <4>3
    <3> QED
      BY <2>1, <2>7, <3>1, <1>0, <1>3, <1>5, QueueStaysOnce
  <2>9. ASSUME NEW k \in 1..Len(queue'), queue'[k].type = "tools", NEW c \in CallOf, In(queue'[k].calls, c)
        PROVE  c.id \in ran /\ (In(pending, c) \/ Before(queue', k, "model", c))
    <3>1. k \in 1..Len(queue) \/ k = Len(queue) + 1
      BY <2>1, <1>0
    <3>2. CASE k \in 1..Len(queue)
      <4>1. queue'[k] = queue[k] /\ (Before(queue', k, "model", c) <=> Before(queue, k, "model", c))
        <5>1. queue \in Seq(Emitted) /\ e \in Emitted /\ queue' = Append(queue, e)
          BY <2>1, <1>0, <1>5
        <5>2. queue'[k] = queue[k]
          BY ONLY <5>1, <3>2, QueueGrows
        <5>3. \A d : Before(queue', k, "model", d) <=> Before(queue, k, "model", d)
          BY ONLY <5>1, <3>2, QueueGrows
        <5> QED
          BY <5>2, <5>3
      <4> QED
        BY <4>1, <3>2, <2>7, <2>9
    <3>3. CASE k = Len(queue) + 1
      <4>1. queue'[k] = e /\ (Before(queue', k, "model", c) <=> Carried(queue, "model", c))
        BY <3>3, <2>1, <1>0, <1>5, QueueGrows, ZenonT(60)
      <4>2. In(cs, c)
        BY <4>1, <2>9, <1>5
      <4>3. c.id \in ran /\ In(calls, c)
        BY <4>2, <1>10
      <4>4. PICK i \in 1..Len(calls) : calls[i] = c
        BY <4>3 DEF In
      <4> QED
        BY <4>1, <4>3, <4>4, <2>7
    <3> QED
      BY <3>1, <3>2, <3>3
  <2>10. ASSUME NEW x \in ran, x > since
         PROVE  IsAnswered(x) \/ \E c \in CallOf : c.id = x /\ Carried(queue', "tools", c)
    <3>1. CASE HasId(calls, x)
      <4>1. PICK i \in 1..Len(calls) : calls[i].id = x
        BY <3>1 DEF HasId
      <4>2. In(calls, calls[i]) /\ calls[i] \in CallOf
        BY <1>0 DEF In
      <4>3. Carried(queue', "tools", calls[i])
        BY <4>2, <2>3, <1>3
      <4> QED
        BY <4>1, <4>2, <4>3
    <3>2. CASE ~HasId(calls, x)
      BY <3>2, <2>10, <2>7, <2>3
    <3> QED
      BY <3>1, <3>2
  <2>11. ResultsFollow'
    BY <2>8, <2>9, <2>10, <1>1 DEF ResultsFollow, IsAnswered
  <2> QED
    BY <2>6, <2>11
<1>12. GivenIsSound'
  <2> DEFINE k == Len(given)
             n == Len(cs)
             g == given'
  <2>1. /\ k \in Nat /\ Len(g) = k + n
        /\ \A i \in 1..k : g[i] = given[i] /\ i \in 1..Len(g)
        /\ \A j \in 1..n : g[k + j] = ms[j] /\ k + j \in 1..Len(g)
    <3>1. given \in Seq(MessageOf) /\ ms \in Seq(MessageOf) /\ g = given \o ms
      BY <1>0, <1>1, <1>4
    <3> HIDE DEF g
    <3>2. /\ Len(given) \in Nat /\ Len(g) = Len(given) + Len(ms)
          /\ \A i \in 1..Len(given) : g[i] = given[i] /\ i \in 1..Len(g)
          /\ \A j \in 1..Len(ms) : g[Len(given) + j] = ms[j] /\ Len(given) + j \in 1..Len(g)
      BY ONLY <3>1, Joined
    <3> QED
      BY <3>2, <1>4
  <2>2. \A i \in 1..Len(g) : i \in 1..k \/ \E j \in 1..n : i = k + j
    <3>1. \A i \in 1..Len(g) : i \in 1..Len(given) \/ \E j \in 1..Len(ms) : i = Len(given) + j
      <4>1. given \in Seq(MessageOf) /\ ms \in Seq(MessageOf) /\ g = given \o ms
        BY <1>0, <1>1, <1>4
      <4> HIDE DEF g
      <4> QED
        BY ONLY <4>1, JoinedPlaces
    <3> QED
      BY <3>1, <1>4
  <2>n. n \in Nat /\ Len(cs) = n /\ Len(ms) = n /\ Len(given) = k /\ given' = g
    BY <1>4
  <2> HIDE DEF k, g, n
  <2>3. \A i \in 1..k : given[i].id \in 1..used
    BY <2>n DEF BotInv, GivenIsSound
  <2>4. \A j \in 1..n : HasId(calls, ms[j].id) /\ ms[j].id = cs[j].id /\ ms[j].role = "tool" /\ ms[j].real
    <3> TAKE j \in 1..n
    <3>1. ms[j].id = cs[j].id /\ ms[j].role = "tool" /\ ms[j].real
      BY <1>4, <2>n
    <3>2. In(cs, cs[j]) /\ cs[j] \in CallOf
      BY <1>3, <2>n DEF In
    <3> QED
      BY <3>1, <3>2, <1>10
  <2>5. \A i \in 1..Len(g) : g[i].id \in 1..used
    <3> TAKE i \in 1..Len(g)
    <3>1. CASE i \in 1..k
      <4>1. g[i] = given[i] /\ given[i].id \in 1..used
        BY <3>1, <2>1, <2>3
      <4> QED
        BY <4>1
    <3>2. ASSUME NEW j \in 1..n, i = k + j PROVE g[i].id \in 1..used
      <4>1. PICK l \in 1..Len(calls) : calls[l].id = ms[j].id
        BY <2>4 DEF HasId
      <4>2. calls[l].id \in 1..used
        BY <1>2 DEF BotInv, BotShape
      <4> QED
        BY <3>2, <4>1, <4>2, <2>1
    <3> QED
      BY <3>1, <3>2, <2>2
  <2>6. ASSUME NEW i \in 1..k, given[i].role = "assistant", ~HasId(calls, given[i].id)
        PROVE  AnsweredIn(g, i, ran)
    <3>1. AnsweredIn(given, i, ran)
      BY <2>6, <2>n, <1>1 DEF BotInv, GivenIsSound
    <3>2. \A j \in 1..Len(ms) : ms[j].id # given[i].id
      BY <2>4, <2>6, <2>n
    <3>3. given \in Seq(MessageOf) /\ ms \in Seq(MessageOf) /\ i \in 1..Len(given) /\ g = given \o ms
      BY <1>0, <1>1, <1>4, <2>n
    <3> QED
      BY ONLY <3>1, <3>2, <3>3, AnsweredGrows
  <2>7. ASSUME NEW i \in 1..k, given[i].role = "assistant", HasId(calls, given[i].id)
        PROVE  AnsweredIn(g, i, ran)
    <3>1. \A j \in 1..k : given[j].id = given[i].id => j = i
      BY <2>7, <2>n, <1>1 DEF BotInv, GivenIsSound
    <3>2. PICK l \in 1..Len(calls) : calls[l].id = given[i].id
      BY <2>7 DEF HasId
    <3>3. In(cs, calls[l])
      BY <1>3 DEF In
    <3>4. PICK p \in 1..n : cs[p] = calls[l]
      BY <3>3, <2>n DEF In
    <3>5. ms[p].id = given[i].id /\ ms[p].role = "tool" /\ ms[p].real
      BY <3>2, <3>4, <2>4
    <3>6. \A q \in 1..n : ms[q].id = given[i].id => q = p
      BY <3>5, <2>4, <2>n, <1>3 DEF Distinct
    <3>7. g[i] = given[i] /\ g[k + p] = ms[p] /\ k + p \in 1..Len(g) /\ k + p > i
      BY <2>1
    <3>8. \A j \in 1..Len(g) : g[j].id = given[i].id => j = i \/ j = k + p
      <4> TAKE j \in 1..Len(g)
      <4> HAVE g[j].id = given[i].id
      <4>1. CASE j \in 1..k
        BY <4>1, <3>1, <2>1
      <4>2. ASSUME NEW q \in 1..n, j = k + q PROVE j = k + p
        BY <4>2, <3>6, <2>1
      <4> QED
        BY <4>1, <4>2, <2>2
    <3>9. given[i].role # ms[p].role
      BY <2>7, <3>5
    <3>10. \A j \in 1..Len(g) : g[j] = g[i] => j = i
      BY <3>7, <3>8, <3>9
    <3>11. \A j \in 1..Len(g) : g[j].role = "tool" /\ g[j].id = g[i].id => j = k + p
      BY <3>7, <3>8, <2>7
    <3> QED
      BY <3>5, <3>7, <3>10, <3>11 DEF AnsweredIn
  <2>8. ASSUME NEW i \in 1..Len(g), g[i].role = "assistant" PROVE AnsweredIn(g, i, ran)
    <3>1. CASE i \in 1..k
      BY <3>1, <2>1, <2>6, <2>7, <2>8
    <3>2. ASSUME NEW j \in 1..n, i = k + j PROVE FALSE
      BY <3>2, <2>1, <2>4, <2>8
    <3> QED
      BY <3>1, <3>2, <2>2
  <2> QED
    BY <2>5, <2>8, <2>n, <1>1 DEF GivenIsSound
<1>13. CallsAreKept' /\ ResultsFollow'
  BY <1>1, <1>11 DEF CallsAreKept, ResultsFollow
<1> QED
  BY <1>6, <1>7, <1>8, <1>9, <1>12, <1>13 DEF BotInv

-----------------------------------------------------------------------------
(***************************************************************************)
(* What runAgent tells.                                                    *)
(***************************************************************************)

\* While the stream goes on, the run is not finished.
LEMMA GoingIsUnfinished ==
  ASSUME RelayFollows', relay' = "on", sent' \in Seq(EventOf)
  PROVE  FinishedIsOver' /\ Bot!FinishedTellsAll'
<1>1. sent' # <<>> => Len(sent') \in DOMAIN sent'
  OBVIOUS
<1>2. sent' # <<>> => sent'[Len(sent')].type \notin Bot!Closing
  BY <1>1 DEF RelayFollows
<1> QED
  BY <1>2 DEF FinishedIsOver, Bot!FinishedTellsAll, Bot!Closing, Bot!Last

\* What a step that tells calls leaves true.
LEMMA SendKeeps ==
  ASSUME BotInv, relay = "on", NEW t \in Seq(EventOf), MayTell(t), sent' = sent \o t,
         past' = Bot!Kept(Bot!Those(t, Bot!IsCall)),
         UNCHANGED <<node, calls, ran, used, since, given>>,
         \A x : In(t, Bot!Event("TOOL_CALL_RESULT", x)) => x \in ran,
         node = "tools" => \A i \in 1..Len(calls) : ~In(t, Bot!Event("TOOL_CALL", calls[i].id)),
         relay' = "closed" \/ \A x : In(t, Bot!Event("TOOL_CALL", x)) =>
                                       In(t, Bot!Event("TOOL_CALL_RESULT", x))
  PROVE  /\ sent' \in Seq(EventOf) /\ past' \in Seq(MessageOf)
         /\ PastIsSound' /\ CallsAreLast' /\ GivenIsSound' /\ ToldIsOfRun'
<1>0. sent \in Seq(EventOf)
  BY DEF BotInv, BotShape
<1>1. /\ sent' \in Seq(EventOf)
      /\ \A x : In(sent', x) <=> In(sent, x) \/ In(t, x)
  <2>1. sent' \in Seq(EventOf)
    BY <1>0
  <2>2. \A x : In(sent', x) <=> In(sent, x) \/ In(t, x)
    <3>1. t \in Seq(EventOf) /\ sent' = sent \o t
      OBVIOUS
    <3> QED
      BY ONLY <1>0, <3>1, InJoined
  <2> QED
    BY <2>1, <2>2
<1>2. /\ \A n : TellsNow(n) <=> IsTold(n) \/ In(t, Bot!Event("TOOL_CALL", n))
      /\ \A n : IsAnswered(n)' <=> IsAnswered(n) \/ In(t, Bot!Event("TOOL_CALL_RESULT", n))
      /\ \A n : IsTold(n)' <=> TellsNow(n)
  BY <1>1 DEF TellsNow, IsTold, IsAnswered
<1>3. PastIsSound' /\ past' \in Seq(MessageOf)
  <2>1. BotShape /\ PastIsSound
    BY DEF BotInv
  <2> QED
    BY <2>1, <1>2, PastGrows
<1>4. CallsAreLast'
  <2>1. ASSUME node = "tools", NEW i \in 1..Len(calls) PROVE ~TellsNow(calls[i].id)
    BY <2>1, <1>2 DEF BotInv, CallsAreLast
  <2> QED
    BY <2>1 DEF BotInv, CallsAreLast, IsTold, TellsNow
<1>5. GivenIsSound'
  BY Unmoved DEF BotInv
<1>6. ToldIsOfRun'
  <2>1. \A p \in DOMAIN sent' : Bot!IsCall(sent'[p]) => sent'[p].id \in (since + 1)..used
    <3> TAKE p \in DOMAIN sent'
    <3> HAVE Bot!IsCall(sent'[p])
    <3>1. In(sent', sent'[p])
      BY <1>1, SeqIs DEF In
    <3>2. CASE In(sent, sent'[p])
      <4>1. PICK i \in 1..Len(sent) : sent[i] = sent'[p]
        BY <3>2 DEF In
      <4> QED
        BY <4>1, <1>0 DEF BotInv, ToldIsOfRun
    <3>3. CASE In(t, sent'[p])
      <4>1. PICK i \in 1..Len(t) : t[i] = sent'[p]
        BY <3>3 DEF In
      <4> QED
        BY <4>1 DEF MayTell
    <3> QED
      BY <3>1, <3>2, <3>3, <1>1
  <2>2. \A n \in (since + 1)..used : IsAnswered(n)' => n \in ran
    BY <1>2 DEF BotInv, ToldIsOfRun
  <2>3. relay' = "on" => \A n \in (since + 1)..used : TellsNow(n) => IsAnswered(n)'
    BY <1>2 DEF BotInv, ToldIsOfRun
  <2> QED
    BY <2>1, <2>2, <2>3, <1>2 DEF ToldIsOfRun
<1> QED
  BY <1>1, <1>3, <1>4, <1>5, <1>6

\* Text goes on, or begins.
LEMMA OnStreamKeeps == BotInv /\ Bot!OnStream => BotInv'
<1> SUFFICES ASSUME BotInv, Bot!OnStream PROVE BotInv'
  OBVIOUS
<1> DEFINE a == Bot!Event("TEXT_MESSAGE_START", 0)
           c == Bot!Event("TEXT_MESSAGE_CONTENT", 0)
           t == IF textOpen THEN <<c>> ELSE <<a, c>>
<1>1. /\ relay = "on" /\ queue # <<>> /\ queue[1].type = "stream" /\ queue' = Tail(queue)
      /\ sent' = sent \o t /\ past' = Bot!Kept(Bot!Those(t, Bot!IsCall)) /\ textOpen' = TRUE
      /\ UNCHANGED <<relay, pending, node, spoke, calls, ran, used, byHand, since, given>>
  BY DEF Bot!OnStream, Bot!Seen, Bot!Send, Bot!Beside, Bot!graphVars, Bot!runVars
<1>2. /\ a \in EventOf /\ c \in EventOf /\ ~Bot!IsCall(a) /\ ~Bot!IsCall(c)
      /\ a.type = "TEXT_MESSAGE_START" /\ c.type = "TEXT_MESSAGE_CONTENT"
  BY DEF Bot!Event, EventOf, TypesSent, Bot!IsCall
<1> HIDE DEF a, c
<1>3. t \in Seq(EventOf) /\ Quiet(t)
  BY <1>2 DEF Quiet
<1>4. Going(sent) /\ (textOpen <=> EndsOpen(sent)) /\ sent # <<>>
  BY <1>1, RelayIsGoing DEF BotInv
<1>s. sent \in Seq(EventOf)
  BY <1>4 DEF Going
<1>5. Going(sent') /\ EndsOpen(sent') /\ sent' # <<>>
      /\ \A x \in EventOf : Bot!IsCall(x) => (In(sent', x) <=> In(sent, x))
  <2>1. CASE textOpen
    <3>1. sent' = Append(sent, c)
      BY <2>1, <1>1, <1>2, <1>s
    <3>2. c.type \notin Bot!Closing /\ c.type \notin Bot!Outside /\ EndsOpen(sent)
      BY <2>1, <1>2, <1>4 DEF Bot!Closing, Bot!Outside
    <3>3. Going(sent') /\ EndsOpen(sent')
          /\ \A x \in EventOf : Bot!IsCall(x) => (In(sent', x) <=> In(sent, x))
      BY <3>1, <3>2, <1>2, <1>4, OneMore
    <3> QED
      BY <3>1, <3>3, <1>s, <1>2
  <2>2. CASE ~textOpen
    <3> DEFINE st == Append(sent, a)
    <3>1. sent' = Append(st, c)
      BY <2>2, <1>1, <1>2, <1>s
    <3>2. a.type \notin Bot!Closing /\ a.type \notin Bot!InMessage /\ ~EndsOpen(sent)
      BY <2>2, <1>2, <1>4 DEF Bot!Closing, Bot!InMessage
    <3>e. st = Append(sent, a)
      OBVIOUS
    <3> HIDE DEF st
    <3>3. Going(st) /\ EndsOpen(st)
          /\ \A x \in EventOf : Bot!IsCall(x) => (In(st, x) <=> In(sent, x))
      BY <3>e, <3>2, <1>2, <1>4, OneMore
    <3>4. c.type \notin Bot!Closing /\ c.type \notin Bot!Outside
      BY <1>2 DEF Bot!Closing, Bot!Outside
    <3>5. Going(sent') /\ EndsOpen(sent')
          /\ \A x \in EventOf : Bot!IsCall(x) => (In(sent', x) <=> In(st, x))
      BY <3>1, <3>3, <3>4, <1>2, OneMore
    <3>6. st \in Seq(EventOf)
      BY <3>3 DEF Going
    <3> QED
      BY <3>1, <3>3, <3>5, <3>6, <1>2
  <2> QED
    BY <2>1, <2>2
<1> HIDE DEF t
<1>6. MayTell(t) /\ \A x : Bot!IsCall(x) => ~In(t, x)
  <2>1. MayTell(t)
    BY <1>3, QuietAround
  <2>2. \A x : Bot!IsCall(x) => ~In(t, x)
    BY <1>3 DEF Quiet, In
  <2> QED
    BY <2>1, <2>2
<1>7. /\ \A x : ~In(t, Bot!Event("TOOL_CALL_RESULT", x)) /\ ~In(t, Bot!Event("TOOL_CALL", x))
  BY <1>6 DEF Bot!Event, Bot!IsCall
<1>8. /\ sent' \in Seq(EventOf) /\ past' \in Seq(MessageOf)
      /\ PastIsSound' /\ CallsAreLast' /\ GivenIsSound' /\ ToldIsOfRun'
  BY <1>1, <1>3, <1>6, <1>7, SendKeeps
<1>9. Bot!StreamIsWellFormed' /\ RelayFollows'
  BY <1>1, <1>5, GoesOn
<1>10. FinishedIsOver' /\ Bot!FinishedTellsAll'
  BY <1>1, <1>8, <1>9, GoingIsUnfinished
<1>q. queue \in Seq(Emitted)
  BY DEF BotInv, BotShape
<1>11. queue' \in Seq(Emitted)
  BY <1>1, <1>q
<1>12. BotShape'
  BY <1>1, <1>8, <1>11 DEF BotInv, BotShape, Bot!Ids
<1>13. \A x \in Nat : (IsTold(x)' <=> IsTold(x)) /\ (IsAnswered(x)' <=> IsAnswered(x))
  <2>1. \A x \in Nat : /\ Bot!Event("TOOL_CALL", x) \in EventOf /\ Bot!Event("TOOL_CALL_RESULT", x) \in EventOf
                       /\ Bot!IsCall(Bot!Event("TOOL_CALL", x)) /\ Bot!IsCall(Bot!Event("TOOL_CALL_RESULT", x))
    BY DEF Bot!Event, EventOf, TypesSent, Bot!IsCall
  <2> QED
    BY <2>1, <1>5 DEF IsTold, IsAnswered
<1>14. \A kind, x : Carried(queue, kind, x) <=> Carried(queue', kind, x) \/ (queue[1].type = kind /\ In(queue[1].calls, x))
  BY <1>1, <1>q, QueueShrinks
<1>15. /\ \A x : Carried(queue, "model", x) <=> Carried(queue', "model", x)
       /\ \A x : Carried(queue, "tools", x) <=> Carried(queue', "tools", x)
  BY <1>14, <1>1
<1>16. /\ \A x \in (since + 1)..used : x \in Nat
       /\ \A x \in ran : x \in Nat
       /\ \A x \in CallOf : x.id \in Nat
  BY DEF BotInv, BotShape, CallOf
<1>17. CallsAreKept'
  <2>1. Once(queue, "model")
    BY <1>1 DEF BotInv, CallsAreKept
  <2>2. Once(queue', "model")
    BY <2>1, <1>1, <1>q, QueueShrinks
  <2> QED
    BY <2>2, <1>1, <1>13, <1>15, <1>16 DEF BotInv, CallsAreKept
<1>18. ResultsFollow'
  <2>1. Once(queue, "tools")
    BY <1>1 DEF BotInv, ResultsFollow
  <2>2. Once(queue', "tools")
    BY <2>1, <1>1, <1>q, QueueShrinks
  <2>3. ASSUME NEW k \in 1..Len(queue')
        PROVE  /\ k + 1 \in 1..Len(queue) /\ queue'[k] = queue[k + 1]
               /\ \A x : Before(queue, k + 1, "model", x) <=> Before(queue', k, "model", x)
    <3>1. k + 1 \in 1..Len(queue) /\ queue'[k] = queue[k + 1]
      BY <1>1, <1>q, QueueShrinks
    <3>2. \A x : Before(queue, k + 1, "model", x) <=>
                  Before(queue', k, "model", x) \/ (queue[1].type = "model" /\ In(queue[1].calls, x))
      BY <1>1, <1>q, QueueShrinks
    <3> QED
      BY <3>1, <3>2, <1>1
  <2>4. \A k \in 1..Len(queue') : queue'[k].type = "tools" =>
          \A x \in CallOf : In(queue'[k].calls, x) =>
             /\ x.id \in ran
             /\ In(pending, x) \/ Before(queue', k, "model", x)
             /\ node = "tools" => ~HasId(calls, x.id)
    BY <2>3, <1>1 DEF BotInv, ResultsFollow
  <2>5. /\ node = "tools" => \A i \in 1..Len(calls) :
              In(pending, calls[i]) \/ Carried(queue', "model", calls[i])
        /\ \A n \in ran : n > since =>
             \/ IsAnswered(n)'
             \/ node = "tools" /\ HasId(calls, n)
             \/ \E x \in CallOf : x.id = n /\ Carried(queue', "tools", x)
    BY <1>1, <1>13, <1>15, <1>16 DEF BotInv, ResultsFollow
  <2> QED
    BY <2>2, <2>4, <2>5, <1>1 DEF ResultsFollow, IsAnswered
<1> QED
  BY <1>8, <1>9, <1>10, <1>12, <1>17, <1>18 DEF BotInv

\* Calls with different ids put together.
LEMMA DistinctJoined ==
  ASSUME NEW s \in Seq(CallOf), NEW t \in Seq(CallOf), Distinct(s), Distinct(t), NEW st, st = s \o t,
         \A c, d \in CallOf : In(s, c) /\ In(t, d) => c.id # d.id
  PROVE  Distinct(st)
<1>1. /\ \A i \in 1..Len(s) : st[i] = s[i] /\ s[i] \in CallOf
      /\ \A j \in 1..Len(t) : st[Len(s) + j] = t[j] /\ t[j] \in CallOf
  BY Joined
<1>2. \A i \in 1..Len(st) : i \in 1..Len(s) \/ \E j \in 1..Len(t) : i = Len(s) + j
  BY JoinedPlaces
<1>3. \A i \in 1..Len(s) : \A j \in 1..Len(t) : s[i].id # t[j].id
  BY <1>1 DEF In
<1> SUFFICES ASSUME NEW i \in 1..Len(st), NEW j \in 1..Len(st), st[i].id = st[j].id PROVE i = j
  BY DEF Distinct
<1>4. CASE i \in 1..Len(s) /\ j \in 1..Len(s)
  BY <1>1, <1>4 DEF Distinct
<1>5. ASSUME NEW l \in 1..Len(t), j = Len(s) + l, i \in 1..Len(s) PROVE FALSE
  BY <1>1, <1>3, <1>5
<1>6. ASSUME NEW l \in 1..Len(t), i = Len(s) + l, j \in 1..Len(s) PROVE FALSE
  BY <1>1, <1>3, <1>6
<1>7. ASSUME NEW l \in 1..Len(t), i = Len(s) + l, NEW m \in 1..Len(t), j = Len(s) + m PROVE i = j
  BY <1>1, <1>7 DEF Distinct
<1> QED
  BY <1>2, <1>4, <1>5, <1>6, <1>7

\* A call is seen on its way past.
LEMMA OnModelEndKeeps == BotInv /\ Bot!OnModelEnd => BotInv'
<1> SUFFICES ASSUME BotInv, Bot!OnModelEnd PROVE BotInv'
  OBVIOUS
<1> DEFINE cs == queue[1].calls
<1>1. /\ relay = "on" /\ queue # <<>> /\ queue[1].type = "model" /\ queue' = Tail(queue)
      /\ pending' = pending \o cs
      /\ UNCHANGED <<relay, textOpen, sent, past, node, spoke, calls, ran, used, byHand, since, given>>
  BY DEF Bot!OnModelEnd, Bot!Seen, Bot!Beside, Bot!graphVars, Bot!runVars
<1>0. /\ queue \in Seq(Emitted) /\ pending \in Seq(CallOf) /\ used \in Nat /\ since \in Nat
  BY DEF BotInv, BotShape
<1>2. /\ \A kind, x : Carried(queue, kind, x) <=>
           Carried(queue', kind, x) \/ (queue[1].type = kind /\ In(cs, x))
      /\ queue' \in Seq(Emitted) /\ queue[1] \in Emitted
  BY <1>1, <1>0, QueueShrinks
<1>3. /\ \A x : Carried(queue, "model", x) <=> Carried(queue', "model", x) \/ In(cs, x)
      /\ \A x : Carried(queue, "tools", x) <=> Carried(queue', "tools", x)
  BY <1>1, <1>2
<1>4. cs \in Seq(CallOf)
  BY <1>2 DEF Emitted
<1> HIDE DEF cs
<1>5. pending' \in Seq(CallOf) /\ \A x : In(pending', x) <=> In(pending, x) \/ In(cs, x)
  <2>1. pending' = pending \o cs
    BY <1>1
  <2>2. pending' \in Seq(CallOf)
    BY <2>1, <1>0, <1>4
  <2> QED
    BY <2>1, <2>2, <1>0, <1>4, InJoined
<1>6. /\ \A n \in (since + 1)..used :
           \/ IsTold(n)
           \/ \E c \in CallOf : c.id = n /\ (In(pending, c) \/ Carried(queue, "model", c))
      /\ Distinct(pending) /\ Once(queue, "model")
      /\ \A c \in CallOf : In(pending, c) \/ Carried(queue, "model", c) =>
           c.id \in (since + 1)..used /\ ~IsTold(c.id)
      /\ \A c, d \in CallOf : In(pending, c) /\ Carried(queue, "model", d) => c.id # d.id
  BY <1>1 DEF BotInv, CallsAreKept
<1>7. /\ Once(queue', "model") /\ Distinct(cs)
      /\ \A c, d \in CallOf : In(cs, c) /\ Carried(queue', "model", d) => c.id # d.id
  <2>1. queue \in Seq(Emitted) /\ queue # <<>> /\ queue' = Tail(queue) /\ Once(queue, "model")
        /\ queue[1].type = "model"
    BY <1>0, <1>1, <1>6
  <2>2. Once(queue', "model")
    BY ONLY <2>1, QueueShrinks
  <2>3. Distinct(queue[1].calls)
    BY ONLY <2>1, QueueShrinks
  <2>4. \A c, d \in CallOf : In(queue[1].calls, c) /\ Carried(queue', "model", d) => c.id # d.id
    BY ONLY <2>1, FirstIsApart
  <2> QED
    BY <2>2, <2>3, <2>4 DEF cs
<1>8. CallsAreKept'
  <2>1. Distinct(pending')
    <3>1. \A c, d \in CallOf : In(pending, c) /\ In(cs, d) => c.id # d.id
      BY <1>3, <1>6
    <3>2. pending' = pending \o cs
      BY <1>1
    <3> QED
      BY <3>1, <3>2, <1>0, <1>4, <1>6, <1>7, DistinctJoined
  <2>2. \A n \in (since + 1)..used :
           \/ IsTold(n)
           \/ \E c \in CallOf : c.id = n /\ (In(pending', c) \/ Carried(queue', "model", c))
    BY <1>3, <1>5, <1>6
  <2>3. \A c \in CallOf : In(pending', c) \/ Carried(queue', "model", c) =>
           c.id \in (since + 1)..used /\ ~IsTold(c.id)
    BY <1>3, <1>5, <1>6
  <2>4. \A c, d \in CallOf : In(pending', c) /\ Carried(queue', "model", d) => c.id # d.id
    BY <1>3, <1>5, <1>6, <1>7
  <2> QED
    BY <2>1, <2>2, <2>3, <2>4, <1>1, <1>7 DEF CallsAreKept, IsTold
<1>9. ResultsFollow'
  <2>1. Once(queue, "tools")
    BY <1>1 DEF BotInv, ResultsFollow
  <2>2. Once(queue', "tools")
    BY <2>1, <1>1, <1>0, QueueShrinks
  <2>3. ASSUME NEW k \in 1..Len(queue')
        PROVE  /\ k + 1 \in 1..Len(queue) /\ queue'[k] = queue[k + 1]
               /\ \A x : Before(queue, k + 1, "model", x) => Before(queue', k, "model", x) \/ In(cs, x)
    <3>1. k + 1 \in 1..Len(queue) /\ queue'[k] = queue[k + 1]
      BY <1>1, <1>0, QueueShrinks
    <3>2. \A x : Before(queue, k + 1, "model", x) <=>
                  Before(queue', k, "model", x) \/ (queue[1].type = "model" /\ In(queue[1].calls, x))
      BY <1>1, <1>0, QueueShrinks
    <3> QED
      BY <3>1, <3>2 DEF cs
  <2>4. \A k \in 1..Len(queue') : queue'[k].type = "tools" =>
          \A x \in CallOf : In(queue'[k].calls, x) =>
             /\ x.id \in ran
             /\ In(pending', x) \/ Before(queue', k, "model", x)
             /\ node = "tools" => ~HasId(calls, x.id)
    BY <2>3, <1>1, <1>5 DEF BotInv, ResultsFollow
  <2>5. /\ node = "tools" => \A i \in 1..Len(calls) :
              In(pending', calls[i]) \/ Carried(queue', "model", calls[i])
        /\ \A n \in ran : n > since =>
             \/ IsAnswered(n)
             \/ node = "tools" /\ HasId(calls, n)
             \/ \E x \in CallOf : x.id = n /\ Carried(queue', "tools", x)
    BY <1>1, <1>3, <1>5 DEF BotInv, ResultsFollow
  <2> QED
    BY <2>2, <2>4, <2>5, <1>1 DEF ResultsFollow, IsAnswered
<1>10. CallsAreLast' /\ ToldIsOfRun' /\ Bot!StreamIsWellFormed' /\ RelayFollows' /\ FinishedIsOver'
       /\ Bot!FinishedTellsAll' /\ PastIsSound' /\ GivenIsSound'
  BY <1>1, Unmoved DEF BotInv
<1>11. BotShape'
  <2>1. ASSUME NEW i \in 1..Len(pending') PROVE pending'[i].id \in 1..used
    <3>1. In(pending', pending'[i]) /\ pending'[i] \in CallOf
      BY <1>5 DEF In
    <3>2. In(pending, pending'[i]) \/ Carried(queue, "model", pending'[i])
      BY <3>1, <1>3, <1>5
    <3>3. pending'[i].id \in (since + 1)..used
      BY <3>1, <3>2, <1>6
    <3> QED
      BY <3>3, <1>0
  <2>2. Bot!Ids(pending)' \subseteq 1..used
    BY <2>1, <1>5, SeqIs DEF Bot!Ids
  <2> QED
    BY <2>2, <1>1, <1>2, <1>5 DEF BotInv, BotShape
<1> QED
  BY <1>8, <1>9, <1>10, <1>11 DEF BotInv

\* A call that was answered in this run was told.
LEMMA AnsweredIsTold ==
  ASSUME Going(sent), NEW n, IsAnswered(n)
  PROVE  IsTold(n)
<1>1. PICK p \in 1..Len(sent) : sent[p] = Bot!Event("TOOL_CALL_RESULT", n)
  BY DEF IsAnswered, In
<1>2. sent[p].type = "TOOL_CALL_RESULT" /\ sent[p].id = n
  BY <1>1 DEF Bot!Event
<1>3. PICK j \in 1..(p - 1) : sent[j] = Bot!Event("TOOL_CALL", n)
  BY <1>2 DEF Going
<1>4. j \in 1..Len(sent)
  BY <1>3
<1> QED
  BY <1>3, <1>4 DEF IsTold, In

\* Calls that wait can be told, behind the end of an open message.
LEMMA TellsCalls ==
  ASSUME BotInv, relay = "on", NEW cs \in Seq(CallOf), \A c \in CallOf : In(cs, c) => In(pending, c),
         NEW t \in Seq(EventOf),
         \A i \in 1..Len(t) :
              /\ Bot!IsCall(t[i])
              /\ \A j \in 1..Len(t) : t[j] = t[i] => j = i
              /\ t[i].type = "TOOL_CALL_RESULT" =>
                   \E j \in 1..(i - 1) : t[j] = Bot!Event("TOOL_CALL", t[i].id),
         \A e \in EventOf : In(t, e) => \E c \in CallOf : In(cs, c) /\
              (e = Bot!Event("TOOL_CALL", c.id) \/ e = Bot!Event("TOOL_CALL_RESULT", c.id)),
         \A c \in CallOf : In(cs, c) /\ c.id \in ran => In(t, Bot!Event("TOOL_CALL_RESULT", c.id)),
         NEW ct, ct = Bot!CloseText \o t, NEW st, st = sent \o ct
  PROVE  /\ ct \in Seq(EventOf) /\ MayTell(ct) /\ Going(st) /\ ~EndsOpen(st)
         /\ \A e \in EventOf : Bot!IsCall(e) => /\ In(ct, e) <=> In(t, e)
                                                /\ In(st, e) <=> In(sent, e) \/ In(t, e)
<1> DEFINE a == Bot!CloseText
           mid == sent \o a
<1>0. Going(sent) /\ (textOpen <=> EndsOpen(sent)) /\ sent \in Seq(EventOf)
  BY RelayIsGoing DEF BotInv, Going
<1>1. a \in Seq(EventOf) /\ Quiet(a)
  BY CloseTextIsQuiet
<1>2. Going(mid) /\ ~EndsOpen(mid) /\ \A e \in EventOf : Bot!IsCall(e) => (In(mid, e) <=> In(sent, e))
  <2>1. mid = sent \o (IF textOpen THEN <<Bot!Event("TEXT_MESSAGE_END", 0)>> ELSE <<>>)
    BY DEF Bot!CloseText
  <2> HIDE DEF mid
  <2>2. Going(mid)
    BY ONLY <2>1, <1>0, TextClosed
  <2>3. ~EndsOpen(mid)
    BY ONLY <2>1, <1>0, TextClosed
  <2>4. \A e \in EventOf : Bot!IsCall(e) => (In(mid, e) <=> In(sent, e))
    BY ONLY <2>1, <1>0, TextClosed, ZenonT(60)
  <2> QED
    BY <2>2, <2>3, <2>4
<1>3. st = mid \o t
  <2>1. st = sent \o (a \o t) /\ mid = sent \o a /\ t \in Seq(EventOf)
    OBVIOUS
  <2> HIDE DEF a, mid
  <2>2. sent \in Seq(EventOf) /\ a \in Seq(EventOf) /\ t \in Seq(EventOf)
    BY ONLY <2>1, <1>0, <1>1
  <2>3. sent \o (a \o t) = (sent \o a) \o t
    <3>1. \A x, y, z \in Seq(EventOf) : (x \o y) \o z = x \o (y \o z)
      BY ONLY ConcatAssociative, SMTT(30)
    <3> QED
      BY ONLY <2>2, <3>1
  <2> QED
    BY <2>1, <2>3
<1>4. ct = a \o t
  OBVIOUS
<1> HIDE DEF a, mid
<1>5. ASSUME NEW i \in 1..Len(t)
      PROVE  /\ t[i].id \in (since + 1)..used /\ ~IsTold(t[i].id) /\ ~In(sent, t[i])
             /\ t[i].type = "TOOL_CALL" /\ t[i].id \in ran => In(t, Bot!Event("TOOL_CALL_RESULT", t[i].id))
  <2>1. In(t, t[i]) /\ t[i] \in EventOf
    BY DEF In
  <2>2. PICK c \in CallOf : In(cs, c) /\
              (t[i] = Bot!Event("TOOL_CALL", c.id) \/ t[i] = Bot!Event("TOOL_CALL_RESULT", c.id))
    BY <2>1
  <2>3. t[i].id = c.id
    BY <2>2 DEF Bot!Event
  <2>4. c.id \in (since + 1)..used /\ ~IsTold(c.id)
    BY <2>2 DEF BotInv, CallsAreKept
  <2>5. ~IsAnswered(c.id)
    BY <2>4, <1>0, AnsweredIsTold
  <2>6. ~In(sent, t[i])
    BY <2>2, <2>4, <2>5 DEF IsTold, IsAnswered
  <2> QED
    BY <2>2, <2>3, <2>4, <2>6
<1>6. MayTell(t)
  BY <1>5 DEF MayTell
<1>7. /\ ct \in Seq(EventOf) /\ MayTell(ct)
      /\ \A e : Bot!IsCall(e) => (In(ct, e) <=> In(t, e))
  <2>1. ct \in Seq(EventOf)
    BY <1>1, <1>4
  <2> QED
    BY <2>1, <1>1, <1>4, <1>6, QuietAround
<1>8. /\ Going(st) /\ ~EndsOpen(st)
      /\ \A e \in EventOf : In(st, e) <=> In(mid, e) \/ In(t, e)
  <2>1. \A i \in 1..Len(t) : t[i] \in EventOf
    OBVIOUS
  <2>2. \A i \in 1..Len(t) :
           /\ Bot!IsCall(t[i]) /\ ~In(mid, t[i])
           /\ \A j \in 1..Len(t) : t[j] = t[i] => j = i
           /\ t[i].type = "TOOL_CALL_RESULT" => \E j \in 1..(i - 1) : t[j] = Bot!Event("TOOL_CALL", t[i].id)
    BY <2>1, <1>2, <1>5
  <2>3. t \in Seq(EventOf)
    OBVIOUS
  <2> QED
    BY ONLY <1>2, <1>3, <2>2, <2>3, CallsMore
<1> QED
  BY <1>2, <1>7, <1>8

\* What of the calls of an event waits, and what waits beside them.
LEMMA WaitingOnes ==
  ASSUME NEW cs \in Seq(CallOf), pending \in Seq(CallOf)
  PROVE  LET told1 == Bot!Those(cs, LAMBDA c : c \in Bot!Range(pending))
             rest == Bot!Those(pending, LAMBDA c : c \notin Bot!Range(cs))
         IN  /\ told1 \in Seq(CallOf) /\ rest \in Seq(CallOf)
             /\ \A x : In(told1, x) <=> In(cs, x) /\ In(pending, x)
             /\ \A x : In(rest, x) <=> In(pending, x) /\ ~In(cs, x)
             /\ Distinct(cs) => Distinct(told1)
             /\ Distinct(pending) => Distinct(rest)
<1> DEFINE told1 == Bot!Those(cs, LAMBDA c : c \in Bot!Range(pending))
           rest == Bot!Those(pending, LAMBDA c : c \notin Bot!Range(cs))
           K == {i \in 1..Len(cs) : cs[i] \in Bot!Range(pending)}
           L == {i \in 1..Len(pending) : pending[i] \notin Bot!Range(cs)}
<1>0. DOMAIN cs = 1..Len(cs) /\ DOMAIN pending = 1..Len(pending)
  OBVIOUS
<1>1. /\ \A x : x \in Bot!Range(pending) <=> In(pending, x)
      /\ \A x : x \in Bot!Range(cs) <=> In(cs, x)
  BY <1>0 DEF Bot!Range, In
<1>2. told1 = Bot!FlattenSeq([i \in DOMAIN cs |-> IF i \in K THEN <<cs[i]>> ELSE <<>>])
  <2>1. [i \in DOMAIN cs |-> IF i \in K THEN <<cs[i]>> ELSE <<>>] =
        [i \in DOMAIN cs |-> IF cs[i] \in Bot!Range(pending) THEN <<cs[i]>> ELSE <<>>]
    BY <1>0
  <2> QED
    BY <2>1 DEF Bot!Those
<1>3. rest = Bot!FlattenSeq([i \in DOMAIN pending |-> IF i \in L THEN <<pending[i]>> ELSE <<>>])
  <2>1. [i \in DOMAIN pending |-> IF i \in L THEN <<pending[i]>> ELSE <<>>] =
        [i \in DOMAIN pending |-> IF pending[i] \notin Bot!Range(cs) THEN <<pending[i]>> ELSE <<>>]
    BY <1>0
  <2> QED
    BY <2>1 DEF Bot!Those
<1>4. K \in SUBSET (1..Len(cs)) /\ L \in SUBSET (1..Len(pending))
  OBVIOUS
<1> HIDE DEF told1, rest, K, L
<1>5. /\ told1 \in Seq(CallOf)
      /\ \A x : In(told1, x) <=> \E i \in K : cs[i] = x
      /\ Distinct(cs) => Distinct(told1)
  <2>1. cs \in Seq(CallOf)
    OBVIOUS
  <2>2. told1 \in Seq(CallOf)
    BY ONLY <1>2, <1>4, <2>1, Picked
  <2>3. \A x : In(told1, x) <=> \E i \in K : cs[i] = x
    BY ONLY <1>2, <1>4, <2>1, Picked
  <2>4. Distinct(cs) => Distinct(told1)
    BY ONLY <1>2, <1>4, <2>1, Picked
  <2> QED
    BY <2>2, <2>3, <2>4
<1>6. /\ rest \in Seq(CallOf)
      /\ \A x : In(rest, x) <=> \E i \in L : pending[i] = x
      /\ Distinct(pending) => Distinct(rest)
  <2>1. pending \in Seq(CallOf)
    OBVIOUS
  <2>2. rest \in Seq(CallOf)
    BY ONLY <1>3, <1>4, <2>1, Picked
  <2>3. \A x : In(rest, x) <=> \E i \in L : pending[i] = x
    BY ONLY <1>3, <1>4, <2>1, Picked
  <2>4. Distinct(pending) => Distinct(rest)
    BY ONLY <1>3, <1>4, <2>1, Picked
  <2> QED
    BY <2>2, <2>3, <2>4
<1>7. \A x : In(told1, x) <=> In(cs, x) /\ In(pending, x)
  BY <1>1, <1>5 DEF K, In
<1>8. \A x : In(rest, x) <=> In(pending, x) /\ ~In(cs, x)
  BY <1>1, <1>6 DEF L, In
<1> QED
  BY <1>5, <1>6, <1>7, <1>8 DEF told1, rest

\* The results come past: the calls they answer are told, with them.
LEMMA OnToolsEndKeeps == BotInv /\ Bot!OnToolsEnd => BotInv'
<1> SUFFICES ASSUME BotInv, Bot!OnToolsEnd PROVE BotInv'
  OBVIOUS
<1> DEFINE cs == queue[1].calls
           those == Bot!Those(cs, LAMBDA c : c \in Bot!Range(pending))
           t == Bot!Told(those, Bot!WithResult)
           ct == Bot!CloseText \o t
<1>1. /\ relay = "on" /\ queue # <<>> /\ queue[1].type = "tools" /\ queue' = Tail(queue)
      /\ sent' = sent \o ct /\ past' = Bot!Kept(Bot!Those(ct, Bot!IsCall)) /\ textOpen' = FALSE
      /\ pending' = Bot!Those(pending, LAMBDA c : c \notin Bot!Range(cs))
      /\ UNCHANGED <<relay, node, spoke, calls, ran, used, byHand, since, given>>
  BY DEF Bot!OnToolsEnd, Bot!Seen, Bot!Send, Bot!Beside, Bot!graphVars, Bot!runVars
<1>0. /\ queue \in Seq(Emitted) /\ pending \in Seq(CallOf) /\ used \in Nat /\ since \in Nat
      /\ Len(queue) \in Nat /\ 1 \in 1..Len(queue) /\ queue[1] \in Emitted
  BY <1>1 DEF BotInv, BotShape
<1>2. cs \in Seq(CallOf)
  BY <1>0 DEF Emitted
<1>3. /\ \A kind, x : Carried(queue, kind, x) <=>
           Carried(queue', kind, x) \/ (queue[1].type = kind /\ In(cs, x))
      /\ queue' \in Seq(Emitted)
  BY <1>1, <1>0, QueueShrinks
<1>4. /\ \A x : Carried(queue, "model", x) <=> Carried(queue', "model", x)
      /\ \A x : Carried(queue, "tools", x) <=> Carried(queue', "tools", x) \/ In(cs, x)
  BY <1>1, <1>3
<1>5. /\ Once(queue, "tools")
      /\ \A k \in 1..Len(queue) : queue[k].type = "tools" =>
           \A c \in CallOf : In(queue[k].calls, c) =>
             /\ c.id \in ran
             /\ In(pending, c) \/ Before(queue, k, "model", c)
             /\ node = "tools" => ~HasId(calls, c.id)
  BY <1>1 DEF BotInv, ResultsFollow
<1>6. \A c \in CallOf : In(cs, c) => In(pending, c) /\ c.id \in ran /\ (node = "tools" => ~HasId(calls, c.id))
  <2>1. \A c : ~Before(queue, 1, "model", c)
    BY DEF Before
  <2> QED
    BY <2>1, <1>0, <1>1, <1>5
<1>7. Distinct(cs) /\ Once(queue', "tools")
  <2>1. queue \in Seq(Emitted) /\ queue # <<>> /\ queue' = Tail(queue) /\ Once(queue, "tools")
        /\ queue[1].type = "tools"
    BY <1>0, <1>1, <1>5
  <2>2. Distinct(queue[1].calls)
    BY ONLY <2>1, QueueShrinks
  <2>3. Once(queue', "tools")
    BY ONLY <2>1, QueueShrinks
  <2> QED
    BY <2>2, <2>3
<1>8. \A c, d \in CallOf : In(cs, c) /\ Carried(queue', "tools", d) => c.id # d.id
  <2>1. queue \in Seq(Emitted) /\ queue # <<>> /\ queue' = Tail(queue) /\ Once(queue, "tools")
        /\ queue[1].type = "tools"
    BY <1>0, <1>1, <1>5
  <2> QED
    BY ONLY <2>1, FirstIsApart DEF cs
<1>9. /\ those \in Seq(CallOf) /\ pending' \in Seq(CallOf)
      /\ \A x : In(those, x) <=> In(cs, x) /\ In(pending, x)
      /\ \A x : In(pending', x) <=> In(pending, x) /\ ~In(cs, x)
      /\ Distinct(those) /\ (Distinct(pending) => Distinct(pending'))
  <2> HIDE DEF cs
  <2> QED
    BY <1>0, <1>1, <1>2, <1>7, WaitingOnes
<1>10. t = Bot!FlattenSeq([i \in DOMAIN those |-> Bot!WithResult(those[i])])
  BY DEF Bot!Told
<1> HIDE DEF cs, those, t
<1>11. /\ t \in Seq(EventOf)
       /\ \A i \in 1..Len(t) :
              /\ Bot!IsCall(t[i])
              /\ \A j \in 1..Len(t) : t[j] = t[i] => j = i
              /\ t[i].type = "TOOL_CALL_RESULT" =>
                   \E j \in 1..(i - 1) : t[j] = Bot!Event("TOOL_CALL", t[i].id)
       /\ \A c \in EventOf : In(t, c) <=>
              \E i \in DOMAIN those : \/ c = Bot!Event("TOOL_CALL", those[i].id)
                                      \/ c = Bot!Event("TOOL_CALL_RESULT", those[i].id)
  <2>1. those \in Seq(CallOf) /\ Distinct(those)
        /\ t = Bot!FlattenSeq([i \in DOMAIN those |-> Bot!WithResult(those[i])])
    BY <1>9, <1>10
  <2>2. t \in Seq(EventOf)
    BY ONLY <2>1, ToldWithResults
  <2>3. \A i \in 1..Len(t) :
              /\ Bot!IsCall(t[i])
              /\ \A j \in 1..Len(t) : t[j] = t[i] => j = i
              /\ t[i].type = "TOOL_CALL_RESULT" =>
                   \E j \in 1..(i - 1) : t[j] = Bot!Event("TOOL_CALL", t[i].id)
    BY ONLY <2>1, ToldWithResults, ZenonT(60)
  <2>4. \A c \in EventOf : In(t, c) <=>
              \E i \in DOMAIN those : \/ c = Bot!Event("TOOL_CALL", those[i].id)
                                      \/ c = Bot!Event("TOOL_CALL_RESULT", those[i].id)
    BY ONLY <2>1, ToldWithResults
  <2> QED
    BY <2>2, <2>3, <2>4
<1>12. \A e \in EventOf : In(t, e) <=> \E c \in CallOf : In(cs, c) /\
              (e = Bot!Event("TOOL_CALL", c.id) \/ e = Bot!Event("TOOL_CALL_RESULT", c.id))
  <2> TAKE e \in EventOf
  <2>0. DOMAIN those = 1..Len(those) /\ \A i \in 1..Len(those) : those[i] \in CallOf
    BY <1>9, SeqIs
  <2>1. ASSUME In(t, e)
        PROVE  \E c \in CallOf : In(cs, c) /\
              (e = Bot!Event("TOOL_CALL", c.id) \/ e = Bot!Event("TOOL_CALL_RESULT", c.id))
    <3>1. PICK i \in DOMAIN those : \/ e = Bot!Event("TOOL_CALL", those[i].id)
                                    \/ e = Bot!Event("TOOL_CALL_RESULT", those[i].id)
      BY <2>1, <1>11
    <3>2. In(those, those[i]) /\ those[i] \in CallOf
      BY <2>0 DEF In
    <3>3. In(cs, those[i])
      BY <3>2, <1>9
    <3> QED
      BY <3>1, <3>2, <3>3
  <2>2. ASSUME NEW c \in CallOf, In(cs, c),
               e = Bot!Event("TOOL_CALL", c.id) \/ e = Bot!Event("TOOL_CALL_RESULT", c.id)
        PROVE  In(t, e)
    <3>1. In(those, c)
      BY <2>2, <1>6, <1>9
    <3>2. PICK i \in 1..Len(those) : those[i] = c
      BY <3>1 DEF In
    <3> QED
      BY <3>2, <2>0, <2>2, <1>11
  <2> QED
    BY <2>1, <2>2
<1>13. \A x \in Nat : /\ Bot!Event("TOOL_CALL", x) \in EventOf /\ Bot!Event("TOOL_CALL_RESULT", x) \in EventOf
                      /\ Bot!IsCall(Bot!Event("TOOL_CALL", x)) /\ Bot!IsCall(Bot!Event("TOOL_CALL_RESULT", x))
  BY DEF Bot!Event, EventOf, TypesSent, Bot!IsCall
<1>c. \A c \in CallOf : c.id \in Nat
  BY DEF CallOf
<1>14. /\ ct \in Seq(EventOf) /\ MayTell(ct) /\ Going(sent') /\ ~EndsOpen(sent')
       /\ \A e \in EventOf : Bot!IsCall(e) => /\ In(ct, e) <=> In(t, e)
                                              /\ In(sent', e) <=> In(sent, e) \/ In(t, e)
  <2>1. \A c \in CallOf : In(cs, c) => In(pending, c)
    BY <1>6
  <2>2. \A c \in CallOf : In(cs, c) /\ c.id \in ran => In(t, Bot!Event("TOOL_CALL_RESULT", c.id))
    BY <1>12, <1>13, <1>c
  <2>3. \A e \in EventOf : In(t, e) => \E c \in CallOf : In(cs, c) /\
              (e = Bot!Event("TOOL_CALL", c.id) \/ e = Bot!Event("TOOL_CALL_RESULT", c.id))
    BY <1>12
  <2>4. ct = Bot!CloseText \o t /\ sent' = sent \o ct
    BY <1>1
  <2>5. relay = "on" /\ t \in Seq(EventOf) /\ \A i \in 1..Len(t) :
              /\ Bot!IsCall(t[i])
              /\ \A j \in 1..Len(t) : t[j] = t[i] => j = i
              /\ t[i].type = "TOOL_CALL_RESULT" =>
                   \E j \in 1..(i - 1) : t[j] = Bot!Event("TOOL_CALL", t[i].id)
    BY <1>1, <1>11
  <2> HIDE DEF ct
  <2>6. BotInv
    OBVIOUS
  <2> QED
    BY ONLY <2>1, <2>2, <2>3, <2>4, <2>5, <2>6, <1>2, TellsCalls
<1> HIDE DEF ct
<1>15. ASSUME NEW x
       PROVE  /\ In(ct, Bot!Event("TOOL_CALL", x)) <=> \E c \in CallOf : In(cs, c) /\ c.id = x
              /\ In(ct, Bot!Event("TOOL_CALL_RESULT", x)) <=> \E c \in CallOf : In(cs, c) /\ c.id = x
  <2>1. CASE x \in Nat
    <3>1. /\ In(ct, Bot!Event("TOOL_CALL", x)) <=> In(t, Bot!Event("TOOL_CALL", x))
          /\ In(ct, Bot!Event("TOOL_CALL_RESULT", x)) <=> In(t, Bot!Event("TOOL_CALL_RESULT", x))
          /\ Bot!Event("TOOL_CALL", x) \in EventOf /\ Bot!Event("TOOL_CALL_RESULT", x) \in EventOf
      BY <2>1, <1>13, <1>14
    <3>2. \A y : /\ Bot!Event("TOOL_CALL", x) = Bot!Event("TOOL_CALL", y) <=> x = y
                 /\ Bot!Event("TOOL_CALL_RESULT", x) = Bot!Event("TOOL_CALL_RESULT", y) <=> x = y
                 /\ Bot!Event("TOOL_CALL", x) # Bot!Event("TOOL_CALL_RESULT", y)
                 /\ Bot!Event("TOOL_CALL_RESULT", x) # Bot!Event("TOOL_CALL", y)
      BY DEF Bot!Event
    <3> QED
      BY <3>1, <3>2, <1>12
  <2>2. CASE x \notin Nat
    <3>1. ASSUME NEW kind, In(ct, Bot!Event(kind, x)) PROVE FALSE
      <4>1. PICK i \in 1..Len(ct) : ct[i] = Bot!Event(kind, x)
        BY <3>1 DEF In
      <4>2. ct[i] \in EventOf
        BY <1>14
      <4>3. ct[i].id \in Nat /\ ct[i].id = x
        BY <4>1, <4>2 DEF EventOf, Bot!Event
      <4> QED
        BY <4>3, <2>2
    <3> QED
      BY <3>1, <2>2, <1>c
  <2> QED
    BY <2>1, <2>2
<1>16. /\ sent' \in Seq(EventOf) /\ past' \in Seq(MessageOf)
       /\ PastIsSound' /\ CallsAreLast' /\ GivenIsSound' /\ ToldIsOfRun'
  <2>1. \A x : In(ct, Bot!Event("TOOL_CALL_RESULT", x)) => x \in ran
    BY <1>15, <1>6
  <2>2. node = "tools" => \A i \in 1..Len(calls) : ~In(ct, Bot!Event("TOOL_CALL", calls[i].id))
    BY <1>15, <1>6 DEF HasId
  <2>3. \A x : In(ct, Bot!Event("TOOL_CALL", x)) => In(ct, Bot!Event("TOOL_CALL_RESULT", x))
    BY <1>15
  <2>4. BotInv /\ relay = "on" /\ ct \in Seq(EventOf) /\ MayTell(ct) /\ sent' = sent \o ct
        /\ past' = Bot!Kept(Bot!Those(ct, Bot!IsCall))
        /\ UNCHANGED <<node, calls, ran, used, since, given>>
    BY <1>1, <1>14
  <2> QED
    BY ONLY <2>1, <2>2, <2>3, <2>4, SendKeeps
<1>17. sent' # <<>>
  <2>1. sent # <<>> /\ sent \in Seq(EventOf)
    BY <1>1, RelayIsGoing DEF BotInv, BotShape
  <2> QED
    BY <2>1, <1>1, <1>14
<1>18. Bot!StreamIsWellFormed' /\ RelayFollows'
  BY <1>1, <1>14, <1>17, GoesOn
<1>19. FinishedIsOver' /\ Bot!FinishedTellsAll'
  BY <1>1, <1>16, <1>18, GoingIsUnfinished
<1>20. \A x \in Nat : /\ IsTold(x)' <=> IsTold(x) \/ \E c \in CallOf : In(cs, c) /\ c.id = x
                      /\ IsAnswered(x)' <=> IsAnswered(x) \/ \E c \in CallOf : In(cs, c) /\ c.id = x
  <2>1. ASSUME NEW e \in EventOf, Bot!IsCall(e) PROVE In(sent', e) <=> In(sent, e) \/ In(ct, e)
    BY <2>1, <1>14
  <2>2. \A x \in Nat :
          /\ In(sent', Bot!Event("TOOL_CALL", x)) <=>
               In(sent, Bot!Event("TOOL_CALL", x)) \/ In(ct, Bot!Event("TOOL_CALL", x))
          /\ In(sent', Bot!Event("TOOL_CALL_RESULT", x)) <=>
               In(sent, Bot!Event("TOOL_CALL_RESULT", x)) \/ In(ct, Bot!Event("TOOL_CALL_RESULT", x))
    BY <2>1, <1>13
  <2> QED
    BY <2>2, <1>15 DEF IsTold, IsAnswered
<1>21. /\ \A x \in (since + 1)..used : x \in Nat
       /\ \A x \in ran : x \in Nat
  BY DEF BotInv, BotShape
<1>22. CallsAreKept'
  <2>0. /\ \A n \in (since + 1)..used :
             \/ IsTold(n)
             \/ \E c \in CallOf : c.id = n /\ (In(pending, c) \/ Carried(queue, "model", c))
        /\ Distinct(pending) /\ Once(queue, "model")
        /\ \A c \in CallOf : In(pending, c) \/ Carried(queue, "model", c) =>
             c.id \in (since + 1)..used /\ ~IsTold(c.id)
        /\ \A c, d \in CallOf : In(pending, c) /\ Carried(queue, "model", d) => c.id # d.id
    BY <1>1 DEF BotInv, CallsAreKept
  <2>1. Once(queue', "model")
    BY <2>0, <1>1, <1>0, QueueShrinks
  <2>2. Distinct(pending')
    BY <2>0, <1>9
  <2>3. \A n \in (since + 1)..used :
             \/ IsTold(n)'
             \/ \E c \in CallOf : c.id = n /\ (In(pending', c) \/ Carried(queue', "model", c))
    BY <2>0, <1>4, <1>9, <1>20, <1>21
  <2>4. ASSUME NEW c \in CallOf, In(pending', c) \/ Carried(queue', "model", c)
        PROVE  c.id \in (since + 1)..used /\ ~TellsNow(c.id)
    <3>1. c.id \in (since + 1)..used /\ ~IsTold(c.id)
      BY <2>0, <2>4, <1>4, <1>9
    <3>2. ASSUME NEW d \in CallOf, In(cs, d), d.id = c.id PROVE FALSE
      <4>1. In(pending, d)
        BY <3>2, <1>6
      <4>2. CASE In(pending', c)
        <5>1. PICK i \in 1..Len(pending) : pending[i] = d
          BY <4>1 DEF In
        <5>2. PICK j \in 1..Len(pending) : pending[j] = c
          BY <4>2, <1>9 DEF In
        <5>3. i = j
          BY <5>1, <5>2, <3>2, <2>0 DEF Distinct
        <5> QED
          BY <5>1, <5>2, <5>3, <4>2, <3>2, <1>9
      <4>3. CASE Carried(queue', "model", c)
        BY <4>1, <4>3, <3>2, <2>0, <1>4
      <4> QED
        BY <4>2, <4>3, <2>4
    <3> QED
      BY <3>1, <3>2, <1>20, <1>c DEF IsTold, TellsNow
  <2>5. \A c, d \in CallOf : In(pending', c) /\ Carried(queue', "model", d) => c.id # d.id
    BY <2>0, <1>4, <1>9
  <2> QED
    BY <2>1, <2>2, <2>3, <2>4, <2>5, <1>1 DEF CallsAreKept, IsTold, TellsNow
<1>23. ResultsFollow'
  <2>3. ASSUME NEW k \in 1..Len(queue'), queue'[k].type = "tools", NEW x \in CallOf, In(queue'[k].calls, x)
        PROVE  /\ x.id \in ran
               /\ In(pending', x) \/ Before(queue', k, "model", x)
               /\ node = "tools" => ~HasId(calls, x.id)
    <3>1. k + 1 \in 1..Len(queue) /\ queue'[k] = queue[k + 1]
      BY <1>1, <1>0, QueueShrinks
    <3>2. \A y : Before(queue, k + 1, "model", y) <=>
                  Before(queue', k, "model", y) \/ (queue[1].type = "model" /\ In(queue[1].calls, y))
      BY <1>1, <1>0, QueueShrinks
    <3>3. /\ x.id \in ran
          /\ In(pending, x) \/ Before(queue', k, "model", x)
          /\ node = "tools" => ~HasId(calls, x.id)
      BY <3>1, <3>2, <2>3, <1>1, <1>5
    <3>4. ~In(cs, x)
      <4>1. Carried(queue', "tools", x)
        BY <2>3 DEF Carried
      <4> QED
        BY <4>1, <1>8
    <3> QED
      BY <3>3, <3>4, <1>9
  <2>4. node = "tools" => \A i \in 1..Len(calls) :
              In(pending', calls[i]) \/ Carried(queue', "model", calls[i])
    <3>1. ASSUME node = "tools", NEW i \in 1..Len(calls)
          PROVE  In(pending', calls[i]) \/ Carried(queue', "model", calls[i])
      <4>1. calls[i] \in CallOf /\ HasId(calls, calls[i].id)
        BY SeqIs DEF BotInv, BotShape, HasId
      <4>2. ~In(cs, calls[i])
        BY <4>1, <3>1, <1>6
      <4>3. In(pending, calls[i]) \/ Carried(queue, "model", calls[i])
        BY <3>1, <1>1 DEF BotInv, ResultsFollow
      <4> QED
        BY <4>2, <4>3, <1>4, <1>9
    <3> QED
      BY <3>1
  <2>5. \A n \in ran : n > since =>
             \/ IsAnswered(n)'
             \/ node = "tools" /\ HasId(calls, n)
             \/ \E x \in CallOf : x.id = n /\ Carried(queue', "tools", x)
    <3>1. \A n \in ran : n > since =>
             \/ IsAnswered(n)
             \/ node = "tools" /\ HasId(calls, n)
             \/ \E x \in CallOf : x.id = n /\ Carried(queue, "tools", x)
      BY <1>1 DEF BotInv, ResultsFollow
    <3> QED
      BY <3>1, <1>4, <1>20, <1>21
  <2> QED
    BY <2>3, <2>4, <2>5, <1>1, <1>7 DEF ResultsFollow
<1>24. BotShape'
  <2>1. ASSUME NEW i \in 1..Len(pending') PROVE pending'[i].id \in 1..used
    <3>1. In(pending', pending'[i]) /\ pending'[i] \in CallOf
      BY <1>9 DEF In
    <3>2. In(pending, pending'[i])
      BY <3>1, <1>9
    <3>3. pending'[i].id \in (since + 1)..used
      BY <3>1, <3>2, <1>1 DEF BotInv, CallsAreKept
    <3> QED
      BY <3>3, <1>0
  <2>2. Bot!Ids(pending)' \subseteq 1..used
    BY <2>1, <1>9, SeqIs DEF Bot!Ids
  <2> QED
    BY <2>2, <1>1, <1>3, <1>9, <1>16 DEF BotInv, BotShape
<1> QED
  BY <1>16, <1>18, <1>19, <1>22, <1>23, <1>24 DEF BotInv

\* Leaving the stream, or ending it, asks nothing of what runAgent has yet to tell.
LEMMA ClosedKeeps ==
  ASSUME relay' = "closed"
  PROVE  CallsAreKept' /\ ResultsFollow' /\ RelayFollows'
BY DEF CallsAreKept, ResultsFollow, RelayFollows

\* What was made and is not told with its result would wait for it, and nothing does.
LEMMA WaitIsForTheSurface ==
  ASSUME BotInv, relay = "on", queue = <<>>, node = "end"
  PROVE  /\ \A n \in (since + 1)..used : IsTold(n) \/ \E c \in CallOf : c.id = n /\ In(pending, c)
         /\ \A n \in (since + 1)..used : IsAnswered(n) <=> n \in ran
         /\ \A c \in CallOf : In(pending, c) => c.id \in (since + 1)..used /\ c.id \notin ran
         /\ Distinct(pending) /\ pending \in Seq(CallOf)
<1>1. \A kind, c : ~Carried(queue, kind, c)
  BY DEF Carried
<1>2. \A n \in (since + 1)..used : IsTold(n) \/ \E c \in CallOf : c.id = n /\ In(pending, c)
  BY <1>1 DEF BotInv, CallsAreKept
<1>3. Distinct(pending) /\ pending \in Seq(CallOf)
  BY DEF BotInv, CallsAreKept, BotShape
<1>4. \A n \in (since + 1)..used : n > since
  BY DEF BotInv, BotShape
<1>5. \A n \in (since + 1)..used : n \in ran => IsAnswered(n)
  BY <1>1, <1>4 DEF BotInv, ResultsFollow
<1>6. \A n \in (since + 1)..used : IsAnswered(n) => n \in ran
  BY DEF BotInv, ToldIsOfRun
<1>7. Going(sent)
  BY RelayIsGoing DEF BotInv
<1>8. ASSUME NEW c \in CallOf, In(pending, c) PROVE c.id \in (since + 1)..used /\ c.id \notin ran
  <2>1. c.id \in (since + 1)..used /\ ~IsTold(c.id)
    BY <1>8 DEF BotInv, CallsAreKept
  <2> QED
    BY <2>1, <1>5, <1>7, AnsweredIsTold
<1> QED
  BY <1>2, <1>3, <1>5, <1>6, <1>8

\* The events are over.
LEMMA RunFinishedKeeps == BotInv /\ Bot!RunFinished => BotInv'
<1> SUFFICES ASSUME BotInv, Bot!RunFinished PROVE BotInv'
  OBVIOUS
<1> DEFINE t == Bot!Told(pending, Bot!Call)
           e == Bot!Event("RUN_FINISHED", 0)
           ct == Bot!CloseText \o t
           all == ct \o <<e>>
           st == sent \o ct
<1>1. /\ relay = "on" /\ queue = <<>> /\ node = "end" /\ relay' = "closed"
      /\ sent' = sent \o all /\ past' = Bot!Kept(Bot!Those(all, Bot!IsCall))
      /\ textOpen' = FALSE /\ pending' = <<>>
      /\ UNCHANGED <<queue, node, spoke, calls, ran, used, byHand, since, given>>
  BY DEF Bot!RunFinished, Bot!Send, Bot!Beside, Bot!graphVars, Bot!runVars
<1>2. /\ \A n \in (since + 1)..used : IsTold(n) \/ \E c \in CallOf : c.id = n /\ In(pending, c)
      /\ \A n \in (since + 1)..used : IsAnswered(n) <=> n \in ran
      /\ \A c \in CallOf : In(pending, c) => c.id \in (since + 1)..used /\ c.id \notin ran
      /\ Distinct(pending) /\ pending \in Seq(CallOf)
  BY <1>1, WaitIsForTheSurface
<1>3. t = Bot!FlattenSeq([i \in DOMAIN pending |-> Bot!Call(pending[i])])
  BY DEF Bot!Told
<1>4. e \in EventOf /\ e.type = "RUN_FINISHED" /\ ~Bot!IsCall(e) /\ e.type \in Bot!Closing
  BY DEF Bot!Event, EventOf, TypesSent, Bot!IsCall, Bot!Closing
<1> HIDE DEF t, e
<1>5. pending \in Seq(CallOf) /\ Distinct(pending)
      /\ t = Bot!FlattenSeq([i \in DOMAIN pending |-> Bot!Call(pending[i])])
  BY <1>2, <1>3
<1>6. t \in Seq(EventOf)
  BY ONLY <1>5, ToldPlainly
<1>7. \A i \in 1..Len(t) : /\ Bot!IsCall(t[i]) /\ t[i].type = "TOOL_CALL"
                           /\ \A j \in 1..Len(t) : t[j] = t[i] => j = i
  BY ONLY <1>5, ToldPlainly
<1>8. \A c \in EventOf : In(t, c) <=> \E i \in DOMAIN pending : c = Bot!Event("TOOL_CALL", pending[i].id)
  BY ONLY <1>5, ToldPlainly
<1>9. \A n : ~In(t, Bot!Event("TOOL_CALL_RESULT", n))
  BY <1>7 DEF In, Bot!Event
<1>10. \A c \in EventOf : In(t, c) <=> \E d \in CallOf : In(pending, d) /\ c = Bot!Event("TOOL_CALL", d.id)
  <2>1. DOMAIN pending = 1..Len(pending) /\ \A i \in 1..Len(pending) : pending[i] \in CallOf
    BY <1>5, SeqIs
  <2> QED
    BY <1>8, <2>1 DEF In
<1>11. /\ ct \in Seq(EventOf) /\ MayTell(ct) /\ Going(st) /\ ~EndsOpen(st)
       /\ \A c \in EventOf : Bot!IsCall(c) => /\ In(ct, c) <=> In(t, c)
                                              /\ In(st, c) <=> In(sent, c) \/ In(t, c)
  <2>1. \A c \in CallOf : In(pending, c) => In(pending, c)
    OBVIOUS
  <2>2. \A c \in CallOf : In(pending, c) /\ c.id \in ran => In(t, Bot!Event("TOOL_CALL_RESULT", c.id))
    BY <1>2
  <2>3. \A c \in EventOf : In(t, c) => \E d \in CallOf : In(pending, d) /\
              (c = Bot!Event("TOOL_CALL", d.id) \/ c = Bot!Event("TOOL_CALL_RESULT", d.id))
    BY <1>10
  <2>4. ct = Bot!CloseText \o t /\ st = sent \o ct
    OBVIOUS
  <2>5. relay = "on" /\ t \in Seq(EventOf) /\ pending \in Seq(CallOf) /\ \A i \in 1..Len(t) :
              /\ Bot!IsCall(t[i])
              /\ \A j \in 1..Len(t) : t[j] = t[i] => j = i
              /\ t[i].type = "TOOL_CALL_RESULT" =>
                   \E j \in 1..(i - 1) : t[j] = Bot!Event("TOOL_CALL", t[i].id)
    BY <1>1, <1>5, <1>6, <1>7
  <2>6. BotInv
    OBVIOUS
  <2> HIDE DEF ct, st
  <2> QED
    BY ONLY <2>1, <2>2, <2>3, <2>4, <2>5, <2>6, TellsCalls
<1>12. sent' = st \o <<e>> /\ sent \in Seq(EventOf) /\ <<e>> \in Seq(EventOf)
  <2>1. sent \in Seq(EventOf) /\ <<e>> \in Seq(EventOf)
    BY <1>4 DEF BotInv, BotShape
  <2>2. ct \in Seq(EventOf) /\ all = ct \o <<e>> /\ st = sent \o ct
    BY <1>11
  <2> HIDE DEF ct, all, st
  <2>3. sent \o (ct \o <<e>>) = (sent \o ct) \o <<e>>
    BY ONLY <2>1, <2>2, ConcatAssociative
  <2> QED
    BY <2>1, <2>2, <2>3, <1>1
<1>13. /\ all \in Seq(EventOf) /\ MayTell(all)
       /\ \A x : Bot!IsCall(x) => (In(all, x) <=> In(ct, x))
  <2>1. Quiet(<<e>>)
    BY <1>4 DEF Quiet
  <2>2. ct \in Seq(EventOf) /\ <<e>> \in Seq(EventOf) /\ all = ct \o <<e>>
    BY <1>11, <1>12
  <2> HIDE DEF ct, all, st
  <2>3. all \in Seq(EventOf)
    BY <2>2
  <2> QED
    BY <2>1, <2>2, <2>3, <1>11, QuietAround
<1> HIDE DEF ct, all, st
<1>14. /\ Bot!StreamIsWellFormed' /\ RelayFollows'
       /\ sent' # <<>> /\ sent'[Len(sent')] = e
       /\ \A c \in EventOf : Bot!IsCall(c) => (In(sent', c) <=> In(st, c))
  BY <1>1, <1>4, <1>11, <1>12, EndsWell
<1>15. \A x \in Nat : /\ Bot!Event("TOOL_CALL", x) \in EventOf /\ Bot!Event("TOOL_CALL_RESULT", x) \in EventOf
                      /\ Bot!IsCall(Bot!Event("TOOL_CALL", x)) /\ Bot!IsCall(Bot!Event("TOOL_CALL_RESULT", x))
  BY DEF Bot!Event, EventOf, TypesSent, Bot!IsCall
<1>16. ASSUME NEW x PROVE ~In(all, Bot!Event("TOOL_CALL_RESULT", x))
  <2>1. SUFFICES ASSUME In(all, Bot!Event("TOOL_CALL_RESULT", x)) PROVE FALSE
    OBVIOUS
  <2>2. PICK i \in 1..Len(all) : all[i] = Bot!Event("TOOL_CALL_RESULT", x)
    BY <2>1 DEF In
  <2>3. Bot!Event("TOOL_CALL_RESULT", x) \in EventOf
    BY <2>2, <1>13, SeqIs
  <2>4. Bot!IsCall(Bot!Event("TOOL_CALL_RESULT", x))
    BY DEF Bot!IsCall, Bot!Event
  <2> QED
    BY <2>1, <2>3, <2>4, <1>9, <1>11, <1>13
<1>17. /\ sent' \in Seq(EventOf) /\ past' \in Seq(MessageOf)
       /\ PastIsSound' /\ CallsAreLast' /\ GivenIsSound' /\ ToldIsOfRun'
  BY <1>1, <1>13, <1>16, SendKeeps
<1>18. FinishedIsOver'
  BY <1>1 DEF FinishedIsOver
<1>19. /\ \A n \in (since + 1)..used : n \in Nat
       /\ \A x : x \in Bot!Range(sent') <=> In(sent', x)
  BY <1>17, SeqIs DEF Bot!Range, In, BotInv, BotShape
<1>20. ASSUME NEW n \in (since + 1)..used
       PROVE  /\ In(sent', Bot!Event("TOOL_CALL", n))
              /\ In(sent', Bot!Event("TOOL_CALL_RESULT", n)) <=> n \in ran
  <2>1. In(sent', Bot!Event("TOOL_CALL", n)) <=> IsTold(n) \/ In(t, Bot!Event("TOOL_CALL", n))
    BY <1>11, <1>14, <1>15, <1>19 DEF IsTold
  <2>2. In(sent', Bot!Event("TOOL_CALL_RESULT", n)) <=> IsAnswered(n)
    BY <1>9, <1>11, <1>14, <1>15, <1>19 DEF IsAnswered
  <2> QED
    BY <2>1, <2>2, <1>2, <1>10, <1>15, <1>19
<1>21. Bot!FinishedTellsAll'
  BY <1>1, <1>19, <1>20 DEF Bot!FinishedTellsAll
<1>22. CallsAreKept' /\ ResultsFollow'
  BY <1>1, ClosedKeeps
<1>23. BotShape'
  <2>1. pending' \in Seq(CallOf) /\ Bot!Ids(pending)' = {}
    BY <1>1 DEF Bot!Ids
  <2> QED
    BY <2>1, <1>1, <1>17 DEF BotInv, BotShape
<1> QED
  BY <1>14, <1>17, <1>18, <1>21, <1>22, <1>23 DEF BotInv

\* The stream throws, and closes the message that is open or does not.
LEMMA ThrowsKeeps ==
  ASSUME BotInv, NEW t, Bot!Throws(t), (t = Bot!CloseText) \/ (byHand /\ t = <<>>)
  PROVE  BotInv'
<1> DEFINE e == Bot!Event("RUN_ERROR", 0)
           all == t \o <<e>>
           st == sent \o t
<1>1. /\ relay = "on" /\ node = "failed" /\ relay' = "closed" /\ queue' = <<>>
      /\ sent' = sent \o all /\ past' = Bot!Kept(Bot!Those(all, Bot!IsCall)) /\ textOpen' = FALSE
      /\ UNCHANGED <<pending, node, spoke, calls, ran, used, byHand, since, given>>
  BY DEF Bot!Throws, Bot!Send, Bot!Beside, Bot!graphVars, Bot!runVars
<1>2. Going(sent) /\ (textOpen <=> EndsOpen(sent)) /\ sent \in Seq(EventOf)
  BY <1>1, RelayIsGoing DEF BotInv, Going
<1>3. e \in EventOf /\ e.type = "RUN_ERROR" /\ ~Bot!IsCall(e) /\ e.type \in Bot!Closing
  BY DEF Bot!Event, EventOf, TypesSent, Bot!IsCall, Bot!Closing
<1> HIDE DEF e
<1>4. t \in Seq(EventOf) /\ Quiet(t) /\ Going(st) /\ (byHand \/ ~EndsOpen(st))
  <2>1. CASE t = Bot!CloseText
    <3>1. t \in Seq(EventOf) /\ Quiet(t)
      BY <2>1, CloseTextIsQuiet
    <3>2. st = sent \o (IF textOpen THEN <<Bot!Event("TEXT_MESSAGE_END", 0)>> ELSE <<>>)
      BY <2>1 DEF Bot!CloseText
    <3> HIDE DEF st
    <3>3. Going(st) /\ ~EndsOpen(st)
      BY ONLY <1>2, <3>2, TextClosed
    <3> QED
      BY <3>1, <3>3
  <2>2. CASE byHand /\ t = <<>>
    <3>1. t \in Seq(EventOf) /\ Quiet(t) /\ st = sent
      BY <2>2, <1>2 DEF Quiet
    <3> HIDE DEF st
    <3> QED
      BY <3>1, <2>2, <1>2
  <2> QED
    BY <2>1, <2>2
<1>5. sent' = st \o <<e>> /\ <<e>> \in Seq(EventOf) /\ all \in Seq(EventOf)
  <2>1. sent \in Seq(EventOf) /\ <<e>> \in Seq(EventOf) /\ t \in Seq(EventOf)
    BY <1>2, <1>3, <1>4
  <2>2. all = t \o <<e>> /\ st = sent \o t
    OBVIOUS
  <2> HIDE DEF all, st
  <2>3. sent \o (t \o <<e>>) = (sent \o t) \o <<e>>
    BY ONLY <2>1, ConcatAssociative
  <2>4. all \in Seq(EventOf)
    BY <2>1, <2>2
  <2> QED
    BY <2>1, <2>2, <2>3, <2>4, <1>1
<1>6. Quiet(<<e>>)
  BY <1>3 DEF Quiet
<1>7. MayTell(all) /\ \A x : Bot!IsCall(x) => ~In(all, x)
  <2>1. t \in Seq(EventOf) /\ <<e>> \in Seq(EventOf) /\ all = t \o <<e>>
    BY <1>4, <1>5
  <2> HIDE DEF all
  <2>2. MayTell(<<e>>)
    BY <1>3 DEF MayTell
  <2>3. \A x : Bot!IsCall(x) => (In(all, x) <=> In(<<e>>, x))
    BY <2>1, <1>4, QuietAround
  <2>4. MayTell(all)
    BY <2>1, <2>2, <1>4, QuietAround
  <2> QED
    BY <2>3, <2>4, <1>3 DEF In
<1> HIDE DEF all, st
<1>8. /\ Bot!StreamIsWellFormed' /\ RelayFollows'
      /\ sent' # <<>> /\ sent'[Len(sent')] = e
  <2>1. (e.type = "RUN_ERROR" /\ byHand') \/ ~EndsOpen(st)
    BY <1>1, <1>3, <1>4
  <2> QED
    BY <2>1, <1>1, <1>3, <1>4, <1>5, EndsWell
<1>9. \A x, kind : kind \in {"TOOL_CALL", "TOOL_CALL_RESULT"} => ~In(all, Bot!Event(kind, x))
  BY <1>7 DEF Bot!IsCall, Bot!Event
<1>10. /\ sent' \in Seq(EventOf) /\ past' \in Seq(MessageOf)
       /\ PastIsSound' /\ CallsAreLast' /\ GivenIsSound' /\ ToldIsOfRun'
  <2>1. /\ \A x : ~In(all, Bot!Event("TOOL_CALL_RESULT", x))
        /\ \A x : ~In(all, Bot!Event("TOOL_CALL", x))
    BY <1>9
  <2> QED
    BY <2>1, <1>1, <1>5, <1>7, SendKeeps
<1>11. FinishedIsOver' /\ Bot!FinishedTellsAll'
  BY <1>3, <1>8 DEF FinishedIsOver, Bot!FinishedTellsAll, Bot!Last
<1>12. CallsAreKept' /\ ResultsFollow'
  BY <1>1, ClosedKeeps
<1>13. BotShape'
  <2>1. Bot!Ids(pending)' = Bot!Ids(pending)
    BY <1>1 DEF Bot!Ids
  <2>2. queue' \in Seq(Emitted)
    BY <1>1
  <2>3. BotShape
    BY DEF BotInv
  <2> QED
    BY <2>1, <2>2, <2>3, <1>1, <1>10 DEF BotShape
<1> QED
  BY <1>8, <1>10, <1>11, <1>12, <1>13 DEF BotInv

\* The run ends in an error, of either Bot.
LEMMA RunErrorsKeep == BotInv /\ (Bot!RunError \/ Bot!RunErrorByHand) => BotInv'
<1>1. ASSUME BotInv, Bot!RunError PROVE BotInv'
  <2>1. Bot!Throws(Bot!CloseText)
    BY <1>1 DEF Bot!RunError
  <2> QED
    BY <1>1, <2>1, ThrowsKeeps
<1>2. ASSUME BotInv, Bot!RunErrorByHand PROVE BotInv'
  <2>1. byHand /\ Bot!Throws(<<>>)
    BY <1>2 DEF Bot!RunErrorByHand
  <2> QED
    BY <1>2, <2>1, ThrowsKeeps
<1> QED
  BY <1>1, <1>2

\* The deployment hangs up.
LEMMA CancelledKeeps == BotInv /\ Bot!Cancelled => BotInv'
<1> SUFFICES ASSUME BotInv, Bot!Cancelled PROVE BotInv'
  OBVIOUS
<1>1. /\ relay = "on" /\ relay' = "closed" /\ queue' = <<>>
      /\ UNCHANGED <<textOpen, pending, sent, past, node, spoke, calls, ran, used, byHand, since, given>>
  BY DEF Bot!Cancelled, Bot!Beside, Bot!graphVars, Bot!runVars
<1>2. /\ CallsAreLast' /\ FinishedIsOver' /\ Bot!FinishedTellsAll' /\ PastIsSound' /\ GivenIsSound'
  BY <1>1, Unmoved DEF BotInv
<1>3. ToldIsOfRun'
  BY <1>1 DEF BotInv, ToldIsOfRun, IsTold, IsAnswered
<1>4. Bot!StreamIsWellFormed'
  <2>1. Going(sent)
    BY <1>1, RelayIsGoing DEF BotInv
  <2>2. Going(sent')
    BY <2>1, <1>1
  <2> QED
    BY <2>2, GoesOn
<1>5. CallsAreKept' /\ ResultsFollow' /\ RelayFollows'
  BY <1>1, ClosedKeeps
<1>6. BotShape'
  BY <1>1 DEF BotInv, BotShape, Bot!Ids
<1> QED
  BY <1>2, <1>3, <1>4, <1>5, <1>6 DEF BotInv

\* An answer of the surface, to a call that was told and that nobody made.
LEMMA SurfaceAnswersKeeps == BotInv /\ Bot!SurfaceAnswers => BotInv'
<1> SUFFICES ASSUME BotInv, Bot!SurfaceAnswers PROVE BotInv'
  OBVIOUS
<1>0. PICK c \in Bot!Ids(past) : /\ Bot!Message("tool", c) \notin Bot!Range(past) /\ c \notin ran
                                 /\ past' = Append(past, Bot!Message("tool", c))
  BY DEF Bot!SurfaceAnswers
<1>1. UNCHANGED <<node, spoke, calls, ran, used, queue, relay, textOpen, pending, sent, byHand, since, given>>
  BY DEF Bot!SurfaceAnswers, Bot!graphVars, Bot!relayVars, Bot!runVars
<1>2. /\ CallsAreLast' /\ ToldIsOfRun' /\ Bot!StreamIsWellFormed' /\ RelayFollows' /\ CallsAreKept'
      /\ ResultsFollow' /\ FinishedIsOver' /\ Bot!FinishedTellsAll' /\ GivenIsSound'
  BY <1>1, Unmoved DEF BotInv
<1> DEFINE m == Bot!Message("tool", c)
           n == Len(past)
           s == past'
<1>3. past \in Seq(MessageOf) /\ n \in Nat /\ DOMAIN past = 1..n /\ used \in Nat
  BY SeqIs DEF BotInv, BotShape
<1>4. PICK i0 \in 1..n : past[i0].id = c
  BY <1>0, <1>3 DEF Bot!Ids
<1>5. /\ \A i \in 1..n : past[i].id \in 1..used /\ (past[i].id > since => IsTold(past[i].id))
      /\ \A i \in 1..n : Stands(past, i, ran)
  BY DEF BotInv, PastIsSound
<1>6. c \in Nat /\ m \in MessageOf /\ m.role = "tool" /\ m.id = c /\ m.real
  BY <1>4, <1>5, <1>3 DEF Bot!Message, MessageOf
<1>7. \A i \in 1..n : past[i] # m
  BY <1>0, <1>3 DEF Bot!Range
<1>8. Bot!Message("tool", c) = m
  OBVIOUS
<1> HIDE DEF m
<1>9. /\ s \in Seq(MessageOf) /\ Len(s) = n + 1 /\ \A i \in 1..n : s[i] = past[i]
      /\ s[n + 1] = m /\ \A i \in 1..(n + 1) : i \in 1..n \/ i = n + 1
  BY <1>0, <1>3, <1>6, <1>8
<1>10. \E j \in 1..n : past[j] = Bot!Message("assistant", c)
  <2>1. past[i0] \in MessageOf
    BY <1>3
  <2>2. past[i0].real
    BY <1>5 DEF Stands
  <2>3. CASE past[i0].role = "assistant"
    <3>1. past[i0] = Bot!Message("assistant", c)
      BY <2>1, <2>2, <2>3, <1>4 DEF MessageOf, Bot!Message
    <3> QED
      BY <3>1
  <2>4. CASE past[i0].role = "tool"
    BY <2>4, <1>4, <1>5, <1>3 DEF Stands
  <2> QED
    BY <2>1, <2>3, <2>4 DEF MessageOf
<1>11. ASSUME NEW i \in 1..(n + 1)
       PROVE  s[i].id \in 1..used /\ (s[i].id > since => IsTold(s[i].id))
  BY <1>4, <1>5, <1>6, <1>9
<1> HIDE DEF s, n
<1>12. ASSUME NEW i \in 1..(n + 1) PROVE Stands(s, i, ran)
  <2>1. CASE i \in 1..n
    <3>1. Stands(past, i, ran) /\ s[i] = past[i]
      BY <2>1, <1>5, <1>9
    <3>2. \A j \in 1..(n + 1) : s[i] = s[j] => i = j
      <4>1. \A j \in 1..n : past[i] = past[j] => i = j
        BY <3>1 DEF Stands, n
      <4> QED
        BY <4>1, <3>1, <2>1, <1>7, <1>9
    <3>3. s[i].role = "tool" => \E j \in 1..(i - 1) : s[j] = Bot!Message("assistant", s[i].id)
      <4>1. s[i].role = "tool" => \E j \in 1..(i - 1) : past[j] = Bot!Message("assistant", s[i].id)
        BY <3>1 DEF Stands
      <4>2. \A j \in 1..(i - 1) : j \in 1..n
        BY <2>1, <1>3
      <4> QED
        BY <4>1, <4>2, <1>9
    <3>4. s[i].role = "assistant" /\ s[i].id \in ran => \E j \in 1..(n + 1) : s[j] = Bot!Message("tool", s[i].id)
      <4>1. s[i].role = "assistant" /\ s[i].id \in ran => \E j \in 1..n : past[j] = Bot!Message("tool", s[i].id)
        BY <3>1 DEF Stands, n
      <4>2. \A j \in 1..n : j \in 1..(n + 1) /\ s[j] = past[j]
        BY <1>3, <1>9
      <4> QED
        BY <4>1, <4>2
    <3>5. s[i].real
      BY <3>1 DEF Stands
    <3> QED
      BY <3>2, <3>3, <3>4, <3>5, <1>9 DEF Stands
  <2>2. CASE i = n + 1
    <3>1. s[i] = m
      BY <2>2, <1>9
    <3>2. \A j \in 1..(n + 1) : s[i] = s[j] => i = j
      BY <3>1, <2>2, <1>7, <1>9
    <3>3. \E j \in 1..(i - 1) : s[j] = Bot!Message("assistant", s[i].id)
      <4>1. i - 1 = n
        BY <2>2, <1>3
      <4> QED
        BY <4>1, <3>1, <1>6, <1>9, <1>10
    <3> QED
      BY <3>1, <3>2, <3>3, <1>6, <1>9 DEF Stands
  <2> QED
    BY <2>1, <2>2, <1>9
<1>13. PastIsSound'
  BY <1>1, <1>9, <1>11, <1>12 DEF PastIsSound, IsTold, s
<1>14. BotShape'
  BY <1>1, <1>9 DEF BotInv, BotShape, Bot!Ids, s
<1> QED
  BY <1>2, <1>13, <1>14 DEF BotInv

\* No message is in s twice.
NoRepeats(s) == \A i, j \in 1..Len(s) : s[i] = s[j] => i = j
Answering(n, x) == [role |-> "tool", id |-> n, real |-> x]
IdsAreOf(r, s) == \A p \in 1..Len(r) : \E i \in 1..Len(s) : r[p].id = s[i].id

\* Putting answers behind the calls that no message answers, those at D, answers each call once.
LEMMA AnswersBehind ==
  ASSUME NEW s \in Seq(MessageOf), NoRepeats(s), \A i \in 1..Len(s) : s[i].real,
         NEW D \in SUBSET (1..Len(s)), NEW real \in [1..Len(s) -> BOOLEAN], NEW made, NEW r,
         r = Bot!FlattenSeq([i \in DOMAIN s |-> IF i \in D THEN <<s[i], Answering(s[i].id, real[i])>>
                                                           ELSE <<s[i]>>]),
         \A i \in 1..Len(s) : s[i].role = "assistant" =>
              i \in D \/ \E k \in 1..Len(s) : k > i /\ s[k] = Bot!Message("tool", s[i].id),
         \A i \in D : /\ s[i].role = "assistant"
                      /\ \A k \in 1..Len(s) : s[k].role = "tool" => s[k].id # s[i].id
                      /\ s[i].id \in made => real[i]
  PROVE  /\ r \in Seq(MessageOf)
         /\ IdsAreOf(r, s)
         /\ \A p \in 1..Len(r) : r[p].role = "assistant" => AnsweredIn(r, p, made)
<1> DEFINE seqs == [i \in DOMAIN s |-> IF i \in D THEN <<s[i], Answering(s[i].id, real[i])>> ELSE <<s[i]>>]
           n == Len(s)
<1>1. n \in Nat /\ DOMAIN s = 1..n /\ \A i \in 1..n : s[i] \in MessageOf
  BY SeqIs
<1>2. \A i \in 1..n : Answering(s[i].id, real[i]) \in MessageOf
  BY <1>1 DEF Answering, MessageOf
<1>3. \A i \in 1..n : /\ i \in D => /\ Len(seqs[i]) = 2 /\ seqs[i][1] = s[i]
                                    /\ seqs[i][2] = Answering(s[i].id, real[i])
                      /\ i \notin D => Len(seqs[i]) = 1 /\ seqs[i][1] = s[i]
                      /\ seqs[i] \in Seq(MessageOf)
  BY <1>1, <1>2
<1>4. seqs \in Seq(Seq(MessageOf)) /\ Len(seqs) = n
  <2>1. seqs \in [1..n -> Seq(MessageOf)]
    BY <1>1, <1>3
  <2> HIDE DEF seqs
  <2> QED
    BY <2>1, <1>1, IsSeq
<1>5. r = Bot!FlattenSeq(seqs)
  OBVIOUS
<1> HIDE DEF seqs, n
<1>6. r \in Seq(MessageOf) /\ \E of, nth : MadeOf(r, seqs, n, of, nth)
  <2>1. Bot!FlattenSeq(seqs) \in Seq(MessageOf)
    BY ONLY <1>4, FlattenPlaces
  <2>2. \E of, nth : MadeOf(Bot!FlattenSeq(seqs), seqs, Len(seqs), of, nth)
    BY ONLY <1>4, FlattenPlaces
  <2> QED
    BY <2>1, <2>2, <1>4, <1>5, ZenonT(60)
<1>7a. PICK of : \E nth : MadeOf(r, seqs, n, of, nth)
  BY <1>6
<1>7. PICK nth : MadeOf(r, seqs, n, of, nth)
  BY <1>7a
<1>8. /\ Len(r) \in Nat /\ \A p \in 1..Len(r) : of[p] \in 1..n /\ nth[p] \in 1..Len(seqs[of[p]])
      /\ \A p \in 1..Len(r) : r[p] = seqs[of[p]][nth[p]]
      /\ \A i \in 1..n : \A j \in 1..Len(seqs[i]) : \E p \in 1..Len(r) : of[p] = i /\ nth[p] = j
      /\ \A p, q \in 1..Len(r) : p < q <=> of[p] < of[q] \/ (of[p] = of[q] /\ nth[p] < nth[q])
  BY <1>6, <1>7, SeqIs DEF MadeOf
<1>c. \A i \in 1..n : \A j \in 1..Len(seqs[i]) : \E p \in 1..Len(r) : of[p] = i /\ nth[p] = j
  BY <1>8
<1>9. ASSUME NEW p \in 1..Len(r)
      PROVE  /\ of[p] \in 1..n
             /\ \/ nth[p] = 1 /\ r[p] = s[of[p]]
                \/ nth[p] = 2 /\ of[p] \in D /\ r[p] = Answering(s[of[p]].id, real[of[p]])
  <2>1. of[p] \in 1..n /\ nth[p] \in 1..Len(seqs[of[p]]) /\ r[p] = seqs[of[p]][nth[p]]
    BY <1>8
  <2>2. CASE of[p] \in D
    <3>1. nth[p] = 1 \/ nth[p] = 2
      BY <2>1, <2>2, <1>3
    <3> QED
      BY <2>1, <2>2, <3>1, <1>3
  <2>3. CASE of[p] \notin D
    <3>1. nth[p] = 1
      BY <2>1, <2>3, <1>3
    <3> QED
      BY <2>1, <2>3, <3>1, <1>3
  <2> QED
    BY <2>2, <2>3
<1>10. ASSUME NEW p \in 1..Len(r), NEW q \in 1..Len(r), of[p] = of[q], nth[p] = nth[q] PROVE p = q
  <2>1. nth[p] \in {1, 2} /\ of[p] \in 1..n
    BY <1>9
  <2>2. ~(p < q) /\ ~(q < p)
    BY <2>1, <1>1, <1>8, <1>10
  <2> QED
    BY <2>2, <1>8
<1>11. \A i \in 1..n : \E p \in 1..Len(r) : of[p] = i /\ nth[p] = 1
  <2> TAKE i \in 1..n
  <2>1. 1 \in 1..Len(seqs[i])
    BY <1>3
  <2>2. \A j \in 1..Len(seqs[i]) : \E p \in 1..Len(r) : of[p] = i /\ nth[p] = j
    BY <1>c
  <2> QED
    BY <2>1, <2>2
<1>12. \A i \in D : \E p \in 1..Len(r) : of[p] = i /\ nth[p] = 2
  <2> TAKE i \in D
  <2>1. i \in 1..n
    BY DEF n
  <2>2. 2 \in 1..Len(seqs[i])
    BY <2>1, <1>3
  <2>3. \A j \in 1..Len(seqs[i]) : \E p \in 1..Len(r) : of[p] = i /\ nth[p] = j
    BY <2>1, <1>c
  <2> QED
    BY <2>2, <2>3
<1>a. \A x, y : Answering(x, y).role = "tool" /\ Answering(x, y).id = x /\ Answering(x, y).real = y
  BY DEF Answering
<1>b. \A p \in 1..Len(r) :
         /\ of[p] \in 1..n
         /\ \/ nth[p] = 1 /\ r[p] = s[of[p]]
            \/ nth[p] = 2 /\ of[p] \in D /\ r[p] = Answering(s[of[p]].id, real[of[p]])
  BY <1>9
<1>13. \A m \in MessageOf : m.real /\ m.role \in {"assistant", "tool"} => m = Bot!Message(m.role, m.id)
  BY DEF MessageOf, Bot!Message
<1>14. \A i, j \in 1..n : s[i] = s[j] => i = j
  BY DEF NoRepeats, n
<1>15. \A i, j \in 1..n : s[i].role = s[j].role /\ s[i].id = s[j].id => i = j
  <2>1. \A i \in 1..n : s[i] = Bot!Message(s[i].role, s[i].id)
    BY <1>1, <1>13 DEF n, MessageOf
  <2> QED
    BY <2>1, <1>14
<1>16. ASSUME NEW p \in 1..Len(r), r[p].role = "assistant" PROVE AnsweredIn(r, p, made)
  <2> DEFINE i == of[p]
  <2>1. nth[p] = 1 /\ r[p] = s[i] /\ i \in 1..n
    BY <1>16, <1>a, <1>b
  <2>2. \A q \in 1..Len(r) : r[q] = r[p] => q = p
    <3> SUFFICES ASSUME NEW q \in 1..Len(r), r[q] = r[p] PROVE q = p
      OBVIOUS
    <3>1. nth[q] = 1 /\ r[q] = s[of[q]] /\ of[q] \in 1..n
      BY <1>16, <1>a, <1>b
    <3>2. of[q] = of[p]
      BY <3>1, <2>1, <1>14, SMTT(30)
    <3> QED
      BY <3>1, <3>2, <2>1, <1>10
  <2>3. CASE i \in D
    <3>1. PICK q \in 1..Len(r) : of[q] = i /\ nth[q] = 2
      BY <2>3, <1>12
    <3>2. q > p
      BY <2>1, <3>1, <1>8, <1>1
    <3>3. r[q] = Answering(s[i].id, real[i])
      BY <3>1, <1>b
    <3>4. ASSUME NEW l \in 1..Len(r), r[l].role = "tool", r[l].id = r[p].id PROVE l = q
      <4>1. CASE nth[l] = 1 /\ r[l] = s[of[l]]
        <5>1. of[l] \in 1..Len(s)
          BY <1>b DEF n
        <5> QED
          BY <5>1, <4>1, <3>4, <2>1, <2>3
      <4>2. CASE nth[l] = 2 /\ of[l] \in D /\ r[l] = Answering(s[of[l]].id, real[of[l]])
        <5>1. s[of[l]].id = s[i].id
          BY <4>2, <3>4, <2>1, <1>a
        <5>2. s[of[l]].role = "assistant" /\ s[i].role = "assistant"
          BY <4>2, <2>3
        <5>3. of[l] \in 1..n /\ s[of[l]].role = s[i].role
          BY <5>2, <1>b
        <5>4. of[l] = i
          BY <5>1, <5>3, <2>1, <1>15
        <5> QED
          BY <5>4, <4>2, <3>1, <1>10
      <4> QED
        BY <4>1, <4>2, <1>b
    <3>5. r[q].role = "tool" /\ r[q].id = r[p].id /\ (r[p].id \in made => r[q].real)
      BY <2>1, <2>3, <3>3, <1>a
    <3> QED
      BY <2>2, <3>2, <3>4, <3>5 DEF AnsweredIn
  <2>4. CASE i \notin D
    <3>1. s[i].role = "assistant" /\ i \in 1..Len(s)
      BY <2>1, <1>16 DEF n
    <3>2. PICK k \in 1..Len(s) : k > i /\ s[k] = Bot!Message("tool", s[i].id)
      BY <3>1, <2>4
    <3>3. k \in 1..n /\ s[k].role = "tool" /\ s[k].id = s[i].id /\ s[k].real
      BY <3>2 DEF n, Bot!Message
    <3>4. PICK q \in 1..Len(r) : of[q] = k /\ nth[q] = 1
      BY <3>3, <1>11
    <3>5. q > p
      BY <3>2, <3>4, <2>1, <1>8
    <3>6. r[q] = s[k]
      BY <3>4, <1>b
    <3>7. ASSUME NEW l \in 1..Len(r), r[l].role = "tool", r[l].id = r[p].id PROVE l = q
      <4>1. CASE nth[l] = 1 /\ r[l] = s[of[l]]
        <5>1. of[l] \in 1..n /\ s[of[l]].role = s[k].role /\ s[of[l]].id = s[k].id
          BY <4>1, <3>3, <3>7, <2>1, <1>b
        <5>2. of[l] = k
          BY <5>1, <3>3, <1>15
        <5> QED
          BY <5>2, <4>1, <3>4, <1>10
      <4>2. CASE nth[l] = 2 /\ of[l] \in D /\ r[l] = Answering(s[of[l]].id, real[of[l]])
        <5>1. s[of[l]].id = s[k].id
          BY <4>2, <3>3, <3>7, <2>1, <1>a
        <5> QED
          BY <5>1, <4>2, <3>2, <3>3
      <4> QED
        BY <4>1, <4>2, <1>b
    <3>8. r[q].role = "tool" /\ r[q].id = r[p].id /\ r[q].real
      BY <2>1, <3>3, <3>6
    <3> QED
      BY <2>2, <3>5, <3>7, <3>8 DEF AnsweredIn
  <2> QED
    BY <2>3, <2>4
<1>17. ASSUME NEW p \in 1..Len(r) PROVE \E i \in 1..Len(s) : r[p].id = s[i].id
  <2>1. of[p] \in 1..Len(s)
    BY <1>b DEF n
  <2>2. r[p].id = s[of[p]].id
    BY <1>a, <1>b
  <2> QED
    BY <2>1, <2>2
<1> QED
  BY <1>6, <1>16, <1>17 DEF IdsAreOf

\* The messages of one role, in their order.
LEMMA OfIs ==
  ASSUME NEW s \in Seq(MessageOf), NEW kind, NEW r, r = Bot!Of(kind, s)
  PROVE  /\ r \in Seq(MessageOf)
         /\ \A x : In(r, x) <=> In(s, x) /\ x.role = kind
         /\ NoRepeats(s) => NoRepeats(r)
<1> DEFINE K == {i \in 1..Len(s) : s[i].role = kind}
<1>1. K \in SUBSET (1..Len(s)) /\ DOMAIN s = 1..Len(s)
  OBVIOUS
<1>2. r = Bot!FlattenSeq([i \in DOMAIN s |-> IF i \in K THEN <<s[i]>> ELSE <<>>])
  <2>1. [i \in DOMAIN s |-> IF i \in K THEN <<s[i]>> ELSE <<>>] =
        [i \in DOMAIN s |-> IF s[i].role = kind THEN <<s[i]>> ELSE <<>>]
    BY <1>1
  <2> QED
    BY <2>1 DEF Bot!Of, Bot!Those
<1>3. \A x : (\E i \in K : s[i] = x) <=> In(s, x) /\ x.role = kind
  BY DEF In
<1> HIDE DEF K
<1>4. s \in Seq(MessageOf)
  OBVIOUS
<1>5. r \in Seq(MessageOf)
  BY ONLY <1>1, <1>2, <1>4, Picked
<1>6. \A x : In(r, x) <=> \E i \in K : s[i] = x
  BY ONLY <1>1, <1>2, <1>4, Picked
<1>7. \E of : PartOf(r, s, K, of)
  BY ONLY <1>1, <1>2, <1>4, SelectionPlaces
<1>8. PICK of : PartOf(r, s, K, of)
  BY <1>7
<1>9. ASSUME NoRepeats(s) PROVE NoRepeats(r)
  <2> SUFFICES ASSUME NEW p \in 1..Len(r), NEW q \in 1..Len(r), r[p] = r[q] PROVE p = q
    BY DEF NoRepeats
  <2>1. of[p] \in 1..Len(s) /\ of[q] \in 1..Len(s) /\ r[p] = s[of[p]] /\ r[q] = s[of[q]]
    BY <1>1, <1>8 DEF PartOf
  <2>2. of[p] = of[q]
    BY <2>1, <1>9 DEF NoRepeats
  <2>3. ~(p < q) /\ ~(q < p)
    BY <2>1, <2>2, <1>8 DEF PartOf
  <2> QED
    BY <2>3, <1>5, SeqIs
<1> QED
  BY <1>3, <1>5, <1>6, <1>9

\* What the surface keeps has each message once, all of them real.
LEMMA PastHasNoRepeats ==
  ASSUME BotShape, PastIsSound
  PROVE  /\ past \in Seq(MessageOf) /\ NoRepeats(past)
         /\ \A i \in 1..Len(past) : past[i].real /\ past[i].id \in 1..used
         /\ \A i \in 1..Len(past) : past[i] = Bot!Message(past[i].role, past[i].id)
<1>1. past \in Seq(MessageOf)
  BY DEF BotShape
<1>2. \A i \in 1..Len(past) : Stands(past, i, ran) /\ past[i].id \in 1..used
  BY DEF PastIsSound
<1>3. NoRepeats(past) /\ \A i \in 1..Len(past) : past[i].real
  BY <1>2 DEF NoRepeats, Stands
<1>4. \A i \in 1..Len(past) : past[i] \in MessageOf
  BY <1>1
<1> QED
  BY <1>1, <1>2, <1>3, <1>4 DEF MessageOf, Bot!Message

\* toLangChainMessages makes of the conversation one in which each call is answered.
LEMMA LangChainAnswers ==
  ASSUME BotShape, PastIsSound, NEW r, r = Bot!ToLangChainMessages(past)
  PROVE  /\ r \in Seq(MessageOf)
         /\ \A p \in 1..Len(r) : r[p].id \in 1..used
         /\ \A p \in 1..Len(r) : r[p].role = "assistant" => AnsweredIn(r, p, ran)
<1> DEFINE s == past
           answered == Bot!Ids(Bot!Of("tool", past))
           D == {i \in 1..Len(s) : s[i].role = "assistant" /\ s[i].id \notin answered}
           real == [i \in 1..Len(s) |-> FALSE]
<1>1. /\ s \in Seq(MessageOf) /\ NoRepeats(s) /\ DOMAIN s = 1..Len(s) /\ Len(s) \in Nat
      /\ \A i \in 1..Len(s) : s[i].real /\ s[i].id \in 1..used
      /\ \A i \in 1..Len(s) : s[i] = Bot!Message(s[i].role, s[i].id)
  BY PastHasNoRepeats, SeqIs
<1>2. \A n : n \in answered <=> \E k \in 1..Len(s) : s[k].role = "tool" /\ s[k].id = n
  <2> DEFINE a == Bot!Of("tool", past)
  <2>1. a \in Seq(MessageOf) /\ \A x : In(a, x) <=> In(s, x) /\ x.role = "tool"
    BY <1>1, OfIs
  <2>2. answered = {a[i].id : i \in DOMAIN a}
    BY DEF Bot!Ids
  <2> HIDE DEF a, s
  <2>3. DOMAIN a = 1..Len(a)
    BY <2>1, SeqIs
  <2> QED
    BY <2>1, <2>2, <2>3 DEF In
<1>3. r = Bot!FlattenSeq([i \in DOMAIN s |-> IF i \in D THEN <<s[i], Answering(s[i].id, real[i])>>
                                                        ELSE <<s[i]>>])
  <2>a. \A n, x : [Bot!Message("tool", n) EXCEPT !.real = x] = Answering(n, x)
    BY DEF Bot!Message, Answering
  <2>1. \A n : [Bot!Message("tool", n) EXCEPT !.real = FALSE] = Answering(n, FALSE)
    BY <2>a
  <2>2. r = Bot!FlattenSeq([i \in DOMAIN s |->
              IF s[i].role = "assistant" /\ s[i].id \notin answered
              THEN <<s[i], [Bot!Message("tool", s[i].id) EXCEPT !.real = FALSE]>> ELSE <<s[i]>>])
    BY DEF Bot!ToLangChainMessages
  <2> HIDE DEF answered
  <2>3. [i \in DOMAIN s |-> IF s[i].role = "assistant" /\ s[i].id \notin answered
              THEN <<s[i], [Bot!Message("tool", s[i].id) EXCEPT !.real = FALSE]>> ELSE <<s[i]>>] =
        [i \in DOMAIN s |-> IF i \in D THEN <<s[i], Answering(s[i].id, real[i])>> ELSE <<s[i]>>]
    BY <2>1, <1>1
  <2> QED
    BY <2>2, <2>3
<1>4. D \in SUBSET (1..Len(s)) /\ real \in [1..Len(s) -> BOOLEAN]
  OBVIOUS
<1> HIDE DEF answered
<1>5. \A i \in 1..Len(s) : Stands(s, i, ran)
  BY DEF PastIsSound
<1>6. ASSUME NEW i \in 1..Len(s), s[i].role = "assistant", i \notin D
      PROVE  \E k \in 1..Len(s) : k > i /\ s[k] = Bot!Message("tool", s[i].id)
  <2>1. PICK k \in 1..Len(s) : s[k].role = "tool" /\ s[k].id = s[i].id
    BY <1>2, <1>6
  <2>2. PICK j \in 1..(k - 1) : s[j] = Bot!Message("assistant", s[k].id)
    BY <2>1, <1>5 DEF Stands
  <2>3. j \in 1..Len(s) /\ j < k
    BY <2>2, <1>1
  <2>4. s[j] = s[i]
    BY <2>1, <2>2, <1>1, <1>6
  <2>5. j = i
    BY <2>3, <2>4, <1>1 DEF NoRepeats
  <2>6. s[k] = Bot!Message("tool", s[i].id)
    BY <2>1, <1>1
  <2> QED
    BY <2>3, <2>5, <2>6
<1>7. ASSUME NEW i \in D
      PROVE  /\ s[i].role = "assistant"
             /\ \A k \in 1..Len(s) : s[k].role = "tool" => s[k].id # s[i].id
             /\ s[i].id \in ran => real[i]
  <2>1. s[i].role = "assistant" /\ i \in 1..Len(s) /\ s[i].id \notin answered
    OBVIOUS
  <2>2. \A k \in 1..Len(s) : s[k].role = "tool" => s[k].id # s[i].id
    BY <2>1, <1>2
  <2>3. ASSUME s[i].id \in ran PROVE FALSE
    <3>1. PICK k \in 1..Len(s) : s[k] = Bot!Message("tool", s[i].id)
      BY <2>1, <2>3, <1>5 DEF Stands
    <3> QED
      BY <3>1, <2>2 DEF Bot!Message
  <2> QED
    BY <2>1, <2>2, <2>3
<1> HIDE DEF D, real, s
<1>8. /\ \A i \in 1..Len(s) : s[i].real
      /\ \A i \in 1..Len(s) : s[i].role = "assistant" =>
              i \in D \/ \E k \in 1..Len(s) : k > i /\ s[k] = Bot!Message("tool", s[i].id)
      /\ \A i \in D : /\ s[i].role = "assistant"
                      /\ \A k \in 1..Len(s) : s[k].role = "tool" => s[k].id # s[i].id
                      /\ s[i].id \in ran => real[i]
      /\ s \in Seq(MessageOf) /\ NoRepeats(s)
  BY <1>1, <1>6, <1>7
<1>9. r \in Seq(MessageOf)
  BY ONLY <1>3, <1>4, <1>8, AnswersBehind
<1>10. IdsAreOf(r, s)
  BY ONLY <1>3, <1>4, <1>8, AnswersBehind
<1>11. \A p \in 1..Len(r) : r[p].role = "assistant" => AnsweredIn(r, p, ran)
  BY ONLY <1>3, <1>4, <1>8, AnswersBehind
<1> QED
  BY <1>1, <1>9, <1>10, <1>11 DEF IdsAreOf

\* toProviderMessages does so of any conversation with the messages the surface keeps.
LEMMA ProviderAnswers ==
  ASSUME BotShape, PastIsSound, NEW conv \in Seq(MessageOf), NoRepeats(conv),
         \A x : In(conv, x) <=> In(past, x), NEW r, r = Bot!ToProviderMessages(conv)
  PROVE  /\ r \in Seq(MessageOf)
         /\ \A p \in 1..Len(r) : r[p].id \in 1..used
         /\ \A p \in 1..Len(r) : r[p].role = "assistant" => AnsweredIn(r, p, ran)
<1> DEFINE s == Bot!Of("assistant", conv)
           D == 1..Len(s)
           real == [i \in 1..Len(s) |-> Bot!Message("tool", s[i].id) \in Bot!Range(conv)]
<1>1. s \in Seq(MessageOf) /\ NoRepeats(s) /\ \A x : In(s, x) <=> In(conv, x) /\ x.role = "assistant"
  BY OfIs
<1>2. /\ past \in Seq(MessageOf)
      /\ \A i \in 1..Len(past) : past[i].real /\ past[i].id \in 1..used
  BY PastHasNoRepeats
<1>3. r = Bot!FlattenSeq([i \in DOMAIN s |-> IF i \in D THEN <<s[i], Answering(s[i].id, real[i])>>
                                                        ELSE <<s[i]>>])
  <2>1. \A n, x : [Bot!Message("tool", n) EXCEPT !.real = x] = Answering(n, x)
    BY DEF Bot!Message, Answering
  <2>2. r = Bot!FlattenSeq([i \in DOMAIN s |-> <<s[i], [Bot!Message("tool", s[i].id) EXCEPT
                              !.real = Bot!Message("tool", s[i].id) \in Bot!Range(conv)]>>])
    BY DEF Bot!ToProviderMessages
  <2> HIDE DEF s
  <2>3. DOMAIN s = 1..Len(s)
    BY <1>1, SeqIs
  <2>4. [i \in DOMAIN s |-> <<s[i], [Bot!Message("tool", s[i].id) EXCEPT
                              !.real = Bot!Message("tool", s[i].id) \in Bot!Range(conv)]>>] =
        [i \in DOMAIN s |-> IF i \in D THEN <<s[i], Answering(s[i].id, real[i])>> ELSE <<s[i]>>]
    BY <2>1, <2>3
  <2> QED
    BY <2>2, <2>4
<1> HIDE DEF s
<1>4. D \in SUBSET (1..Len(s)) /\ real \in [1..Len(s) -> BOOLEAN]
  OBVIOUS
<1>5. ASSUME NEW i \in 1..Len(s)
      PROVE  /\ s[i].role = "assistant" /\ s[i].real /\ s[i].id \in 1..used
             /\ s[i].id \in ran => real[i]
  <2>1. In(s, s[i])
    BY DEF In
  <2>2. In(past, s[i]) /\ s[i].role = "assistant"
    BY <2>1, <1>1
  <2>3. PICK k \in 1..Len(past) : past[k] = s[i]
    BY <2>2 DEF In
  <2>4. ASSUME s[i].id \in ran PROVE Bot!Message("tool", s[i].id) \in Bot!Range(conv)
    <3>1. Stands(past, k, ran)
      BY DEF PastIsSound
    <3>2. In(past, Bot!Message("tool", s[i].id))
      BY <3>1, <2>2, <2>3, <2>4 DEF Stands, In
    <3>3. In(conv, Bot!Message("tool", s[i].id))
      BY <3>2
    <3> QED
      BY <3>3, SeqIs DEF In, Bot!Range
  <2> QED
    BY <2>2, <2>3, <2>4, <1>2
<1>6. \A i \in 1..Len(s) : s[i].role # "tool"
  BY <1>5
<1> HIDE DEF real
<1>7. /\ \A i \in 1..Len(s) : s[i].real
      /\ \A i \in 1..Len(s) : s[i].role = "assistant" =>
              i \in D \/ \E k \in 1..Len(s) : k > i /\ s[k] = Bot!Message("tool", s[i].id)
      /\ \A i \in D : /\ s[i].role = "assistant"
                      /\ \A k \in 1..Len(s) : s[k].role = "tool" => s[k].id # s[i].id
                      /\ s[i].id \in ran => real[i]
      /\ s \in Seq(MessageOf) /\ NoRepeats(s)
  BY <1>1, <1>5, <1>6
<1> HIDE DEF D
<1>8. r \in Seq(MessageOf)
  BY ONLY <1>3, <1>4, <1>7, AnswersBehind
<1>9. IdsAreOf(r, s)
  BY ONLY <1>3, <1>4, <1>7, AnswersBehind
<1>10. \A p \in 1..Len(r) : r[p].role = "assistant" => AnsweredIn(r, p, ran)
  BY ONLY <1>3, <1>4, <1>7, AnswersBehind
<1> QED
  BY <1>5, <1>8, <1>9, <1>10 DEF IdsAreOf

\* The store gives the conversation back with the results first: the messages are the same.
LEMMA ResultsFirst ==
  ASSUME BotShape, PastIsSound, NEW conv, conv = Bot!Of("tool", past) \o Bot!Of("assistant", past)
  PROVE  conv \in Seq(MessageOf) /\ NoRepeats(conv) /\ \A x : In(conv, x) <=> In(past, x)
<1> DEFINE a == Bot!Of("tool", past)
           b == Bot!Of("assistant", past)
<1>1. past \in Seq(MessageOf) /\ NoRepeats(past) /\ \A i \in 1..Len(past) : past[i] \in MessageOf
  BY PastHasNoRepeats, SeqIs
<1>2. /\ a \in Seq(MessageOf) /\ NoRepeats(a) /\ \A x : In(a, x) <=> In(past, x) /\ x.role = "tool"
      /\ b \in Seq(MessageOf) /\ NoRepeats(b) /\ \A x : In(b, x) <=> In(past, x) /\ x.role = "assistant"
  BY <1>1, OfIs
<1>3. conv = a \o b
  OBVIOUS
<1> HIDE DEF a, b
<1>4. \A x : In(conv, x) <=> In(a, x) \/ In(b, x)
  BY ONLY <1>2, <1>3, InJoined
<1>5. /\ conv \in Seq(MessageOf) /\ Len(a) \in Nat /\ Len(b) \in Nat /\ Len(conv) = Len(a) + Len(b)
      /\ \A i \in 1..Len(a) : conv[i] = a[i]
      /\ \A i \in 1..Len(b) : conv[Len(a) + i] = b[i]
  BY ONLY <1>2, <1>3, Joined
<1>6. \A i \in 1..Len(conv) : i \in 1..Len(a) \/ \E j \in 1..Len(b) : i = Len(a) + j
  BY ONLY <1>2, <1>3, JoinedPlaces
<1>7. \A x : In(past, x) => x.role = "tool" \/ x.role = "assistant"
  BY <1>1 DEF In, MessageOf
<1>8. /\ \A i \in 1..Len(a) : a[i].role = "tool"
      /\ \A i \in 1..Len(b) : b[i].role = "assistant"
  BY <1>2 DEF In
<1>9. NoRepeats(conv)
  <2> SUFFICES ASSUME NEW i \in 1..Len(conv), NEW j \in 1..Len(conv), conv[i] = conv[j] PROVE i = j
    BY DEF NoRepeats
  <2>1. CASE i \in 1..Len(a) /\ j \in 1..Len(a)
    BY <2>1, <1>2, <1>5 DEF NoRepeats
  <2>2. ASSUME NEW l \in 1..Len(b), NEW m \in 1..Len(b), i = Len(a) + l, j = Len(a) + m PROVE i = j
    <3>1. b[l] = b[m]
      BY <2>2, <1>5
    <3>2. l = m
      BY <3>1, <1>2 DEF NoRepeats
    <3> QED
      BY <3>2, <2>2
  <2>3. ASSUME NEW l \in 1..Len(b), i \in 1..Len(a), j = Len(a) + l PROVE FALSE
    BY <2>3, <1>5, <1>8
  <2>4. ASSUME NEW l \in 1..Len(b), j \in 1..Len(a), i = Len(a) + l PROVE FALSE
    BY <2>4, <1>5, <1>8
  <2> QED
    BY <2>1, <2>2, <2>3, <2>4, <1>6
<1> QED
  BY <1>2, <1>4, <1>5, <1>7, <1>9

\* A run begins, from a conversation with the messages the surface keeps.
LEMMA RunAgentKeeps == ReadBack = FALSE /\ BotInv /\ Bot!RunAgent => BotInv'
<1> SUFFICES ASSUME ReadBack = FALSE, BotInv, Bot!RunAgent PROVE BotInv'
  OBVIOUS
<1> DEFINE e == Bot!Event("RUN_STARTED", 0)
<1>1. /\ node' = "answer" /\ spoke' = FALSE /\ calls' = <<>> /\ relay' = "on" /\ textOpen' = FALSE
      /\ pending' = <<>> /\ sent' = <<e>> /\ since' = used /\ queue' = <<>>
      /\ UNCHANGED <<byHand, ran, used, past>>
  BY DEF Bot!RunAgent
<1>2. PICK conv \in Bot!Arrives : given' = IF byHand THEN Bot!ToProviderMessages(conv)
                                                     ELSE Bot!ToLangChainMessages(conv)
  BY DEF Bot!RunAgent
<1>3. conv = past \/ (byHand /\ conv = Bot!Of("tool", past) \o Bot!Of("assistant", past))
  BY DEF Bot!Arrives
<1>4. BotShape /\ PastIsSound
  BY DEF BotInv
<1>5. /\ given' \in Seq(MessageOf)
      /\ \A p \in 1..Len(given') : given'[p].id \in 1..used
      /\ \A p \in 1..Len(given') : given'[p].role = "assistant" => AnsweredIn(given', p, ran)
  <2>1. CASE byHand
    <3>1. conv \in Seq(MessageOf) /\ NoRepeats(conv) /\ \A x : In(conv, x) <=> In(past, x)
      <4>1. CASE conv = past
        BY <4>1, <1>4, PastHasNoRepeats
      <4>2. CASE conv = Bot!Of("tool", past) \o Bot!Of("assistant", past)
        BY <4>2, <1>4, ResultsFirst
      <4> QED
        BY <4>1, <4>2, <1>3
    <3>2. given' = Bot!ToProviderMessages(conv)
      BY <2>1, <1>2
    <3> QED
      BY <3>1, <3>2, <1>4, ProviderAnswers
  <2>2. CASE ~byHand
    <3>1. given' = Bot!ToLangChainMessages(past)
      BY <2>2, <1>2, <1>3
    <3> QED
      BY <3>1, <1>4, LangChainAnswers
  <2> QED
    BY <2>1, <2>2
<1>6. e \in EventOf /\ e.type = "RUN_STARTED" /\ ~Bot!IsCall(e)
  BY DEF Bot!Event, EventOf, TypesSent, Bot!IsCall
<1> HIDE DEF e
<1>7. /\ sent' \in Seq(EventOf) /\ Len(sent') = 1 /\ sent'[1] = e /\ sent' # <<>>
      /\ DOMAIN sent' = 1..1
  BY <1>1, <1>6
<1>8. \A kind \in {"TOOL_CALL", "TOOL_CALL_RESULT"} : \A n : ~In(sent', Bot!Event(kind, n))
  BY <1>6, <1>7 DEF In, Bot!IsCall, Bot!Event
<1>9. Going(sent') /\ ~EndsOpen(sent')
  <2>1. Going(sent')
    BY <1>6, <1>7 DEF Going, OpenIn, Bot!Closing, Bot!Outside, Bot!InMessage
  <2>2. ~EndsOpen(sent')
    BY <1>6, <1>7 DEF EndsOpen, OpenIn
  <2> QED
    BY <2>1, <2>2
<1>10. Bot!StreamIsWellFormed' /\ RelayFollows'
  BY <1>1, <1>7, <1>9, GoesOn
<1>11. FinishedIsOver' /\ Bot!FinishedTellsAll'
  BY <1>1, <1>7, <1>10, GoingIsUnfinished
<1>12. used \in Nat /\ (used + 1)..used = {} /\ ran \subseteq 1..used
  BY DEF BotInv, BotShape
<1>13. ToldIsOfRun'
  BY <1>1, <1>6, <1>7, <1>12 DEF ToldIsOfRun
<1>14. CallsAreLast'
  BY <1>1, <1>12 DEF CallsAreLast
<1>15. \A kind, c : ~Carried(queue', kind, c)
  BY <1>1 DEF Carried
<1>16. CallsAreKept'
  <2>1. \A c : ~In(pending', c)
    BY <1>1 DEF In
  <2>2. Distinct(pending') /\ Once(queue', "model")
    BY <1>1 DEF Distinct, Once
  <2> QED
    BY <2>1, <2>2, <1>1, <1>12, <1>15 DEF CallsAreKept
<1>17. ResultsFollow'
  <2>1. Once(queue', "tools") /\ \A k \in 1..Len(queue') : FALSE
    BY <1>1 DEF Once
  <2>2. \A n \in ran : ~(n > used)
    BY <1>12
  <2> QED
    BY <2>1, <2>2, <1>1 DEF ResultsFollow
<1>18. PastIsSound'
  <2>1. \A i \in 1..Len(past) : past[i].id \in 1..used /\ Stands(past, i, ran) /\ ~(past[i].id > used)
    BY <1>12 DEF BotInv, PastIsSound
  <2> QED
    BY <2>1, <1>1 DEF PastIsSound
<1>19. GivenIsSound'
  BY <1>1, <1>5 DEF GivenIsSound
<1>20. BotShape'
  <2>1. Bot!Ids(pending)' = {}
    BY <1>1 DEF Bot!Ids
  <2>2. queue' \in Seq(Emitted) /\ pending' \in Seq(CallOf) /\ calls' \in Seq(CallOf)
    BY <1>1
  <2>3. BotShape
    BY DEF BotInv
  <2>4. byHand' \in BOOLEAN /\ spoke' \in BOOLEAN /\ textOpen' \in BOOLEAN
    BY <2>3, <1>1 DEF BotShape
  <2>5. node' = "answer" /\ relay' = "on" /\ past' \in Seq(MessageOf)
    BY <2>3, <1>1 DEF BotShape
  <2>6. used' \in Nat /\ since' \in Nat /\ since' <= used' /\ ran' \subseteq 1..used'
    BY <2>3, <1>1 DEF BotShape
  <2> QED
    BY <2>1, <2>2, <2>4, <2>5, <2>6, <1>5, <1>7 DEF BotShape
<1> QED
  BY <1>10, <1>11, <1>13, <1>14, <1>16, <1>17, <1>18, <1>19, <1>20 DEF BotInv

\* Before the first run nothing was told and nothing is kept.
LEMMA BotBegins == Bot!Init => BotInv
<1> SUFFICES ASSUME Bot!Init PROVE BotInv
  OBVIOUS
<1>1. /\ byHand \in BOOLEAN /\ node = "none" /\ spoke = FALSE /\ calls = <<>> /\ ran = {} /\ used = 0
      /\ queue = <<>> /\ relay = "none" /\ textOpen = FALSE /\ pending = <<>> /\ sent = <<>>
      /\ since = 0 /\ given = <<>> /\ past = <<>>
  BY DEF Bot!Init
<1>2. BotShape
  <2>1. Bot!Ids(pending) = {}
    BY <1>1 DEF Bot!Ids
  <2>2. calls \in Seq(CallOf) /\ pending \in Seq(CallOf) /\ queue \in Seq(Emitted)
    BY <1>1
  <2>3. sent \in Seq(EventOf) /\ given \in Seq(MessageOf) /\ past \in Seq(MessageOf)
    BY <1>1
  <2>4. byHand \in BOOLEAN /\ spoke \in BOOLEAN /\ textOpen \in BOOLEAN
    BY <1>1
  <2>5. used \in Nat /\ since \in Nat /\ since <= used /\ ran \subseteq 1..used
    BY <1>1
  <2> QED
    BY <2>1, <2>2, <2>3, <2>4, <2>5, <1>1 DEF BotShape
<1>3. CallsAreLast /\ ToldIsOfRun /\ FinishedIsOver /\ PastIsSound /\ GivenIsSound
  BY <1>1 DEF CallsAreLast, ToldIsOfRun, FinishedIsOver, PastIsSound, GivenIsSound
<1>4. RelayFollows /\ CallsAreKept /\ ResultsFollow
  BY <1>1 DEF RelayFollows, CallsAreKept, ResultsFollow
<1>5. Bot!StreamIsWellFormed /\ Bot!FinishedTellsAll
  BY <1>1 DEF Bot!StreamIsWellFormed, Bot!FinishedTellsAll
<1> QED
  BY <1>2, <1>3, <1>4, <1>5 DEF BotInv

\* Every step of the loop leaves it so, and so does a step of something else.
LEMMA BotInvStays == ReadBack = FALSE /\ BotInv /\ [Bot!Next]_loopVars => BotInv'
<1> SUFFICES ASSUME ReadBack = FALSE, BotInv, [Bot!Next]_loopVars PROVE BotInv'
  OBVIOUS
<1>1. CASE UNCHANGED loopVars
  <2>1. UNCHANGED <<byHand, node, spoke, calls, ran, used, queue, relay, textOpen, pending, sent,
                    since, given, past>>
    BY <1>1 DEF loopVars
  <2>2. BotShape'
    BY <2>1 DEF BotInv, BotShape, Bot!Ids
  <2>3. /\ CallsAreLast' /\ ToldIsOfRun' /\ Bot!StreamIsWellFormed' /\ RelayFollows' /\ CallsAreKept'
        /\ ResultsFollow' /\ FinishedIsOver' /\ Bot!FinishedTellsAll' /\ PastIsSound' /\ GivenIsSound'
    BY <2>1, Unmoved DEF BotInv
  <2> QED
    BY <2>2, <2>3 DEF BotInv
<1>2. CASE Bot!RunAgent
  BY <1>2, RunAgentKeeps
<1>3. CASE Bot!Speaks \/ Bot!Answer \/ Bot!Fails
  BY <1>3, SpeaksKeeps, AnswerKeeps, FailsKeeps
<1>4. CASE Bot!ToolsEnd \/ \E i \in DOMAIN calls : Bot!CallTool(calls[i])
  BY <1>4, ToolsEndKeeps, CallToolKeeps
<1>5. CASE Bot!OnStream \/ Bot!OnModelEnd \/ Bot!OnToolsEnd
  BY <1>5, OnStreamKeeps, OnModelEndKeeps, OnToolsEndKeeps
<1>6. CASE Bot!RunFinished \/ Bot!RunError \/ Bot!RunErrorByHand
  BY <1>6, RunFinishedKeeps, RunErrorsKeep
<1>7. CASE Bot!Cancelled \/ Bot!SurfaceAnswers
  BY <1>7, CancelledKeeps, SurfaceAnswersKeeps
<1> QED
  BY <1>1, <1>2, <1>3, <1>4, <1>5, <1>6, <1>7 DEF Bot!Next

\* The steps of the deployment are steps of the loop, or leave it alone.
LEMMA BotSteps == [Next]_vars => [Bot!Next]_loopVars
BY DEF Next, vars, Work, Administration

\* The answers of a model's conversation are what the sets of the property say.
LEMMA SoundIsAnswered == BotInv => Bot!EveryCallAnswered
<1> SUFFICES ASSUME BotInv, node = "answer", NEW i \in DOMAIN given, given[i].role = "assistant"
             PROVE  LET answer == {j \in DOMAIN given : given[j].role = "tool" /\ given[j].id = given[i].id}
                    IN  /\ \E j \in answer : j > i /\ answer = {j}
                        /\ \A j \in DOMAIN given : given[j] = given[i] => j = i
                        /\ given[i].id \in ran => \A j \in answer : given[j].real
  BY DEF Bot!EveryCallAnswered
<1>1. DOMAIN given = 1..Len(given)
  BY SeqIs DEF BotInv, BotShape
<1>2. AnsweredIn(given, i, ran)
  BY <1>1 DEF BotInv, GivenIsSound
<1>3. PICK j \in 1..Len(given) :
         /\ j > i /\ given[j].role = "tool" /\ given[j].id = given[i].id
         /\ given[i].id \in ran => given[j].real
         /\ \A l \in 1..Len(given) : given[l].role = "tool" /\ given[l].id = given[i].id => l = j
  BY <1>2 DEF AnsweredIn
<1>4. {l \in DOMAIN given : given[l].role = "tool" /\ given[l].id = given[i].id} = {j}
  BY <1>1, <1>3
<1>5. \A l \in DOMAIN given : given[l] = given[i] => l = i
  BY <1>1, <1>2 DEF AnsweredIn
<1> QED
  BY <1>3, <1>4, <1>5

\* A run is offered what its Bot was granted and a tool is called for a run that was sent; what a Bot
\* that runs elsewhere streams can be followed, a run that finished told each of its calls, and the
\* model is shown every call with one answer behind it (toLangChainMessages, toProviderMessages), so
\* long as the LangGraph Bot is sent conversations in the order they were held.
THEOREM RunsKeptAlways == ReadBack = FALSE => (Spec => []RunsKept)
<1> SUFFICES ASSUME ReadBack = FALSE PROVE Spec => []RunsKept
  OBVIOUS
<1>1. Init => BotInv
  BY BotBegins DEF Init
<1>2. BotInv /\ [Next]_vars => BotInv'
  BY BotInvStays, BotSteps
<1>3. BotInv => Bot!StreamIsWellFormed /\ Bot!FinishedTellsAll /\ Bot!EveryCallAnswered
  BY SoundIsAnswered DEF BotInv
<1>4. Turn!OfferIsFresh /\ Turn!CallIsOfItsRun /\ Bot!StreamIsWellFormed /\ Bot!FinishedTellsAll
        /\ Bot!EveryCallAnswered => RunsKept
  BY DEF RunsKept
<1> QED
  BY <1>1, <1>2, <1>3, <1>4, RunsAreOwnAlways, PTL DEF Spec

-----------------------------------------------------------------------------
(***************************************************************************)
(* What a Bot's loop keeps has the shape the code gives it, and with what  *)
(* DeploymentProofs shows of the other machines, so has a deployment.      *)
(***************************************************************************)

\* The calls a model may have made when n ids were given out, and the events that carry some.
CallUpTo(n) == [id : 1..n, ours : BOOLEAN]
EventUpTo(n) == [type : {"stream", "model", "tools"}, calls : Seq(CallUpTo(n))]
LoopShape ==
  /\ node \in {"none", "answer", "tools", "end", "failed"} /\ relay \in {"none", "on", "closed"}
  /\ used \in 0..MaxCalls /\ ran \subseteq 1..used
  /\ calls \in Seq(CallUpTo(used)) /\ pending \in Seq(CallUpTo(used)) /\ queue \in Seq(EventUpTo(used))

\* More ids name no fewer calls.
LEMMA UpToMore ==
  ASSUME NEW n \in Nat, NEW m \in Nat, n <= m
  PROVE  /\ 1..n \subseteq 1..m /\ Seq(CallUpTo(n)) \subseteq Seq(CallUpTo(m))
         /\ Seq(EventUpTo(n)) \subseteq Seq(EventUpTo(m))
<1>1. 1..n \subseteq 1..m
  OBVIOUS
<1>2. CallUpTo(n) \subseteq CallUpTo(m)
  BY <1>1 DEF CallUpTo
<1>3. Seq(CallUpTo(n)) \subseteq Seq(CallUpTo(m))
  BY <1>2
<1>4. EventUpTo(n) \subseteq EventUpTo(m)
  BY <1>3 DEF EventUpTo
<1>5. Seq(EventUpTo(n)) \subseteq Seq(EventUpTo(m))
  BY <1>4
<1> QED
  BY <1>1, <1>3, <1>5

\* What passes a test is of the same kind.
LEMMA ThoseAre ==
  ASSUME NEW T, NEW s \in Seq(T), NEW K \in SUBSET (1..Len(s)), NEW r,
         r = Bot!FlattenSeq([i \in DOMAIN s |-> IF i \in K THEN <<s[i]>> ELSE <<>>])
  PROVE  r \in Seq(T)
  BY SelectionPlaces

\* The ids of calls up to n are ids up to n.
LEMMA IdsAre ==
  ASSUME NEW n \in Nat, NEW s \in Seq(CallUpTo(n))
  PROVE  Bot!Ids(s) \subseteq 1..n
<1>1. \A i \in DOMAIN s : s[i] \in CallUpTo(n)
  BY SeqIs
<1> QED
  BY <1>1 DEF Bot!Ids, CallUpTo

\* The calls that are made here are some of the calls.
LEMMA OursUpTo ==
  ASSUME LoopShape
  PROVE  Bot!Ours \in Seq(CallUpTo(used))
<1> DEFINE K == {i \in 1..Len(calls) : calls[i].ours}
<1>1. calls \in Seq(CallUpTo(used)) /\ DOMAIN calls = 1..Len(calls)
  BY SeqIs DEF LoopShape
<1>2. [i \in DOMAIN calls |-> IF calls[i].ours THEN <<calls[i]>> ELSE <<>>] =
        [i \in DOMAIN calls |-> IF i \in K THEN <<calls[i]>> ELSE <<>>]
  BY <1>1
<1>3. Bot!Ours = Bot!FlattenSeq([i \in DOMAIN calls |-> IF i \in K THEN <<calls[i]>> ELSE <<>>])
  BY <1>2 DEF Bot!Ours, Bot!Those
<1>4. K \in SUBSET (1..Len(calls))
  OBVIOUS
<1> HIDE DEF K
<1> QED
  BY <1>1, <1>3, <1>4, ThoseAre

\* Every step of a Bot and of its run keeps their shape.
LEMMA LoopShapeStays == LoopShape /\ [Bot!Next]_loopVars => LoopShape'
<1> SUFFICES ASSUME LoopShape, [Bot!Next]_loopVars PROVE LoopShape'
  OBVIOUS
<1> DEFINE CS == Seq(CallUpTo(used))
           Q == Seq(EventUpTo(used))
<1>0. /\ node \in {"none", "answer", "tools", "end", "failed"} /\ relay \in {"none", "on", "closed"}
      /\ used \in 0..MaxCalls /\ used \in Nat /\ ran \subseteq 1..used
      /\ calls \in CS /\ pending \in CS /\ queue \in Q
  BY BoundsAssumption DEF LoopShape
<1>1. <<>> \in CS /\ <<>> \in Q
  OBVIOUS
<1>2. ASSUME NEW type \in {"stream", "model", "tools"}, NEW cs, NEW n, cs \in Seq(CallUpTo(n)), queue \in Seq(EventUpTo(n)),
             Bot!Emits(type, cs)
      PROVE  queue' \in Seq(EventUpTo(n))
  <2>1. [type |-> type, calls |-> cs] \in EventUpTo(n)
    BY <1>2 DEF EventUpTo
  <2>2. Append(queue, [type |-> type, calls |-> cs]) \in Seq(EventUpTo(n))
    BY <1>2, <2>1
  <2> QED
    BY <1>2, <2>2 DEF Bot!Emits
<1>3. CASE Bot!RunAgent
  <2>1. /\ node' = "answer" /\ relay' = "on" /\ UNCHANGED <<used, ran>>
        /\ calls' = <<>> /\ pending' = <<>> /\ queue' = <<>>
    BY <1>3 DEF Bot!RunAgent
  <2> QED
    BY <1>0, <1>1, <2>1 DEF LoopShape
<1>4. CASE Bot!Speaks
  <2>1. UNCHANGED <<node, calls, ran, used, relay, pending>> /\ Bot!Emits("stream", <<>>)
    BY <1>4 DEF Bot!Speaks, Bot!Apart, Bot!relayVars
  <2>2. queue' \in Q
    BY <1>0, <1>1, <1>2, <2>1
  <2> QED
    BY <1>0, <2>1, <2>2 DEF LoopShape
<1>5. CASE Bot!Answer
  <2>1. PICK n \in 0..2 : \E ours \in [1..n -> IF byHand THEN {FALSE} ELSE BOOLEAN] :
          /\ used + n <= MaxCalls
          /\ calls' = [i \in 1..n |-> [id |-> used + i, ours |-> ours[i]]]
          /\ used' = used + n
    BY <1>5 DEF Bot!Answer
  <2>2. PICK ours \in [1..n -> BOOLEAN] :
          /\ used + n <= MaxCalls
          /\ calls' = [i \in 1..n |-> [id |-> used + i, ours |-> ours[i]]]
          /\ used' = used + n
    BY <2>1
  <2>3. used' \in 0..MaxCalls /\ used' \in Nat /\ used <= used'
    BY <1>0, <2>2, BoundsAssumption
  <2>4. calls' \in Seq(CallUpTo(used'))
    <3>1. ASSUME NEW i \in 1..n PROVE [id |-> used + i, ours |-> ours[i]] \in CallUpTo(used')
      <4>1. used + i \in 1..used' /\ ours[i] \in BOOLEAN
        BY <1>0, <2>2
      <4> QED
        BY <4>1 DEF CallUpTo
    <3>2. calls' \in [1..n -> CallUpTo(used')]
      BY <2>2, <3>1
    <3> QED
      BY <3>2, IsSeq
  <2>5. ran \subseteq 1..used' /\ pending \in Seq(CallUpTo(used')) /\ queue \in Seq(EventUpTo(used'))
    BY <1>0, <2>3, UpToMore
  <2>6. queue' \in Seq(EventUpTo(used'))
    <3>1. Bot!Emits("model", calls')
      BY <1>5 DEF Bot!Answer
    <3> HIDE DEF Q, CS
    <3> QED
      BY <1>2, <2>4, <2>5, <3>1
  <2>7. node' \in {"end", "tools"} /\ UNCHANGED <<ran, relay, pending>>
    BY <1>5 DEF Bot!Answer, Bot!After, Bot!Apart, Bot!relayVars
  <2> QED
    BY <1>0, <2>3, <2>4, <2>5, <2>6, <2>7 DEF LoopShape
<1>6. CASE Bot!Fails
  BY <1>0, <1>6 DEF Bot!Fails, Bot!Apart, Bot!relayVars, LoopShape
<1>7. CASE Bot!ToolsEnd
  <2>1. UNCHANGED <<calls, ran, used, relay, pending>> /\ Bot!Emits("tools", Bot!Ours) /\ node' = "answer"
    BY <1>7 DEF Bot!ToolsEnd, Bot!Apart, Bot!relayVars
  <2>2. Bot!Ours \in CS
    BY OursUpTo
  <2>3. queue' \in Q
    BY <1>0, <1>2, <2>1, <2>2
  <2> QED
    BY <1>0, <2>1, <2>3 DEF LoopShape
<1>8. ASSUME NEW i \in DOMAIN calls, Bot!CallTool(calls[i]) PROVE LoopShape'
  <2>1. calls[i].id \in 1..used
    <3>1. calls[i] \in CallUpTo(used)
      BY <1>0, SeqIs
    <3> QED
      BY <3>1 DEF CallUpTo
  <2>2. UNCHANGED <<node, calls, used, queue, relay, pending>> /\ ran' = ran \cup {calls[i].id}
    BY <1>8 DEF Bot!CallTool, Bot!Apart, Bot!relayVars
  <2> QED
    BY <1>0, <2>1, <2>2 DEF LoopShape
<1>9. ASSUME NEW type, Bot!Seen(type)
      PROVE  queue' \in Q /\ queue[1].calls \in CS
  <2>1. queue # <<>> /\ queue' = Tail(queue)
    BY <1>9 DEF Bot!Seen
  <2>2. queue' \in Q /\ queue[1] \in EventUpTo(used)
    BY <1>0, <2>1
  <2> QED
    BY <2>2 DEF EventUpTo
<1>10. CASE Bot!OnStream
  <2>1. UNCHANGED <<node, calls, used, ran, relay, pending>> /\ Bot!Seen("stream")
    BY <1>10 DEF Bot!OnStream, Bot!Beside, Bot!graphVars
  <2> QED
    BY <1>0, <1>9, <2>1 DEF LoopShape
<1>11. CASE Bot!OnModelEnd
  <2>1. /\ UNCHANGED <<node, calls, used, ran, relay>> /\ Bot!Seen("model")
        /\ pending' = pending \o queue[1].calls
    BY <1>11 DEF Bot!OnModelEnd, Bot!Beside, Bot!graphVars
  <2>2. queue' \in Q /\ queue[1].calls \in CS
    BY <1>9, <2>1
  <2>3. pending \o queue[1].calls \in CS
    BY <1>0, <2>2
  <2> QED
    BY <1>0, <2>1, <2>2, <2>3 DEF LoopShape
<1>12. CASE Bot!OnToolsEnd
  <2>1. /\ UNCHANGED <<node, calls, used, ran, relay>> /\ Bot!Seen("tools")
        /\ pending' = Bot!Those(pending, LAMBDA c : c \notin Bot!Range(queue[1].calls))
    BY <1>12 DEF Bot!OnToolsEnd, Bot!Beside, Bot!graphVars
  <2> DEFINE K == {i \in 1..Len(pending) : pending[i] \notin Bot!Range(queue[1].calls)}
  <2>2. DOMAIN pending = 1..Len(pending)
    BY <1>0
  <2>3. [i \in DOMAIN pending |-> IF pending[i] \notin Bot!Range(queue[1].calls) THEN <<pending[i]>> ELSE <<>>] =
        [i \in DOMAIN pending |-> IF i \in K THEN <<pending[i]>> ELSE <<>>]
    BY <2>2
  <2>4. pending' = Bot!FlattenSeq([i \in DOMAIN pending |-> IF i \in K THEN <<pending[i]>> ELSE <<>>])
    BY <2>1, <2>3 DEF Bot!Those
  <2>5. K \in SUBSET (1..Len(pending))
    OBVIOUS
  <2> HIDE DEF K
  <2>6. pending' \in CS
    BY <1>0, <2>4, <2>5, ThoseAre
  <2>7. queue' \in Q
    BY <1>9, <2>1
  <2> QED
    BY <1>0, <2>1, <2>6, <2>7 DEF LoopShape
<1>13. CASE Bot!RunFinished
  <2>1. UNCHANGED <<node, calls, used, ran, queue>> /\ relay' = "closed" /\ pending' = <<>>
    BY <1>13 DEF Bot!RunFinished, Bot!Beside, Bot!graphVars
  <2> QED
    BY <1>0, <1>1, <2>1 DEF LoopShape
<1>14. CASE Bot!RunError \/ Bot!RunErrorByHand \/ Bot!Cancelled
  <2>1. UNCHANGED <<node, calls, used, ran, pending>> /\ relay' = "closed" /\ queue' = <<>>
    BY <1>14 DEF Bot!RunError, Bot!RunErrorByHand, Bot!Throws, Bot!Cancelled, Bot!Beside, Bot!graphVars
  <2> QED
    BY <1>0, <1>1, <2>1 DEF LoopShape
<1>15. CASE Bot!SurfaceAnswers \/ UNCHANGED loopVars
  <2>1. UNCHANGED <<node, calls, used, ran, pending, relay, queue>>
    BY <1>15 DEF Bot!SurfaceAnswers, Bot!graphVars, Bot!relayVars, loopVars
  <2> QED
    BY <1>0, <2>1 DEF LoopShape
<1> QED
  BY <1>3, <1>4, <1>5, <1>6, <1>7, <1>8, <1>10, <1>11, <1>12, <1>13, <1>14, <1>15 DEF Bot!Next

\* The shape gives the types.
LEMMA LoopShapeIs == LoopShape => Bot!TypeOK
<1> SUFFICES ASSUME LoopShape PROVE Bot!TypeOK
  OBVIOUS
<1>1. used \in Nat /\ used <= MaxCalls /\ ran \subseteq 1..used
  BY BoundsAssumption DEF LoopShape
<1>2. Bot!Ids(calls) \subseteq 1..used /\ Bot!Ids(pending) \subseteq 1..used
  BY <1>1, IdsAre DEF LoopShape
<1> QED
  BY <1>1, <1>2 DEF LoopShape, Bot!TypeOK

\* Before the first step every machine has its shape.
LEMMA ShapesBegin ==
  Init => /\ ShelfShape /\ TurnShape /\ Engine!TypeOK /\ VendorShape /\ FolkShape /\ LoopShape
          /\ CopyShape /\ SaidShape /\ restarts \in 0..MaxRestarts
<1> SUFFICES ASSUME Init
             PROVE  /\ ShelfShape /\ TurnShape /\ Engine!TypeOK /\ VendorShape /\ FolkShape /\ LoopShape
                    /\ CopyShape /\ SaidShape /\ restarts \in 0..MaxRestarts
  OBVIOUS
<1>1. ShelfShape
  <2>1. Shelf!Init
    BY DEF Init
  <2>2. Shelf!TypeOK
    BY <2>1 DEF Shelf!Init, Shelf!TypeOK, Shelf!Unsent
  <2>3. Shelf!Unsent \in AskedOfShelf /\ Shelf!Unsent.step = "unsent"
    BY DEF Shelf!Unsent, AskedOfShelf
  <2> QED
    BY <2>1, <2>2, <2>3 DEF Shelf!Init, ShelfShape
<1>2. TurnShape
  <2>1. Turn!Init
    BY DEF Init
  <2>2. Turn!Unsent \in RunOfBot /\ Turn!Unsent.step = "unsent"
    BY BoundsAssumption DEF Turn!Unsent, RunOfBot
  <2>3. turn \in [Turns -> RunOfBot] /\ \A r \in Turns : turn[r].step = "unsent"
    BY <2>1, <2>2 DEF Turn!Init
  <2>4. /\ minute \in 0..MaxTime /\ changes \in 0..MaxChanges /\ grant \in [RunBots -> SUBSET Tools]
        /\ callback \in [RunBots -> [last : 1..(changes + 1), stored : BOOLEAN]]
    BY <2>1, BoundsAssumption DEF Turn!Init
  <2> QED
    BY <2>3, <2>4 DEF TurnShape
<1>3. Engine!TypeOK
  BY BoundsAssumption DEF Init, Engine!Init, Engine!TypeOK, Engine!FiringType
<1>4. VendorShape
  <2>1. Vendors!Init
    BY DEF Init
  <2>2. Vendors!Unmade \in MadeCall /\ Vendors!Quiet \in Refreshed
    BY DEF Vendors!Unmade, Vendors!Quiet, MadeCall, Refreshed
  <2>3. /\ refresh \in [Vendors!Servers -> Refreshed] /\ call \in [Calls -> MadeCall]
        /\ rows \in [Calls -> Seq(Vendors!Events)]
    BY <2>1, <2>2 DEF Vendors!Init
  <2>4. \A n \in Vendors!Servers : held[n] = {} /\ refresh[n].step = "none" /\ refresh[n].list = {}
    BY <2>1 DEF Vendors!Init, Vendors!Quiet
  <2>5. \A c \in Calls : call[c].step = "unmade" /\ call[c].outcome = "unasked"
                         /\ rows[c] \in Seq(Vendors!Events)
    <3>1. Vendors!Unmade.step = "unmade" /\ Vendors!Unmade.outcome = "unasked"
      BY DEF Vendors!Unmade
    <3>2. \A c \in Calls : call[c] = Vendors!Unmade
      BY <2>1 DEF Vendors!Init
    <3> QED
      BY <2>3, <3>1, <3>2
  <2>6. held \in [Vendors!Servers -> SUBSET Tools] /\ edits \in 0..MaxEdits /\ callFaults \in 0..MaxFaults
    BY <2>1, BoundsAssumption DEF Vendors!Init
  <2>7. added = {} /\ failing = {} /\ seen = {} /\ granted = {} /\ forbids = {}
    BY <2>1 DEF Vendors!Init
  <2>8. Vendors!TypeOK
    BY <2>4, <2>5, <2>6, <2>7 DEF Vendors!TypeOK
  <2> QED
    BY <2>3, <2>8 DEF VendorShape
<1>5. FolkShape
  <2>1. Folk!Init
    BY DEF Init
  <2>2. Folk!Idle \in ActOf /\ Folk!Idle.step = "unsent" /\ ActFits(Folk!Idle)
    BY DEF Folk!Idle, ActOf, ActFits, Folk!Steps
  <2>3. act = [a \in Folk!Acts |-> Folk!Idle]
    BY <2>1 DEF Folk!Init
  <2>4. act \in [Folk!Acts -> ActOf] /\ \A a \in Folk!Acts : ActFits(act[a]) /\ IsMet(act[a])
    BY <2>2, <2>3 DEF IsMet
  <2>5. Folk!TypeOK
    <3>1. \A a \in Folk!Acts : /\ act[a].step \in Folk!Steps /\ act[a].of \in Persons \cup {NoOne}
                              /\ act[a].set \subseteq Folk!Secrets
      <4>1. /\ Folk!Idle.step \in Folk!Steps /\ Folk!Idle.of \in Persons \cup {NoOne}
            /\ Folk!Idle.set \subseteq Folk!Secrets
        BY DEF Folk!Idle, Folk!Steps
      <4> QED
        BY <2>3, <4>1
    <3>2. /\ role \in [Persons -> Folk!Roles \cup {"none"}]
          /\ owner \in [Folk!Secrets -> Persons \cup {NoOne}]
          /\ pointer \in [Persons -> Folk!Secrets \cup {NoOne}]
          /\ told \in [Persons -> {"nothing", "removed", "here"}]
      BY <2>1 DEF Folk!Init, Folk!Roles
    <3>3. /\ account \subseteq Persons /\ denied \subseteq Persons /\ session \subseteq account
          /\ live = {} /\ faults \in 0..MaxFaults
      BY <2>1, FoundersAssumption, BoundsAssumption DEF Folk!Init
    <3> QED
      BY <3>1, <3>2, <3>3 DEF Folk!TypeOK
  <2> QED
    BY <2>4, <2>5 DEF FolkShape
<1>6. LoopShape
  BY BoundsAssumption DEF Init, Bot!Init, LoopShape
<1>7. CopyShape /\ SaidShape /\ restarts \in 0..MaxRestarts
  <2>1. Runner!Init
    BY DEF Init
  <2>2. Runner!Fresh \in Copies /\ Runner!Fresh.runs = <<>>
    BY DEF Runner!Fresh, Runner!None, Copies
  <2>3. EachOnce(<<>>)
    BY DEF EachOnce
  <2>4. CopyShape
    BY <2>1, <2>2, <2>3 DEF Runner!Init, CopyShape
  <2>5. SaidShape
    BY <2>1 DEF Runner!Init, Runner!None, SaidShape
  <2> QED
    BY <2>1, <2>4, <2>5, BoundsAssumption DEF Runner!Init
<1> QED
  BY <1>1, <1>2, <1>3, <1>4, <1>5, <1>6, <1>7

\* Every variable of a deployment keeps its type: what the machines store, the requests, turns and
\* calls under way in them and the queues between them, with what that rests on. A row of a thread is
\* counted below the number of its runs because the copy names each run once, and a connection is sent
\* no event more than twice because startRun, the agent and finalizeRun say each once.
THEOREM TypesKept == Spec => []TypeOK
<1> DEFINE Shapes == /\ ShelfShape /\ TurnShape /\ Engine!TypeOK /\ VendorShape /\ FolkShape /\ LoopShape
                     /\ CopyShape /\ SaidShape /\ restarts \in 0..MaxRestarts
<1>1. Init => Shapes
  BY ShapesBegin
<1>2. Shapes /\ RunnerInv /\ [Next]_vars => Shapes'
  <2> SUFFICES ASSUME Shapes, RunnerInv, [Next]_vars PROVE Shapes'
    OBVIOUS
  <2>1. ShelfShape' /\ TurnShape' /\ (Engine!TypeOK)'
    BY ShelfShapeStays, ShelfSteps, TurnShapeStays, TurnSteps, EngineShapeStays, EngineSteps
  <2>2. VendorShape' /\ FolkShape' /\ LoopShape'
    BY VendorShapeStays, VendorSteps, FolkShapeStays, FolkSteps, LoopShapeStays, BotSteps
  <2>3. CopyShape' /\ SaidShape' /\ restarts' \in 0..MaxRestarts
    BY CopyShapeStays, SaidShapeStays, RestartsStay, RunnerSteps
  <2> QED
    BY <2>1, <2>2, <2>3
<1>3. Shapes => TypeOK
  <2> SUFFICES ASSUME Shapes PROVE TypeOK
    OBVIOUS
  <2>1. Shelf!TypeOK /\ Vendors!TypeOK /\ Folk!TypeOK
    BY DEF ShelfShape, VendorShape, FolkShape
  <2>2. Runner!TypeOK /\ Bot!TypeOK
    BY RunnerShapeIs, LoopShapeIs
  <2>3. Turn!TypeOK
    <3>1. TurnShape /\ \A n \in 0..MaxChanges : 1..(n + 1) \subseteq 1..(MaxChanges + 1)
      BY BoundsAssumption
    <3>2. \A b \in RunBots : grant[b] \subseteq Tools /\ callback[b].last \in 1..(MaxChanges + 1)
      BY <3>1 DEF TurnShape
    <3>3. \A r \in Turns : turn[r] \in RunOfBot
      BY <3>1 DEF TurnShape
    <3>4. \A r \in Turns : /\ turn[r].step \in {"unsent", "build", "select", "going", "over"}
                           /\ turn[r].until \in 0..(MaxTime + Ttl)
      BY <3>3 DEF RunOfBot
    <3> QED
      BY <3>2, <3>4 DEF Turn!TypeOK
  <2> QED
    BY <2>1, <2>2, <2>3 DEF TypeOK
<1> HIDE DEF Shapes
<1> QED
  BY <1>1, <1>2, <1>3, RunnerInvAlways, PTL DEF Spec
=============================================================================
