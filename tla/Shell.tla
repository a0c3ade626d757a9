------------------------------- MODULE Shell -------------------------------
(***************************************************************************)
(* One command on the Bot's computer (createShell): bash in a process      *)
(* group of its own, its output trimmed as it arrives and again at the     *)
(* end, a timer and the person's Stop that kill the group, and the answer, *)
(* which waits until nothing holds the pipes any more.                     *)
(***************************************************************************)
EXTENDS Naturals

CONSTANTS
    MaxOutput,   \* MAX_OUTPUT_BYTES, in units of output
    MaxWritten,  \* bound on what the command writes to one pipe
    Daemons      \* the command may leave a process in a session of its own on its pipes

VARIABLES
    bash,      \* running, or gone
    group,     \* whether anything else of the process group holds the pipes
    daemon,    \* whether a process outside the group does
    text,      \* per pipe, how much is collected
    dropped,   \* per pipe, whether some was cut as it arrived
    written,   \* history: per pipe, how much the command has written
    timer,     \* armed, fired (timedOut) or cleared
    result     \* the answer, once there is one

vars == <<bash, group, daemon, text, dropped, written, timer, result>>
Pipes == {"stdout", "stderr"}
Pending == [answered |-> FALSE, shown |-> [p \in Pipes |-> 0], truncated |-> FALSE]

TypeOK ==
    /\ bash \in {"running", "gone"} /\ group \in BOOLEAN /\ daemon \in BOOLEAN
    /\ text \in [Pipes -> 0..(2 * MaxOutput)]
    /\ dropped \in [Pipes -> BOOLEAN]
    /\ written \in [Pipes -> 0..MaxWritten]
    /\ timer \in {"armed", "fired", "cleared"}
    /\ result \in [answered : BOOLEAN, shown : [Pipes -> 0..MaxOutput], truncated : BOOLEAN]

Init ==
    /\ bash = "running" /\ group = FALSE /\ daemon = FALSE
    /\ text = [p \in Pipes |-> 0] /\ written = [p \in Pipes |-> 0]
    /\ dropped = [p \in Pipes |-> FALSE]
    /\ timer = "armed" /\ result = Pending

Held == bash = "running" \/ group \/ daemon
output == <<text, dropped, written>>

\* collect: the chunk is added, and past twice the limit only the end is kept.
Writes(p, n) ==
    LET size == text[p] + n
        over == size > 2 * MaxOutput
    IN  /\ Held /\ ~result.answered /\ written[p] + n <= MaxWritten
        /\ written' = [written EXCEPT ![p] = @ + n]
        /\ text' = [text EXCEPT ![p] = IF over THEN MaxOutput ELSE size]
        /\ dropped' = [dropped EXCEPT ![p] = @ \/ over]
        /\ UNCHANGED <<bash, group, daemon, timer, result>>

\* The command puts something in the background, or starts something in another session.
Backgrounds ==
    /\ bash = "running"
    /\ \/ group' = TRUE /\ daemon' = daemon
       \/ Daemons /\ daemon' = TRUE /\ group' = group
    /\ UNCHANGED <<bash, output, timer, result>>

BashExits == bash = "running" /\ bash' = "gone" /\ UNCHANGED <<group, daemon, output, timer, result>>
GroupExits == group /\ group' = FALSE /\ UNCHANGED <<bash, daemon, output, timer, result>>
DaemonExits == daemon /\ daemon' = FALSE /\ UNCHANGED <<bash, group, output, timer, result>>

\* stop: the whole group is killed.
KillGroup == bash' = "gone" /\ group' = FALSE

TimerFires ==
    /\ timer = "armed"
    /\ timer' = "fired" /\ KillGroup
    /\ UNCHANGED <<daemon, output, result>>

Abort ==
    /\ ~result.answered /\ (bash = "running" \/ group)
    /\ KillGroup
    /\ UNCHANGED <<daemon, output, timer, result>>

Clamp(n) == IF n <= MaxOutput THEN n ELSE MaxOutput

\* An answer that looks at the sizes only.
AnswerBySize ==
    /\ ~Held /\ ~result.answered
    /\ timer' = IF timer = "armed" THEN "cleared" ELSE timer
    /\ result' = [answered |-> TRUE, shown |-> [p \in Pipes |-> Clamp(text[p])],
                  truncated |-> \E p \in Pipes : text[p] > MaxOutput]
    /\ UNCHANGED <<bash, group, daemon, output>>

\* close, once nothing holds the pipes: the timer is cleared, the texts are clamped, and
\* truncated says if either was cut, now or as it arrived.
Answer ==
    /\ ~Held /\ ~result.answered
    /\ timer' = IF timer = "armed" THEN "cleared" ELSE timer
    /\ result' = [answered |-> TRUE, shown |-> [p \in Pipes |-> Clamp(text[p])],
                  truncated |-> \E p \in Pipes : text[p] > MaxOutput \/ dropped[p]]
    /\ UNCHANGED <<bash, group, daemon, output>>

Next ==
    \/ \E p \in Pipes, n \in 1..MaxOutput : Writes(p, n)
    \/ Backgrounds \/ BashExits \/ GroupExits \/ DaemonExits \/ TimerFires \/ Abort \/ Answer

\* The timer fires unless it is cleared, and a close that is due is delivered.
Fairness == WF_vars(TimerFires) /\ WF_vars(Answer)
Spec == Init /\ [][Next]_vars /\ Fairness

-----------------------------------------------------------------------------
\* The answer says that it is cut exactly when the command wrote more than is shown.
TruncationTold ==
    result.answered => (result.truncated <=> \E p \in Pipes : written[p] > result.shown[p])

\* A command cannot run forever: the call that started it is answered.
ShellAnswers == <>(result.answered)
=============================================================================
