------------------------------- MODULE Relay -------------------------------
(***************************************************************************)
(* What the reader of a Bot's stream is promised: chunks come while the    *)
(* stream is open, it is ended once, and nothing comes after its end.      *)
(* StallGuard implements this with two parties that may both end it.       *)
(***************************************************************************)
EXTENDS Naturals

CONSTANT Streams

VARIABLES
    opened,    \* the streams handed to a reader
    carried,   \* how many chunks each has carried
    ended      \* how often each was ended

vars == <<opened, carried, ended>>

Init ==
    /\ opened = {}
    /\ carried = [s \in Streams |-> 0]
    /\ ended = [s \in Streams |-> 0]

Live(s) == s \in opened /\ ended[s] = 0

Begin(s) == s \notin opened /\ opened' = opened \union {s} /\ UNCHANGED <<carried, ended>>

Carry(s) == Live(s) /\ carried' = [carried EXCEPT ![s] = @ + 1] /\ UNCHANGED <<opened, ended>>

\* One sweep may end several streams.
Finish(S) ==
    /\ S # {} /\ \A s \in S : Live(s)
    /\ ended' = [s \in Streams |-> IF s \in S THEN 1 ELSE ended[s]]
    /\ UNCHANGED <<opened, carried>>

Next ==
    \/ \E s \in Streams : Begin(s) \/ Carry(s)
    \/ \E S \in SUBSET Streams : Finish(S)

Spec == Init /\ [][Next]_vars
=============================================================================
