------------------------- MODULE MCComputerGateway -------------------------
(* Small instances of ComputerGateway. *)
EXTENDS ComputerGateway, TLC

CONSTANTS c1, c2, c3, c4, s1, s2, p1, p2

\* Calls are interchangeable while they all land on one server.
Symmetric == Permutations(Calls)

OneServer  == [c \in Calls |-> s1]
TwoServers == [c \in Calls |-> IF c \in {c1, c3} THEN s1 ELSE s2]

Says(answer) == [x \in Subjects |-> IF x = p2 THEN answer ELSE "false"]
Anything     == [x \in Subjects |-> "true"]

\* The shipped shape (a deny rule about one element, then allow anything), the same rule
\* mistyped, and the same policy on trial.
MCPolicies == {
    [mode |-> "enforce", deny |-> <<Says("true")>>, allow |-> <<Anything>>],
    [mode |-> "dry-run", deny |-> <<Says("broken")>>, allow |-> <<Anything>>] }
OnePolicy == { [mode |-> "enforce", deny |-> <<Says("true")>>, allow |-> <<Anything>>] }

=============================================================================
