---------------------------- MODULE MCSupervisor ----------------------------
(* Small instances of Supervisor. *)
EXTENDS Supervisor, TLC

CONSTANTS b1, b2, r1, r2

MCReservation == [d \in Dimensions |-> IF d = "cpus" THEN 1 ELSE 2]
\* Cores for eight computers, memory for one: memory is the dimension that refuses.
MCBudget == "cpus" :> 8 @@ "memory" :> 3
\* Cores are not limited at all.
MCMemoryOnly == "memory" :> 3
MCSymmetry == Permutations(Bots) \cup Permutations(Requests)
=============================================================================
