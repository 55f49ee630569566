----------------------------- MODULE MCLogTask -----------------------------
(* TLC instances of LogTaskService and LogTaskInv: symmetry for the safety runs. *)
EXTENDS LogTaskInv, TLC

Symmetry == Permutations(Tasks \ BaseTasks) \cup Permutations(Pids)
                \cup Permutations(Clients)
=============================================================================
