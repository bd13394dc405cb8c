------------------------------- MODULE MCLock -------------------------------
(* Executions of hostctl next to other processes, any of them alike. *)
EXTENDS HostctlLock, TLC

Interchangeable == Permutations(Pids) \cup Permutations(Scripts)
=============================================================================
