------------------------------ MODULE MCFiles -------------------------------
(* Files for TLC.  Processes, keys and triggers are interchangeable: the       *)
(* refinement mapping chooses a process only where at most one is writing, or   *)
(* where the abstract specification allows anything.                         *)
EXTENDS Files, TLC

Symmetry == Permutations(Procs) \cup Permutations(Keys) \cup Permutations(Triggers)
=============================================================================
