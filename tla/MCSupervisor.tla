---------------------------- MODULE MCSupervisor ----------------------------
(* Instances of Supervisor for TLC. *)
EXTENDS Supervisor, TLC

Symmetry == Permutations(Tasks) \cup Permutations(Pids) \cup Permutations(Args)
=============================================================================
