---------------------------- MODULE MCSerialLink ----------------------------
(* Instances of SerialLink for TLC. *)
EXTENDS SerialLink, TLC

Symmetry == Permutations(Clients) \cup Permutations(Writers)
=============================================================================
