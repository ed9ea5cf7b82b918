---------------------------- MODULE MCCartLink ----------------------------
(***************************************************************************)
(* CartLink for TLC. The writes are interchangeable; so are the images,    *)
(* where their agents are alike.                                           *)
(***************************************************************************)
EXTENDS CartLink, TLC

Symmetry       == Permutations(Writes)
SymmetryImages == Permutations(Images)
=============================================================================
