---------------------------- MODULE MCSignatures ----------------------------
(* Values for model checking Signatures. *)
EXTENDS Signatures, TLC

CONSTANTS g1, g2, g3, g4, g5, f1, k1, c1, c2, c3, none, gone

MCInitial == <<g1, g2>>

Symmetry == Permutations(Calls) \cup Permutations({g3,g4,g5})
=============================================================================
