--------------------------- MODULE MCAutoProtection ---------------------------
(* Symmetry of the finite instances of AutoProtection.                     *)
EXTENDS AutoProtection, TLC

Symmetry == Permutations(Requests)
=============================================================================
