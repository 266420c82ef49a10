--------------------------- MODULE MCHandsetBinding ---------------------------
(* Symmetry of the finite instances of HandsetBinding.                     *)
EXTENDS HandsetBinding, TLC

Symmetry == Permutations(Requests) \cup Permutations(Handsets)
=============================================================================
