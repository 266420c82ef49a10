------------------------------ MODULE MCSessions ------------------------------
(* Symmetry of the finite instances of Sessions.                           *)
EXTENDS Sessions, TLC

Symmetry == Permutations(Requests)
=============================================================================
