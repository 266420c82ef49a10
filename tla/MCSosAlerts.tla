----------------------------- MODULE MCSosAlerts -----------------------------
(* Symmetry of the finite instances of SosAlerts.                          *)
EXTENDS SosAlerts, TLC

Symmetry == Permutations(Requests) \cup Permutations(Contacts)
=============================================================================
