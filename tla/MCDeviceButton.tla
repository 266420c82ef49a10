---------------------------- MODULE MCDeviceButton ----------------------------
(* Symmetry of the finite instances of DeviceButton.                       *)
EXTENDS DeviceButton, TLC

Symmetry == Permutations(Requests) \cup Permutations(Contacts)
=============================================================================
