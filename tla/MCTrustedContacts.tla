-------------------------- MODULE MCTrustedContacts --------------------------
(* Symmetry of the finite instances of TrustedContacts.                    *)
EXTENDS TrustedContacts, TLC

Symmetry == Permutations(Requests) \cup Permutations(Phones)
=============================================================================
