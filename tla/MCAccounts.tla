------------------------------ MODULE MCAccounts ------------------------------
(* Symmetry of the finite instances of Accounts.                           *)
EXTENDS Accounts, Combinatorics, TLC

Symmetry == Permutations(Requests) \cup Permutations(Phones) \cup Permutations(NewPhones)

\* The bound of GuessesBounded in closed form: the multisets of counts, one for
\* each handler.
ASSUME SpreadsAreMultisets ==
    Cardinality(Spreads) =
        choose(MaxAttempts + Cardinality(Requests), Cardinality(Requests))
=============================================================================
