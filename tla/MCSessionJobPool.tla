------------------------- MODULE MCSessionJobPool -------------------------
(* TLC instances of SessionJobPool.                                        *)
EXTENDS SessionJobPool, TLC

\* Callers and SQLJob identities are interchangeable in every safety property.
Symmetry == Permutations(Callers) \cup Permutations(Jobs)
=============================================================================
