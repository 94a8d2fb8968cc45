------------------------- MODULE MCServerLifecycle -------------------------
(* TLC instances of ServerLifecycle.                                       *)
EXTENDS ServerLifecycle, TLC

\* Connections that send no batches are interchangeable, and so are keys.
Symmetry == Permutations(Conns \ Batchers) \cup Permutations(Keys)
=============================================================================
