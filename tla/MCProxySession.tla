-------------------------- MODULE MCProxySession --------------------------
(* TLC instances of ProxySession.                                          *)
EXTENDS ProxySession, TLC

\* Sessions and jobs are interchangeable in every safety property.
Symmetry == Permutations(Sessions) \cup Permutations(Jobs)
=============================================================================
