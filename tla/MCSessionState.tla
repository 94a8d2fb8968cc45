---------------------------- MODULE MCSessionState ----------------------------
EXTENDS SessionState, TLC

\* Table names are alike, and so are columns.
Symmetry == Permutations(TableNames) \cup Permutations(Columns)
=============================================================================
