\* The same three connections; c3 locks in the second statement of a query.
CONSTANTS
    Conns = {c1, c2, c3}
    Keys = {k1}
    Nobody = Nobody
    MaxHolds = 2
    MaxClients = 2
    Batchers = {c3}
SPECIFICATION Spec
SYMMETRY Symmetry
INVARIANTS
    CloseReleasesLocks
\* The process exits.
CHECK_DEADLOCK FALSE
