\* Three connections on a server that takes two: one is turned away or comes
\* when another has left.  One of them sends batches.
CONSTANTS
    Conns = {c1, c2, c3}
    Keys = {k1}
    Nobody = Nobody
    MaxHolds = 2
    MaxClients = 2
    Batchers = {c3}
SPECIFICATION Spec
SYMMETRY Symmetry
INVARIANTS
    TypeOK
    ClientCount
    NothingLeft
    LocksAsAnswered
    NoLockAfterClose
PROPERTIES
    ShutdownReachesAll
\* The process exits.
CHECK_DEADLOCK FALSE
