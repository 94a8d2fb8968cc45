\* Four callers on a pool of one to two jobs; two identities to spare for
\* replacements and for connections that were never closed.  Four callers are
\* the fewest that let two wait behind two leases.
CONSTANTS
    Callers = {c1, c2, c3, c4}
    Jobs = {j1, j2, j3, j4}
    NoJob = NoJob
    StartingSize = 1
    MaxSize = 2
SPECIFICATION Spec
SYMMETRY Symmetry
INVARIANTS
    TypeOK
    Exclusive
    Capacity
    Accounting
    NoIdleWhileWaiting
    NoWaiterAfterEnd
PROPERTIES
    LeaseIsClean
    ServedInOrder
    ImplementsLeases
