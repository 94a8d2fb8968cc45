\* Clients disconnect between commands.  Two sessions and two jobs: a session
\* meets jobs the other one left, broke, or holds.
CONSTANTS
    Sessions = {s1, s2}
    Jobs = {j1, j2}
    NoJob = NoJob
    Default = Default
    Commands = {"begin", "commit", "rollback", "savepoint", "rollbackTo",
                "createSchema", "sql", "ddl", "catalog", "searchPath", "reject", "local"}
    MidCommand = FALSE
SPECIFICATION Spec
SYMMETRY Symmetry
INVARIANTS
    TypeOK
    NeverConcurrent
    OwnSchema
    NoPartialCommit
    WorkIsPinned
    IdleHoldsNoJob
PROPERTIES
    TransactionOutcome
    ObeysLeases
