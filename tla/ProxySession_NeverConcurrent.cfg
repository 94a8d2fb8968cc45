\* One job and clients that disconnect in the middle of their commands.
CONSTANTS
    Sessions = {s1, s2}
    Jobs = {j1}
    NoJob = NoJob
    Default = Default
    Commands = {"begin", "commit", "rollback", "savepoint", "rollbackTo",
                "createSchema", "sql", "ddl", "catalog", "searchPath", "reject", "local"}
    MidCommand = TRUE
SPECIFICATION Spec
INVARIANTS
    NeverConcurrent
