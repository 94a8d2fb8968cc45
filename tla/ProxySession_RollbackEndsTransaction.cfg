\* Clients disconnect between commands only.
CONSTANTS
    Sessions = {s1, s2}
    Jobs = {j1}
    NoJob = NoJob
    Default = Default
    Commands = {"begin", "commit", "rollback", "savepoint", "rollbackTo",
                "createSchema", "sql", "ddl", "catalog", "searchPath", "reject", "local"}
    MidCommand = FALSE
SPECIFICATION Spec
PROPERTIES
    RollbackEndsTransaction
