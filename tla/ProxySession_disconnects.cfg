\* Clients disconnect in the middle of their commands; the one job makes every
\* session meet what the others left on it.  No symmetry: liveness is checked.
\* The three commands come to every await but "marking" and "ending", whose
\* answer ends the command at once.
CONSTANTS
    Sessions = {s1, s2}
    Jobs = {j1}
    NoJob = NoJob
    Default = Default
    Commands = {"begin", "sql", "searchPath"}
    MidCommand = TRUE
SPECIFICATION FairSpec
INVARIANTS
    NoOrphanWork
PROPERTIES
    CommandsEnd
