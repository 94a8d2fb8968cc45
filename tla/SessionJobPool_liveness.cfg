\* No symmetry: a liveness property is checked.
CONSTANTS
    Callers = {c1, c2, c3, c4}
    Jobs = {j1, j2}
    NoJob = NoJob
    StartingSize = 1
    MaxSize = 2
SPECIFICATION HealthySpec
PROPERTIES
    WaiterServed
