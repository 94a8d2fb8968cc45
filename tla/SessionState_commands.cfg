\* Two schemas, two table names and a view name, two columns of two types, one of
\* them a LOB: any four commands of the client, or of what others do, in any order,
\* with at most two statements on tables.  Two indexes on two columns.
SPECIFICATION Spec
CONSTANTS
    Schemas = {d, s}
    Default = d
    NoSchema = NoSchema
    AutoCreate = TRUE
    TableSchemas = {d, s}
    TableNames = {t, u}
    ViewNames = {v}
    Columns = {a, b}
    Types = {"int", "clob"}
    LobTypes = {"clob"}
    IndexNames = {i, j}
    KeyColumns = {"a", "b"}
    MaxCommands = 4
    MaxStatements = 2
INVARIANTS
    LocalPathEndsWithTx
    WrongEntriesHaveCause
    RegistriesAreExact
    MisjudgedHaveDrifted
    CatalogAnswersAreAbout
    CatalogReadsAreRight
SYMMETRY Symmetry
CHECK_DEADLOCK FALSE
