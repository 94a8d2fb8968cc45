---------------------------- MODULE SessionState ----------------------------
(***************************************************************************)
(* The state a session keeps beside its job: the search_path of            *)
(* SchemaPath, the registries of DdlRegistries and the list of schemas of  *)
(* CatalogBrowser, through the commands of a client with transactions and  *)
(* savepoints (executeSql of src/src/proxy/session.ts).  Unqualified table *)
(* names mean tables of the current schema.  The commands of the client    *)
(* are bounded.                                                            *)
(***************************************************************************)
EXTENDS CatalogBrowser, CatalogReflection, CatalogRouting

CONSTANTS MaxCommands,    \* bound on the commands and on what others do meanwhile
          MaxStatements   \* bound on those on tables

ASSUME StateAssumption ==
    /\ Schemas \subseteq TableSchemas
    /\ MaxCommands \in Nat /\ MaxStatements \in Nat

VARIABLES commands,       \* how many there were
          statements

vars == <<tx, current, restore, held, exists, mine, marked, cache, probe,
          intended, excused, outdated, db, base, save, types, defs, snapshot,
          drifted, misjudged, listed, registry, told, created, misled,
          commands, statements>>

TypeOK == /\ SchemaTypeOK /\ DdlTypeOK /\ BrowserTypeOK
          /\ commands \in 0 .. MaxCommands
          /\ statements \in 0 .. MaxStatements

Init == InitSchema /\ InitDdl /\ InitBrowser /\ commands = 0 /\ statements = 0

Counts == commands < MaxCommands /\ commands' = commands + 1
CountsOther == Counts /\ UNCHANGED statements
CountsStatement ==
    Counts /\ statements < MaxStatements /\ statements' = statements + 1
SamePath == UNCHANGED <<current, restore, intended, excused>>
-----------------------------------------------------------------------------
(* Statements on tables.                                                   *)

\* A statement that Db2 accepts has its effect, and is committed outside a
\* transaction unless that fails; a refused one aborts the transaction.  In a
\* failed transaction nothing comes here.
Accepted(e) ==
    /\ CountsStatement /\ tx # "E"
    /\ UNCHANGED tx
    /\ OnJob /\ SamePath /\ JobKept /\ NoBrowse
    /\ \/ Takes(e) /\ base' = IF tx = "I" THEN e.db ELSE base
       \/ tx = "I" /\ TakesInVain(e) /\ UNCHANGED base

\* The proxy refuses or skips the statement, or Db2 refuses it, which aborts an
\* open transaction; a decision on t led to that.
Refused(aborts, judged) ==
    /\ CountsStatement /\ tx # "E"
    /\ tx' = IF aborts /\ tx = "T" THEN "E" ELSE tx
    /\ OnJob /\ SamePath /\ JobKept /\ NoBrowse
    /\ judged

There == {t \in Tables : db[t] # Absent}
NewTables == {t \in Tables : db[t] = Absent /\ t[1] \in exists \cup mine}
OneColumn(c, type) == [Absent EXCEPT ![c] = type]

\* An unqualified name is one of the current schema.
CreateTable ==
    \E t \in NewTables, c \in Columns, type \in Types, qualified \in BOOLEAN :
        /\ ~qualified => t[1] = current
        /\ Accepted(Creates(t, OneColumn(c, type), qualified))

\* A table with a foreign key to a column of another: alignCreateTable gives it
\* the type registered for that, and Db2 wants it to have the type of that column.
CreateChild ==
    \E t \in NewTables, parent \in There, c \in Columns, type \in Types :
        /\ db[parent][c] # "none"
        /\ LET aligned == AlignedType(parent, c, type)
           IN IF aligned = db[parent][c]
              THEN Accepted(Creates(t, OneColumn(c, aligned), TRUE))
              ELSE Refused(TRUE, Judges(parent, types[parent][c] = "none"))

\* ADD COLUMN, also when it is NOT NULL without a default: that one is a CREATE OR
\* REPLACE TABLE of the live definition and refused for a table with rows.
AddColumn ==
    \E t \in There, c \in Columns, type \in Types :
        /\ db[t][c] = "none"
        /\ Accepted(AddsColumn(t, c, type))

SetDataType ==
    \E t \in There, c \in Columns, type \in Types :
        /\ db[t][c] # "none"
        /\ Accepted(SetsDataType(t, c, type))

Drop ==
    \E t \in There :
        \/ Accepted(Drops(t, Absent))
        \/ \E c \in Columns :
              /\ db[t][c] # "none" /\ OneColumn(c, db[t][c]) # db[t]
              /\ Accepted(Drops(t, [db[t] EXCEPT ![c] = "none"]))

RenameColumn ==
    \E t \in There, c, d \in Columns :
        /\ c # d /\ db[t][c] # "none" /\ CanRename(t, c, d)
        /\ Accepted(RenamesColumn(t, c, d, current))

RenameTable ==
    \E t \in There, name \in TableNames :
        /\ <<t[1], name>> \in NewTables
        /\ Accepted(RenamesTable(t, <<t[1], name>>))

\* CREATE INDEX on a column, which Db2 refuses for a LOB, and which the proxy does
\* not send when it takes the column for one.
CreateIndex ==
    \E t \in There, c \in Columns :
        /\ db[t][c] # "none"
        /\ LET taken == IsLob(TypeForIndex(t, c))
               is == IsLob(db[t][c])
           IN IF taken \/ is
              THEN Refused(~taken, Judges(t, taken = is))
              ELSE Accepted(Unchanged)

Statement == \/ CreateTable \/ CreateChild \/ AddColumn \/ SetDataType \/ Drop
             \/ RenameColumn \/ RenameTable \/ CreateIndex
             \/ \E aborts \in BOOLEAN : Refused(aborts, NoDdl)
-----------------------------------------------------------------------------
(* Transactions, savepoints and the search_path.                           *)

Begin ==
    /\ CountsOther /\ tx # "E"
    /\ tx' = "T"
    /\ BeginDdl
    /\ UNCHANGED <<path, catalog>>
    /\ NoBrowse

\* COMMIT of a failed transaction is a ROLLBACK.  Neither leaves the transaction
\* when its own statement fails, which changes nothing.
Commit(fails) ==
    /\ CountsOther /\ tx = "T"
    /\ tx' = "I"
    /\ CommitDdl /\ CommitSchemas /\ RestorePath(fails) /\ NoBrowse
Rollback(fails) ==
    /\ CountsOther /\ tx # "I"
    /\ tx' = "I"
    /\ RollbackDdl /\ RollbackSchemas /\ RestorePath(fails) /\ NoBrowse

Savepoint ==
    /\ CountsOther /\ tx = "T"
    /\ UNCHANGED tx
    /\ MarkSchemas /\ SamePath /\ JobKept
    /\ MarkDdl /\ NoBrowse
RollbackTo ==
    /\ CountsOther /\ tx # "I" /\ held
    /\ RollbackToSchemas /\ SamePath
    /\ tx' = "T" /\ JobKept
    /\ RollbackToDdl /\ NoBrowse

Failures == {"none", "prepare", "set", "read", "commit"}
SetSearchPath ==
    /\ CountsOther
    /\ \/ \E s \in Schemas, scope \in {"session", "local"}, fails \in Failures :
             SetPath(s, scope, fails)
       \/ SetRefused
       \/ CheckoutFails
    /\ NoDdl /\ NoBrowse

\* CREATE SCHEMA, also IF NOT EXISTS of one that is there.
MakeSchema ==
    /\ CountsOther
    /\ NoDdl
    /\ \/ CreateSchemaFails /\ (NoBrowse \/ ListsAgain)
       \/ OnJob /\ SamePath /\ UNCHANGED tx /\ JobKept /\ ListsAgain
       \/ \E s \in Schemas, inspected \in BOOLEAN :
             CreateSchema(s, inspected) /\ MakesSchema(s)

\* Catalog queries, of which none aborts a transaction when it fails.
Reads == {"none", "schemas", "tables", "views"}
BrowseCatalog ==
    /\ CountsOther /\ tx # "E"
    /\ UNCHANGED tx
    /\ OnJob /\ SamePath /\ JobKept /\ NoDdl
    /\ \/ \E s \in Schemas, fails \in BOOLEAN : BrowseSchemas(s, fails)
       \/ \E s \in Schemas, fails \in {"none", "schemas", "relations"} :
             BrowseTables(s, fails) \/ BrowseViews(s, fails)
       \/ \E r \in Relations, fails \in {"none", "tables", "views"} : Children(r, fails)
       \/ \E s \in Schemas \cup {NoSchema}, views, tells \in BOOLEAN, fails \in Reads :
             Reflect(s, views, tells, fails)

\* Other users drop schemas without tables only.
EmptyIn(s) == \A t \in Tables : t[1] = s => db[t] = Absent /\ base[t] = Absent
Others ==
    /\ CountsOther
    /\ \/ /\ \/ \E s \in Schemas : OtherInspects(s) \/ (EmptyIn(s) /\ SchemaChanges(s))
             \/ OtherFills
          /\ NoDdl /\ NoBrowse
       \/ /\ NoDdl /\ UNCHANGED schemaVars
          /\ Expires \/ \E s \in Schemas : OtherBrowses(s)
       \/ /\ tx = "I" /\ UNCHANGED schemaVars /\ NoBrowse
          /\ \/ \E t \in There : TableChanges(t, Absent)
             \/ \E t \in There \cup NewTables, c \in Columns, type \in Types :
                   TableChanges(t, OneColumn(c, type))

Next == \/ Statement \/ Begin \/ Savepoint \/ RollbackTo
        \/ \E fails \in BOOLEAN : Commit(fails) \/ Rollback(fails)
        \/ SetSearchPath \/ MakeSchema \/ BrowseCatalog \/ Others

Spec == Init /\ [][Next]_vars
-----------------------------------------------------------------------------
\* Queries on PostgreSQL catalogs reach the adapter they are for, or at least never
\* Db2, and what the adapters make of the rows of Db2 is whole.  That depends on no
\* state, so that one look, before the first command, is enough.
CatalogReadsAreRight ==
    commands = 0 => /\ RequestsReachTheirAdapter /\ FirewallHolds
                    /\ IndexesAreListed /\ ForeignKeysPair
=============================================================================
