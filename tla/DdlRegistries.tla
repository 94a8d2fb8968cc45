--------------------------- MODULE DdlRegistries ---------------------------
(***************************************************************************)
(* What a session remembers of the tables it created: the types of their   *)
(* columns (DdlForeignKeyTypeRegistry, src/src/sql/ddl-foreign-key.ts) and *)
(* their exact CREATE TABLE (DdlTableDefinitionRegistry,                   *)
(* src/src/sql/column-rename.ts), and the decisions it takes from that: the *)
(* type of a foreign key, a column rename by CREATE OR REPLACE TABLE, an   *)
(* index on a LOB (src/src/sql/lob-index.ts).                              *)
(*                                                                         *)
(* A definition is a function from columns to their types, "none" for a    *)
(* column the table has not.  What a statement does is an effect: the      *)
(* tables of Db2 and the registries after it.                              *)
(***************************************************************************)
EXTENDS Naturals, FiniteSets

CONSTANTS TableSchemas,   \* the schemas tables are in
          TableNames,
          Columns,
          Types,
          LobTypes        \* the types Db2 does not index

ASSUME RegistryAssumption ==
    /\ LobTypes \subseteq Types
    /\ "none" \notin Types

VARIABLES
    db,         \* the tables as the session's transaction sees them
    base,       \* as they are committed
    save,       \* as they were at SAVEPOINT
    types,      \* DdlForeignKeyTypeRegistry.types
    defs,       \* DdlTableDefinitionRegistry.tables
    snapshot,   \* the transactionSnapshot of both
    drifted,    \* tables that changed where the registries do not look
    misjudged   \* tables the last command decided on wrongly

registries == <<types, defs, snapshot>>
ddlVars == <<db, base, save, types, defs, snapshot, drifted, misjudged>>

Tables == TableSchemas \X TableNames
Definitions == [Columns -> Types \cup {"none"}]
Absent == [c \in Columns |-> "none"]
NoDef == [cols |-> Absent, qualified |-> FALSE]
Entries == [cols : Definitions, qualified : BOOLEAN]
Snapshots == [types : [Tables -> Definitions], defs : [Tables -> Entries],
              drifted : SUBSET Tables]
NoSnapshot == [types |-> <<>>, defs |-> <<>>, drifted |-> {}]

DdlTypeOK ==
    /\ db \in [Tables -> Definitions]
    /\ base \in [Tables -> Definitions]
    /\ save \in [Tables -> Definitions] \cup {<<>>}
    /\ types \in [Tables -> Definitions]
    /\ defs \in [Tables -> Entries]
    /\ snapshot \in Snapshots \cup {NoSnapshot}
    /\ drifted \subseteq Tables
    /\ misjudged \subseteq Tables

InitDdl ==
    /\ db = [t \in Tables |-> Absent]
    /\ base = db
    /\ save = <<>>
    /\ types = [t \in Tables |-> Absent]
    /\ defs = [t \in Tables |-> NoDef]
    /\ snapshot = NoSnapshot
    /\ drifted = {} /\ misjudged = {}

Registered(t) == defs[t].cols # Absent \/ types[t] # Absent
Renamed(cols, c, d) == [cols EXCEPT ![d] = cols[c], ![c] = "none"]
-----------------------------------------------------------------------------
(* Effects of statements.                                                  *)

Unchanged == [db |-> db, types |-> types, defs |-> defs, drifted |-> drifted,
              misjudged |-> {}]

\* registerCreateTable of both registries.  Types of columns that an earlier
\* table of the name had are not removed.
Creates(t, cols, qualified) ==
    LET merged == [c \in Columns |-> IF cols[c] = "none" THEN types[t][c] ELSE cols[c]]
    IN [Unchanged EXCEPT
           !.db = [db EXCEPT ![t] = cols],
           !.types = [types EXCEPT ![t] = merged],
           !.defs = [defs EXCEPT ![t] = [cols |-> cols, qualified |-> qualified]],
           !.drifted = IF merged = cols THEN drifted \ {t} ELSE drifted \cup {t}]

\* alignCreateTable: the type of a foreign key column is that registered for the
\* column of the parent; the variant leaves the type alone.
OwnType(parent, c, type) == type
AlignedType(parent, c, type) ==
    IF types[parent][c] = "none" THEN type ELSE types[parent][c]

\* registerAlterAddColumn of both registries: a table without a definition gets
\* none.
AddsColumn(t, c, type) ==
    [Unchanged EXCEPT
        !.db = [db EXCEPT ![t] = [db[t] EXCEPT ![c] = type]],
        !.types = [types EXCEPT ![t] = [types[t] EXCEPT ![c] = type]],
        !.defs = IF defs[t].cols = Absent THEN defs
                 ELSE [defs EXCEPT ![t].cols = [defs[t].cols EXCEPT ![c] = type]]]

\* registerAlterSetDataType, and invalidateAlterSetDataType, which drops the
\* definition.
SetsDataType(t, c, type) ==
    [Unchanged EXCEPT
        !.db = [db EXCEPT ![t] = [db[t] EXCEPT ![c] = type]],
        !.types = [types EXCEPT ![t] = [types[t] EXCEPT ![c] = type]],
        !.defs = [defs EXCEPT ![t] = NoDef]]

\* DROP TABLE and DROP COLUMN are plain SQL: no registry looks at them.
Drops(t, cols) ==
    [Unchanged EXCEPT
        !.db = [db EXCEPT ![t] = cols],
        !.drifted = IF Registered(t) THEN drifted \cup {t} ELSE drifted]

\* planRename: a definition that has the column and not yet the new name.
CanRename(t, c, d) == defs[t].cols[c] # "none" /\ defs[t].cols[d] = "none"

\* renameColumn of the type registry.
TypeMoves(t, c, d) ==
    IF types[t][c] = "none" THEN types
    ELSE [types EXCEPT ![t] = Renamed(types[t], c, d)]

\* CREATE OR REPLACE TABLE of the registered definition, then commitRename and
\* renameColumn.  An unqualified CREATE acts on the table of that name in the
\* current schema.
RenamesColumn(t, c, d, here) ==
    LET cols == Renamed(defs[t].cols, c, d)
        target == IF defs[t].qualified THEN t ELSE <<here, t[2]>>
        lossless == target = t /\ cols = Renamed(db[t], c, d)
    IN [db |-> [db EXCEPT ![target] = cols],
        types |-> TypeMoves(t, c, d),
        defs |-> [defs EXCEPT ![t].cols = cols],
        drifted |-> IF target = t THEN drifted ELSE drifted \cup {t, target},
        misjudged |-> IF lossless THEN {} ELSE {t}]

\* renameTable of both registries; the new entry is qualified.
RenamesTable(t, u) ==
    [db |-> [db EXCEPT ![u] = db[t], ![t] = Absent],
     types |-> [types EXCEPT
                  ![u] = [c \in Columns |-> IF types[t][c] = "none" THEN types[u][c]
                                            ELSE types[t][c]],
                  ![t] = Absent],
     defs |-> IF defs[t].cols = Absent THEN defs
              ELSE [defs EXCEPT ![u] = [cols |-> defs[t].cols, qualified |-> TRUE],
                                ![t] = NoDef],
     drifted |-> IF drifted \cap {t, u} # {} THEN drifted \cup {u} ELSE drifted,
     misjudged |-> {}]

\* The type by which executeSql decides on an index: registered, or else live.
TypeForIndex(t, c) == IF types[t][c] = "none" THEN db[t][c] ELSE types[t][c]
IsLob(type) == type \in LobTypes
-----------------------------------------------------------------------------
(* Steps.                                                                  *)

\* A statement took effect e.
Takes(e) ==
    /\ db' = e.db /\ types' = e.types /\ defs' = e.defs
    /\ drifted' = e.drifted /\ misjudged' = e.misjudged
    /\ UNCHANGED <<save, snapshot>>

\* A statement took effect, was registered, and its COMMIT failed.
TakesInVain(e) ==
    /\ types' = e.types /\ defs' = e.defs
    /\ drifted' = drifted \cup e.drifted
                    \cup {t \in Tables : e.db[t] # db[t] \/ e.defs[t] # defs[t]}
    /\ misjudged' = {}
    /\ UNCHANGED <<db, save, snapshot>>

\* Nothing happens to tables, beyond a decision on t.
Judges(t, right) ==
    /\ misjudged' = IF right THEN {} ELSE {t}
    /\ UNCHANGED <<db, base, save, types, defs, snapshot, drifted>>
NoDdl == misjudged' = {} /\ UNCHANGED <<db, base, save, types, defs, snapshot, drifted>>

\* beginTransaction; the variant overwrites the snapshot of an open transaction.
Snapshot == [types |-> types, defs |-> defs, drifted |-> drifted]
SnapshotAgain == Snapshot
SnapshotOnce == IF snapshot = NoSnapshot THEN Snapshot ELSE snapshot
BeginDdl ==
    /\ snapshot' = SnapshotOnce
    /\ misjudged' = {}
    /\ UNCHANGED <<db, base, save, types, defs, drifted>>

\* commitTransaction and rollbackTransaction.
CommitDdl ==
    /\ base' = db /\ save' = <<>>
    /\ snapshot' = NoSnapshot /\ misjudged' = {}
    /\ UNCHANGED <<db, types, defs, drifted>>
RollbackDdl ==
    /\ db' = base /\ save' = <<>>
    /\ types' = snapshot.types /\ defs' = snapshot.defs
    /\ drifted' = snapshot.drifted
    /\ snapshot' = NoSnapshot /\ misjudged' = {}
    /\ UNCHANGED base

\* Savepoints: the registries do not go back with the tables.
MarkDdl ==
    /\ save' = db /\ misjudged' = {}
    /\ UNCHANGED <<db, base, types, defs, snapshot, drifted>>
RollbackToDdl ==
    /\ save # <<>>
    /\ db' = save
    /\ drifted' = drifted \cup {t \in Tables : save[t] # db[t]}
    /\ misjudged' = {}
    /\ UNCHANGED <<base, save, types, defs, snapshot>>

\* Another session or user changes a table.
TableChanges(t, cols) ==
    /\ cols # db[t]
    /\ db' = [db EXCEPT ![t] = cols] /\ base' = db'
    /\ drifted' = IF Registered(t) THEN drifted \cup {t} ELSE drifted
    /\ misjudged' = {}
    /\ UNCHANGED <<save, types, defs, snapshot>>
-----------------------------------------------------------------------------
(* Properties.                                                             *)

\* A definition kept for CREATE OR REPLACE TABLE is that of the table, and the
\* types that foreign keys and indexes are decided by are those of its columns,
\* unless the table changed where the registries do not look: by DROP, by
\* ROLLBACK TO SAVEPOINT, in another session, when the commit after the statement
\* failed, or by a rename that went to another schema.
RegistriesAreExact ==
    \A t \in Tables \ drifted :
        /\ defs[t].cols \in {Absent, db[t]}
        /\ \A c \in Columns : types[t][c] \in {"none", db[t][c]}

\* A rename that changes more than the name of the column, a foreign key given
\* another type than its parent's, an index skipped or sent by the wrong type:
\* these happen to drifted tables only, or by the rename of a table that was
\* created with an unqualified name in another schema.
MisjudgedHaveDrifted == misjudged \subseteq drifted
=============================================================================
