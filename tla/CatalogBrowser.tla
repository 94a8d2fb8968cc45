--------------------------- MODULE CatalogBrowser ---------------------------
(***************************************************************************)
(* The catalog browser: the schemas, tables and views that pgAdmin and     *)
(* SQLAlchemy see (resolveSynthetic of src/src/proxy/session.ts,           *)
(* src/src/sql/pgadmin-ibmi*.ts).  Clients name schemas and relations by   *)
(* made-up OIDs, hashes of their names that do not collide here: an OID is *)
(* the schema or the relation.  A session keeps the list of schemas for a  *)
(* while; the relations whose OIDs can be looked up are those some session *)
(* of the process has read.                                                *)
(***************************************************************************)
EXTENDS SchemaPath, DdlRegistries

CONSTANT ViewNames      \* views are there as long as their schema is

ASSUME BrowserAssumption == TableNames \cap ViewNames = {}

VARIABLES
    listed,     \* this.schemaCache
    registry,   \* tableRegistry and viewRegistry of the process
    told,       \* the relations whose OIDs it gave to clients
    created,    \* the schemas the session made by CREATE SCHEMA
    misled      \* those the last answer should have been about and was not

browserVars == <<listed, registry, told, created, misled>>

NoList == [fresh |-> FALSE, rows |-> {}]
Views == TableSchemas \X ViewNames
Relations == Tables \cup Views

BrowserTypeOK ==
    /\ listed \in [fresh : BOOLEAN, rows : SUBSET Schemas]
    /\ registry \subseteq Relations /\ told \subseteq Relations
    /\ created \subseteq Schemas /\ misled \subseteq Schemas

InitBrowser ==
    /\ listed = NoList
    /\ registry = {} /\ told = {} /\ created = {} /\ misled = {}
-----------------------------------------------------------------------------
(* Reading the catalogs of Db2.                                            *)

\* fetchIbmiSchemas: the list of the session while it is fresh.
Rows == IF listed.fresh THEN listed.rows ELSE Lease.there
Lists == listed' = [fresh |-> TRUE, rows |-> Rows]

\* fetchIbmiTables and fetchIbmiViews always read.
TablesOf(s) == {t \in Tables : t[1] = s /\ db[t] # Absent}
ViewsOf(s) == {v \in Views : v[1] = s /\ s \in Lease.there}

\* registerIbmiTables and registerIbmiViews: entries are added and never removed;
\* the variant keeps the last ones only.
RegisteredLast(found) == found
RegisteredAll(found) == registry \cup found
Registers(found) == registry' = RegisteredAll(found)

\* The kinds of request: those for the nodes and properties of a schema, which fall
\* back on the current schema, and of those the ones that tell OIDs.
TableKinds ==
    {[falls |-> TRUE, tells |-> FALSE],      \* count, exists
     [falls |-> TRUE, tells |-> TRUE],       \* nodes, properties
     [falls |-> FALSE, tells |-> TRUE],      \* oidByName
     [falls |-> FALSE, tells |-> FALSE]}     \* nameByOid, schemaForTable
ViewKinds == [falls : {TRUE}, tells : BOOLEAN]

\* findSchemaByCompatibleOid, or the name, and the fallback.  An old OID is a place
\* in the list: it asks for whatever schema is there.
Resolved(s, kind) ==
    IF s \in Rows THEN {s} ELSE IF kind.falls THEN {current} \cap Rows ELSE {}

\* The catalogs may refuse to be read: "schemas" at once, "relations" later.
Browse(s, kind, Of(_), fails) ==
    LET about == Resolved(s, kind)
        found == UNION {Of(a) : a \in about}
        ok == fails = "none"
    IN /\ fails = "schemas" => ~listed.fresh
       /\ fails = "relations" => about # {}
       /\ IF fails = "schemas" THEN UNCHANGED listed ELSE Lists
       /\ IF ok THEN Registers(found) ELSE UNCHANGED registry
       /\ told' = IF ok /\ kind.tells THEN told \cup found ELSE told
       /\ misled' = IF ok THEN {s} \ about ELSE {}
       /\ UNCHANGED created
\* Requests on schemas, and CREATE SCHEMA IF NOT EXISTS, which always reads.
BrowseSchemas(s, fails) ==
    /\ fails => ~listed.fresh
    /\ IF fails THEN UNCHANGED listed ELSE Lists
    /\ misled' = IF fails THEN {} ELSE {s} \ Rows
    /\ UNCHANGED <<registry, told, created>>
ListsAgain ==
    /\ listed' = [fresh |-> TRUE, rows |-> Lease.there]
    /\ misled' = {}
    /\ UNCHANGED <<registry, told, created>>
BrowseTables(s, fails) ==
    \E kind \in TableKinds : Browse(s, kind, TablesOf, fails)
BrowseViews(s, fails) ==
    \E kind \in ViewKinds : Browse(s, kind, ViewsOf, fails)

\* The columns or indexes of relation r: unless it is registered, the relations of
\* the current schema are read first, tables before views.
Children(r, fails) ==
    LET found == CASE r \in registry \/ fails = "tables" -> {}
                   [] r \notin registry /\ fails = "views" -> TablesOf(current)
                   [] OTHER -> TablesOf(current) \cup ViewsOf(current)
    IN /\ Registers(found)
       /\ misled' = {}
       /\ UNCHANGED <<listed, told, created>>

\* resolveSqlAlchemyReflection: a schema that is not in the list is taken for the
\* current one, as none is.  Views are told by the OID a table would have, which is
\* not looked up.
Reflect(s, views, tells, fails) ==
    LET about == IF s \in Rows THEN s ELSE current
        found == TablesOf(about)
    IN /\ fails = "schemas" => ~listed.fresh
       /\ IF fails = "schemas" THEN UNCHANGED listed ELSE Lists
       /\ CASE fails = "none" /\ views -> Registers(found \cup ViewsOf(about))
            [] (fails = "none" /\ ~views) \/ fails = "views" -> Registers(found)
            [] OTHER -> UNCHANGED registry
       /\ told' = IF fails = "none" /\ tells THEN told \cup found ELSE told
       /\ misled' = IF fails = "none" /\ s # NoSchema THEN {s} \ {about} ELSE {}
       /\ UNCHANGED created
-----------------------------------------------------------------------------
(* What else happens to the list and the registry.                         *)

Expires == listed' = NoList /\ misled' = {} /\ UNCHANGED <<registry, told, created>>

\* The session of another client reads the relations of a schema.
OtherBrowses(s) ==
    LET found == {t \in Tables : t[1] = s /\ base[t] # Absent}
    IN /\ Registers(found)
       /\ told' = told \cup found
       /\ misled' = {}
       /\ UNCHANGED <<listed, created>>

\* executeCreateSchema forgets the list; the variant keeps it.
KeptList == listed
ForgottenList == NoList
MakesSchema(s) ==
    /\ listed' = ForgottenList
    /\ created' = created \cup {s}
    /\ misled' = {}
    /\ UNCHANGED <<registry, told>>

\* No other command looks at them, whatever becomes of the schemas.
NoBrowse ==
    /\ created' = created \cap (exists' \cup mine')
    /\ misled' = {}
    /\ UNCHANGED <<listed, registry, told>>
-----------------------------------------------------------------------------
(* Properties.                                                             *)

\* Every OID the process gave to a client, on whatever connection, can be looked up,
\* and no request for a schema that the session itself created is answered with
\* another schema or with nothing, whatever was listed before, was rolled back, or
\* failed.
CatalogAnswersAreAbout ==
    /\ told \subseteq registry
    /\ misled \cap created = {}
=============================================================================
