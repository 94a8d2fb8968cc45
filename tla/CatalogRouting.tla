--------------------------- MODULE CatalogRouting ---------------------------
(***************************************************************************)
(* Which answer a query on PostgreSQL catalogs gets: the adapters for      *)
(* SQLAlchemy reflection and the pgAdmin browser, tried in a fixed order   *)
(* (resolveSynthetic of src/src/proxy/session.ts), the generic answers of  *)
(* src/src/sql/pgadmin.ts, or Db2; and which set_config of the search_path *)
(* is carried out instead.                                                 *)
(*                                                                         *)
(* The adapters look for patterns anywhere in the text.  A query is here   *)
(* the set of the patterns in it, some of which are of a whole statement,  *)
(* an adapter a sequence of rules of which the first that applies decides. *)
(***************************************************************************)
EXTENDS Naturals, Sequences

Rule(needs, any, lacks, kind) ==
    [needs |-> needs, any |-> any, lacks |-> lacks, kind |-> kind]
Applies(rule, q) ==
    /\ rule.needs \subseteq q
    /\ rule.any = {} \/ rule.any \cap q # {}
    /\ rule.lacks \cap q = {}
FirstOf(rules, q) ==
    LET hits == {i \in DOMAIN rules : Applies(rules[i], q)}
    IN rules[CHOOSE i \in hits : \A j \in hits : i <= j].kind

ChildCatalogs == {"pg_attribute", "pg_index", "pg_constraint"}

\* classifySqlAlchemyReflectionQuery.  SQLAlchemy qualifies columns with pg_class.
SqlAlchemyRules == <<
    Rule({"pg_constraint", "pg_index", "array_agg", "indnkeyatts"}, {},
         {"pg_get_constraintdef"}, "keyConstraints"),
    Rule({"pg_class", "pg_index", "indnkeyatts", "elements"}, {}, {}, "indexes"),
    Rule({"pg_class", "pg_constraint", "pg_get_constraintdef", "confrelid"}, {}, {},
         "foreignKeys"),
    Rule({"pg_class", "pg_constraint", "pg_get_constraintdef"}, {}, {}, "checks"),
    Rule({"pg_class", "pg_attribute", "format_type", "identity_options"}, {}, {},
         "columns"),
    Rule({"pg_class", "select pg_class.oid, relname"}, {}, ChildCatalogs, "relationOids"),
    Rule({"pg_class", "select pg_class.oid", "pg_class.relname ="}, {}, ChildCatalogs,
         "relationOidByName"),
    Rule({"pg_class", "pg_description.description", "pg_class.relname"}, {},
         {"pg_constraint"}, "tableComments"),
    Rule({"pg_class", "pg_class.relname", "pg_class.relname =", "relkind = any"}, {}, {},
         "hasRelation"),
    Rule({"pg_class", "pg_class.relname", "relkind = any", "pg_namespace"}, {}, {},
         "relationNames")>>

\* classifyPgAdminIbmiSchemaQuery.  primaryFromPgNamespace finds a nested
\* "from pg_namespace", too.
From == "from pg_namespace"
SchemaRules == <<
    Rule({"pg_default_acl", "grantee"}, {}, {}, "schema.defaultAcl"),
    Rule({"aclexplode", "grantee"}, {From, "pg_default_acl"}, {}, "schema.acl"),
    Rule({From, "nsptyp", "namespaceowner"}, {}, {}, "schema.properties"),
    Rule({From, "is_catalog", "oid = n"}, {}, {}, "schema.isCatalog"),
    Rule({From, "count(*)"}, {}, {}, "schema.count"),
    Rule({From, "has_privilege", "can_create"}, {}, {}, "schema.nodes"),
    Rule({From, "select oid", "nspname ="}, {}, {}, "schema.oidByName"),
    Rule({From, "select nspname", "oid = n"}, {}, {}, "schema.nameByOid")>>

\* classifyPgAdminTableChildQuery.  The last rule wants the number of the table, as
\* the nodes of tables hold pg_trigger, too; the variant does not.
ColumnMarks == {"colconstype", "atttypid"}
AnyTrigger == Rule({}, {"pg_trigger", "pg_rewrite", "pg_policy"}, {}, "noChildren")
NoChildren == Rule({"tgrelid = n"}, {"pg_trigger", "pg_rewrite", "pg_policy"}, {},
                   "noChildren")
ChildRules == <<
    Rule({"pg_attribute", "attrelid = n", "select count"}, {}, {}, "columns.count"),
    Rule({"pg_attribute", "attrelid = n"}, {"attnum as oid"}, {}, "columns.nodes"),
    Rule({"pg_attribute", "attrelid = n"}, ColumnMarks, {}, "columns.properties"),
    Rule({"pg_attribute", "attrelid = n"}, {}, {}, "columns.nodes"),
    Rule({"pg_index", "indrelid = n", "select count"}, {}, {}, "indexes.count"),
    Rule({"pg_index", "indrelid = n"}, {"indnatts", "amname"}, {}, "indexes.properties"),
    Rule({"pg_index", "indrelid = n"}, {}, {}, "indexes.nodes"),
    Rule({"pg_inherits", "inhparent = n"}, {}, {}, "partitions"),
    Rule({"pg_inherits", "rel.oid = n"}, {"schema_id", "triggercount", "inhparent"}, {},
         "partitions"),
    NoChildren>>

\* classifyPgAdminIbmiViewQuery.
ViewRules == <<
    Rule({"pg_class", "relkind = v", "select count"}, {}, {}, "views.count"),
    Rule({"pg_class", "relkind = v"}, {"pg_get_viewdef"}, {}, "views.properties"),
    Rule({"pg_class", "relkind = v"}, {"relname as name"}, {}, "views.nodes")>>

\* classifyPgAdminIbmiTableQuery.
TableRules == <<
    Rule({"pg_class", "select count", "relkind in", "relnamespace"}, {}, {}, "tables.count"),
    Rule({"pg_class", "select exists", "relkind in", "relnamespace"}, {}, {}, "tables.exists"),
    Rule({"pg_class", "triggercount", "has_enable_triggers", "is_inherits"}, {}, {},
         "tables.nodes"),
    Rule({"pg_class", "replica_identity", "hastoasttable"}, {}, {}, "tables.properties"),
    Rule({"pg_class", "relnamespace as scid"}, {}, {From}, "tables.schema"),
    Rule({"pg_class", "select relname", "rel.oid = n"}, {}, {From}, "tables.nameByOid"),
    Rule({"pg_class", "select rel.oid", "relname =", "relnamespace"}, {}, {From},
         "tables.oidByName")>>

\* containsUnhandledPostgresSystemSql: after three relations that are translated,
\* nothing may be left that only PostgreSQL has.
Mapped == {"pg_namespace", From, "pg_class", "pg_type"}
PgOnly == {"pg_attribute", "pg_index", "pg_constraint", "pg_description", "pg_trigger",
           "pg_inherits", "pg_default_acl", "pg_database", "pg_roles", "pg_settings",
           "pg_stat", "pg_extension", "pg_get_viewdef", "has_privilege", "inet_server",
           "pg_catalog."}
Unhandled(q) == q \cap PgOnly # {} \/ ("::oid" \in q /\ q \cap Mapped # {})
LeftOver(q, kind) == IF Unhandled(q) THEN <<Rule({}, {}, {}, kind)>> ELSE <<>>

\* set_config for the search_path: as the whole statement with a literal value, by the
\* pattern of pgAdminCompatibilityQuery, and such that parseSetConfigSearchPath finds a
\* schema in the value, or it is empty.  No rule looks for it elsewhere in a text: with
\* a parameter for its value it is like any function, of pg_catalog if it says so.
PathLiteral == "whole set_config of search_path"
PathSchema == "whole set_config of search_path to a schema"

\* pgAdminCompatibilityQuery, its contracts before the generic answers.  "set_config"
\* is the whole statement with a literal value, for another setting.
GenericRules == <<
    Rule({}, {"set_config", "set role", "current_setting"}, {}, "local"),
    Rule({"inet_server"}, {}, {}, "local.server"),
    Rule({"pg_extension", "count("}, {}, {}, "local.zero"),
    Rule({"pg_database", "aclexplode", "grantee"}, {}, {}, "local.acl"),
    Rule({}, {"pg_database"}, {}, "local.databases"),
    Rule({}, {"pg_roles", "pg_settings"}, {}, "local.rows"),
    Rule({"has_privilege"}, {}, {}, "local.false"),
    Rule({"pg_stat"}, {}, {}, "local.empty")>>
LocalKinds == {"local", "local.server", "local.zero", "local.acl", "local.databases",
               "local.rows", "local.false", "local.empty"}

\* That leaves a literal set_config of the search_path alone, its safety net included;
\* then syntheticCatalog, and the firewall of executeSql.
TypeRules == <<Rule({"pg_type"}, {}, {"join"}, "types")>>
ToDb2 == <<Rule({}, {}, {}, "db2")>>
AfterAdapters(q) ==
    LET pgAdmin == IF PathLiteral \in q THEN <<>>
                   ELSE GenericRules \o LeftOver(q, "local.empty")
    IN FirstOf(pgAdmin \o TypeRules \o LeftOver(q, "refused") \o ToDb2, q)

\* executeSql from parseSetConfigSearchPath to the firewall, and resolveSynthetic.
Adapters == SqlAlchemyRules \o SchemaRules \o ChildRules \o ViewRules \o TableRules
NoAdapter == <<Rule({}, {}, {}, "none")>>
Synthetic(q) ==
    LET kind == FirstOf(Adapters \o NoAdapter, q)
    IN IF kind = "none" THEN AfterAdapters(q) ELSE kind
Route(q) == IF PathSchema \in q THEN "searchPath" ELSE Synthetic(q)
-----------------------------------------------------------------------------
(* The queries of pgAdmin and SQLAlchemy, by the tests of the repository.  *)

Template(q, kind) == [q |-> q, kind |-> kind]
SchemaTemplates ==
    {Template({From, "nsptyp", "namespaceowner", "has_privilege", "can_create"},
              "schema.properties"),
     Template({From, "has_privilege", "can_create"}, "schema.nodes"),
     Template({From, "count(*)"}, "schema.count"),
     Template({From, "select oid", "nspname ="}, "schema.oidByName")}
ChildTemplates ==
    {Template({"pg_attribute", "attrelid = n", "attnum as oid", "format_type"},
              "columns.nodes"),
     Template({"pg_attribute", "attrelid = n", "atttypid", "colconstype"},
              "columns.properties"),
     Template({"pg_class", "pg_index", "indrelid = n"}, "indexes.nodes"),
     Template({"pg_class", "pg_index", "indrelid = n", "indnatts", "amname"},
              "indexes.properties")}
RelationTemplates ==
    {Template({"pg_class", "relkind = v", "select count", "relnamespace", "count(*)"},
              "views.count"),
     Template({"pg_class", "relkind = v", "relname as name", "relnamespace"},
              "views.nodes"),
     Template({"pg_class", "select count", "count(*)", "relkind in", "relnamespace"},
              "tables.count"),
     Template({"pg_class", "pg_trigger", "count(*)", "triggercount", "has_enable_triggers",
               "pg_inherits", "inhparent", "is_inherits", "relkind in", "relnamespace"},
              "tables.nodes"),
     Template({"pg_class", "replica_identity", "hastoasttable", "pg_trigger",
               "triggercount", "relkind in", "relnamespace"}, "tables.properties"),
     Template({"pg_class", "select relname", "rel.oid = n", "relnamespace"},
              "tables.nameByOid"),
     Template({"pg_class", "select rel.oid", "relname =", "relnamespace"},
              "tables.oidByName")}
Reflects(marks, kind) == Template({"pg_class", "pg_class.relname"} \cup marks, kind)
ReflectionTemplates ==
    {Reflects({"pg_namespace", "relkind = any"}, "relationNames"),
     Reflects({"pg_class.relname =", "pg_namespace", "relkind = any"}, "hasRelation"),
     Reflects({"pg_description.description", "pg_namespace", "relkind = any"},
              "tableComments"),
     Reflects({"pg_constraint", "pg_get_constraintdef", "pg_namespace", "confrelid"},
              "foreignKeys"),
     Reflects({"pg_constraint", "pg_get_constraintdef", "pg_description.description"},
              "checks")}
Templates == SchemaTemplates \cup ChildTemplates \cup RelationTemplates
                 \cup ReflectionTemplates

\* What the templates embed: the macro that leaves catalogs out, descriptions, the
\* name of the schema, the restriction to one table.
Macros == {{"pg_class", "relname =", "nspname ="}, {"pg_description"}, {From},
           {"rel.oid = n"}, {"::oid"}}
-----------------------------------------------------------------------------
(* Properties.                                                             *)

\* A query of pgAdmin or SQLAlchemy gets the answer it is for, whatever of the
\* macros is nested in it, except that queries on tables and views with a nested
\* "from pg_namespace" may be taken for others, and those for the node of one table
\* for its partitions.
RequestsReachTheirAdapter ==
    \A t \in Templates, nested \in SUBSET Macros :
        LET q == t.q \cup UNION nested
        IN \/ Synthetic(q) = t.kind
           \/ t \in RelationTemplates /\ From \in q
           \/ t.kind = "tables.nodes" /\ "rel.oid = n" \in q

\* The firewall, for any query: what only PostgreSQL has does not reach Db2, where it
\* would fail or mean something else, and that although a set_config gets past the safety
\* net; a literal set_config of the search_path is carried out when it names a schema,
\* whatever follows in the statement, and else at least not answered as if it were.  One
\* with a computed value is not covered: {"pg_catalog."} is answered locally.
SafelyRouted(q) ==
    /\ Route(q) = "db2" => ~Unhandled(q)
    /\ PathSchema \in q => Route(q) = "searchPath"
    /\ PathLiteral \in q => Route(q) \notin LocalKinds
SamplePatterns == PgOnly \cup Mapped \cup {"::oid", "count("}
FirewallHolds ==
    \A a, b \in SamplePatterns, path \in {{}, {PathLiteral}, {PathLiteral, PathSchema}} :
        SafelyRouted({a, b} \cup path)
=============================================================================
