----------------------------- MODULE SchemaPath -----------------------------
(***************************************************************************)
(* The search_path of a session, which the proxy maps to CURRENT SCHEMA of *)
(* the job it leases, and the cache of schema capabilities the sessions of *)
(* a pool share: src/src/proxy/session.ts, src/src/sql/search-path.ts,     *)
(* src/src/mapepire/session-pool.ts and schema-capabilities.ts.            *)
(*                                                                         *)
(* A command of the session is one step; its Db2 statements may fail one   *)
(* by one, which is what the parameter fails of a command stands for.  The *)
(* other sessions of the pool and other users of Db2 act between commands. *)
(***************************************************************************)
EXTENDS Naturals, FiniteSets

CONSTANTS Schemas,
          Default,      \* IBMI_CURRENT_SCHEMA
          NoSchema,     \* "undefined"
          AutoCreate    \* IBMI_AUTO_CREATE_CURRENT_SCHEMA

ASSUME SchemaAssumption ==
    /\ Default \in Schemas /\ NoSchema \notin Schemas
    /\ AutoCreate \in BOOLEAN

VARIABLES
    tx,         \* txStatus(): "I", "T" or "E"
    current,    \* this.currentSchema
    restore,    \* this.localSchemaRestore
    held,       \* does the open transaction hold a job?
    exists,     \* the schemas of Db2
    mine,       \* those the open transaction created
    marked,     \* those it had created at SAVEPOINT
    cache,      \* schemaCapabilityCache: does the schema exist?
    probe,      \* the schema another session inspects, and what it saw
    intended,   \* the schema the client set for the session
    excused,    \* did a command fail in a way that makes current differ?
    outdated    \* schemas that changed behind the back of the cache

path == <<current, restore, held, intended, excused>>
catalog == <<exists, mine, marked, cache, probe, outdated>>
schemaVars == <<tx, path, catalog>>

NoProbe == [schema |-> NoSchema, seen |-> "absent"]

SchemaTypeOK ==
    /\ tx \in {"I", "T", "E"}
    /\ current \in Schemas
    /\ restore \in Schemas \cup {NoSchema}
    /\ held \in BOOLEAN
    /\ exists \subseteq Schemas /\ mine \subseteq Schemas
    /\ marked \subseteq Schemas
    /\ cache \in [Schemas -> {"unknown", "absent", "present"}]
    /\ probe \in [schema : Schemas \cup {NoSchema}, seen : {"absent", "present"}]
    /\ intended \in Schemas
    /\ excused \in BOOLEAN
    /\ outdated \subseteq Schemas

\* initialize: the schema of the startup options, or the default.
InitSchema ==
    /\ tx = "I"
    /\ current \in Schemas
    /\ restore = NoSchema
    /\ held = FALSE
    /\ exists = {Default, current}
    /\ mine = {} /\ marked = {}
    /\ cache = [s \in Schemas |-> IF s \in exists THEN "present" ELSE "unknown"]
    /\ probe = NoProbe
    /\ intended = current
    /\ excused = FALSE
    /\ outdated = {}
-----------------------------------------------------------------------------
(* Preparing a schema.                                                     *)

\* inspectIbmiSchema reads what is there on the job of the session.
Live(s, there) == IF s \in there THEN "present" ELSE "absent"

\* prepareSchema, on the cache c and the schemas there: inspectSchema reads the
\* cache or Db2, and outside transactions a missing schema is created, which
\* fails when only the cache says that it is missing.
Prepare(st, s) ==
    LET seen == IF st.cache[s] # "unknown" THEN st.cache[s] ELSE Live(s, st.there)
        creates == seen = "absent" /\ AutoCreate /\ tx = "I" /\ s \notin st.there
    IN [ok |-> st.ok /\ (seen = "present" \/ creates),
        there |-> IF creates THEN st.there \cup {s} ELSE st.there,
        cache |-> [st.cache EXCEPT ![s] = IF creates THEN "present" ELSE seen]]

\* ensureBackendJob: a leased job gets the schema of the session first.
Now == [ok |-> TRUE, there |-> exists \cup mine, cache |-> cache]
Lease == IF held THEN Now ELSE Prepare(Now, current)

\* The catalog after prepareSchema left st: what it created was committed up to
\* kept, the rest is lost with the transaction of the job.  The cache has it all.
Leaves(kept, st) ==
    /\ cache' = st.cache
    /\ exists' = kept.there \ mine
    /\ outdated' = outdated \cup (st.there \ kept.there)
    /\ UNCHANGED <<mine, probe>>

\* releaseBackendIfIdle after a command: only a transaction keeps the job.
JobKept == held' = (tx' # "I")

\* A command that came to its own statements, and one whose checkout failed.
OnJob == Lease.ok /\ Leaves(Lease, Lease) /\ UNCHANGED marked
CheckoutFails ==
    /\ ~held
    /\ Leaves(Now, Lease)
    /\ UNCHANGED <<tx, path, marked>>
-----------------------------------------------------------------------------
(* SET search_path, set_config and RESET search_path.                      *)

\* The schema to go back to is that before the first SET LOCAL; the variant saves
\* the one before the last.
SavedEach(scope) == IF scope = "local" THEN current ELSE restore
Saved(scope) == IF scope = "local" /\ restore = NoSchema THEN current ELSE restore

\* applySearchPath: "prepare", "set", "read" and "commit" are its statements, of
\* which one may fail; currentSchema changes before the last two.  The error does
\* not abort the transaction.
SetPath(s, scope, fails) ==
    LET st == Prepare(Lease, s)
        moves == fails \notin {"prepare", "set"}
    IN /\ tx # "E"
       /\ scope = "local" => tx = "T"
       /\ Lease.ok
       /\ st.ok \/ fails = "prepare"
       /\ fails = "commit" => tx = "I"
       /\ restore' = Saved(scope)
       /\ current' = IF moves THEN s ELSE current
       /\ intended' = IF moves /\ scope = "session" THEN s ELSE intended
       /\ excused' = (excused \/ (moves /\ scope = "session" /\ restore # NoSchema))
       /\ UNCHANGED <<tx, marked>>
       /\ JobKept
       /\ Leaves(IF fails = "none" THEN st ELSE Lease, st)

\* SET LOCAL outside a transaction, and any SET in a failed one, are refused
\* after the checkout.
SetRefused == OnJob /\ UNCHANGED <<tx, current, restore, intended, excused>>
                    /\ JobKept

\* The end of a transaction, restoreLocalSearchPath: the saved schema is
\* forgotten first, so that a statement of the restore that fails leaves the
\* session with the local one.
RestorePath(fails) ==
    LET restores == restore # NoSchema
    IN /\ restore' = NoSchema
       /\ held' = FALSE
       /\ current' = IF restores /\ ~fails THEN restore ELSE current
       /\ excused' = (excused \/ (restores /\ fails))
       /\ UNCHANGED intended
-----------------------------------------------------------------------------
(* CREATE SCHEMA, and what else happens to schemas.                        *)

\* executeCreateSchema, and the cache it leaves: the entry is dropped, and read
\* again for the current schema.  The variant keeps it.
CacheKept(c, s) == c
CacheDropped(c, s) ==
    [c EXCEPT ![s] = IF s = current THEN "present" ELSE "unknown"]

\* When that reading fails, so does the command, but the schema is there.
CreateSchema(s, inspected) ==
    LET st == Lease
    IN /\ st.ok
       /\ s \notin st.there
       /\ inspected \/ s = current
       /\ cache' = IF inspected THEN CacheDropped(st.cache, s)
                   ELSE [st.cache EXCEPT ![s] = "unknown"]
       /\ IF tx = "I"
          THEN exists' = st.there \cup {s} /\ UNCHANGED mine
          ELSE mine' = mine \cup {s} /\ exists' = st.there \ mine
       /\ outdated' = outdated \ {s}
       /\ tx' = IF inspected \/ tx = "I" THEN tx ELSE "E"
       /\ UNCHANGED <<marked, current, restore, intended, excused, probe>>
       /\ JobKept

CreateSchemaFails ==
    /\ OnJob
    /\ tx' = IF tx = "I" THEN "I" ELSE "E"
    /\ UNCHANGED <<current, restore, intended, excused>>
    /\ JobKept

\* What the end of a transaction or a savepoint does to the schemas it created: the
\* cache is not told, so what it holds of them is out of date.
CommitSchemas ==
    /\ exists' = exists \cup mine
    /\ outdated' = outdated \cup {s \in mine : cache[s] = "absent"}
    /\ mine' = {} /\ marked' = {} /\ UNCHANGED <<cache, probe>>
MarkSchemas == Lease.ok /\ Leaves(Lease, Lease) /\ marked' = mine
UndoneTo(kept) ==
    /\ mine' = kept
    /\ outdated' = outdated \cup {s \in mine \ kept : cache[s] = "present"}
RollbackSchemas == UndoneTo({}) /\ marked' = {} /\ UNCHANGED <<exists, cache, probe>>
RollbackToSchemas == UndoneTo(marked) /\ UNCHANGED <<marked, exists, cache, probe>>

\* Another session misses s in the cache and inspects it; the answer is entered
\* in a later step, when it may be out of date.
OtherInspects(s) ==
    /\ probe = NoProbe
    /\ cache[s] = "unknown"
    /\ probe' = [schema |-> s, seen |-> Live(s, exists)]
    /\ UNCHANGED <<tx, path, exists, mine, marked, cache, outdated>>
OtherFills ==
    /\ probe # NoProbe
    /\ cache' = [cache EXCEPT ![probe.schema] = probe.seen]
    /\ outdated' = IF probe.seen # Live(probe.schema, exists)
                   THEN outdated \cup {probe.schema} ELSE outdated
    /\ probe' = NoProbe
    /\ UNCHANGED <<tx, path, exists, mine, marked>>

\* CREATE or DROP SCHEMA that no handler of the proxy knows of.
SchemaChanges(s) ==
    /\ s \notin mine \cup {current}
    /\ exists' = IF s \in exists THEN exists \ {s} ELSE exists \cup {s}
    /\ outdated' = outdated \cup {s}
    /\ UNCHANGED <<tx, path, mine, marked, cache, probe>>
-----------------------------------------------------------------------------
(* Properties.                                                             *)

\* Between transactions the session works in the schema its client set for the
\* session: whatever SET LOCAL commands a transaction held, its end takes them
\* back, unless a statement of the restore failed or the session path was set
\* after a local one in the same transaction.
LocalPathEndsWithTx ==
    tx = "I" => restore = NoSchema /\ (excused \/ current = intended)

\* A cache entry is wrong only for a schema that changed where the proxy could
\* not see it, that an inspection raced with, or whose creation was uncommitted
\* when the entry was made.
WrongEntriesHaveCause ==
    \A s \in Schemas \ outdated :
        /\ cache[s] = "absent" => s \notin exists
        /\ cache[s] = "present" => s \in exists \cup mine
=============================================================================
