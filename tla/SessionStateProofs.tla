-------------------------- MODULE SessionStateProofs --------------------------
(***************************************************************************)
(* Theorems about the state of a session, for any schemas, tables, columns *)
(* and types and any bounds on the commands.                               *)
(*                                                                         *)
(* The invariant has a part for the search_path, one for the cache of      *)
(* schema capabilities, one for the registries and their snapshot and one  *)
(* for the catalog browser.  Each command changes them through few         *)
(* operators, about which the lemmas are.                                  *)
(***************************************************************************)
EXTENDS SessionState, FiniteSetTheorems, SequenceTheorems, WellFoundedInduction, TLAPS

-----------------------------------------------------------------------------
(* The registries: effects of statements.                                  *)

\* The registries ty and df are exact about the tables d, but for those in dr.
Exact(d, ty, df, dr) ==
    \A t \in Tables \ dr : /\ df[t].cols \in {Absent, d[t]}
                           /\ \A c \in Columns : ty[t][c] \in {"none", d[t][c]}
EffectOK(e) ==
    /\ e.db \in [Tables -> Definitions] /\ e.types \in [Tables -> Definitions]
    /\ e.defs \in [Tables -> Entries]
    /\ e.drifted \subseteq Tables /\ e.misjudged \subseteq e.drifted
    /\ Exact(e.db, e.types, e.defs, e.drifted)

DdlState == DdlTypeOK /\ Exact(db, types, defs, drifted)

LEMMA AbsentDefinition ==
    /\ Absent \in Definitions /\ \A c \in Columns : Absent[c] = "none"
    /\ \A d \in Definitions : d = Absent <=> \A c \in Columns : d[c] = "none"
BY DEF Absent, Definitions

LEMMA UnchangedOK == ASSUME DdlState PROVE EffectOK(Unchanged)
BY DEF DdlState, DdlTypeOK, EffectOK, Unchanged

LEMMA CreatesOK ==
    ASSUME DdlState, NEW t \in Tables, NEW cols \in Definitions, NEW qualified \in BOOLEAN
    PROVE  EffectOK(Creates(t, cols, qualified))
<1> DEFINE merged == [c \in Columns |-> IF cols[c] = "none" THEN types[t][c] ELSE cols[c]]
           entry == [cols |-> cols, qualified |-> qualified]
           e == Creates(t, cols, qualified)
<1>1. merged \in Definitions /\ entry \in Entries
    BY DEF DdlState, DdlTypeOK, Definitions, Entries
<1>2. entry.cols = cols
    OBVIOUS
<1>3. /\ e.db = [db EXCEPT ![t] = cols]
      /\ e.types = [types EXCEPT ![t] = merged]
      /\ e.defs = [defs EXCEPT ![t] = entry]
      /\ e.drifted = IF merged = cols THEN drifted \ {t} ELSE drifted \cup {t}
      /\ e.misjudged = {}
    BY DEF Creates, Unchanged
<1> HIDE DEF merged, entry, e
<1>4. Exact(e.db, e.types, e.defs, e.drifted)
    BY <1>1, <1>2, <1>3 DEF DdlState, DdlTypeOK, Exact
<1> QED BY <1>1, <1>3, <1>4 DEF EffectOK, DdlState, DdlTypeOK, e

LEMMA AddsColumnOK ==
    ASSUME DdlState, NEW t \in Tables, NEW c \in Columns, NEW type \in Types
    PROVE  EffectOK(AddsColumn(t, c, type))
<1> DEFINE e == AddsColumn(t, c, type)
           cols == [db[t] EXCEPT ![c] = type]
           ty == [types[t] EXCEPT ![c] = type]
           registered == [defs[t].cols EXCEPT ![c] = type]
<1>1. /\ cols \in Definitions /\ ty \in Definitions /\ registered \in Definitions
      /\ \A x \in Columns : cols[x] = IF x = c THEN type ELSE db[t][x]
      /\ \A x \in Columns : ty[x] = IF x = c THEN type ELSE types[t][x]
      /\ defs[t].cols = db[t] => registered = cols
    BY DEF DdlState, DdlTypeOK, Definitions, Entries
<1>2. /\ e.db = [db EXCEPT ![t] = cols]
      /\ e.types = [types EXCEPT ![t] = ty]
      /\ e.defs = IF defs[t].cols = Absent THEN defs
                  ELSE [defs EXCEPT ![t].cols = registered]
      /\ e.drifted = drifted /\ e.misjudged = {}
    BY DEF AddsColumn, Unchanged
<1> HIDE DEF e, cols, ty, registered
<1>3. Exact(e.db, e.types, e.defs, e.drifted)
    BY <1>1, <1>2 DEF DdlState, DdlTypeOK, Exact, Entries
<1>4. e.defs \in [Tables -> Entries]
    BY <1>1, <1>2 DEF DdlState, DdlTypeOK, Entries
<1> QED BY <1>1, <1>2, <1>3, <1>4 DEF EffectOK, DdlState, DdlTypeOK, e

LEMMA SetsDataTypeOK ==
    ASSUME DdlState, NEW t \in Tables, NEW c \in Columns, NEW type \in Types
    PROVE  EffectOK(SetsDataType(t, c, type))
<1> DEFINE e == SetsDataType(t, c, type)
           cols == [db[t] EXCEPT ![c] = type]
           ty == [types[t] EXCEPT ![c] = type]
<1>1. /\ cols \in Definitions /\ ty \in Definitions
      /\ \A x \in Columns : cols[x] = IF x = c THEN type ELSE db[t][x]
      /\ \A x \in Columns : ty[x] = IF x = c THEN type ELSE types[t][x]
    BY DEF DdlState, DdlTypeOK, Definitions
<1>2. NoDef \in Entries /\ NoDef.cols = Absent
    BY AbsentDefinition DEF NoDef, Entries
<1>3. /\ e.db = [db EXCEPT ![t] = cols]
      /\ e.types = [types EXCEPT ![t] = ty]
      /\ e.defs = [defs EXCEPT ![t] = NoDef]
      /\ e.drifted = drifted /\ e.misjudged = {}
    BY DEF SetsDataType, Unchanged
<1> HIDE DEF e, cols, ty
<1>4. Exact(e.db, e.types, e.defs, e.drifted)
    BY <1>1, <1>2, <1>3 DEF DdlState, DdlTypeOK, Exact
<1> QED BY <1>1, <1>2, <1>3, <1>4 DEF EffectOK, DdlState, DdlTypeOK, e

LEMMA DropsOK ==
    ASSUME DdlState, NEW t \in Tables, NEW cols \in Definitions
    PROVE  EffectOK(Drops(t, cols))
<1> DEFINE e == Drops(t, cols)
<1>1. /\ e.db = [db EXCEPT ![t] = cols]
      /\ e.types = types /\ e.defs = defs
      /\ e.drifted = IF Registered(t) THEN drifted \cup {t} ELSE drifted
      /\ e.misjudged = {}
    BY DEF Drops, Unchanged
<1>2. ~Registered(t) => defs[t].cols = Absent /\ \A c \in Columns : types[t][c] = "none"
    BY AbsentDefinition DEF Registered
<1> HIDE DEF e
<1>3. Exact(e.db, e.types, e.defs, e.drifted)
    BY <1>1, <1>2 DEF DdlState, DdlTypeOK, Exact
<1> QED BY <1>1, <1>3 DEF EffectOK, DdlState, DdlTypeOK, e

LEMMA RenamedFacts ==
    ASSUME NEW cols \in Definitions, NEW c \in Columns, NEW d \in Columns, c # d
    PROVE  /\ Renamed(cols, c, d) \in Definitions
           /\ \A x \in Columns : Renamed(cols, c, d)[x] =
                 IF x = c THEN "none" ELSE IF x = d THEN cols[c] ELSE cols[x]
BY DEF Renamed, Definitions

LEMMA RenamesColumnOK ==
    ASSUME DdlState, NEW t \in Tables, NEW c \in Columns, NEW d \in Columns, c # d,
           CanRename(t, c, d), NEW here, <<here, t[2]>> \in Tables
    PROVE  EffectOK(RenamesColumn(t, c, d, here))
<1> DEFINE e == RenamesColumn(t, c, d, here)
           cols == Renamed(defs[t].cols, c, d)
           target == IF defs[t].qualified THEN t ELSE <<here, t[2]>>
           lossless == target = t /\ cols = Renamed(db[t], c, d)
           ty == TypeMoves(t, c, d)
<1>1. /\ e.db = [db EXCEPT ![target] = cols]
      /\ e.types = ty
      /\ e.defs = [defs EXCEPT ![t].cols = cols]
      /\ e.drifted = IF target = t THEN drifted ELSE drifted \cup {t, target}
      /\ e.misjudged = IF lossless THEN {} ELSE {t}
    BY DEF RenamesColumn
<1>2. target \in Tables
    OBVIOUS
<1>3. /\ defs[t].cols \in Definitions /\ db[t] \in Definitions /\ types[t] \in Definitions
      /\ defs[t] \in Entries
    BY DEF DdlState, DdlTypeOK, Entries
<1>4. /\ cols \in Definitions
      /\ \A x \in Columns : cols[x] =
            IF x = c THEN "none" ELSE IF x = d THEN defs[t].cols[c] ELSE defs[t].cols[x]
    <2> DEFINE f == defs[t].cols
    <2>1. f \in Definitions
        BY <1>3
    <2>2. cols = Renamed(f, c, d)
        OBVIOUS
    <2> HIDE DEF f, cols
    <2>3. /\ cols \in Definitions
          /\ \A x \in Columns : cols[x] =
                IF x = c THEN "none" ELSE IF x = d THEN f[c] ELSE f[x]
        BY <2>1, <2>2, RenamedFacts
    <2> QED BY <2>3 DEF f
<1>5. /\ ty \in [Tables -> Definitions]
      /\ \A u \in Tables \ {t} : ty[u] = types[u]
      /\ \A x \in Columns : ty[t][x] =
            IF types[t][c] = "none" THEN types[t][x]
            ELSE IF x = c THEN "none" ELSE IF x = d THEN types[t][c] ELSE types[t][x]
    <2>1. /\ Renamed(types[t], c, d) \in Definitions
          /\ \A x \in Columns : Renamed(types[t], c, d)[x] =
                IF x = c THEN "none" ELSE IF x = d THEN types[t][c] ELSE types[t][x]
        BY <1>3, RenamedFacts
    <2>2. CASE types[t][c] = "none"
        BY <2>2 DEF TypeMoves, DdlState, DdlTypeOK
    <2>3. CASE types[t][c] # "none"
        <3> DEFINE r == Renamed(types[t], c, d)
        <3>1. ty = [types EXCEPT ![t] = r]
            BY <2>3 DEF TypeMoves
        <3> HIDE DEF r, ty
        <3>2. types \in [Tables -> Definitions] /\ r \in Definitions
            BY <2>1 DEF r, DdlState, DdlTypeOK
        <3>3. ty[t] = r /\ ty \in [Tables -> Definitions] /\ \A u \in Tables \ {t} : ty[u] = types[u]
            BY <3>1, <3>2
        <3>4. \A x \in Columns : ty[t][x] =
                IF x = c THEN "none" ELSE IF x = d THEN types[t][c] ELSE types[t][x]
            BY <2>1, <3>3 DEF r
        <3> QED BY <2>3, <3>3, <3>4
    <2> QED BY <2>2, <2>3
<1>6. t \notin drifted =>
        /\ defs[t].cols = db[t]
        /\ \A x \in Columns : types[t][x] \in {"none", db[t][x]}
    BY <1>3, AbsentDefinition DEF DdlState, Exact, CanRename
<1>7. defs[t].cols[d] = "none" /\ defs[t].cols[c] # "none"
    BY DEF CanRename
<1>8. e.misjudged \subseteq e.drifted
    BY <1>1, <1>6
<1> HIDE DEF e, cols, ty, target
<1>9. ASSUME NEW u \in Tables \ e.drifted
      PROVE  /\ e.defs[u].cols \in {Absent, e.db[u]}
             /\ \A x \in Columns : e.types[u][x] \in {"none", e.db[u][x]}
    <2>1. u \notin drifted
        BY <1>1, <1>9
    <2>2. CASE u # t
        <3>1. u # target BY <1>1, <1>9, <2>2
        <3>2. e.db[u] = db[u] /\ e.defs[u] = defs[u] /\ e.types[u] = types[u]
            BY <1>1, <1>5, <2>2, <3>1 DEF DdlState, DdlTypeOK
        <3> QED BY <2>1, <3>2 DEF DdlState, Exact
    <2>3. CASE u = t
        <3>1. target = t BY <1>1, <1>9, <2>3
        <3>2. e.db[t] = cols /\ e.defs[t].cols = cols /\ e.types[t] = ty[t]
            BY <1>1, <1>2, <1>3, <3>1 DEF DdlState, DdlTypeOK, Entries
        <3>3. \A x \in Columns : ty[t][x] \in {"none", cols[x]}
            BY <1>4, <1>5, <1>6, <1>7, <2>1, <2>3
        <3> QED BY <2>3, <3>2, <3>3
    <2> QED BY <2>2, <2>3
<1>10. Exact(e.db, e.types, e.defs, e.drifted)
    BY <1>9 DEF Exact
<1>11. e.db \in [Tables -> Definitions]
    BY <1>1, <1>2, <1>4 DEF DdlState, DdlTypeOK
<1>12. e.defs \in [Tables -> Entries]
    BY <1>1, <1>3, <1>4 DEF DdlState, DdlTypeOK, Entries
<1>13. e.drifted \subseteq Tables
    BY <1>1, <1>2 DEF DdlState, DdlTypeOK
<1> QED BY <1>1, <1>5, <1>8, <1>10, <1>11, <1>12, <1>13 DEF EffectOK, e

LEMMA RenamesTableOK ==
    ASSUME DdlState, NEW t \in Tables, NEW u \in Tables, t # u, db[u] = Absent
    PROVE  EffectOK(RenamesTable(t, u))
<1> DEFINE e == RenamesTable(t, u)
           ty == [c \in Columns |-> IF types[t][c] = "none" THEN types[u][c]
                                    ELSE types[t][c]]
           entry == [cols |-> defs[t].cols, qualified |-> TRUE]
<1>1. /\ e.db = [db EXCEPT ![u] = db[t], ![t] = Absent]
      /\ e.types = [types EXCEPT ![u] = ty, ![t] = Absent]
      /\ e.defs = IF defs[t].cols = Absent THEN defs
                  ELSE [defs EXCEPT ![u] = entry, ![t] = NoDef]
      /\ e.drifted = IF drifted \cap {t, u} # {} THEN drifted \cup {u} ELSE drifted
      /\ e.misjudged = {}
    BY DEF RenamesTable
<1>2. /\ ty \in Definitions /\ entry \in Entries /\ entry.cols = defs[t].cols
      /\ NoDef \in Entries /\ NoDef.cols = Absent
      /\ \A c \in Columns : ty[c] = IF types[t][c] = "none" THEN types[u][c] ELSE types[t][c]
    BY AbsentDefinition DEF DdlState, DdlTypeOK, Definitions, Entries, NoDef
<1> HIDE DEF e, ty, entry
<1>3. /\ e.db[u] = db[t] /\ e.db[t] = Absent
      /\ e.types[u] = ty /\ e.types[t] = Absent
      /\ \A v \in Tables \ {t, u} :
            e.db[v] = db[v] /\ e.types[v] = types[v] /\ e.defs[v] = defs[v]
    BY <1>1 DEF DdlState, DdlTypeOK
<1>4. /\ e.defs[t].cols = Absent
      /\ e.defs[u].cols = IF defs[t].cols = Absent THEN defs[u].cols ELSE defs[t].cols
    BY <1>1, <1>2 DEF DdlState, DdlTypeOK
<1>5. ASSUME NEW v \in Tables \ e.drifted
      PROVE  /\ e.defs[v].cols \in {Absent, e.db[v]}
             /\ \A x \in Columns : e.types[v][x] \in {"none", e.db[v][x]}
    <2>1. v \notin drifted /\ (v = u => t \notin drifted)
        BY <1>1, <1>5
    <2>2. CASE v \notin {t, u}
        BY <1>3, <2>1, <2>2 DEF DdlState, Exact
    <2>3. CASE v = t
        BY <1>3, <1>4, <2>3, AbsentDefinition
    <2>4. CASE v = u
        BY <1>2, <1>3, <1>4, <2>1, <2>4, AbsentDefinition DEF DdlState, Exact
    <2> QED BY <2>2, <2>3, <2>4
<1>6. Exact(e.db, e.types, e.defs, e.drifted)
    BY <1>5 DEF Exact
<1> QED BY <1>1, <1>2, <1>6, AbsentDefinition DEF EffectOK, DdlState, DdlTypeOK, e
-----------------------------------------------------------------------------
(* The registries: steps.                                                  *)

\* The snapshot is there in a transaction and is exact about what is committed.
DdlInv ==
    /\ DdlState /\ misjudged \subseteq drifted
    /\ tx = "I" => snapshot = NoSnapshot /\ db = base
    /\ tx # "I" => /\ snapshot \in Snapshots
                   /\ Exact(base, snapshot.types, snapshot.defs, snapshot.drifted)

LEMMA TakesOK ==
    ASSUME DdlInv, NEW e, EffectOK(e), Takes(e), tx' = tx,
           base' = IF tx = "I" THEN e.db ELSE base
    PROVE  DdlInv'
<1>1. DdlTypeOK'
    BY DEF DdlInv, DdlState, DdlTypeOK, EffectOK, Takes
<1>2. Exact(db', types', defs', drifted') /\ misjudged' \subseteq drifted'
    BY DEF EffectOK, Takes
<1>3. tx' = "I" => snapshot' = NoSnapshot /\ db' = base'
    BY DEF DdlInv, Takes
<1>4. tx' # "I" => /\ snapshot' \in Snapshots
                   /\ Exact(base', snapshot'.types, snapshot'.defs, snapshot'.drifted)
    BY DEF DdlInv, Takes
<1> QED BY <1>1, <1>2, <1>3, <1>4 DEF DdlInv, DdlState, Exact, Snapshots

LEMMA TakesInVainOK ==
    ASSUME DdlInv, NEW e, EffectOK(e), TakesInVain(e), tx = "I", tx' = "I", base' = base
    PROVE  DdlInv'
<1>1. DdlTypeOK'
    BY DEF DdlInv, DdlState, DdlTypeOK, EffectOK, TakesInVain
<1>2. Exact(db', types', defs', drifted')
    BY DEF EffectOK, TakesInVain, Exact
<1>3. misjudged' \subseteq drifted' /\ snapshot' = NoSnapshot /\ db' = base'
    BY DEF DdlInv, TakesInVain
<1> QED BY <1>1, <1>2, <1>3 DEF DdlInv, DdlState, Exact

\* Statements that do nothing to tables.
DdlKept == UNCHANGED <<db, base, save, types, defs, snapshot, drifted>>

LEMMA JudgesOK ==
    ASSUME DdlInv, DdlKept, misjudged' \subseteq drifted, tx' = "I" <=> tx = "I"
    PROVE  DdlInv'
<1>1. DdlTypeOK'
    BY DEF DdlInv, DdlState, DdlTypeOK, DdlKept
<1>2. Exact(db', types', defs', drifted') /\ misjudged' \subseteq drifted'
    BY DEF DdlInv, DdlState, DdlKept
<1>3. /\ tx' = "I" => snapshot' = NoSnapshot /\ db' = base'
      /\ tx' # "I" => /\ snapshot' \in Snapshots
                      /\ Exact(base', snapshot'.types, snapshot'.defs, snapshot'.drifted)
    BY DEF DdlInv, DdlKept
<1> QED BY <1>1, <1>2, <1>3 DEF DdlInv, DdlState, Exact, Snapshots

LEMMA NoDdlOK ==
    ASSUME DdlInv, NoDdl, tx' = "I" <=> tx = "I"
    PROVE  DdlInv'
BY JudgesOK DEF NoDdl, DdlKept

LEMMA SnapshotType ==
    ASSUME DdlState
    PROVE  /\ Snapshot \in Snapshots
           /\ Exact(db, Snapshot.types, Snapshot.defs, Snapshot.drifted)
BY DEF DdlState, DdlTypeOK, Snapshot, Snapshots

LEMMA BeginDdlOK ==
    ASSUME DdlInv, BeginDdl, tx' = "T"
    PROVE  DdlInv'
<1>1. snapshot' \in Snapshots
      /\ Exact(base, snapshot'.types, snapshot'.defs, snapshot'.drifted)
    <2>1. CASE snapshot = NoSnapshot /\ tx = "I"
        BY <2>1, SnapshotType DEF BeginDdl, SnapshotOnce, DdlInv
    <2>2. CASE snapshot # NoSnapshot
        BY <2>2 DEF BeginDdl, SnapshotOnce, DdlInv
    <2>3. CASE snapshot = NoSnapshot /\ tx # "I"
        <3>1. NoSnapshot \in Snapshots BY <2>3 DEF DdlInv
        <3>2. <<>> \in [Tables -> Definitions] BY <3>1 DEF NoSnapshot, Snapshots
        <3>3. DOMAIN <<>> = {} OBVIOUS
        <3>4. Tables = {} BY <3>2, <3>3
        <3>5. snapshot' = Snapshot BY <2>3 DEF BeginDdl, SnapshotOnce
        <3> QED BY <3>4, <3>5, SnapshotType DEF DdlInv, Exact
    <2> QED BY <2>1, <2>2, <2>3
<1>2. DdlTypeOK'
    BY <1>1 DEF BeginDdl, DdlInv, DdlState, DdlTypeOK
<1>3. Exact(db', types', defs', drifted') /\ misjudged' \subseteq drifted' /\ base' = base
    BY DEF DdlInv, DdlState, BeginDdl
<1> QED BY <1>1, <1>2, <1>3 DEF DdlInv, DdlState, Exact, Snapshots

LEMMA CommitDdlOK ==
    ASSUME DdlInv, CommitDdl, tx' = "I"
    PROVE  DdlInv'
<1>1. DdlTypeOK'
    BY DEF CommitDdl, DdlInv, DdlState, DdlTypeOK
<1>2. /\ Exact(db', types', defs', drifted') /\ misjudged' \subseteq drifted'
      /\ snapshot' = NoSnapshot /\ base' = db'
    BY DEF DdlInv, DdlState, CommitDdl
<1> QED BY <1>1, <1>2 DEF DdlInv, DdlState, Exact

LEMMA RollbackDdlOK ==
    ASSUME DdlInv, RollbackDdl, tx # "I", tx' = "I"
    PROVE  DdlInv'
<1>1. /\ snapshot.types \in [Tables -> Definitions] /\ snapshot.defs \in [Tables -> Entries]
      /\ snapshot.drifted \subseteq Tables
    BY DEF DdlInv, Snapshots
<1>2. DdlTypeOK'
    BY <1>1 DEF RollbackDdl, DdlInv, DdlState, DdlTypeOK
<1>3. /\ Exact(db', types', defs', drifted') /\ misjudged' \subseteq drifted'
      /\ snapshot' = NoSnapshot /\ base' = db'
    BY DEF DdlInv, DdlState, RollbackDdl
<1> QED BY <1>2, <1>3 DEF DdlInv, DdlState, Exact

LEMMA MarkDdlOK ==
    ASSUME DdlInv, MarkDdl, tx # "I", tx' = tx
    PROVE  DdlInv'
<1>1. DdlTypeOK'
    BY DEF MarkDdl, DdlInv, DdlState, DdlTypeOK
<1>2. Exact(db', types', defs', drifted') /\ misjudged' \subseteq drifted'
    BY DEF DdlInv, DdlState, MarkDdl
<1>3. snapshot' \in Snapshots
      /\ Exact(base', snapshot'.types, snapshot'.defs, snapshot'.drifted)
    BY DEF DdlInv, MarkDdl
<1> QED BY <1>1, <1>2, <1>3 DEF DdlInv, DdlState, Exact, Snapshots

LEMMA RollbackToDdlOK ==
    ASSUME DdlInv, RollbackToDdl, tx # "I", tx' = "T"
    PROVE  DdlInv'
<1>1. DdlTypeOK'
    BY DEF RollbackToDdl, DdlInv, DdlState, DdlTypeOK
<1>2. Exact(db', types', defs', drifted') /\ misjudged' \subseteq drifted'
    BY DEF DdlInv, DdlState, DdlTypeOK, RollbackToDdl, Exact
<1>3. snapshot' \in Snapshots
      /\ Exact(base', snapshot'.types, snapshot'.defs, snapshot'.drifted)
    BY DEF DdlInv, RollbackToDdl
<1> QED BY <1>1, <1>2, <1>3 DEF DdlInv, DdlState, Exact, Snapshots

LEMMA TableChangesOK ==
    ASSUME DdlInv, NEW t \in Tables, NEW cols \in Definitions, TableChanges(t, cols),
           tx = "I", tx' = "I"
    PROVE  DdlInv'
<1>1. DdlTypeOK'
    BY DEF TableChanges, DdlInv, DdlState, DdlTypeOK
<1>2. ~Registered(t) => defs[t].cols = Absent /\ \A c \in Columns : types[t][c] = "none"
    BY AbsentDefinition DEF Registered
<1>3. Exact(db', types', defs', drifted') /\ misjudged' \subseteq drifted'
    BY <1>2 DEF DdlInv, DdlState, DdlTypeOK, TableChanges, Exact
<1>4. snapshot' = NoSnapshot /\ base' = db'
    BY DEF DdlInv, TableChanges
<1> QED BY <1>1, <1>3, <1>4 DEF DdlInv, DdlState, Exact
-----------------------------------------------------------------------------
(* The registries: commands.                                               *)

LEMMA AcceptedOK ==
    ASSUME DdlInv, NEW e, EffectOK(e), Accepted(e)
    PROVE  DdlInv'
<1>1. tx' = tx
    BY DEF Accepted
<1>2. CASE Takes(e) /\ base' = IF tx = "I" THEN e.db ELSE base
    BY <1>1, <1>2, TakesOK
<1>3. CASE tx = "I" /\ TakesInVain(e) /\ base' = base
    BY <1>1, <1>3, TakesInVainOK
<1> QED BY <1>2, <1>3 DEF Accepted

\* A refused statement leaves the tables, and an open transaction open or failed.
LEMMA RefusedOK ==
    ASSUME DdlInv, DdlKept, misjudged' \subseteq drifted, NEW aborts \in BOOLEAN,
           tx' = IF aborts /\ tx = "T" THEN "E" ELSE tx
    PROVE  DdlInv'
BY JudgesOK

LEMMA OneColumnType ==
    ASSUME NEW c \in Columns, NEW type \in Types PROVE OneColumn(c, type) \in Definitions
BY DEF OneColumn, Absent, Definitions

LEMMA NewTablesAreTables == NewTables \subseteq Tables /\ There \subseteq Tables
BY DEF NewTables, There

LEMMA CreateChildOK == ASSUME DdlInv, CreateChild PROVE DdlInv'
<1>1. PICK t \in NewTables, parent \in There, c \in Columns, type \in Types :
        /\ db[parent][c] # "none"
        /\ LET aligned == AlignedType(parent, c, type)
           IN IF aligned = db[parent][c]
              THEN Accepted(Creates(t, OneColumn(c, aligned), TRUE))
              ELSE Refused(TRUE, Judges(parent, types[parent][c] = "none"))
    BY DEF CreateChild
<1> DEFINE aligned == AlignedType(parent, c, type)
<1>2. t \in Tables /\ parent \in Tables
    BY NewTablesAreTables
<1>3. aligned \in Types
    BY <1>2 DEF AlignedType, DdlInv, DdlState, DdlTypeOK, Definitions
<1>4. CASE aligned = db[parent][c]
    <2> DEFINE cols == OneColumn(c, aligned)
               e == Creates(t, cols, TRUE)
    <2>1. Accepted(e) BY <1>1, <1>4
    <2>2. cols \in Definitions BY <1>3, OneColumnType
    <2> HIDE DEF cols, aligned
    <2>3. EffectOK(e) BY <1>2, <2>2, CreatesOK DEF DdlInv
    <2> HIDE DEF e
    <2> QED BY <2>1, <2>3, AcceptedOK
<1>5. CASE aligned # db[parent][c]
    <2>1. Refused(TRUE, Judges(parent, types[parent][c] = "none"))
        BY <1>1, <1>5
    <2>2. /\ DdlKept
          /\ misjudged' = IF types[parent][c] = "none" THEN {} ELSE {parent}
          /\ tx' = IF TRUE /\ tx = "T" THEN "E" ELSE tx
        BY <2>1 DEF Refused, Judges, DdlKept
    <2>3. types[parent][c] # "none" => parent \in drifted
        BY <1>1, <1>2, <1>5 DEF AlignedType, DdlInv, DdlState, Exact
    <2> QED BY <2>2, <2>3, RefusedOK
<1> QED BY <1>4, <1>5

LEMMA CreateIndexOK == ASSUME DdlInv, CreateIndex PROVE DdlInv'
<1>1. PICK t \in There, c \in Columns :
        /\ db[t][c] # "none"
        /\ LET taken == IsLob(TypeForIndex(t, c))
               is == IsLob(db[t][c])
           IN IF taken \/ is
              THEN Refused(~taken, Judges(t, taken = is))
              ELSE Accepted(Unchanged)
    BY DEF CreateIndex
<1> DEFINE taken == IsLob(TypeForIndex(t, c))
           is == IsLob(db[t][c])
<1>2. t \in Tables
    BY NewTablesAreTables
<1>3. CASE taken \/ is
    <2>1. Refused(~taken, Judges(t, taken = is))
        BY <1>1, <1>3
    <2>2. /\ DdlKept
          /\ misjudged' = IF taken = is THEN {} ELSE {t}
          /\ tx' = IF ~taken /\ tx = "T" THEN "E" ELSE tx
        BY <2>1 DEF Refused, Judges, DdlKept
    <2>3. taken # is => t \in drifted
        BY <1>1, <1>2 DEF TypeForIndex, DdlInv, DdlState, Exact
    <2>4. tx' = "I" <=> tx = "I"
        BY <2>2
    <2> QED BY <2>2, <2>3, <2>4, JudgesOK
<1>4. CASE ~(taken \/ is)
    <2>1. Accepted(Unchanged) BY <1>1, <1>4
    <2>2. EffectOK(Unchanged) BY UnchangedOK DEF DdlInv
    <2> DEFINE e == Unchanged
    <2>3. Accepted(e) /\ EffectOK(e) BY <2>1, <2>2
    <2> HIDE DEF e
    <2> QED BY <2>3, AcceptedOK
<1> QED BY <1>3, <1>4

LEMMA StatementOK == ASSUME DdlInv, current \in Schemas, Statement PROVE DdlInv'
<1> USE NewTablesAreTables
<1>1. CASE CreateTable
    <2>1. PICK t \in NewTables, c \in Columns, type \in Types, qualified \in BOOLEAN :
            Accepted(Creates(t, OneColumn(c, type), qualified))
        BY <1>1 DEF CreateTable
    <2> DEFINE cols == OneColumn(c, type)
               e == Creates(t, cols, qualified)
    <2>2. cols \in Definitions BY OneColumnType
    <2>3. Accepted(e) BY <2>1
    <2> HIDE DEF cols
    <2>4. EffectOK(e) BY <2>2, CreatesOK DEF DdlInv
    <2> HIDE DEF e
    <2> QED BY <2>3, <2>4, AcceptedOK
<1>2. CASE CreateChild
    BY <1>2, CreateChildOK
<1>3. CASE AddColumn
    <2>1. PICK t \in There, c \in Columns, type \in Types : Accepted(AddsColumn(t, c, type))
        BY <1>3 DEF AddColumn
    <2> DEFINE e == AddsColumn(t, c, type)
    <2>2. Accepted(e) BY <2>1
    <2>3. EffectOK(e) BY AddsColumnOK DEF DdlInv
    <2> HIDE DEF e
    <2> QED BY <2>2, <2>3, AcceptedOK
<1>4. CASE SetDataType
    <2>1. PICK t \in There, c \in Columns, type \in Types : Accepted(SetsDataType(t, c, type))
        BY <1>4 DEF SetDataType
    <2> DEFINE e == SetsDataType(t, c, type)
    <2>2. Accepted(e) BY <2>1
    <2>3. EffectOK(e) BY SetsDataTypeOK DEF DdlInv
    <2> HIDE DEF e
    <2> QED BY <2>2, <2>3, AcceptedOK
<1>5. CASE Drop
    <2>1. PICK t \in There :
            \/ Accepted(Drops(t, Absent))
            \/ \E c \in Columns : Accepted(Drops(t, [db[t] EXCEPT ![c] = "none"]))
        BY <1>5 DEF Drop
    <2>2. PICK cols \in Definitions : Accepted(Drops(t, cols))
        <3>1. Absent \in Definitions BY AbsentDefinition
        <3>2. \A c \in Columns : [db[t] EXCEPT ![c] = "none"] \in Definitions
            BY DEF DdlInv, DdlState, DdlTypeOK, Definitions
        <3> QED BY <2>1, <3>1, <3>2
    <2> DEFINE e == Drops(t, cols)
    <2>3. Accepted(e) BY <2>2
    <2>4. EffectOK(e) BY DropsOK DEF DdlInv
    <2> HIDE DEF e
    <2> QED BY <2>3, <2>4, AcceptedOK
<1>6. CASE RenameColumn
    <2>1. PICK t \in There, c \in Columns, d \in Columns :
            c # d /\ CanRename(t, c, d) /\ Accepted(RenamesColumn(t, c, d, current))
        BY <1>6 DEF RenameColumn
    <2> DEFINE e == RenamesColumn(t, c, d, current)
    <2>2. Accepted(e) BY <2>1
    <2>3. <<current, t[2]>> \in Tables BY StateAssumption DEF Tables
    <2>4. EffectOK(e) BY <2>1, <2>3, RenamesColumnOK DEF DdlInv
    <2> HIDE DEF e
    <2> QED BY <2>2, <2>4, AcceptedOK
<1>7. CASE RenameTable
    <2>1. PICK t \in There, name \in TableNames :
            /\ <<t[1], name>> \in NewTables
            /\ Accepted(RenamesTable(t, <<t[1], name>>))
        BY <1>7 DEF RenameTable
    <2> DEFINE u == <<t[1], name>>
               e == RenamesTable(t, u)
    <2>2. Accepted(e) BY <2>1
    <2>3. u \in Tables /\ db[u] = Absent /\ t # u BY <2>1 DEF NewTables, There
    <2> HIDE DEF u
    <2>4. EffectOK(e) BY <2>3, RenamesTableOK DEF DdlInv
    <2> HIDE DEF e
    <2> QED BY <2>2, <2>4, AcceptedOK
<1>8. CASE CreateIndex
    BY <1>8, CreateIndexOK
<1>9. CASE \E aborts \in BOOLEAN : Refused(aborts, NoDdl)
    <2>1. NoDdl /\ (tx' = "I" <=> tx = "I")
        BY <1>9 DEF Refused
    <2> QED BY <2>1, NoDdlOK
<1> QED BY <1>1, <1>2, <1>3, <1>4, <1>5, <1>6, <1>7, <1>8, <1>9 DEF Statement

LEMMA DdlStep == ASSUME DdlInv, SchemaTypeOK, Next PROVE DdlInv'
<1>1. CASE Statement
    BY <1>1, StatementOK DEF SchemaTypeOK
<1>2. CASE Begin
    BY <1>2, BeginDdlOK DEF Begin
<1>3. CASE Savepoint
    BY <1>3, MarkDdlOK DEF Savepoint
<1>4. CASE RollbackTo
    BY <1>4, RollbackToDdlOK DEF RollbackTo
<1>5. CASE \E fails \in BOOLEAN : Commit(fails)
    BY <1>5, CommitDdlOK DEF Commit
<1>6. CASE \E fails \in BOOLEAN : Rollback(fails)
    BY <1>6, RollbackDdlOK DEF Rollback
<1>7. CASE SetSearchPath
    <2>1. NoDdl /\ tx' = tx
        BY <1>7 DEF SetSearchPath, SetPath, SetRefused, CheckoutFails
    <2> QED BY <2>1, NoDdlOK
<1>8. CASE MakeSchema
    <2>1. NoDdl /\ (tx' = "I" <=> tx = "I")
        BY <1>8 DEF MakeSchema, CreateSchema, CreateSchemaFails
    <2> QED BY <2>1, NoDdlOK
<1>9. CASE BrowseCatalog
    <2>1. NoDdl /\ tx' = tx
        BY <1>9 DEF BrowseCatalog
    <2> QED BY <2>1, NoDdlOK
<1>10. CASE Others
    <2>1. CASE NoDdl
        <3>1. tx' = tx
            BY <1>10, <2>1 DEF Others, OtherInspects, OtherFills, SchemaChanges, schemaVars
        <3> QED BY <2>1, <3>1, NoDdlOK
    <2>2. CASE /\ tx = "I" /\ tx' = "I"
               /\ \/ \E t \in There : TableChanges(t, Absent)
                  \/ \E t \in There \cup NewTables, c \in Columns, type \in Types :
                        TableChanges(t, OneColumn(c, type))
        <3>1. PICK t \in Tables, cols \in Definitions : TableChanges(t, cols)
            BY <2>2, NewTablesAreTables, AbsentDefinition, OneColumnType
        <3> QED BY <2>2, <3>1, TableChangesOK
    <2> QED BY <1>10, <2>1, <2>2 DEF Others, schemaVars
<1> QED BY <1>1, <1>2, <1>3, <1>4, <1>5, <1>6, <1>7, <1>8, <1>9, <1>10 DEF Next
-----------------------------------------------------------------------------
(* The search_path.                                                        *)

\* While a SET LOCAL is in force, the schema to go back to is the one the client set
\* for the session.
PathInv ==
    /\ tx = "I" => restore = NoSchema /\ ~held
    /\ excused \/ (IF restore = NoSchema THEN current ELSE restore) = intended

PathTypeOK ==
    /\ tx \in {"I", "T", "E"}
    /\ current \in Schemas
    /\ restore \in Schemas \cup {NoSchema}
    /\ held \in BOOLEAN
    /\ intended \in Schemas
    /\ excused \in BOOLEAN

\* Most commands leave it alone.
LEMMA SamePathOK ==
    ASSUME PathTypeOK, PathInv, SamePath, tx' \in {"I", "T", "E"},
           tx' = "I" => tx = "I", JobKept
    PROVE  PathTypeOK' /\ PathInv'
<1>1. PathTypeOK'
    BY DEF PathTypeOK, SamePath, JobKept
<1>2. tx' = "I" => restore' = NoSchema /\ ~held'
    BY DEF PathInv, SamePath, JobKept
<1>3. excused' \/ (IF restore' = NoSchema THEN current' ELSE restore') = intended'
    BY DEF PathInv, SamePath
<1> QED BY <1>1, <1>2, <1>3 DEF PathInv

LEMMA SetPathOK ==
    ASSUME PathTypeOK, PathInv, NEW s \in Schemas, NEW scope \in {"session", "local"},
           NEW fails, SetPath(s, scope, fails)
    PROVE  PathTypeOK' /\ PathInv'
<1> DEFINE moves == fails \notin {"prepare", "set"}
<1>1. /\ tx' = tx /\ (scope = "local" => tx = "T")
      /\ restore' = IF scope = "local" /\ restore = NoSchema THEN current ELSE restore
      /\ current' = IF moves THEN s ELSE current
      /\ intended' = IF moves /\ scope = "session" THEN s ELSE intended
      /\ excused' = (excused \/ (moves /\ scope = "session" /\ restore # NoSchema))
      /\ held' = (tx' # "I")
    BY DEF SetPath, Saved, JobKept
<1> HIDE DEF moves
<1>2. PathTypeOK'
    BY <1>1 DEF PathTypeOK
<1>3. tx' = "I" => restore' = NoSchema /\ ~held'
    BY <1>1 DEF PathInv
<1>4. excused' \/ (IF restore' = NoSchema THEN current' ELSE restore') = intended'
    BY <1>1, SchemaAssumption DEF PathInv, PathTypeOK
<1> QED BY <1>2, <1>3, <1>4 DEF PathInv

LEMMA RestorePathOK ==
    ASSUME PathTypeOK, PathInv, NEW fails \in BOOLEAN, RestorePath(fails), tx' = "I"
    PROVE  PathTypeOK' /\ PathInv'
BY DEF PathTypeOK, PathInv, RestorePath

\* A statement changes neither the search_path nor how the job is held; it may fail
\* the transaction.
PathKept == SamePath /\ JobKept /\ (tx' = tx \/ (tx = "T" /\ tx' = "E"))

LEMMA AcceptedKeepsPath == \A e : Accepted(e) => PathKept
BY DEF Accepted, PathKept

LEMMA RefusedKeepsPath == \A aborts, judged : Refused(aborts, judged) => PathKept
BY DEF Refused, PathKept

LEMMA StatementKeepsPath == ASSUME Statement PROVE PathKept
<1>1. CASE CreateTable
    BY <1>1, AcceptedKeepsPath DEF CreateTable
<1>2. CASE CreateChild
    <2>1. (\E e : Accepted(e)) \/ (\E aborts, judged : Refused(aborts, judged))
        BY <1>2, Zenon DEF CreateChild
    <2> QED BY <2>1, AcceptedKeepsPath, RefusedKeepsPath
<1>3. CASE AddColumn
    BY <1>3, AcceptedKeepsPath DEF AddColumn
<1>4. CASE SetDataType
    BY <1>4, AcceptedKeepsPath DEF SetDataType
<1>5. CASE Drop
    BY <1>5, AcceptedKeepsPath DEF Drop
<1>6. CASE RenameColumn
    BY <1>6, AcceptedKeepsPath DEF RenameColumn
<1>7. CASE RenameTable
    BY <1>7, AcceptedKeepsPath DEF RenameTable
<1>8. CASE CreateIndex
    <2>1. (\E e : Accepted(e)) \/ (\E aborts, judged : Refused(aborts, judged))
        BY <1>8, Zenon DEF CreateIndex
    <2> QED BY <2>1, AcceptedKeepsPath, RefusedKeepsPath
<1>9. CASE \E aborts \in BOOLEAN : Refused(aborts, NoDdl)
    BY <1>9, RefusedKeepsPath
<1> QED BY <1>1, <1>2, <1>3, <1>4, <1>5, <1>6, <1>7, <1>8, <1>9 DEF Statement

LEMMA PathStep == ASSUME PathTypeOK, PathInv, Next PROVE PathTypeOK' /\ PathInv'
<1>1. CASE Statement
    <2>1. /\ SamePath /\ JobKept
          /\ tx' = tx \/ (tx = "T" /\ tx' = "E")
        BY <1>1, StatementKeepsPath DEF PathKept
    <2>2. tx \in {"I", "T", "E"}
        BY DEF PathTypeOK
    <2>3. tx' \in {"I", "T", "E"} /\ (tx' = "I" <=> tx = "I")
        BY <2>1, <2>2
    <2> QED BY <2>1, <2>3, SamePathOK
<1>2. CASE Begin
    BY <1>2 DEF Begin, path, PathTypeOK, PathInv
<1>3. CASE Savepoint
    BY <1>3, SamePathOK DEF Savepoint, PathTypeOK
<1>4. CASE RollbackTo
    BY <1>4, SamePathOK DEF RollbackTo
<1>5. CASE \E fails \in BOOLEAN : Commit(fails) \/ Rollback(fails)
    BY <1>5, RestorePathOK DEF Commit, Rollback
<1>6. CASE SetSearchPath
    <2>1. CASE \E s \in Schemas, scope \in {"session", "local"}, fails \in Failures :
                 SetPath(s, scope, fails)
        BY <2>1, SetPathOK
    <2>2. CASE SetRefused
        BY <2>2, SamePathOK DEF SetRefused, SamePath, PathTypeOK
    <2>3. CASE CheckoutFails
        BY <2>3 DEF CheckoutFails, path, PathTypeOK, PathInv
    <2> QED BY <1>6, <2>1, <2>2, <2>3 DEF SetSearchPath
<1>7. CASE MakeSchema
    <2>1. /\ SamePath /\ JobKept
          /\ tx' = tx \/ (tx # "I" /\ tx' = "E")
        BY <1>7 DEF MakeSchema, CreateSchema, CreateSchemaFails, SamePath
    <2> QED BY <2>1, SamePathOK DEF PathTypeOK
<1>8. CASE BrowseCatalog
    BY <1>8, SamePathOK DEF BrowseCatalog, PathTypeOK
<1>9. CASE Others
    <2>1. UNCHANGED <<tx, path>>
        BY <1>9 DEF Others, OtherInspects, OtherFills, SchemaChanges, schemaVars
    <2> QED BY <2>1 DEF path, PathTypeOK, PathInv
<1> QED BY <1>1, <1>2, <1>3, <1>4, <1>5, <1>6, <1>7, <1>8, <1>9 DEF Next
-----------------------------------------------------------------------------
(* The cache of schema capabilities.                                       *)

CatalogTypeOK ==
    /\ exists \subseteq Schemas /\ mine \subseteq Schemas /\ marked \subseteq Schemas
    /\ cache \in [Schemas -> {"unknown", "absent", "present"}]
    /\ probe \in [schema : Schemas \cup {NoSchema}, seen : {"absent", "present"}]
    /\ (probe.schema = NoSchema => probe = NoProbe)
    /\ outdated \subseteq Schemas

\* What is uncommitted is not among the committed, and nothing is uncommitted
\* between transactions.
CacheInv ==
    /\ CatalogTypeOK
    /\ WrongEntriesHaveCause
    /\ exists \cap mine = {} /\ marked \subseteq mine
    /\ tx = "I" => mine = {}

\* The same of what preparing schemas in the midst of a command has come to.
Right(st) ==
    /\ st.there \subseteq Schemas /\ exists \cup mine \subseteq st.there
    /\ st.cache \in [Schemas -> {"unknown", "absent", "present"}]
    /\ \A s \in Schemas \ outdated :
          /\ st.cache[s] = "absent" => s \notin st.there \ mine
          /\ st.cache[s] = "present" => s \in st.there

LEMMA NowRight == ASSUME CacheInv PROVE Right(Now)
BY DEF CacheInv, CatalogTypeOK, WrongEntriesHaveCause, Right, Now

LEMMA PrepareRight ==
    ASSUME CacheInv, NEW st, Right(st), NEW s \in Schemas
    PROVE  /\ Right(Prepare(st, s))
           /\ st.there \subseteq Prepare(st, s).there
           /\ tx # "I" => Prepare(st, s).there = st.there
<1> DEFINE seen == IF st.cache[s] # "unknown" THEN st.cache[s] ELSE Live(s, st.there)
           creates == seen = "absent" /\ AutoCreate /\ tx = "I" /\ s \notin st.there
           there == IF creates THEN st.there \cup {s} ELSE st.there
           now == [st.cache EXCEPT ![s] = IF creates THEN "present" ELSE seen]
           p == Prepare(st, s)
<1>1. p.there = there /\ p.cache = now
    BY DEF Prepare
<1>2. seen \in {"absent", "present"}
    BY DEF Right, Live
<1>3. now \in [Schemas -> {"unknown", "absent", "present"}]
    BY <1>2 DEF Right
<1>4. /\ now[s] = IF creates THEN "present" ELSE seen
      /\ \A x \in Schemas \ {s} : now[x] = st.cache[x]
    BY DEF Right
<1>5. s \notin outdated => /\ seen = "absent" => s \notin st.there \ mine
                           /\ seen = "present" => s \in st.there
    BY DEF Right, Live
<1>6. creates => seen = "absent" /\ tx = "I"
    OBVIOUS
<1>7. there = IF creates THEN st.there \cup {s} ELSE st.there
    OBVIOUS
<1> HIDE DEF seen, creates, there, now, p
<1>8. \A x \in Schemas \ outdated :
          /\ now[x] = "absent" => x \notin there \ mine
          /\ now[x] = "present" => x \in there
    BY <1>2, <1>4, <1>5, <1>6, <1>7 DEF Right
<1>9. Right(p)
    BY <1>1, <1>3, <1>7, <1>8 DEF Right
<1> QED BY <1>1, <1>6, <1>7, <1>9 DEF p

LEMMA LeaseRight ==
    ASSUME CacheInv, current \in Schemas
    PROVE  /\ Right(Lease)
           /\ exists \cup mine \subseteq Lease.there
           /\ tx # "I" => Lease.there = exists \cup mine
<1> DEFINE st == Now
           p == Prepare(st, current)
<1>1. Right(st) /\ st.there = exists \cup mine
    BY NowRight DEF Now
<1>2. Lease = IF held THEN st ELSE p
    BY DEF Lease
<1> HIDE DEF st
<1>3. /\ Right(p) /\ st.there \subseteq p.there
      /\ tx # "I" => p.there = st.there
    BY <1>1, PrepareRight
<1> HIDE DEF p
<1> QED BY <1>1, <1>2, <1>3

LEMMA LeavesOK ==
    ASSUME CacheInv, NEW kept, NEW st, Right(kept), Right(st), kept.there \subseteq st.there,
           Leaves(kept, st), marked' \in {marked, mine}, tx' = "I" => tx = "I"
    PROVE  /\ CacheInv'
           /\ exists' \cup mine' = kept.there
<1>1. /\ cache' = st.cache /\ mine' = mine /\ probe' = probe
      /\ exists' = kept.there \ mine
      /\ outdated' = outdated \cup (st.there \ kept.there)
    BY DEF Leaves
<1>2. CatalogTypeOK'
    BY <1>1 DEF CacheInv, CatalogTypeOK, Right, NoProbe
<1>3. \A s \in Schemas \ outdated' :
        /\ cache'[s] = "absent" => s \notin exists'
        /\ cache'[s] = "present" => s \in exists' \cup mine'
    BY <1>1 DEF Right
<1>4. exists' \cap mine' = {} /\ marked' \subseteq mine' /\ (tx' = "I" => mine' = {})
    BY <1>1 DEF CacheInv
<1>5. exists' \cup mine' = kept.there
    BY <1>1 DEF Right
<1> QED BY <1>2, <1>3, <1>4, <1>5 DEF CacheInv, WrongEntriesHaveCause

\* A command on the job of the session.
LEMMA OnJobOK ==
    ASSUME CacheInv, current \in Schemas, Leaves(Lease, Lease), marked' \in {marked, mine},
           tx' = "I" => tx = "I"
    PROVE  /\ CacheInv'
           /\ exists \cup mine \subseteq exists' \cup mine'
           /\ exists' \cup mine' = Lease.there
<1> DEFINE st == Lease
<1>1. Right(st) /\ exists \cup mine \subseteq st.there /\ Leaves(st, st)
    BY LeaseRight
<1> HIDE DEF st
<1>2. CacheInv' /\ exists' \cup mine' = st.there
    BY <1>1, LeavesOK
<1> QED BY <1>1, <1>2 DEF st

LEMMA SetPathCacheOK ==
    ASSUME CacheInv, current \in Schemas, NEW s \in Schemas, NEW scope, NEW fails,
           SetPath(s, scope, fails)
    PROVE  CacheInv'
<1> DEFINE lease == Lease
           st == Prepare(lease, s)
           kept == IF fails = "none" THEN st ELSE lease
<1>1. Leaves(kept, st) /\ marked' = marked /\ tx' = tx
    BY DEF SetPath
<1>2. Right(lease)
    BY LeaseRight
<1> HIDE DEF lease
<1>3. Right(st) /\ lease.there \subseteq st.there
    BY <1>2, PrepareRight
<1> HIDE DEF st
<1>4. Right(kept) /\ kept.there \subseteq st.there
    BY <1>2, <1>3
<1> HIDE DEF kept
<1> QED BY <1>1, <1>3, <1>4, LeavesOK

LEMMA CheckoutFailsOK ==
    ASSUME CacheInv, current \in Schemas, CheckoutFails
    PROVE  CacheInv'
<1> DEFINE kept == Now
           st == Lease
<1>1. Leaves(kept, st) /\ marked' = marked /\ tx' = tx
    BY DEF CheckoutFails
<1>2. Right(kept) /\ Right(st) /\ kept.there \subseteq st.there
    BY NowRight, LeaseRight DEF Now
<1> HIDE DEF kept, st
<1> QED BY <1>1, <1>2, LeavesOK

LEMMA CreateSchemaOK ==
    ASSUME CacheInv, current \in Schemas, tx \in {"I", "T", "E"}, NEW s \in Schemas,
           NEW inspected \in BOOLEAN, CreateSchema(s, inspected)
    PROVE  CacheInv' /\ exists \cup mine \cup {s} \subseteq exists' \cup mine'
<1> DEFINE st == Lease
<1>1. /\ Right(st) /\ exists \cup mine \subseteq st.there
    BY LeaseRight
<1>2. /\ s \notin st.there
      /\ cache' = IF inspected THEN CacheDropped(st.cache, s)
                  ELSE [st.cache EXCEPT ![s] = "unknown"]
      /\ outdated' = outdated \ {s}
      /\ marked' = marked /\ probe' = probe
      /\ tx' = "I" <=> tx = "I"
    BY DEF CreateSchema
<1>3. /\ tx = "I" => exists' = st.there \cup {s} /\ mine' = mine
      /\ tx # "I" => mine' = mine \cup {s} /\ exists' = st.there \ mine
    BY DEF CreateSchema
<1>4. inspected \/ s = current
    BY DEF CreateSchema
<1> HIDE DEF st
<1>5. /\ cache' \in [Schemas -> {"unknown", "absent", "present"}]
      /\ cache'[s] # "absent"
      /\ \A x \in Schemas \ {s} : cache'[x] = st.cache[x]
    BY <1>1, <1>2 DEF CacheDropped, Right
<1>6. /\ exists' \subseteq Schemas /\ mine' \subseteq Schemas
      /\ exists' \cup mine' = st.there \cup {s}
      /\ \A x \in Schemas \ {s} : x \in exists' => x \in st.there \ mine
      /\ exists' \cap mine' = {} /\ mine \subseteq mine'
      /\ tx' = "I" => mine' = {}
    <2>1. CASE tx = "I"
        BY <1>1, <1>2, <1>3, <2>1 DEF Right, CacheInv
    <2>2. CASE tx # "I"
        BY <1>1, <1>2, <1>3, <2>2 DEF Right, CacheInv
    <2> QED BY <2>1, <2>2
<1>7. WrongEntriesHaveCause'
    BY <1>1, <1>2, <1>5, <1>6 DEF WrongEntriesHaveCause, Right
<1>8. CatalogTypeOK'
    BY <1>2, <1>5, <1>6 DEF CacheInv, CatalogTypeOK, NoProbe
<1> QED BY <1>1, <1>2, <1>6, <1>7, <1>8 DEF CacheInv

LEMMA EndOfTransactionOK ==
    ASSUME CacheInv, tx' = "I", CommitSchemas \/ RollbackSchemas
    PROVE  CacheInv'
<1>1. CASE CommitSchemas
    BY <1>1 DEF CommitSchemas, CacheInv, CatalogTypeOK, WrongEntriesHaveCause, NoProbe
<1>2. CASE RollbackSchemas
    BY <1>2 DEF RollbackSchemas, UndoneTo, CacheInv, CatalogTypeOK,
                WrongEntriesHaveCause, NoProbe
<1> QED BY <1>1, <1>2

LEMMA RollbackToOK ==
    ASSUME CacheInv, tx' # "I", RollbackToSchemas
    PROVE  CacheInv'
BY DEF RollbackToSchemas, UndoneTo, CacheInv, CatalogTypeOK, WrongEntriesHaveCause, NoProbe

\* What others do to schemas and to the cache.
LEMMA OthersCacheOK ==
    ASSUME CacheInv, NEW s \in Schemas, OtherInspects(s) \/ OtherFills \/ SchemaChanges(s)
    PROVE  CacheInv'
<1>1. CASE OtherInspects(s)
    <2>1. /\ probe' = [schema |-> s, seen |-> Live(s, exists)]
          /\ Live(s, exists) \in {"absent", "present"}
          /\ UNCHANGED <<tx, exists, mine, marked, cache, outdated>>
        BY <1>1 DEF OtherInspects, Live
    <2>2. probe' \in [schema : Schemas \cup {NoSchema}, seen : {"absent", "present"}]
          /\ probe'.schema # NoSchema
        BY <2>1, SchemaAssumption
    <2> QED BY <2>1, <2>2 DEF CacheInv, CatalogTypeOK, WrongEntriesHaveCause
<1>2. CASE OtherFills
    <2> DEFINE x == probe.schema
               seen == probe.seen
    <2>1. /\ x \in Schemas /\ seen \in {"absent", "present"}
        BY <1>2 DEF OtherFills, CacheInv, CatalogTypeOK
    <2>2. /\ cache' = [cache EXCEPT ![x] = seen]
          /\ outdated' = IF seen # Live(x, exists) THEN outdated \cup {x} ELSE outdated
          /\ probe' = NoProbe
          /\ UNCHANGED <<tx, exists, mine, marked>>
        BY <1>2 DEF OtherFills
    <2> HIDE DEF x, seen
    <2>3. WrongEntriesHaveCause'
        BY <2>1, <2>2 DEF CacheInv, CatalogTypeOK, WrongEntriesHaveCause, Live
    <2>4. CatalogTypeOK'
        BY <2>1, <2>2 DEF CacheInv, CatalogTypeOK, NoProbe
    <2> QED BY <2>2, <2>3, <2>4 DEF CacheInv
<1>3. CASE SchemaChanges(s)
    <2>1. /\ s \notin mine
          /\ exists' = IF s \in exists THEN exists \ {s} ELSE exists \cup {s}
          /\ outdated' = outdated \cup {s}
          /\ UNCHANGED <<tx, mine, marked, cache, probe>>
        BY <1>3 DEF SchemaChanges
    <2> QED BY <2>1 DEF CacheInv, CatalogTypeOK, WrongEntriesHaveCause, NoProbe
<1> QED BY <1>1, <1>2, <1>3

LEMMA CacheStep ==
    ASSUME CacheInv, PathTypeOK, Next
    PROVE  CacheInv'
<1>1. current \in Schemas /\ tx \in {"I", "T", "E"}
    BY DEF PathTypeOK
<1>2. CASE Statement
    <2>1. OnJob /\ (tx' = "I" => tx = "I")
        BY <1>2 DEF Statement, CreateTable, CreateChild, AddColumn, SetDataType, Drop,
                    RenameColumn, RenameTable, CreateIndex, Accepted, Refused
    <2> QED BY <1>1, <2>1, OnJobOK DEF OnJob
<1>3. CASE Begin
    BY <1>3 DEF Begin, catalog, CacheInv, CatalogTypeOK, WrongEntriesHaveCause, NoProbe
<1>4. CASE Savepoint
    BY <1>1, <1>4, OnJobOK DEF Savepoint, MarkSchemas
<1>5. CASE RollbackTo
    BY <1>5, RollbackToOK DEF RollbackTo
<1>6. CASE \E fails \in BOOLEAN : Commit(fails) \/ Rollback(fails)
    BY <1>6, EndOfTransactionOK DEF Commit, Rollback
<1>7. CASE SetSearchPath
    <2>1. CASE \E s \in Schemas, scope \in {"session", "local"}, fails \in Failures :
                 SetPath(s, scope, fails)
        BY <1>1, <2>1, SetPathCacheOK
    <2>2. CASE SetRefused
        BY <1>1, <2>2, OnJobOK DEF SetRefused, OnJob
    <2>3. CASE CheckoutFails
        BY <1>1, <2>3, CheckoutFailsOK
    <2> QED BY <1>7, <2>1, <2>2, <2>3 DEF SetSearchPath
<1>8. CASE MakeSchema
    <2>1. CASE OnJob /\ (tx' = "I" => tx = "I")
        BY <1>1, <2>1, OnJobOK DEF OnJob
    <2>2. CASE \E s \in Schemas, inspected \in BOOLEAN : CreateSchema(s, inspected)
        BY <1>1, <2>2, CreateSchemaOK
    <2> QED BY <1>8, <2>1, <2>2 DEF MakeSchema, CreateSchemaFails
<1>9. CASE BrowseCatalog
    BY <1>1, <1>9, OnJobOK DEF BrowseCatalog, OnJob
<1>10. CASE Others
    <2>1. CASE UNCHANGED schemaVars
        BY <2>1 DEF schemaVars, catalog, CacheInv, CatalogTypeOK, WrongEntriesHaveCause,
                    NoProbe
    <2>2. CASE ~UNCHANGED schemaVars
        BY <1>1, <1>10, <2>2, OthersCacheOK DEF Others
    <2> QED BY <2>1, <2>2
<1> QED BY <1>2, <1>3, <1>4, <1>5, <1>6, <1>7, <1>8, <1>9, <1>10 DEF Next
-----------------------------------------------------------------------------
(* The catalog browser.                                                    *)

\* The schemas of the session are there and, when there is a list of schemas, in it.
BrowserInv ==
    /\ BrowserTypeOK
    /\ CatalogAnswersAreAbout
    /\ created \subseteq exists \cup mine
    /\ listed.fresh => created \subseteq listed.rows

LEMMA RelationTypes ==
    ASSUME NEW s
    PROVE  TablesOf(s) \subseteq Relations /\ ViewsOf(s) \subseteq Relations
BY DEF TablesOf, ViewsOf, Relations

\* What is read holds the schemas of the session.
LEMMA RowsFacts ==
    ASSUME BrowserInv, CacheInv, current \in Schemas
    PROVE  Rows \subseteq Schemas /\ created \subseteq Rows /\ created \subseteq Lease.there
<1>1. Lease.there \subseteq Schemas /\ exists \cup mine \subseteq Lease.there
    BY LeaseRight DEF Right
<1> QED BY <1>1 DEF Rows, BrowserInv, BrowserTypeOK

\* An answer about other schemas than those asked for is no answer to a request for a
\* schema of the session.
LEMMA AnswerOK ==
    ASSUME BrowserInv, NEW found \in SUBSET Relations, NEW rows \in SUBSET Schemas,
           created \subseteq rows,
           listed' = listed \/ listed' = [fresh |-> TRUE, rows |-> rows],
           registry' = registry \cup found \/ (registry' = registry /\ told' = told),
           told' \subseteq told \cup found,
           misled' \in SUBSET Schemas, misled' \cap created = {}, created' = created,
           created \subseteq exists' \cup mine'
    PROVE  BrowserInv'
<1>1. BrowserTypeOK'
    <2>1. listed' \in [fresh : BOOLEAN, rows : SUBSET Schemas]
        <3>1. [fresh |-> TRUE, rows |-> rows] \in [fresh : BOOLEAN, rows : SUBSET Schemas]
            OBVIOUS
        <3> QED BY <3>1 DEF BrowserInv, BrowserTypeOK
    <2>2. registry' \subseteq Relations /\ told' \subseteq Relations
        BY DEF BrowserInv, BrowserTypeOK
    <2>3. created' \subseteq Schemas /\ misled' \subseteq Schemas
        BY DEF BrowserInv, BrowserTypeOK
    <2> QED BY <2>1, <2>2, <2>3 DEF BrowserTypeOK
<1>2. CatalogAnswersAreAbout'
    BY DEF BrowserInv, CatalogAnswersAreAbout
<1>3. listed'.fresh => created' \subseteq listed'.rows
    BY DEF BrowserInv
<1> QED BY <1>1, <1>2, <1>3 DEF BrowserInv

LEMMA NoBrowseOK == ASSUME BrowserInv, NoBrowse PROVE BrowserInv'
BY DEF BrowserInv, BrowserTypeOK, CatalogAnswersAreAbout, NoBrowse

LEMMA ResolvedFacts ==
    ASSUME BrowserInv, CacheInv, current \in Schemas, NEW s, NEW kind
    PROVE  s \in created => Resolved(s, kind) = {s}
BY RowsFacts DEF Resolved

LEMMA BrowseRelationsOK ==
    ASSUME BrowserInv, CacheInv, current \in Schemas, NEW s \in Schemas, NEW fails,
           BrowseTables(s, fails) \/ BrowseViews(s, fails),
           created \subseteq exists' \cup mine'
    PROVE  BrowserInv'
<1>1. PICK found \in SUBSET Relations :
        /\ listed' = listed \/ Lists
        /\ Registers(found) \/ (registry' = registry /\ told' = told)
        /\ told' \in {told, told \cup found}
        /\ misled' \subseteq {s} /\ (s \in created => misled' = {})
        /\ created' = created
    <2>1. CASE BrowseTables(s, fails)
        <3>1. PICK kind \in TableKinds : Browse(s, kind, TablesOf, fails)
            BY <2>1 DEF BrowseTables
        <3> DEFINE found == UNION {TablesOf(a) : a \in Resolved(s, kind)}
        <3>2. found \in SUBSET Relations
            BY RelationTypes
        <3>3. /\ listed' = listed \/ Lists
              /\ IF fails = "none" THEN Registers(found) ELSE registry' = registry
              /\ told' = IF fails = "none" /\ kind.tells THEN told \cup found ELSE told
              /\ misled' = IF fails = "none" THEN {s} \ Resolved(s, kind) ELSE {}
              /\ created' = created
            BY <3>1 DEF Browse
        <3> HIDE DEF found
        <3>4. misled' \subseteq {s} /\ (s \in created => misled' = {})
            BY <3>3, ResolvedFacts
        <3> QED BY <3>2, <3>3, <3>4
    <2>2. CASE BrowseViews(s, fails)
        <3>1. PICK kind \in ViewKinds : Browse(s, kind, ViewsOf, fails)
            BY <2>2 DEF BrowseViews
        <3> DEFINE found == UNION {ViewsOf(a) : a \in Resolved(s, kind)}
        <3>2. found \in SUBSET Relations
            BY RelationTypes
        <3>3. /\ listed' = listed \/ Lists
              /\ IF fails = "none" THEN Registers(found) ELSE registry' = registry
              /\ told' = IF fails = "none" /\ kind.tells THEN told \cup found ELSE told
              /\ misled' = IF fails = "none" THEN {s} \ Resolved(s, kind) ELSE {}
              /\ created' = created
            BY <3>1 DEF Browse
        <3> HIDE DEF found
        <3>4. misled' \subseteq {s} /\ (s \in created => misled' = {})
            BY <3>3, ResolvedFacts
        <3> QED BY <3>2, <3>3, <3>4
    <2> QED BY <2>1, <2>2
<1>2. misled' \in SUBSET Schemas /\ misled' \cap created = {}
    BY <1>1
<1> DEFINE rows == Rows
<1>3. rows \in SUBSET Schemas /\ created \subseteq rows
    BY RowsFacts
<1>4. listed' = listed \/ listed' = [fresh |-> TRUE, rows |-> rows]
    BY <1>1 DEF Lists
<1>5. registry' = registry \cup found \/ (registry' = registry /\ told' = told)
    BY <1>1 DEF Registers, RegisteredAll
<1> HIDE DEF rows
<1> QED BY <1>1, <1>2, <1>3, <1>4, <1>5, AnswerOK

LEMMA BrowseSchemasOK ==
    ASSUME BrowserInv, CacheInv, current \in Schemas, NEW s \in Schemas, NEW fails,
           BrowseSchemas(s, fails), created \subseteq exists' \cup mine'
    PROVE  BrowserInv'
<1> DEFINE rows == Rows
<1>1. rows \in SUBSET Schemas /\ created \subseteq rows
    BY RowsFacts
<1>2. /\ listed' = listed \/ listed' = [fresh |-> TRUE, rows |-> rows]
      /\ misled' \subseteq {s} \ rows
      /\ registry' = registry /\ told' = told /\ created' = created
    BY DEF BrowseSchemas, Lists
<1> HIDE DEF rows
<1>3. misled' \in SUBSET Schemas /\ misled' \cap created = {}
    BY <1>1, <1>2
<1> DEFINE found == {}
<1>4. found \in SUBSET Relations
    OBVIOUS
<1> HIDE DEF found
<1> QED BY <1>1, <1>2, <1>3, <1>4, AnswerOK

LEMMA ListsAgainOK ==
    ASSUME BrowserInv, CacheInv, current \in Schemas, ListsAgain,
           created \subseteq exists' \cup mine'
    PROVE  BrowserInv'
<1> DEFINE rows == Lease.there
           found == {}
<1>1. rows \in SUBSET Schemas /\ created \subseteq rows
    BY RowsFacts, LeaseRight DEF Right
<1>2. /\ listed' = [fresh |-> TRUE, rows |-> rows]
      /\ misled' = {} /\ registry' = registry /\ told' = told /\ created' = created
    BY DEF ListsAgain
<1>3. found \in SUBSET Relations
    OBVIOUS
<1> HIDE DEF rows, found
<1> QED BY <1>1, <1>2, <1>3, AnswerOK

LEMMA ChildrenOK ==
    ASSUME BrowserInv, CacheInv, current \in Schemas, NEW r, NEW fails, Children(r, fails),
           created \subseteq exists' \cup mine'
    PROVE  BrowserInv'
<1>1. PICK found \in SUBSET Relations :
        /\ registry' = registry \cup found
        /\ misled' = {} /\ listed' = listed /\ told' = told /\ created' = created
    <2> DEFINE found == CASE r \in registry \/ fails = "tables" -> {}
                          [] r \notin registry /\ fails = "views" -> TablesOf(current)
                          [] OTHER -> TablesOf(current) \cup ViewsOf(current)
    <2>1. found \in SUBSET Relations
        BY RelationTypes
    <2> QED BY <2>1 DEF Children, Registers, RegisteredAll
<1> DEFINE rows == Rows
<1>2. rows \in SUBSET Schemas /\ created \subseteq rows
    BY RowsFacts
<1> HIDE DEF rows
<1> QED BY <1>1, <1>2, AnswerOK

LEMMA ReflectOK ==
    ASSUME BrowserInv, CacheInv, current \in Schemas, NEW s \in Schemas \cup {NoSchema},
           NEW views \in BOOLEAN, NEW tells \in BOOLEAN, NEW fails,
           Reflect(s, views, tells, fails), created \subseteq exists' \cup mine'
    PROVE  BrowserInv'
<1> DEFINE rows == Rows
           about == IF s \in rows THEN s ELSE current
           read == TablesOf(about)
           both == read \cup ViewsOf(about)
<1>1. rows \in SUBSET Schemas /\ created \subseteq rows
    BY RowsFacts
<1>2. read \in SUBSET Relations /\ both \in SUBSET Relations /\ read \subseteq both
    BY RelationTypes
<1>3. /\ listed' = listed \/ listed' = [fresh |-> TRUE, rows |-> rows]
      /\ CASE fails = "none" /\ views -> registry' = registry \cup both
           [] (fails = "none" /\ ~views) \/ fails = "views" -> registry' = registry \cup read
           [] OTHER -> registry' = registry
      /\ told' = IF fails = "none" /\ tells THEN told \cup read ELSE told
      /\ misled' = IF fails = "none" /\ s # NoSchema THEN {s} \ {about} ELSE {}
      /\ created' = created
    BY DEF Reflect, Registers, RegisteredAll, Lists
<1>4. s \in rows => about = s
    OBVIOUS
<1> HIDE DEF rows, about, read, both
<1>5. misled' \in SUBSET Schemas /\ misled' \cap created = {}
    BY <1>1, <1>3, <1>4
<1>6. PICK found \in SUBSET Relations :
        /\ registry' = registry \cup found \/ (registry' = registry /\ told' = told)
        /\ told' \subseteq told \cup found
    <2>1. CASE fails = "none" /\ views
        <3>1. registry' = registry \cup both /\ told' \subseteq told \cup both
            BY <1>2, <1>3, <2>1
        <3> QED BY <1>2, <3>1
    <2>2. CASE fails = "none" /\ ~views
        <3>1. registry' = registry \cup read /\ told' \subseteq told \cup read
            BY <1>3, <2>2
        <3> QED BY <1>2, <3>1
    <2>3. CASE fails # "none"
        <3>1. told' = told /\ registry' \in {registry, registry \cup read}
            BY <1>3, <2>3
        <3> QED BY <1>2, <3>1
    <2> QED BY <2>1, <2>2, <2>3
<1>7. listed' = listed \/ listed' = [fresh |-> TRUE, rows |-> rows]
    BY <1>3
<1>8. created' = created
    BY <1>3
<1> QED BY <1>1, <1>5, <1>6, <1>7, <1>8, AnswerOK

LEMMA MakesSchemaOK ==
    ASSUME BrowserInv, NEW s \in Schemas, MakesSchema(s),
           created \cup {s} \subseteq exists' \cup mine'
    PROVE  BrowserInv'
<1>1. /\ listed' = NoList /\ created' = created \cup {s}
      /\ misled' = {} /\ registry' = registry /\ told' = told
    BY DEF MakesSchema, ForgottenList
<1>2. BrowserTypeOK'
    BY <1>1 DEF BrowserInv, BrowserTypeOK, NoList
<1>3. CatalogAnswersAreAbout' /\ ~listed'.fresh
    BY <1>1 DEF BrowserInv, CatalogAnswersAreAbout, NoList
<1> QED BY <1>1, <1>2, <1>3 DEF BrowserInv

LEMMA OthersBrowseOK ==
    ASSUME BrowserInv, NEW s, Expires \/ OtherBrowses(s), created \subseteq exists' \cup mine'
    PROVE  BrowserInv'
<1>1. CASE Expires
    BY <1>1 DEF Expires, NoList, BrowserInv, BrowserTypeOK, CatalogAnswersAreAbout
<1>2. CASE OtherBrowses(s)
    <2> DEFINE found == {t \in Tables : t[1] = s /\ base[t] # Absent}
    <2>1. found \in SUBSET Relations
        BY DEF Relations
    <2>2. /\ registry' = registry \cup found /\ told' = told \cup found /\ misled' = {}
          /\ listed' = listed /\ created' = created
        BY <1>2 DEF OtherBrowses, Registers, RegisteredAll
    <2> HIDE DEF found
    <2> QED BY <2>1, <2>2 DEF BrowserInv, BrowserTypeOK, CatalogAnswersAreAbout
<1> QED BY <1>1, <1>2

LEMMA BrowserStep ==
    ASSUME BrowserInv, CacheInv, PathTypeOK, Next
    PROVE  BrowserInv'
<1>1. current \in Schemas /\ tx \in {"I", "T", "E"} /\ created \subseteq exists \cup mine
    BY DEF PathTypeOK, BrowserInv
<1>2. CASE NoBrowse
    BY <1>2, NoBrowseOK
<1>3. CASE MakeSchema
    <2>1. CASE OnJob /\ (tx' = "I" => tx = "I") /\ ListsAgain
        <3>1. created \subseteq exists' \cup mine'
            BY <1>1, <2>1, OnJobOK DEF OnJob
        <3> QED BY <1>1, <2>1, <3>1, ListsAgainOK
    <2>2. CASE \E s \in Schemas, inspected \in BOOLEAN :
                 CreateSchema(s, inspected) /\ MakesSchema(s)
        <3>1. PICK s \in Schemas, inspected \in BOOLEAN :
                CreateSchema(s, inspected) /\ MakesSchema(s)
            BY <2>2
        <3>2. created \cup {s} \subseteq exists' \cup mine'
            BY <1>1, <3>1, CreateSchemaOK
        <3> QED BY <3>1, <3>2, MakesSchemaOK
    <2> QED BY <1>2, <1>3, <2>1, <2>2 DEF MakeSchema, CreateSchemaFails
<1>4. CASE BrowseCatalog
    <2>1. created \subseteq exists' \cup mine'
        BY <1>1, <1>4, OnJobOK DEF BrowseCatalog, OnJob
    <2> QED BY <1>1, <1>4, <2>1, BrowseSchemasOK, BrowseRelationsOK, ChildrenOK, ReflectOK
            DEF BrowseCatalog
<1>5. CASE Others
    <2>1. CASE UNCHANGED schemaVars /\ (Expires \/ \E s \in Schemas : OtherBrowses(s))
        <3>1. created \subseteq exists' \cup mine'
            BY <1>1, <2>1 DEF schemaVars, catalog
        <3> QED BY <2>1, <3>1, OthersBrowseOK
    <2> QED BY <1>2, <1>5, <2>1 DEF Others
<1>6. CASE Statement
    BY <1>2, <1>6 DEF Statement, CreateTable, CreateChild, AddColumn, SetDataType, Drop,
                      RenameColumn, RenameTable, CreateIndex, Accepted, Refused
<1> QED BY <1>2, <1>3, <1>4, <1>5, <1>6 DEF Next, Begin, Savepoint, RollbackTo, Commit,
                                           Rollback, SetSearchPath
-----------------------------------------------------------------------------
(* The invariant, and what it is for.                                      *)

CountsOK == commands \in 0 .. MaxCommands /\ statements \in 0 .. MaxStatements
StateInv == PathTypeOK /\ PathInv /\ CacheInv /\ DdlInv /\ BrowserInv /\ CountsOK

LEMMA InvTypes == StateInv => TypeOK
BY DEF StateInv, PathTypeOK, CacheInv, CatalogTypeOK, DdlInv, DdlState, BrowserInv,
       CountsOK, TypeOK, SchemaTypeOK

LEMMA InitInv == Init => StateInv
<1> SUFFICES ASSUME Init PROVE StateInv
    OBVIOUS
<1>1. PathTypeOK /\ PathInv
    BY DEF Init, InitSchema, PathTypeOK, PathInv
<1>2. CacheInv
    BY SchemaAssumption DEF Init, InitSchema, CacheInv, CatalogTypeOK, NoProbe,
                            WrongEntriesHaveCause
<1>3. DdlInv
    <2>1. NoDef \in Entries /\ NoDef.cols = Absent
        BY AbsentDefinition DEF NoDef, Entries
    <2>2. DdlTypeOK
        BY <2>1, AbsentDefinition DEF Init, InitDdl, DdlTypeOK
    <2>3. Exact(db, types, defs, drifted)
        BY <2>1, AbsentDefinition DEF Init, InitDdl, Exact
    <2>4. tx = "I" /\ snapshot = NoSnapshot /\ db = base /\ misjudged = {}
        BY DEF Init, InitSchema, InitDdl
    <2> QED BY <2>2, <2>3, <2>4 DEF DdlInv, DdlState
<1>4. BrowserInv
    BY DEF Init, InitBrowser, NoList, BrowserInv, BrowserTypeOK, CatalogAnswersAreAbout
<1>5. CountsOK
    BY StateAssumption DEF Init, CountsOK
<1> QED BY <1>1, <1>2, <1>3, <1>4, <1>5 DEF StateInv

LEMMA CountsStep == ASSUME CountsOK, Next PROVE CountsOK'
<1>1. CountsOther \/ CountsStatement
    BY DEF Next, Statement, CreateTable, CreateChild, AddColumn, SetDataType, Drop,
           RenameColumn, RenameTable, CreateIndex, Accepted, Refused, Begin, Savepoint,
           RollbackTo, Commit, Rollback, SetSearchPath, MakeSchema, BrowseCatalog, Others
<1> QED BY <1>1, StateAssumption DEF CountsOK, CountsOther, CountsStatement, Counts

LEMMA StepInv == StateInv /\ [Next]_vars => StateInv'
<1>1. CASE StateInv /\ Next
    BY <1>1, PathStep, CacheStep, DdlStep, BrowserStep, CountsStep, InvTypes
       DEF StateInv, TypeOK
<1>2. CASE StateInv /\ UNCHANGED vars
    <2>1. PathTypeOK' /\ PathInv'
        BY <1>2 DEF StateInv, vars, PathTypeOK, PathInv
    <2>2. CacheInv'
        BY <1>2 DEF StateInv, vars, CacheInv, CatalogTypeOK, WrongEntriesHaveCause
    <2>3. DdlKept /\ misjudged' = misjudged /\ tx' = tx
        BY <1>2 DEF vars, DdlKept
    <2>4. DdlInv'
        BY <1>2, <2>3, JudgesOK DEF StateInv, DdlInv
    <2>5. BrowserInv'
        BY <1>2 DEF StateInv, vars, BrowserInv, BrowserTypeOK, CatalogAnswersAreAbout
    <2>6. CountsOK'
        BY <1>2 DEF StateInv, vars, CountsOK
    <2> QED BY <2>1, <2>2, <2>4, <2>5, <2>6 DEF StateInv
<1> QED BY <1>1, <1>2

\* StateInv is inductive: the search_path to go back to, the cache, the registries with
\* their snapshot and the list of schemas agree with each other after every command.
THEOREM StateInvariance == Spec => []StateInv
BY InitInv, StepInv, PTL DEF Spec

\* The state of a session and the records of the catalog browser have their types,
\* and the commands stay within their bounds.
THEOREM SessionStateTypes == Spec => []TypeOK
BY StateInvariance, InvTypes, PTL

\* Whatever SET LOCAL, SET and failures a transaction held, its end leaves the session
\* in the schema the client set for it, but for the named exceptions.
THEOREM LocalPathEnds == Spec => []LocalPathEndsWithTx
<1>1. StateInv => LocalPathEndsWithTx
    BY DEF StateInv, PathInv, LocalPathEndsWithTx
<1> QED BY <1>1, StateInvariance, PTL

\* The schema capability cache is wrong about no schema but those that changed where
\* the proxy does not look.
THEOREM CacheEntriesHaveCause == Spec => []WrongEntriesHaveCause
<1>1. StateInv => WrongEntriesHaveCause
    BY DEF StateInv, CacheInv
<1> QED BY <1>1, StateInvariance, PTL

\* The registries of created tables are exact about every table that did not change
\* where they do not look, through rollbacks and restored snapshots.
THEOREM RegistriesExact == Spec => []RegistriesAreExact
<1>1. StateInv => RegistriesAreExact
    BY DEF StateInv, DdlInv, DdlState, Exact, RegistriesAreExact
<1> QED BY <1>1, StateInvariance, PTL

\* Wrong decisions on renames, foreign keys and indexes are about tables that did.
THEOREM MisjudgedDrifted == Spec => []MisjudgedHaveDrifted
<1>1. StateInv => MisjudgedHaveDrifted
    BY DEF StateInv, DdlInv, MisjudgedHaveDrifted
<1> QED BY <1>1, StateInvariance, PTL

\* OIDs that were given out can be looked up, and requests for a schema the session
\* created are answered with that schema.
THEOREM CatalogAnswersAbout == Spec => []CatalogAnswersAreAbout
<1>1. StateInv => CatalogAnswersAreAbout
    BY DEF StateInv, BrowserInv
<1> QED BY <1>1, StateInvariance, PTL
-----------------------------------------------------------------------------
(* The indexes of a table, from three catalogs.                            *)

\* Keys are some columns of the table.
LEMMA KeySequenceFacts ==
    ASSUME IsFiniteSet(KeyColumns), NEW q \in KeySequences
    PROVE  /\ Len(q) \in Nat \ {0} /\ DOMAIN q = 1..Len(q)
           /\ q # <<>> /\ q = [i \in 1..Len(q) |-> q[i]]
<1>1. Cardinality(KeyColumns) \in Nat
    BY FS_CardinalityType
<1>2. PICK k \in 1..Cardinality(KeyColumns) : q \in [1..k -> KeyColumns]
    BY DEF KeySequences
<1>3. k \in Nat \ {0}
    BY <1>1
<1>4. q \in Seq(KeyColumns) /\ Len(q) = k
    BY <1>2, <1>3
<1>5. q # <<>>
    BY <1>3, <1>4
<1> QED BY <1>2, <1>3, <1>4, <1>5

\* The rows of SYSKEYS for one index, and where each of them stands.
KeyRow(q, n, i) == [index |-> n, ordinal |-> i, column |-> q[i]]
RowsUpTo(q, n, m) == {KeyRow(q, n, i) : i \in 1..m}

LEMMA RowsCounted ==
    ASSUME NEW q, NEW n, NEW m \in Nat
    PROVE  IsFiniteSet(RowsUpTo(q, n, m)) /\ Cardinality(RowsUpTo(q, n, m)) = m
<1> DEFINE f == [i \in 1..m |-> KeyRow(q, n, i)]
           R == RowsUpTo(q, n, m)
<1>1. \A i \in 1..m : f[i] \in R /\ f[i].ordinal = i
    BY DEF RowsUpTo, KeyRow
<1>2. \A r \in R : \E i \in 1..m : f[i] = r
    BY DEF RowsUpTo
<1>3. f \in [1..m -> R]
    BY <1>1
<1> HIDE DEF f, R
<1>4. f \in Bijection(1..m, R)
    BY <1>1, <1>2, <1>3 DEF Bijection, Injection, Surjection, IsInjective
<1>5. IsFiniteSet(1..m) /\ Cardinality(1..m) = m
    BY FS_Interval
<1>6. ExistsBijection(1..m, R)
    BY <1>4 DEF ExistsBijection
<1> QED BY <1>5, <1>6, FS_Bijection DEF R

\* SYSKEYS gives the keys of the indexes it has, in order, and none of others.
LEMMA KeysFound ==
    ASSUME IsFiniteSet(KeyColumns), NEW real \in [IndexNames -> KeySequences],
           NEW keyed \in SUBSET IndexNames, NEW n \in IndexNames
    PROVE  KeysOf(n, KeyRows(real, keyed)) = IF n \in keyed THEN real[n] ELSE <<>>
<1> DEFINE rows == KeyRows(real, keyed)
           own == {k \in rows : k.index = n /\ k.ordinal > 0}
           before(k) == {l \in own : l.ordinal < k.ordinal}
           keys == [i \in 1..Cardinality(own) |->
                      (CHOOSE k \in own : Cardinality(before(k)) = i - 1).column]
<1>1. KeysOf(n, rows) = keys
    BY DEF KeysOf
<1>2. CASE n \in keyed
    <2>1. PICK q \in KeySequences : q = real[n]
        OBVIOUS
    <2>2. PICK m \in Nat : m = Len(q) /\ DOMAIN q = 1..m /\ q = [i \in 1..m |-> q[i]]
        BY KeySequenceFacts
    <2>3. own = RowsUpTo(q, n, m)
        <3>1. ASSUME NEW r \in own PROVE r \in RowsUpTo(q, n, m)
            <4>1. PICK x \in keyed : r \in {[index |-> x, ordinal |-> i, column |-> real[x][i]] :
                                              i \in DOMAIN real[x]}
                BY <3>1 DEF KeyRows
            <4>2. PICK i \in DOMAIN real[x] : r = [index |-> x, ordinal |-> i, column |-> real[x][i]]
                BY <4>1
            <4>3. x = n
                BY <4>2
            <4> QED BY <2>1, <2>2, <4>2, <4>3 DEF RowsUpTo, KeyRow
        <3>2. ASSUME NEW i \in 1..m PROVE KeyRow(q, n, i) \in own
            <4>1. KeyRow(q, n, i) \in {[index |-> n, ordinal |-> j, column |-> real[n][j]] :
                                          j \in DOMAIN real[n]}
                BY <2>1, <2>2 DEF KeyRow
            <4>2. KeyRow(q, n, i) \in rows
                BY <1>2, <4>1 DEF KeyRows
            <4> QED BY <4>2 DEF KeyRow
        <3> QED BY <3>1, <3>2 DEF RowsUpTo
    <2> HIDE DEF own
    <2>4. \A i \in 1..m : KeyRow(q, n, i) \in own /\ KeyRow(q, n, i).ordinal = i
        BY <2>3 DEF RowsUpTo, KeyRow
    <2>5. \A k \in own : \E i \in 1..m : k = KeyRow(q, n, i)
        BY <2>3 DEF RowsUpTo
    <2>6. \A i \in 1..m : Cardinality(before(KeyRow(q, n, i))) = i - 1
        <3> SUFFICES ASSUME NEW i \in 1..m PROVE Cardinality(before(KeyRow(q, n, i))) = i - 1
            OBVIOUS
        <3>1. ASSUME NEW l \in own, l.ordinal < i PROVE l \in RowsUpTo(q, n, i - 1)
            <4>1. PICK j \in 1..m : l = KeyRow(q, n, j)
                BY <2>5
            <4>2. j \in 1..(i - 1)
                BY <2>4, <3>1, <4>1
            <4> QED BY <4>1, <4>2 DEF RowsUpTo
        <3>2. ASSUME NEW j \in 1..(i - 1) PROVE KeyRow(q, n, j) \in own /\ KeyRow(q, n, j).ordinal < i
            <4>1. j \in 1..m /\ j < i
                OBVIOUS
            <4> QED BY <2>4, <4>1
        <3>3. before(KeyRow(q, n, i)) = RowsUpTo(q, n, i - 1)
            BY <2>4, <3>1, <3>2 DEF RowsUpTo
        <3>4. i - 1 \in Nat
            OBVIOUS
        <3> QED BY <3>3, <3>4, RowsCounted
    <2>7. Cardinality(own) = m
        BY <2>3, RowsCounted
    <2> HIDE DEF before
    <2>8. \A i \in 1..m : (CHOOSE k \in own : Cardinality(before(k)) = i - 1).column = q[i]
        <3> SUFFICES ASSUME NEW i \in 1..m
                     PROVE  (CHOOSE k \in own : Cardinality(before(k)) = i - 1).column = q[i]
            OBVIOUS
        <3> DEFINE c == CHOOSE k \in own : Cardinality(before(k)) = i - 1
        <3>1. KeyRow(q, n, i) \in own /\ Cardinality(before(KeyRow(q, n, i))) = i - 1
            BY <2>4, <2>6
        <3>2. c \in own /\ Cardinality(before(c)) = i - 1
            BY <3>1
        <3> HIDE DEF c
        <3>3. PICK j \in 1..m : c = KeyRow(q, n, j)
            BY <2>5, <3>2
        <3>4. j - 1 = i - 1
            BY <2>6, <3>2, <3>3
        <3>5. c = KeyRow(q, n, i)
            BY <3>3, <3>4
        <3>6. c.column = q[i]
            BY <3>5 DEF KeyRow
        <3> QED BY <3>6 DEF c
    <2>9. keys = [i \in 1..m |-> q[i]]
        BY <2>7, <2>8
    <2> QED BY <1>1, <1>2, <2>1, <2>2, <2>9
<1>3. CASE n \notin keyed
    <2>1. own = {}
        <3> SUFFICES ASSUME NEW r \in own PROVE FALSE
            OBVIOUS
        <3>1. PICK x \in keyed : r \in {[index |-> x, ordinal |-> i, column |-> real[x][i]] :
                                          i \in DOMAIN real[x]}
            BY DEF KeyRows
        <3> QED BY <1>3, <3>1
    <2> HIDE DEF own
    <2>2. Cardinality(own) = 0
        BY <2>1, FS_EmptySet
    <2>3. keys = <<>>
        BY <2>2
    <2> QED BY <1>1, <1>3, <2>3
<1> QED BY <1>2, <1>3

\* The list rs has the indexes of names, those of gaps without their keys.
Listing(rs, real, names, gaps) ==
    /\ DOMAIN rs = names
    /\ \A n \in names : /\ rs[n] = [count |-> Len(real[n]), keys |-> rs[n].keys]
                        /\ rs[n].keys = IF n \in gaps THEN <<>> ELSE real[n]

\* What is listed, and which of it lacks its keys.
LEMMA ListedFacts ==
    ASSUME IsFiniteSet(KeyColumns), NEW real \in [IndexNames -> KeySequences],
           NEW names \in SUBSET IndexNames, NEW gaps \in SUBSET names
    PROVE  /\ Listing(Listed(real, names, gaps), real, names, gaps)
           /\ Unresolved(Listed(real, names, gaps)) = gaps
<1> DEFINE rows == Listed(real, names, gaps)
<1>1. /\ DOMAIN rows = names
      /\ \A n \in names : rows[n] = [count |-> Len(real[n]),
                                     keys |-> IF n \in gaps THEN <<>> ELSE real[n]]
    BY DEF Listed
<1>2. \A n \in names : Len(real[n]) > 0 /\ real[n] # <<>>
    <2> SUFFICES ASSUME NEW n \in names PROVE Len(real[n]) > 0 /\ real[n] # <<>>
        OBVIOUS
    <2>1. real[n] \in KeySequences
        OBVIOUS
    <2>2. Len(real[n]) \in Nat \ {0} /\ real[n] # <<>>
        BY <2>1, KeySequenceFacts
    <2> QED BY <2>2
<1> HIDE DEF rows
<1>3. Unresolved(rows) = gaps
    BY <1>1, <1>2 DEF Unresolved
<1> QED BY <1>1, <1>3 DEF rows, Listing

\* The three catalogs of Db2 complete each other, for any number of indexes and
\* of key columns.
THEOREM IndexesAreListedForAll == IndexesAreListed
<1>0. IsFiniteSet(KeyColumns)
    BY ReflectionAssumption
<1> SUFFICES ASSUME NEW real \in [IndexNames -> KeySequences],
                    NEW sql \in SUBSET IndexNames, NEW keyed \in SUBSET IndexNames,
                    NEW native \in SUBSET IndexNames,
                    NEW gaps \in SUBSET sql, NEW nativeGaps \in SUBSET native
             PROVE  LET rows == Indexes(Listed(real, sql, gaps), KeyRows(real, keyed),
                                        Listed(real, native, nativeGaps))
                        names == IF sql = {} THEN native ELSE sql
                        known == (sql \ gaps) \cup (native \ nativeGaps)
                                   \cup (IF sql = {} THEN {} ELSE keyed)
                    IN /\ Shown(rows) = names \cap known
                       /\ \A n \in Shown(rows) : rows[n].keys = real[n]
    BY <1>0 DEF IndexesAreListed
<1> DEFINE first == Listed(real, sql, gaps)
           last == Listed(real, native, nativeGaps)
           keys == KeyRows(real, keyed)
           second == WithSysKeys(first, keys)
           rows == WithNative(second, last)
<1>1. Listing(first, real, sql, gaps) /\ Unresolved(first) = gaps
    BY <1>0, ListedFacts
<1>2. Listing(last, real, native, nativeGaps) /\ Unresolved(last) = nativeGaps
    BY <1>0, ListedFacts
<1> HIDE DEF first, last
<1>3. \A n \in sql : KeysOf(n, keys) = IF n \in keyed THEN real[n] ELSE <<>>
    BY <1>0, KeysFound
<1> HIDE DEF keys
<1>4. Listing(second, real, sql, gaps \ keyed)
    BY <1>1, <1>3 DEF WithSysKeys, Listing
<1> HIDE DEF second
<1>5. \A n \in IndexNames : Len(real[n]) > 0 /\ real[n] # <<>>
    <2> SUFFICES ASSUME NEW n \in IndexNames PROVE Len(real[n]) > 0 /\ real[n] # <<>>
        OBVIOUS
    <2>1. real[n] \in KeySequences
        OBVIOUS
    <2>2. Len(real[n]) \in Nat \ {0} /\ real[n] # <<>>
        BY <1>0, <2>1, KeySequenceFacts
    <2> QED BY <2>2
<1>6. Unresolved(second) = gaps \ keyed
    BY <1>4, <1>5 DEF Unresolved, Listing
<1>7. CASE sql = {}
    <2>1. rows = last
        BY <1>4, <1>7 DEF WithNative, Listing
    <2>2. Shown(last) = native \ nativeGaps
        BY <1>2 DEF Shown, Listing
    <2>3. \A n \in native \ nativeGaps : last[n].keys = real[n]
        BY <1>2 DEF Listing
    <2> QED BY <1>7, <2>1, <2>2, <2>3 DEF Indexes, first, last, keys, second
<1>8. CASE sql # {}
    <2> DEFINE left == (gaps \ keyed) \ (native \ nativeGaps)
    <2>1. Listing(rows, real, sql, left)
        BY <1>2, <1>4, <1>6, <1>8 DEF WithNative, Listing
    <2> HIDE DEF rows
    <2>2. Unresolved(rows) = left
        BY <1>5, <2>1 DEF Unresolved, Listing
    <2>3. Shown(rows) = sql \ left
        BY <2>1, <2>2 DEF Shown, Listing
    <2>4. \A n \in sql \ left : rows[n].keys = real[n]
        BY <2>1 DEF Listing
    <2>5. sql \ left = sql \cap ((sql \ gaps) \cup (native \ nativeGaps) \cup keyed)
        OBVIOUS
    <2> QED BY <1>8, <2>3, <2>4, <2>5 DEF Indexes, rows, first, last, keys, second
<1> QED BY <1>7, <1>8

-----------------------------------------------------------------------------
(* The columns of a foreign key.                                           *)

\* The elements of a finite set of numbers stand at the places 1, 2, ...: as many
\* are below each of them as its place says.
LEMMA BelowFacts ==
    ASSUME NEW S \in SUBSET Nat, IsFiniteSet(S)
    PROVE  /\ \A i \in S : Cardinality(Below(S, i)) \in 0 .. Cardinality(S) - 1
           /\ \A i, j \in S : i < j => Cardinality(Below(S, i)) < Cardinality(Below(S, j))
<1>1. ASSUME NEW i \in S, NEW T \in SUBSET S, Below(S, i) \subseteq T, i \notin Below(S, i), i \in T
      PROVE  /\ Cardinality(Below(S, i)) \in Nat /\ Cardinality(T) \in Nat
             /\ Cardinality(Below(S, i)) < Cardinality(T)
    <2>1. IsFiniteSet(T)
        BY FS_Subset
    <2>2. Cardinality(T) \in Nat
        BY <2>1, FS_CardinalityType
    <2>3. Below(S, i) \in SUBSET T
        BY <1>1
    <2>4. IsFiniteSet(Below(S, i)) /\ Cardinality(Below(S, i)) <= Cardinality(T)
          /\ (Cardinality(T) = Cardinality(Below(S, i)) => T = Below(S, i))
        BY <2>1, <2>3, FS_Subset
    <2>5. Cardinality(Below(S, i)) \in Nat
        BY <2>4, FS_CardinalityType
    <2>6. T # Below(S, i)
        BY <1>1
    <2> QED BY <2>2, <2>4, <2>5, <2>6
<1>2. ASSUME NEW i \in S PROVE Cardinality(Below(S, i)) \in 0 .. Cardinality(S) - 1
    <2>1. Below(S, i) \subseteq S /\ i \notin Below(S, i)
        BY DEF Below
    <2>2. /\ Cardinality(Below(S, i)) \in Nat /\ Cardinality(S) \in Nat
          /\ Cardinality(Below(S, i)) < Cardinality(S)
        BY <1>1, <2>1
    <2> QED BY <2>2
<1>3. ASSUME NEW i \in S, NEW j \in S, i < j
      PROVE  Cardinality(Below(S, i)) < Cardinality(Below(S, j))
    <2>1. \A l \in S : l < i => l < j
        BY <1>3
    <2>2. Below(S, j) \subseteq S /\ Below(S, i) \subseteq Below(S, j)
        BY <2>1 DEF Below
    <2>3. i \notin Below(S, i) /\ i \in Below(S, j)
        BY <1>3 DEF Below
    <2> QED BY <1>1, <2>2, <2>3
<1> QED BY <1>2, <1>3

\* Every place is taken, and places follow the order of the numbers.
LEMMA PlacesTaken ==
    ASSUME NEW S \in SUBSET Nat, IsFiniteSet(S)
    PROVE  /\ Cardinality(S) \in Nat
           /\ \A k \in 1 .. Cardinality(S) : /\ AtPlace(S, k) \in S
                                             /\ Cardinality(Below(S, AtPlace(S, k))) = k - 1
           /\ \A k, l \in 1 .. Cardinality(S) : k < l => AtPlace(S, k) < AtPlace(S, l)
<1> DEFINE n == Cardinality(S)
           place == [i \in S |-> Cardinality(Below(S, i))]
<1>1. n \in Nat
    BY FS_CardinalityType
<1>2. place \in [S -> 0 .. n - 1]
    BY BelowFacts
<1>3. \A i, j \in S : place[i] = place[j] => i = j
    <2> SUFFICES ASSUME NEW i \in S, NEW j \in S, place[i] = place[j], i # j PROVE FALSE
        OBVIOUS
    <2>1. i < j \/ j < i
        OBVIOUS
    <2>2. /\ Cardinality(Below(S, i)) \in Int /\ Cardinality(Below(S, j)) \in Int
          /\ Cardinality(Below(S, i)) < Cardinality(Below(S, j))
             \/ Cardinality(Below(S, j)) < Cardinality(Below(S, i))
        BY <1>1, <2>1, BelowFacts
    <2> QED BY <2>2
<1> HIDE DEF place
<1>4. place \in Injection(S, 0 .. n - 1)
    BY <1>2, <1>3 DEF Injection, IsInjective
<1>5. IsFiniteSet(0 .. n - 1) /\ Cardinality(0 .. n - 1) = n
    <2>1. 0 \in Int /\ n - 1 \in Int /\ (IF 0 > n - 1 THEN 0 ELSE (n - 1) - 0 + 1) = n
        BY <1>1
    <2> HIDE DEF n
    <2> QED BY <2>1, FS_Interval
<1>6. place \in Surjection(S, 0 .. n - 1)
    BY <1>4, <1>5, FS_Injection
<1>7. ASSUME NEW k \in 1 .. n
      PROVE  AtPlace(S, k) \in S /\ Cardinality(Below(S, AtPlace(S, k))) = k - 1
    <2>1. k - 1 \in 0 .. n - 1
        BY <1>1
    <2>2. \E i \in S : place[i] = k - 1
        BY <1>6, <2>1 DEF Surjection
    <2>3. \E i \in S : Cardinality(Below(S, i)) = k - 1
        BY <2>2 DEF place
    <2> QED BY <2>3 DEF AtPlace
<1>8. ASSUME NEW k \in 1 .. n, NEW l \in 1 .. n, k < l
      PROVE  AtPlace(S, k) < AtPlace(S, l)
    <2> DEFINE i == AtPlace(S, k)
               j == AtPlace(S, l)
    <2>1. /\ i \in S /\ Cardinality(Below(S, i)) = k - 1
          /\ j \in S /\ Cardinality(Below(S, j)) = l - 1
        BY <1>7
    <2> HIDE DEF i, j
    <2>2. ~(j < i)
        <3> SUFFICES ASSUME j < i PROVE FALSE
            OBVIOUS
        <3>1. Cardinality(Below(S, j)) < Cardinality(Below(S, i))
            BY <2>1, BelowFacts
        <3>2. l - 1 < k - 1
            BY <2>1, <3>1
        <3> QED BY <1>1, <1>8, <3>2
    <2>3. i # j
        BY <1>1, <1>8, <2>1
    <2>4. i \in Nat /\ j \in Nat
        BY <2>1
    <2>5. i < j
        BY <2>2, <2>3, <2>4
    <2> QED BY <2>5 DEF i, j
<1> QED BY <1>1, <1>7, <1>8

\* All rows of a foreign key make its pairs, in their order.
LEMMA AllPairsWhole ==
    ASSUME NEW k \in Nat, NEW rows \in [1 .. k -> ConstraintRows]
    PROVE  PairsAreWhole(rows)
<1> SUFFICES ASSUME NEW c \in {rows[i].constraint : i \in DOMAIN rows},
                    NEW own, own = {i \in DOMAIN rows : rows[i].constraint = c},
                    \A i \in own : Known(rows[i].parent)
             PROVE  LET fk == ForeignKeys(rows)[c]
                    IN /\ Len(fk.columns) = Cardinality(own)
                       /\ Len(fk.referenced) = Cardinality(own)
                       /\ \E at \in [1 .. Cardinality(own) -> own] : Pairs(fk, rows, at)
    BY DEF PairsAreWhole, ForeignKeys
<1> DEFINE n == Cardinality(own)
           at == [p \in 1 .. n |-> AtPlace(own, p)]
           child == [p \in 1 .. n |-> rows[AtPlace(own, p)]["child"]]
           parent == [p \in 1 .. n |-> rows[AtPlace(own, p)]["parent"]]
<1>1. own = {i \in 1 .. k : rows[i].constraint = c}
    OBVIOUS
<1>2. \A i \in 1 .. k : Known(rows[i].child)
    BY ReflectionAssumption DEF ConstraintRows, Known
<1>3. own \in SUBSET Nat /\ own \in SUBSET (1 .. k) /\ IsFiniteSet(1 .. k)
    BY <1>1, FS_Interval
<1>4. IsFiniteSet(own)
    BY <1>3, FS_Subset
<1>5. Column(rows, c, "child") = child
    <2>1. {i \in DOMAIN rows : rows[i].constraint = c /\ Known(rows[i]["child"])} = own
        BY <1>1, <1>2
    <2> QED BY <2>1 DEF Column
<1>6. Column(rows, c, "parent") = parent
    <2>1. {i \in DOMAIN rows : rows[i].constraint = c /\ Known(rows[i]["parent"])} = own
        BY <1>1
    <2> QED BY <2>1 DEF Column
<1>7. ForeignKeys(rows)[c] = [columns |-> child, referenced |-> parent]
    BY <1>5, <1>6 DEF ForeignKeys
<1>8. n \in Nat
    BY <1>4, FS_CardinalityType
<1>9. \A p \in 1 .. n : AtPlace(own, p) \in own
    BY <1>3, <1>4, PlacesTaken
<1>10. \A p, q \in 1 .. n : p < q => AtPlace(own, p) < AtPlace(own, q)
    BY <1>3, <1>4, PlacesTaken
<1> HIDE DEF n
<1>11. Len(child) = n /\ Len(parent) = n
    BY <1>8
<1>12. at \in [1 .. n -> own]
    BY <1>9
<1>13. Pairs([columns |-> child, referenced |-> parent], rows, at)
    BY <1>10 DEF Pairs
<1> HIDE DEF at, child, parent
<1>14. \E a \in [1 .. n -> own] : Pairs([columns |-> child, referenced |-> parent], rows, a)
    BY <1>12, <1>13
<1> QED
    <2> DEFINE fk == [columns |-> child, referenced |-> parent]
    <2>1. fk.columns = child /\ fk.referenced = parent
        OBVIOUS
    <2> HIDE DEF fk
    <2>2. Len(fk.columns) = n /\ Len(fk.referenced) = n
        BY <1>11, <2>1
    <2>3. \E a \in [1 .. n -> own] : Pairs(fk, rows, a)
        BY <1>14 DEF fk
    <2>4. ForeignKeys(rows)[c] = fk
        BY <1>7 DEF fk
    <2> QED BY <2>2, <2>3, <2>4 DEF n

\* So the property, for any columns: not only of so few rows.
THEOREM ForeignKeysPairForAll == ForeignKeysPair
<1> SUFFICES ASSUME NEW k \in 0 .. 3, NEW rows \in [1 .. k -> ConstraintRows]
             PROVE  PairsAreWhole(rows)
    BY DEF ForeignKeysPair
<1>1. k \in Nat
    OBVIOUS
<1> QED BY <1>1, AllPairsWhole
-----------------------------------------------------------------------------
(* Which adapter answers.                                                  *)

\* No rule of the adapter applies to q; or one of that kind does, and none before it.
NoneOf(rules, q) == \A i \in DOMAIN rules : ~Applies(rules[i], q)
Answers(rules, q, kind) ==
    \E n \in DOMAIN rules :
        /\ Applies(rules[n], q) /\ rules[n].kind = kind
        /\ \A i \in DOMAIN rules : i < n => ~Applies(rules[i], q)
\* The rules of an adapter, and of all.
RulesOf(rules) == {rules[i] : i \in DOMAIN rules}
AnswersEmpty == <<Rule({}, {}, {}, "local.empty")>>
Refuses == <<Rule({}, {}, {}, "refused")>>
AnyRule == RulesOf(SqlAlchemyRules) \cup RulesOf(SchemaRules) \cup RulesOf(ChildRules)
               \cup RulesOf(ViewRules) \cup RulesOf(TableRules) \cup RulesOf(NoAdapter)
               \cup RulesOf(GenericRules) \cup RulesOf(AnswersEmpty) \cup RulesOf(TypeRules)
               \cup RulesOf(Refuses) \cup RulesOf(ToDb2)

\* FirstOf takes that rule.
LEMMA AnswersFirst ==
    ASSUME NEW rules \in Seq(AnyRule), NEW q, NEW kind, Answers(rules, q, kind)
    PROVE  FirstOf(rules, q) = kind
<1>1. PICK n \in DOMAIN rules :
         /\ Applies(rules[n], q) /\ rules[n].kind = kind
         /\ \A i \in DOMAIN rules : i < n => ~Applies(rules[i], q)
    BY DEF Answers
<1> DEFINE hits == {i \in DOMAIN rules : Applies(rules[i], q)}
<1>2. DOMAIN rules \subseteq Nat
    OBVIOUS
<1>3. n \in hits /\ \A j \in hits : n <= j
    BY <1>1, <1>2
<1>4. \A m \in hits : (\A j \in hits : m <= j) => m = n
    BY <1>2, <1>3
<1> HIDE DEF hits
<1>5. (CHOOSE i \in hits : \A j \in hits : i <= j) = n
    BY <1>3, <1>4
<1> QED BY <1>1, <1>5 DEF FirstOf, hits

\* Two adapters one after the other.
LEMMA TwoAdapters ==
    ASSUME NEW r \in Seq(AnyRule), NEW s \in Seq(AnyRule), NEW q
    PROVE  /\ NoneOf(r, q) /\ NoneOf(s, q) => NoneOf(r \o s, q)
           /\ \A kind : Answers(r, q, kind) => Answers(r \o s, q, kind)
           /\ \A kind : NoneOf(r, q) /\ Answers(s, q, kind) => Answers(r \o s, q, kind)
<1> DEFINE k == Len(r)
           t == r \o s
<1>1. k \in Nat /\ Len(s) \in Nat /\ DOMAIN r = 1..k /\ DOMAIN s = 1..Len(s)
    BY LenProperties
<1>2. /\ DOMAIN t = 1..(k + Len(s))
      /\ \A i \in 1..k : t[i] = r[i]
      /\ \A i \in 1..Len(s) : t[k + i] = s[i]
    OBVIOUS
<1> HIDE DEF k, t
<1>3. \A i \in DOMAIN t : i \in 1..k \/ (i - k \in 1..Len(s) /\ k + (i - k) = i)
    BY <1>1, <1>2
<1>4. NoneOf(r, q) /\ NoneOf(s, q) => NoneOf(t, q)
    BY <1>1, <1>2, <1>3 DEF NoneOf
<1>5. ASSUME NEW kind, Answers(r, q, kind) PROVE Answers(t, q, kind)
    <2>1. PICK n \in 1..k : /\ Applies(r[n], q) /\ r[n].kind = kind
                            /\ \A i \in 1..k : i < n => ~Applies(r[i], q)
        BY <1>1, <1>5 DEF Answers
    <2>2. n \in DOMAIN t /\ t[n] = r[n]
        BY <1>1, <1>2
    <2>3. ASSUME NEW i \in DOMAIN t, i < n PROVE ~Applies(t[i], q)
        <3>1. i \in 1..k
            BY <1>1, <1>2, <2>3
        <3> QED BY <1>2, <2>1, <2>3, <3>1
    <2> QED BY <2>1, <2>2, <2>3 DEF Answers
<1>6. ASSUME NEW kind, NoneOf(r, q), Answers(s, q, kind) PROVE Answers(t, q, kind)
    <2>1. PICK n \in 1..Len(s) : /\ Applies(s[n], q) /\ s[n].kind = kind
                                 /\ \A i \in 1..Len(s) : i < n => ~Applies(s[i], q)
        BY <1>1, <1>6 DEF Answers
    <2>2. k + n \in DOMAIN t /\ t[k + n] = s[n]
        BY <1>1, <1>2
    <2>3. ASSUME NEW i \in DOMAIN t, i < k + n PROVE ~Applies(t[i], q)
        <3>1. CASE i \in 1..k
            BY <1>1, <1>2, <1>6, <3>1 DEF NoneOf
        <3>2. CASE i - k \in 1..Len(s) /\ k + (i - k) = i
            <4>1. i - k < n
                BY <1>1, <1>2, <2>3, <3>2
            <4> QED BY <1>2, <2>1, <3>2, <4>1
        <3> QED BY <1>3, <3>1, <3>2
    <2> QED BY <2>1, <2>2, <2>3 DEF Answers
<1> QED BY <1>4, <1>5, <1>6 DEF t

\* The adapters are sequences of rules.
LEMMA AdaptersAreRules ==
    /\ SqlAlchemyRules \in Seq(AnyRule) /\ DOMAIN SqlAlchemyRules = 1..10
    /\ SchemaRules \in Seq(AnyRule) /\ DOMAIN SchemaRules = 1..8
    /\ ChildRules \in Seq(AnyRule) /\ DOMAIN ChildRules = 1..10
    /\ ViewRules \in Seq(AnyRule) /\ DOMAIN ViewRules = 1..3
    /\ TableRules \in Seq(AnyRule) /\ DOMAIN TableRules = 1..7
    /\ NoAdapter \in Seq(AnyRule) /\ DOMAIN NoAdapter = 1..1
    /\ GenericRules \in Seq(AnyRule) /\ DOMAIN GenericRules = 1..8
    /\ AnswersEmpty \in Seq(AnyRule) /\ DOMAIN AnswersEmpty = 1..1
    /\ TypeRules \in Seq(AnyRule) /\ DOMAIN TypeRules = 1..1
    /\ Refuses \in Seq(AnyRule) /\ DOMAIN Refuses = 1..1
    /\ ToDb2 \in Seq(AnyRule) /\ DOMAIN ToDb2 = 1..1
<1>1. SqlAlchemyRules = [i \in 1..10 |-> SqlAlchemyRules[i]] /\ RulesOf(SqlAlchemyRules) \subseteq AnyRule
    <2>1. SqlAlchemyRules = [i \in 1..10 |-> SqlAlchemyRules[i]]
        BY DEF SqlAlchemyRules
    <2> QED BY <2>1 DEF AnyRule
<1>2. SchemaRules = [i \in 1..8 |-> SchemaRules[i]] /\ RulesOf(SchemaRules) \subseteq AnyRule
    <2>1. SchemaRules = [i \in 1..8 |-> SchemaRules[i]]
        BY DEF SchemaRules
    <2> QED BY <2>1 DEF AnyRule
<1>3. ChildRules = [i \in 1..10 |-> ChildRules[i]] /\ RulesOf(ChildRules) \subseteq AnyRule
    <2>1. ChildRules = [i \in 1..10 |-> ChildRules[i]]
        BY DEF ChildRules, NoChildren, Rule
    <2> QED BY <2>1 DEF AnyRule
<1>4. ViewRules = [i \in 1..3 |-> ViewRules[i]] /\ RulesOf(ViewRules) \subseteq AnyRule
    <2>1. ViewRules = [i \in 1..3 |-> ViewRules[i]]
        BY DEF ViewRules
    <2> QED BY <2>1 DEF AnyRule
<1>5. TableRules = [i \in 1..7 |-> TableRules[i]] /\ RulesOf(TableRules) \subseteq AnyRule
    <2>1. TableRules = [i \in 1..7 |-> TableRules[i]]
        BY DEF TableRules
    <2> QED BY <2>1 DEF AnyRule
<1>6. NoAdapter = [i \in 1..1 |-> NoAdapter[i]] /\ RulesOf(NoAdapter) \subseteq AnyRule
    <2>1. NoAdapter = [i \in 1..1 |-> NoAdapter[i]]
        BY DEF NoAdapter
    <2> QED BY <2>1 DEF AnyRule
<1>7. GenericRules = [i \in 1..8 |-> GenericRules[i]] /\ RulesOf(GenericRules) \subseteq AnyRule
    <2>1. GenericRules = [i \in 1..8 |-> GenericRules[i]]
        BY DEF GenericRules
    <2> QED BY <2>1 DEF AnyRule
<1>8. AnswersEmpty = [i \in 1..1 |-> AnswersEmpty[i]] /\ RulesOf(AnswersEmpty) \subseteq AnyRule
    <2>1. AnswersEmpty = [i \in 1..1 |-> AnswersEmpty[i]]
        BY DEF AnswersEmpty
    <2> QED BY <2>1 DEF AnyRule
<1>9. TypeRules = [i \in 1..1 |-> TypeRules[i]] /\ RulesOf(TypeRules) \subseteq AnyRule
    <2>1. TypeRules = [i \in 1..1 |-> TypeRules[i]]
        BY DEF TypeRules
    <2> QED BY <2>1 DEF AnyRule
<1>10. Refuses = [i \in 1..1 |-> Refuses[i]] /\ RulesOf(Refuses) \subseteq AnyRule
    <2>1. Refuses = [i \in 1..1 |-> Refuses[i]]
        BY DEF Refuses
    <2> QED BY <2>1 DEF AnyRule
<1>11. ToDb2 = [i \in 1..1 |-> ToDb2[i]] /\ RulesOf(ToDb2) \subseteq AnyRule
    <2>1. ToDb2 = [i \in 1..1 |-> ToDb2[i]]
        BY DEF ToDb2
    <2> QED BY <2>1 DEF AnyRule
<1>12. ASSUME NEW rules, NEW n \in Nat, rules = [i \in 1..n |-> rules[i]],
             RulesOf(rules) \subseteq AnyRule
      PROVE  rules \in Seq(AnyRule) /\ DOMAIN rules = 1..n
    <2>1. DOMAIN rules = 1..n
        BY <1>12
    <2>2. \A i \in 1..n : rules[i] \in AnyRule
        BY <1>12, <2>1 DEF RulesOf
    <2> QED BY <1>12, <2>1, <2>2
<1> QED BY <1>1, <1>2, <1>3, <1>4, <1>5, <1>6, <1>7, <1>8, <1>9, <1>10,
       <1>11, <1>12

\* The first adapter that has an answer gives it.
LEMMA Routes ==
    ASSUME NEW q, NEW kind, kind # "none",
           \/ Answers(SqlAlchemyRules, q, kind)
           \/ /\ NoneOf(SqlAlchemyRules, q)
              /\ \/ Answers(SchemaRules, q, kind)
                 \/ /\ NoneOf(SchemaRules, q)
                    /\ \/ Answers(ChildRules, q, kind)
                       \/ /\ NoneOf(ChildRules, q)
                          /\ \/ Answers(ViewRules, q, kind)
                             \/ NoneOf(ViewRules, q) /\ Answers(TableRules, q, kind)
    PROVE  Synthetic(q) = kind
<1> DEFINE a == SqlAlchemyRules \o SchemaRules
           b == a \o ChildRules
           c == b \o ViewRules
           d == c \o TableRules
           e == d \o NoAdapter
<1>1. a \in Seq(AnyRule) /\ b \in Seq(AnyRule) /\ c \in Seq(AnyRule) /\ d \in Seq(AnyRule)
      /\ e \in Seq(AnyRule)
    BY AdaptersAreRules, ConcatProperties
<1>2. /\ Answers(SqlAlchemyRules, q, kind) => Answers(a, q, kind)
      /\ NoneOf(SqlAlchemyRules, q) /\ Answers(SchemaRules, q, kind) => Answers(a, q, kind)
      /\ NoneOf(SqlAlchemyRules, q) /\ NoneOf(SchemaRules, q) => NoneOf(a, q)
    BY AdaptersAreRules, TwoAdapters
<1> HIDE DEF a
<1>3. /\ Answers(a, q, kind) => Answers(b, q, kind)
      /\ NoneOf(a, q) /\ Answers(ChildRules, q, kind) => Answers(b, q, kind)
      /\ NoneOf(a, q) /\ NoneOf(ChildRules, q) => NoneOf(b, q)
    BY <1>1, AdaptersAreRules, TwoAdapters
<1> HIDE DEF b
<1>4. /\ Answers(b, q, kind) => Answers(c, q, kind)
      /\ NoneOf(b, q) /\ Answers(ViewRules, q, kind) => Answers(c, q, kind)
      /\ NoneOf(b, q) /\ NoneOf(ViewRules, q) => NoneOf(c, q)
    BY <1>1, AdaptersAreRules, TwoAdapters
<1> HIDE DEF c
<1>5. /\ Answers(c, q, kind) => Answers(d, q, kind)
      /\ NoneOf(c, q) /\ Answers(TableRules, q, kind) => Answers(d, q, kind)
    BY <1>1, AdaptersAreRules, TwoAdapters
<1> HIDE DEF d
<1>6. Answers(d, q, kind) => Answers(e, q, kind)
    BY <1>1, AdaptersAreRules, TwoAdapters
<1> HIDE DEF e
<1>7. Answers(e, q, kind)
    BY <1>2, <1>3, <1>4, <1>5, <1>6
<1>8. FirstOf(e, q) = kind
    BY <1>1, <1>7, AnswersFirst
<1> QED BY <1>8 DEF Synthetic, Adapters, a, b, c, d, e
-----------------------------------------------------------------------------
(* The queries of pgAdmin and SQLAlchemy.                                  *)

\* All that the macros bring in.
Marks == {"pg_class", "relname =", "nspname =", "pg_description", From, "rel.oid = n", "::oid"}
\* A query from a template, with any of that in it.
Made(q, marks) == marks \subseteq q /\ q \subseteq marks \cup Marks

\* None applies, rule by rule, for adapters of these sizes.
LEMMA NoneOf3 ==
    ASSUME NEW rules, DOMAIN rules = 1..3, NEW q,
           /\ ~Applies(rules[1], q) /\ ~Applies(rules[2], q) /\ ~Applies(rules[3], q)
    PROVE  NoneOf(rules, q)
BY DEF NoneOf

LEMMA NoneOf8 ==
    ASSUME NEW rules, DOMAIN rules = 1..8, NEW q,
           /\ ~Applies(rules[1], q) /\ ~Applies(rules[2], q) /\ ~Applies(rules[3], q)
           /\ ~Applies(rules[4], q) /\ ~Applies(rules[5], q) /\ ~Applies(rules[6], q)
           /\ ~Applies(rules[7], q) /\ ~Applies(rules[8], q)
    PROVE  NoneOf(rules, q)
BY DEF NoneOf

LEMMA NoneOf10 ==
    ASSUME NEW rules, DOMAIN rules = 1..10, NEW q,
           /\ ~Applies(rules[1], q) /\ ~Applies(rules[2], q) /\ ~Applies(rules[3], q)
           /\ ~Applies(rules[4], q) /\ ~Applies(rules[5], q) /\ ~Applies(rules[6], q)
           /\ ~Applies(rules[7], q) /\ ~Applies(rules[8], q) /\ ~Applies(rules[9], q)
           /\ ~Applies(rules[10], q)
    PROVE  NoneOf(rules, q)
BY DEF NoneOf

\* Queries without the marks of SQLAlchemy are left by its adapter.
LEMMA ReflectionLeaves ==
    ASSUME NEW q, q \cap {"array_agg", "elements", "confrelid", "pg_get_constraintdef",
                         "identity_options", "select pg_class.oid, relname",
                         "select pg_class.oid", "pg_description.description",
                         "relkind = any"} = {}
    PROVE  NoneOf(SqlAlchemyRules, q)
<1>1. /\ ~Applies(SqlAlchemyRules[1], q) /\ ~Applies(SqlAlchemyRules[2], q)
      /\ ~Applies(SqlAlchemyRules[3], q) /\ ~Applies(SqlAlchemyRules[4], q)
      /\ ~Applies(SqlAlchemyRules[5], q) /\ ~Applies(SqlAlchemyRules[6], q)
      /\ ~Applies(SqlAlchemyRules[7], q) /\ ~Applies(SqlAlchemyRules[8], q)
      /\ ~Applies(SqlAlchemyRules[9], q) /\ ~Applies(SqlAlchemyRules[10], q)
    BY DEF SqlAlchemyRules, ChildCatalogs, Rule, Applies
<1> QED BY <1>1, AdaptersAreRules, NoneOf10

\* Those for tables and views are left by the adapter for schemas.
LEMMA SchemaLeaves ==
    ASSUME NEW q, "grantee" \notin q,
           From \notin q \/ q \cap {"nsptyp", "is_catalog", "count(*)", "can_create", "select oid",
                                    "select nspname"} = {}
    PROVE  NoneOf(SchemaRules, q)
<1>1. /\ ~Applies(SchemaRules[1], q) /\ ~Applies(SchemaRules[2], q)
      /\ ~Applies(SchemaRules[3], q) /\ ~Applies(SchemaRules[4], q)
      /\ ~Applies(SchemaRules[5], q) /\ ~Applies(SchemaRules[6], q)
      /\ ~Applies(SchemaRules[7], q) /\ ~Applies(SchemaRules[8], q)
    BY DEF SchemaRules, From, Rule, Applies
<1> QED BY <1>1, AdaptersAreRules, NoneOf8

\* Those for relations are left by the adapter for what a table has.
LEMMA ChildLeaves ==
    ASSUME NEW q, q \cap {"attrelid = n", "indrelid = n", "inhparent = n", "tgrelid = n"} = {},
           "pg_inherits" \notin q \/ "rel.oid = n" \notin q
    PROVE  NoneOf(ChildRules, q)
<1>1. /\ ~Applies(ChildRules[1], q) /\ ~Applies(ChildRules[2], q) /\ ~Applies(ChildRules[3], q)
      /\ ~Applies(ChildRules[4], q) /\ ~Applies(ChildRules[5], q) /\ ~Applies(ChildRules[6], q)
      /\ ~Applies(ChildRules[7], q) /\ ~Applies(ChildRules[8], q) /\ ~Applies(ChildRules[9], q)
      /\ ~Applies(ChildRules[10], q)
    BY DEF ChildRules, ColumnMarks, NoChildren, Rule, Applies
<1> QED BY <1>1, AdaptersAreRules, NoneOf10

\* And those for tables by the adapter for views.
LEMMA ViewLeaves ==
    ASSUME NEW q, "relkind = v" \notin q
    PROVE  NoneOf(ViewRules, q)
<1>1. /\ ~Applies(ViewRules[1], q) /\ ~Applies(ViewRules[2], q) /\ ~Applies(ViewRules[3], q)
    BY DEF ViewRules, Rule, Applies
<1> QED BY <1>1, AdaptersAreRules, NoneOf3

\* The queries for schemas.
LEMMA SchemaQueries ==
    ASSUME NEW q
    PROVE  /\ Made(q, {From, "nsptyp", "namespaceowner", "has_privilege", "can_create"})
                 => Synthetic(q) = "schema.properties"
           /\ Made(q, {From, "has_privilege", "can_create"})
                 => Synthetic(q) = "schema.nodes"
           /\ Made(q, {From, "count(*)"})
                 => Synthetic(q) = "schema.count"
           /\ Made(q, {From, "select oid", "nspname ="})
                 => Synthetic(q) = "schema.oidByName"
<1>1. ASSUME Made(q, {From, "nsptyp", "namespaceowner", "has_privilege", "can_create"})
      PROVE  Synthetic(q) = "schema.properties"
    <2>1. q \cap {"array_agg", "elements", "confrelid", "pg_get_constraintdef",
                  "identity_options", "select pg_class.oid, relname", "select pg_class.oid",
                  "pg_description.description", "relkind = any", "grantee"} = {}
        BY <1>1 DEF Made, Marks, From
    <2>2. /\ ~Applies(SchemaRules[1], q) /\ ~Applies(SchemaRules[2], q)
          /\ Applies(SchemaRules[3], q) /\ SchemaRules[3].kind = "schema.properties"
        BY <1>1, <2>1 DEF Made, Marks, SchemaRules, From, Rule, Applies
    <2>3. Answers(SchemaRules, q, "schema.properties")
        BY <2>2, AdaptersAreRules DEF Answers
    <2> QED BY <2>1, <2>3, ReflectionLeaves, Routes
<1>2. ASSUME Made(q, {From, "has_privilege", "can_create"})
      PROVE  Synthetic(q) = "schema.nodes"
    <2>1. q \cap {"array_agg", "elements", "confrelid", "pg_get_constraintdef",
                  "identity_options", "select pg_class.oid, relname", "select pg_class.oid",
                  "pg_description.description", "relkind = any", "grantee", "nsptyp",
                  "is_catalog", "count(*)"} = {}
        BY <1>2 DEF Made, Marks, From
    <2>2. /\ ~Applies(SchemaRules[1], q) /\ ~Applies(SchemaRules[2], q)
          /\ ~Applies(SchemaRules[3], q) /\ ~Applies(SchemaRules[4], q)
          /\ ~Applies(SchemaRules[5], q) /\ Applies(SchemaRules[6], q)
          /\ SchemaRules[6].kind = "schema.nodes"
        BY <1>2, <2>1 DEF Made, Marks, SchemaRules, From, Rule, Applies
    <2>3. Answers(SchemaRules, q, "schema.nodes")
        BY <2>2, AdaptersAreRules DEF Answers
    <2> QED BY <2>1, <2>3, ReflectionLeaves, Routes
<1>3. ASSUME Made(q, {From, "count(*)"})
      PROVE  Synthetic(q) = "schema.count"
    <2>1. q \cap {"array_agg", "elements", "confrelid", "pg_get_constraintdef",
                  "identity_options", "select pg_class.oid, relname", "select pg_class.oid",
                  "pg_description.description", "relkind = any", "grantee", "nsptyp",
                  "is_catalog"} = {}
        BY <1>3 DEF Made, Marks, From
    <2>2. /\ ~Applies(SchemaRules[1], q) /\ ~Applies(SchemaRules[2], q)
          /\ ~Applies(SchemaRules[3], q) /\ ~Applies(SchemaRules[4], q)
          /\ Applies(SchemaRules[5], q) /\ SchemaRules[5].kind = "schema.count"
        BY <1>3, <2>1 DEF Made, Marks, SchemaRules, From, Rule, Applies
    <2>3. Answers(SchemaRules, q, "schema.count")
        BY <2>2, AdaptersAreRules DEF Answers
    <2> QED BY <2>1, <2>3, ReflectionLeaves, Routes
<1>4. ASSUME Made(q, {From, "select oid", "nspname ="})
      PROVE  Synthetic(q) = "schema.oidByName"
    <2>1. q \cap {"array_agg", "elements", "confrelid", "pg_get_constraintdef",
                  "identity_options", "select pg_class.oid, relname", "select pg_class.oid",
                  "pg_description.description", "relkind = any", "grantee", "nsptyp",
                  "is_catalog", "count(*)", "can_create"} = {}
        BY <1>4 DEF Made, Marks, From
    <2>2. /\ ~Applies(SchemaRules[1], q) /\ ~Applies(SchemaRules[2], q)
          /\ ~Applies(SchemaRules[3], q) /\ ~Applies(SchemaRules[4], q)
          /\ ~Applies(SchemaRules[5], q) /\ ~Applies(SchemaRules[6], q)
          /\ Applies(SchemaRules[7], q) /\ SchemaRules[7].kind = "schema.oidByName"
        BY <1>4, <2>1 DEF Made, Marks, SchemaRules, From, Rule, Applies
    <2>3. Answers(SchemaRules, q, "schema.oidByName")
        BY <2>2, AdaptersAreRules DEF Answers
    <2> QED BY <2>1, <2>3, ReflectionLeaves, Routes
<1> QED BY <1>1, <1>2, <1>3, <1>4

\* Those for the columns and indexes of a table.
LEMMA ChildQueries ==
    ASSUME NEW q
    PROVE  /\ Made(q, {"pg_attribute", "attrelid = n", "attnum as oid", "format_type"})
                 => Synthetic(q) = "columns.nodes"
           /\ Made(q, {"pg_attribute", "attrelid = n", "atttypid", "colconstype"})
                 => Synthetic(q) = "columns.properties"
           /\ Made(q, {"pg_class", "pg_index", "indrelid = n"})
                 => Synthetic(q) = "indexes.nodes"
           /\ Made(q, {"pg_class", "pg_index", "indrelid = n", "indnatts", "amname"})
                 => Synthetic(q) = "indexes.properties"
<1>1. ASSUME Made(q, {"pg_attribute", "attrelid = n", "attnum as oid", "format_type"})
      PROVE  Synthetic(q) = "columns.nodes"
    <2>1. q \cap {"array_agg", "elements", "confrelid", "pg_get_constraintdef",
                  "identity_options", "select pg_class.oid, relname", "select pg_class.oid",
                  "pg_description.description", "relkind = any", "grantee", "nsptyp",
                  "is_catalog", "count(*)", "can_create", "select oid", "select nspname",
                  "select count"} = {}
        BY <1>1 DEF Made, Marks, From
    <2>2. /\ ~Applies(ChildRules[1], q) /\ Applies(ChildRules[2], q)
          /\ ChildRules[2].kind = "columns.nodes"
        BY <1>1, <2>1 DEF Made, Marks, ChildRules, ColumnMarks, NoChildren, From, Rule, Applies
    <2>3. Answers(ChildRules, q, "columns.nodes")
        BY <2>2, AdaptersAreRules DEF Answers
    <2> QED BY <2>1, <2>3, ReflectionLeaves, SchemaLeaves, Routes
<1>2. ASSUME Made(q, {"pg_attribute", "attrelid = n", "atttypid", "colconstype"})
      PROVE  Synthetic(q) = "columns.properties"
    <2>1. q \cap {"array_agg", "elements", "confrelid", "pg_get_constraintdef",
                  "identity_options", "select pg_class.oid, relname", "select pg_class.oid",
                  "pg_description.description", "relkind = any", "grantee", "nsptyp",
                  "is_catalog", "count(*)", "can_create", "select oid", "select nspname",
                  "select count", "attnum as oid"} = {}
        BY <1>2 DEF Made, Marks, From
    <2>2. /\ ~Applies(ChildRules[1], q) /\ ~Applies(ChildRules[2], q)
          /\ Applies(ChildRules[3], q) /\ ChildRules[3].kind = "columns.properties"
        BY <1>2, <2>1 DEF Made, Marks, ChildRules, ColumnMarks, NoChildren, From, Rule, Applies
    <2>3. Answers(ChildRules, q, "columns.properties")
        BY <2>2, AdaptersAreRules DEF Answers
    <2> QED BY <2>1, <2>3, ReflectionLeaves, SchemaLeaves, Routes
<1>3. ASSUME Made(q, {"pg_class", "pg_index", "indrelid = n"})
      PROVE  Synthetic(q) = "indexes.nodes"
    <2>1. q \cap {"array_agg", "elements", "confrelid", "pg_get_constraintdef",
                  "identity_options", "select pg_class.oid, relname", "select pg_class.oid",
                  "pg_description.description", "relkind = any", "grantee", "nsptyp",
                  "is_catalog", "count(*)", "can_create", "select oid", "select nspname",
                  "attrelid = n", "select count", "indnatts", "amname"} = {}
        BY <1>3 DEF Made, Marks, From
    <2>2. /\ ~Applies(ChildRules[1], q) /\ ~Applies(ChildRules[2], q)
          /\ ~Applies(ChildRules[3], q) /\ ~Applies(ChildRules[4], q)
          /\ ~Applies(ChildRules[5], q) /\ ~Applies(ChildRules[6], q)
          /\ Applies(ChildRules[7], q) /\ ChildRules[7].kind = "indexes.nodes"
        BY <1>3, <2>1 DEF Made, Marks, ChildRules, ColumnMarks, NoChildren, From, Rule, Applies
    <2>3. Answers(ChildRules, q, "indexes.nodes")
        BY <2>2, AdaptersAreRules DEF Answers
    <2> QED BY <2>1, <2>3, ReflectionLeaves, SchemaLeaves, Routes
<1>4. ASSUME Made(q, {"pg_class", "pg_index", "indrelid = n", "indnatts", "amname"})
      PROVE  Synthetic(q) = "indexes.properties"
    <2>1. q \cap {"array_agg", "elements", "confrelid", "pg_get_constraintdef",
                  "identity_options", "select pg_class.oid, relname", "select pg_class.oid",
                  "pg_description.description", "relkind = any", "grantee", "nsptyp",
                  "is_catalog", "count(*)", "can_create", "select oid", "select nspname",
                  "attrelid = n", "select count"} = {}
        BY <1>4 DEF Made, Marks, From
    <2>2. /\ ~Applies(ChildRules[1], q) /\ ~Applies(ChildRules[2], q)
          /\ ~Applies(ChildRules[3], q) /\ ~Applies(ChildRules[4], q)
          /\ ~Applies(ChildRules[5], q) /\ Applies(ChildRules[6], q)
          /\ ChildRules[6].kind = "indexes.properties"
        BY <1>4, <2>1 DEF Made, Marks, ChildRules, ColumnMarks, NoChildren, From, Rule, Applies
    <2>3. Answers(ChildRules, q, "indexes.properties")
        BY <2>2, AdaptersAreRules DEF Answers
    <2> QED BY <2>1, <2>3, ReflectionLeaves, SchemaLeaves, Routes
<1> QED BY <1>1, <1>2, <1>3, <1>4

\* Those for views.
LEMMA ViewQueries ==
    ASSUME NEW q, From \notin q
    PROVE  /\ Made(q, {"pg_class", "relkind = v", "select count", "relnamespace", "count(*)"})
                 => Synthetic(q) = "views.count"
           /\ Made(q, {"pg_class", "relkind = v", "relname as name", "relnamespace"})
                 => Synthetic(q) = "views.nodes"
<1>1. ASSUME Made(q, {"pg_class", "relkind = v", "select count", "relnamespace", "count(*)"})
      PROVE  Synthetic(q) = "views.count"
    <2>1. q \cap {"array_agg", "elements", "confrelid", "pg_get_constraintdef",
                  "identity_options", "select pg_class.oid, relname", "select pg_class.oid",
                  "pg_description.description", "relkind = any", "grantee", From,
                  "attrelid = n", "indrelid = n", "inhparent = n", "tgrelid = n",
                  "pg_inherits"} = {}
        BY <1>1 DEF Made, Marks, From
    <2>2. /\ Applies(ViewRules[1], q) /\ ViewRules[1].kind = "views.count"
        BY <1>1, <2>1 DEF Made, Marks, ViewRules, From, Rule, Applies
    <2>3. Answers(ViewRules, q, "views.count")
        BY <2>2, AdaptersAreRules DEF Answers
    <2> QED BY <2>1, <2>3, ReflectionLeaves, SchemaLeaves, ChildLeaves, Routes
<1>2. ASSUME Made(q, {"pg_class", "relkind = v", "relname as name", "relnamespace"})
      PROVE  Synthetic(q) = "views.nodes"
    <2>1. q \cap {"array_agg", "elements", "confrelid", "pg_get_constraintdef",
                  "identity_options", "select pg_class.oid, relname", "select pg_class.oid",
                  "pg_description.description", "relkind = any", "grantee", From,
                  "attrelid = n", "indrelid = n", "inhparent = n", "tgrelid = n",
                  "pg_inherits", "select count", "pg_get_viewdef"} = {}
        BY <1>2 DEF Made, Marks, From
    <2>2. /\ ~Applies(ViewRules[1], q) /\ ~Applies(ViewRules[2], q) /\ Applies(ViewRules[3], q)
          /\ ViewRules[3].kind = "views.nodes"
        BY <1>2, <2>1 DEF Made, Marks, ViewRules, From, Rule, Applies
    <2>3. Answers(ViewRules, q, "views.nodes")
        BY <2>2, AdaptersAreRules DEF Answers
    <2> QED BY <2>1, <2>3, ReflectionLeaves, SchemaLeaves, ChildLeaves, Routes
<1> QED BY <1>1, <1>2

\* Those for tables, but for the nodes of tables.
LEMMA TableQueries ==
    ASSUME NEW q, From \notin q
    PROVE  /\ Made(q, {"pg_class", "select count", "count(*)", "relkind in", "relnamespace"})
                 => Synthetic(q) = "tables.count"
           /\ Made(q, {"pg_class", "replica_identity", "hastoasttable", "pg_trigger",
                       "triggercount", "relkind in", "relnamespace"})
                 => Synthetic(q) = "tables.properties"
           /\ Made(q, {"pg_class", "select relname", "rel.oid = n", "relnamespace"})
                 => Synthetic(q) = "tables.nameByOid"
           /\ Made(q, {"pg_class", "select rel.oid", "relname =", "relnamespace"})
                 => Synthetic(q) = "tables.oidByName"
<1>1. ASSUME Made(q, {"pg_class", "select count", "count(*)", "relkind in", "relnamespace"})
      PROVE  Synthetic(q) = "tables.count"
    <2>1. q \cap {"array_agg", "elements", "confrelid", "pg_get_constraintdef",
                  "identity_options", "select pg_class.oid, relname", "select pg_class.oid",
                  "pg_description.description", "relkind = any", "grantee", From,
                  "attrelid = n", "indrelid = n", "inhparent = n", "tgrelid = n",
                  "pg_inherits", "relkind = v"} = {}
        BY <1>1 DEF Made, Marks, From
    <2>2. /\ Applies(TableRules[1], q) /\ TableRules[1].kind = "tables.count"
        BY <1>1, <2>1 DEF Made, Marks, TableRules, From, Rule, Applies
    <2>3. Answers(TableRules, q, "tables.count")
        BY <2>2, AdaptersAreRules DEF Answers
    <2> QED BY <2>1, <2>3, ReflectionLeaves, SchemaLeaves, ChildLeaves, ViewLeaves, Routes
<1>2. ASSUME Made(q, {"pg_class", "replica_identity", "hastoasttable", "pg_trigger",
                      "triggercount", "relkind in", "relnamespace"})
      PROVE  Synthetic(q) = "tables.properties"
    <2>1. q \cap {"array_agg", "elements", "confrelid", "pg_get_constraintdef",
                  "identity_options", "select pg_class.oid, relname", "select pg_class.oid",
                  "pg_description.description", "relkind = any", "grantee", From,
                  "attrelid = n", "indrelid = n", "inhparent = n", "tgrelid = n",
                  "pg_inherits", "relkind = v", "select count", "select exists",
                  "is_inherits"} = {}
        BY <1>2 DEF Made, Marks, From
    <2>2. /\ ~Applies(TableRules[1], q) /\ ~Applies(TableRules[2], q)
          /\ ~Applies(TableRules[3], q) /\ Applies(TableRules[4], q)
          /\ TableRules[4].kind = "tables.properties"
        BY <1>2, <2>1 DEF Made, Marks, TableRules, From, Rule, Applies
    <2>3. Answers(TableRules, q, "tables.properties")
        BY <2>2, AdaptersAreRules DEF Answers
    <2> QED BY <2>1, <2>3, ReflectionLeaves, SchemaLeaves, ChildLeaves, ViewLeaves, Routes
<1>3. ASSUME Made(q, {"pg_class", "select relname", "rel.oid = n", "relnamespace"})
      PROVE  Synthetic(q) = "tables.nameByOid"
    <2>1. q \cap {"array_agg", "elements", "confrelid", "pg_get_constraintdef",
                  "identity_options", "select pg_class.oid, relname", "select pg_class.oid",
                  "pg_description.description", "relkind = any", "grantee", From,
                  "attrelid = n", "indrelid = n", "inhparent = n", "tgrelid = n",
                  "pg_inherits", "relkind = v", "select count", "select exists",
                  "triggercount", "replica_identity", "relnamespace as scid"} = {}
        BY <1>3 DEF Made, Marks, From
    <2>2. /\ ~Applies(TableRules[1], q) /\ ~Applies(TableRules[2], q)
          /\ ~Applies(TableRules[3], q) /\ ~Applies(TableRules[4], q)
          /\ ~Applies(TableRules[5], q) /\ Applies(TableRules[6], q)
          /\ TableRules[6].kind = "tables.nameByOid"
        BY <1>3, <2>1 DEF Made, Marks, TableRules, From, Rule, Applies
    <2>3. Answers(TableRules, q, "tables.nameByOid")
        BY <2>2, AdaptersAreRules DEF Answers
    <2> QED BY <2>1, <2>3, ReflectionLeaves, SchemaLeaves, ChildLeaves, ViewLeaves, Routes
<1>4. ASSUME Made(q, {"pg_class", "select rel.oid", "relname =", "relnamespace"})
      PROVE  Synthetic(q) = "tables.oidByName"
    <2>1. q \cap {"array_agg", "elements", "confrelid", "pg_get_constraintdef",
                  "identity_options", "select pg_class.oid, relname", "select pg_class.oid",
                  "pg_description.description", "relkind = any", "grantee", From,
                  "attrelid = n", "indrelid = n", "inhparent = n", "tgrelid = n",
                  "pg_inherits", "relkind = v", "select count", "select exists",
                  "triggercount", "replica_identity", "relnamespace as scid",
                  "select relname"} = {}
        BY <1>4 DEF Made, Marks, From
    <2>2. /\ ~Applies(TableRules[1], q) /\ ~Applies(TableRules[2], q)
          /\ ~Applies(TableRules[3], q) /\ ~Applies(TableRules[4], q)
          /\ ~Applies(TableRules[5], q) /\ ~Applies(TableRules[6], q)
          /\ Applies(TableRules[7], q) /\ TableRules[7].kind = "tables.oidByName"
        BY <1>4, <2>1 DEF Made, Marks, TableRules, From, Rule, Applies
    <2>3. Answers(TableRules, q, "tables.oidByName")
        BY <2>2, AdaptersAreRules DEF Answers
    <2> QED BY <2>1, <2>3, ReflectionLeaves, SchemaLeaves, ChildLeaves, ViewLeaves, Routes
<1> QED BY <1>1, <1>2, <1>3, <1>4

\* Those for the nodes of tables.
LEMMA TableNodes ==
    ASSUME NEW q, From \notin q
    PROVE  Made(q, {"pg_class", "pg_trigger", "count(*)", "triggercount",
                    "has_enable_triggers", "pg_inherits", "inhparent", "is_inherits",
                    "relkind in", "relnamespace"}) /\ "rel.oid = n" \notin q
              => Synthetic(q) = "tables.nodes"
<1>1. ASSUME Made(q, {"pg_class", "pg_trigger", "count(*)", "triggercount",
                      "has_enable_triggers", "pg_inherits", "inhparent", "is_inherits",
                      "relkind in", "relnamespace"}), "rel.oid = n" \notin q
      PROVE  Synthetic(q) = "tables.nodes"
    <2>1. q \cap {"array_agg", "elements", "confrelid", "pg_get_constraintdef",
                  "identity_options", "select pg_class.oid, relname", "select pg_class.oid",
                  "pg_description.description", "relkind = any", "grantee", From,
                  "rel.oid = n", "attrelid = n", "indrelid = n", "inhparent = n",
                  "tgrelid = n", "relkind = v", "select count", "select exists"} = {}
        BY <1>1 DEF Made, Marks, From
    <2>2. /\ ~Applies(TableRules[1], q) /\ ~Applies(TableRules[2], q)
          /\ Applies(TableRules[3], q) /\ TableRules[3].kind = "tables.nodes"
        BY <1>1, <2>1 DEF Made, Marks, TableRules, From, Rule, Applies
    <2>3. Answers(TableRules, q, "tables.nodes")
        BY <2>2, AdaptersAreRules DEF Answers
    <2>4. NoneOf(SqlAlchemyRules, q)
        BY <2>1, ReflectionLeaves
    <2>5. NoneOf(SchemaRules, q)
        BY <2>1, SchemaLeaves
    <2>6. NoneOf(ChildRules, q)
        <3>1. /\ q \cap {"attrelid = n", "indrelid = n", "inhparent = n", "tgrelid = n"} = {}
              /\ "rel.oid = n" \notin q
            BY <1>1, <2>1
        <3> QED BY <3>1, ChildLeaves
    <2>7. NoneOf(ViewRules, q)
        BY <2>1, ViewLeaves
    <2> QED BY <2>3, <2>4, <2>5, <2>6, <2>7, Routes
<1> QED BY <1>1

\* Those of SQLAlchemy.
LEMMA ReflectionQueries ==
    ASSUME NEW q
    PROVE  /\ Made(q, {"pg_class", "pg_class.relname", "pg_namespace", "relkind = any"})
                 => Synthetic(q) = "relationNames"
           /\ Made(q, {"pg_class", "pg_class.relname", "pg_class.relname =", "pg_namespace",
                       "relkind = any"})
                 => Synthetic(q) = "hasRelation"
           /\ Made(q, {"pg_class", "pg_class.relname", "pg_description.description",
                       "pg_namespace", "relkind = any"})
                 => Synthetic(q) = "tableComments"
           /\ Made(q, {"pg_class", "pg_class.relname", "pg_constraint",
                       "pg_get_constraintdef", "pg_namespace", "confrelid"})
                 => Synthetic(q) = "foreignKeys"
           /\ Made(q, {"pg_class", "pg_class.relname", "pg_constraint",
                       "pg_get_constraintdef", "pg_description.description"})
                 => Synthetic(q) = "checks"
<1>1. ASSUME Made(q, {"pg_class", "pg_class.relname", "pg_namespace", "relkind = any"})
      PROVE  Synthetic(q) = "relationNames"
    <2>1. q \cap {"array_agg", "elements", "pg_constraint", "identity_options",
                  "select pg_class.oid, relname", "select pg_class.oid",
                  "pg_description.description", "pg_class.relname ="} = {}
        BY <1>1 DEF Made, Marks, From
    <2>2. /\ ~Applies(SqlAlchemyRules[1], q) /\ ~Applies(SqlAlchemyRules[2], q)
          /\ ~Applies(SqlAlchemyRules[3], q) /\ ~Applies(SqlAlchemyRules[4], q)
          /\ ~Applies(SqlAlchemyRules[5], q) /\ ~Applies(SqlAlchemyRules[6], q)
          /\ ~Applies(SqlAlchemyRules[7], q) /\ ~Applies(SqlAlchemyRules[8], q)
          /\ ~Applies(SqlAlchemyRules[9], q) /\ Applies(SqlAlchemyRules[10], q)
          /\ SqlAlchemyRules[10].kind = "relationNames"
        BY <1>1, <2>1 DEF Made, Marks, SqlAlchemyRules, ChildCatalogs, From, Rule, Applies
    <2>3. Answers(SqlAlchemyRules, q, "relationNames")
        BY <2>2, AdaptersAreRules DEF Answers
    <2> QED BY <2>3, Routes
<1>2. ASSUME Made(q, {"pg_class", "pg_class.relname", "pg_class.relname =", "pg_namespace",
                      "relkind = any"})
      PROVE  Synthetic(q) = "hasRelation"
    <2>1. q \cap {"array_agg", "elements", "pg_constraint", "identity_options",
                  "select pg_class.oid, relname", "select pg_class.oid",
                  "pg_description.description"} = {}
        BY <1>2 DEF Made, Marks, From
    <2>2. /\ ~Applies(SqlAlchemyRules[1], q) /\ ~Applies(SqlAlchemyRules[2], q)
          /\ ~Applies(SqlAlchemyRules[3], q) /\ ~Applies(SqlAlchemyRules[4], q)
          /\ ~Applies(SqlAlchemyRules[5], q) /\ ~Applies(SqlAlchemyRules[6], q)
          /\ ~Applies(SqlAlchemyRules[7], q) /\ ~Applies(SqlAlchemyRules[8], q)
          /\ Applies(SqlAlchemyRules[9], q) /\ SqlAlchemyRules[9].kind = "hasRelation"
        BY <1>2, <2>1 DEF Made, Marks, SqlAlchemyRules, ChildCatalogs, From, Rule, Applies
    <2>3. Answers(SqlAlchemyRules, q, "hasRelation")
        BY <2>2, AdaptersAreRules DEF Answers
    <2> QED BY <2>3, Routes
<1>3. ASSUME Made(q, {"pg_class", "pg_class.relname", "pg_description.description",
                      "pg_namespace", "relkind = any"})
      PROVE  Synthetic(q) = "tableComments"
    <2>1. q \cap {"array_agg", "elements", "pg_constraint", "identity_options",
                  "select pg_class.oid, relname", "select pg_class.oid"} = {}
        BY <1>3 DEF Made, Marks, From
    <2>2. /\ ~Applies(SqlAlchemyRules[1], q) /\ ~Applies(SqlAlchemyRules[2], q)
          /\ ~Applies(SqlAlchemyRules[3], q) /\ ~Applies(SqlAlchemyRules[4], q)
          /\ ~Applies(SqlAlchemyRules[5], q) /\ ~Applies(SqlAlchemyRules[6], q)
          /\ ~Applies(SqlAlchemyRules[7], q) /\ Applies(SqlAlchemyRules[8], q)
          /\ SqlAlchemyRules[8].kind = "tableComments"
        BY <1>3, <2>1 DEF Made, Marks, SqlAlchemyRules, ChildCatalogs, From, Rule, Applies
    <2>3. Answers(SqlAlchemyRules, q, "tableComments")
        BY <2>2, AdaptersAreRules DEF Answers
    <2> QED BY <2>3, Routes
<1>4. ASSUME Made(q, {"pg_class", "pg_class.relname", "pg_constraint", "pg_get_constraintdef",
                      "pg_namespace", "confrelid"})
      PROVE  Synthetic(q) = "foreignKeys"
    <2>1. q \cap {"array_agg", "elements"} = {}
        BY <1>4 DEF Made, Marks, From
    <2>2. /\ ~Applies(SqlAlchemyRules[1], q) /\ ~Applies(SqlAlchemyRules[2], q)
          /\ Applies(SqlAlchemyRules[3], q) /\ SqlAlchemyRules[3].kind = "foreignKeys"
        BY <1>4, <2>1 DEF Made, Marks, SqlAlchemyRules, ChildCatalogs, From, Rule, Applies
    <2>3. Answers(SqlAlchemyRules, q, "foreignKeys")
        BY <2>2, AdaptersAreRules DEF Answers
    <2> QED BY <2>3, Routes
<1>5. ASSUME Made(q, {"pg_class", "pg_class.relname", "pg_constraint", "pg_get_constraintdef",
                      "pg_description.description"})
      PROVE  Synthetic(q) = "checks"
    <2>1. q \cap {"array_agg", "elements", "confrelid"} = {}
        BY <1>5 DEF Made, Marks, From
    <2>2. /\ ~Applies(SqlAlchemyRules[1], q) /\ ~Applies(SqlAlchemyRules[2], q)
          /\ ~Applies(SqlAlchemyRules[3], q) /\ Applies(SqlAlchemyRules[4], q)
          /\ SqlAlchemyRules[4].kind = "checks"
        BY <1>5, <2>1 DEF Made, Marks, SqlAlchemyRules, ChildCatalogs, From, Rule, Applies
    <2>3. Answers(SqlAlchemyRules, q, "checks")
        BY <2>2, AdaptersAreRules DEF Answers
    <2> QED BY <2>3, Routes
<1> QED BY <1>1, <1>2, <1>3, <1>4, <1>5

\* A query from template t gets the answer it is for; one for relations if nothing
\* else is nested in it; one for the nodes of tables if it is not for one of them.
Reached(t) == \A q : Made(q, t.q) => Synthetic(q) = t.kind
ReachedAlone(t) == \A q : Made(q, t.q) /\ From \notin q => Synthetic(q) = t.kind
ReachedForAll(t) ==
    \A q : Made(q, t.q) /\ From \notin q /\ "rel.oid = n" \notin q => Synthetic(q) = t.kind

\* The fields of a template.
LEMMA TemplateFields ==
    ASSUME NEW marks, NEW kind
    PROVE  Template(marks, kind).q = marks /\ Template(marks, kind).kind = kind
BY DEF Template

LEMMA TemplateReached ==
    ASSUME NEW marks, NEW kind
    PROVE  /\ (\A q : Made(q, marks) => Synthetic(q) = kind) => Reached(Template(marks, kind))
           /\ (\A q : Made(q, marks) /\ From \notin q => Synthetic(q) = kind)
                 => ReachedAlone(Template(marks, kind))
           /\ (\A q : Made(q, marks) /\ From \notin q /\ "rel.oid = n" \notin q
                         => Synthetic(q) = kind)
                 => ReachedForAll(Template(marks, kind))
<1> DEFINE t == Template(marks, kind)
<1>1. t.q = marks /\ t.kind = kind
    BY TemplateFields
<1> HIDE DEF t
<1>2. (\A q : Made(q, marks) => Synthetic(q) = kind) => Reached(t)
    BY <1>1 DEF Reached
<1>3. (\A q : Made(q, marks) /\ From \notin q => Synthetic(q) = kind) => ReachedAlone(t)
    BY <1>1 DEF ReachedAlone
<1>4. (\A q : Made(q, marks) /\ From \notin q /\ "rel.oid = n" \notin q => Synthetic(q) = kind)
        => ReachedForAll(t)
    BY <1>1 DEF ReachedForAll
<1> QED BY <1>2, <1>3, <1>4 DEF t

LEMMA SchemaTemplatesReached == \A t \in SchemaTemplates : Reached(t)
<1>1. Reached(Template({From, "nsptyp", "namespaceowner", "has_privilege", "can_create"},
                        "schema.properties"))
    BY SchemaQueries, TemplateReached
<1>2. Reached(Template({From, "has_privilege", "can_create"},
                        "schema.nodes"))
    BY SchemaQueries, TemplateReached
<1>3. Reached(Template({From, "count(*)"},
                        "schema.count"))
    BY SchemaQueries, TemplateReached
<1>4. Reached(Template({From, "select oid", "nspname ="},
                        "schema.oidByName"))
    BY SchemaQueries, TemplateReached
<1> QED BY <1>1, <1>2, <1>3, <1>4 DEF SchemaTemplates

LEMMA ChildTemplatesReached == \A t \in ChildTemplates : Reached(t)
<1>1. Reached(Template({"pg_attribute", "attrelid = n", "attnum as oid", "format_type"},
                        "columns.nodes"))
    BY ChildQueries, TemplateReached
<1>2. Reached(Template({"pg_attribute", "attrelid = n", "atttypid", "colconstype"},
                        "columns.properties"))
    BY ChildQueries, TemplateReached
<1>3. Reached(Template({"pg_class", "pg_index", "indrelid = n"},
                        "indexes.nodes"))
    BY ChildQueries, TemplateReached
<1>4. Reached(Template({"pg_class", "pg_index", "indrelid = n", "indnatts", "amname"},
                        "indexes.properties"))
    BY ChildQueries, TemplateReached
<1> QED BY <1>1, <1>2, <1>3, <1>4 DEF ChildTemplates

LEMMA RelationTemplatesReached ==
    \A t \in RelationTemplates :
        ReachedAlone(t) \/ (t.kind = "tables.nodes" /\ ReachedForAll(t))
<1>1. ReachedAlone(Template({"pg_class", "relkind = v", "select count", "relnamespace",
                              "count(*)"},
                             "views.count"))
    BY ViewQueries, TemplateReached
<1>2. ReachedAlone(Template({"pg_class", "relkind = v", "relname as name", "relnamespace"},
                             "views.nodes"))
    BY ViewQueries, TemplateReached
<1>3. ReachedAlone(Template({"pg_class", "select count", "count(*)", "relkind in",
                              "relnamespace"},
                             "tables.count"))
    BY TableQueries, TemplateReached
<1>4. ReachedAlone(Template({"pg_class", "replica_identity", "hastoasttable", "pg_trigger",
                              "triggercount", "relkind in", "relnamespace"},
                             "tables.properties"))
    BY TableQueries, TemplateReached
<1>5. ReachedAlone(Template({"pg_class", "select relname", "rel.oid = n", "relnamespace"},
                             "tables.nameByOid"))
    BY TableQueries, TemplateReached
<1>6. ReachedAlone(Template({"pg_class", "select rel.oid", "relname =", "relnamespace"},
                             "tables.oidByName"))
    BY TableQueries, TemplateReached
<1>7. ASSUME NEW t,
             t = Template({"pg_class", "pg_trigger", "count(*)", "triggercount",
                           "has_enable_triggers", "pg_inherits", "inhparent", "is_inherits",
                           "relkind in", "relnamespace"},
                          "tables.nodes")
      PROVE  t.kind = "tables.nodes" /\ ReachedForAll(t)
    <2>1. ReachedForAll(Template({"pg_class", "pg_trigger", "count(*)", "triggercount",
                                   "has_enable_triggers", "pg_inherits", "inhparent",
                                   "is_inherits", "relkind in", "relnamespace"},
                                  "tables.nodes"))
        BY TableNodes, TemplateReached
    <2>2. t.kind = "tables.nodes"
        BY <1>7, TemplateFields
    <2> QED BY <1>7, <2>1, <2>2
<1> QED BY <1>1, <1>2, <1>3, <1>4, <1>5, <1>6, <1>7 DEF RelationTemplates

\* Those of SQLAlchemy have two marks in common.
LEMMA Reflected ==
    ASSUME NEW marks, NEW kind, NEW all, all = {"pg_class", "pg_class.relname"} \cup marks,
           \A q : Made(q, all) => Synthetic(q) = kind
    PROVE  Reached(Reflects(marks, kind))
BY TemplateReached DEF Reflects

LEMMA ReflectionTemplatesReached == \A t \in ReflectionTemplates : Reached(t)
<1>1. Reached(Reflects({"pg_namespace", "relkind = any"}, "relationNames"))
    <2>1. {"pg_class", "pg_class.relname", "pg_namespace", "relkind = any"}
             = {"pg_class", "pg_class.relname"} \cup {"pg_namespace", "relkind = any"}
        OBVIOUS
    <2> QED BY <2>1, ReflectionQueries, Reflected
<1>2. Reached(Reflects({"pg_class.relname =", "pg_namespace", "relkind = any"}, "hasRelation"))
    <2>1. {"pg_class", "pg_class.relname", "pg_class.relname =", "pg_namespace",
            "relkind = any"}
             = {"pg_class", "pg_class.relname"} \cup {"pg_class.relname =", "pg_namespace",
                                                "relkind = any"}
        OBVIOUS
    <2> QED BY <2>1, ReflectionQueries, Reflected
<1>3. Reached(Reflects({"pg_description.description", "pg_namespace", "relkind = any"},
                       "tableComments"))
    <2>1. {"pg_class", "pg_class.relname", "pg_description.description", "pg_namespace",
            "relkind = any"}
             = {"pg_class", "pg_class.relname"} \cup {"pg_description.description", "pg_namespace",
                                                "relkind = any"}
        OBVIOUS
    <2> QED BY <2>1, ReflectionQueries, Reflected
<1>4. Reached(Reflects({"pg_constraint", "pg_get_constraintdef", "pg_namespace", "confrelid"},
                       "foreignKeys"))
    <2>1. {"pg_class", "pg_class.relname", "pg_constraint", "pg_get_constraintdef",
            "pg_namespace", "confrelid"}
             = {"pg_class", "pg_class.relname"} \cup {"pg_constraint", "pg_get_constraintdef",
                                                "pg_namespace", "confrelid"}
        OBVIOUS
    <2> QED BY <2>1, ReflectionQueries, Reflected
<1>5. Reached(Reflects({"pg_constraint", "pg_get_constraintdef", "pg_description.description"},
                       "checks"))
    <2>1. {"pg_class", "pg_class.relname", "pg_constraint", "pg_get_constraintdef",
            "pg_description.description"}
             = {"pg_class", "pg_class.relname"} \cup {"pg_constraint", "pg_get_constraintdef",
                                                "pg_description.description"}
        OBVIOUS
    <2> QED BY <2>1, ReflectionQueries, Reflected
<1> QED BY <1>1, <1>2, <1>3, <1>4, <1>5 DEF ReflectionTemplates

\* Whatever of the macros is nested in it, a query that PostgreSQL clients make gets
\* the answer it is for, with the exceptions of the property.
THEOREM RequestsAnswered == RequestsReachTheirAdapter
<1> SUFFICES ASSUME NEW t \in Templates, NEW nested \in SUBSET Macros,
                    NEW q, q = t.q \cup UNION nested
             PROVE  \/ Synthetic(q) = t.kind
                    \/ t \in RelationTemplates /\ From \in q
                    \/ t.kind = "tables.nodes" /\ "rel.oid = n" \in q
    BY DEF RequestsReachTheirAdapter
<1>1. \A m \in Macros : m \subseteq Marks
    BY DEF Macros, Marks
<1>2. Made(q, t.q)
    BY <1>1 DEF Made
<1>3. \/ t \in RelationTemplates
      \/ t \in SchemaTemplates \cup ChildTemplates \cup ReflectionTemplates
    BY DEF Templates
<1>4. CASE t \in RelationTemplates
    BY <1>2, <1>4, RelationTemplatesReached DEF ReachedAlone, ReachedForAll
<1>5. CASE t \in SchemaTemplates \cup ChildTemplates \cup ReflectionTemplates
    BY <1>2, <1>5, SchemaTemplatesReached, ChildTemplatesReached,
       ReflectionTemplatesReached DEF Reached
<1> QED BY <1>3, <1>4, <1>5
-----------------------------------------------------------------------------
(* Any query.                                                              *)

\* The least of some numbers.
LEMMA LeastIndex ==
    ASSUME NEW T, T \subseteq Nat, T # {}
    PROVE  \E n \in T : \A k \in T : n <= k
<1>1. PICK n \in T : \A k \in T : ~ (<<k, n>> \in OpToRel(<, Nat))
    BY NatLessThanWellFounded, WFMin
<1>2. ASSUME NEW k \in T PROVE n <= k
    <2>1. k \in Nat /\ n \in Nat
        OBVIOUS
    <2>2. <<k, n>> \in Nat \X Nat /\ <<k, n>>[1] = k /\ <<k, n>>[2] = n
        BY <2>1
    <2>3. ~ (<<k, n>>[1] < <<k, n>>[2])
        BY <1>1, <2>2 DEF OpToRel
    <2> QED BY <2>1, <2>2, <2>3
<1> QED BY <1>1, <1>2

\* If a rule of the adapter applies, one of them answers.
LEMMA SomeAnswer ==
    ASSUME NEW rules \in Seq(AnyRule), NEW q, ~NoneOf(rules, q)
    PROVE  \E n \in DOMAIN rules : Answers(rules, q, rules[n].kind)
<1> DEFINE hits == {i \in DOMAIN rules : Applies(rules[i], q)}
<1>1. hits # {} /\ hits \subseteq Nat
    BY DEF NoneOf
<1>2. PICK n \in hits : \A k \in hits : n <= k
    BY <1>1, LeastIndex
<1>3. \A i \in DOMAIN rules : i \in Nat
    OBVIOUS
<1>4. n \in DOMAIN rules /\ Applies(rules[n], q)
      /\ \A i \in DOMAIN rules : i < n => ~Applies(rules[i], q)
    BY <1>2, <1>3
<1> QED BY <1>4 DEF Answers

\* No rule of the adapter is of these kinds.
NoneIs(rules, kinds) == \A i \in DOMAIN rules : rules[i].kind \notin kinds
Elsewhere == {"none", "db2"}

LEMMA BothAreNot ==
    ASSUME NEW r \in Seq(AnyRule), NEW s \in Seq(AnyRule), NEW kinds,
           NoneIs(r, kinds), NoneIs(s, kinds)
    PROVE  r \o s \in Seq(AnyRule) /\ NoneIs(r \o s, kinds)
<1> DEFINE k == Len(r)
           t == r \o s
<1>1. k \in Nat /\ Len(s) \in Nat /\ DOMAIN r = 1..k /\ DOMAIN s = 1..Len(s)
    BY LenProperties
<1>2. /\ t \in Seq(AnyRule) /\ DOMAIN t = 1..(k + Len(s))
      /\ \A i \in 1..k : t[i] = r[i]
      /\ \A i \in 1..Len(s) : t[k + i] = s[i]
    OBVIOUS
<1> HIDE DEF k, t
<1>3. \A i \in DOMAIN t : i \in 1..k \/ (i - k \in 1..Len(s) /\ k + (i - k) = i)
    BY <1>1, <1>2
<1>4. NoneIs(t, kinds)
    BY <1>1, <1>2, <1>3 DEF NoneIs
<1> QED BY <1>2, <1>4 DEF t

LEMMA AdaptersAreLocal ==
    /\ NoneIs(SqlAlchemyRules, Elsewhere \cup LocalKinds)
    /\ NoneIs(SchemaRules, Elsewhere \cup LocalKinds)
    /\ NoneIs(ChildRules, Elsewhere \cup LocalKinds)
    /\ NoneIs(ViewRules, Elsewhere \cup LocalKinds)
    /\ NoneIs(TableRules, Elsewhere \cup LocalKinds)
<1>1. NoneIs(SqlAlchemyRules, Elsewhere \cup LocalKinds)
    <2>1. /\ SqlAlchemyRules[1].kind = "keyConstraints"
          /\ SqlAlchemyRules[2].kind = "indexes"
          /\ SqlAlchemyRules[3].kind = "foreignKeys"
          /\ SqlAlchemyRules[4].kind = "checks"
          /\ SqlAlchemyRules[5].kind = "columns"
          /\ SqlAlchemyRules[6].kind = "relationOids"
          /\ SqlAlchemyRules[7].kind = "relationOidByName"
          /\ SqlAlchemyRules[8].kind = "tableComments"
          /\ SqlAlchemyRules[9].kind = "hasRelation"
          /\ SqlAlchemyRules[10].kind = "relationNames"
        BY DEF SqlAlchemyRules, Rule
    <2>2. \A i \in 1..10 : \/ i = 1 \/ i = 2 \/ i = 3 \/ i = 4 \/ i = 5
                           \/ i = 6 \/ i = 7 \/ i = 8 \/ i = 9 \/ i = 10
        OBVIOUS
    <2>3. \A i \in 1..10 : SqlAlchemyRules[i].kind \notin Elsewhere \cup LocalKinds
        BY <2>1, <2>2 DEF Elsewhere, LocalKinds
    <2> QED BY <2>3, AdaptersAreRules DEF NoneIs
<1>2. NoneIs(SchemaRules, Elsewhere \cup LocalKinds)
    <2>1. \A x \in {SchemaRules[1].kind, SchemaRules[2].kind, SchemaRules[3].kind,
                SchemaRules[4].kind, SchemaRules[5].kind, SchemaRules[6].kind,
                SchemaRules[7].kind, SchemaRules[8].kind} :
             x \notin Elsewhere \cup LocalKinds
        BY DEF SchemaRules, Rule, Elsewhere, LocalKinds
    <2>2. \A i \in 1..8 : \/ i = 1 \/ i = 2 \/ i = 3 \/ i = 4 \/ i = 5
                          \/ i = 6 \/ i = 7 \/ i = 8
        OBVIOUS
    <2>3. \A i \in 1..8 : SchemaRules[i].kind \notin Elsewhere \cup LocalKinds
        BY <2>1, <2>2
    <2> QED BY <2>3, AdaptersAreRules DEF NoneIs
<1>3. NoneIs(ChildRules, Elsewhere \cup LocalKinds)
    <2>1. \A x \in {ChildRules[1].kind, ChildRules[2].kind, ChildRules[3].kind,
                ChildRules[4].kind, ChildRules[5].kind, ChildRules[6].kind,
                ChildRules[7].kind, ChildRules[8].kind, ChildRules[9].kind,
                ChildRules[10].kind} :
             x \notin Elsewhere \cup LocalKinds
        BY DEF ChildRules, Rule, Elsewhere, LocalKinds, NoChildren
    <2>2. \A i \in 1..10 : \/ i = 1 \/ i = 2 \/ i = 3 \/ i = 4 \/ i = 5
                           \/ i = 6 \/ i = 7 \/ i = 8 \/ i = 9 \/ i = 10
        OBVIOUS
    <2>3. \A i \in 1..10 : ChildRules[i].kind \notin Elsewhere \cup LocalKinds
        BY <2>1, <2>2
    <2> QED BY <2>3, AdaptersAreRules DEF NoneIs
<1>4. NoneIs(ViewRules, Elsewhere \cup LocalKinds)
    <2>1. \A x \in {ViewRules[1].kind, ViewRules[2].kind, ViewRules[3].kind} :
             x \notin Elsewhere \cup LocalKinds
        BY DEF ViewRules, Rule, Elsewhere, LocalKinds
    <2> QED BY <2>1, AdaptersAreRules DEF NoneIs
<1>5. NoneIs(TableRules, Elsewhere \cup LocalKinds)
    <2>1. \A x \in {TableRules[1].kind, TableRules[2].kind, TableRules[3].kind,
                TableRules[4].kind, TableRules[5].kind, TableRules[6].kind,
                TableRules[7].kind} :
             x \notin Elsewhere \cup LocalKinds
        BY DEF TableRules, Rule, Elsewhere, LocalKinds
    <2>2. \A i \in 1..7 : \/ i = 1 \/ i = 2 \/ i = 3 \/ i = 4 \/ i = 5
                          \/ i = 6 \/ i = 7
        OBVIOUS
    <2>3. \A i \in 1..7 : TableRules[i].kind \notin Elsewhere \cup LocalKinds
        BY <2>1, <2>2
    <2> QED BY <2>3, AdaptersAreRules DEF NoneIs
<1> QED BY <1>1, <1>2, <1>3, <1>4, <1>5

LEMMA AllAdapters == Adapters \in Seq(AnyRule) /\ NoneIs(Adapters, Elsewhere \cup LocalKinds)
<1> DEFINE a == SqlAlchemyRules \o SchemaRules
           b == a \o ChildRules
           c == b \o ViewRules
<1>1. a \in Seq(AnyRule) /\ NoneIs(a, Elsewhere \cup LocalKinds)
    BY AdaptersAreRules, AdaptersAreLocal, BothAreNot
<1> HIDE DEF a
<1>2. b \in Seq(AnyRule) /\ NoneIs(b, Elsewhere \cup LocalKinds)
    BY <1>1, AdaptersAreRules, AdaptersAreLocal, BothAreNot
<1> HIDE DEF b
<1>3. c \in Seq(AnyRule) /\ NoneIs(c, Elsewhere \cup LocalKinds)
    BY <1>2, AdaptersAreRules, AdaptersAreLocal, BothAreNot
<1> HIDE DEF c
<1>4. c \o TableRules \in Seq(AnyRule) /\ NoneIs(c \o TableRules, Elsewhere \cup LocalKinds)
    BY <1>3, AdaptersAreRules, AdaptersAreLocal, BothAreNot
<1> QED BY <1>4 DEF Adapters, a, b, c

\* The rules after them are of these kinds.
LEMMA RulesAfterAdapters ==
    /\ NoneIs(GenericRules, Elsewhere)
    /\ AnswersEmpty[1].kind = "local.empty" /\ (\A q : Applies(AnswersEmpty[1], q))
    /\ TypeRules[1].kind = "types"
    /\ Refuses[1].kind = "refused" /\ (\A q : Applies(Refuses[1], q))
    /\ ToDb2[1].kind = "db2" /\ (\A q : Applies(ToDb2[1], q))
<1>1. NoneIs(GenericRules, Elsewhere)
    <2>1. \A x \in {GenericRules[1].kind, GenericRules[2].kind, GenericRules[3].kind,
                GenericRules[4].kind, GenericRules[5].kind, GenericRules[6].kind,
                GenericRules[7].kind, GenericRules[8].kind} : x \notin Elsewhere
        BY DEF GenericRules, Rule, Elsewhere
    <2>2. \A i \in 1..8 : \/ i = 1 \/ i = 2 \/ i = 3 \/ i = 4 \/ i = 5
                          \/ i = 6 \/ i = 7 \/ i = 8
        OBVIOUS
    <2>3. \A i \in 1..8 : GenericRules[i].kind \notin Elsewhere
        BY <2>1, <2>2
    <2> QED BY <2>3, AdaptersAreRules DEF NoneIs
<1>2. AnswersEmpty[1].kind = "local.empty" /\ (\A q : Applies(AnswersEmpty[1], q))
    BY DEF AnswersEmpty, Rule, Applies
<1>3. TypeRules[1].kind = "types"
    BY DEF TypeRules, Rule
<1>4. Refuses[1].kind = "refused" /\ (\A q : Applies(Refuses[1], q))
    BY DEF Refuses, Rule, Applies
<1>5. ToDb2[1].kind = "db2" /\ (\A q : Applies(ToDb2[1], q))
    BY DEF ToDb2, Rule, Applies
<1> QED BY <1>1, <1>2, <1>3, <1>4, <1>5

\* A query that an adapter answers, and one that none does.
LEMMA AdapterAnswers ==
    ASSUME NEW q, ~NoneOf(Adapters, q)
    PROVE  Synthetic(q) \notin Elsewhere \cup LocalKinds
<1>1. PICK n \in DOMAIN Adapters : Answers(Adapters, q, Adapters[n].kind)
    BY AllAdapters, SomeAnswer
<1> DEFINE kind == Adapters[n].kind
<1>2. kind \notin Elsewhere \cup LocalKinds /\ kind # "none"
    BY <1>1, AllAdapters DEF NoneIs, Elsewhere
<1>3. Answers(Adapters \o NoAdapter, q, kind)
    BY <1>1, AllAdapters, AdaptersAreRules, TwoAdapters
<1>4. Adapters \o NoAdapter \in Seq(AnyRule)
    BY AllAdapters, AdaptersAreRules, ConcatProperties
<1>5. FirstOf(Adapters \o NoAdapter, q) = kind
    BY <1>3, <1>4, AnswersFirst
<1>6. Synthetic(q) = kind
    BY <1>2, <1>5 DEF Synthetic
<1> QED BY <1>2, <1>6

LEMMA NoAdapterAnswers ==
    ASSUME NEW q, NoneOf(Adapters, q)
    PROVE  Synthetic(q) = AfterAdapters(q)
<1>1. NoAdapter[1].kind = "none" /\ Applies(NoAdapter[1], q)
    BY DEF NoAdapter, Applies, Rule
<1>2. Answers(NoAdapter, q, "none")
    BY <1>1, AdaptersAreRules DEF Answers
<1>3. Answers(Adapters \o NoAdapter, q, "none")
    BY <1>2, AllAdapters, AdaptersAreRules, TwoAdapters
<1>4. Adapters \o NoAdapter \in Seq(AnyRule)
    BY AllAdapters, AdaptersAreRules, ConcatProperties
<1>5. FirstOf(Adapters \o NoAdapter, q) = "none"
    BY <1>3, <1>4, AnswersFirst
<1> QED BY <1>5 DEF Synthetic

\* An adapter one of whose rules applies gives one of its kinds, whatever follows.
LEMMA AnswerWithin ==
    ASSUME NEW r \in Seq(AnyRule), NEW s \in Seq(AnyRule), NEW q, NEW kinds,
           ~NoneOf(r, q), NoneIs(r, kinds)
    PROVE  FirstOf(r \o s, q) \notin kinds
<1>1. PICK n \in DOMAIN r : Answers(r, q, r[n].kind)
    BY SomeAnswer
<1>2. r[n].kind \notin kinds
    BY <1>1 DEF NoneIs
<1>3. Answers(r \o s, q, r[n].kind) /\ r \o s \in Seq(AnyRule)
    BY <1>1, TwoAdapters, ConcatProperties
<1> QED BY <1>2, <1>3, AnswersFirst

LEMMA LastApplies ==
    ASSUME NEW r \in Seq(AnyRule), NEW s \in Seq(AnyRule), NEW q, DOMAIN s = 1..1,
           Applies(s[1], q)
    PROVE  ~NoneOf(r \o s, q)
<1>1. Answers(s, q, s[1].kind)
    BY DEF Answers
<1>2. CASE NoneOf(r, q)
    <2>1. Answers(r \o s, q, s[1].kind)
        BY <1>1, <1>2, TwoAdapters
    <2> QED BY <2>1 DEF Answers, NoneOf
<1>3. CASE ~NoneOf(r, q)
    <2>1. PICK n \in DOMAIN r : Answers(r, q, r[n].kind)
        BY <1>3, SomeAnswer
    <2>2. Answers(r \o s, q, r[n].kind)
        BY <2>1, TwoAdapters
    <2> QED BY <2>2 DEF Answers, NoneOf
<1> QED BY <1>2, <1>3

\* What only PostgreSQL has is answered or refused.
LEMMA UnhandledStaysLocal ==
    ASSUME NEW q, Unhandled(q)
    PROVE  AfterAdapters(q) # "db2"
<1> DEFINE p == IF PathLiteral \in q THEN <<>> ELSE GenericRules \o AnswersEmpty
           t == p \o TypeRules
           r == t \o Refuses
<1>1. p \in Seq(AnyRule) /\ NoneIs(p, {"db2"})
    <2>1. <<>> \in Seq(AnyRule) /\ NoneIs(<<>>, {"db2"})
        BY DEF NoneIs
    <2>2. NoneIs(GenericRules, {"db2"}) /\ NoneIs(AnswersEmpty, {"db2"})
        BY RulesAfterAdapters, AdaptersAreRules DEF NoneIs, Elsewhere
    <2>3. GenericRules \o AnswersEmpty \in Seq(AnyRule)
          /\ NoneIs(GenericRules \o AnswersEmpty, {"db2"})
        BY <2>2, AdaptersAreRules, BothAreNot
    <2> QED BY <2>1, <2>3
<1>2. AfterAdapters(q) = FirstOf(r \o ToDb2, q)
    BY DEF AfterAdapters, LeftOver, AnswersEmpty, Refuses
<1> HIDE DEF p
<1>3. NoneIs(TypeRules, {"db2"}) /\ NoneIs(Refuses, {"db2"})
    BY RulesAfterAdapters, AdaptersAreRules DEF NoneIs
<1>4. t \in Seq(AnyRule) /\ NoneIs(t, {"db2"})
    BY <1>1, <1>3, AdaptersAreRules, BothAreNot
<1> HIDE DEF t
<1>5. r \in Seq(AnyRule) /\ NoneIs(r, {"db2"}) /\ ~NoneOf(r, q)
    BY <1>3, <1>4, AdaptersAreRules, RulesAfterAdapters, BothAreNot, LastApplies
<1> HIDE DEF r
<1>6. FirstOf(r \o ToDb2, q) \notin {"db2"}
    BY <1>5, AdaptersAreRules, AnswerWithin
<1> QED BY <1>2, <1>6

\* A literal set_config of the search_path gets none of the generic answers.
LEMMA SetConfigIsLeft ==
    ASSUME NEW q, PathLiteral \in q
    PROVE  AfterAdapters(q) \notin LocalKinds
<1> DEFINE left == LeftOver(q, "refused")
           t == TypeRules \o left
           r == t \o ToDb2
<1>1. left \in Seq(AnyRule) /\ NoneIs(left, LocalKinds)
    <2>1. <<>> \in Seq(AnyRule) /\ NoneIs(<<>>, LocalKinds)
        BY DEF NoneIs
    <2>2. Refuses \in Seq(AnyRule) /\ NoneIs(Refuses, LocalKinds)
        BY RulesAfterAdapters, AdaptersAreRules DEF NoneIs, LocalKinds
    <2>3. left = <<>> \/ left = Refuses
        BY DEF LeftOver, Refuses
    <2> QED BY <2>1, <2>2, <2>3
<1>2. AfterAdapters(q) = FirstOf(<<>> \o TypeRules \o left \o ToDb2, q)
    BY DEF AfterAdapters
<1> HIDE DEF left
<1>3. <<>> \o TypeRules = TypeRules
    BY AdaptersAreRules, ConcatEmptySeq
<1>4. NoneIs(TypeRules, LocalKinds) /\ NoneIs(ToDb2, LocalKinds)
    BY RulesAfterAdapters, AdaptersAreRules DEF NoneIs, LocalKinds
<1>5. t \in Seq(AnyRule) /\ NoneIs(t, LocalKinds)
    BY <1>1, <1>4, AdaptersAreRules, BothAreNot
<1>6. AfterAdapters(q) = FirstOf(r, q)
    BY <1>2, <1>3
<1> HIDE DEF t
<1>7. r \in Seq(AnyRule) /\ NoneIs(r, LocalKinds) /\ ~NoneOf(r, q)
    BY <1>4, <1>5, AdaptersAreRules, RulesAfterAdapters, BothAreNot, LastApplies
<1> HIDE DEF r
<1>8. PICK n \in DOMAIN r : Answers(r, q, r[n].kind)
    BY <1>7, SomeAnswer
<1>9. FirstOf(r, q) = r[n].kind
    BY <1>7, <1>8, AnswersFirst
<1> QED BY <1>6, <1>7, <1>8, <1>9 DEF NoneIs

\* For any query: what only PostgreSQL has does not reach Db2, and a set_config of the
\* search_path with a literal value is carried out if that names a schema, and gets none
\* of the generic answers if not.
THEOREM QueriesAreSafelyRouted == \A q : SafelyRouted(q)
<1> SUFFICES ASSUME NEW q PROVE SafelyRouted(q)
    OBVIOUS
<1>1. Synthetic(q) = "db2" => ~Unhandled(q)
    BY NoAdapterAnswers, AdapterAnswers, UnhandledStaysLocal DEF Elsewhere
<1>2. PathLiteral \in q => Synthetic(q) \notin LocalKinds
    BY NoAdapterAnswers, AdapterAnswers, SetConfigIsLeft
<1>3. "searchPath" # "db2" /\ "searchPath" \notin LocalKinds
    BY DEF LocalKinds
<1> QED BY <1>1, <1>2, <1>3 DEF SafelyRouted, Route
-----------------------------------------------------------------------------
\* What is read from catalogs is right, whatever the commands.
THEOREM CatalogReadsRight == Spec => []CatalogReadsAreRight
<1>0. FirewallHolds
    BY QueriesAreSafelyRouted DEF FirewallHolds
<1>1. RequestsReachTheirAdapter /\ IndexesAreListed /\ ForeignKeysPair /\ FirewallHolds
    BY <1>0, RequestsAnswered, IndexesAreListedForAll, ForeignKeysPairForAll
<1>2. CatalogReadsAreRight
    BY <1>1 DEF CatalogReadsAreRight
<1> QED BY <1>2, PTL
=============================================================================
