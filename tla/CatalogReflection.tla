-------------------------- MODULE CatalogReflection --------------------------
(***************************************************************************)
(* The rows of Db2 catalogs put together for reflection: the indexes of a  *)
(* table from three catalogs that may each lack some of it, and its        *)
(* foreign keys (fetchIbmiIndexes and fetchIbmiForeignKeys of              *)
(* src/src/proxy/session.ts, src/src/sql/sqlalchemy-reflection.ts).        *)
(*                                                                         *)
(* An index list is a function from names to the keys reported and their   *)
(* number.  A catalog that cannot be read counts as one without rows,      *)
(* which is how the code goes on.                                          *)
(***************************************************************************)
EXTENDS Naturals, Sequences, FiniteSets

CONSTANTS IndexNames, KeyColumns

\* A table has finitely many columns, and each a name.
ASSUME ReflectionAssumption == IsFiniteSet(KeyColumns) /\ "null" \notin KeyColumns

Unresolved(rows) == {n \in DOMAIN rows : rows[n].count > 0 /\ rows[n].keys = <<>>}

\* The keys of index n in the rows of SYSKEYS, in order.
KeysOf(n, sysKeys) ==
    LET mine == {k \in sysKeys : k.index = n /\ k.ordinal > 0}
        before(k) == {l \in mine : l.ordinal < k.ordinal}
    IN [i \in 1 .. Cardinality(mine) |->
          (CHOOSE k \in mine : Cardinality(before(k)) = i - 1).column]

\* SYSKEYS completes the rows without keys.
WithSysKeys(rows, sysKeys) ==
    [n \in DOMAIN rows |-> IF n \in Unresolved(rows)
                           THEN [rows[n] EXCEPT !.keys = KeysOf(n, sysKeys)]
                           ELSE rows[n]]

\* SYSTABLEINDEXSTAT stands in for a table without rows, and completes those that
\* still have no keys.
WithNative(rows, native) ==
    IF DOMAIN rows = {} THEN native
    ELSE [n \in DOMAIN rows |->
            IF n \in Unresolved(rows) /\ n \in DOMAIN native
            THEN [rows[n] EXCEPT !.keys = native[n].keys] ELSE rows[n]]

\* fetchIbmiIndexes; the variant asks the second catalog only for a table without
\* rows.
IndexesOfEmpty(rows, sysKeys, native) ==
    IF DOMAIN rows = {} THEN native ELSE WithSysKeys(rows, sysKeys)
Indexes(rows, sysKeys, native) == WithNative(WithSysKeys(rows, sysKeys), native)

\* resolveSqlAlchemyReflection and renderSqlAlchemyIndexes show no index whose keys
\* are not known.
Shown(rows) == DOMAIN rows \ Unresolved(rows)

\* A row of a foreign key adds its columns to the lists of its constraint, those it
\* has.
Known(column) == column # "null"
Below(S, i) == {j \in S : j < i}
AtPlace(S, k) == CHOOSE i \in S : Cardinality(Below(S, i)) = k - 1
Column(rows, c, field) ==
    LET mine == {i \in DOMAIN rows : rows[i].constraint = c /\ Known(rows[i][field])}
    IN [k \in 1 .. Cardinality(mine) |-> rows[AtPlace(mine, k)][field]]
ForeignKeys(rows) ==
    [c \in {rows[i].constraint : i \in DOMAIN rows} |->
       [columns |-> Column(rows, c, "child"), referenced |-> Column(rows, c, "parent")]]
-----------------------------------------------------------------------------
(* What the catalogs may say of indexes whose keys are real.               *)

KeySequences == {q \in UNION {[1 .. k -> KeyColumns] : k \in 1 .. Cardinality(KeyColumns)} :
                   \A i, j \in DOMAIN q : q[i] = q[j] => i = j}
Listed(real, names, gaps) ==
    [n \in names |-> [count |-> Len(real[n]), keys |-> IF n \in gaps THEN <<>> ELSE real[n]]]
KeyRows(real, names) ==
    UNION {{[index |-> n, ordinal |-> i, column |-> real[n][i]] : i \in DOMAIN real[n]} :
             n \in names}
ConstraintRows ==
    [constraint : {"fk1", "fk2"}, child : KeyColumns, parent : KeyColumns \cup {"null"}]
-----------------------------------------------------------------------------
(* Properties.                                                             *)

\* An index of SYSINDEXES is shown, with its keys in their order, when one of the
\* three catalogs has its keys, whatever the others lack; otherwise it is left out.
IndexesAreListed ==
    \A real \in [IndexNames -> KeySequences] :
    \A sql, keyed, native \in SUBSET IndexNames :
    \A gaps \in SUBSET sql, nativeGaps \in SUBSET native :
        LET rows == Indexes(Listed(real, sql, gaps), KeyRows(real, keyed),
                            Listed(real, native, nativeGaps))
            names == IF sql = {} THEN native ELSE sql
            known == (sql \ gaps) \cup (native \ nativeGaps)
                       \cup (IF sql = {} THEN {} ELSE keyed)
        IN /\ Shown(rows) = names \cap known
           /\ \A n \in Shown(rows) : rows[n].keys = real[n]

\* The columns of a foreign key and those it refers to are listed pair by pair, all
\* of them and in the order of the catalog, when the catalog names all the columns
\* referred to.
Pairs(fk, rows, at) ==
    \A i \in DOMAIN fk.columns :
        /\ rows[at[i]].child = fk.columns[i] /\ rows[at[i]].parent = fk.referenced[i]
        /\ \A j \in DOMAIN fk.columns : i < j => at[i] < at[j]
PairsAreWhole(rows) ==
    LET fks == ForeignKeys(rows)
    IN \A c \in DOMAIN fks :
         LET own == {i \in DOMAIN rows : rows[i].constraint = c}
         IN (\A i \in own : Known(rows[i].parent))
              => /\ Len(fks[c].columns) = Cardinality(own)
                 /\ Len(fks[c].referenced) = Cardinality(own)
                 /\ \E at \in [1 .. Cardinality(own) -> own] : Pairs(fks[c], rows, at)
ForeignKeysPair ==
    \A rows \in UNION {[1 .. k -> ConstraintRows] : k \in 0 .. 3} : PairsAreWhole(rows)
=============================================================================
