-------------------------- MODULE ExtendedProtocol --------------------------
(***************************************************************************)
(* The handlers of one session for the simple and the extended query       *)
(* protocol, src/src/proxy/session.ts: prepared statements, portals, what  *)
(* the client is told of a result before it gets the rows, which messages  *)
(* check out a Mapepire job, and the error state that lasts until Sync.    *)
(*                                                                         *)
(* Messages of a session are handled one after another (handleRaw chains   *)
(* them), so a handler is one step here; ProxySession has its awaits.  A   *)
(* handler is the set of its outcomes: what it sends, what it leaves in    *)
(* the maps and the transaction, and whether it throws.                    *)
(*                                                                         *)
(* The text of a statement appears as the kind the proxy tells it for:     *)
(*   "select"      a SELECT or VALUES that reaches Db2                     *)
(*   "call"        other SQL that may return rows (CALL)                   *)
(*   "write"       SQL without rows                                        *)
(*   "returning"   INSERT, UPDATE or DELETE with RETURNING                 *)
(*   "catalog"     answered with catalog queries of the proxy              *)
(*   "environment" answered with rows without Db2                          *)
(*   "setting"     a SET that is acknowledged without Db2                  *)
(*   "advisory"    a pg_advisory_lock function                             *)
(*   "setConfig"   SELECT set_config('search_path', ...)                   *)
(*   "searchPath"  SET or RESET search_path                                *)
(*   "ddl"         CREATE INDEX, ADD COLUMN NOT NULL, RENAME: DDL that the *)
(*                 proxy prepares with queries                             *)
(*   "createSchema"                                                        *)
(*   "owner"       ALTER ... OWNER TO, acknowledged without Db2            *)
(*   "rejected"    a SELECT that translateSql refuses                      *)
(*   "unsupported" any other SET, comments and privileges of a schema      *)
(*   "begin", "end" (COMMIT, ROLLBACK), "savepoint" (and RELEASE),         *)
(*   "rollbackTo", "deallocate", "deallocateAll"                           *)
(* A simple query is one of these, empty, or a batch of two statements:    *)
(*   "tables"      CREATE TABLE with OWNER or COMMENT                      *)
(*   "schemas"     CREATE SCHEMA with other DDL                            *)
(*   "catalogs"    catalog queries                                         *)
(*   "others"      one that starts with any other statement                *)
(* The columns of a result are its shape: a Db2 result has one of Shapes,  *)
(* which only its execution shows, any other the shape "fixed".            *)
(***************************************************************************)
EXTENDS Naturals, Sequences, SequencesExt

CONSTANTS Names,          \* of prepared statements
          PortalNames,
          NoPortal,       \* a portal name that is not bound
          Shapes,         \* of the results of Db2
          ParsedKinds,    \* the kinds of statement clients prepare
          QueryKinds      \* the kinds they send as a simple query

Local == {"environment", "setting", "advisory", "deallocate", "deallocateAll"}
StatementKinds ==
    Local \cup {"select", "call", "write", "returning", "catalog", "setConfig",
                "searchPath", "ddl", "createSchema", "owner", "rejected", "unsupported",
                "begin", "end", "savepoint", "rollbackTo"}
Batches == {"tables", "schemas", "catalogs", "others"}

ASSUME ProtocolAssumption ==
    /\ ParsedKinds \subseteq StatementKinds
    /\ QueryKinds \subseteq StatementKinds \cup Batches \cup {"empty"}
    /\ Shapes \cap {"fixed", "nothing", "noData", "none", "noJob", "noSavepoint"} = {}
    /\ NoPortal \notin [stmt : Names, fresh : BOOLEAN,
                        told : Shapes \cup {"fixed", "nothing", "noData"},
                        replay : Shapes \cup {"fixed", "noData", "none"}]

VARIABLES
    prepared,       \* this.prepared: the kind of each statement, "none" if absent
    portals,        \* this.portals
    extendedError,  \* this.extendedError
    tx,             \* txStatus(): "I", "T" or "E"
    pinned,         \* does an open transaction hold a job?
    closed,         \* this.closed
    last,           \* the message handled last
    out             \* what the client was sent for it

handlers == <<prepared, portals, extendedError, tx, pinned, closed, last, out>>
-----------------------------------------------------------------------------
\* A message to the client, and what the properties need to know of it.
Message(type, info) == [type |-> type, info |-> info]
ErrorResponse(info) == Message("E", info)
ReadyForQuery == Message("Z", "none")
CommandComplete == Message("C", "none")
RowDescription(shape) == Message("T", shape)
DataRow(shape) == Message("D", shape)
NoData == Message("n", "none")

\* A portal: its statement's name, whether that was not parsed again since Bind (for
\* the properties), what Describe told the client (descriptionSent), and the result
\* kept for Execute (synthetic or bufferedDb2).
Told == Shapes \cup {"fixed", "nothing", "noData"}
Kept == Shapes \cup {"fixed", "noData", "none"}
Portal(n) == [stmt |-> n, fresh |-> TRUE, told |-> "nothing", replay |-> "none"]
PortalRecords == [stmt : Names, fresh : BOOLEAN, told : Told, replay : Kept]

ExtendedMessages == {"P", "B", "DS", "DP", "E", "C", "H", "other"}
Queries == {"Q", "batch"}     \* a Query of one statement, and of more
Handled == ExtendedMessages \cup Queries \cup {"S", "X"}
Sent == [type : {"1", "2", "3", "t", "n", "I", "T", "D", "C", "E", "Z"},
         info : Shapes \cup {"none", "fixed", "error", "noJob", "noSavepoint"}]

TypeOK ==
    /\ prepared \in [Names -> ParsedKinds \cup {"none"}]
    /\ portals \in [PortalNames -> PortalRecords \cup {NoPortal}]
    /\ extendedError \in BOOLEAN
    /\ tx \in {"I", "T", "E"}
    /\ pinned \in BOOLEAN
    /\ closed \in BOOLEAN
    /\ last \in Handled \cup {"none", "skipped", "ignored", "framing"}
    /\ out \in Seq(Sent)

InitSession ==
    /\ prepared = [n \in Names |-> "none"]
    /\ portals = [p \in PortalNames |-> NoPortal]
    /\ extendedError = FALSE
    /\ tx = "I"
    /\ pinned = FALSE
    /\ closed = FALSE
    /\ last = "none"
    /\ out = <<>>

Bound(p) == portals[p] # NoPortal
Described(p) == portals[p].told # "nothing"
Replayed(p) == portals[p].replay # "none"
KindOf(p) == prepared[portals[p].stmt]
-----------------------------------------------------------------------------
(* Outcomes of a handler.                                                  *)

Stay == [sent |-> <<>>, error |-> "none", tx |-> tx,
         prepared |-> prepared, portals |-> portals]
Sends(ms) == [Stay EXCEPT !.sent = ms]
Throws(info) == [Stay EXCEPT !.error = info]
Forgets(stmts, ps) == [Stay EXCEPT !.sent = <<CommandComplete>>,
                                   !.prepared = stmts, !.portals = ps]

\* A portal p after Describe told its shape, with the result kept for Execute; the
\* variant forgets the result.
Retold(p, shape, replay) ==
    [stmt |-> portals[p].stmt, fresh |-> portals[p].fresh,
     told |-> shape, replay |-> replay]
DescribedOnly(p, shape, replay) ==
    [Stay EXCEPT
        !.sent = <<IF shape = "noData" THEN NoData ELSE RowDescription(shape)>>,
        !.portals = [portals EXCEPT ![p] = Retold(p, shape, "none")]]
DescribedAs(p, shape, replay) ==
    [Stay EXCEPT
        !.sent = <<IF shape = "noData" THEN NoData ELSE RowDescription(shape)>>,
        !.portals = [portals EXCEPT ![p] = Retold(p, shape, replay)]]

\* sendSynthetic and sendMapepireRows followed by commandComplete.
Rows(shape, withDescription) ==
    (IF withDescription THEN <<RowDescription(shape)>> ELSE <<>>)
        \o <<DataRow(shape), CommandComplete>>

\* The variant of DEALLOCATE leaves the portals of the statement.
DeallocateStatement(n) ==
    IF prepared[n] = "none" THEN Throws("error")
    ELSE Forgets([prepared EXCEPT ![n] = "none"], portals)
Deallocate(n) ==
    IF prepared[n] = "none" THEN Throws("error")
    ELSE Forgets([prepared EXCEPT ![n] = "none"],
                 [p \in PortalNames |->
                    IF Bound(p) /\ portals[p].stmt = n THEN NoPortal ELSE portals[p]])
DeallocateAll ==
    Forgets([n \in Names |-> "none"], [p \in PortalNames |-> NoPortal])

\* Kinds that classify() takes for reads, and kinds that come to currentJob() in
\* a transaction that has not failed only.
MayReturnRows == {"select", "rejected", "catalog", "environment", "advisory",
                  "setConfig"}
UsesDb2(k) == k \in {"select", "call", "write", "returning", "catalog", "setConfig",
                     "searchPath", "ddl"}

\* A statement that failed on Db2, or found no job, aborts the transaction it ran
\* in; queries of the proxy and SET CURRENT SCHEMA do not.
DbError(info) == [Throws(info) EXCEPT !.tx = IF tx = "I" THEN "I" ELSE "E"]
Failures(k, info) ==
    CASE k \in {"catalog", "setConfig", "searchPath"} -> {Throws(info)}
      [] k \in {"ddl", "createSchema"} -> {Throws(info), DbError(info)}
      [] OTHER -> {DbError(info)}

\* executeSql comes to these before it tests for a failed transaction.  ROLLBACK TO
\* ends the failure; whether there is such a savepoint is up to Db2.
ComesFirst == {"owner", "savepoint", "rollbackTo", "createSchema"}
Misplaced(k) == (k = "savepoint" /\ tx # "T") \/ (k = "rollbackTo" /\ tx = "I")
ExecuteFirst(k, has) ==
    IF k = "owner" THEN {Sends(<<CommandComplete>>)}
    ELSE IF Misplaced(k) THEN {Throws("error")}
    ELSE IF ~has THEN Failures(k, IF k = "rollbackTo" THEN "noSavepoint" ELSE "noJob")
    ELSE Failures(k, "error") \cup
            {[Sends(<<CommandComplete>>) EXCEPT !.tx = IF k = "rollbackTo" THEN "T" ELSE @]}

\* executeSql of a statement of kind k by a session that has a job or not, with or
\* without a RowDescription.
ExecuteSql(k, has, withDescription) ==
    IF k \in ComesFirst THEN ExecuteFirst(k, has) ELSE
    IF tx = "E" /\ k # "end" THEN {Throws("error")} ELSE
    CASE k = "begin" -> {[Sends(<<CommandComplete>>) EXCEPT !.tx = "T"]}
      [] k = "end" ->
            {[Sends(<<CommandComplete>>) EXCEPT !.tx = "I"]} \cup
            (IF has THEN {Throws("error"), [Throws("error") EXCEPT !.tx = "I"]} ELSE {})
      [] k = "deallocate" -> {Deallocate(n) : n \in Names}
      [] k = "deallocateAll" -> {DeallocateAll}
      [] k \in {"environment", "advisory"} -> {Sends(Rows("fixed", withDescription))}
      [] k = "setting" -> {Sends(<<CommandComplete>>)}
      [] k \in {"rejected", "unsupported"} -> {Throws("error")}
      [] UsesDb2(k) /\ ~has -> Failures(k, "noJob")
      [] UsesDb2(k) /\ has -> Failures(k, "error") \cup
            (IF k \in {"write", "call", "searchPath", "ddl"}
             THEN {Sends(<<CommandComplete>>)} ELSE {}) \cup
            {Sends(Rows(shape, withDescription)) : shape \in
                CASE k \in {"select", "call"} -> Shapes
                  [] k \in {"returning", "catalog", "setConfig"} -> {"fixed"}
                  [] OTHER -> {}}

\* The reply to a message: the variants answer a failed query without
\* ReadyForQuery, or leave the session in the error state after it.
AnswerUnready(type, o) ==
    /\ out' = IF o.error # "none" THEN o.sent \o <<ErrorResponse(o.error)>>
              ELSE IF type \in Queries THEN o.sent \o <<ReadyForQuery>> ELSE o.sent
    /\ extendedError' = (extendedError \/ (o.error # "none" /\ type \notin Queries))
Answer(type, o) ==
    /\ out' = o.sent
                \o (IF o.error # "none" THEN <<ErrorResponse(o.error)>> ELSE <<>>)
                \o (IF type \in Queries THEN <<ReadyForQuery>> ELSE <<>>)
    /\ extendedError' = (extendedError \/ (o.error # "none" /\ type \notin Queries))

\* The end of handleMessage: the job stays only with an open transaction.
Settle(type, has, o) ==
    /\ last' = type
    /\ Answer(type, o)
    /\ prepared' = o.prepared /\ portals' = o.portals
    /\ tx' = o.tx
    /\ pinned' = (has /\ o.tx # "I")
    /\ UNCHANGED closed

\* A message for which a job is checked out first or not (the checkout may fail),
\* and the outcomes of its handler.
Handle(type, needs, outcomes) ==
    \/ \E o \in outcomes : Settle(type, pinned \/ needs, o)
    \/ needs /\ ~pinned /\ Settle(type, FALSE, Throws("error"))
-----------------------------------------------------------------------------
(* The messages.                                                           *)

\* Portals refer to their statement by name, so Parse changes what they run.
Outdated(portal, n) ==
    IF portal # NoPortal /\ portal.stmt = n THEN [portal EXCEPT !.fresh = FALSE]
    ELSE portal

Parse ==
    \E n \in Names, k \in ParsedKinds :
        Handle("P", FALSE,
               {[Sends(<<Message("1", "none")>>) EXCEPT
                    !.prepared = [prepared EXCEPT ![n] = k],
                    !.portals = [p \in PortalNames |-> Outdated(portals[p], n)]]})

\* Bind refuses binary results and parameters it cannot decode.
Bind ==
    \E p \in PortalNames, n \in Names :
        Handle("B", FALSE,
               {Throws("error")} \cup
               (IF prepared[n] = "none" THEN {}
                ELSE {[Sends(<<Message("2", "none")>>) EXCEPT
                          !.portals = [portals EXCEPT ![p] = Portal(n)]]}))

\* The Describe of a statement sends its parameters first; it runs no Db2 query and
\* has a job only by an open transaction.
DescribeOutcomes(k) ==
    CASE k = "none" -> {Throws("error")}
      [] OTHER ->
          {[o EXCEPT !.sent = <<Message("t", "none")>> \o @] : o \in
            CASE k \in {"select", "rejected"} -> {Throws("error")}
              [] k = "catalog" /\ ~pinned -> {Throws("noJob")}
              [] k = "catalog" /\ pinned ->
                    {Sends(<<RowDescription("fixed")>>), Throws("error")}
              [] k \in {"advisory", "setConfig", "environment", "returning"} ->
                    {Sends(<<RowDescription("fixed")>>)}
              [] OTHER -> {Sends(<<NoData>>)}}

DescribeStatement ==
    \E n \in Names : Handle("DS", FALSE, DescribeOutcomes(prepared[n]))

\* frontendMessageNeedsBackend for the Describe of a portal.
PortalNeedsBackend(p) ==
    /\ Bound(p)
    /\ KindOf(p) \in MayReturnRows \ {"advisory", "setConfig", "environment"}

\* The Describe of a portal runs a read, in any state of the transaction, and
\* keeps its result.
DescribePortal ==
    \E p \in PortalNames :
        LET has == pinned \/ PortalNeedsBackend(p)
        IN Handle("DP", PortalNeedsBackend(p),
             IF ~Bound(p) \/ KindOf(p) \in {"none", "rejected"} THEN {Throws("error")} ELSE
             CASE KindOf(p) \in {"select", "catalog"} /\ ~has ->
                     Failures(KindOf(p), "noJob")
               [] KindOf(p) = "select" /\ has ->
                     {DescribedAs(p, shape, shape) : shape \in Shapes}
                         \cup {DbError("error")}
               [] KindOf(p) = "catalog" /\ has ->
                     {DescribedAs(p, "fixed", "fixed"), Throws("error")}
               [] KindOf(p) = "environment" -> {DescribedAs(p, "fixed", "fixed")}
               [] KindOf(p) = "setting" -> {DescribedAs(p, "noData", "noData")}
               [] KindOf(p) \in {"advisory", "setConfig", "returning"} ->
                     {DescribedAs(p, "fixed", portals[p].replay)}
               [] OTHER -> {DescribedAs(p, "noData", portals[p].replay)})

\* frontendMessageNeedsBackend for Execute; the variant leaves out what the
\* Describe of the portal answers without a job.
ExecuteNeedsLess(p) ==
    /\ Bound(p) /\ KindOf(p) # "none" /\ ~Replayed(p)
    /\ KindOf(p) \notin {"environment", "setting", "advisory", "setConfig"}
ExecuteNeedsBackend(p) ==
    /\ Bound(p) /\ KindOf(p) # "none" /\ ~Replayed(p)
    /\ KindOf(p) \notin {"environment", "setting", "advisory"}

\* executePortal.
Replay(shape, withDescription) ==
    IF shape = "noData" THEN <<CommandComplete>> ELSE Rows(shape, withDescription)
RunPortal(p, has) ==
    IF ~Bound(p) \/ KindOf(p) = "none" THEN {Throws("error")}
    ELSE IF Replayed(p) THEN {Sends(Replay(portals[p].replay, ~Described(p)))}
    ELSE ExecuteSql(KindOf(p), has, ~Described(p))

ExecutePortal ==
    \E p \in PortalNames :
        Handle("E", ExecuteNeedsBackend(p),
               RunPortal(p, pinned \/ ExecuteNeedsBackend(p)))

Close ==
    \/ \E n \in Names :
          Handle("C", FALSE,
                 {[Sends(<<Message("3", "none")>>) EXCEPT
                      !.prepared = [prepared EXCEPT ![n] = "none"]]})
    \/ \E p \in PortalNames :
          Handle("C", FALSE,
                 {[Sends(<<Message("3", "none")>>) EXCEPT
                      !.portals = [portals EXCEPT ![p] = NoPortal]]})

\* A body that cannot be decoded, a Flush, a type the proxy does not know.
Garbled == Handle("P", FALSE, {Throws("error")})
Flush == Handle("H", FALSE, {Stay})
Unsupported == Handle("other", FALSE, {Sends(<<ErrorResponse("error")>>)})

Extended == \/ Parse \/ Bind \/ DescribeStatement \/ DescribePortal
            \/ ExecutePortal \/ Close \/ Garbled \/ Flush \/ Unsupported
-----------------------------------------------------------------------------
\* queryNeedsBackend; a batch needs a job when one of its statements does.
QueryNeedsBackend(k) ==
    CASE k \in Local \cup {"begin", "owner", "unsupported", "empty"} -> FALSE
      [] k \in {"end", "rollbackTo"} -> pinned
      [] k = "savepoint" -> tx = "T"
      [] OTHER -> tx # "E"

\* The errors, before or after the first statement of a batch was acknowledged.
Partly(errors) ==
    errors \cup {[o EXCEPT !.sent = <<CommandComplete>>] : o \in errors}
AllDone == Sends(<<CommandComplete, CommandComplete>>)

\* What a whole batch may be taken for: statements that are recognised by how they
\* begin, and queries by what is anywhere in them; any other is refused.
TakenFor == {"begin", "end", "setting", "searchPath", "setConfig", "catalog",
             "environment", "rejected"}

\* A batch.  Its DDL is run, and committed, one by one; catalog queries are not
\* tested for a failed transaction; of any other batch executeSql gets the text as
\* a whole: translateSql refuses it unless an earlier test has taken it for one
\* statement.
ExecuteBatch(k, has) ==
    CASE k = "tables" /\ tx = "E" -> Partly({Throws("error")})
      [] k = "tables" /\ tx # "E" ->
            Partly({Throws("error"), DbError("error")}) \cup {AllDone}
      [] k = "schemas" /\ ~has -> Partly({Throws("error"), DbError("noJob")})
      [] k = "schemas" /\ has ->
            Partly({Throws("error"), DbError("error")}) \cup {AllDone}
      [] k = "catalogs" /\ ~has -> {Throws("noJob")}
      [] k = "catalogs" /\ has ->
            {Throws("error"), Sends(Rows("fixed", TRUE) \o Rows("fixed", TRUE))}
      [] k = "others" ->
            UNION {ExecuteSql(f, has, TRUE) : f \in TakenFor}

SimpleQuery ==
    \E k \in QueryKinds :
        LET has == pinned \/ QueryNeedsBackend(k)
        IN Handle(IF k \in Batches THEN "batch" ELSE "Q", QueryNeedsBackend(k),
                  CASE k = "empty" -> {Sends(<<Message("I", "none")>>)}
                    [] k \in Batches -> ExecuteBatch(k, has)
                    [] OTHER -> ExecuteSql(k, has, TRUE))

Sync ==
    /\ last' = "S"
    /\ out' = <<ReadyForQuery>>
    /\ extendedError' = FALSE
    /\ UNCHANGED <<prepared, portals, tx, pinned, closed>>

\* Terminate and the end of the socket: close() releases the job.
Shut(type) ==
    /\ closed' = TRUE
    /\ pinned' = FALSE
    /\ last' = type
    /\ out' = <<>>
    /\ UNCHANGED <<prepared, portals, extendedError, tx>>

\* A message that is skipped until Sync, or that comes after close().
Quietly(why) ==
    /\ last' = why
    /\ out' = <<>>
    /\ UNCHANGED <<prepared, portals, extendedError, tx, pinned, closed>>

\* One turn of the loop of handleRaw for a message of this type; the variant
\* skips Sync with the others.
SkipsSyncToo(type) == extendedError /\ type # "X"
SkipsUntilSync(type) == extendedError /\ type \notin {"S", "X"}

HandleMessage(type) ==
    \/ SkipsUntilSync(type) /\ Quietly("skipped")
    \/ ~SkipsUntilSync(type) /\ closed /\ Quietly("ignored")
    \/ /\ ~SkipsUntilSync(type) /\ ~closed
       /\ \/ type = "Q" /\ SimpleQuery
          \/ type = "M" /\ Extended
          \/ type = "S" /\ Sync
          \/ type = "X" /\ Shut("X")
          \/ type \notin {"Q", "M", "S", "X"} /\ Unsupported
-----------------------------------------------------------------------------
(* Properties.                                                             *)

Readies(ms) == {i \in 1 .. Len(ms) : ms[i].type = "Z"}

\* A client that has sent Query or Sync gets exactly one ReadyForQuery for it,
\* as the last message, whether the handler or the checkout before it failed;
\* no other message gets one.  A client counts them to know where it is.
OneReadyPerRequest ==
    /\ last \in Queries \cup {"S"} => Readies(out) = {Len(out)}
    /\ last \notin Queries \cup {"S"} => Readies(out) = {}

\* The rows a client gets for Execute have the columns it was told: by a
\* RowDescription just before them or by the Describe of the portal, however
\* often the table changed meanwhile.  Two cases escape: the name of the
\* portal's statement was parsed again as another one, and a statement that the
\* Describe took for one without rows.
RowsMatchDescription ==
    last = "E" =>
        \A i \in 1 .. Len(out) : out[i].type = "D" =>
            \/ \E j \in 1 .. i - 1 : out[j] = RowDescription(out[i].info)
            \/ \E p \in PortalNames :
                  /\ Bound(p)
                  /\ \/ portals[p].told = out[i].info
                     \/ ~portals[p].fresh
                     \/ portals[p].told = "noData" /\ KindOf(p) = "call"

\* A handler that comes to currentJob() has a job: what frontendMessageNeedsBackend
\* decides from the text agrees with what the handler then does, for every kind,
\* portal and transaction state.  It has none where none was checked out on purpose:
\* for the Describe of a prepared statement, and for a Query in a transaction that
\* never had a job, when the transaction has failed or the Query is a ROLLBACK TO (of
\* a savepoint that cannot be there).
LeasesCoverHandlers ==
    [][\A i \in 1 .. Len(out') :
          /\ out'[i].info = "noJob" =>
                last' = "DS" \/ (last' \in Queries /\ tx = "E" /\ ~pinned)
          /\ out'[i].info = "noSavepoint" =>
                last' \in Queries /\ tx # "I" /\ ~pinned]_handlers

Dangling(p) == Bound(p) /\ prepared[portals[p].stmt] = "none"

\* "Named DEALLOCATE removes the named statement and portals bound to it": a
\* portal loses its statement by the Close of the statement only.
OnlyCloseDangles ==
    [][\A p \in PortalNames : Dangling(p)' => Dangling(p) \/ last' = "C"]_handlers
=============================================================================
