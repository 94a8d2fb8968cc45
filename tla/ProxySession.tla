---------------------------- MODULE ProxySession ----------------------------
(***************************************************************************)
(* Logical PostgreSQL sessions sharing the jobs of the pool in transaction *)
(* lease mode, src/src/proxy/session.ts.                                   *)
(*                                                                         *)
(* Each session handles its messages one after another (handleRaw chains   *)
(* them), but the socket may close, and close() run, between any two       *)
(* awaits.  pc[s] names the await the running command is suspended at:     *)
(*   "ready"       no command is being handled                             *)
(*   "acquiring"   ensureBackendJob: pool.acquire()                        *)
(*   "preparing"   ensureBackendJob: a statement of pool.prepareSchema()   *)
(*   "replaying"   ensureBackendJob: SET CURRENT SCHEMA                    *)
(*   "settling"    ensureBackendJob: COMMIT of the replay                  *)
(*   "choosing"    applySearchPath: a statement of pool.prepareSchema()    *)
(*   "switching"   applySearchPath: SET CURRENT SCHEMA                     *)
(*   "reading"     a catalog query, or VALUES CURRENT SCHEMA               *)
(*   "executing"   the statement of the command                            *)
(*   "committing"  its COMMIT outside a transaction                        *)
(*   "undoing"     the ROLLBACK after it failed outside a transaction      *)
(*   "marking"     SAVEPOINT, RELEASE SAVEPOINT or ROLLBACK TO             *)
(*   "ending"      COMMIT or ROLLBACK of the client                        *)
(*   "releasing"   releaseBackendIfIdle: pool.release()                    *)
(* A Mapepire job answers its requests in the order they were sent, so     *)
(* queue[j] holds the outstanding ones and a step takes effect, on Db2 and *)
(* on its sender, when its request is the first.                           *)
(*                                                                         *)
(* The pool appears as what it does to jobs: the two statements of         *)
(* release(), the replacement of broken jobs, and acquire() as the choice  *)
(* of any job it may hand out.  JobLeases is the contract between the two. *)
(***************************************************************************)
EXTENDS Naturals, FiniteSets, Sequences, SequencesExt

CONSTANTS Sessions,     \* logical sessions, each with a schema of its own
          Jobs,         \* the jobs of the pool
          NoJob,        \* "undefined"
          Default,      \* IBMI_CURRENT_SCHEMA
          Commands,     \* the kinds of command that clients send
          MidCommand    \* may a client disconnect while a command runs?

\* sql: any other SQL that reaches Db2.  ddl: such SQL that the proxy prepares
\* with catalog queries (CREATE INDEX, ADD COLUMN NOT NULL).  catalog: a query of
\* PostgreSQL's catalogs, answered from those of IBM i.  searchPath: SET or RESET
\* of the session's search_path, by SET or set_config().  reject: refused by the
\* proxy after the checkout (firewall, SET, translation).  local: answered
\* without Db2.  RELEASE SAVEPOINT is handled as SAVEPOINT is, a read that the
\* Describe of a portal executes as CREATE SCHEMA.
CommandKinds == {"begin", "commit", "rollback", "savepoint", "rollbackTo", "createSchema",
                 "sql", "ddl", "catalog", "searchPath", "reject", "local"}

ASSUME SessionsAssumption ==
    /\ IsFiniteSet(Sessions) /\ IsFiniteSet(Jobs)
    /\ NoJob \notin Jobs /\ Default \notin Sessions
    /\ MidCommand \in BOOLEAN
    /\ Commands \subseteq CommandKinds

VARIABLES
    pc,      \* the await each session is suspended at
    cmd,     \* the command each session handles
    job,     \* this.job
    inTx,    \* this.inTransaction
    failed,  \* this.transactionFailed
    closed,  \* this.closed
    queue,   \* the requests each job has not answered
    schema,  \* the session whose schema is CURRENT SCHEMA of each job
    work,    \* the sessions with uncommitted work in each job, and Gone
    broken,  \* jobs that lost their connection or were closed
    erred,   \* sessions whose last command failed inside a transaction
    acked,   \* sessions told that work in their open transaction succeeded
    kept     \* sessions whose transaction's work was committed

fields == <<cmd, inTx, failed, closed>>
backend == <<schema, work, broken>>
history == <<erred, acked, kept>>
vars == <<pc, cmd, job, inTx, failed, closed, queue, schema, work, broken,
          erred, acked, kept>>
-----------------------------------------------------------------------------
InFlightPCs == {"preparing", "replaying", "settling", "choosing", "switching", "reading",
                "executing", "committing", "undoing", "marking", "ending"}
PCs == InFlightPCs \cup {"ready", "acquiring", "releasing"}

\* A request of session s's own command, or of the release() of its job.
Own(s) == [by |-> s, op |-> "own"]
Rollback(s) == [by |-> s, op |-> "ROLLBACK"]
Reset(s) == [by |-> s, op |-> "RESET"]
Requests == [by : Sessions, op : {"own", "ROLLBACK", "RESET"}]

\* The author of work done on a job for a client that had disconnected before.
Gone == Default

TypeOK ==
    /\ pc \in [Sessions -> PCs]
    /\ cmd \in [Sessions -> CommandKinds \cup {"none"}]
    /\ job \in [Sessions -> Jobs \cup {NoJob}]
    /\ inTx \in [Sessions -> BOOLEAN]
    /\ failed \in [Sessions -> BOOLEAN]
    /\ closed \in [Sessions -> BOOLEAN]
    /\ queue \in [Jobs -> Seq(Requests)]
    /\ schema \in [Jobs -> Sessions \cup {Default}]
    /\ work \in [Jobs -> SUBSET (Sessions \cup {Gone})]
    /\ broken \in SUBSET Jobs
    /\ erred \in SUBSET Sessions
    /\ acked \in SUBSET Sessions
    /\ kept \in SUBSET Sessions

Init ==
    /\ pc = [s \in Sessions |-> "ready"]
    /\ cmd = [s \in Sessions |-> "none"]
    /\ job = [s \in Sessions |-> NoJob]
    /\ inTx = [s \in Sessions |-> FALSE]
    /\ failed = [s \in Sessions |-> FALSE]
    /\ closed = [s \in Sessions |-> FALSE]
    /\ queue = [j \in Jobs |-> <<>>]
    /\ schema = [j \in Jobs |-> Default]
    /\ work = [j \in Jobs |-> {}]
    /\ broken = {}
    /\ erred = {} /\ acked = {} /\ kept = {}
-----------------------------------------------------------------------------
(* Steps that several commands share.                                      *)

Goto(s, p) == pc' = [pc EXCEPT ![s] = p]

Send(q, j, r) == [q EXCEPT ![j] = Append(@, r)]

\* Request r is the one job j answers next; the queue without it.
Answers(j, r) == queue[j] # <<>> /\ Head(queue[j]) = r
Popped(j) == [queue EXCEPT ![j] = Tail(@)]

\* release(j) sends ROLLBACK first; the variant goes straight to the schema.
\* A broken job is closed instead.
ResetOnly(q, j, s) == IF j \in broken THEN q ELSE Send(q, j, Reset(s))
GiveBack(q, j, s) == IF j \in broken THEN q ELSE Send(q, j, Rollback(s))

\* The test of releaseBackendIfIdle; the variant ignores the transaction.
AnyJob(s) == job[s] # NoJob
IdleJob(s) == job[s] # NoJob /\ ~inTx'[s]

\* The end of handleMessage with reply r: the finally block gives the job back
\* unless a transaction is open.  q is the queue the command leaves.
Finish(s, q, r) ==
    /\ erred' = IF r = "error" /\ inTx'[s] THEN erred \cup {s} ELSE erred \ {s}
    /\ cmd' = [cmd EXCEPT ![s] = "none"]
    /\ \/ /\ IdleJob(s)
          /\ job' = [job EXCEPT ![s] = NoJob]
          /\ queue' = GiveBack(q, job[s], s)
          /\ Goto(s, IF job[s] \in broken THEN "ready" ELSE "releasing")
       \/ /\ ~IdleJob(s)
          /\ queue' = q
          /\ Goto(s, "ready")
          /\ UNCHANGED job

\* Command k comes to this.currentJob().execute(...) and an await at p.
Issue(s, k, q, p) ==
    /\ job[s] # NoJob
    /\ cmd' = [cmd EXCEPT ![s] = k]
    /\ queue' = Send(q, job[s], Own(s))
    /\ Goto(s, p)
    /\ UNCHANGED <<job, erred>>
-----------------------------------------------------------------------------
(* executeSql up to its first await, entered with queue q, when the work   *)
(* of the sessions in d has been committed.                                *)

\* What the proxy turns down itself, SQL of a failed transaction (25P02)
\* included; CREATE SCHEMA and ROLLBACK TO come before the test, and Describe
\* passes it by.
Refused(s, k) ==
    \/ k = "reject"
    \/ k = "savepoint" /\ (~inTx[s] \/ failed[s])
    \/ k = "rollbackTo" /\ ~inTx[s]
    \/ k \in {"sql", "ddl", "searchPath", "begin"} /\ failed[s]

Begin(s, q, d) ==
    /\ inTx' = [inTx EXCEPT ![s] = TRUE]
    /\ kept' = d \ {s}
    /\ Finish(s, q, "ok")
    /\ UNCHANGED <<failed, acked>>

LeaveTransaction(s) ==
    /\ inTx' = [inTx EXCEPT ![s] = FALSE]
    /\ failed' = [failed EXCEPT ![s] = FALSE]
    /\ acked' = acked \ {s}

\* COMMIT or ROLLBACK of a session that has no job.
EndLocally(s, q, d) ==
    /\ job[s] = NoJob
    /\ LeaveTransaction(s)
    /\ kept' = d
    /\ Finish(s, q, "ok")

\* The command is answered with r and no more; an error thrown outside the
\* try blocks of the handlers does not fail the transaction.
Answer(s, q, d, r) ==
    /\ kept' = d
    /\ UNCHANGED <<inTx, failed, acked>>
    /\ Finish(s, q, r)

\* An error caught by the handler of a Db2 statement: it fails the transaction.
Abort(s, q, d) ==
    /\ failed' = [failed EXCEPT ![s] = inTx[s]]
    /\ kept' = d
    /\ UNCHANGED <<inTx, acked>>
    /\ Finish(s, q, "error")

\* The awaits a command that reaches Db2 comes to; prepareSchema() has none when
\* the schema is in its cache.
AwaitsOf(k) ==
    CASE k \in {"commit", "rollback"} -> {"ending"}
      [] k \in {"savepoint", "rollbackTo"} -> {"marking"}
      [] k \in {"ddl", "catalog"} -> {"reading"}
      [] k \in {"sql", "createSchema"} -> {"executing"}
      [] k = "searchPath" -> {"choosing", "switching"}

Dispatch(s, k, q, d) ==
    \/ k \in {"local", "catalog"} /\ \E r \in {"ok", "error"} : Answer(s, q, d, r)
    \/ Refused(s, k) /\ Answer(s, q, d, "error")
    \/ k = "begin" /\ ~failed[s] /\ Begin(s, q, d)
    \/ k \in {"commit", "rollback"} /\ EndLocally(s, q, d)
    \/ /\ k \notin {"begin", "local"} /\ ~Refused(s, k)
       /\ kept' = d
       /\ UNCHANGED <<inTx, failed, acked>>
       /\ \E p \in AwaitsOf(k) : Issue(s, k, q, p)
    \/ \* currentJob() throws inside the try block of the command.
       /\ k \in {"savepoint", "rollbackTo", "sql", "createSchema"} /\ ~Refused(s, k)
       /\ job[s] = NoJob
       /\ Abort(s, q, d)
    \/ \* It throws outside a try block: catalog queries, applySearchPath.
       /\ k \in {"ddl", "searchPath"} /\ ~Refused(s, k)
       /\ job[s] = NoJob
       /\ Answer(s, q, d, "error")
-----------------------------------------------------------------------------
(* handleMessage and ensureBackendJob.                                     *)

\* queryNeedsBackend: a Simple Query leases only what can reach IBM i.
QueryNeedsBackend(s, k) ==
    /\ k \notin {"local", "begin"}
    /\ k \in {"commit", "rollback", "rollbackTo"} => job[s] # NoJob
    /\ k \in {"savepoint", "sql", "ddl", "createSchema", "catalog", "searchPath", "reject"}
          => ~failed[s]
    /\ k = "savepoint" => inTx[s]

\* The message of the command: Query, Execute (or Describe of a portal), or the
\* Describe of a statement, which comes to Db2 with a catalog query only.
Messages(k) == IF k = "catalog" THEN {"Q", "E", "D"} ELSE {"Q", "E"}

\* frontendMessageNeedsBackend: no lease for the Describe of a statement.
NeedsBackend(s, k, msg) ==
    \/ msg = "Q" /\ QueryNeedsBackend(s, k)
    \/ msg = "E" /\ k # "local"

Handle(s, k, msg) ==
    /\ pc[s] = "ready" /\ ~closed[s]
    /\ job[s] # NoJob \/ ~NeedsBackend(s, k, msg)
    /\ Dispatch(s, k, queue, kept)
    /\ UNCHANGED <<closed, backend>>

Checkout(s, k, msg) ==
    /\ pc[s] = "ready" /\ ~closed[s]
    /\ job[s] = NoJob /\ NeedsBackend(s, k, msg)
    /\ cmd' = [cmd EXCEPT ![s] = k]
    /\ Goto(s, "acquiring")
    /\ UNCHANGED <<job, inTx, failed, closed, queue, backend, history>>

\* What the pool may hand out: a job nobody holds, released to the end.  The
\* variant forgets that a job is leased.
NotInRelease(j) == \A r \in ToSet(queue[j]) : r.op = "own"
Available(j) ==
    /\ \A r \in ToSet(queue[j]) : r.op = "own"
    /\ \A t \in Sessions : job[t] # j

\* acquire() resolves.  prepareSchema() answers from its cache or asks Db2.
Acquired(s, j) ==
    /\ pc[s] = "acquiring"
    /\ j \notin broken /\ Available(j)
    /\ job' = [job EXCEPT ![s] = j]
    /\ queue' = Send(queue, j, Own(s))
    /\ Goto(s, "preparing") \/ Goto(s, "replaying")
    /\ UNCHANGED <<fields, backend, history>>

\* ensureBackendJob threw, outside the try block of handleMessage.
Fail(s, q) ==
    /\ erred' = IF inTx[s] THEN erred \cup {s} ELSE erred
    /\ cmd' = [cmd EXCEPT ![s] = "none"]
    /\ queue' = q
    /\ Goto(s, "ready")

\* The acquire timer, a connection that fails, a pool that is ending; the
\* variant waits without a timer.
NeverFails(s) == FALSE /\ UNCHANGED vars
AcquireFails(s) ==
    /\ pc[s] = "acquiring"
    /\ Fail(s, queue)
    /\ UNCHANGED <<inTx, failed, closed, job, backend, acked, kept>>

\* CREATE SCHEMA of prepareSchema(), outside a transaction only, on the job that
\* it captured: nobody's work when close() has given that job back meanwhile.
CreatesSchema(s, j) ==
    /\ ~inTx[s]
    /\ work' = [work EXCEPT ![j] = @ \cup {IF job[s] = j THEN s ELSE Gone}]

\* The next statement of prepareSchema(), in ensureBackendJob or applySearchPath.
PrepareGoesOn(s, j) ==
    /\ pc[s] \in {"preparing", "choosing"} /\ Answers(j, Own(s)) /\ j \notin broken
    /\ UNCHANGED work \/ CreatesSchema(s, j)
    /\ queue' = Send(Popped(j), j, Own(s))
    /\ UNCHANGED <<pc, fields, job, schema, broken, history>>

Prepared(s, j) ==
    /\ pc[s] = "preparing" /\ Answers(j, Own(s)) /\ j \notin broken
    /\ queue' = Send(Popped(j), j, Own(s))
    /\ Goto(s, "replaying")
    /\ UNCHANGED <<fields, job, backend, history>>

\* SET CURRENT SCHEMA of the checkout; the variants trust the job's schema and
\* set one that is undefined.
SchemaUndefined(s, j) == schema' = [schema EXCEPT ![j] = NoJob]
SchemaTrusted(s, j) == UNCHANGED schema
SetSchema(s, j) == schema' = [schema EXCEPT ![j] = s]

Replayed(s, j) ==
    /\ pc[s] = "replaying" /\ Answers(j, Own(s)) /\ j \notin broken
    /\ SetSchema(s, j)
    /\ queue' = Send(Popped(j), j, Own(s))
    /\ Goto(s, "settling")
    /\ UNCHANGED <<fields, job, work, broken, history>>

\* COMMIT ends the unit of work of job j and keeps it, whoever did it.
Committed(j) == kept \cup {t \in work[j] \ {Gone} : inTx[t]}
Ended(j) == work' = [work EXCEPT ![j] = {}]

\* The replay's COMMIT; the command goes on.
Settled(s, j) ==
    /\ pc[s] = "settling" /\ Answers(j, Own(s)) /\ j \notin broken
    /\ Ended(j)
    /\ Dispatch(s, cmd[s], Popped(j), Committed(j))
    /\ UNCHANGED <<closed, schema, broken>>

\* Job j is closed or lost: Db2 rolls its unit of work back.
Discarded(j) ==
    /\ broken' = broken \cup {j}
    /\ Ended(j)

\* The session lets go of the job it captured, if it still is its own; the
\* variant keeps it.
Keep(s, j) == UNCHANGED job
Forget(s, j) == job' = [job EXCEPT ![s] = IF @ = j THEN NoJob ELSE @]

\* The catch block of ensureBackendJob invalidates that job.
CheckoutFails(s, j) ==
    /\ pc[s] \in {"preparing", "replaying", "settling"} /\ Answers(j, Own(s))
    /\ Discarded(j)
    /\ Forget(s, j)
    /\ Fail(s, Popped(j))
    /\ UNCHANGED <<inTx, failed, closed, schema, acked, kept>>
-----------------------------------------------------------------------------
(* executeSql after its first await.                                       *)

\* The statement succeeded: outside a transaction it is committed before the
\* client is told.  The variant commits inside one too.
CommitAlways(s, j) ==
    \/ Issue(s, cmd[s], Popped(j), "committing")
    \/ job[s] = NoJob /\ Finish(s, Popped(j), "error")
CommitFirst(s, j) ==
    \/ inTx[s] /\ Finish(s, Popped(j), "ok")
    \/ ~inTx[s] /\ Issue(s, cmd[s], Popped(j), "committing")
    \/ ~inTx[s] /\ job[s] = NoJob /\ Finish(s, Popped(j), "error")

Executed(s, j) ==
    /\ pc[s] = "executing" /\ Answers(j, Own(s)) /\ j \notin broken
    /\ work' = [work EXCEPT ![j] = @ \cup {s}]
    /\ acked' = IF inTx[s] THEN acked \cup {s} ELSE acked
    /\ UNCHANGED <<inTx, failed, closed, schema, broken, kept>>
    /\ CommitFirst(s, j)

\* The command goes on with another request; currentJob() throws when the session
\* was closed meanwhile.
IssueNext(s, k, j, p) ==
    \/ Issue(s, k, Popped(j), p) /\ UNCHANGED <<inTx, failed, acked, kept>>
    \/ job[s] = NoJob /\ Answer(s, Popped(j), kept, "error")

\* applySearchPath: prepareSchema() is over, SET CURRENT SCHEMA follows.
PathPrepared(s, j) ==
    /\ pc[s] = "choosing" /\ Answers(j, Own(s)) /\ j \notin broken
    /\ IssueNext(s, "searchPath", j, "switching")
    /\ UNCHANGED <<closed, backend>>

\* The schema of the session, and of its job, is the one that was asked for.
PathSet(s, j) ==
    /\ pc[s] = "switching" /\ Answers(j, Own(s)) /\ j \notin broken
    /\ SetSchema(s, j)
    /\ IssueNext(s, "searchPath", j, "reading")
    /\ UNCHANGED <<closed, work, broken>>

\* A query of the proxy is answered; several catalog queries count as one.  Unless
\* it prepares a statement, its COMMIT outside a transaction comes before the
\* answer to the client.
Read(s, j) ==
    /\ pc[s] = "reading" /\ Answers(j, Own(s)) /\ j \notin broken
    /\ \/ cmd[s] = "ddl" /\ IssueNext(s, "sql", j, "executing")
       \/ cmd[s] # "ddl" /\ ~inTx[s] /\ IssueNext(s, cmd[s], j, "committing")
       \/ cmd[s] # "ddl" /\ inTx[s] /\ Answer(s, Popped(j), kept, "ok")
    /\ UNCHANGED <<closed, backend>>

\* No try block surrounds them: the error fails the command, not the transaction.
ReadFails(s, j) ==
    /\ pc[s] \in {"choosing", "switching", "reading"} /\ Answers(j, Own(s))
    /\ Answer(s, Popped(j), kept, "error")
    /\ UNCHANGED <<closed, backend>>

\* Outside a transaction, ROLLBACK follows, if the session still has its job.
UndoOrStop(s, j) ==
    /\ UNCHANGED <<inTx, failed, acked, kept>>
    /\ \/ Issue(s, cmd[s], Popped(j), "undoing")
       \/ job[s] = NoJob /\ Finish(s, Popped(j), "error")

ExecuteFails(s, j) ==
    /\ pc[s] = "executing" /\ Answers(j, Own(s))
    /\ \/ inTx[s] /\ Abort(s, Popped(j), kept)
       \/ ~inTx[s] /\ UndoOrStop(s, j)
    /\ UNCHANGED <<closed, backend>>

Autocommitted(s, j) ==
    /\ pc[s] = "committing" /\ Answers(j, Own(s)) /\ j \notin broken
    /\ Ended(j)
    /\ Answer(s, Popped(j), Committed(j), "ok")
    /\ UNCHANGED <<closed, schema, broken>>

AutocommitFails(s, j) ==
    /\ pc[s] = "committing" /\ Answers(j, Own(s))
    /\ \/ cmd[s] \notin {"catalog", "searchPath"} /\ UndoOrStop(s, j)
       \/ cmd[s] \in {"catalog", "searchPath"} /\ Answer(s, Popped(j), kept, "error")
    /\ UNCHANGED <<closed, backend>>

\* The ROLLBACK is best effort: the command fails either way.
Undone(s, j) ==
    /\ pc[s] = "undoing" /\ Answers(j, Own(s))
    /\ Ended(j)
    /\ Answer(s, Popped(j), kept, "error")
    /\ UNCHANGED <<closed, schema, broken>>

\* What COMMIT of the client sends; the variant commits a failed transaction.
CommitsAnyway(s) == cmd[s] = "commit"
Commits(s) == cmd[s] = "commit" /\ ~failed[s]

TransactionEnded(s, j) ==
    /\ pc[s] = "ending" /\ Answers(j, Own(s)) /\ j \notin broken
    /\ kept' = IF Commits(s) THEN Committed(j) ELSE kept
    /\ Ended(j)
    /\ LeaveTransaction(s)
    /\ Finish(s, Popped(j), "ok")
    /\ UNCHANGED <<closed, schema, broken>>

\* ROLLBACK is refused by a lost connection only.  The error is thrown before
\* the transaction state is reset.
EndingFails(s, j) ==
    /\ pc[s] = "ending" /\ Answers(j, Own(s))
    /\ Commits(s) \/ j \in broken
    /\ Answer(s, Popped(j), kept, "error")
    /\ UNCHANGED <<closed, backend>>

\* ROLLBACK TO revives a failed transaction; its savepoint keeps earlier work.
Marked(s, j) ==
    /\ pc[s] = "marking" /\ Answers(j, Own(s)) /\ j \notin broken
    /\ failed' = [failed EXCEPT ![s] = @ /\ cmd[s] # "rollbackTo"]
    /\ UNCHANGED <<inTx, closed, backend, acked, kept>>
    /\ Finish(s, Popped(j), "ok")

MarkingFails(s, j) ==
    /\ pc[s] = "marking" /\ Answers(j, Own(s))
    /\ failed' = [failed EXCEPT ![s] = TRUE]
    /\ UNCHANGED <<inTx, closed, backend, acked, kept>>
    /\ Finish(s, Popped(j), "error")
-----------------------------------------------------------------------------
(* close(), and what the pool and Db2 do.                                  *)

\* Terminate, the end of the socket, or the shutdown of the proxy.
Close(s) ==
    /\ ~closed[s] /\ (MidCommand \/ pc[s] = "ready")
    /\ closed' = [closed EXCEPT ![s] = TRUE]
    /\ job' = [job EXCEPT ![s] = NoJob]
    /\ queue' = IF job[s] = NoJob THEN queue ELSE GiveBack(queue, job[s], s)
    /\ UNCHANGED <<pc, cmd, inTx, failed, backend, history>>

\* A new client takes the identity of one that left nothing behind.
Connect(s) ==
    /\ closed[s] /\ pc[s] = "ready" /\ job[s] = NoJob
    /\ \A j \in Jobs : \A r \in ToSet(queue[j]) : r.by # s
    /\ closed' = [closed EXCEPT ![s] = FALSE]
    /\ inTx' = [inTx EXCEPT ![s] = FALSE]
    /\ failed' = [failed EXCEPT ![s] = FALSE]
    /\ acked' = acked \ {s}
    /\ kept' = kept \ {s}
    /\ erred' = erred \ {s}
    /\ UNCHANGED <<pc, cmd, job, queue, backend>>

\* release() resolves for the session that called it.
Returned(s) == Goto(s, IF pc[s] = "releasing" THEN "ready" ELSE pc[s])

RolledBack(s, j) ==
    /\ Answers(j, Rollback(s)) /\ j \notin broken
    /\ Ended(j)
    /\ queue' = Send(Popped(j), j, Reset(s))
    /\ UNCHANGED <<pc, fields, job, schema, broken, history>>

SchemaReset(s, j) ==
    /\ Answers(j, Reset(s)) /\ j \notin broken
    /\ schema' = [schema EXCEPT ![j] = Default]
    /\ queue' = Popped(j)
    /\ Returned(s)
    /\ UNCHANGED <<fields, job, work, broken, history>>

\* release() of a job that broke under it invalidates the job.
ReleaseFails(s, j) ==
    /\ Answers(j, Rollback(s)) \/ Answers(j, Reset(s))
    /\ j \in broken
    /\ queue' = Popped(j)
    /\ Returned(s)
    /\ UNCHANGED <<fields, job, backend, history>>

\* The connection of job j is lost.
Break(j) ==
    /\ j \notin broken
    /\ Discarded(j)
    /\ UNCHANGED <<pc, fields, job, queue, schema, history>>

\* The pool connects a new job in the place of one that nobody refers to.
Replace(j) ==
    /\ j \in broken /\ queue[j] = <<>>
    /\ \A s \in Sessions : job[s] # j
    /\ broken' = broken \ {j}
    /\ schema' = [schema EXCEPT ![j] = Default]
    /\ UNCHANGED <<pc, fields, job, queue, work, history>>
-----------------------------------------------------------------------------
\* An answer of job j to the command of session s.
Answered(s, j) ==
    \/ Prepared(s, j) \/ Replayed(s, j) \/ Settled(s, j) \/ CheckoutFails(s, j)
    \/ PathPrepared(s, j) \/ PathSet(s, j) \/ Read(s, j) \/ ReadFails(s, j)
    \/ Executed(s, j) \/ ExecuteFails(s, j)
    \/ Autocommitted(s, j) \/ AutocommitFails(s, j) \/ Undone(s, j)
    \/ TransactionEnded(s, j) \/ EndingFails(s, j)
    \/ Marked(s, j) \/ MarkingFails(s, j)

Released(s, j) == RolledBack(s, j) \/ SchemaReset(s, j) \/ ReleaseFails(s, j)

Next ==
    \/ \E s \in Sessions :
          \/ \E k \in Commands : \E msg \in Messages(k) : Handle(s, k, msg) \/ Checkout(s, k, msg)
          \/ \E j \in Jobs :
                Acquired(s, j) \/ PrepareGoesOn(s, j) \/ Answered(s, j) \/ Released(s, j)
          \/ AcquireFails(s) \/ Close(s) \/ Connect(s)
    \/ \E j \in Jobs : Break(j) \/ Replace(j)

Spec == Init /\ [][Next]_vars

\* Fairness: every request is answered, by an error when its job is lost, the
\* acquire timer fires, and prepareSchema() has finitely many statements.
FairSpec ==
    /\ Spec
    /\ \A s \in Sessions :
          /\ WF_vars(AcquireFails(s))
          /\ \A j \in Jobs :
                SF_vars(Answered(s, j)) /\ WF_vars(PrepareGoesOn(s, j)) /\ WF_vars(Released(s, j))
-----------------------------------------------------------------------------
\* One logical session per job: acquire() and release() in the middle of other
\* sessions' commands never leave two sessions with the same SQLJob.
OneOwner ==
    \A s, t \in Sessions : job[s] = job[t] /\ s # t => job[s] = NoJob

\* Uncommitted work of a client is on the job its session holds, or on one whose
\* ROLLBACK by release() is still to come: it is never left in a job that another
\* session gets, whenever the client disconnects.  What is done for a client that
\* is gone already, the CREATE SCHEMA of a prepareSchema() that goes on with the
\* job it captured, may stay behind: its ROLLBACK was sent before it.
NoOrphanWork ==
    \A j \in Jobs : \A s \in work[j] \ {Gone} :
        job[s] = j \/ Rollback(s) \in ToSet(queue[j])

\* "A SQLJob is never used concurrently" (docs/CONFIGURATION.md): the
\* outstanding requests of commands on a job come from one session.
NeverConcurrent ==
    \A j \in Jobs : \A s, t \in Sessions :
        {Own(s), Own(t)} \subseteq ToSet(queue[j]) => s = t

\* A client's SQL runs in its own current schema, although the job served
\* other sessions before (the replay of ensureBackendJob).
OwnSchema ==
    \A s \in Sessions, j \in Jobs :
        pc[s] = "executing" /\ Answers(j, Own(s)) /\ j \notin broken => schema[j] = s

\* No statement of an open transaction becomes permanent before its COMMIT:
\* neither an autocommit nor the COMMIT of a replay hits its job.
NoPartialCommit == \A s \in Sessions : inTx[s] => s \notin kept

\* A transaction that ends keeps its acknowledged work if and only if the
\* client asked for COMMIT and the transaction had not failed.
TransactionOutcome ==
    [][\A s \in Sessions :
          inTx[s] /\ ~inTx'[s] /\ ~closed[s] =>
             (s \in kept' <=> cmd[s] = "commit" /\ ~failed[s] /\ s \in acked)]_vars

\* What an open transaction did and was told succeeded is still there to be
\* committed, on the job it has pinned, unless the job was lost.
WorkIsPinned ==
    \A s \in Sessions :
        inTx[s] /\ s \in acked /\ ~closed[s] =>
            job[s] # NoJob /\ (job[s] \in broken \/ s \in work[job[s]])

\* Between commands only an open transaction of a connected client keeps a
\* job; the pool gets it back whatever failed.
IdleHoldsNoJob ==
    \A s \in Sessions :
        pc[s] = "ready" /\ (closed[s] \/ ~inTx[s]) => job[s] = NoJob

\* Every command comes to its end, disconnected clients' commands too.
CommandsEnd == \A s \in Sessions : pc[s] # "ready" ~> pc[s] = "ready"
-----------------------------------------------------------------------------
(* The pool's contract, seen from its callers: they touch leased jobs only.*)

Pool == INSTANCE JobLeases WITH
    Callers <- Sessions,
    MaxSize <- Cardinality(Jobs),
    lease <- job,
    dirty <- {j \in Jobs : work[j] # {} \/ schema[j] # Default}

ObeysLeases == Pool!LeasesSpec
-----------------------------------------------------------------------------
(* What the documentation says of transactions.                            *)

\* "An error inside a transaction sets ReadyForQuery state E".
ErrorFailsTransaction ==
    \A s \in Sessions : s \in erred => failed[s]

\* "Failed --> Idle: ROLLBACK": an answered ROLLBACK leaves no transaction.
RollbackEndsTransaction ==
    [][\A s \in Sessions :
          cmd[s] = "rollback" /\ cmd'[s] = "none" => ~inTx'[s]]_vars
=============================================================================
