------------------------ MODULE ProxySessionProofs ------------------------
(***************************************************************************)
(* Theorems about ProxySession, for any number of sessions and jobs and    *)
(* clients that disconnect at any await: OneOwner, TypeOK, NoOrphanWork.   *)
(***************************************************************************)
EXTENDS ProxySession, TLAPS

JobsType == job \in [Sessions -> Jobs \cup {NoJob}]

\* Session s keeps the job it has or lets go of it; the others are unaffected.
KeepsOrDrops(s) == job' = job \/ job' = [job EXCEPT ![s] = NoJob]

OwnerInv == JobsType /\ OneOwner

-----------------------------------------------------------------------------
(* What the shared steps do to this.job.                                   *)

LEMMA FinishJob ==
    ASSUME NEW s \in Sessions, NEW q, NEW r, Finish(s, q, r)
    PROVE  KeepsOrDrops(s)
BY DEF Finish, KeepsOrDrops

LEMMA IssueJob ==
    ASSUME NEW s \in Sessions, NEW k, NEW q, NEW p, Issue(s, k, q, p)
    PROVE  KeepsOrDrops(s)
BY DEF Issue, KeepsOrDrops

LEMMA AnswerJob ==
    ASSUME NEW s \in Sessions, NEW q, NEW d, NEW r, Answer(s, q, d, r)
    PROVE  KeepsOrDrops(s)
BY FinishJob DEF Answer

LEMMA AbortJob ==
    ASSUME NEW s \in Sessions, NEW q, NEW d, Abort(s, q, d)
    PROVE  KeepsOrDrops(s)
BY FinishJob DEF Abort

LEMMA IssueNextJob ==
    ASSUME NEW s \in Sessions, NEW k, NEW j \in Jobs, NEW p, IssueNext(s, k, j, p)
    PROVE  KeepsOrDrops(s)
BY IssueJob, AnswerJob DEF IssueNext

LEMMA DispatchJob ==
    ASSUME NEW s \in Sessions, NEW k, NEW q, NEW d, Dispatch(s, k, q, d)
    PROVE  KeepsOrDrops(s)
<1>1. CASE \E r \in {"ok", "error"} : Answer(s, q, d, r)
    BY <1>1, AnswerJob
<1>2. CASE Answer(s, q, d, "error")
    BY <1>2, AnswerJob
<1>3. CASE Begin(s, q, d)
    BY <1>3, FinishJob DEF Begin
<1>4. CASE EndLocally(s, q, d)
    BY <1>4, FinishJob DEF EndLocally
<1>5. CASE \E p \in AwaitsOf(k) : Issue(s, k, q, p)
    BY <1>5, IssueJob
<1>6. CASE Abort(s, q, d)
    BY <1>6, AbortJob
<1> QED BY <1>1, <1>2, <1>3, <1>4, <1>5, <1>6 DEF Dispatch

LEMMA UndoJob ==
    ASSUME NEW s \in Sessions, NEW j \in Jobs, UndoOrStop(s, j)
    PROVE  KeepsOrDrops(s)
BY FinishJob, IssueJob DEF UndoOrStop

-----------------------------------------------------------------------------
(* Letting go of a job makes no second owner; acquire() hands out a job     *)
(* that nobody holds.                                                      *)

LEMMA DropKeepsOwner ==
    ASSUME OwnerInv, NEW s \in Sessions, KeepsOrDrops(s)
    PROVE  OwnerInv'
BY DEF OwnerInv, JobsType, OneOwner, KeepsOrDrops

LEMMA AcquiredKeepsOwner ==
    ASSUME OwnerInv, NEW s \in Sessions, NEW j \in Jobs, Acquired(s, j)
    PROVE  OwnerInv'
BY DEF OwnerInv, JobsType, OneOwner, Acquired, Available

\* An answer of a job changes no session's job but the one of its receiver.
LEMMA AnsweredJob ==
    ASSUME JobsType, NEW s \in Sessions, NEW j \in Jobs, Answered(s, j)
    PROVE  KeepsOrDrops(s)
<1>1. CASE Prepared(s, j) \/ Replayed(s, j)
    BY <1>1 DEF Prepared, Replayed, KeepsOrDrops
<1>2. CASE Settled(s, j)
    BY <1>2, DispatchJob DEF Settled
<1>3. CASE CheckoutFails(s, j)
  <2>1. CASE job[s] = j
      BY <1>3, <2>1 DEF CheckoutFails, Forget, KeepsOrDrops
  <2>2. CASE job[s] # j
      BY <1>3, <2>2 DEF CheckoutFails, Forget, KeepsOrDrops, JobsType
  <2> QED BY <2>1, <2>2
<1>4. CASE Read(s, j)
    BY <1>4, IssueNextJob, AnswerJob DEF Read
<1>15. CASE PathPrepared(s, j) \/ PathSet(s, j)
    BY <1>15, IssueNextJob DEF PathPrepared, PathSet
<1>5. CASE ReadFails(s, j)
    BY <1>5, AnswerJob DEF ReadFails
<1>6. CASE Executed(s, j)
    BY <1>6, IssueJob, FinishJob DEF Executed, CommitFirst
<1>7. CASE ExecuteFails(s, j)
    BY <1>7, AbortJob, UndoJob DEF ExecuteFails
<1>8. CASE Autocommitted(s, j)
    BY <1>8, AnswerJob DEF Autocommitted
<1>9. CASE AutocommitFails(s, j)
    BY <1>9, AnswerJob, UndoJob DEF AutocommitFails
<1>10. CASE Undone(s, j)
    BY <1>10, AnswerJob DEF Undone
<1>11. CASE TransactionEnded(s, j)
    BY <1>11, FinishJob DEF TransactionEnded
<1>12. CASE EndingFails(s, j)
    BY <1>12, AnswerJob DEF EndingFails
<1>13. CASE Marked(s, j)
    BY <1>13, FinishJob DEF Marked
<1>14. CASE MarkingFails(s, j)
    BY <1>14, FinishJob DEF MarkingFails
<1> QED BY <1>1, <1>2, <1>3, <1>4, <1>5, <1>6, <1>7, <1>8, <1>9, <1>10,
           <1>11, <1>12, <1>13, <1>14, <1>15 DEF Answered

-----------------------------------------------------------------------------
LEMMA OwnerStep == OwnerInv /\ [Next]_vars => OwnerInv'
<1> SUFFICES ASSUME OwnerInv, [Next]_vars PROVE OwnerInv'
    OBVIOUS
<1>1. ASSUME NEW s \in Sessions, NEW k \in Commands, NEW msg \in Messages(k), Handle(s, k, msg)
      PROVE  OwnerInv'
    BY <1>1, DispatchJob, DropKeepsOwner DEF Handle
<1>2. ASSUME NEW s \in Sessions, NEW k \in Commands, NEW msg \in Messages(k), Checkout(s, k, msg)
      PROVE  OwnerInv'
    BY <1>2, DropKeepsOwner DEF Checkout, KeepsOrDrops
<1>3. ASSUME NEW s \in Sessions, NEW j \in Jobs, Acquired(s, j)
      PROVE  OwnerInv'
    BY <1>3, AcquiredKeepsOwner
<1>4. ASSUME NEW s \in Sessions, NEW j \in Jobs, Answered(s, j)
      PROVE  OwnerInv'
    BY <1>4, AnsweredJob, DropKeepsOwner DEF OwnerInv
<1>5. ASSUME NEW s \in Sessions, NEW j \in Jobs, PrepareGoesOn(s, j) \/ Released(s, j)
      PROVE  OwnerInv'
    BY <1>5, DropKeepsOwner
       DEF PrepareGoesOn, Released, RolledBack, SchemaReset, ReleaseFails, KeepsOrDrops
<1>6. ASSUME NEW s \in Sessions, AcquireFails(s) \/ Close(s) \/ Connect(s)
      PROVE  OwnerInv'
    BY <1>6, DropKeepsOwner DEF AcquireFails, Close, Connect, KeepsOrDrops
<1>7. ASSUME NEW j \in Jobs, Break(j) \/ Replace(j)
      PROVE  OwnerInv'
    BY <1>7 DEF Break, Replace, OwnerInv, JobsType, OneOwner
<1>8. CASE UNCHANGED vars
    BY <1>8 DEF vars, OwnerInv, JobsType, OneOwner
<1> QED BY <1>1, <1>2, <1>3, <1>4, <1>5, <1>6, <1>7, <1>8 DEF Next

\* Whenever clients disconnect and whatever fails, no two sessions refer to the
\* same SQLJob.
THEOREM SessionsShareNoJob == Spec => []OneOwner
<1>1. Init => OwnerInv
    BY DEF Init, OwnerInv, JobsType, OneOwner
<1>2. OwnerInv => OneOwner
    BY DEF OwnerInv
<1> QED BY <1>1, <1>2, OwnerStep, PTL DEF Spec
-----------------------------------------------------------------------------
(* Types.  A command that has come to an await is known by its kind, which *)
(* is what decides where it goes on.                                       *)

Busy == \A s \in Sessions : pc[s] \notin {"ready", "releasing"} => cmd[s] \in CommandKinds
TypeInv == TypeOK /\ Busy

Queues == [Jobs -> Seq(Requests)]

\* The part of the invariant that the shared steps change.
Moved ==
    /\ pc' \in [Sessions -> PCs]
    /\ cmd' \in [Sessions -> CommandKinds \cup {"none"}]
    /\ job' \in [Sessions -> Jobs \cup {NoJob}]
    /\ queue' \in Queues
    /\ erred' \in SUBSET Sessions
    /\ Busy'
Noted ==
    /\ inTx' \in [Sessions -> BOOLEAN]
    /\ failed' \in [Sessions -> BOOLEAN]
    /\ acked' \in SUBSET Sessions
    /\ kept' \in SUBSET Sessions
BackendMoved ==
    /\ closed' \in [Sessions -> BOOLEAN]
    /\ schema' \in [Jobs -> Sessions \cup {Default}]
    /\ work' \in [Jobs -> SUBSET (Sessions \cup {Gone})]
    /\ broken' \in SUBSET Jobs

LEMMA TypeParts == Moved /\ Noted /\ BackendMoved => TypeInv'
BY DEF Moved, Noted, BackendMoved, TypeInv, TypeOK, Queues

LEMMA RequestTypes ==
    \A s \in Sessions : Own(s) \in Requests /\ Rollback(s) \in Requests /\ Reset(s) \in Requests
BY DEF Own, Rollback, Reset, Requests

LEMMA SendType ==
    ASSUME NEW q \in Queues, NEW j \in Jobs, NEW r \in Requests
    PROVE  Send(q, j, r) \in Queues
BY DEF Send, Queues

LEMMA GiveBackType ==
    ASSUME NEW q \in Queues, NEW j \in Jobs, NEW s \in Sessions
    PROVE  GiveBack(q, j, s) \in Queues
BY SendType, RequestTypes DEF GiveBack

LEMMA PoppedType ==
    ASSUME TypeOK, NEW j \in Jobs, NEW r, Answers(j, r)
    PROVE  Popped(j) \in Queues
BY DEF TypeOK, Answers, Popped, Queues

LEMMA FinishMoves ==
    ASSUME TypeInv, NEW s \in Sessions, NEW q \in Queues, NEW r, Finish(s, q, r)
    PROVE  Moved
<1>1. erred' \in SUBSET Sessions /\ cmd' \in [Sessions -> CommandKinds \cup {"none"}]
    BY DEF Finish, TypeInv, TypeOK
<1>2. CASE IdleJob(s)
    <2>1. GiveBack(q, job[s], s) \in Queues
        BY <1>2, GiveBackType DEF IdleJob, TypeInv, TypeOK
    <2>2. /\ job' = [job EXCEPT ![s] = NoJob]
          /\ queue' \in Queues
          /\ pc' \in {[pc EXCEPT ![s] = "ready"], [pc EXCEPT ![s] = "releasing"]}
          /\ cmd' = [cmd EXCEPT ![s] = "none"]
        BY <1>2, <2>1 DEF Finish, Goto
    <2> QED BY <1>1, <2>2 DEF Moved, Busy, TypeInv, TypeOK, PCs
<1>3. CASE ~IdleJob(s)
    <2>1. /\ job' = job /\ queue' = q
          /\ pc' = [pc EXCEPT ![s] = "ready"]
          /\ cmd' = [cmd EXCEPT ![s] = "none"]
        BY <1>3 DEF Finish, Goto
    <2> QED BY <1>1, <2>1 DEF Moved, Busy, TypeInv, TypeOK, PCs
<1> QED BY <1>2, <1>3

LEMMA IssueMoves ==
    ASSUME TypeInv, NEW s \in Sessions, NEW k \in CommandKinds, NEW q \in Queues,
           NEW p \in PCs, Issue(s, k, q, p)
    PROVE  Moved
<1>1. job[s] \in Jobs
    BY DEF Issue, TypeInv, TypeOK
<1>2. Send(q, job[s], Own(s)) \in Queues
    BY <1>1, SendType, RequestTypes
<1>3. /\ job' = job /\ erred' = erred /\ queue' \in Queues
      /\ pc' = [pc EXCEPT ![s] = p]
      /\ cmd' = [cmd EXCEPT ![s] = k]
    BY <1>2 DEF Issue, Goto
<1> QED BY <1>3 DEF Moved, Busy, TypeInv, TypeOK

LEMMA AnswerMoves ==
    ASSUME TypeInv, NEW s \in Sessions, NEW q \in Queues, NEW d \in SUBSET Sessions, NEW r,
           Answer(s, q, d, r)
    PROVE  Moved /\ Noted
BY FinishMoves DEF Answer, Noted, TypeInv, TypeOK

LEMMA AbortMoves ==
    ASSUME TypeInv, NEW s \in Sessions, NEW q \in Queues, NEW d \in SUBSET Sessions,
           Abort(s, q, d)
    PROVE  Moved /\ Noted
BY FinishMoves DEF Abort, Noted, TypeInv, TypeOK

LEMMA AwaitTypes ==
    ASSUME NEW s \in Sessions, NEW k \in CommandKinds, k \notin {"begin", "local"}, ~Refused(s, k)
    PROVE  AwaitsOf(k) \subseteq
              {"ending", "marking", "reading", "executing", "choosing", "switching"}
BY DEF AwaitsOf, CommandKinds, Refused

LEMMA IssueNextMoves ==
    ASSUME TypeInv, NEW s \in Sessions, NEW k \in CommandKinds, NEW j \in Jobs,
           Popped(j) \in Queues, NEW p \in PCs, IssueNext(s, k, j, p)
    PROVE  Moved /\ Noted
<1>1. kept \in SUBSET Sessions
    BY DEF TypeInv, TypeOK
<1>2. UNCHANGED <<inTx, failed, acked, kept>> => Noted
    BY DEF Noted, TypeInv, TypeOK
<1> QED BY <1>1, <1>2, IssueMoves, AnswerMoves DEF IssueNext

LEMMA DispatchMoves ==
    ASSUME TypeInv, NEW s \in Sessions, NEW k \in CommandKinds, NEW q \in Queues,
           NEW d \in SUBSET Sessions, Dispatch(s, k, q, d)
    PROVE  Moved /\ Noted
<1>1. CASE \E r \in {"ok", "error"} : Answer(s, q, d, r)
    BY <1>1, AnswerMoves
<1>2. CASE Answer(s, q, d, "error")
    BY <1>2, AnswerMoves
<1>3. CASE Begin(s, q, d)
    BY <1>3, FinishMoves DEF Begin, Noted, TypeInv, TypeOK
<1>4. CASE EndLocally(s, q, d)
    BY <1>4, FinishMoves DEF EndLocally, LeaveTransaction, Noted, TypeInv, TypeOK
<1>5. CASE /\ k \notin {"begin", "local"} /\ ~Refused(s, k)
           /\ kept' = d
           /\ UNCHANGED <<inTx, failed, acked>>
           /\ \E p \in AwaitsOf(k) : Issue(s, k, q, p)
    <2>1. AwaitsOf(k) \subseteq PCs
        BY <1>5, AwaitTypes DEF PCs, InFlightPCs
    <2>2. Moved
        BY <1>5, <2>1, IssueMoves
    <2> QED BY <1>5, <2>2 DEF Noted, TypeInv, TypeOK
<1>6. CASE Abort(s, q, d)
    BY <1>6, AbortMoves
<1> QED BY <1>1, <1>2, <1>3, <1>4, <1>5, <1>6 DEF Dispatch

LEMMA CommittedType == ASSUME TypeInv, NEW j \in Jobs PROVE Committed(j) \in SUBSET Sessions
BY DEF Committed, TypeInv, TypeOK

LEMMA UndoMoves ==
    ASSUME TypeInv, NEW s \in Sessions, pc[s] \notin {"ready", "releasing"}, NEW j \in Jobs,
           Popped(j) \in Queues, UndoOrStop(s, j)
    PROVE  Moved /\ Noted
<1>1. cmd[s] \in CommandKinds /\ "undoing" \in PCs
    BY DEF TypeInv, Busy, PCs, InFlightPCs
<1>2. Moved
    BY <1>1, FinishMoves, IssueMoves DEF UndoOrStop
<1> QED BY <1>2 DEF UndoOrStop, Noted, TypeInv, TypeOK

LEMMA AnsweredTypes ==
    ASSUME TypeInv, NEW s \in Sessions, NEW j \in Jobs, Answered(s, j)
    PROVE  TypeInv'
<1> DEFINE q == Popped(j)
           d == Committed(j)
<1>1. Answers(j, Own(s)) /\ pc[s] \in InFlightPCs
    BY DEF Answered, Prepared, Replayed, Settled, CheckoutFails, PathPrepared, PathSet, Read,
           ReadFails, Executed, ExecuteFails, Autocommitted, AutocommitFails, Undone,
           TransactionEnded, EndingFails, Marked, MarkingFails, InFlightPCs
<1>2. q \in Queues /\ d \in SUBSET Sessions /\ kept \in SUBSET Sessions
    BY <1>1, PoppedType, CommittedType DEF TypeInv, TypeOK
<1>3. /\ cmd[s] \in CommandKinds /\ {"sql", "searchPath"} \subseteq CommandKinds
      /\ {"executing", "committing", "settling", "replaying", "switching", "reading"}
            \subseteq PCs
    BY <1>1 DEF TypeInv, Busy, InFlightPCs, CommandKinds, PCs
<1>4. Send(q, j, Own(s)) \in Queues
    BY <1>2, SendType, RequestTypes
<1>5. UNCHANGED <<closed, schema, broken>> /\ work' \in {work, [work EXCEPT ![j] = {}]}
        => BackendMoved
    BY DEF BackendMoved, TypeInv, TypeOK
<1>6. UNCHANGED <<inTx, failed, acked, kept>> => Noted
    BY DEF Noted, TypeInv, TypeOK
<1> HIDE DEF q, d
<1>7. CASE Prepared(s, j) \/ Replayed(s, j)
    <2>1. /\ queue' = Send(q, j, Own(s))
          /\ \E p \in {"replaying", "settling"} : pc' = [pc EXCEPT ![s] = p]
          /\ cmd' = cmd /\ job' = job /\ erred' = erred
          /\ UNCHANGED <<inTx, failed, acked, kept, closed, work, broken>>
          /\ schema' = schema \/ schema' = [schema EXCEPT ![j] = s]
      <3>1. CASE Prepared(s, j)
          BY <3>1 DEF Prepared, fields, backend, history, Goto, q
      <3>2. CASE Replayed(s, j)
          BY <3>2 DEF Replayed, fields, history, Goto, SetSchema, q
      <3> QED BY <1>7, <3>1, <3>2
    <2>2. Moved
      <3>1. pc' \in [Sessions -> PCs] /\ job' \in [Sessions -> Jobs \cup {NoJob}]
          BY <1>3, <2>1 DEF TypeInv, TypeOK
      <3>2. Busy'
          BY <1>3, <2>1 DEF TypeInv, TypeOK, Busy
      <3> QED BY <1>4, <2>1, <3>1, <3>2 DEF Moved, TypeInv, TypeOK
    <2>3. schema' \in [Jobs -> Sessions \cup {Default}]
        BY <2>1 DEF TypeInv, TypeOK
    <2>4. UNCHANGED <<closed, work, broken>>
        BY <2>1
    <2>5. BackendMoved
        BY <2>3, <2>4 DEF BackendMoved, TypeInv, TypeOK
    <2> QED BY <1>6, <2>1, <2>2, <2>5, TypeParts
<1>8. CASE Settled(s, j)
    BY <1>2, <1>3, <1>5, <1>8, DispatchMoves, TypeParts DEF Settled, Ended, q, d
<1>9. CASE CheckoutFails(s, j)
    <2>1. /\ queue' = q
          /\ pc' = [pc EXCEPT ![s] = "ready"] /\ cmd' = [cmd EXCEPT ![s] = "none"]
          /\ job' \in {job, [job EXCEPT ![s] = NoJob]}
          /\ erred' \in {erred, erred \cup {s}}
          /\ broken' = broken \cup {j} /\ work' = [work EXCEPT ![j] = {}]
          /\ UNCHANGED <<inTx, failed, acked, kept, closed, schema>>
        BY <1>9 DEF CheckoutFails, Discarded, Ended, Forget, Fail, Goto, q, TypeInv, TypeOK
    <2>2. Moved
        BY <1>2, <2>1 DEF Moved, TypeInv, TypeOK, Busy, PCs
    <2>3. BackendMoved
        BY <2>1 DEF BackendMoved, TypeInv, TypeOK
    <2> QED BY <1>6, <2>1, <2>2, <2>3, TypeParts
<1>10. CASE Read(s, j)
    <2>1. BackendMoved
        BY <1>5, <1>10 DEF Read, backend
    <2>2. Moved /\ Noted
        BY <1>2, <1>3, <1>10, IssueNextMoves, AnswerMoves DEF Read, q
    <2> QED BY <2>1, <2>2, TypeParts
<1>18. CASE PathPrepared(s, j) \/ PathSet(s, j)
    <2>1. BackendMoved
      <3>1. CASE PathPrepared(s, j)
          BY <1>5, <3>1 DEF PathPrepared, backend
      <3>2. CASE PathSet(s, j)
          BY <3>2 DEF PathSet, SetSchema, BackendMoved, TypeInv, TypeOK
      <3> QED BY <1>18, <3>1, <3>2
    <2>2. Moved /\ Noted
        BY <1>2, <1>3, <1>18, IssueNextMoves DEF PathPrepared, PathSet, q
    <2> QED BY <2>1, <2>2, TypeParts
<1>11. CASE ReadFails(s, j) \/ EndingFails(s, j)
    BY <1>2, <1>5, <1>11, AnswerMoves, TypeParts DEF ReadFails, EndingFails, backend, q
<1>12. CASE Executed(s, j)
    <2>1. Moved
        BY <1>2, <1>3, <1>12, IssueMoves, FinishMoves DEF Executed, CommitFirst, q
    <2>2. Noted /\ BackendMoved
        BY <1>12 DEF Executed, Noted, BackendMoved, TypeInv, TypeOK
    <2> QED BY <2>1, <2>2, TypeParts
<1>13. CASE ExecuteFails(s, j)
    BY <1>2, <1>5, <1>13, AbortMoves, UndoMoves, TypeParts DEF ExecuteFails, backend, q
<1>14. CASE Autocommitted(s, j) \/ Undone(s, j)
    BY <1>2, <1>5, <1>14, AnswerMoves, TypeParts DEF Autocommitted, Undone, Ended, q, d
<1>15. CASE AutocommitFails(s, j)
    BY <1>2, <1>5, <1>15, AnswerMoves, UndoMoves, TypeParts DEF AutocommitFails, backend, q
<1>16. CASE TransactionEnded(s, j)
    <2>1. Moved
        BY <1>2, <1>16, FinishMoves DEF TransactionEnded, q
    <2>2. Noted
        BY <1>2, <1>16 DEF TransactionEnded, LeaveTransaction, Noted, TypeInv, TypeOK, d
    <2>3. BackendMoved
        BY <1>5, <1>16 DEF TransactionEnded, Ended
    <2> QED BY <2>1, <2>2, <2>3, TypeParts
<1>17. CASE Marked(s, j) \/ MarkingFails(s, j)
    <2>1. Moved
        BY <1>2, <1>17, FinishMoves DEF Marked, MarkingFails, q
    <2>2. Noted
        BY <1>17 DEF Marked, MarkingFails, Noted, TypeInv, TypeOK
    <2>3. BackendMoved
        BY <1>5, <1>17 DEF Marked, MarkingFails, backend
    <2> QED BY <2>1, <2>2, <2>3, TypeParts
<1> QED BY <1>7, <1>8, <1>9, <1>10, <1>11, <1>12, <1>13, <1>14, <1>15, <1>16, <1>17, <1>18
        DEF Answered

LEMMA CheckoutTypes ==
    ASSUME TypeInv, NEW s \in Sessions,
           \/ \E k \in Commands : \E msg \in Messages(k) : Handle(s, k, msg) \/ Checkout(s, k, msg)
           \/ AcquireFails(s)
           \/ \E j \in Jobs : Acquired(s, j) \/ PrepareGoesOn(s, j)
    PROVE  TypeInv'
<1>1. ASSUME NEW k \in Commands, NEW msg \in Messages(k), Handle(s, k, msg)
      PROVE  TypeInv'
    <2>1. k \in CommandKinds /\ queue \in Queues /\ kept \in SUBSET Sessions
        BY SessionsAssumption DEF TypeInv, TypeOK, Queues
    <2>2. BackendMoved
        BY <1>1 DEF Handle, backend, BackendMoved, TypeInv, TypeOK
    <2> QED BY <1>1, <2>1, <2>2, DispatchMoves, TypeParts DEF Handle
<1>2. ASSUME NEW k \in Commands, NEW msg \in Messages(k), Checkout(s, k, msg)
      PROVE  TypeInv'
    <2>1. k \in CommandKinds
        BY SessionsAssumption
    <2> QED BY <1>2, <2>1
            DEF Checkout, Goto, backend, history, TypeInv, TypeOK, Busy, PCs
<1>3. CASE AcquireFails(s)
    BY <1>3 DEF AcquireFails, Fail, Goto, backend, TypeInv, TypeOK, Busy, PCs
<1>4. ASSUME NEW j \in Jobs, Acquired(s, j)
      PROVE  TypeInv'
    <2>1. Send(queue, j, Own(s)) \in Queues
        BY SendType, RequestTypes DEF TypeInv, TypeOK, Queues
    <2>2. cmd[s] \in CommandKinds
        BY <1>4 DEF Acquired, TypeInv, Busy
    <2> QED BY <1>4, <2>1, <2>2
            DEF Acquired, Goto, fields, backend, history, TypeInv, TypeOK, Busy, PCs,
                InFlightPCs, Queues
<1>5. ASSUME NEW j \in Jobs, PrepareGoesOn(s, j)
      PROVE  TypeInv'
    <2> DEFINE q == Popped(j)
    <2>1. q \in Queues
        BY <1>5, PoppedType DEF PrepareGoesOn, TypeInv
    <2>2. queue' = Send(q, j, Own(s))
        BY <1>5 DEF PrepareGoesOn
    <2> HIDE DEF q
    <2>3. queue' \in Queues
        BY <2>1, <2>2, SendType, RequestTypes
    <2>4. work' \in [Jobs -> SUBSET (Sessions \cup {Gone})]
      <3>1. work' = work \/ \E a \in Sessions \cup {Gone} : work' = [work EXCEPT ![j] = @ \cup {a}]
          BY <1>5 DEF PrepareGoesOn, CreatesSchema
      <3> QED BY <3>1 DEF TypeInv, TypeOK
    <2> QED BY <1>5, <2>3, <2>4
            DEF PrepareGoesOn, fields, history, TypeInv, TypeOK, Busy, Queues
<1> QED BY <1>1, <1>2, <1>3, <1>4, <1>5

LEMMA ReleasedTypes ==
    ASSUME TypeInv, NEW s \in Sessions, NEW j \in Jobs, Released(s, j)
    PROVE  TypeInv'
<1> DEFINE q == Popped(j)
<1>1. q \in Queues
    BY PoppedType DEF Released, RolledBack, SchemaReset, ReleaseFails, TypeInv
<1>2. queue' \in {q, Send(q, j, Reset(s))}
    BY DEF Released, RolledBack, SchemaReset, ReleaseFails
<1> HIDE DEF q
<1>3. queue' \in Queues
    BY <1>1, <1>2, SendType, RequestTypes
<1>4. /\ UNCHANGED <<fields, job, broken, history>>
      /\ work' \in {work, [work EXCEPT ![j] = {}]}
      /\ schema' \in {schema, [schema EXCEPT ![j] = Default]}
      /\ pc' = pc \/ (pc[s] = "releasing" /\ pc' = [pc EXCEPT ![s] = "ready"])
    BY DEF Released, RolledBack, SchemaReset, ReleaseFails, Ended, Returned, Goto, backend,
           TypeInv, TypeOK
<1> QED BY <1>3, <1>4 DEF fields, history, TypeInv, TypeOK, Busy, PCs, Queues

LEMMA CloseTypes ==
    ASSUME TypeInv, NEW s \in Sessions, Close(s) \/ Connect(s)
    PROVE  TypeInv'
<1>1. CASE Close(s)
    <2>1. queue' \in Queues
        BY <1>1, GiveBackType DEF Close, TypeInv, TypeOK, Queues
    <2> QED BY <1>1, <2>1 DEF Close, backend, history, TypeInv, TypeOK, Busy, Queues
<1>2. CASE Connect(s)
    BY <1>2 DEF Connect, backend, TypeInv, TypeOK, Busy
<1> QED BY <1>1, <1>2

LEMMA BreakTypes ==
    ASSUME TypeInv, NEW j \in Jobs, Break(j) \/ Replace(j)
    PROVE  TypeInv'
BY DEF Break, Replace, Discarded, Ended, fields, history, TypeInv, TypeOK, Busy

LEMMA TypeStep == TypeInv /\ [Next]_vars => TypeInv'
<1>1. ASSUME TypeInv, Next PROVE TypeInv'
    BY <1>1, AnsweredTypes, CheckoutTypes, ReleasedTypes, CloseTypes, BreakTypes DEF Next
<1>2. ASSUME TypeInv, UNCHANGED vars PROVE TypeInv'
    BY <1>2 DEF vars, TypeInv, TypeOK, Busy
<1> QED BY <1>1, <1>2

LEMMA TypeInit == Init => TypeInv
BY DEF Init, TypeInv, TypeOK, Busy, PCs

\* Every step leaves the variables in the states TypeOK describes, whenever
\* clients disconnect: no job or schema is undefined where one is used.
THEOREM SessionsTypeCorrect == Spec => []TypeOK
<1>1. TypeInv => TypeOK
    BY DEF TypeInv
<1> QED BY <1>1, TypeInit, TypeStep, PTL DEF Spec
-----------------------------------------------------------------------------
(* Uncommitted work and the queues.  A session has one request outstanding  *)
(* at most.  When its job is taken away from under it a ROLLBACK stands     *)
(* behind that request, unless it is one of the checkout or of another      *)
(* prepareSchema(), which go on with the job they captured: the only work  *)
(* they do there is CREATE SCHEMA, that of Gone from then on.              *)

CheckoutPCs == {"preparing", "replaying", "settling"}
CapturedPCs == CheckoutPCs \cup {"choosing"}
Authors == Sessions \cup {Gone}

NoOwn(q, s) == \A j \in Jobs : \A i \in 1..Len(q[j]) : q[j][i] # Own(s)

OneOwn(q, s) ==
    \A j, k \in Jobs : \A i \in 1..Len(q[j]), m \in 1..Len(q[k]) :
        q[j][i] = Own(s) /\ q[k][m] = Own(s) => j = k /\ i = m

Covered(q, s) ==
    \A j \in Jobs \ broken : \A i \in 1..Len(q[j]) :
        q[j][i] = Own(s) =>
            job[s] = j \/ \E k \in 1..Len(q[j]) : i < k /\ q[j][k] = Rollback(s)

NoOrphans(q, w) ==
    \A j \in Jobs : \A s \in w[j] \ {Gone} :
        job[s] = j \/ \E k \in 1..Len(q[j]) : q[j][k] = Rollback(s)

Tracked(q) ==
    \A s \in Sessions :
        /\ pc[s] \notin InFlightPCs => NoOwn(q, s)
        /\ OneOwn(q, s)
        /\ pc[s] \notin CapturedPCs => Covered(q, s)

LostWork(w) == \A j \in broken : w[j] = {}

WorkInv ==
    /\ Tracked(queue)
    /\ NoOrphans(queue, work)
    /\ LostWork(work)
    /\ \A s \in Sessions : pc[s] = "acquiring" => job[s] = NoJob

\* What the queues are between the answer to the request of session s and the
\* next request of s, when w is the work that the answer leaves.
Between(s, q, w) ==
    /\ q \in Queues
    /\ Tracked(q) /\ NoOwn(q, s)
    /\ NoOrphans(q, w) /\ LostWork(w)

LEMMA RequestsDiffer ==
    \A s, t \in Sessions :
        /\ Own(s) = Own(t) => s = t
        /\ Rollback(s) = Rollback(t) => s = t
        /\ Own(s) # Rollback(t) /\ Own(s) # Reset(t) /\ Rollback(s) # Reset(t)
BY DEF Own, Rollback, Reset

LEMMA SendAt ==
    ASSUME NEW q \in Queues, NEW j \in Jobs, NEW r \in Requests
    PROVE  /\ Send(q, j, r) \in Queues
           /\ Len(Send(q, j, r)[j]) = Len(q[j]) + 1
           /\ Send(q, j, r)[j][Len(q[j]) + 1] = r
           /\ \A i \in 1..Len(q[j]) : Send(q, j, r)[j][i] = q[j][i]
           /\ \A k \in Jobs \ {j} : Send(q, j, r)[k] = q[k]
BY SendType DEF Send, Queues

LEMMA PoppedAt ==
    ASSUME TypeOK, NEW j \in Jobs, NEW r, Answers(j, r)
    PROVE  /\ Popped(j) \in Queues
           /\ Len(queue[j]) \in Nat \ {0} /\ queue[j][1] = r
           /\ Len(Popped(j)[j]) = Len(queue[j]) - 1
           /\ \A i \in 1..(Len(queue[j]) - 1) : Popped(j)[j][i] = queue[j][i + 1]
           /\ \A k \in Jobs \ {j} : Popped(j)[k] = queue[k]
BY PoppedType DEF TypeOK, Answers, Popped, Queues

LEMMA QueueLen == ASSUME NEW q \in Queues, NEW j \in Jobs PROVE Len(q[j]) \in Nat
BY DEF Queues

\* Taking the first request off a queue.
LEMMA PopTracked ==
    ASSUME TypeOK, Tracked(queue), NEW j \in Jobs, NEW r, Answers(j, r)
    PROVE  /\ Tracked(Popped(j))
           /\ \A s \in Sessions : r = Own(s) => NoOwn(Popped(j), s)
<1> DEFINE q == Popped(j)
<1>1. /\ q \in Queues /\ queue \in Queues
      /\ Len(queue[j]) \in Nat \ {0} /\ queue[j][1] = r
      /\ Len(q[j]) = Len(queue[j]) - 1
      /\ \A i \in 1..(Len(queue[j]) - 1) : q[j][i] = queue[j][i + 1]
      /\ \A k \in Jobs \ {j} : q[k] = queue[k]
    BY PoppedAt DEF TypeOK, Queues
<1> HIDE DEF q
<1>2. ASSUME NEW s \in Sessions, NoOwn(queue, s) PROVE NoOwn(q, s)
    BY <1>1, <1>2 DEF NoOwn
<1>3. ASSUME NEW s \in Sessions PROVE OneOwn(q, s)
    <2> SUFFICES ASSUME NEW k \in Jobs, NEW l \in Jobs,
                        NEW i \in 1..Len(q[k]), NEW m \in 1..Len(q[l]),
                        q[k][i] = Own(s), q[l][m] = Own(s)
                 PROVE  k = l /\ i = m
        BY DEF OneOwn
    <2> DEFINE a == IF k = j THEN i + 1 ELSE i
               b == IF l = j THEN m + 1 ELSE m
    <2>1. a \in 1..Len(queue[k]) /\ queue[k][a] = Own(s)
        BY <1>1
    <2>2. b \in 1..Len(queue[l]) /\ queue[l][b] = Own(s)
        BY <1>1
    <2>3. OneOwn(queue, s)
        BY DEF Tracked
    <2>4. k = l /\ a = b
        BY <2>1, <2>2, <2>3 DEF OneOwn
    <2>5. i \in Int /\ m \in Int
        OBVIOUS
    <2> QED BY <2>4, <2>5
<1>4. ASSUME NEW s \in Sessions, Covered(queue, s) PROVE Covered(q, s)
    <2> SUFFICES ASSUME NEW k \in Jobs \ broken, NEW i \in 1..Len(q[k]),
                        q[k][i] = Own(s), job[s] # k
                 PROVE  \E l \in 1..Len(q[k]) : i < l /\ q[k][l] = Rollback(s)
        BY DEF Covered
    <2>1. Covered(queue, s)
        BY <1>4
    <2>2. CASE k = j
        <3>1. i \in Nat /\ i + 1 \in 1..Len(queue[j]) /\ queue[j][i + 1] = Own(s)
            BY <1>1, <2>2
        <3>2. PICK l \in 1..Len(queue[j]) : i + 1 < l /\ queue[j][l] = Rollback(s)
            BY <2>1, <2>2, <3>1 DEF Covered
        <3>3. l - 1 \in 1..Len(q[j]) /\ i < l - 1 /\ q[j][l - 1] = Rollback(s)
            BY <1>1, <3>1, <3>2
        <3> QED BY <2>2, <3>3
    <2>3. CASE k # j
        BY <1>1, <2>1, <2>3 DEF Covered
    <2> QED BY <2>2, <2>3
<1>5. ASSUME NEW s \in Sessions, r = Own(s) PROVE NoOwn(q, s)
    <2> SUFFICES ASSUME NEW k \in Jobs, NEW i \in 1..Len(q[k]), q[k][i] = Own(s) PROVE FALSE
        BY DEF NoOwn
    <2>1. OneOwn(queue, s) /\ 1 \in 1..Len(queue[j]) /\ queue[j][1] = Own(s)
        BY <1>1, <1>5 DEF Tracked
    <2>2. CASE k = j
        <3>1. i \in Nat /\ i + 1 \in 1..Len(queue[j]) /\ queue[j][i + 1] = Own(s) /\ i + 1 # 1
            BY <1>1, <2>2
        <3> QED BY <2>1, <3>1 DEF OneOwn
    <2>3. CASE k # j
        BY <1>1, <2>1, <2>3 DEF OneOwn
    <2> QED BY <2>2, <2>3
<1> QED BY <1>2, <1>3, <1>4, <1>5 DEF Tracked, q

\* The queues after an answer to session s, and after it when it was a
\* statement, which adds s to the uncommitted work.
LEMMA AnswerBetween ==
    ASSUME TypeOK, WorkInv, NEW s \in Sessions, NEW j \in Jobs, Answers(j, Own(s))
    PROVE  /\ Between(s, Popped(j), work)
           /\ Between(s, Popped(j), [work EXCEPT ![j] = {}])
           /\ \A a \in Authors :
                 /\ j \notin broken
                 /\ a = s => pc[s] \notin CapturedPCs \/ job[s] = j
                 /\ a \in {s, Gone}
                 => Between(s, Popped(j), [work EXCEPT ![j] = @ \cup {a}])
<1> DEFINE q == Popped(j)
           more(a) == [work EXCEPT ![j] = @ \cup {a}]
           less == [work EXCEPT ![j] = {}]
<1>1. /\ q \in Queues
      /\ Len(queue[j]) \in Nat \ {0} /\ queue[j][1] = Own(s)
      /\ Len(q[j]) = Len(queue[j]) - 1
      /\ \A i \in 1..(Len(queue[j]) - 1) : q[j][i] = queue[j][i + 1]
      /\ \A k \in Jobs \ {j} : q[k] = queue[k]
    BY PoppedAt
<1>2. Tracked(q) /\ NoOwn(q, s)
    BY PopTracked DEF WorkInv
<1> HIDE DEF q
<1>3. \A t \in Sessions, k \in Jobs :
         (\E l \in 1..Len(queue[k]) : queue[k][l] = Rollback(t))
            => \E l \in 1..Len(q[k]) : q[k][l] = Rollback(t)
    <2> SUFFICES ASSUME NEW t \in Sessions, NEW k \in Jobs,
                        NEW l \in 1..Len(queue[k]), queue[k][l] = Rollback(t)
                 PROVE  \E m \in 1..Len(q[k]) : q[k][m] = Rollback(t)
        OBVIOUS
    <2>1. CASE k # j
        BY <1>1, <2>1
    <2>2. CASE k = j
        <3>1. l # 1
            BY <1>1, <2>2, RequestsDiffer
        <3>2. l - 1 \in 1..Len(q[j]) /\ q[j][l - 1] = Rollback(t)
            BY <1>1, <2>2, <3>1
        <3> QED BY <2>2, <3>2
    <2> QED BY <2>1, <2>2
<1>4. \A k \in Jobs : work[k] \ {Gone} \subseteq Sessions
    BY DEF TypeOK
<1>5. NoOrphans(q, work) /\ LostWork(work)
    BY <1>3, <1>4 DEF WorkInv, NoOrphans
<1>6. /\ less[j] = {} /\ \A k \in Jobs \ {j} : less[k] = work[k]
      /\ \A a : more(a)[j] = work[j] \cup {a} /\ \A k \in Jobs \ {j} : more(a)[k] = work[k]
      /\ broken \subseteq Jobs
    BY DEF TypeOK
<1> HIDE DEF less, more
<1>7. NoOrphans(q, less) /\ LostWork(less)
    BY <1>5, <1>6 DEF NoOrphans, LostWork
<1>8. ASSUME NEW a \in Authors, j \notin broken, a \in {s, Gone},
             a = s => pc[s] \notin CapturedPCs \/ job[s] = j
      PROVE  NoOrphans(q, more(a)) /\ LostWork(more(a))
    <2>1. a = s => job[s] = j \/ \E l \in 1..Len(queue[j]) : queue[j][l] = Rollback(s)
        <3> SUFFICES ASSUME pc[s] \notin CapturedPCs
                     PROVE  job[s] = j \/ \E l \in 1..Len(queue[j]) : queue[j][l] = Rollback(s)
            BY <1>8
        <3>1. Covered(queue, s) /\ 1 \in 1..Len(queue[j])
            BY <1>1 DEF WorkInv, Tracked
        <3> QED BY <1>1, <1>8, <3>1 DEF Covered
    <2>2. a = s => job[s] = j \/ \E l \in 1..Len(q[j]) : q[j][l] = Rollback(s)
        BY <1>3, <2>1
    <2>3. NoOrphans(q, more(a))
        BY <1>5, <1>6, <1>8, <2>2 DEF NoOrphans
    <2>4. LostWork(more(a))
        BY <1>5, <1>6, <1>8 DEF LostWork
    <2> QED BY <2>3, <2>4
<1> QED BY <1>1, <1>2, <1>5, <1>7, <1>8 DEF Between, q, less, more

\* Giving a job back puts a ROLLBACK behind whatever is outstanding on it.
LEMMA GiveBackWork ==
    ASSUME TypeOK, NEW s \in Sessions, job[s] \in Jobs,
           NEW q \in Queues, Tracked(q), NoOrphans(q, work'), LostWork(work'),
           work' \in [Jobs -> SUBSET Authors], broken' = broken,
           job' = [job EXCEPT ![s] = NoJob], queue' = GiveBack(q, job[s], s)
    PROVE  /\ \A t \in Sessions :
                 /\ NoOwn(q, t) => NoOwn(queue, t)'
                 /\ OneOwn(queue, t)'
                 /\ Covered(q, t) => Covered(queue, t)'
           /\ NoOrphans(queue, work)' /\ LostWork(work)'
<1> DEFINE j == job[s]
<1>1. /\ j \in Jobs /\ job'[s] = NoJob /\ NoJob \notin Jobs
      /\ \A t \in Sessions \ {s} : job'[t] = job[t]
    BY SessionsAssumption DEF TypeOK
<1>2. LostWork(work)'
    BY DEF LostWork
<1>3. CASE j \in broken
    <2>1. queue' = q /\ work'[j] = {}
        BY <1>3 DEF GiveBack, LostWork
    <2>2. NoOrphans(queue, work)'
        BY <1>1, <2>1 DEF NoOrphans
    <2>3. ASSUME NEW t \in Sessions
          PROVE  (NoOwn(q, t) => NoOwn(queue, t)') /\ OneOwn(queue, t)'
        BY <2>1 DEF Tracked, NoOwn, OneOwn
    <2>4. ASSUME NEW t \in Sessions, Covered(q, t) PROVE Covered(queue, t)'
        BY <1>1, <1>3, <2>1, <2>4 DEF Covered
    <2> QED BY <1>2, <2>2, <2>3, <2>4
<1>4. CASE j \notin broken
    <2> DEFINE n == Len(q[j])
    <2>1. queue' = Send(q, j, Rollback(s))
        BY <1>4 DEF GiveBack
    <2>2. /\ n \in Nat /\ Len(queue'[j]) = n + 1 /\ queue'[j][n + 1] = Rollback(s)
          /\ \A i \in 1..n : queue'[j][i] = q[j][i]
          /\ \A k \in Jobs \ {j} : queue'[k] = q[k]
        BY <1>1, <2>1, SendAt, RequestTypes, QueueLen
    <2>3. \A t \in Sessions, k \in Jobs :
             (\E l \in 1..Len(q[k]) : q[k][l] = Rollback(t))
                => \E l \in 1..Len(queue'[k]) : queue'[k][l] = Rollback(t)
        BY <2>2
    <2>4. \E l \in 1..Len(queue'[j]) : queue'[j][l] = Rollback(s)
        <3>1. n + 1 \in 1..Len(queue'[j])
            BY <2>2
        <3> QED BY <2>2, <3>1
    <2>5. NoOrphans(queue, work)'
        <3> SUFFICES ASSUME NEW k \in Jobs, NEW t \in work'[k] \ {Gone}, job'[t] # k
                     PROVE  \E l \in 1..Len(queue'[k]) : queue'[k][l] = Rollback(t)
            BY DEF NoOrphans
        <3>1. t \in Sessions /\ (job[t] # k \/ (t = s /\ k = j))
            BY <1>1 DEF Authors
        <3> QED BY <2>3, <2>4, <3>1 DEF NoOrphans
    <2>6. \A t \in Sessions, k \in Jobs : \A i \in 1..Len(queue'[k]) :
             queue'[k][i] = Own(t) => i \in 1..Len(q[k]) /\ q[k][i] = Own(t)
        <3> SUFFICES ASSUME NEW t \in Sessions, NEW k \in Jobs,
                            NEW i \in 1..Len(queue'[k]), queue'[k][i] = Own(t)
                     PROVE  i \in 1..Len(q[k]) /\ q[k][i] = Own(t)
            OBVIOUS
        <3>1. CASE k # j
            BY <2>2, <3>1
        <3>2. CASE k = j
            <4>1. i # n + 1
                BY <2>2, <3>2, RequestsDiffer
            <4> QED BY <2>2, <3>2, <4>1
        <3> QED BY <3>1, <3>2
    <2>7. ASSUME NEW t \in Sessions
          PROVE  (NoOwn(q, t) => NoOwn(queue, t)') /\ OneOwn(queue, t)'
        <3>1. NoOwn(q, t) => NoOwn(queue, t)'
            BY <2>6 DEF NoOwn
        <3>2. OneOwn(q, t)
            BY DEF Tracked
        <3>3. OneOwn(queue, t)'
            <4> SUFFICES ASSUME NEW k \in Jobs, NEW l \in Jobs,
                                NEW i \in 1..Len(queue'[k]), NEW m \in 1..Len(queue'[l]),
                                queue'[k][i] = Own(t), queue'[l][m] = Own(t)
                         PROVE  k = l /\ i = m
                BY DEF OneOwn
            <4>1. i \in 1..Len(q[k]) /\ q[k][i] = Own(t) /\ m \in 1..Len(q[l]) /\ q[l][m] = Own(t)
                BY <2>6
            <4> QED BY <3>2, <4>1 DEF OneOwn
        <3> QED BY <3>1, <3>3
    <2>8. ASSUME NEW t \in Sessions, Covered(q, t) PROVE Covered(queue, t)'
        <3> SUFFICES ASSUME NEW k \in Jobs \ broken, NEW i \in 1..Len(queue'[k]),
                            queue'[k][i] = Own(t), job'[t] # k
                     PROVE  \E l \in 1..Len(queue'[k]) : i < l /\ queue'[k][l] = Rollback(t)
            BY DEF Covered
        <3>1. i \in 1..Len(q[k]) /\ q[k][i] = Own(t) /\ Covered(q, t)
            BY <2>6, <2>8
        <3>2. CASE job[t] = k
            <4>1. t = s /\ k = j
                BY <1>1, <3>2
            <4>2. n + 1 \in 1..Len(queue'[k]) /\ i < n + 1
                BY <2>2, <3>1, <4>1
            <4> QED BY <2>2, <4>1, <4>2
        <3>3. CASE job[t] # k
            <4>1. PICK l \in 1..Len(q[k]) : i < l /\ q[k][l] = Rollback(t)
                BY <3>1, <3>3 DEF Covered
            <4>2. l \in 1..Len(queue'[k]) /\ queue'[k][l] = Rollback(t)
                BY <2>2, <4>1
            <4> QED BY <4>1, <4>2
        <3> QED BY <3>2, <3>3
    <2> QED BY <1>2, <2>5, <2>7, <2>8
<1> QED BY <1>3, <1>4

\* The next request of session s goes to its job.
LEMMA SendOwnWork ==
    ASSUME TypeOK, NEW s \in Sessions, NEW j \in Jobs,
           job'[s] = job[s] \/ (job[s] = NoJob /\ job'[s] = j),
           NEW q \in Queues, Tracked(q), NoOwn(q, s),
           \A t \in Sessions \ {s} : job'[t] = job[t],
           work' \in [Jobs -> SUBSET Authors],
           broken' = broken, queue' = Send(q, j, Own(s))
    PROVE  /\ \A t \in Sessions \ {s} : NoOwn(q, t) => NoOwn(queue, t)'
           /\ \A t \in Sessions : OneOwn(queue, t)'
           /\ \A t \in Sessions \ {s} : Covered(q, t) => Covered(queue, t)'
           /\ job'[s] = j => Covered(queue, s)'
           /\ NoOrphans(q, work') => NoOrphans(queue, work)'
<1> DEFINE n == Len(q[j])
<1>0. Own(s) \in Requests
    BY RequestTypes
<1>1. /\ n \in Nat /\ Len(queue'[j]) = n + 1 /\ queue'[j][n + 1] = Own(s)
      /\ \A i \in 1..n : queue'[j][i] = q[j][i]
      /\ \A k \in Jobs \ {j} : queue'[k] = q[k]
    BY <1>0, SendAt, QueueLen
<1>2. \A t \in Sessions, k \in Jobs : \A i \in 1..Len(queue'[k]) :
         queue'[k][i] = Own(t) =>
            \/ i \in 1..Len(q[k]) /\ q[k][i] = Own(t)
            \/ t = s /\ k = j /\ i = n + 1
    <2> SUFFICES ASSUME NEW t \in Sessions, NEW k \in Jobs,
                        NEW i \in 1..Len(queue'[k]), queue'[k][i] = Own(t)
                 PROVE  \/ i \in 1..Len(q[k]) /\ q[k][i] = Own(t)
                        \/ t = s /\ k = j /\ i = n + 1
        OBVIOUS
    <2>1. CASE k # j
        BY <1>1, <2>1
    <2>2. CASE k = j /\ i = n + 1
        BY <1>1, <2>2, RequestsDiffer
    <2>3. CASE k = j /\ i # n + 1
        BY <1>1, <2>3
    <2> QED BY <2>1, <2>2, <2>3
<1>3. \A t \in Sessions, k \in Jobs : \A l \in 1..Len(q[k]) :
         q[k][l] = Rollback(t) => l \in 1..Len(queue'[k]) /\ queue'[k][l] = Rollback(t)
    BY <1>1
<1>4. ASSUME NEW t \in Sessions \ {s}, NoOwn(q, t) PROVE NoOwn(queue, t)'
    BY <1>2, <1>4 DEF NoOwn
<1>5. ASSUME NEW t \in Sessions PROVE OneOwn(queue, t)'
    <2>1. OneOwn(q, t)
        BY DEF Tracked
    <2>2. CASE t # s
        BY <1>2, <2>1, <2>2 DEF OneOwn
    <2>3. CASE t = s
        BY <1>2, <2>3 DEF OneOwn, NoOwn
    <2> QED BY <2>2, <2>3
<1>6. ASSUME NEW t \in Sessions, (t # s /\ Covered(q, t)) \/ (t = s /\ job'[s] = j)
      PROVE  Covered(queue, t)'
    <2> SUFFICES ASSUME NEW k \in Jobs \ broken, NEW i \in 1..Len(queue'[k]),
                        queue'[k][i] = Own(t), job'[t] # k
                 PROVE  \E l \in 1..Len(queue'[k]) : i < l /\ queue'[k][l] = Rollback(t)
        BY DEF Covered
    <2>1. i \in 1..Len(q[k]) /\ q[k][i] = Own(t)
        BY <1>2, <1>6
    <2>2. t # s /\ job[t] # k /\ Covered(q, t)
        BY <1>6, <2>1 DEF NoOwn
    <2>3. PICK l \in 1..Len(q[k]) : i < l /\ q[k][l] = Rollback(t)
        BY <2>1, <2>2 DEF Covered
    <2> QED BY <1>3, <2>3
<1>7. ASSUME NoOrphans(q, work') PROVE NoOrphans(queue, work)'
    <2> SUFFICES ASSUME NEW k \in Jobs, NEW t \in work'[k] \ {Gone}, job'[t] # k
                 PROVE  \E l \in 1..Len(queue'[k]) : queue'[k][l] = Rollback(t)
        BY DEF NoOrphans
    <2>1. t \in Sessions /\ job[t] # k
        BY SessionsAssumption DEF Authors
    <2> QED BY <1>3, <1>7, <2>1 DEF NoOrphans
<1> QED BY <1>4, <1>5, <1>6, <1>7

-----------------------------------------------------------------------------
(* Every step keeps WorkInv.                                               *)

LEMMA NoOwnCovered == ASSUME NEW s, NEW q, NoOwn(q, s) PROVE Covered(q, s)
BY DEF NoOwn, Covered

LEMMA FinishWork ==
    ASSUME TypeInv, TypeInv', WorkInv, NEW s \in Sessions, NEW q, NEW r,
           Between(s, q, work'), broken' = broken, Finish(s, q, r)
    PROVE  WorkInv'
<1>1. /\ pc'[s] \in {"ready", "releasing"}
      /\ \A t \in Sessions \ {s} : pc'[t] = pc[t] /\ job'[t] = job[t]
    BY DEF Finish, Goto, TypeInv, TypeOK
<1>2. work' \in [Jobs -> SUBSET Authors] /\ q \in Queues /\ NoJob \notin Jobs
    BY SessionsAssumption DEF TypeInv, TypeOK, Between, Authors
<1>3. /\ \A t \in Sessions :
            (NoOwn(q, t) => NoOwn(queue, t)') /\ OneOwn(queue, t)' /\ (Covered(q, t) => Covered(queue, t)')
      /\ NoOrphans(queue, work)' /\ LostWork(work)'
  <2>1. CASE IdleJob(s)
      <3>1. /\ job[s] \in Jobs
            /\ job' = [job EXCEPT ![s] = NoJob] /\ queue' = GiveBack(q, job[s], s)
          BY <2>1 DEF Finish, IdleJob, TypeInv, TypeOK
      <3> QED BY <1>2, <3>1, GiveBackWork DEF Between, TypeInv
  <2>2. CASE ~IdleJob(s)
      <3>1. job' = job /\ queue' = q
          BY <2>2 DEF Finish
      <3>2. \A t \in Sessions :
               (NoOwn(q, t) => NoOwn(queue, t)') /\ OneOwn(queue, t)'
               /\ (Covered(q, t) => Covered(queue, t)')
          BY <3>1 DEF Between, Tracked, NoOwn, OneOwn, Covered
      <3>3. NoOrphans(queue, work)' /\ LostWork(work)'
          BY <3>1 DEF Between, NoOrphans, LostWork
      <3> QED BY <3>2, <3>3
  <2> QED BY <2>1, <2>2
<1>4. Tracked(queue)'
    <2> SUFFICES ASSUME NEW t \in Sessions
                 PROVE  /\ pc'[t] \notin InFlightPCs => NoOwn(queue, t)'
                        /\ pc'[t] \notin CapturedPCs => Covered(queue, t)'
        BY <1>3 DEF Tracked
    <2>1. pc'[t] \notin InFlightPCs => NoOwn(q, t)
        BY <1>1 DEF Between, Tracked
    <2>2. pc'[t] \notin CapturedPCs => Covered(q, t)
        BY <1>1, NoOwnCovered DEF Between, Tracked
    <2> QED BY <1>3, <2>1, <2>2
<1>5. \A t \in Sessions : pc'[t] = "acquiring" => job'[t] = NoJob
    BY <1>1 DEF WorkInv
<1> QED BY <1>3, <1>4, <1>5 DEF WorkInv

\* The next request of session s, after the checkout or in it.
LEMMA ResendOwn ==
    ASSUME TypeInv, TypeInv', WorkInv, NEW s \in Sessions, NEW j \in Jobs, NEW q,
           Between(s, q, work'), broken' = broken,
           queue' = Send(q, j, Own(s)),
           job'[s] = job[s] \/ (job[s] = NoJob /\ job'[s] = j),
           pc'[s] \in CapturedPCs \/ job'[s] = j,
           \A t \in Sessions \ {s} : pc'[t] = pc[t] /\ job'[t] = job[t],
           pc'[s] \in InFlightPCs
    PROVE  WorkInv'
<1>1. work' \in [Jobs -> SUBSET Authors] /\ q \in Queues
    BY DEF TypeInv, TypeOK, Between, Authors
<1>2. /\ \A t \in Sessions \ {s} : NoOwn(q, t) => NoOwn(queue, t)'
      /\ \A t \in Sessions : OneOwn(queue, t)'
      /\ \A t \in Sessions \ {s} : Covered(q, t) => Covered(queue, t)'
      /\ job'[s] = j => Covered(queue, s)'
      /\ NoOrphans(queue, work)'
    BY <1>1, SendOwnWork DEF Between, TypeInv
<1>3. Tracked(queue)'
    <2> SUFFICES ASSUME NEW t \in Sessions
                 PROVE  /\ pc'[t] \notin InFlightPCs => NoOwn(queue, t)'
                        /\ pc'[t] \notin CapturedPCs => Covered(queue, t)'
        BY <1>2 DEF Tracked
    <2>1. pc'[t] \notin InFlightPCs => t # s /\ NoOwn(q, t)
        BY DEF Between, Tracked
    <2>2. pc'[t] \notin CapturedPCs /\ t # s => Covered(q, t)
        BY DEF Between, Tracked
    <2> QED BY <1>2, <2>1, <2>2
<1>4. \A t \in Sessions : pc'[t] = "acquiring" => job'[t] = NoJob
    BY DEF WorkInv, InFlightPCs
<1>5. LostWork(work)'
    BY DEF Between, LostWork
<1> QED BY <1>2, <1>3, <1>4, <1>5 DEF WorkInv

LEMMA IssueWork ==
    ASSUME TypeInv, TypeInv', WorkInv, NEW s \in Sessions, NEW k, NEW q, NEW p \in InFlightPCs,
           Between(s, q, work'), broken' = broken, Issue(s, k, q, p)
    PROVE  WorkInv'
<1>1. /\ pc'[s] \in InFlightPCs /\ job' = job /\ job[s] \in Jobs
      /\ \A t \in Sessions \ {s} : pc'[t] = pc[t]
      /\ queue' = Send(q, job[s], Own(s))
    BY DEF Issue, Goto, TypeInv, TypeOK
<1> QED BY <1>1, ResendOwn

LEMMA AwaitInFlight ==
    ASSUME NEW s \in Sessions, NEW k \in CommandKinds, k \notin {"begin", "local"}, ~Refused(s, k)
    PROVE  AwaitsOf(k) \subseteq InFlightPCs
BY AwaitTypes DEF InFlightPCs

LEMMA IssueNextWork ==
    ASSUME TypeInv, TypeInv', WorkInv, NEW s \in Sessions, NEW k, NEW j \in Jobs,
           NEW p \in InFlightPCs,
           Between(s, Popped(j), work'), broken' = broken, IssueNext(s, k, j, p)
    PROVE  WorkInv'
BY IssueWork, FinishWork DEF IssueNext, Answer

LEMMA DispatchWork ==
    ASSUME TypeInv, TypeInv', WorkInv, NEW s \in Sessions, NEW k \in CommandKinds, NEW q, NEW d,
           Between(s, q, work'), broken' = broken, Dispatch(s, k, q, d)
    PROVE  WorkInv'
<1>1. CASE \E r \in {"ok", "error"} : Answer(s, q, d, r)
    BY <1>1, FinishWork DEF Answer
<1>2. CASE Answer(s, q, d, "error")
    BY <1>2, FinishWork DEF Answer
<1>3. CASE Begin(s, q, d)
    BY <1>3, FinishWork DEF Begin
<1>4. CASE EndLocally(s, q, d)
    BY <1>4, FinishWork DEF EndLocally
<1>5. CASE k \notin {"begin", "local"} /\ ~Refused(s, k) /\ \E p \in AwaitsOf(k) : Issue(s, k, q, p)
    BY <1>5, AwaitInFlight, IssueWork
<1>6. CASE Abort(s, q, d)
    BY <1>6, FinishWork DEF Abort
<1> QED BY <1>1, <1>2, <1>3, <1>4, <1>5, <1>6 DEF Dispatch

LEMMA UndoWork ==
    ASSUME TypeInv, TypeInv', WorkInv, NEW s \in Sessions, NEW j \in Jobs,
           Between(s, Popped(j), work'), broken' = broken, UndoOrStop(s, j)
    PROVE  WorkInv'
<1>1. "undoing" \in InFlightPCs
    BY DEF InFlightPCs
<1> QED BY <1>1, FinishWork, IssueWork DEF UndoOrStop

LEMMA AnsweredWork ==
    ASSUME TypeInv, TypeInv', WorkInv, NEW s \in Sessions, NEW j \in Jobs, Answered(s, j)
    PROVE  WorkInv'
<1> DEFINE q == Popped(j)
<1>1. Answers(j, Own(s)) /\ pc[s] \in InFlightPCs
    BY DEF Answered, Prepared, Replayed, Settled, CheckoutFails, PathPrepared, PathSet, Read,
           ReadFails, Executed, ExecuteFails, Autocommitted, AutocommitFails, Undone,
           TransactionEnded, EndingFails, Marked, MarkingFails, InFlightPCs
<1>2. /\ Between(s, q, work)
      /\ Between(s, q, [work EXCEPT ![j] = {}])
      /\ j \notin broken /\ pc[s] \notin CapturedPCs
            => Between(s, q, [work EXCEPT ![j] = @ \cup {s}])
    BY <1>1, AnswerBetween DEF TypeInv, Authors
<1>3. {"executing", "committing", "settling", "replaying", "switching", "reading"}
         \subseteq InFlightPCs
    BY DEF InFlightPCs
<1> HIDE DEF q
<1>4. CASE Prepared(s, j) \/ Replayed(s, j)
    <2>1. /\ pc'[s] \in CheckoutPCs /\ job' = job /\ work' = work /\ broken' = broken
          /\ queue' = Send(q, j, Own(s))
          /\ \A t \in Sessions \ {s} : pc'[t] = pc[t]
        BY <1>4 DEF Prepared, Replayed, Goto, fields, backend, CheckoutPCs, TypeInv, TypeOK, q
    <2>2. CheckoutPCs \subseteq InFlightPCs /\ CheckoutPCs \subseteq CapturedPCs
        BY DEF CheckoutPCs, CapturedPCs, InFlightPCs
    <2> QED BY <1>2, <1>3, <2>1, <2>2, ResendOwn
<1>5. CASE Settled(s, j)
    <2>1. cmd[s] \in CommandKinds
        BY <1>5 DEF Settled, TypeInv, Busy
    <2> QED BY <1>2, <1>5, <2>1, DispatchWork DEF Settled, Ended, q
<1>6. CASE CheckoutFails(s, j)
    <2>1. /\ pc'[s] = "ready"
          /\ \A t \in Sessions \ {s} : pc'[t] = pc[t] /\ job'[t] = job[t]
          /\ job'[s] = job[s] \/ job[s] = j
          /\ broken' = broken \cup {j} /\ work' = [work EXCEPT ![j] = {}] /\ queue' = q
        BY <1>6 DEF CheckoutFails, Discarded, Ended, Forget, Fail, Goto, q, TypeInv, TypeOK
    <2>2. Tracked(queue)'
        <3>1. ASSUME NEW t \in Sessions PROVE OneOwn(queue, t)'
            BY <1>2, <2>1 DEF Between, Tracked, OneOwn
        <3>2. NoOwn(queue, s)'
            BY <1>2, <2>1 DEF Between, NoOwn
        <3>3. Covered(queue, s)'
            BY <3>2 DEF NoOwn, Covered
        <3>4. ASSUME NEW t \in Sessions \ {s}
              PROVE  /\ pc'[t] \notin InFlightPCs => NoOwn(queue, t)'
                     /\ pc'[t] \notin CapturedPCs => Covered(queue, t)'
            BY <1>2, <2>1 DEF Between, Tracked, NoOwn, Covered
        <3> QED BY <3>1, <3>2, <3>3, <3>4 DEF Tracked
    <2>3. NoOrphans(queue, work)'
        <3>1. /\ work'[j] = {}
              /\ \A k \in Jobs \ {j} : work'[k] = work[k] /\ work[k] \ {Gone} \subseteq Sessions
            BY <2>1 DEF TypeInv, TypeOK
        <3> QED BY <1>2, <2>1, <3>1 DEF Between, NoOrphans
    <2>4. LostWork(work)'
        BY <2>1 DEF WorkInv, LostWork, TypeInv, TypeOK
    <2>5. \A t \in Sessions : pc'[t] = "acquiring" => job'[t] = NoJob
        BY <2>1 DEF WorkInv
    <2> QED BY <2>2, <2>3, <2>4, <2>5 DEF WorkInv
<1>7. CASE Read(s, j)
    BY <1>2, <1>3, <1>7, IssueNextWork, FinishWork DEF Read, Answer, backend, q
<1>15. CASE PathPrepared(s, j) \/ PathSet(s, j)
    BY <1>2, <1>3, <1>15, IssueNextWork DEF PathPrepared, PathSet, backend, q
<1>8. CASE ReadFails(s, j) \/ EndingFails(s, j)
    BY <1>2, <1>8, FinishWork DEF ReadFails, EndingFails, Answer, backend, q
<1>9. CASE Executed(s, j)
    <2>1. /\ work' = [work EXCEPT ![j] = @ \cup {s}] /\ broken' = broken /\ j \notin broken
          /\ pc[s] \notin CapturedPCs
        BY <1>9 DEF Executed, CheckoutPCs, CapturedPCs
    <2>2. Between(s, q, work')
        BY <1>2, <2>1
    <2> QED BY <1>3, <1>9, <2>1, <2>2, IssueWork, FinishWork DEF Executed, CommitFirst, q
<1>10. CASE ExecuteFails(s, j)
    BY <1>2, <1>10, FinishWork, UndoWork DEF ExecuteFails, Abort, backend, q
<1>11. CASE Autocommitted(s, j) \/ Undone(s, j)
    BY <1>2, <1>11, FinishWork DEF Autocommitted, Undone, Ended, Answer, q
<1>12. CASE AutocommitFails(s, j)
    BY <1>2, <1>12, FinishWork, UndoWork DEF AutocommitFails, Answer, backend, q
<1>13. CASE TransactionEnded(s, j)
    BY <1>2, <1>13, FinishWork DEF TransactionEnded, Ended, q
<1>14. CASE Marked(s, j) \/ MarkingFails(s, j)
    BY <1>2, <1>14, FinishWork DEF Marked, MarkingFails, backend, q
<1> QED BY <1>4, <1>5, <1>6, <1>7, <1>8, <1>9, <1>10, <1>11, <1>12, <1>13, <1>14, <1>15
        DEF Answered

LEMMA CheckoutWork ==
    ASSUME TypeInv, TypeInv', WorkInv, NEW s \in Sessions,
           \/ \E k \in Commands : \E msg \in Messages(k) : Handle(s, k, msg) \/ Checkout(s, k, msg)
           \/ AcquireFails(s)
           \/ \E j \in Jobs : Acquired(s, j) \/ PrepareGoesOn(s, j)
    PROVE  WorkInv'
<1>1. pc[s] \notin InFlightPCs => Between(s, queue, work)
    BY DEF WorkInv, Between, Tracked, TypeInv, TypeOK, Queues
<1>2. {"ready", "acquiring"} \cap InFlightPCs = {}
    BY DEF InFlightPCs
<1>3. ASSUME NEW k \in Commands, NEW msg \in Messages(k), Handle(s, k, msg)
      PROVE  WorkInv'
    <2>1. k \in CommandKinds
        BY SessionsAssumption
    <2> QED BY <1>1, <1>2, <1>3, <2>1, DispatchWork DEF Handle, backend
<1>4. CASE \/ \E k \in Commands : \E msg \in Messages(k) : Checkout(s, k, msg)
           \/ AcquireFails(s)
    <2>1. /\ UNCHANGED <<queue, job, work, broken>>
          /\ {pc[s], pc'[s]} \subseteq {"ready", "acquiring"}
          /\ \A t \in Sessions \ {s} : pc'[t] = pc[t]
          /\ pc'[s] = "acquiring" => job[s] = NoJob
        BY <1>4 DEF Checkout, AcquireFails, Fail, Goto, backend, TypeInv, TypeOK
    <2>2. NoOwn(queue, s)
        BY <1>2, <2>1 DEF WorkInv, Tracked
    <2>3. Tracked(queue)'
        <3>1. ASSUME NEW t \in Sessions
              PROVE  OneOwn(queue, t)' /\ (pc'[t] \notin InFlightPCs => NoOwn(queue, t)')
            BY <2>1, <2>2 DEF WorkInv, Tracked, OneOwn, NoOwn
        <3>2. ASSUME NEW t \in Sessions, pc'[t] \notin CapturedPCs PROVE Covered(queue, t)
            BY <2>1, <2>2, <3>2, NoOwnCovered DEF WorkInv, Tracked
        <3>3. \A t \in Sessions : Covered(queue, t) => Covered(queue, t)'
            BY <2>1 DEF Covered
        <3> QED BY <3>1, <3>2, <3>3 DEF Tracked
    <2> QED BY <2>1, <2>3 DEF WorkInv, NoOrphans, LostWork
<1>5. ASSUME NEW j \in Jobs, Acquired(s, j) PROVE WorkInv'
    <2>1. /\ job[s] = NoJob /\ job'[s] = j /\ pc'[s] \in {"preparing", "replaying"}
          /\ \A t \in Sessions \ {s} : pc'[t] = pc[t] /\ job'[t] = job[t]
          /\ work' = work /\ broken' = broken /\ queue' = Send(queue, j, Own(s))
        BY <1>5 DEF Acquired, Goto, backend, WorkInv, TypeInv, TypeOK
    <2>2. Between(s, queue, work) /\ pc'[s] \in InFlightPCs
        BY <1>1, <1>2, <1>5, <2>1 DEF Acquired, InFlightPCs
    <2> QED BY <2>1, <2>2, ResendOwn
<1>6. ASSUME NEW j \in Jobs, PrepareGoesOn(s, j) PROVE WorkInv'
    <2>1. Between(s, Popped(j), work')
        <3>1. CASE work' = work
            BY <1>6, <3>1, AnswerBetween DEF PrepareGoesOn, TypeInv
        <3>2. CASE work' # work
            <4>1. PICK a \in Authors : /\ a \in {s, Gone} /\ (a = s => job[s] = j)
                                      /\ work' = [work EXCEPT ![j] = @ \cup {a}]
                BY <1>6, <3>2, SessionsAssumption DEF PrepareGoesOn, CreatesSchema, Authors, Gone
            <4>2. Answers(j, Own(s)) /\ j \notin broken
                BY <1>6 DEF PrepareGoesOn
            <4> QED BY <4>1, <4>2, AnswerBetween DEF TypeInv
        <3> QED BY <3>1, <3>2
    <2>2. /\ job' = job /\ broken' = broken /\ pc' = pc
          /\ queue' = Send(Popped(j), j, Own(s))
          /\ pc'[s] \in CapturedPCs /\ pc'[s] \in InFlightPCs
        BY <1>6 DEF PrepareGoesOn, CheckoutPCs, CapturedPCs, InFlightPCs
    <2> QED BY <2>1, <2>2, ResendOwn
<1> QED BY <1>3, <1>4, <1>5, <1>6

LEMMA ReleasedWork ==
    ASSUME TypeInv, WorkInv, NEW s \in Sessions, NEW j \in Jobs, Released(s, j)
    PROVE  WorkInv'
<1> DEFINE q == Popped(j)
<1>1. PICK r \in {Rollback(s), Reset(s)} : Answers(j, r)
    BY DEF Released, RolledBack, SchemaReset, ReleaseFails
<1>2. /\ q \in Queues /\ queue[j][1] = r
      /\ Len(queue[j]) \in Nat \ {0} /\ Len(q[j]) = Len(queue[j]) - 1
      /\ \A i \in 1..(Len(queue[j]) - 1) : q[j][i] = queue[j][i + 1]
      /\ \A k \in Jobs \ {j} : q[k] = queue[k]
    BY <1>1, PoppedAt DEF TypeInv
<1>3. Tracked(q)
    BY <1>1, PopTracked DEF TypeInv, WorkInv
<1>4. /\ UNCHANGED <<job, broken>>
      /\ queue' = q \/ queue' = Send(q, j, Reset(s))
      /\ \A t \in Sessions : pc'[t] = pc[t] \/ {pc[t], pc'[t]} \subseteq {"ready", "releasing"}
      /\ \A k \in Jobs \ {j} : work'[k] = work[k]
      /\ work'[j] = {} \/ (work'[j] = work[j] /\ (j \in broken \/ Answers(j, Reset(s))))
    BY DEF Released, RolledBack, SchemaReset, ReleaseFails, Ended, Returned, Goto, backend,
           fields, TypeInv, TypeOK
<1> HIDE DEF q
<1>5. /\ \A t \in Sessions, k \in Jobs, i \in Nat :
            (i \in 1..Len(queue'[k]) /\ queue'[k][i] = Own(t))
               => (i \in 1..Len(q[k]) /\ q[k][i] = Own(t))
      /\ \A t \in Sessions, k \in Jobs, i \in Nat :
            (i \in 1..Len(q[k]) /\ q[k][i] = Rollback(t))
               => (i \in 1..Len(queue'[k]) /\ queue'[k][i] = Rollback(t))
    <2>1. CASE queue' = q
        BY <2>1
    <2>2. CASE queue' = Send(q, j, Reset(s))
        <3> DEFINE n == Len(q[j])
        <3>1. Reset(s) \in Requests
            BY RequestTypes
        <3>2. /\ n \in Nat /\ Len(queue'[j]) = n + 1 /\ queue'[j][n + 1] = Reset(s)
              /\ \A i \in 1..n : queue'[j][i] = q[j][i]
              /\ \A k \in Jobs \ {j} : queue'[k] = q[k]
            BY <1>2, <2>2, <3>1, SendAt, QueueLen
        <3>3. ASSUME NEW t \in Sessions, NEW k \in Jobs, NEW i \in Nat,
                     i \in 1..Len(queue'[k]), queue'[k][i] = Own(t)
              PROVE  i \in 1..Len(q[k]) /\ q[k][i] = Own(t)
            <4>1. CASE k # j
                BY <3>2, <3>3, <4>1
            <4>2. CASE k = j
                <5>1. i # n + 1
                    BY <3>2, <3>3, <4>2, RequestsDiffer
                <5> QED BY <3>2, <3>3, <4>2, <5>1
            <4> QED BY <4>1, <4>2
        <3>4. ASSUME NEW t \in Sessions, NEW k \in Jobs, NEW i \in Nat,
                     i \in 1..Len(q[k]), q[k][i] = Rollback(t)
              PROVE  i \in 1..Len(queue'[k]) /\ queue'[k][i] = Rollback(t)
            BY <3>2, <3>4
        <3> QED BY <3>3, <3>4
    <2> QED BY <1>4, <2>1, <2>2
<1>6. Tracked(queue)'
    <2> SUFFICES ASSUME NEW t \in Sessions
                 PROVE  /\ pc'[t] \notin InFlightPCs => NoOwn(queue, t)'
                        /\ OneOwn(queue, t)'
                        /\ pc'[t] \notin CapturedPCs => Covered(queue, t)'
        BY DEF Tracked
    <2>1. /\ pc'[t] \notin InFlightPCs => pc[t] \notin InFlightPCs
          /\ pc'[t] \notin CapturedPCs => pc[t] \notin CapturedPCs
        BY <1>4 DEF InFlightPCs, CheckoutPCs, CapturedPCs
    <2>2. pc'[t] \notin InFlightPCs => NoOwn(queue, t)'
        BY <1>3, <1>5, <2>1 DEF Tracked, NoOwn
    <2>3. OneOwn(queue, t)'
        <3>1. OneOwn(q, t)
            BY <1>3 DEF Tracked
        <3> QED BY <1>5, <3>1 DEF OneOwn
    <2>4. ASSUME pc'[t] \notin CapturedPCs PROVE Covered(queue, t)'
        <3>1. Covered(q, t)
            BY <1>3, <2>1, <2>4 DEF Tracked
        <3> SUFFICES ASSUME NEW k \in Jobs \ broken, NEW i \in 1..Len(queue'[k]),
                            queue'[k][i] = Own(t), job[t] # k
                     PROVE  \E l \in 1..Len(queue'[k]) : i < l /\ queue'[k][l] = Rollback(t)
            BY <1>4 DEF Covered
        <3>2. i \in 1..Len(q[k]) /\ q[k][i] = Own(t)
            BY <1>5
        <3>3. PICK l \in 1..Len(q[k]) : i < l /\ q[k][l] = Rollback(t)
            BY <3>1, <3>2 DEF Covered
        <3> QED BY <1>5, <3>3
    <2> QED BY <2>2, <2>3, <2>4
<1>7. NoOrphans(queue, work)'
    <2> SUFFICES ASSUME NEW k \in Jobs, NEW t \in work'[k] \ {Gone}, job[t] # k
                 PROVE  \E l \in 1..Len(queue'[k]) : queue'[k][l] = Rollback(t)
        BY <1>4 DEF NoOrphans
    <2>1. t \in work[k] \ {Gone} /\ t \in Sessions /\ (k = j => Answers(j, Reset(s)))
        BY <1>4 DEF WorkInv, LostWork, TypeInv, TypeOK
    <2>2. PICK l \in 1..Len(queue[k]) : queue[k][l] = Rollback(t)
        BY <2>1 DEF WorkInv, NoOrphans
    <2>3. CASE k # j
        BY <1>2, <1>5, <2>1, <2>2, <2>3
    <2>4. CASE k = j
        <3>1. queue[j][1] = Reset(s)
            BY <2>1, <2>4, PoppedAt DEF TypeInv
        <3>2. l # 1
            BY <2>1, <2>2, <2>4, <3>1, RequestsDiffer
        <3>3. l - 1 \in Nat /\ l - 1 \in 1..Len(q[k]) /\ q[k][l - 1] = Rollback(t)
            BY <1>2, <2>2, <2>4, <3>2
        <3> QED BY <1>5, <2>1, <3>3
    <2> QED BY <2>3, <2>4
<1>8. LostWork(work)' /\ \A t \in Sessions : pc'[t] = "acquiring" => job'[t] = NoJob
    BY <1>4 DEF WorkInv, LostWork, TypeInv, TypeOK
<1> QED BY <1>6, <1>7, <1>8 DEF WorkInv

LEMMA CloseWork ==
    ASSUME TypeInv, TypeInv', WorkInv, NEW s \in Sessions, Close(s) \/ Connect(s)
    PROVE  WorkInv'
<1>1. UNCHANGED <<pc, work, broken>>
    BY DEF Close, Connect, backend
<1>2. CASE Close(s) /\ job[s] # NoJob
    <2>1. /\ job[s] \in Jobs /\ queue \in Queues /\ work' \in [Jobs -> SUBSET Authors]
          /\ job' = [job EXCEPT ![s] = NoJob] /\ queue' = GiveBack(queue, job[s], s)
        BY <1>2 DEF Close, TypeInv, TypeOK, Queues, Authors
    <2>2. /\ \A t \in Sessions :
                /\ NoOwn(queue, t) => NoOwn(queue, t)'
                /\ OneOwn(queue, t)'
                /\ Covered(queue, t) => Covered(queue, t)'
          /\ NoOrphans(queue, work)' /\ LostWork(work)'
        BY <1>1, <2>1, GiveBackWork DEF WorkInv, TypeInv
    <2>3. \A t \in Sessions : pc'[t] = "acquiring" => job'[t] = NoJob
        BY <1>1, <2>1 DEF WorkInv, TypeInv, TypeOK
    <2> QED BY <1>1, <2>2, <2>3 DEF WorkInv, Tracked
<1>3. CASE Connect(s) \/ (Close(s) /\ job[s] = NoJob)
    <2>1. job' = job /\ queue' = queue
        BY <1>3 DEF Close, Connect, TypeInv, TypeOK
    <2> QED BY <1>1, <2>1 DEF WorkInv, Tracked, NoOwn, OneOwn, Covered, NoOrphans, LostWork
<1> QED BY <1>2, <1>3

LEMMA BreakWork ==
    ASSUME TypeInv, WorkInv, NEW j \in Jobs, Break(j) \/ Replace(j)
    PROVE  WorkInv'
<1>1. /\ UNCHANGED <<pc, job, queue>>
      /\ \A k \in Jobs : work'[k] = work[k] \/ work'[k] = {}
      /\ \A k \in broken' : work'[k] = {}
      /\ broken' = broken \cup {j} \/ (broken' = broken \ {j} /\ queue[j] = <<>>)
    BY DEF Break, Replace, Discarded, Ended, fields, WorkInv, LostWork, TypeInv, TypeOK
<1>2. ASSUME NEW t \in Sessions, Covered(queue, t) PROVE Covered(queue, t)'
    <2> SUFFICES ASSUME NEW k \in Jobs \ broken', NEW i \in 1..Len(queue[k]),
                        queue[k][i] = Own(t), job[t] # k
                 PROVE  \E l \in 1..Len(queue[k]) : i < l /\ queue[k][l] = Rollback(t)
        BY <1>1 DEF Covered
    <2>1. queue[k] # <<>>
        OBVIOUS
    <2>2. k \notin broken
        BY <1>1, <2>1
    <2> QED BY <1>2, <2>2 DEF Covered
<1>3. Tracked(queue)'
    BY <1>1, <1>2 DEF WorkInv, Tracked, NoOwn, OneOwn
<1>4. NoOrphans(queue, work)'
    BY <1>1 DEF WorkInv, NoOrphans
<1> QED BY <1>1, <1>3, <1>4 DEF WorkInv, LostWork

LEMMA WorkInit == Init => WorkInv
BY DEF Init, WorkInv, Tracked, NoOwn, OneOwn, Covered, NoOrphans, LostWork

LEMMA WorkStep == TypeInv /\ WorkInv /\ [Next]_vars => WorkInv'
<1>1. ASSUME TypeInv, WorkInv, Next PROVE WorkInv'
    <2>1. TypeInv'
        BY <1>1, TypeStep
    <2> QED BY <1>1, <2>1, AnsweredWork, CheckoutWork, ReleasedWork, CloseWork, BreakWork DEF Next
<1>2. ASSUME WorkInv, UNCHANGED vars PROVE WorkInv'
    BY <1>2 DEF vars, WorkInv, Tracked, NoOwn, OneOwn, Covered, NoOrphans, LostWork
<1> QED BY <1>1, <1>2

LEMMA WorkSafe == TypeInv /\ WorkInv => NoOrphanWork
<1> SUFFICES ASSUME TypeInv, WorkInv, NEW j \in Jobs, NEW s \in work[j] \ {Gone}, job[s] # j
             PROVE  Rollback(s) \in ToSet(queue[j])
    BY DEF NoOrphanWork
<1>1. PICK k \in 1..Len(queue[j]) : queue[j][k] = Rollback(s)
    BY DEF WorkInv, NoOrphans
<1>2. k \in DOMAIN queue[j]
    BY DEF TypeInv, TypeOK
<1> QED BY <1>1, <1>2 DEF ToSet

\* At any moment, whenever clients disconnect and whatever fails, the work that
\* a session has left uncommitted in a job is on the job it holds, or release()
\* has a ROLLBACK for it in the queue of that job: the next session that
\* acquires the job never finds, commits or loses work done for another client
\* that was connected.  The CREATE SCHEMA that a prepareSchema() runs after its
\* client disconnected is not covered by any ROLLBACK, nor by this theorem.
THEOREM NoWorkIsOrphaned == Spec => []NoOrphanWork
<1>1. Init => TypeInv /\ WorkInv
    BY TypeInit, WorkInit
<1>2. TypeInv /\ WorkInv /\ [Next]_vars => (TypeInv /\ WorkInv)'
    BY TypeStep, WorkStep
<1> QED BY <1>1, <1>2, WorkSafe, PTL DEF Spec
=============================================================================
