---------------------- MODULE ProxyTransactionProofs ----------------------
(***************************************************************************)
(* Theorems about ProxySession for clients that disconnect between their   *)
(* commands (~MidCommand), any number of sessions and jobs: whose SQL and  *)
(* whose transaction a job serves, and that the sessions keep to the       *)
(* contract of the pool.  With MidCommand TLC refutes these properties.    *)
(***************************************************************************)
EXTENDS ProxySessionProofs, FiniteSetTheorems

\* Job j as its session s has it once the checkout is over.
Content(s, j) ==
    /\ work[j] \subseteq {s}
    /\ j \notin broken => schema[j] = s
    /\ s \in acked => inTx[s] /\ (j \in broken \/ s \in work[j])
    /\ inTx[s] /\ s \in work[j] => s \in acked

SessionInv(s) ==
    /\ pc[s] # "ready" => ~closed[s]
    /\ closed[s] \/ pc[s] \in {"acquiring", "releasing"} \/ (pc[s] = "ready" /\ ~inTx[s])
          => job[s] = NoJob
    /\ pc[s] \in InFlightPCs => job[s] # NoJob
    /\ pc[s] \in {"committing", "undoing"} => ~inTx[s]
    /\ inTx[s] => s \notin kept
    /\ job[s] = NoJob /\ s \in acked => closed[s]
    /\ job[s] # NoJob =>
          /\ queue[job[s]] = IF pc[s] \in InFlightPCs THEN <<Own(s)>> ELSE <<>>
          /\ pc[s] \in CheckoutPCs =>
                /\ work[job[s]] \subseteq {s} /\ (inTx[s] => work[job[s]] = {})
                /\ s \notin acked
                /\ pc[s] = "settling" /\ job[s] \notin broken => schema[job[s]] = s
          /\ pc[s] \notin CheckoutPCs => Content(s, job[s])

\* A job that no session holds is clean, broken, or being released.
Free(j) ==
    \/ queue[j] = <<>> /\ (j \in broken \/ (schema[j] = Default /\ work[j] = {}))
    \/ \E s \in Sessions : queue[j] = <<Rollback(s)>> /\ work[j] \subseteq {s}
    \/ \E s \in Sessions : queue[j] = <<Reset(s)>> /\ work[j] = {}

JobInv(j) ==
    /\ j \in broken => work[j] = {}
    /\ (\A s \in Sessions : job[s] # j) => Free(j)

CalmInv ==
    /\ OneOwner
    /\ \A s \in Sessions : SessionInv(s)
    /\ \A j \in Jobs : JobInv(j)

-----------------------------------------------------------------------------
(* Steps concern one session and one job.                                  *)

StateSame(t) ==
    /\ closed'[t] = closed[t] /\ inTx'[t] = inTx[t]
    /\ t \in acked' <=> t \in acked
    /\ t \in kept' <=> t \in kept
SessionSame(t) == pc'[t] = pc[t] /\ job'[t] = job[t] /\ StateSame(t)
ContentSame(j) == schema'[j] = schema[j] /\ work'[j] = work[j] /\ (j \in broken' <=> j \in broken)
JobSame(j) == queue'[j] = queue[j] /\ ContentSame(j)

LEMMA SameSession ==
    ASSUME NEW t \in Sessions, TypeOK, SessionInv(t), SessionSame(t),
           job[t] # NoJob => JobSame(job[t])
    PROVE  SessionInv(t)'
<1>1. CASE job[t] = NoJob
    BY <1>1 DEF SessionInv, SessionSame, StateSame
<1>2. CASE job[t] # NoJob
    <2> DEFINE j == job[t]
    <2>1. j = job'[t] /\ JobSame(j)
        BY <1>2 DEF SessionSame
    <2>2. Content(t, j) => Content(t, job[t])'
        BY <2>1 DEF Content, JobSame, ContentSame, SessionSame, StateSame
    <2> QED BY <1>2, <2>1, <2>2 DEF SessionInv, SessionSame, StateSame, JobSame, ContentSame
<1> QED BY <1>1, <1>2

LEMMA SameJob ==
    ASSUME NEW j \in Jobs, JobInv(j), JobSame(j),
           (\A s \in Sessions : job'[s] # j) => \A s \in Sessions : job[s] # j
    PROVE  JobInv(j)'
BY DEF JobInv, JobSame, ContentSame, Free

LEMMA LocalCalm ==
    ASSUME TypeOK, CalmInv, OneOwner', NEW s \in Sessions, NEW j \in Jobs,
           job'[s] = job[s] \/ {job[s], job'[s]} \subseteq {j, NoJob},
           \A t \in Sessions \ {s} : SessionSame(t) /\ job[t] # j,
           \A k \in Jobs \ {j} : JobSame(k),
           SessionInv(s)', JobInv(j)'
    PROVE  CalmInv'
<1>1. ASSUME NEW t \in Sessions \ {s} PROVE SessionInv(t)'
    <2>1. job[t] # NoJob => JobSame(job[t])
        BY DEF TypeOK
    <2> QED BY <2>1, SameSession DEF CalmInv
<1>2. ASSUME NEW k \in Jobs \ {j} PROVE JobInv(k)'
    <2>1. NoJob \notin Jobs
        BY SessionsAssumption
    <2>2. \A t \in Sessions : job'[t] = k <=> job[t] = k
        BY <2>1 DEF SessionSame
    <2> QED BY <2>2, SameJob DEF CalmInv
<1> QED BY <1>1, <1>2 DEF CalmInv

\* A step of one session that leaves the jobs alone.
LEMMA PrivateCalm ==
    ASSUME TypeOK, CalmInv, OneOwner', NEW s \in Sessions, job' = job,
           \A t \in Sessions \ {s} : SessionSame(t),
           \A k \in Jobs : JobSame(k),
           SessionInv(s)'
    PROVE  CalmInv'
<1>1. ASSUME NEW t \in Sessions \ {s} PROVE SessionInv(t)'
    BY SameSession DEF CalmInv, TypeOK
<1>2. ASSUME NEW k \in Jobs PROVE JobInv(k)'
    BY SameJob DEF CalmInv
<1> QED BY <1>1, <1>2 DEF CalmInv

-----------------------------------------------------------------------------
(* The steps that commands share.                                          *)

\* Session s has had the answer to its request, q is what job j has left to
\* do, and the step makes the content of j and the state of s consistent.
Holding(s, j, q) ==
    /\ job[s] = j /\ q \in Queues
    /\ q[j] = <<>> /\ \A k \in Jobs \ {j} : q[k] = queue[k]
    /\ broken' = broken
    /\ \A k \in Jobs \ {j} : ContentSame(k)
    /\ \A t \in Sessions \ {s} : StateSame(t)
    /\ ~closed'[s]
    /\ inTx'[s] => s \notin kept'
    /\ Content(s, j)'
    /\ j \in broken => work'[j] = {}

LEMMA HoldsAlone ==
    ASSUME TypeOK, CalmInv, NEW s \in Sessions, NEW j \in Jobs, job[s] = j
    PROVE  \A t \in Sessions \ {s} : job[t] # j
BY SessionsAssumption DEF CalmInv, OneOwner

LEMMA FinishCalm ==
    ASSUME TypeInv, TypeInv', CalmInv, OneOwner', NEW s \in Sessions, NEW j \in Jobs,
           NEW q, NEW r, Holding(s, j, q), Finish(s, q, r)
    PROVE  CalmInv'
<1>1. \A t \in Sessions \ {s} : job[t] # j
    BY HoldsAlone DEF TypeInv, Holding
<1>2. j # NoJob /\ NoJob \notin Jobs
    BY SessionsAssumption
<1>3. \A t \in Sessions \ {s} : SessionSame(t)
    BY DEF Finish, Goto, Holding, SessionSame, TypeInv, TypeOK
<1>4. CASE IdleJob(s)
    <2>1. /\ job'[s] = NoJob /\ ~inTx'[s] /\ pc'[s] \in {"ready", "releasing"}
          /\ queue' = GiveBack(q, j, s)
        BY <1>4 DEF Finish, Goto, IdleJob, Holding, TypeInv, TypeOK
    <2>2. /\ \A k \in Jobs \ {j} : queue'[k] = queue[k]
          /\ queue'[j] = IF j \in broken THEN <<>> ELSE <<Rollback(s)>>
        BY <2>1 DEF GiveBack, Send, Holding, Queues
    <2>3. \A k \in Jobs \ {j} : JobSame(k)
        BY <2>2 DEF JobSame, Holding
    <2>4. SessionInv(s)'
        BY <2>1 DEF SessionInv, InFlightPCs, Holding, Content
    <2>5. JobInv(j)'
        BY <2>2 DEF JobInv, Free, Holding, Content
    <2> QED BY <1>1, <1>3, <2>1, <2>3, <2>4, <2>5, LocalCalm DEF TypeInv, Holding
<1>5. CASE ~IdleJob(s)
    <2>1. job' = job /\ inTx'[s] /\ pc'[s] = "ready" /\ queue' = q
        BY <1>2, <1>5 DEF Finish, Goto, IdleJob, Holding, TypeInv, TypeOK
    <2>2. \A k \in Jobs \ {j} : JobSame(k)
        BY <2>1 DEF JobSame, Holding
    <2>3. SessionInv(s)'
        BY <1>2, <2>1 DEF SessionInv, InFlightPCs, CheckoutPCs, Holding
    <2>4. JobInv(j)'
        BY <2>1 DEF JobInv, Holding
    <2> QED BY <1>1, <1>3, <2>1, <2>2, <2>3, <2>4, LocalCalm DEF TypeInv
<1> QED BY <1>4, <1>5

LEMMA IssueCalm ==
    ASSUME TypeInv, TypeInv', CalmInv, OneOwner', NEW s \in Sessions, NEW j \in Jobs,
           NEW q, NEW k, NEW p \in InFlightPCs \ CheckoutPCs,
           p \in {"committing", "undoing"} => ~inTx'[s],
           Holding(s, j, q), Issue(s, k, q, p)
    PROVE  CalmInv'
<1>1. \A t \in Sessions \ {s} : job[t] # j
    BY HoldsAlone DEF TypeInv, Holding
<1>2. j # NoJob /\ NoJob \notin Jobs
    BY SessionsAssumption
<1>3. \A t \in Sessions \ {s} : SessionSame(t)
    BY DEF Issue, Goto, Holding, SessionSame, TypeInv, TypeOK
<1>4. job' = job /\ pc'[s] = p /\ queue' = Send(q, j, Own(s))
    BY DEF Issue, Goto, Holding, TypeInv, TypeOK
<1>5. queue'[j] = <<Own(s)>> /\ \A i \in Jobs \ {j} : queue'[i] = queue[i]
    BY <1>4 DEF Send, Holding, Queues
<1>6. \A i \in Jobs \ {j} : JobSame(i)
    BY <1>5 DEF JobSame, Holding
<1>7. SessionInv(s)'
    <2>1. p \notin {"ready", "acquiring", "releasing"}
        BY DEF InFlightPCs
    <2>2. job'[s] = j
        BY <1>4 DEF Holding
    <2> QED BY <1>2, <1>4, <1>5, <2>1, <2>2 DEF SessionInv, Holding
<1>8. JobInv(j)'
    BY <1>4 DEF JobInv, Holding
<1> QED BY <1>1, <1>3, <1>4, <1>6, <1>7, <1>8, LocalCalm DEF TypeInv

\* The end of a command of a session that has no job.
LEMMA FinishFree ==
    ASSUME TypeInv, CalmInv, OneOwner', NEW s \in Sessions, NEW r, job[s] = NoJob,
           UNCHANGED <<schema, work, broken>>,
           \A t \in Sessions \ {s} : StateSame(t),
           ~closed'[s], s \notin acked', inTx'[s] => s \notin kept',
           Finish(s, queue, r)
    PROVE  CalmInv'
<1>1. job' = job /\ queue' = queue /\ pc' = [pc EXCEPT ![s] = "ready"]
    BY DEF Finish, Goto, IdleJob
<1>2. \A t \in Sessions \ {s} : SessionSame(t)
    BY <1>1 DEF SessionSame, TypeInv, TypeOK
<1>3. \A k \in Jobs : JobSame(k)
    BY <1>1 DEF JobSame, ContentSame
<1>4. pc'[s] = "ready" /\ job'[s] = NoJob
    BY <1>1 DEF TypeInv, TypeOK
<1>5. SessionInv(s)'
    BY <1>4 DEF SessionInv, InFlightPCs
<1> QED BY <1>1, <1>2, <1>3, <1>5, PrivateCalm DEF TypeInv

\* The states of executeSql up to its first await: how it ends or goes on, and
\* what it does to the transaction of session s.
LEMMA DispatchCases ==
    ASSUME TypeInv, NEW s \in Sessions, NEW k \in CommandKinds, NEW q, NEW d,
           Dispatch(s, k, q, d)
    PROVE  /\ \/ \E r \in {"ok", "error"} : Finish(s, q, r)
              \/ /\ job[s] # NoJob
                 /\ \E p \in InFlightPCs \ (CheckoutPCs \cup {"committing", "undoing"}) :
                       Issue(s, k, q, p)
           /\ \A t \in Sessions \ {s} : inTx'[t] = inTx[t]
           /\ \/ kept' = d /\ inTx' = inTx /\ acked' = acked
              \/ kept' = d \ {s} /\ inTx'[s] /\ acked' = acked
              \/ job[s] = NoJob /\ kept' = d /\ ~inTx'[s] /\ acked' = acked \ {s}
<1>1. CASE \E r \in {"ok", "error"} : Answer(s, q, d, r)
    BY <1>1 DEF Answer
<1>2. CASE Answer(s, q, d, "error")
    BY <1>2 DEF Answer
<1>3. CASE Begin(s, q, d)
    <2>1. Finish(s, q, "ok") /\ kept' = d \ {s} /\ acked' = acked
        BY <1>3 DEF Begin
    <2>2. inTx'[s] /\ \A t \in Sessions \ {s} : inTx'[t] = inTx[t]
        BY <1>3 DEF Begin, TypeInv, TypeOK
    <2> QED BY <2>1, <2>2
<1>4. CASE EndLocally(s, q, d)
    <2>1. Finish(s, q, "ok") /\ kept' = d /\ acked' = acked \ {s} /\ job[s] = NoJob
        BY <1>4 DEF EndLocally, LeaveTransaction
    <2>2. ~inTx'[s] /\ \A t \in Sessions \ {s} : inTx'[t] = inTx[t]
        BY <1>4 DEF EndLocally, LeaveTransaction, TypeInv, TypeOK
    <2> QED BY <2>1, <2>2
<1>5. CASE /\ k \notin {"begin", "local"} /\ ~Refused(s, k)
           /\ kept' = d
           /\ UNCHANGED <<inTx, failed, acked>>
           /\ \E p \in AwaitsOf(k) : Issue(s, k, q, p)
    <2>1. AwaitsOf(k) \subseteq InFlightPCs \ (CheckoutPCs \cup {"committing", "undoing"})
        BY <1>5, AwaitTypes DEF InFlightPCs, CheckoutPCs
    <2>2. job[s] # NoJob
        BY <1>5 DEF Issue
    <2> QED BY <1>5, <2>1, <2>2
<1>6. CASE Abort(s, q, d)
    BY <1>6 DEF Abort
<1> QED BY <1>1, <1>2, <1>3, <1>4, <1>5, <1>6 DEF Dispatch

LEMMA DispatchCalm ==
    ASSUME TypeInv, TypeInv', CalmInv, OneOwner', NEW s \in Sessions, NEW j \in Jobs,
           NEW q, NEW k \in CommandKinds, NEW d, Holding(s, j, q), Dispatch(s, k, q, d)
    PROVE  CalmInv'
<1>1. CASE \E r \in {"ok", "error"} : Finish(s, q, r)
    BY <1>1, FinishCalm
<1>2. CASE \E p \in InFlightPCs \ (CheckoutPCs \cup {"committing", "undoing"}) : Issue(s, k, q, p)
    BY <1>2, IssueCalm
<1> QED BY <1>1, <1>2, DispatchCases

LEMMA UndoCalm ==
    ASSUME TypeInv, TypeInv', CalmInv, OneOwner', NEW s \in Sessions, NEW j \in Jobs,
           Holding(s, j, Popped(j)), ~inTx[s], UndoOrStop(s, j)
    PROVE  CalmInv'
<1>1. "undoing" \in InFlightPCs \ CheckoutPCs
    BY DEF InFlightPCs, CheckoutPCs
<1>2. ~inTx'[s]
    BY DEF UndoOrStop
<1> QED BY <1>1, <1>2, FinishCalm, IssueCalm DEF UndoOrStop

-----------------------------------------------------------------------------
(* Answers.                                                                *)

\* An answer finds its session with the job that answers, and nothing else
\* outstanding there.
LEMMA AnswerAt ==
    ASSUME TypeInv, CalmInv, NEW s \in Sessions, NEW j \in Jobs, Answers(j, Own(s))
    PROVE  /\ job[s] = j /\ pc[s] \in InFlightPCs /\ ~closed[s]
           /\ Popped(j) \in Queues /\ Popped(j)[j] = <<>>
           /\ \A k \in Jobs \ {j} : Popped(j)[k] = queue[k]
           /\ \A t \in Sessions \ {s} : job[t] # j
           /\ j \in broken => work[j] = {}
           /\ SessionInv(s)
<1>1. Popped(j) \in Queues /\ \A k \in Jobs \ {j} : Popped(j)[k] = queue[k]
    BY PoppedAt DEF TypeInv
<1>2. queue[j] # <<>> /\ Head(queue[j]) = Own(s)
    BY DEF Answers
<1>3. ASSUME Free(j) PROVE FALSE
    <2>1. CASE queue[j] = <<>>
        BY <1>2, <2>1
    <2>2. ASSUME NEW t \in Sessions, queue[j] = <<Rollback(t)>> PROVE FALSE
        <3>1. Head(queue[j]) = Rollback(t)
            BY <2>2
        <3> QED BY <1>2, <3>1, RequestsDiffer
    <2>3. ASSUME NEW t \in Sessions, queue[j] = <<Reset(t)>> PROVE FALSE
        <3>1. Head(queue[j]) = Reset(t)
            BY <2>3
        <3> QED BY <1>2, <3>1, RequestsDiffer
    <2> QED BY <1>3, <2>1, <2>2, <2>3 DEF Free
<1>4. PICK t \in Sessions : job[t] = j
    BY <1>3 DEF CalmInv, JobInv
<1>5. SessionInv(t) /\ j # NoJob
    BY SessionsAssumption DEF CalmInv
<1>6. pc[t] \in InFlightPCs /\ queue[j] = <<Own(t)>>
    BY <1>2, <1>4, <1>5 DEF SessionInv
<1>7. t = s
    <2>1. Head(queue[j]) = Own(t)
        BY <1>6
    <2> QED BY <1>2, <2>1, RequestsDiffer
<1>8. Popped(j)[j] = <<>>
    BY <1>6 DEF Popped, TypeInv, TypeOK
<1>9. ~closed[s]
    BY <1>5, <1>6, <1>7 DEF SessionInv, InFlightPCs
<1>10. \A u \in Sessions \ {s} : job[u] # j
    BY <1>4, <1>7, HoldsAlone DEF TypeInv
<1>11. j \in broken => work[j] = {}
    BY DEF CalmInv, JobInv
<1> QED BY <1>1, <1>4, <1>5, <1>6, <1>7, <1>8, <1>9, <1>10, <1>11

LEMMA HoldingParts ==
    ASSUME TypeInv, CalmInv, NEW s \in Sessions, NEW j \in Jobs, Answers(j, Own(s)),
           UNCHANGED <<closed, schema, broken>>,
           work' \in {work, [work EXCEPT ![j] = {}]},
           \A t \in Sessions \ {s} : inTx'[t] = inTx[t] /\ (t \in acked' <=> t \in acked)
                                     /\ (t \in kept' <=> t \in kept),
           inTx'[s] => s \notin kept',
           Content(s, j)'
    PROVE  Holding(s, j, Popped(j))
<1>1. \A k \in Jobs \ {j} : ContentSame(k)
    BY DEF ContentSame, TypeInv, TypeOK
<1>2. \A t \in Sessions \ {s} : StateSame(t)
    BY DEF StateSame
<1>3. ~closed[s] /\ (j \in broken => work[j] = {})
    BY AnswerAt
<1>4. ~closed'[s]
    BY <1>3
<1>5. j \in broken => work'[j] = {}
    BY <1>3 DEF TypeInv, TypeOK
<1> QED BY <1>1, <1>2, <1>4, <1>5, AnswerAt DEF Holding

\* Answers that leave the transaction and Db2 as they are.
LEMMA QuietHolding ==
    ASSUME TypeInv, CalmInv, NEW s \in Sessions, NEW j \in Jobs, Answers(j, Own(s)),
           pc[s] \notin CheckoutPCs,
           UNCHANGED <<closed, schema, broken, work, inTx, acked, kept>>
    PROVE  Holding(s, j, Popped(j))
<1>0. SessionInv(s) /\ job[s] = j /\ j # NoJob
    BY AnswerAt, SessionsAssumption
<1>1. Content(s, j) /\ (inTx[s] => s \notin kept)
    BY <1>0 DEF SessionInv
<1>2. Content(s, j)'
    BY <1>1 DEF Content
<1> QED BY <1>1, <1>2, HoldingParts

LEMMA CheckoutAnswersCalm ==
    ASSUME TypeInv, TypeInv', CalmInv, OneOwner', NEW s \in Sessions, NEW j \in Jobs,
           pc[s] # "choosing",
           PrepareGoesOn(s, j) \/ Prepared(s, j) \/ Replayed(s, j)
    PROVE  CalmInv'
<1> DEFINE q == Popped(j)
<1>1. Answers(j, Own(s)) /\ pc[s] \in {"preparing", "replaying"} /\ j \notin broken
    BY DEF PrepareGoesOn, Prepared, Replayed
<1>2. /\ job[s] = j /\ ~closed[s] /\ q \in Queues /\ q[j] = <<>> /\ SessionInv(s)
      /\ \A k \in Jobs \ {j} : q[k] = queue[k]
      /\ \A t \in Sessions \ {s} : job[t] # j
      /\ j # NoJob
    BY <1>1, AnswerAt, SessionsAssumption
<1> HIDE DEF q
<1>3. /\ queue' = Send(q, j, Own(s))
      /\ UNCHANGED <<job, inTx, closed, broken, acked, kept>>
      /\ work' = work \/ (~inTx[s] /\ work' = [work EXCEPT ![j] = @ \cup {s}])
      /\ \/ pc'[s] \in {"preparing", "replaying"} /\ schema' = schema
         \/ pc'[s] = "settling" /\ schema' = [schema EXCEPT ![j] = s]
      /\ \A t \in Sessions \ {s} : pc'[t] = pc[t]
  <2>1. CASE PrepareGoesOn(s, j)
      BY <1>2, <2>1 DEF PrepareGoesOn, CreatesSchema, fields, history, q
  <2>2. CASE Prepared(s, j)
      BY <2>2 DEF Prepared, Goto, fields, backend, history, q, TypeInv, TypeOK
  <2>3. CASE Replayed(s, j)
      BY <2>3 DEF Replayed, Goto, SetSchema, fields, history, q, TypeInv, TypeOK
  <2> QED BY <2>1, <2>2, <2>3
<1>4. queue'[j] = <<Own(s)>> /\ \A k \in Jobs \ {j} : queue'[k] = queue[k]
    BY <1>2, <1>3 DEF Send, Queues
<1>5. \A t \in Sessions \ {s} : SessionSame(t)
    BY <1>3 DEF SessionSame, StateSame
<1>6. \A k \in Jobs \ {j} : JobSame(k)
    BY <1>3, <1>4 DEF JobSame, ContentSame, TypeInv, TypeOK
<1>7. /\ work'[j] \subseteq {s} /\ (inTx[s] => work'[j] = {})
      /\ s \notin acked /\ (inTx[s] => s \notin kept)
    BY <1>1, <1>2, <1>3 DEF SessionInv, CheckoutPCs, TypeInv, TypeOK
<1>8. pc'[s] = "settling" => schema'[j] = s
    BY <1>3 DEF TypeInv, TypeOK
<1>9. pc'[s] \in CheckoutPCs /\ pc'[s] \in InFlightPCs
      /\ pc'[s] \notin {"ready", "acquiring", "releasing", "committing", "undoing"}
    BY <1>3 DEF CheckoutPCs, InFlightPCs
<1>10. SessionInv(s)'
    BY <1>2, <1>3, <1>4, <1>7, <1>8, <1>9 DEF SessionInv
<1>11. JobInv(j)'
    BY <1>1, <1>2, <1>3 DEF JobInv
<1> QED BY <1>2, <1>3, <1>5, <1>6, <1>10, <1>11, LocalCalm DEF TypeInv

\* The same of the prepareSchema() of a SET search_path.
LEMMA ChoosingCalm ==
    ASSUME TypeInv, TypeInv', CalmInv, OneOwner', NEW s \in Sessions, NEW j \in Jobs,
           pc[s] = "choosing", PrepareGoesOn(s, j)
    PROVE  CalmInv'
<1> DEFINE q == Popped(j)
<1>1. Answers(j, Own(s)) /\ j \notin broken
    BY DEF PrepareGoesOn
<1>2. job[s] = j /\ SessionInv(s) /\ j # NoJob
    BY <1>1, AnswerAt, SessionsAssumption
<1>3. "choosing" \in InFlightPCs \ CheckoutPCs
    BY DEF InFlightPCs, CheckoutPCs
<1>4. Content(s, j) /\ (inTx[s] => s \notin kept)
    BY <1>2, <1>3 DEF SessionInv
<1>5. /\ UNCHANGED <<closed, inTx, schema, broken, acked, kept>>
      /\ work' = work \/ (~inTx[s] /\ work' = [work EXCEPT ![j] = @ \cup {s}])
    BY <1>2 DEF PrepareGoesOn, CreatesSchema, fields, history
<1>6. Content(s, j)' /\ \A k \in Jobs \ {j} : work'[k] = work[k]
    BY <1>4, <1>5 DEF Content, TypeInv, TypeOK
<1>7. Holding(s, j, q)
  <2>1. /\ \A k \in Jobs \ {j} : ContentSame(k)
        /\ \A t \in Sessions \ {s} : StateSame(t)
      BY <1>5, <1>6 DEF ContentSame, StateSame
  <2> QED BY <1>1, <1>4, <1>5, <1>6, <2>1, AnswerAt DEF Holding
<1>8. Issue(s, cmd[s], q, "choosing")
  <2>1. cmd' = cmd /\ pc' = pc /\ UNCHANGED <<job, erred>> /\ queue' = Send(q, j, Own(s))
      BY DEF PrepareGoesOn, fields, history
  <2>2. cmd' = [cmd EXCEPT ![s] = cmd[s]] /\ pc' = [pc EXCEPT ![s] = "choosing"]
      BY <2>1 DEF TypeInv, TypeOK
  <2> QED BY <1>2, <2>1, <2>2 DEF Issue, Goto
<1> HIDE DEF q
<1> QED BY <1>3, <1>7, <1>8, IssueCalm

LEMMA CheckoutFailsCalm ==
    ASSUME TypeInv, CalmInv, OneOwner', NEW s \in Sessions, NEW j \in Jobs, CheckoutFails(s, j)
    PROVE  CalmInv'
<1> DEFINE q == Popped(j)
<1>1. Answers(j, Own(s)) /\ pc[s] \in CheckoutPCs
    BY DEF CheckoutFails, CheckoutPCs
<1>2. /\ job[s] = j /\ ~closed[s] /\ q[j] = <<>> /\ SessionInv(s)
      /\ \A k \in Jobs \ {j} : q[k] = queue[k]
      /\ \A t \in Sessions \ {s} : job[t] # j
      /\ j # NoJob
    BY <1>1, AnswerAt, SessionsAssumption
<1> HIDE DEF q
<1>3. /\ queue' = q
      /\ UNCHANGED <<inTx, closed, schema, acked, kept>>
      /\ broken' = broken \cup {j} /\ work' = [work EXCEPT ![j] = {}]
      /\ job' = [job EXCEPT ![s] = NoJob] /\ pc' = [pc EXCEPT ![s] = "ready"]
    BY <1>2 DEF CheckoutFails, Discarded, Ended, Forget, Fail, Goto, q, TypeInv, TypeOK
<1>4. \A t \in Sessions \ {s} : SessionSame(t)
    BY <1>3 DEF SessionSame, StateSame, TypeInv, TypeOK
<1>5. \A k \in Jobs \ {j} : JobSame(k)
    BY <1>2, <1>3 DEF JobSame, ContentSame, TypeInv, TypeOK
<1>6. job'[s] = NoJob /\ pc'[s] = "ready" /\ work'[j] = {} /\ queue'[j] = <<>> /\ j \in broken'
    BY <1>2, <1>3 DEF TypeInv, TypeOK
<1>7. s \notin acked /\ (inTx[s] => s \notin kept)
    BY <1>1, <1>2 DEF SessionInv
<1>8. SessionInv(s)'
    BY <1>2, <1>3, <1>6, <1>7 DEF SessionInv, InFlightPCs
<1>9. JobInv(j)'
    BY <1>6 DEF JobInv, Free
<1> QED BY <1>2, <1>4, <1>5, <1>6, <1>8, <1>9, LocalCalm DEF TypeInv

LEMMA SettledCalm ==
    ASSUME TypeInv, TypeInv', CalmInv, OneOwner', NEW s \in Sessions, NEW j \in Jobs, Settled(s, j)
    PROVE  CalmInv'
<1>1. Answers(j, Own(s)) /\ pc[s] = "settling" /\ j \notin broken
    BY DEF Settled
<1>2. job[s] = j /\ SessionInv(s) /\ j # NoJob
    BY <1>1, AnswerAt, SessionsAssumption
<1>3. /\ work[j] \subseteq {s} /\ (inTx[s] => work[j] = {})
      /\ s \notin acked /\ schema[j] = s /\ (inTx[s] => s \notin kept)
    BY <1>1, <1>2 DEF SessionInv, CheckoutPCs
<1>4. Committed(j) = kept
    BY <1>3 DEF Committed
<1>5. cmd[s] \in CommandKinds
    BY <1>1 DEF TypeInv, Busy
<1>6. /\ UNCHANGED <<closed, schema, broken>> /\ work' = [work EXCEPT ![j] = {}]
      /\ Dispatch(s, cmd[s], Popped(j), kept)
    BY <1>4 DEF Settled, Ended
<1>7. /\ \A t \in Sessions \ {s} : inTx'[t] = inTx[t]
      /\ acked' = acked
      /\ \/ kept' = kept /\ inTx' = inTx
         \/ kept' = kept \ {s} /\ inTx'[s]
    BY <1>2, <1>5, <1>6, DispatchCases
<1>8. Content(s, j)'
    BY <1>3, <1>6, <1>7 DEF Content, TypeInv, TypeOK
<1>9. Holding(s, j, Popped(j))
    BY <1>1, <1>3, <1>6, <1>7, <1>8, HoldingParts
<1> QED BY <1>5, <1>6, <1>9, DispatchCalm

LEMMA StatementCalm ==
    ASSUME TypeInv, TypeInv', CalmInv, OneOwner', NEW s \in Sessions, NEW j \in Jobs,
           \/ Executed(s, j) \/ Autocommitted(s, j) \/ Undone(s, j) \/ TransactionEnded(s, j)
    PROVE  CalmInv'
<1> DEFINE q == Popped(j)
<1>1. /\ Answers(j, Own(s)) /\ pc[s] \in {"executing", "committing", "undoing", "ending"}
      /\ UNCHANGED <<closed, schema, broken>>
    BY DEF Executed, Autocommitted, Undone, TransactionEnded
<1>2. job[s] = j /\ SessionInv(s) /\ j # NoJob
    BY <1>1, AnswerAt, SessionsAssumption
<1>3. Content(s, j) /\ (inTx[s] => s \notin kept) /\ (pc[s] \in {"committing", "undoing"} => ~inTx[s])
    BY <1>1, <1>2 DEF SessionInv, CheckoutPCs
<1>4. {"committing"} \subseteq InFlightPCs \ CheckoutPCs
    BY DEF InFlightPCs, CheckoutPCs
<1>5. \A t \in Sessions : t \in Committed(j) => t \in kept \/ (t = s /\ inTx[s])
    BY <1>3 DEF Committed, Content
<1>6. kept \subseteq Committed(j)
    BY DEF Committed
<1> HIDE DEF q
<1>7. CASE Executed(s, j)
    <2>1. /\ work' = [work EXCEPT ![j] = @ \cup {s}] /\ j \notin broken
          /\ acked' = IF inTx[s] THEN acked \cup {s} ELSE acked
          /\ UNCHANGED <<inTx, kept>>
        BY <1>7 DEF Executed
    <2>2. work'[j] = work[j] \cup {s}
        BY <2>1 DEF TypeInv, TypeOK
    <2>3. Content(s, j)'
        BY <1>1, <1>3, <2>1, <2>2 DEF Content
    <2>4. \A k \in Jobs \ {j} : ContentSame(k)
        BY <1>1, <2>1 DEF ContentSame, TypeInv, TypeOK
    <2>5. \A t \in Sessions \ {s} : StateSame(t)
        BY <1>1, <2>1 DEF StateSame
    <2>6. Holding(s, j, q)
        BY <1>1, <1>3, <2>1, <2>3, <2>4, <2>5, AnswerAt DEF Holding, q
    <2> QED BY <1>4, <1>7, <2>1, <2>6, FinishCalm, IssueCalm DEF Executed, CommitFirst, q
<1>8. CASE Autocommitted(s, j) \/ Undone(s, j)
    <2>1. /\ work' = [work EXCEPT ![j] = {}] /\ UNCHANGED <<inTx, acked>> /\ ~inTx[s]
          /\ kept' \in {kept, Committed(j)}
          /\ \E r \in {"ok", "error"} : Finish(s, q, r)
        BY <1>1, <1>3, <1>8 DEF Autocommitted, Undone, Ended, Answer, q
    <2>2. kept' = kept
        BY <1>5, <1>6, <2>1 DEF Committed, TypeInv, TypeOK
    <2>3. work'[j] = {} /\ Content(s, j)'
        BY <1>1, <1>3, <2>1 DEF Content, TypeInv, TypeOK
    <2>4. Holding(s, j, q)
        BY <1>1, <2>1, <2>2, <2>3, HoldingParts DEF q
    <2> QED BY <2>1, <2>4, FinishCalm
<1>9. CASE TransactionEnded(s, j)
    <2>1. /\ work' = [work EXCEPT ![j] = {}] /\ acked' = acked \ {s}
          /\ ~inTx'[s] /\ \A t \in Sessions \ {s} : inTx'[t] = inTx[t]
          /\ kept' \in {kept, Committed(j)}
          /\ Finish(s, q, "ok")
        BY <1>9 DEF TransactionEnded, Ended, LeaveTransaction, q, TypeInv, TypeOK
    <2>2. \A t \in Sessions \ {s} : t \in kept' <=> t \in kept
        BY <1>5, <1>6, <2>1
    <2>3. work'[j] = {} /\ Content(s, j)'
        BY <1>1, <1>3, <2>1 DEF Content, TypeInv, TypeOK
    <2>4. Holding(s, j, q)
        BY <1>1, <2>1, <2>2, <2>3, HoldingParts DEF q
    <2> QED BY <2>1, <2>4, FinishCalm
<1> QED BY <1>7, <1>8, <1>9

LEMMA AnsweredCalm ==
    ASSUME TypeInv, TypeInv', CalmInv, OneOwner', NEW s \in Sessions, NEW j \in Jobs, Answered(s, j)
    PROVE  CalmInv'
<1> DEFINE Quiet == \/ PathPrepared(s, j) \/ PathSet(s, j) \/ Read(s, j) \/ ReadFails(s, j)
                    \/ ExecuteFails(s, j) \/ AutocommitFails(s, j)
                    \/ EndingFails(s, j) \/ Marked(s, j) \/ MarkingFails(s, j)
<1>1. CASE Quiet
    <2>1. /\ Answers(j, Own(s)) /\ pc[s] \notin CheckoutPCs
          /\ UNCHANGED <<closed, schema, broken, work, inTx, acked, kept>>
      <3>1. CASE PathPrepared(s, j)
          BY <3>1 DEF PathPrepared, IssueNext, Answer, backend, CheckoutPCs
      <3>2. CASE PathSet(s, j)
        <4>1. Answers(j, Own(s)) /\ pc[s] \notin CheckoutPCs /\ j \notin broken
            BY <3>2 DEF PathSet, CheckoutPCs
        <4>2. job[s] = j /\ j # NoJob /\ SessionInv(s)
            BY <4>1, AnswerAt, SessionsAssumption
        <4>3. Content(s, j)
            BY <4>1, <4>2 DEF SessionInv
        <4>4. schema[j] = s /\ schema \in [Jobs -> Sessions \cup {Default}]
            BY <4>1, <4>3 DEF Content, TypeInv, TypeOK
        <4>5. schema' = [schema EXCEPT ![j] = s]
            BY <3>2 DEF PathSet, SetSchema
        <4>6. schema' = schema
            BY <4>4, <4>5
        <4> QED BY <3>2, <4>1, <4>6 DEF PathSet, IssueNext, Answer
      <3>3. CASE Read(s, j)
          BY <3>3 DEF Read, IssueNext, Answer, backend, CheckoutPCs
      <3>4. CASE ~(PathPrepared(s, j) \/ PathSet(s, j) \/ Read(s, j))
          BY <1>1, <3>4 DEF ReadFails, ExecuteFails, AutocommitFails, EndingFails, Marked,
                    MarkingFails, Answer, Abort, UndoOrStop, backend, CheckoutPCs
      <3> QED BY <3>1, <3>2, <3>3, <3>4
    <2>2. Holding(s, j, Popped(j))
        BY <2>1, QuietHolding
    <2>3. {"switching", "reading", "executing", "committing"} \subseteq InFlightPCs \ CheckoutPCs
        BY DEF InFlightPCs, CheckoutPCs
    <2>4. CASE PathPrepared(s, j) \/ PathSet(s, j) \/ Read(s, j)
        <3>1. \/ \E k : \E p \in {"switching", "reading", "executing", "committing"} :
                    Issue(s, k, Popped(j), p) /\ (p = "committing" => ~inTx[s])
              \/ \E u \in {"ok", "error"} : Finish(s, Popped(j), u)
            BY <2>4 DEF PathPrepared, PathSet, Read, IssueNext, Answer
        <3> QED BY <2>1, <2>2, <2>3, <3>1, IssueCalm, FinishCalm
    <2>5. CASE ExecuteFails(s, j)
        BY <2>2, <2>5, FinishCalm, UndoCalm DEF ExecuteFails, Abort
    <2>6. CASE AutocommitFails(s, j)
        <3>1. ~inTx[s]
            BY <2>6 DEF AutocommitFails, CalmInv, SessionInv
        <3> QED BY <2>2, <2>6, <3>1, FinishCalm, UndoCalm DEF AutocommitFails, Answer
    <2>7. CASE ReadFails(s, j) \/ EndingFails(s, j) \/ Marked(s, j) \/ MarkingFails(s, j)
        BY <2>2, <2>7, FinishCalm DEF ReadFails, EndingFails, Marked, MarkingFails, Answer
    <2> QED BY <1>1, <2>4, <2>5, <2>6, <2>7
<1>2. CASE Prepared(s, j) \/ Replayed(s, j)
    <2>1. pc[s] # "choosing"
        BY <1>2 DEF Prepared, Replayed
    <2> QED BY <1>2, <2>1, CheckoutAnswersCalm
<1> QED BY <1>1, <1>2, CheckoutFailsCalm, SettledCalm, StatementCalm DEF Answered

-----------------------------------------------------------------------------
(* Commands that begin, the end of sessions, and the jobs.                 *)

LEMMA HandleCalm ==
    ASSUME TypeInv, TypeInv', CalmInv, OneOwner', NEW s \in Sessions,
           NEW k \in Commands, NEW msg \in Messages(k), Handle(s, k, msg)
    PROVE  CalmInv'
<1>1. /\ pc[s] = "ready" /\ ~closed[s] /\ UNCHANGED <<closed, schema, work, broken>>
      /\ Dispatch(s, k, queue, kept) /\ k \in CommandKinds /\ SessionInv(s)
    BY SessionsAssumption DEF Handle, backend, CalmInv
<1>2. "ready" \notin InFlightPCs \cup CheckoutPCs
    BY DEF InFlightPCs, CheckoutPCs
<1>3. inTx[s] => s \notin kept
    BY <1>1 DEF SessionInv
<1>4. /\ \A t \in Sessions \ {s} : inTx'[t] = inTx[t]
      /\ \/ kept' = kept /\ inTx' = inTx /\ acked' = acked
         \/ kept' = kept \ {s} /\ inTx'[s] /\ acked' = acked
         \/ job[s] = NoJob /\ kept' = kept /\ ~inTx'[s] /\ acked' = acked \ {s}
    BY <1>1, DispatchCases
<1>5. /\ \A t \in Sessions \ {s} : StateSame(t)
      /\ inTx'[s] => s \notin kept'
    BY <1>1, <1>3, <1>4 DEF StateSame
<1>6. CASE job[s] = NoJob
    <2>1. s \notin acked
        BY <1>1, <1>6 DEF SessionInv
    <2>2. s \notin acked' /\ ~closed'[s]
        BY <1>1, <1>4, <2>1
    <2>3. \E r \in {"ok", "error"} : Finish(s, queue, r)
        BY <1>1, <1>6, DispatchCases
    <2> QED BY <1>1, <1>5, <1>6, <2>2, <2>3, FinishFree
<1>7. CASE job[s] # NoJob
    <2>1. PICK j \in Jobs : j = job[s]
        BY <1>7 DEF TypeInv, TypeOK
    <2>2. inTx[s] /\ queue[j] = <<>> /\ Content(s, j)
        BY <1>1, <1>2, <1>7, <2>1 DEF SessionInv
    <2>3. inTx'[s] /\ acked' = acked
        BY <1>4, <1>7, <2>2
    <2>4. Content(s, j)'
        BY <1>1, <2>2, <2>3 DEF Content
    <2>5. queue \in Queues /\ (j \in broken => work'[j] = {}) /\ ~closed'[s]
        BY <1>1, <2>1 DEF TypeInv, TypeOK, Queues, CalmInv, JobInv
    <2>6. \A i \in Jobs \ {j} : ContentSame(i)
        BY <1>1 DEF ContentSame
    <2>7. Holding(s, j, queue)
        BY <1>1, <1>5, <2>1, <2>2, <2>4, <2>5, <2>6 DEF Holding
    <2> QED BY <1>1, <2>1, <2>7, DispatchCalm
<1> QED BY <1>6, <1>7

LEMMA CheckoutCalm ==
    ASSUME TypeInv, CalmInv, OneOwner', NEW s \in Sessions,
           \/ \E k \in Commands : \E msg \in Messages(k) : Checkout(s, k, msg)
           \/ AcquireFails(s)
    PROVE  CalmInv'
<1>1. /\ UNCHANGED <<job, inTx, closed, queue, schema, work, broken, acked, kept>>
      /\ \/ pc[s] = "ready" /\ ~closed[s] /\ job[s] = NoJob /\ pc' = [pc EXCEPT ![s] = "acquiring"]
         \/ pc[s] = "acquiring" /\ pc' = [pc EXCEPT ![s] = "ready"]
    BY DEF Checkout, AcquireFails, Fail, Goto, backend, history
<1>2. SessionInv(s)
    BY DEF CalmInv
<1>3. job[s] = NoJob /\ ~closed[s] /\ pc'[s] \in {"ready", "acquiring"}
    BY <1>1, <1>2 DEF SessionInv, TypeInv, TypeOK
<1>4. \A t \in Sessions \ {s} : SessionSame(t)
    BY <1>1 DEF SessionSame, StateSame, TypeInv, TypeOK
<1>5. \A k \in Jobs : JobSame(k)
    BY <1>1 DEF JobSame, ContentSame
<1>6. SessionInv(s)'
    BY <1>1, <1>2, <1>3 DEF SessionInv, InFlightPCs
<1> QED BY <1>1, <1>4, <1>5, <1>6, PrivateCalm DEF TypeInv

\* A job that acquire() may hand out has nothing to do and no state of others.
LEMMA AvailableJobs ==
    ASSUME TypeInv, CalmInv, NEW j \in Jobs, j \notin broken, Available(j)
    PROVE  queue[j] = <<>> /\ schema[j] = Default /\ work[j] = {}
<1>1. Free(j) /\ queue[j] \in Seq(Requests)
    BY DEF CalmInv, JobInv, Available, TypeInv, TypeOK
<1>2. ASSUME NEW r \in Requests, queue[j] = <<r>>, r.op # "own" PROVE FALSE
    <2>1. r \in ToSet(queue[j])
        <3>1. 1 \in DOMAIN queue[j] /\ queue[j][1] = r
            BY <1>2
        <3> QED BY <3>1 DEF ToSet
    <2> QED BY <1>2, <2>1 DEF Available
<1>3. \A s \in Sessions : /\ Rollback(s) \in Requests /\ Rollback(s).op # "own"
                          /\ Reset(s) \in Requests /\ Reset(s).op # "own"
    BY DEF Rollback, Reset, Requests
<1> QED BY <1>1, <1>2, <1>3 DEF Free

LEMMA AcquiredCalm ==
    ASSUME TypeInv, CalmInv, OneOwner', NEW s \in Sessions, NEW j \in Jobs, Acquired(s, j)
    PROVE  CalmInv'
<1>1. pc[s] = "acquiring" /\ j \notin broken /\ Available(j)
    BY DEF Acquired
<1>2. queue[j] = <<>> /\ work[j] = {} /\ \A t \in Sessions : job[t] # j
    BY <1>1, AvailableJobs DEF Available
<1>3. SessionInv(s) /\ NoJob \notin Jobs
    BY SessionsAssumption DEF CalmInv
<1>4. job[s] = NoJob /\ ~closed[s] /\ s \notin acked /\ (inTx[s] => s \notin kept)
    BY <1>1, <1>3 DEF SessionInv
<1>5. /\ UNCHANGED <<inTx, closed, schema, work, broken, acked, kept>>
      /\ job' = [job EXCEPT ![s] = j] /\ queue' = Send(queue, j, Own(s))
      /\ \E p \in {"preparing", "replaying"} : pc' = [pc EXCEPT ![s] = p]
    BY DEF Acquired, Goto, fields, backend, history
<1>6. /\ job'[s] = j /\ pc'[s] \in {"preparing", "replaying"}
      /\ \A t \in Sessions \ {s} : pc'[t] = pc[t] /\ job'[t] = job[t]
    BY <1>5 DEF TypeInv, TypeOK
<1>7. queue'[j] = <<Own(s)>> /\ \A k \in Jobs \ {j} : queue'[k] = queue[k]
    BY <1>2, <1>5 DEF Send, TypeInv, TypeOK
<1>8. \A t \in Sessions \ {s} : SessionSame(t)
    BY <1>5, <1>6 DEF SessionSame, StateSame
<1>9. \A k \in Jobs \ {j} : JobSame(k)
    BY <1>5, <1>7 DEF JobSame, ContentSame
<1>10. pc'[s] \in CheckoutPCs /\ pc'[s] \in InFlightPCs
       /\ pc'[s] \notin {"ready", "acquiring", "releasing", "committing", "undoing", "settling"}
    BY <1>6 DEF CheckoutPCs, InFlightPCs
<1>11. SessionInv(s)'
    BY <1>2, <1>3, <1>4, <1>5, <1>6, <1>7, <1>10 DEF SessionInv
<1>12. JobInv(j)'
    BY <1>2, <1>5, <1>6 DEF JobInv
<1> QED BY <1>2, <1>4, <1>6, <1>8, <1>9, <1>11, <1>12, LocalCalm DEF TypeInv

LEMMA ReleasedCalm ==
    ASSUME TypeInv, CalmInv, OneOwner', NEW s \in Sessions, NEW j \in Jobs, Released(s, j)
    PROVE  CalmInv'
<1>1. PICK r \in {Rollback(s), Reset(s)} :
         /\ Answers(j, r)
         /\ \/ r = Rollback(s) /\ RolledBack(s, j)
            \/ r = Reset(s) /\ SchemaReset(s, j)
            \/ ReleaseFails(s, j)
    BY DEF Released, RolledBack, SchemaReset, ReleaseFails
<1>2. /\ \A t \in Sessions : r # Own(t)
      /\ \A t \in Sessions : r = Rollback(t) => t = s
      /\ r # Rollback(s) => r = Reset(s)
    BY RequestsDiffer
<1>3. queue[j] # <<>> /\ Head(queue[j]) = r
    BY <1>1 DEF Answers
<1>4. \A t \in Sessions : job[t] # j
    <2> SUFFICES ASSUME NEW t \in Sessions, job[t] = j PROVE FALSE
        OBVIOUS
    <2>1. SessionInv(t) /\ j # NoJob
        BY SessionsAssumption DEF CalmInv
    <2>2. queue[j] \in {<<>>, <<Own(t)>>}
        BY <2>1 DEF SessionInv
    <2>3. Head(<<Own(t)>>) = Own(t)
        OBVIOUS
    <2> QED BY <1>2, <1>3, <2>2, <2>3
<1>5. Free(j) /\ (j \in broken => work[j] = {}) /\ SessionInv(s)
    BY <1>4 DEF CalmInv, JobInv
<1>6. PICK u \in Sessions : \/ queue[j] = <<Rollback(u)>> /\ work[j] \subseteq {u}
                            \/ queue[j] = <<Reset(u)>> /\ work[j] = {}
    BY <1>3, <1>5 DEF Free
<1>7. queue[j] = <<r>> /\ (r = Rollback(s) => work[j] \subseteq {s}) /\ (r = Reset(s) => work[j] = {})
    <2>1. Head(<<Rollback(u)>>) = Rollback(u) /\ Head(<<Reset(u)>>) = Reset(u)
        OBVIOUS
    <2> QED BY <1>2, <1>3, <1>6, <2>1, RequestsDiffer
<1>8. Popped(j)[j] = <<>> /\ \A k \in Jobs \ {j} : Popped(j)[k] = queue[k]
    BY <1>7 DEF Popped, TypeInv, TypeOK
<1>9. Popped(j) \in Queues
    BY <1>1, PoppedType DEF TypeInv
<1>10. /\ UNCHANGED <<job, inTx, closed, broken, acked, kept>>
       /\ \A t \in Sessions \ {s} : pc'[t] = pc[t]
       /\ pc'[s] = pc[s] \/ (pc[s] = "releasing" /\ pc'[s] = "ready")
    BY DEF Released, RolledBack, SchemaReset, ReleaseFails, Returned, Goto, fields, history,
           backend, TypeInv, TypeOK
<1>11. /\ \A k \in Jobs \ {j} : schema'[k] = schema[k] /\ work'[k] = work[k] /\ queue'[k] = queue[k]
       /\ work'[j] \subseteq work[j]
       /\ \/ queue'[j] = <<Reset(s)>> /\ work'[j] = {}
          \/ queue'[j] = <<>> /\ (j \in broken \/ (schema'[j] = Default /\ work'[j] = {}))
  <2>1. CASE r = Rollback(s) /\ RolledBack(s, j)
      BY <1>8, <1>9, <2>1 DEF RolledBack, Ended, Send, Queues, TypeInv, TypeOK
  <2>2. CASE r = Reset(s) /\ SchemaReset(s, j)
      BY <1>7, <1>8, <2>2 DEF SchemaReset, TypeInv, TypeOK
  <2>3. CASE ReleaseFails(s, j)
      BY <1>8, <2>3 DEF ReleaseFails, backend
  <2> QED BY <1>1, <2>1, <2>2, <2>3
<1>12. \A t \in Sessions \ {s} : SessionSame(t)
    BY <1>10 DEF SessionSame, StateSame
<1>13. \A k \in Jobs \ {j} : JobSame(k)
    BY <1>10, <1>11 DEF JobSame, ContentSame
<1>14. SessionInv(s)'
    <2>1. CASE job[s] = NoJob
        BY <1>5, <1>10, <2>1 DEF SessionInv, InFlightPCs
    <2>2. CASE job[s] # NoJob
        <3>1. pc[s] # "releasing" /\ job[s] \in Jobs \ {j}
            BY <1>4, <1>5, <2>2 DEF SessionInv, TypeInv, TypeOK
        <3>2. SessionSame(s) /\ JobSame(job[s])
            BY <1>10, <1>13, <3>1 DEF SessionSame, StateSame
        <3> QED BY <1>5, <3>2, SameSession DEF TypeInv
    <2> QED BY <2>1, <2>2
<1>15. JobInv(j)'
    BY <1>5, <1>10, <1>11 DEF JobInv, Free
<1> QED BY <1>4, <1>10, <1>12, <1>13, <1>14, <1>15, LocalCalm DEF TypeInv

LEMMA CloseCalm ==
    ASSUME TypeInv, CalmInv, OneOwner', ~MidCommand, NEW s \in Sessions, Close(s)
    PROVE  CalmInv'
<1>1. /\ pc[s] = "ready" /\ UNCHANGED <<pc, inTx, schema, work, broken, acked, kept>>
      /\ closed' = [closed EXCEPT ![s] = TRUE] /\ job' = [job EXCEPT ![s] = NoJob]
    BY DEF Close, backend, history
<1>2. SessionInv(s) /\ "ready" \notin InFlightPCs \cup CheckoutPCs
    BY DEF CalmInv, InFlightPCs, CheckoutPCs
<1>3. /\ closed'[s] /\ job'[s] = NoJob /\ pc'[s] = "ready"
      /\ \A t \in Sessions \ {s} : SessionSame(t)
    BY <1>1 DEF SessionSame, StateSame, TypeInv, TypeOK
<1>4. inTx[s] => s \notin kept
    BY <1>2 DEF SessionInv
<1>5. SessionInv(s)'
    BY <1>1, <1>2, <1>3, <1>4 DEF SessionInv
<1>6. CASE job[s] = NoJob
    <2>1. job' = job /\ queue' = queue
        BY <1>1, <1>6 DEF Close, TypeInv, TypeOK
    <2>2. \A k \in Jobs : JobSame(k)
        BY <1>1, <2>1 DEF JobSame, ContentSame
    <2> QED BY <1>3, <1>5, <2>1, <2>2, PrivateCalm DEF TypeInv
<1>7. CASE job[s] # NoJob
    <2>1. PICK j \in Jobs : j = job[s]
        BY <1>7 DEF TypeInv, TypeOK
    <2>2. queue[j] = <<>> /\ Content(s, j) /\ (j \in broken => work[j] = {})
        BY <1>1, <1>2, <1>7, <2>1 DEF SessionInv, CalmInv, JobInv
    <2>3. queue' = GiveBack(queue, j, s)
        BY <1>7, <2>1 DEF Close
    <2>4. /\ \A k \in Jobs \ {j} : queue'[k] = queue[k]
          /\ queue'[j] = IF j \in broken THEN <<>> ELSE <<Rollback(s)>>
        BY <2>2, <2>3 DEF GiveBack, Send, TypeInv, TypeOK
    <2>5. \A k \in Jobs \ {j} : JobSame(k)
        BY <1>1, <2>4 DEF JobSame, ContentSame
    <2>6. JobInv(j)'
        BY <1>1, <2>2, <2>4 DEF JobInv, Free, Content
    <2>7. \A t \in Sessions \ {s} : job[t] # j
        BY <2>1, HoldsAlone DEF TypeInv
    <2> QED BY <1>3, <1>5, <2>1, <2>5, <2>6, <2>7, LocalCalm DEF TypeInv
<1> QED BY <1>6, <1>7

LEMMA ConnectCalm ==
    ASSUME TypeInv, CalmInv, OneOwner', NEW s \in Sessions, Connect(s)
    PROVE  CalmInv'
<1>1. /\ UNCHANGED <<pc, job, queue, schema, work, broken>> /\ pc[s] = "ready" /\ job[s] = NoJob
      /\ ~closed'[s] /\ ~inTx'[s] /\ s \notin acked'
    BY DEF Connect, backend, TypeInv, TypeOK
<1>2. \A t \in Sessions \ {s} : SessionSame(t)
    BY DEF Connect, SessionSame, StateSame, TypeInv, TypeOK
<1>3. \A k \in Jobs : JobSame(k)
    BY <1>1 DEF JobSame, ContentSame
<1>4. SessionInv(s)'
    BY <1>1 DEF SessionInv, InFlightPCs
<1> QED BY <1>1, <1>2, <1>3, <1>4, PrivateCalm DEF TypeInv

LEMMA BreakCalm ==
    ASSUME TypeInv, CalmInv, OneOwner', NEW j \in Jobs, Break(j) \/ Replace(j)
    PROVE  CalmInv'
<1>1. /\ UNCHANGED <<pc, job, inTx, closed, queue, acked, kept>>
      /\ \A k \in Jobs \ {j} : ContentSame(k)
    BY DEF Break, Replace, Discarded, Ended, fields, history, ContentSame, TypeInv, TypeOK
<1>2. \A t \in Sessions : SessionSame(t)
    BY <1>1 DEF SessionSame, StateSame
<1>3. \A k \in Jobs \ {j} : JobSame(k)
    BY <1>1 DEF JobSame
<1>4. ASSUME NEW k \in Jobs \ {j} PROVE JobInv(k)'
    BY <1>1, <1>3, SameJob DEF CalmInv
<1>5. ASSUME NEW t \in Sessions, job[t] # j PROVE SessionInv(t)'
    <2>1. job[t] # NoJob => JobSame(job[t])
        BY <1>3, <1>5 DEF TypeInv, TypeOK
    <2> QED BY <1>2, <2>1, SameSession DEF CalmInv, TypeInv
<1>6. CASE Break(j)
    <2>1. j \in broken' /\ work'[j] = {} /\ schema' = schema
        BY <1>6 DEF Break, Discarded, Ended, TypeInv, TypeOK
    <2>2. JobInv(j)'
        BY <1>1, <2>1 DEF CalmInv, JobInv, Free
    <2>3. ASSUME NEW t \in Sessions, job[t] = j PROVE SessionInv(t)'
        <3>1. SessionInv(t) /\ j # NoJob
            BY SessionsAssumption DEF CalmInv
        <3>2. Content(t, j) => Content(t, j)'
            BY <1>1, <2>1 DEF Content
        <3> QED BY <1>1, <2>1, <2>3, <3>1, <3>2 DEF SessionInv
    <2> QED BY <1>4, <1>5, <2>2, <2>3 DEF CalmInv
<1>7. CASE Replace(j)
    <2>1. /\ queue[j] = <<>> /\ work'[j] = {} /\ schema'[j] = Default
          /\ \A t \in Sessions : job[t] # j
        BY <1>7 DEF Replace, CalmInv, JobInv, TypeInv, TypeOK
    <2>2. JobInv(j)'
        BY <1>1, <2>1 DEF JobInv, Free
    <2> QED BY <1>4, <1>5, <2>1, <2>2 DEF CalmInv
<1> QED BY <1>6, <1>7

LEMMA CalmInit == Init => CalmInv
<1> SUFFICES ASSUME Init PROVE CalmInv
    OBVIOUS
<1>1. OneOwner
    BY DEF Init, OneOwner
<1>2. ASSUME NEW s \in Sessions PROVE SessionInv(s)
    BY DEF Init, SessionInv, InFlightPCs
<1>3. ASSUME NEW j \in Jobs PROVE JobInv(j)
    BY DEF Init, JobInv, Free
<1> QED BY <1>1, <1>2, <1>3 DEF CalmInv

LEMMA CalmStep ==
    ASSUME ~MidCommand PROVE TypeInv /\ CalmInv /\ [Next]_vars => CalmInv'
<1>1. ASSUME TypeInv, CalmInv, Next PROVE CalmInv'
    <2>1. TypeInv'
        BY <1>1, TypeStep
    <2>2. OneOwner'
        BY <1>1, OwnerStep DEF CalmInv, OwnerInv, JobsType, TypeInv, TypeOK
    <2> QED BY <1>1, <2>1, <2>2, HandleCalm, CheckoutCalm, AcquiredCalm, CheckoutAnswersCalm, ChoosingCalm,
               AnsweredCalm, ReleasedCalm, CloseCalm, ConnectCalm, BreakCalm DEF Next
<1>2. ASSUME CalmInv, UNCHANGED vars PROVE CalmInv'
    <2>1. UNCHANGED <<pc, job, inTx, closed, queue, schema, work, broken, acked, kept>>
        BY <1>2 DEF vars
    <2>2. OneOwner'
        BY <1>2, <2>1 DEF CalmInv, OneOwner
    <2>3. ASSUME NEW s \in Sessions PROVE SessionInv(s)'
        BY <1>2, <2>1 DEF CalmInv, SessionInv, Content
    <2>4. ASSUME NEW j \in Jobs PROVE JobInv(j)'
        BY <1>2, <2>1 DEF CalmInv, JobInv, Free
    <2> QED BY <2>2, <2>3, <2>4 DEF CalmInv
<1> QED BY <1>1, <1>2

LEMMA CalmAlways == ASSUME ~MidCommand PROVE Spec => [](TypeInv /\ CalmInv)
<1>1. Init => TypeInv /\ CalmInv
    BY TypeInit, CalmInit
<1>2. TypeInv /\ CalmInv /\ [Next]_vars => (TypeInv /\ CalmInv)'
    BY TypeStep, CalmStep
<1> QED BY <1>1, <1>2, PTL DEF Spec

-----------------------------------------------------------------------------
(* What the invariant is for.                                              *)

\* A job that has a request of session s outstanding is the job of s, and has
\* no other one.
LEMMA OwnRequest ==
    ASSUME TypeInv, CalmInv, NEW s \in Sessions, NEW j \in Jobs, Own(s) \in ToSet(queue[j])
    PROVE  queue[j] = <<Own(s)>>
<1>1. PICK i \in DOMAIN queue[j] : queue[j][i] = Own(s)
    BY DEF ToSet
<1>2. i \in 1..Len(queue[j])
    BY DEF TypeInv, TypeOK
<1>3. ASSUME NEW r, queue[j] = <<r>> PROVE r = Own(s)
    BY <1>1, <1>2, <1>3
<1>4. PICK t \in Sessions : job[t] = j
    <2>1. queue[j] # <<>>
        BY <1>2
    <2>2. ~Free(j)
        BY <1>3, <2>1, RequestsDiffer DEF Free
    <2> QED BY <2>2 DEF CalmInv, JobInv
<1>5. queue[j] \in {<<>>, <<Own(t)>>}
    BY <1>4, SessionsAssumption DEF CalmInv, SessionInv
<1> QED BY <1>2, <1>3, <1>5

\* "A SQLJob is never used concurrently": at no time do the commands of two
\* sessions have requests outstanding on one job.
THEOREM JobsAreNeverConcurrent == ASSUME ~MidCommand PROVE Spec => []NeverConcurrent
<1>1. TypeInv /\ CalmInv => NeverConcurrent
    <2> SUFFICES ASSUME TypeInv, CalmInv, NEW j \in Jobs, NEW s \in Sessions, NEW t \in Sessions,
                        {Own(s), Own(t)} \subseteq ToSet(queue[j])
                 PROVE  s = t
        BY DEF NeverConcurrent
    <2>1. queue[j] = <<Own(s)>> /\ queue[j] = <<Own(t)>>
        BY OwnRequest
    <2>2. Own(s) = Own(t)
        BY <2>1
    <2> QED BY <2>2, RequestsDiffer
<1> QED BY <1>1, CalmAlways, PTL

\* A statement of a client is executed in the client's own current schema,
\* whatever sessions the job served before and however the checkout went.
THEOREM SqlRunsInItsSchema == ASSUME ~MidCommand PROVE Spec => []OwnSchema
<1>1. TypeInv /\ CalmInv => OwnSchema
    <2> SUFFICES ASSUME TypeInv, CalmInv, NEW s \in Sessions, NEW j \in Jobs,
                        pc[s] = "executing", Answers(j, Own(s)), j \notin broken
                 PROVE  schema[j] = s
        BY DEF OwnSchema
    <2>1. job[s] = j /\ SessionInv(s) /\ j # NoJob
        BY AnswerAt, SessionsAssumption
    <2> QED BY <2>1 DEF SessionInv, CheckoutPCs, Content
<1> QED BY <1>1, CalmAlways, PTL

\* No statement of an open transaction becomes permanent before its COMMIT:
\* neither an autocommit nor the COMMIT of a schema replay ever ends the unit
\* of work of a transaction of any session.
THEOREM NothingIsCommittedEarly == ASSUME ~MidCommand PROVE Spec => []NoPartialCommit
<1>1. CalmInv => NoPartialCommit
    BY DEF CalmInv, SessionInv, NoPartialCommit
<1> QED BY <1>1, CalmAlways, PTL

\* What an open transaction was told had succeeded stays uncommitted on the job
\* it has pinned, to the end of the transaction or the loss of the job.
THEOREM WorkStaysPinned == ASSUME ~MidCommand PROVE Spec => []WorkIsPinned
<1>1. CalmInv => WorkIsPinned
    <2> SUFFICES ASSUME CalmInv, NEW s \in Sessions, inTx[s], s \in acked, ~closed[s]
                 PROVE  job[s] # NoJob /\ (job[s] \in broken \/ s \in work[job[s]])
        BY DEF WorkIsPinned
    <2>1. SessionInv(s)
        BY DEF CalmInv
    <2>2. job[s] # NoJob
        BY <2>1 DEF SessionInv
    <2>3. Content(s, job[s])
        BY <2>1, <2>2 DEF SessionInv
    <2> QED BY <2>2, <2>3 DEF Content
<1> QED BY <1>1, CalmAlways, PTL

\* Between commands only an open transaction of a connected client keeps a job,
\* whichever step of the command or of its checkout failed.
THEOREM IdleSessionsHoldNoJob == ASSUME ~MidCommand PROVE Spec => []IdleHoldsNoJob
<1>1. CalmInv => IdleHoldsNoJob
    BY DEF CalmInv, SessionInv, IdleHoldsNoJob
<1> QED BY <1>1, CalmAlways, PTL

\* Which steps end the transaction of session s.
LEMMA OutcomeStep ==
    ASSUME TypeInv, CalmInv, Next, NEW s \in Sessions, inTx[s], ~inTx'[s], ~closed[s]
    PROVE  s \in kept' <=> cmd[s] = "commit" /\ ~failed[s] /\ s \in acked
<1>0. SessionInv(s)
    BY DEF CalmInv
<1>1. ASSUME NEW t \in Sessions, NEW k \in Commands, NEW msg \in Messages(k), Handle(t, k, msg)
      PROVE  s \notin kept' /\ s \notin acked
    <2>1. /\ Dispatch(t, k, queue, kept) /\ k \in CommandKinds
        BY <1>1, SessionsAssumption DEF Handle
    <2>2. t = s /\ job[s] = NoJob /\ kept' = kept
        BY <2>1, DispatchCases
    <2> QED BY <1>0, <2>2 DEF SessionInv
<1>2. ASSUME NEW t \in Sessions, NEW j \in Jobs, Settled(t, j) PROVE FALSE
    <2>1. job[t] = j /\ j # NoJob /\ cmd[t] \in CommandKinds
        BY <1>2, AnswerAt, SessionsAssumption DEF Settled, TypeInv, Busy
    <2>2. Dispatch(t, cmd[t], Popped(j), Committed(j))
        BY <1>2 DEF Settled
    <2>3. /\ \A u \in Sessions \ {t} : inTx'[u] = inTx[u]
          /\ inTx' = inTx \/ inTx'[t]
        BY <2>1, <2>2, DispatchCases
    <2> QED BY <2>3
<1>3. ASSUME NEW t \in Sessions, NEW j \in Jobs, TransactionEnded(t, j)
      PROVE  s \in kept' <=> cmd[s] = "commit" /\ ~failed[s] /\ s \in acked
    <2>1. t = s
        BY <1>3 DEF TransactionEnded, LeaveTransaction, TypeInv, TypeOK
    <2>2. job[s] = j /\ j # NoJob /\ pc[s] \notin CheckoutPCs /\ j \notin broken
        BY <1>3, <2>1, AnswerAt, SessionsAssumption DEF TransactionEnded, CheckoutPCs
    <2>3. Content(s, j) /\ s \notin kept
        BY <1>0, <2>2 DEF SessionInv
    <2>4. s \in work[j] <=> s \in acked
        BY <2>2, <2>3 DEF Content
    <2>5. s \in Committed(j) <=> s \in work[j]
        BY <2>3, SessionsAssumption DEF Committed, Gone
    <2> QED BY <1>3, <2>1, <2>3, <2>4, <2>5 DEF TransactionEnded, Commits
<1>4. ASSUME NEW t \in Sessions, Connect(t) PROVE FALSE
    BY <1>4 DEF Connect, TypeInv, TypeOK
<1>5. \/ \E t \in Sessions : \E k \in Commands : \E msg \in Messages(k) : Handle(t, k, msg)
      \/ \E t \in Sessions, j \in Jobs : Settled(t, j) \/ TransactionEnded(t, j)
      \/ \E t \in Sessions : Connect(t)
    <2>1. inTx' # inTx
        OBVIOUS
    <2> QED BY <2>1
        DEF Next, Checkout, AcquireFails, Acquired, PrepareGoesOn, Answered, Prepared, Replayed,
            CheckoutFails, PathPrepared, PathSet, IssueNext, Read, ReadFails, Executed, ExecuteFails, Autocommitted, AutocommitFails,
            Undone, EndingFails, Marked, MarkingFails, Answer, Abort, UndoOrStop, Released,
            RolledBack, SchemaReset, ReleaseFails, Close, Break, Replace, fields
<1> QED BY <1>1, <1>2, <1>3, <1>4, <1>5

\* A transaction of a connected client that ends has its acknowledged work
\* committed exactly when the client sent COMMIT and nothing in it had failed,
\* whoever else used the job before, and whatever happened to it.
THEOREM TransactionsEndAsAsked == ASSUME ~MidCommand PROVE Spec => TransactionOutcome
<1> DEFINE Outcome ==
       \A s \in Sessions :
          inTx[s] /\ ~inTx'[s] /\ ~closed[s] =>
             (s \in kept' <=> cmd[s] = "commit" /\ ~failed[s] /\ s \in acked)
<1>1. TypeInv /\ CalmInv /\ [Next]_vars => [Outcome]_vars
    BY OutcomeStep
<1>2. Spec => [][Outcome]_vars
    <2> HIDE DEF Outcome
    <2> QED BY <1>1, CalmAlways, PTL DEF Spec
<1> QED BY <1>2 DEF TransactionOutcome

-----------------------------------------------------------------------------
(* The sessions as users of the pool: every step is one that JobLeases     *)
(* allows, or changes neither a lease nor a job's state.                   *)

Dirty == {j \in Jobs : work[j] # {} \/ schema[j] # Default}

LEMMA KeepsLeases ==
    ASSUME TypeOK, NEW s \in Sessions, KeepsOrDrops(s), Dirty' = Dirty
    PROVE  Pool!LeasesNext \/ UNCHANGED Pool!leaseVars
<1>1. CASE job' = job
    BY <1>1 DEF Pool!leaseVars, Dirty
<1>2. CASE job' = [job EXCEPT ![s] = NoJob] /\ job[s] = NoJob
    <2>1. job' = job
        BY <1>2 DEF TypeOK
    <2> QED BY <1>1, <2>1
<1>3. CASE job' = [job EXCEPT ![s] = NoJob] /\ job[s] # NoJob
    <2>1. Pool!GiveBack(s)
        BY <1>3 DEF Pool!GiveBack, Dirty
    <2> QED BY <2>1 DEF Pool!LeasesNext
<1> QED BY <1>1, <1>2, <1>3 DEF KeepsOrDrops

LEMMA CleansJobs ==
    ASSUME job' = job, Dirty' \subseteq Dirty
    PROVE  Pool!LeasesNext
<1>1. PICK js \in SUBSET Dirty : Dirty' = Dirty \ js
    OBVIOUS
<1>2. Pool!Clean(js)
    BY <1>1 DEF Pool!Clean, Dirty
<1> QED BY <1>1, <1>2 DEF Pool!LeasesNext, Dirty

LEMMA SameCardinality == ASSUME NEW S PROVE Pool!Cardinality(S) = Cardinality(S)
BY DEF Pool!Cardinality, Cardinality

LEMMA AcquiredLeases ==
    ASSUME TypeInv, CalmInv, NEW s \in Sessions, NEW j \in Jobs, Acquired(s, j)
    PROVE  Pool!LeasesNext
<1>1. /\ schema[j] = Default /\ work[j] = {} /\ UNCHANGED <<schema, work>>
      /\ job' = [job EXCEPT ![s] = j] /\ \A t \in Sessions : job[t] # j
    BY AvailableJobs DEF Acquired, Available, backend
<1>2. job[s] = NoJob
    BY DEF Acquired, CalmInv, SessionInv
<1>3. Pool!Leased \subseteq Jobs \ {j}
    BY <1>1 DEF Pool!Leased, TypeInv, TypeOK
<1>4. Cardinality(Pool!Leased) < Cardinality(Jobs)
    <2>0. IsFiniteSet(Jobs)
        BY SessionsAssumption
    <2>1. /\ IsFiniteSet(Jobs) /\ IsFiniteSet(Jobs \ {j})
          /\ Cardinality(Jobs \ {j}) = Cardinality(Jobs) - 1
        BY <2>0, FS_RemoveElement
    <2>2. /\ IsFiniteSet(Pool!Leased)
          /\ Cardinality(Pool!Leased) <= Cardinality(Jobs \ {j})
        BY <1>3, <2>1, FS_Subset
    <2>3. Cardinality(Jobs) \in Nat /\ Cardinality(Pool!Leased) \in Nat
        BY <2>1, <2>2, FS_CardinalityType
    <2> QED BY <2>1, <2>2, <2>3
<1>5. Dirty' = Dirty \ {j}
    BY <1>1 DEF Dirty
<1>6. Pool!Grant(s, j)
    BY <1>1, <1>2, <1>3, <1>4, <1>5, SameCardinality DEF Pool!Grant, Dirty
<1> QED BY <1>6 DEF Pool!LeasesNext

LEMMA AnsweredLeases ==
    ASSUME TypeInv, CalmInv, NEW s \in Sessions, NEW j \in Jobs, Answered(s, j)
    PROVE  Pool!LeasesNext \/ UNCHANGED Pool!leaseVars
<1>1. Answers(j, Own(s))
    BY DEF Answered, Prepared, Replayed, Settled, CheckoutFails, PathPrepared, PathSet, Read,
           ReadFails, Executed, ExecuteFails, Autocommitted, AutocommitFails, Undone, TransactionEnded,
           EndingFails, Marked, MarkingFails
<1>2. /\ job[s] = j /\ SessionInv(s) /\ (j \in broken => work[j] = {})
      /\ j # NoJob /\ Default # s
    <2>1. job[s] = j /\ SessionInv(s) /\ (j \in broken => work[j] = {})
        BY <1>1, AnswerAt
    <2> QED BY <2>1, SessionsAssumption
<1>3. CASE Replayed(s, j)
    <2>1. work' = work /\ schema' = [schema EXCEPT ![j] = s] /\ job' = job
        BY <1>3 DEF Replayed, SetSchema
    <2>2. Dirty' = Dirty \cup {j}
        BY <1>2, <2>1 DEF Dirty, TypeInv, TypeOK
    <2>3. Pool!Touch(s)
        BY <1>2, <2>1, <2>2 DEF Pool!Touch, Dirty
    <2> QED BY <2>3 DEF Pool!LeasesNext
<1>4. CASE CheckoutFails(s, j)
    <2>1. job' = [job EXCEPT ![s] = NoJob] /\ work' = [work EXCEPT ![j] = {}] /\ schema' = schema
        BY <1>2, <1>4 DEF CheckoutFails, Discarded, Ended, Forget
    <2>2. Dirty' \in {Dirty, Dirty \ {j}}
        BY <2>1 DEF Dirty, TypeInv, TypeOK
    <2>3. Pool!GiveBack(s)
        BY <1>2, <2>1, <2>2 DEF Pool!GiveBack, Dirty
    <2> QED BY <2>3 DEF Pool!LeasesNext
<1>5. CASE ~(Replayed(s, j) \/ CheckoutFails(s, j))
    <2>0. j \in broken => work' = work \/ work' = [work EXCEPT ![j] = {}]
        BY <1>5 DEF Answered, Prepared, Settled, PathPrepared, PathSet, Read, ReadFails, Executed,
                    ExecuteFails, Autocommitted, AutocommitFails, Undone, TransactionEnded,
                    EndingFails, Marked, MarkingFails, Ended, backend
    <2>1. schema' = schema
      <3>1. CASE PathSet(s, j)
        <4>1. schema[j] = s
            BY <1>2, <3>1 DEF PathSet, SessionInv, CheckoutPCs, Content
        <4> QED BY <3>1, <4>1 DEF PathSet, SetSchema, TypeInv, TypeOK
      <3>2. CASE ~PathSet(s, j)
        BY <1>5, <3>2
           DEF Answered, Prepared, Settled, PathPrepared, Read, ReadFails, Executed,
               ExecuteFails, Autocommitted, AutocommitFails, Undone, TransactionEnded,
               EndingFails, Marked, MarkingFails, backend
      <3> QED BY <3>1, <3>2
    <2>2. \A k \in Jobs \ {j} : work'[k] = work[k]
        BY <1>5 DEF Answered, Prepared, Settled, PathPrepared, PathSet, Read, ReadFails, Executed,
                    ExecuteFails, Autocommitted, AutocommitFails, Undone, TransactionEnded,
                    EndingFails, Marked, MarkingFails, Ended, backend, TypeInv, TypeOK
    <2>3. work'[j] = work[j] \/ schema[j] # Default
        <3>1. CASE j \in broken
            BY <1>2, <2>0, <3>1 DEF TypeInv, TypeOK
        <3>2. CASE j \notin broken /\ pc[s] \in InFlightPCs \ {"preparing", "replaying"}
            <4>1. schema[j] = s
                BY <1>2, <3>2 DEF SessionInv, CheckoutPCs, Content
            <4> QED BY <1>2, <4>1
        <3>3. CASE pc[s] \notin InFlightPCs \ {"preparing", "replaying"}
            BY <1>5, <3>3
               DEF Answered, Prepared, Settled, PathPrepared, PathSet, Read, ReadFails, Executed,
                   ExecuteFails, Autocommitted, AutocommitFails, Undone, TransactionEnded,
                   EndingFails, Marked, MarkingFails, backend, InFlightPCs
        <3> QED BY <3>1, <3>2, <3>3
    <2>4. Dirty' = Dirty
        BY <2>1, <2>2, <2>3 DEF Dirty
    <2>5. KeepsOrDrops(s)
        BY AnsweredJob DEF JobsType, TypeInv, TypeOK
    <2> QED BY <2>4, <2>5, KeepsLeases DEF TypeInv
<1> QED BY <1>3, <1>4, <1>5

LEMMA LeaseStep ==
    ASSUME TypeInv, CalmInv, [Next]_vars
    PROVE  [Pool!LeasesNext]_(Pool!leaseVars)
<1>1. ASSUME NEW s \in Sessions, NEW k \in Commands, NEW msg \in Messages(k),
             Handle(s, k, msg) \/ Checkout(s, k, msg)
      PROVE  Pool!LeasesNext \/ UNCHANGED Pool!leaseVars
    <2>1. KeepsOrDrops(s)
        BY <1>1, DispatchJob DEF Handle, Checkout, KeepsOrDrops
    <2>2. Dirty' = Dirty
        BY <1>1 DEF Handle, Checkout, backend, Dirty
    <2> QED BY <2>1, <2>2, KeepsLeases DEF TypeInv
<1>2. ASSUME NEW s \in Sessions, NEW j \in Jobs, Acquired(s, j)
      PROVE  Pool!LeasesNext
    BY <1>2, AcquiredLeases
<1>3. ASSUME NEW s \in Sessions, NEW j \in Jobs, PrepareGoesOn(s, j)
      PROVE  Pool!LeasesNext \/ UNCHANGED Pool!leaseVars
    <2>1. Answers(j, Own(s)) /\ UNCHANGED <<job, schema>>
        BY <1>3 DEF PrepareGoesOn
    <2>2. job[s] = j /\ j # NoJob
        BY <2>1, AnswerAt, SessionsAssumption
    <2>3. CASE work' = work
        BY <2>1, <2>3 DEF Pool!leaseVars
    <2>4. CASE work' # work
        <3>1. work' = [work EXCEPT ![j] = @ \cup {s}]
            BY <1>3, <2>2, <2>4 DEF PrepareGoesOn, CreatesSchema
        <3>2. Dirty' = Dirty \cup {j}
            BY <2>1, <3>1 DEF Dirty, TypeInv, TypeOK
        <3>3. Pool!Touch(s)
            BY <2>1, <2>2, <3>2 DEF Pool!Touch, Dirty
        <3> QED BY <3>3 DEF Pool!LeasesNext
    <2> QED BY <2>3, <2>4
<1>4. ASSUME NEW s \in Sessions, NEW j \in Jobs, Answered(s, j)
      PROVE  Pool!LeasesNext \/ UNCHANGED Pool!leaseVars
    BY <1>4, AnsweredLeases
<1>5. ASSUME NEW s \in Sessions, NEW j \in Jobs, Released(s, j)
      PROVE  Pool!LeasesNext
    <2>1. /\ job' = job
          /\ \A k \in Jobs : work'[k] \in {work[k], {}} /\ schema'[k] \in {schema[k], Default}
        BY <1>5 DEF Released, RolledBack, SchemaReset, ReleaseFails, Ended, backend, TypeInv, TypeOK
    <2>2. Dirty' \subseteq Dirty
        BY <2>1 DEF Dirty
    <2> QED BY <2>1, <2>2, CleansJobs
<1>6. ASSUME NEW s \in Sessions, AcquireFails(s) \/ Close(s) \/ Connect(s)
      PROVE  Pool!LeasesNext \/ UNCHANGED Pool!leaseVars
    <2>1. KeepsOrDrops(s)
        BY <1>6 DEF AcquireFails, Close, Connect, KeepsOrDrops
    <2>2. Dirty' = Dirty
        BY <1>6 DEF AcquireFails, Close, Connect, backend, Dirty
    <2> QED BY <2>1, <2>2, KeepsLeases DEF TypeInv
<1>7. ASSUME NEW j \in Jobs, Break(j) \/ Replace(j)
      PROVE  Pool!LeasesNext
    <2>1. /\ job' = job
          /\ \A k \in Jobs : work'[k] \in {work[k], {}} /\ schema'[k] \in {schema[k], Default}
        BY <1>7 DEF Break, Replace, Discarded, Ended, TypeInv, TypeOK
    <2>2. Dirty' \subseteq Dirty
        BY <2>1 DEF Dirty
    <2> QED BY <2>1, <2>2, CleansJobs
<1>8. CASE UNCHANGED vars
    BY <1>8 DEF vars, Pool!leaseVars
<1> QED BY <1>1, <1>2, <1>3, <1>4, <1>5, <1>6, <1>7, <1>8 DEF Next

\* The sessions are users the pool can rely on: each leases one job at a time
\* by acquire(), runs SQL on leased jobs only, and gives a job back once, so
\* that whatever JobLeases promises holds of the jobs they run SQL on.
THEOREM SessionsObeyLeases == ASSUME ~MidCommand PROVE Spec => ObeysLeases
<1>1. Init => Pool!LeasesInit
    BY DEF Init, Pool!LeasesInit
<1>2. TypeInv /\ CalmInv /\ [Next]_vars => [Pool!LeasesNext]_(Pool!leaseVars)
    BY LeaseStep
<1> QED BY <1>1, <1>2, CalmAlways, PTL DEF Spec, ObeysLeases, Pool!LeasesSpec
=============================================================================
