--------------------------- MODULE SessionJobPool ---------------------------
(***************************************************************************)
(* The bounded pool of Mapepire SQLJob objects,                            *)
(* src/src/mapepire/session-pool.ts.                                       *)
(*                                                                         *)
(* A caller is one user of the pool: a logical PostgreSQL session that     *)
(* takes a job with acquire() and hands it back with release() or          *)
(* invalidate().  Node runs one callback at a time, so the code between    *)
(* two awaits is one action and pc[c] names the await caller c is          *)
(* suspended at:                                                           *)
(*   "out"            no call in flight, no job                            *)
(*   "connecting"     acquire(): job.connect()                             *)
(*   "configuring"    acquire(): SET CURRENT SCHEMA on the new connection  *)
(*   "waiting"        acquire(): queued in waiters with a running timer    *)
(*   "holding"        acquire() resolved, job[c] is the leased SQLJob      *)
(*   "cleaning"       release(): ROLLBACK and SET CURRENT SCHEMA default   *)
(*   "closing"        release() while the pool is ending: job.close()      *)
(*   "discarding"     invalidate(): job.close()                            *)
(*   "reconnecting"   invalidate(): connect() of the replacement           *)
(*   "reconfiguring"  invalidate(): SET CURRENT SCHEMA of the replacement  *)
(*                                                                         *)
(* Job identities are recycled once nothing refers to them; the size of    *)
(* Jobs therefore bounds the SQLJob objects that are alive at one time.    *)
(***************************************************************************)
EXTENDS Naturals, FiniteSets, Sequences, SequencesExt

CONSTANTS Callers,       \* users of the pool
          Jobs,          \* identities of SQLJob objects
          NoJob,         \* "undefined"
          StartingSize,  \* MAPEPIRE_POOL_STARTING_SIZE
          MaxSize        \* MAPEPIRE_POOL_MAX_SIZE

ASSUME SizesAssumption ==
    /\ StartingSize \in Nat \ {0}
    /\ MaxSize \in Nat
    /\ StartingSize <= MaxSize
ASSUME SetsAssumption ==
    /\ IsFiniteSet(Callers)
    /\ IsFiniteSet(Jobs)
    /\ NoJob \notin Jobs

VARIABLES
    idle,      \* jobs ready for the next acquire(), oldest first
    leased,    \* jobs handed to a caller
    all,       \* every job the pool counts
    waiters,   \* callers queued in acquire(), oldest first
    creating,  \* connections being set up, reserved against MaxSize
    ending,    \* end() was called
    pc,        \* the await each caller is suspended at
    job,       \* the SQLJob each caller refers to
    open,      \* jobs with a live Mapepire connection
    dirty,     \* jobs whose IBM i session holds state of a PostgreSQL client
    closing,   \* jobs end() is closing
    ended      \* end() resolved

fields == <<idle, leased, all, waiters, creating>>
shutdown == <<ending, closing, ended>>
vars == <<idle, leased, all, waiters, creating, ending, pc, job, open, dirty,
          closing, ended>>
-----------------------------------------------------------------------------
CreatingPCs == {"connecting", "configuring", "reconnecting", "reconfiguring"}
JobPCs == {"configuring", "holding", "cleaning", "closing", "discarding", "reconfiguring"}
PCs == CreatingPCs \cup JobPCs \cup {"out", "waiting"}

TypeOK ==
    /\ idle \in Seq(Jobs)
    /\ leased \in SUBSET Jobs
    /\ all \in SUBSET Jobs
    /\ waiters \in Seq(Callers)
    /\ creating \in Nat
    /\ ending \in BOOLEAN
    /\ pc \in [Callers -> PCs]
    /\ job \in [Callers -> Jobs \cup {NoJob}]
    /\ open \in SUBSET Jobs
    /\ dirty \in SUBSET Jobs
    /\ closing \in SUBSET Jobs
    /\ ended \in BOOLEAN

\* The variant of Without that finds nothing to splice.
Unspliced(s, x) == s

\* s without its element x: the splice of a waiter and the filter of idle.
\* Neither list ever holds an element twice.
Without(s, x) ==
    IF x \in ToSet(s) THEN RemoveAt(s, CHOOSE i \in DOMAIN s : s[i] = x) ELSE s

\* The state once init() resolved: StartingSize jobs, set up and idle.
Init ==
    \E s \in [1..StartingSize -> Jobs] :
        /\ \A i, k \in 1..StartingSize : s[i] = s[k] => i = k
        /\ idle = s
        /\ all = ToSet(s)
        /\ open = ToSet(s)
        /\ leased = {} /\ waiters = <<>> /\ creating = 0 /\ ending = FALSE
        /\ pc = [c \in Callers |-> "out"]
        /\ job = [c \in Callers |-> NoJob]
        /\ dirty = {} /\ closing = {} /\ ended = FALSE

Goto(c, p, j) ==
    /\ pc' = [pc EXCEPT ![c] = p]
    /\ job' = [job EXCEPT ![c] = j]

\* The finally block of createTrackedJob; the variant also decrements in a
\* catch block.
ReleaseReservationTwice == creating' = creating - 2
ReleaseReservation == creating' = creating - 1

\* What the cap is compared with; the variant forgets connections in creation.
SlotsInAll == Cardinality(all)
Slots == Cardinality(all) + creating

\* this.idle.shift(); the variant reads the job and leaves it in the list.
PeekIdle == UNCHANGED idle
TakeIdle == idle' = Tail(idle)

\* this.waiters.shift(); the variant pops the newest waiter.
NewestWaiter == Last(waiters)
NextWaiter == Head(waiters)

\* ROLLBACK and SET CURRENT SCHEMA of release(); the variant omits them.
KeepState(j) == UNCHANGED dirty
ResetState(j) == dirty' = dirty \ {j}

\* A lease of j to the caller that waited longest, as c's own call ends.
HandOver(c, j) ==
    /\ waiters # <<>>
    /\ waiters' = Without(waiters, NextWaiter)
    /\ leased' = leased \cup {j}
    /\ pc' = [pc EXCEPT ![NextWaiter] = "holding", ![c] = "out"]
    /\ job' = [job EXCEPT ![NextWaiter] = j, ![c] = NoJob]
    /\ UNCHANGED idle

PushIdle(c, j) ==
    /\ idle' = Append(idle, j)
    /\ Goto(c, "out", NoJob)
    /\ UNCHANGED <<leased, waiters>>

\* The end of release() and invalidate(); the variant overlooks the queue.
PassToIdle(c, j) == PushIdle(c, j)
PassOn(c, j) ==
    \/ HandOver(c, j)
    \/ waiters = <<>> /\ PushIdle(c, j)

\* The check acquire() starts with; the variant omits it.
AlwaysAccepting == TRUE
Accepting == ~ending
-----------------------------------------------------------------------------
(* acquire()                                                               *)

\* On an ending pool acquire() throws.
AcquireRefused(c) ==
    /\ pc[c] = "out" /\ ~Accepting
    /\ UNCHANGED vars

AcquireIdle(c) ==
    /\ pc[c] = "out" /\ Accepting
    /\ idle # <<>>
    /\ TakeIdle
    /\ leased' = leased \cup {Head(idle)}
    /\ Goto(c, "holding", Head(idle))
    /\ UNCHANGED <<all, waiters, creating, open, dirty, shutdown>>

AcquireConnect(c) ==
    /\ pc[c] = "out" /\ Accepting
    /\ idle = <<>>
    /\ Slots < MaxSize
    /\ creating' = creating + 1
    /\ Goto(c, "connecting", NoJob)
    /\ UNCHANGED <<idle, leased, all, waiters, open, dirty, shutdown>>

AcquireWait(c) ==
    /\ pc[c] = "out" /\ Accepting
    /\ idle = <<>>
    /\ Slots >= MaxSize
    /\ waiters' = Append(waiters, c)
    /\ Goto(c, "waiting", NoJob)
    /\ UNCHANGED <<idle, leased, all, creating, open, dirty, shutdown>>

\* The acquire timer: the waiter leaves the queue and its promise rejects.
WaitTimesOut(c) ==
    /\ pc[c] = "waiting"
    /\ waiters' = Without(waiters, c)
    /\ Goto(c, "out", NoJob)
    /\ UNCHANGED <<idle, leased, all, creating, open, dirty, shutdown>>

(* connectJob(), for acquire() and for the replacement of invalidate().    *)

Fresh(j) == j \notin all \cup open \cup closing /\ \A d \in Callers : job[d] # j

Connected(c, j) ==
    /\ \/ pc[c] = "connecting" /\ Goto(c, "configuring", j)
       \/ pc[c] = "reconnecting" /\ Goto(c, "reconfiguring", j)
    /\ Fresh(j)
    /\ open' = open \cup {j}
    /\ UNCHANGED <<fields, dirty, shutdown>>

\* connect() or SET CURRENT SCHEMA rejects; nothing closes a connection that
\* was made before the SET failed.  A replacement's failure is only logged.
ConnectFails(c) ==
    /\ pc[c] \in CreatingPCs
    /\ ReleaseReservation
    /\ Goto(c, "out", NoJob)
    /\ UNCHANGED <<idle, leased, all, waiters, open, dirty, shutdown>>

\* acquire() returns the job it created.
Configured(c) ==
    /\ pc[c] = "configuring"
    /\ ReleaseReservation
    /\ all' = all \cup {job[c]}
    /\ leased' = leased \cup {job[c]}
    /\ Goto(c, "holding", job[c])
    /\ UNCHANGED <<idle, waiters, open, dirty, shutdown>>

\* The caller runs SQL for its client on the leased job.
Use(c) ==
    /\ pc[c] = "holding" /\ job[c] \in open
    /\ dirty' = dirty \cup {job[c]}
    /\ UNCHANGED <<fields, pc, job, open, shutdown>>
-----------------------------------------------------------------------------
(* release()                                                               *)

Release(c) ==
    /\ pc[c] = "holding" /\ job[c] \in all
    /\ leased' = leased \ {job[c]}
    /\ Goto(c, "cleaning", job[c])
    /\ UNCHANGED <<idle, all, waiters, creating, open, dirty, shutdown>>

\* The pool no longer counts the job: release() returns at once.
ReleaseUnknown(c) ==
    /\ pc[c] = "holding" /\ job[c] \notin all
    /\ Goto(c, "out", NoJob)
    /\ UNCHANGED <<fields, open, dirty, shutdown>>

\* ROLLBACK and SET CURRENT SCHEMA succeeded: the job goes to the oldest
\* waiter, back to idle, or, when the pool is ending, is closed.
Cleaned(c) ==
    /\ pc[c] = "cleaning" /\ job[c] \in open
    /\ ResetState(job[c])
    /\ \/ /\ waiters # <<>> \/ ~ending
          /\ PassOn(c, job[c])
       \/ /\ waiters = <<>> /\ ending
          /\ Goto(c, "closing", job[c])
          /\ UNCHANGED <<idle, leased, waiters>>
    /\ UNCHANGED <<all, creating, open, shutdown>>

Closed(c) ==
    /\ pc[c] = "closing"
    /\ open' = open \ {job[c]}
    /\ Goto(c, "out", NoJob)
    /\ UNCHANGED <<fields, dirty, shutdown>>

(* invalidate(), called by release() when cleaning fails and by a session  *)
(* whose checkout or statement failed on the job.                          *)

Discard(c) ==
    /\ idle' = Without(idle, job[c])
    /\ leased' = leased \ {job[c]}
    /\ all' = all \ {job[c]}
    /\ Goto(c, "discarding", job[c])
    /\ UNCHANGED <<waiters, creating, open, dirty, shutdown>>

CleaningFails(c) == pc[c] = "cleaning" /\ Discard(c)
Invalidate(c) == pc[c] = "holding" /\ Discard(c)

\* close() settled: replace the job if the pool fell below its starting size.
Discarded(c) ==
    /\ pc[c] = "discarding"
    /\ open' = open \ {job[c]}
    /\ dirty' = dirty \ {job[c]}
    /\ \/ /\ ~ending /\ Slots < StartingSize
          /\ creating' = creating + 1
          /\ Goto(c, "reconnecting", NoJob)
       \/ /\ ending \/ Slots >= StartingSize
          /\ Goto(c, "out", NoJob)
          /\ UNCHANGED creating
    /\ UNCHANGED <<idle, leased, all, waiters, shutdown>>

Replaced(c) ==
    /\ pc[c] = "reconfiguring"
    /\ ReleaseReservation
    /\ all' = all \cup {job[c]}
    /\ PassOn(c, job[c])
    /\ UNCHANGED <<open, dirty, shutdown>>
-----------------------------------------------------------------------------
(* end()                                                                   *)

\* The pool is marked, every waiter rejected, every counted job closing.
End ==
    /\ ~ending
    /\ ending' = TRUE
    /\ waiters' = <<>>
    /\ pc' = [c \in Callers |-> IF pc[c] = "waiting" THEN "out" ELSE pc[c]]
    /\ closing' = all
    /\ UNCHANGED <<idle, leased, all, creating, job, open, dirty, ended>>

\* Every close() settled: end() forgets all jobs, those that joined since too.
EndResolves ==
    /\ ending /\ ~ended
    /\ open' = open \ closing
    /\ dirty' = dirty \ closing
    /\ idle' = <<>> /\ leased' = {} /\ all' = {}
    /\ closing' = {} /\ ended' = TRUE
    /\ UNCHANGED <<waiters, creating, ending, pc, job>>
-----------------------------------------------------------------------------
Next ==
    \/ \E c \in Callers :
          \/ AcquireRefused(c) \/ AcquireIdle(c) \/ AcquireConnect(c)
          \/ AcquireWait(c) \/ WaitTimesOut(c)
          \/ \E j \in Jobs : Connected(c, j)
          \/ ConnectFails(c) \/ Configured(c) \/ Use(c)
          \/ Release(c) \/ ReleaseUnknown(c) \/ Cleaned(c) \/ Closed(c)
          \/ CleaningFails(c) \/ Invalidate(c) \/ Discarded(c) \/ Replaced(c)
    \/ End \/ EndResolves

Spec == Init /\ [][Next]_vars

\* The next-state relation while the backend answers, no acquire timer expires
\* and nobody shuts the pool down.
HealthyNext ==
    \E c \in Callers :
        \/ AcquireIdle(c) \/ AcquireConnect(c) \/ AcquireWait(c)
        \/ \E j \in Jobs : Connected(c, j)
        \/ Configured(c) \/ Use(c) \/ Release(c) \/ Cleaned(c)

\* Fairness: every await settles and every caller gives its job back.
HealthySpec ==
    /\ Init /\ [][HealthyNext]_vars
    /\ \A c \in Callers :
          /\ WF_vars(\E j \in Jobs : Connected(c, j))
          /\ WF_vars(Configured(c)) /\ WF_vars(Release(c)) /\ WF_vars(Cleaned(c))
-----------------------------------------------------------------------------
Held(c) == pc[c] = "holding"
Creators == {c \in Callers : pc[c] \in CreatingPCs}
Referenced == {job[c] : c \in Callers} \ {NoJob}

\* A SQLJob is in one place only: no two callers refer to the same one, and
\* none is both idle and referred to, leased or listed twice
\* (acquire/release/invalidate move one job between idle and leased).
Exclusive ==
    /\ \A c, d \in Callers : job[c] = job[d] /\ c # d => job[c] = NoJob
    /\ ToSet(idle) \cap (leased \cup Referenced) = {}
    /\ IsInjective(idle)

\* The cap of MAPEPIRE_POOL_MAX_SIZE counts the connections being created:
\* creating is exact, and the jobs and reservations together never exceed it,
\* whatever burst of acquire() and invalidate() calls interleaves.
Capacity ==
    /\ creating = Cardinality(Creators)
    /\ Cardinality(all) + creating <= MaxSize

\* The lists agree with what the callers await: a job is leased exactly when
\* a caller holds it and the pool still counts it, the queue is the set of
\* waiting callers, and idle jobs are counted and connected until end().
Accounting ==
    /\ leased = {job[c] : c \in {d \in Callers : Held(d)}} \cap all
    /\ ToSet(waiters) = {c \in Callers : pc[c] = "waiting"}
    /\ ToSet(idle) \subseteq all
    /\ ~ending => all \subseteq open

\* No lost wake-up: nobody queues while a job is idle.
NoIdleWhileWaiting == waiters # <<>> => idle = <<>>

\* No state of one PostgreSQL client reaches the next: an idle job carries no
\* uncommitted work or foreign schema (the ROLLBACK and SET of release()).
IdleIsClean == ToSet(idle) \cap dirty = {}

\* Nor does a job a caller is just given, by acquire(), hand-over or creation.
LeaseIsClean ==
    [][\A c \in Callers : ~Held(c) /\ Held(c)' => job'[c] \notin dirty']_vars

\* Waiters are served in the order they queued: a caller that is handed a job
\* leaves nobody waiting that queued before it.
ServedInOrder ==
    [][\A i, k \in DOMAIN waiters :
          i < k /\ pc'[waiters[k]] = "holding" => pc'[waiters[i]] # "waiting"]_vars

\* end() leaves no acquire() pending in the queue, then or later.
NoWaiterAfterEnd == ending => waiters = <<>>

\* With a backend that answers and callers that give jobs back, every
\* acquire() that queued is handed a job.
WaiterServed == \A c \in Callers : (pc[c] = "waiting") ~> Held(c)
-----------------------------------------------------------------------------
(* The invariant that is inductive: what the properties above need to know *)
(* about the calls that are in flight.                                     *)

\* A caller refers to a job exactly at the awaits that work on one; a job
\* under construction or being discarded is not counted, one being cleaned is
\* until the end, a new or finally cleaned one holds no client's state, and
\* release() closes only at the end.
CallsInv ==
    \A c \in Callers :
        /\ pc[c] \in JobPCs <=> job[c] # NoJob
        /\ pc[c] \in {"configuring", "reconfiguring", "discarding"} => job[c] \notin all
        /\ pc[c] \in {"configuring", "reconfiguring", "closing"} => job[c] \notin dirty
        /\ pc[c] \in {"configuring", "reconfiguring"} /\ ~ending => job[c] \in open
        /\ pc[c] = "cleaning" /\ ~ending => job[c] \in all
        /\ pc[c] = "closing" => ending

\* The connections end() closes were all counted when it was called, and only
\* connected jobs hold state.
ShutdownInv ==
    /\ closing # {} => ending
    /\ \A c \in Callers : pc[c] \in {"configuring", "reconfiguring"} => job[c] \notin closing
    /\ ToSet(idle) \subseteq all
    /\ dirty \subseteq open

IInv ==
    /\ TypeOK /\ Exclusive /\ Capacity /\ Accounting /\ IsInjective(waiters)
    /\ NoIdleWhileWaiting /\ IdleIsClean /\ NoWaiterAfterEnd
    /\ CallsInv /\ ShutdownInv

-----------------------------------------------------------------------------
(* The abstract specification the pool implements.  A caller has a lease   *)
(* from the moment acquire() resolves until it calls release() or          *)
(* invalidate().                                                           *)

Leases == INSTANCE JobLeases WITH
    lease <- [c \in Callers |-> IF Held(c) THEN job[c] ELSE NoJob]

\* Every step of the pool is a step of JobLeases or changes no lease.
ImplementsLeases == Leases!LeasesSpec

-----------------------------------------------------------------------------
(* What the documentation says of the pool.                                *)

\* "Persistent backend waiters > 0 means actual IBM i concurrency exceeds the
\* configured pool": once no call of the pool is in flight, callers wait only
\* if every slot is taken.
WaitersMeanSaturation ==
    waiters # <<>> /\ (\A c \in Callers : pc[c] \in {"out", "waiting", "holding"})
        => Cardinality(all) = MaxSize
=============================================================================
