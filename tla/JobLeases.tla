----------------------------- MODULE JobLeases -----------------------------
(***************************************************************************)
(* What the pool promises its callers, with no queue, no connection set-up *)
(* and no await: a job is leased to at most one caller, no more than       *)
(* MaxSize jobs are leased at a time, and a job carries no state of its    *)
(* earlier users when it is leased.  SessionJobPool implements it; its     *)
(* users can be checked against this module instead of the whole pool.     *)
(***************************************************************************)
EXTENDS Naturals, FiniteSets

CONSTANTS Callers, Jobs, NoJob, MaxSize

VARIABLES lease,  \* the job each caller has leased, or NoJob
          dirty   \* jobs that hold state of a PostgreSQL client

leaseVars == <<lease, dirty>>

Leased == {lease[c] : c \in Callers} \ {NoJob}

LeasesTypeOK ==
    /\ lease \in [Callers -> Jobs \cup {NoJob}]
    /\ dirty \in SUBSET Jobs

LeasesInit ==
    /\ lease = [c \in Callers |-> NoJob]
    /\ dirty = {}

\* acquire() resolves, with a job that was cleaned at the latest in this step.
Grant(c, j) ==
    /\ lease[c] = NoJob
    /\ j \notin Leased
    /\ Cardinality(Leased) < MaxSize
    /\ lease' = [lease EXCEPT ![c] = j]
    /\ dirty' = dirty \ {j}

\* The caller runs SQL on its job.
Touch(c) ==
    /\ lease[c] # NoJob
    /\ dirty' = dirty \cup {lease[c]}
    /\ UNCHANGED lease

\* release() or invalidate() is called; the latter closes the job, whose state
\* ends there.
GiveBack(c) ==
    /\ lease[c] # NoJob
    /\ lease' = [lease EXCEPT ![c] = NoJob]
    /\ dirty' \in {dirty, dirty \ {lease[c]}}

\* A defensive ROLLBACK or the close of a connection ends the jobs' state.
Clean(js) ==
    /\ dirty' = dirty \ js
    /\ UNCHANGED lease

LeasesNext ==
    \/ \E c \in Callers :
          \/ \E j \in Jobs : Grant(c, j)
          \/ Touch(c) \/ GiveBack(c)
    \/ \E js \in SUBSET dirty : Clean(js)

LeasesSpec == LeasesInit /\ [][LeasesNext]_leaseVars

\* One caller per job, whatever the order of the calls.
LeasesExclusive ==
    \A c, d \in Callers : lease[c] = lease[d] /\ c # d => lease[c] = NoJob
=============================================================================
