--------------------------- MODULE AdvisoryLocks ---------------------------
(***************************************************************************)
(* The process-wide registry of PostgreSQL advisory locks,                 *)
(* src/src/sql/advisory-lock.ts: steps that ServerLifecycle composes with  *)
(* the life of the sessions.  Every step runs without an await.            *)
(***************************************************************************)
EXTENDS Naturals

CONSTANTS Conns,    \* client connections, and the sessions they own
          Keys,     \* lock keys
          Nobody,   \* the owner of a key that is not in heldLocks
          MaxHolds  \* bound: a session locks a key at most so often

ASSUME LocksAssumption == Nobody \notin Conns /\ MaxHolds \in Nat

VARIABLES held,     \* heldLocks: the owner and the count of each key
          believed  \* what a client was told: locks granted less unlocks granted

lockVars == <<held, believed>>

Free == [owner |-> Nobody, count |-> 0]

LocksTypeOK ==
    /\ held \in [Keys -> [owner : Conns \cup {Nobody}, count : 0..MaxHolds]]
    /\ believed \in [Conns -> [Keys -> Nat]]

LocksInit ==
    /\ held = [k \in Keys |-> Free]
    /\ believed = [c \in Conns |-> [k \in Keys |-> 0]]

\* pg_try_advisory_lock answers true to the owner and on a free key; the
\* variant forgets whose key it is.
OpenToAll(c, k) == TRUE
OpenTo(c, k) == held[k].owner \in {Nobody, c}

TryLock(c, k) ==
    \/ /\ OpenTo(c, k)
       /\ held[k].count < MaxHolds
       /\ held' = [held EXCEPT ![k] = [owner |-> c, count |-> @.count + 1]]
       /\ believed' = [believed EXCEPT ![c][k] = @ + 1]
    \/ ~OpenTo(c, k) /\ UNCHANGED lockVars

\* One hold of key k less; the variant deletes the entry at once.
Deleted(k) == [held EXCEPT ![k] = Free]
Decremented(k) ==
    [held EXCEPT ![k] =
        IF @.count > 1 THEN [owner |-> @.owner, count |-> @.count - 1] ELSE Free]

\* pg_advisory_unlock answers true to the owner only.
Unlock(c, k) ==
    \/ /\ held[k].owner = c
       /\ held' = Decremented(k)
       /\ believed' = [believed EXCEPT ![c][k] = @ - 1]
    \/ held[k].owner # c /\ UNCHANGED lockVars

\* pg_advisory_unlock_all, and the close of the session.
ReleaseAll(c) ==
    /\ held' = [k \in Keys |-> IF held[k].owner = c THEN Free ELSE held[k]]
    /\ believed' = [believed EXCEPT ![c] = [k \in Keys |-> 0]]
=============================================================================
