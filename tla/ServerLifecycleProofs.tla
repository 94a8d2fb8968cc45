----------------------- MODULE ServerLifecycleProofs -----------------------
(***************************************************************************)
(* Theorems about ServerLifecycle and AdvisoryLocks, for any connections,  *)
(* keys and limit.                                                         *)
(***************************************************************************)
EXTENDS ServerLifecycle, FiniteSetTheorems, TLAPS

\* A key has an owner as long as it is held.
LockInv == \A k \in Keys : held[k].owner = Nobody <=> held[k].count = 0

\* What the variables of one connection say about each other.
ConnInv ==
    \A c \in Conns :
        /\ finalized[c] <=> socket[c] \in {"half", "gone"}
        /\ socket[c] = "unused" => startup[c] = "none"
        /\ cleaning[c] => finalized[c]
        /\ c \in sessions => startup[c] = "done" /\ bound[c] /\ ~finalized[c]
        /\ c \in visited => startup[c] = "done" /\ session[c] = "closed"
        /\ startup[c] = "initializing" /\ ~finalized[c] => bound[c]

\* Only a session that was served holds locks or runs a batch, and it is still
\* listed unless it is closed.
Engaged(c) == batch[c] # Nobody \/ \E k \in Keys : held[k].owner = c
OwnerInv ==
    \A c \in Conns :
        /\ Engaged(c) => startup[c] = "done" /\ (session[c] = "live" => c \in sessions)
        /\ batch[c] # Nobody => c \in Batchers

LocksInv == LocksTypeOK /\ LockInv /\ LocksAsAnswered

Counted == {c \in Conns : socket[c] # "unused" /\ ~finalized[c]}

IInv ==
    TypeOK /\ LocksInv /\ ConnInv /\ OwnerInv /\ NoLockAfterClose /\ ClientCount
-----------------------------------------------------------------------------
(* Locks.                                                                  *)

\* Where a step of session c leaves every key with its owner, with c, or free.
OwnersMove(c) ==
    \A k \in Keys : held'[k].owner \in {held[k].owner, c, Nobody}

\* pg_try_advisory_lock keeps the registry and the answers together.
LEMMA TryLockKeeps ==
    ASSUME LocksInv, NEW c \in Conns, NEW k \in Keys, TryLock(c, k)
    PROVE  LocksInv' /\ OwnersMove(c)
<1>1. CASE OpenTo(c, k) /\ held[k].count < MaxHolds
           /\ held' = [held EXCEPT ![k] = [owner |-> c, count |-> @.count + 1]]
           /\ believed' = [believed EXCEPT ![c][k] = @ + 1]
  <2>1. LocksTypeOK'
    BY <1>1, LocksAssumption DEF LocksInv, LocksTypeOK
  <2>2. held'[k] = [owner |-> c, count |-> held[k].count + 1]
    BY <1>1 DEF LocksInv, LocksTypeOK
  <2>3. \A j \in Keys \ {k} : held'[j] = held[j]
    BY <1>1 DEF LocksInv, LocksTypeOK
  <2>4. LockInv'
    BY <2>2, <2>3, LocksAssumption DEF LocksInv, LocksTypeOK, LockInv
  <2>5. LocksAsAnswered'
    <3>1. believed'[c][k] = believed[c][k] + 1
      BY <1>1 DEF LocksInv, LocksTypeOK
    <3>2. \A d \in Conns, j \in Keys :
             d # c \/ j # k => believed'[d][j] = believed[d][j]
      BY <1>1 DEF LocksInv, LocksTypeOK
    <3>3. believed[c][k] = held[k].count
      BY <1>1, LocksAssumption DEF LocksInv, LocksTypeOK, LockInv, LocksAsAnswered, OpenTo
    <3>4. \A d \in Conns : d # c => held[k].owner # d
      BY <1>1, LocksAssumption DEF OpenTo
    <3> QED BY <2>2, <2>3, <3>1, <3>2, <3>3, <3>4 DEF LocksInv, LocksAsAnswered
  <2>6. OwnersMove(c)
    BY <2>2, <2>3 DEF OwnersMove
  <2> QED BY <2>1, <2>4, <2>5, <2>6 DEF LocksInv
<1>2. CASE UNCHANGED lockVars
  BY <1>2 DEF LocksInv, LocksTypeOK, LockInv, LocksAsAnswered, OwnersMove, lockVars
<1> QED BY <1>1, <1>2 DEF TryLock

\* pg_advisory_unlock gives back one hold of the caller, and only of the caller.
LEMMA UnlockKeeps ==
    ASSUME LocksInv, NEW c \in Conns, NEW k \in Keys, Unlock(c, k)
    PROVE  LocksInv' /\ OwnersMove(c)
<1>1. CASE held[k].owner = c /\ held' = Decremented(k)
           /\ believed' = [believed EXCEPT ![c][k] = @ - 1]
  <2> DEFINE n == held[k].count
  <2>1. n \in Nat /\ n >= 1 /\ believed[c][k] = n /\ c # Nobody
    BY <1>1, LocksAssumption DEF LocksInv, LocksTypeOK, LockInv, LocksAsAnswered
  <2>2. held'[k] = IF n > 1 THEN [owner |-> c, count |-> n - 1] ELSE Free
    BY <1>1 DEF Decremented, LocksInv, LocksTypeOK
  <2>3. \A j \in Keys \ {k} : held'[j] = held[j]
    BY <1>1 DEF Decremented, LocksInv, LocksTypeOK
  <2>4. believed'[c][k] = n - 1
    BY <1>1, <2>1 DEF LocksInv, LocksTypeOK
  <2>5. \A d \in Conns, j \in Keys :
           d # c \/ j # k => believed'[d][j] = believed[d][j]
    BY <1>1 DEF LocksInv, LocksTypeOK
  <2>6. LocksTypeOK'
    <3>1. held'[k] \in [owner : Conns \cup {Nobody}, count : 0..MaxHolds]
      BY <2>1, <2>2, LocksAssumption DEF Free, LocksInv, LocksTypeOK
    <3>2. held' \in [Keys -> [owner : Conns \cup {Nobody}, count : 0..MaxHolds]]
      BY <1>1, <2>3, <3>1 DEF Decremented, LocksInv, LocksTypeOK
    <3>3. believed' \in [Conns -> [Keys -> Nat]]
      BY <1>1, <2>1 DEF LocksInv, LocksTypeOK
    <3> QED BY <3>2, <3>3 DEF LocksTypeOK
  <2>7. LockInv'
    BY <2>1, <2>2, <2>3 DEF LocksInv, LockInv, Free
  <2>8. LocksAsAnswered'
    BY <1>1, <2>1, <2>2, <2>3, <2>4, <2>5 DEF LocksInv, LocksAsAnswered, Free
  <2>9. OwnersMove(c)
    BY <1>1, <2>2, <2>3 DEF OwnersMove, Free
  <2> QED BY <2>6, <2>7, <2>8, <2>9 DEF LocksInv
<1>2. CASE UNCHANGED lockVars
  BY <1>2 DEF LocksInv, LocksTypeOK, LockInv, LocksAsAnswered, OwnersMove, lockVars
<1> QED BY <1>1, <1>2 DEF Unlock

\* After pg_advisory_unlock_all, or the close, the session owns no key.
LEMMA ReleaseKeeps ==
    ASSUME LocksInv, NEW c \in Conns, ReleaseAll(c)
    PROVE  /\ LocksInv'
           /\ \A k \in Keys : held'[k].owner # c /\ held'[k].owner \in {held[k].owner, Nobody}
<1>1. \A k \in Keys : held'[k] = IF held[k].owner = c THEN Free ELSE held[k]
  BY DEF ReleaseAll
<1>2. c # Nobody
  BY LocksAssumption
<1>3. \A d \in Conns, k \in Keys :
         believed'[d][k] = IF d = c THEN 0 ELSE believed[d][k]
  BY DEF ReleaseAll, LocksInv, LocksTypeOK
<1>4. LocksTypeOK'
  <2>1. \A k \in Keys : held'[k] \in [owner : Conns \cup {Nobody}, count : 0..MaxHolds]
    BY <1>1, LocksAssumption DEF Free, LocksInv, LocksTypeOK
  <2>2. held' \in [Keys -> [owner : Conns \cup {Nobody}, count : 0..MaxHolds]]
    BY <2>1 DEF ReleaseAll
  <2>3. believed' \in [Conns -> [Keys -> Nat]]
    BY DEF ReleaseAll, LocksInv, LocksTypeOK
  <2> QED BY <2>2, <2>3 DEF LocksTypeOK
<1>5. LockInv'
  BY <1>1 DEF LocksInv, LockInv, Free
<1>6. LocksAsAnswered'
  BY <1>1, <1>2, <1>3, LocksAssumption DEF LocksInv, LocksAsAnswered, Free
<1>7. \A k \in Keys : held'[k].owner # c /\ held'[k].owner \in {held[k].owner, Nobody}
  BY <1>1, <1>2 DEF Free
<1> QED BY <1>4, <1>5, <1>6, <1>7 DEF LocksInv

\* Steps that do not touch the registry.
LEMMA LocksUntouched ==
    ASSUME LocksInv, UNCHANGED lockVars
    PROVE  LocksInv'
BY DEF LocksInv, LocksTypeOK, LockInv, LocksAsAnswered, lockVars

\* close() of a session, up to its first await: its locks are gone if it lived.
LEMMA CloseKeeps ==
    ASSUME LocksInv, NEW c \in Conns, CloseSession(c)
    PROVE  /\ LocksInv'
           /\ session' = [session EXCEPT ![c] = "closed"]
           /\ \A k \in Keys : held'[k].owner \in {held[k].owner, Nobody}
           /\ session[c] = "live" => \A k \in Keys : held'[k].owner # c
<1>1. CASE session[c] = "live" /\ ReleaseAll(c)
  BY <1>1, ReleaseKeeps DEF CloseSession
<1>2. CASE session[c] = "closed" /\ UNCHANGED lockVars
  BY <1>2, LocksUntouched DEF CloseSession, lockVars
<1> QED BY <1>1, <1>2 DEF CloseSession

\* A step that keeps every socket counted or not, and the counter, keeps them equal.
LEMMA CountUntouched ==
    ASSUME ClientCount, clients' = clients, Counted' = Counted
    PROVE  ClientCount'
BY DEF ClientCount, Counted
-----------------------------------------------------------------------------
(* The invariant.                                                          *)

LEMMA InitInv == Init => IInv
<1> SUFFICES ASSUME Init PROVE IInv
  OBVIOUS
<1>1. TypeOK /\ LocksInv
  BY LocksAssumption
  DEF Init, LocksInit, Free, TypeOK, LocksTypeOK, LocksInv, LockInv, LocksAsAnswered
<1>2. ConnInv /\ OwnerInv /\ NoLockAfterClose
  BY LocksAssumption
  DEF Init, LocksInit, Free, ConnInv, OwnerInv, Engaged, NoLockAfterClose
<1>3. ClientCount
  <2>1. {c \in Conns : socket[c] # "unused" /\ ~finalized[c]} = {}
    BY DEF Init
  <2> QED BY <2>1, FS_EmptySet, LifecycleAssumption DEF ClientCount, Init
<1> QED BY <1>1, <1>2, <1>3 DEF IInv

\* The steps of one connection that leave the locks alone.
LEMMA ConnectionSteps ==
    ASSUME IInv, NEW c \in Conns,
           \/ Accept(c) \/ TooManyClients(c) \/ Leave(c) \/ NeverStarts(c)
           \/ Authenticated(c) \/ Initialized(c) \/ StartupFails(c)
           \/ Dropped(c) \/ CleanedUp(c)
    PROVE  IInv'
<1> USE DEF IInv
<1>1. UNCHANGED lockVars
  BY DEF Accept, TooManyClients, vars, Leave, NeverStarts, Authenticated, Initialized,
         StartupFails, Dropped, CleanedUp, lockVars
<1>2. LocksInv'
  BY <1>1, LocksUntouched
<1>3. CASE Accept(c)
  <2>1. TypeOK'
    BY <1>2, <1>3 DEF Accept, TypeOK, LocksInv, downVars
  <2>2. ConnInv'
    BY <1>3 DEF Accept, Vacant, ConnInv, TypeOK, downVars
  <2>3. OwnerInv' /\ NoLockAfterClose'
    BY <1>3, LocksAssumption
    DEF Accept, Vacant, ConnInv, OwnerInv, Engaged, NoLockAfterClose, TypeOK, LocksTypeOK,
        lockVars, downVars
  <2>4. ClientCount'
    <3>1. c \notin Counted /\ Counted' = Counted \cup {c}
      BY <1>3 DEF Accept, Vacant, Counted, ConnInv, TypeOK
    <3>2. IsFiniteSet(Counted)
      BY LifecycleAssumption, FS_Subset DEF Counted
    <3>3. Cardinality(Counted') = Cardinality(Counted) + 1
      BY <3>1, <3>2, FS_AddElement
    <3> QED BY <1>3, <3>3, LifecycleAssumption DEF Accept, ClientCount, Counted, TypeOK
  <2> QED BY <1>2, <2>1, <2>2, <2>3, <2>4
<1>4. CASE TooManyClients(c) \/ Leave(c) \/ NeverStarts(c) \/ Authenticated(c)
           \/ Initialized(c) \/ StartupFails(c) \/ Dropped(c) \/ CleanedUp(c)
  <2> USE DEF TooManyClients, vars, Leave, NeverStarts, Authenticated, Initialized,
              StartupFails, Dropped, CleanedUp, downVars, lockVars, Destroyed
  <2>1. TypeOK'
    BY <1>2, <1>4 DEF TypeOK, LocksInv
  <2>2. ConnInv'
    BY <1>4 DEF ConnInv, TypeOK, SocketGone
  <2>3. OwnerInv'
    BY <1>4 DEF ConnInv, OwnerInv, Engaged, TypeOK
  <2>4. NoLockAfterClose'
    BY <1>1, <1>4, LocksAssumption DEF NoLockAfterClose, OwnerInv, Engaged, TypeOK, LocksTypeOK
  <2>5. ClientCount'
    <3>1. Counted' = Counted /\ clients' = clients
      BY <1>4 DEF Counted, TypeOK
    <3> QED BY <3>1, CountUntouched
  <2> QED BY <1>2, <2>1, <2>2, <2>3, <2>4, <2>5
<1> QED BY <1>3, <1>4

\* The steps that close a session.
LEMMA ClosingSteps ==
    ASSUME IInv, NEW c \in Conns,
           InitializedTooLate(c) \/ SocketClosed(c) \/ Terminate(c) \/ ShutdownCloses(c)
    PROVE  IInv'
<1> USE DEF IInv
<1>1. ASSUME CloseSession(c)
      PROVE  /\ LocksInv'
             /\ session' = [session EXCEPT ![c] = "closed"]
             /\ \A k \in Keys : held'[k].owner \in {held[k].owner, Nobody}
             /\ session[c] = "live" => \A k \in Keys : held'[k].owner # c
  BY <1>1, CloseKeeps
<1>2. CASE InitializedTooLate(c) \/ Terminate(c) \/ ShutdownCloses(c)
  <2> USE <1>1, <1>2 DEF InitializedTooLate, Terminate, ShutdownCloses, Serving, Remaining,
                         connVars, downVars
  <2>1. TypeOK'
    BY DEF TypeOK, LocksInv
  <2>2. ConnInv'
    BY DEF ConnInv, TypeOK, SocketGone
  <2>3. OwnerInv'
    BY LocksAssumption DEF ConnInv, OwnerInv, Engaged, TypeOK, LocksTypeOK
  <2>4. NoLockAfterClose'
    BY LocksAssumption DEF NoLockAfterClose, TypeOK, LocksTypeOK
  <2>5. ClientCount'
    <3>1. Counted' = Counted /\ clients' = clients
      BY DEF Counted
    <3> QED BY <3>1, CountUntouched
  <2> QED BY <1>1, <2>1, <2>2, <2>3, <2>4, <2>5
<1>3. CASE SocketClosed(c)
  <2> USE <1>3 DEF SocketClosed, FirstEvent, downVars
  <2>1. LocksInv' /\ \A k \in Keys : held'[k].owner \in {held[k].owner, Nobody}
    BY <1>1, LocksUntouched DEF lockVars
  <2>2. TypeOK'
    <3>1. FirstEvent(c) => clients >= 1
      <4>1. ASSUME ~finalized[c] PROVE c \in Counted
        BY <4>1 DEF Counted
      <4>2. IsFiniteSet(Counted)
        BY LifecycleAssumption, FS_Subset DEF Counted
      <4>3. c \in Counted => Cardinality(Counted) >= 1
        BY <4>2, FS_CardinalityType, FS_EmptySet
      <4> QED BY <4>1, <4>3 DEF ClientCount, Counted
    <3>2. clients' \in Nat
      BY <3>1 DEF TypeOK
    <3>3. session' \in [Conns -> {"none", "live", "closed"}] /\ sessions' \in SUBSET Conns
      BY <1>1 DEF TypeOK
    <3>4. cleaning' \in [Conns -> BOOLEAN] /\ finalized' \in [Conns -> BOOLEAN]
      BY DEF TypeOK
    <3>5. socket' \in [Conns -> {"unused", "open", "destroyed", "half", "gone"}]
      BY DEF TypeOK
    <3> QED BY <2>1, <3>2, <3>3, <3>4, <3>5 DEF TypeOK, LocksInv
  <2>3. ConnInv'
    BY <1>1 DEF ConnInv, TypeOK
  <2>4. OwnerInv'
    BY <1>1, <2>1, LocksAssumption
    DEF ConnInv, OwnerInv, Engaged, TypeOK, LocksTypeOK, lockVars
  <2>5. NoLockAfterClose'
    BY <1>1, <2>1, LocksAssumption DEF NoLockAfterClose, TypeOK, LocksTypeOK, lockVars
  <2>6. ClientCount'
    <3>1. CASE FirstEvent(c)
      <4>1. c \in Counted /\ Counted' = Counted \ {c}
        BY <3>1 DEF Counted, TypeOK
      <4>2. IsFiniteSet(Counted)
        BY LifecycleAssumption, FS_Subset DEF Counted
      <4>3. Cardinality(Counted') = Cardinality(Counted) - 1
        BY <4>1, <4>2, FS_RemoveElement
      <4> QED BY <3>1, <4>3, LifecycleAssumption DEF ClientCount, Counted, TypeOK
    <3>2. CASE ~FirstEvent(c)
      <4>1. Counted' = Counted /\ clients' = clients
        BY <3>2 DEF Counted, TypeOK
      <4> QED BY <4>1, CountUntouched
    <3> QED BY <3>1, <3>2
  <2> QED BY <2>1, <2>2, <2>3, <2>4, <2>5, <2>6
<1> QED BY <1>2, <1>3

\* The commands of a client, and what is left of its batch.
LEMMA CommandSteps ==
    ASSUME IInv, NEW c \in Conns,
           \/ LockCommand(c) \/ (\E k \in Keys : BatchStarts(c, k))
           \/ BatchGoesOn(c) \/ BatchFails(c)
    PROVE  IInv'
<1> USE DEF IInv
<1> USE DEF LockCommand, BatchStarts, BatchGoesOn, BatchFails, Serving, connVars, downVars
<1>1. LocksInv' /\ OwnersMove(c)
  <2>1. CASE LockCommand(c)
    BY <2>1, TryLockKeeps, UnlockKeeps, ReleaseKeeps DEF OwnersMove
  <2>2. CASE \E k \in Keys : BatchStarts(c, k)
    BY <2>2, LocksUntouched DEF OwnersMove, lockVars
  <2>3. CASE BatchGoesOn(c)
    BY <2>3, TryLockKeeps DEF TypeOK
  <2>4. CASE BatchFails(c)
    BY <2>4, LocksUntouched DEF OwnersMove, lockVars
  <2> QED BY <2>1, <2>2, <2>3, <2>4
<1>2. UNCHANGED <<clients, sessions, connVars, session, downVars>>
  OBVIOUS
<1>3. TypeOK'
  BY <1>1, <1>2 DEF TypeOK, LocksInv
<1>4. ConnInv'
  BY <1>2 DEF ConnInv
<1>5. \/ startup[c] = "done" /\ session[c] = "live" /\ c \in sessions
      \/ batch[c] # Nobody
  OBVIOUS
<1>6. startup[c] = "done" /\ (session[c] = "live" => c \in sessions)
  BY <1>5 DEF OwnerInv, Engaged
<1>7. OwnerInv'
  <2>1. \A d \in Conns : d # c => batch'[d] = batch[d]
    BY DEF TypeOK
  <2>2. batch'[c] # Nobody => c \in Batchers
    BY DEF TypeOK
  <2> QED BY <1>1, <1>2, <1>6, <2>1, <2>2, LocksAssumption DEF OwnerInv, Engaged, OwnersMove
<1>8. NoLockAfterClose'
  <2>1. session[c] = "live" \/ c \in Batchers
    BY DEF OwnerInv
  <2> QED BY <1>1, <1>2, <2>1 DEF NoLockAfterClose, OwnersMove
<1>9. ClientCount'
  BY <1>2, CountUntouched DEF Counted
<1> QED BY <1>1, <1>3, <1>4, <1>7, <1>8, <1>9

\* The steps of shutdown() between two closes.
LEMMA ShutdownSteps ==
    ASSUME IInv, Signal \/ ShutdownClosed \/ PoolEnding \/ Exit
    PROVE  IInv'
<1> USE DEF IInv, Signal, ShutdownClosed, PoolEnding, Exit, connVars
<1>1. UNCHANGED <<clients, sessions, connVars, session, batch, visited, lockVars>>
  OBVIOUS
<1>2. LocksInv'
  BY <1>1, LocksUntouched
<1>3. TypeOK'
  BY <1>2 DEF TypeOK, LocksInv
<1>4. ConnInv' /\ OwnerInv' /\ NoLockAfterClose'
  BY <1>1 DEF ConnInv, OwnerInv, Engaged, NoLockAfterClose, lockVars
<1>5. ClientCount'
  BY <1>1, CountUntouched DEF Counted
<1> QED BY <1>2, <1>3, <1>4, <1>5

LEMMA StepInv == IInv /\ [Next]_vars => IInv'
<1> SUFFICES ASSUME IInv, [Next]_vars PROVE IInv'
  OBVIOUS
<1>1. CASE Next
  BY <1>1, ConnectionSteps, ClosingSteps, CommandSteps, ShutdownSteps DEF Next, Startup
<1>2. CASE UNCHANGED vars
  BY <1>2
  DEF vars, IInv, TypeOK, LocksTypeOK, LocksInv, LockInv, LocksAsAnswered, ConnInv, OwnerInv,
      Engaged, NoLockAfterClose, ClientCount
<1> QED BY <1>1, <1>2
-----------------------------------------------------------------------------
(* Theorems.                                                               *)

\* The invariant holds in every state the server can reach.
THEOREM LifecycleInvariance == Spec => []IInv
<1>1. Init => IInv
  BY InitInv
<1>2. IInv /\ [Next]_vars => IInv'
  BY StepInv
<1> QED BY <1>1, <1>2, PTL DEF Spec

\* The fields of createPgServer and of its connections keep their types; the
\* client count is never negative.
THEOREM LifecycleTypeCorrect == Spec => []TypeOK
<1>1. IInv => TypeOK
  BY DEF IInv
<1> QED BY <1>1, LifecycleInvariance, PTL

\* The limit of clients counts each accepted socket once, until its first
\* close event.
THEOREM ClientsCounted == Spec => []ClientCount
<1>1. IInv => ClientCount
  BY DEF IInv
<1> QED BY <1>1, LifecycleInvariance, PTL

\* The lock registry agrees with the answers that the clients were given.
THEOREM LocksTruthful == Spec => []LocksAsAnswered
<1>1. IInv => LocksAsAnswered
  BY DEF IInv, LocksInv
<1> QED BY <1>1, LifecycleInvariance, PTL

\* A session that is closed, by whomever, keeps no lock taken outside a batch.
THEOREM LocksEndWithSession == Spec => []NoLockAfterClose
<1>1. IInv => NoLockAfterClose
  BY DEF IInv
<1> QED BY <1>1, LifecycleInvariance, PTL

\* A connection that is over leaves no session in the list and, unless it was
\* closed, no lock.
THEOREM ConnectionsLeaveNothing == Spec => []NothingLeft
<1>1. IInv => NothingLeft
  BY DEF IInv, ConnInv, OwnerInv, Engaged, NothingLeft, Quiet
<1> QED BY <1>1, LifecycleInvariance, PTL

\* pool.end() is called when every session that is listed is closed.
THEOREM ShutdownComplete == Spec => ShutdownReachesAll
<1>1. IInv /\ [Next]_vars =>
         [phase = "closing" /\ phase' = "ending" =>
            \A c \in sessions : session[c] = "closed"]_vars
  <2> SUFFICES ASSUME IInv, [Next]_vars, phase = "closing", phase' = "ending"
               PROVE  \A c \in sessions : session[c] = "closed"
    OBVIOUS
  <2>1. PoolEnding
    BY DEF Next, vars, Accept, TooManyClients, Leave, NeverStarts, Authenticated, Startup,
           Initialized, InitializedTooLate, StartupFails, Dropped, SocketClosed, CleanedUp,
           LockCommand, Terminate, BatchStarts, BatchGoesOn, BatchFails, ShutdownCloses,
           Signal, ShutdownClosed, Exit, connVars, downVars
  <2>2. sessions \subseteq visited
    BY <2>1 DEF PoolEnding, Remaining
  <2> QED BY <2>2 DEF IInv, ConnInv, TypeOK
<1> QED BY <1>1, LifecycleInvariance, PTL DEF Spec, ShutdownReachesAll
=============================================================================
