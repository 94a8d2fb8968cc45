-------------------------- MODULE ServerLifecycle --------------------------
(***************************************************************************)
(* The life of client connections and their sessions, src/src/server.ts,   *)
(* the shutdown of src/src/index.ts, and the advisory locks that sessions  *)
(* hold.                                                                   *)
(*                                                                         *)
(* Authentication, initialize() and close() of a session suspend, and the  *)
(* socket may be destroyed, and its 'close' event arrive, at any await.    *)
(* startup[c] says how far the onAuthenticated callback of a connection is:*)
(*   "none"            not called yet (the client is authenticating)       *)
(*   "initializing"    await session.initialize()                          *)
(*   "dropping"        await session.close() as the socket was destroyed   *)
(*   "done"            returned                                            *)
(***************************************************************************)
EXTENDS AdvisoryLocks, FiniteSets

CONSTANTS MaxClients,  \* PG_MAX_CLIENTS
          Batchers     \* connections whose clients lock in multi-statement queries

ASSUME LifecycleAssumption ==
    /\ IsFiniteSet(Conns)
    /\ MaxClients \in Nat \ {0}
    /\ Batchers \subseteq Conns

VARIABLES
    clients,    \* clients
    sessions,   \* the set of sessions that shutdown closes
    socket,     \* state of each socket; "half": the first of two close events came
    startup,    \* progress of onAuthenticated
    bound,      \* the variable session of the connection is defined
    finalized,  \* finalized
    cleaning,   \* cleanup awaits session.close()
    session,    \* each ProxySession: not created, live, or closed
    batch,      \* the key a running multi-statement query is going to lock
    phase,      \* of shutdown()
    current,    \* the session whose close() shutdown awaits
    visited     \* the sessions shutdown has closed

connVars == <<socket, startup, bound, finalized, cleaning>>
downVars == <<phase, current, visited>>
vars == <<clients, sessions, socket, startup, bound, finalized, cleaning,
          session, batch, phase, current, visited, held, believed>>
-----------------------------------------------------------------------------
TypeOK ==
    /\ LocksTypeOK
    /\ clients \in Nat
    /\ sessions \in SUBSET Conns
    /\ socket \in [Conns -> {"unused", "open", "destroyed", "half", "gone"}]
    /\ startup \in [Conns -> {"none", "initializing", "dropping", "done"}]
    /\ bound \in [Conns -> BOOLEAN]
    /\ finalized \in [Conns -> BOOLEAN]
    /\ cleaning \in [Conns -> BOOLEAN]
    /\ session \in [Conns -> {"none", "live", "closed"}]
    /\ batch \in [Conns -> Keys \cup {Nobody}]
    /\ phase \in {"running", "closing", "ending", "exited"}
    /\ current \in Conns \cup {Nobody}
    /\ visited \in SUBSET Conns

Init ==
    /\ LocksInit
    /\ clients = 0
    /\ sessions = {}
    /\ socket = [c \in Conns |-> "unused"]
    /\ startup = [c \in Conns |-> "none"]
    /\ bound = [c \in Conns |-> FALSE]
    /\ finalized = [c \in Conns |-> FALSE]
    /\ cleaning = [c \in Conns |-> FALSE]
    /\ session = [c \in Conns |-> "none"]
    /\ batch = [c \in Conns |-> Nobody]
    /\ phase = "running"
    /\ current = Nobody
    /\ visited = {}

\* The process runs, and so do its callbacks.
Alive == phase # "exited"

\* session.close() up to its first await: once only, it releases the locks.
\* The variant returns early before it comes to the locks.
MarkClosed(c) ==
    /\ session' = [session EXCEPT ![c] = "closed"]
    /\ UNCHANGED lockVars
CloseSession(c) ==
    /\ session' = [session EXCEPT ![c] = "closed"]
    /\ \/ session[c] = "live" /\ ReleaseAll(c)
       \/ session[c] = "closed" /\ UNCHANGED lockVars

\* destroy() of a socket that is still open.
Destroyed(c) == [socket EXCEPT ![c] = IF @ = "open" THEN "destroyed" ELSE @]
-----------------------------------------------------------------------------
(* One connection.                                                         *)

\* Nothing of the connection that used this identity before is left.
Vacant(c) ==
    \/ socket[c] = "unused"
    \/ /\ socket[c] = "gone" /\ startup[c] = "done" /\ ~cleaning[c]
       /\ batch[c] = Nobody /\ c \notin sessions \cup visited
       /\ \A k \in Keys : held[k].owner # c

\* A socket is accepted below the limit, and destroyed at once otherwise.
Accept(c) ==
    /\ phase = "running" /\ Vacant(c)
    /\ clients < MaxClients
    /\ clients' = clients + 1
    /\ socket' = [socket EXCEPT ![c] = "open"]
    /\ startup' = [startup EXCEPT ![c] = "none"]
    /\ bound' = [bound EXCEPT ![c] = FALSE]
    /\ finalized' = [finalized EXCEPT ![c] = FALSE]
    /\ session' = [session EXCEPT ![c] = "none"]
    /\ UNCHANGED <<sessions, cleaning, batch, downVars, lockVars>>

TooManyClients(c) ==
    /\ phase = "running" /\ Vacant(c)
    /\ clients >= MaxClients
    /\ UNCHANGED vars

\* The client leaves, times out, or fails to authenticate.
Leave(c) ==
    /\ Alive /\ socket[c] = "open"
    /\ socket' = Destroyed(c)
    /\ UNCHANGED <<clients, sessions, startup, bound, finalized, cleaning, session, batch,
                   downVars, lockVars>>

\* A client that left before it authenticated, or asked for another database.
NeverStarts(c) ==
    /\ Alive /\ startup[c] = "none" /\ socket[c] # "unused"
    /\ startup' = [startup EXCEPT ![c] = "done"]
    /\ socket' = Destroyed(c)
    /\ UNCHANGED <<clients, sessions, bound, finalized, cleaning, session, batch,
                   downVars, lockVars>>

\* The password check may settle when the socket is gone already.
Authenticated(c) ==
    /\ Alive /\ startup[c] = "none" /\ socket[c] # "unused"
    /\ startup' = [startup EXCEPT ![c] = "initializing"]
    /\ session' = [session EXCEPT ![c] = "live"]
    /\ bound' = [bound EXCEPT ![c] = TRUE]
    /\ UNCHANGED <<clients, sessions, socket, finalized, cleaning, batch, downVars, lockVars>>

\* initialize() resolved: is the client still there?  The variant omits to ask.
NeverGone(c) == FALSE
SocketGone(c) == socket[c] # "open"

Initialized(c) ==
    /\ Alive /\ startup[c] = "initializing" /\ ~SocketGone(c)
    /\ sessions' = sessions \cup {c}
    /\ startup' = [startup EXCEPT ![c] = "done"]
    /\ UNCHANGED <<clients, socket, bound, finalized, cleaning, session, batch, downVars, lockVars>>

InitializedTooLate(c) ==
    /\ Alive /\ startup[c] = "initializing" /\ SocketGone(c) /\ bound[c]
    /\ CloseSession(c)
    /\ startup' = [startup EXCEPT ![c] = "dropping"]
    /\ UNCHANGED <<clients, sessions, socket, bound, finalized, cleaning, batch, downVars>>

\* initialize() rejected, or the session is undefined by now: cleanup is done.
StartupFails(c) ==
    /\ Alive /\ startup[c] = "initializing"
    /\ startup' = [startup EXCEPT ![c] = "done"]
    /\ socket' = Destroyed(c)
    /\ UNCHANGED <<clients, sessions, bound, finalized, cleaning, session, batch,
                   downVars, lockVars>>

Dropped(c) ==
    /\ Alive /\ startup[c] = "dropping"
    /\ startup' = [startup EXCEPT ![c] = "done"]
    /\ bound' = [bound EXCEPT ![c] = FALSE]
    /\ UNCHANGED <<clients, sessions, socket, finalized, cleaning, session, batch,
                   downVars, lockVars>>

\* The test of finalize(); the variant finalizes at every close event.
EveryEvent(c) == TRUE
FirstEvent(c) == ~finalized[c]

\* The 'close' event: a TLS client's socket and the one below it emit one each.
SocketClosed(c) ==
    /\ Alive /\ socket[c] \in {"destroyed", "half"}
    /\ \/ socket' = [socket EXCEPT ![c] = "gone"]
       \/ /\ socket[c] = "destroyed" /\ c \in sessions
          /\ socket' = [socket EXCEPT ![c] = "half"]
    /\ finalized' = [finalized EXCEPT ![c] = TRUE]
    /\ \/ FirstEvent(c) /\ clients' = clients - 1
       \/ ~FirstEvent(c) /\ UNCHANGED clients
    /\ \/ /\ FirstEvent(c) /\ bound[c]
          /\ sessions' = sessions \ {c}
          /\ CloseSession(c)
          /\ cleaning' = [cleaning EXCEPT ![c] = TRUE]
       \/ /\ ~(FirstEvent(c) /\ bound[c])
          /\ UNCHANGED <<sessions, session, cleaning, lockVars>>
    /\ UNCHANGED <<startup, bound, batch, downVars>>

CleanedUp(c) ==
    /\ Alive /\ cleaning[c]
    /\ cleaning' = [cleaning EXCEPT ![c] = FALSE]
    /\ bound' = [bound EXCEPT ![c] = FALSE]
    /\ UNCHANGED <<clients, sessions, socket, startup, finalized, session, batch,
                   downVars, lockVars>>
-----------------------------------------------------------------------------
(* Commands of a client that has a session.  handleMessage ignores them    *)
(* once the session is closed, and takes them one after another.           *)

Serving(c) ==
    /\ Alive /\ startup[c] = "done" /\ session[c] = "live" /\ c \in sessions
    /\ batch[c] = Nobody

LockCommand(c) ==
    /\ Serving(c)
    /\ \/ \E k \in Keys : TryLock(c, k) \/ Unlock(c, k)
       \/ ReleaseAll(c)
    /\ UNCHANGED <<clients, sessions, connVars, session, batch, downVars>>

\* Terminate closes the session; the socket closes later.
Terminate(c) ==
    /\ Serving(c)
    /\ CloseSession(c)
    /\ UNCHANGED <<clients, sessions, connVars, batch, downVars>>

\* In a transaction, "CREATE SCHEMA ...; SELECT pg_try_advisory_lock(k)": the
\* second statement runs after the await of the first, with no test of closed.
BatchStarts(c, k) ==
    /\ Serving(c) /\ c \in Batchers
    /\ batch' = [batch EXCEPT ![c] = k]
    /\ UNCHANGED <<clients, sessions, connVars, session, downVars, lockVars>>

BatchGoesOn(c) ==
    /\ Alive /\ batch[c] # Nobody
    /\ TryLock(c, batch[c])
    /\ batch' = [batch EXCEPT ![c] = Nobody]
    /\ UNCHANGED <<clients, sessions, connVars, session, downVars>>

BatchFails(c) ==
    /\ Alive /\ batch[c] # Nobody
    /\ batch' = [batch EXCEPT ![c] = Nobody]
    /\ UNCHANGED <<clients, sessions, connVars, session, downVars, lockVars>>
-----------------------------------------------------------------------------
(* shutdown()                                                              *)

Signal ==
    /\ phase = "running"
    /\ phase' = "closing"
    /\ UNCHANGED <<clients, sessions, connVars, session, batch, current, visited, lockVars>>

\* Iteration of a Set reaches what is added meanwhile; the variant stops after
\* the first await.
OnlyFirst == IF visited = {} THEN sessions ELSE {}
Remaining == sessions \ visited

ShutdownCloses(c) ==
    /\ phase = "closing" /\ current = Nobody
    /\ c \in Remaining
    /\ CloseSession(c)
    /\ current' = c
    /\ visited' = visited \cup {c}
    /\ UNCHANGED <<clients, sessions, connVars, batch, phase>>

ShutdownClosed ==
    /\ phase = "closing" /\ current # Nobody
    /\ current' = Nobody
    /\ UNCHANGED <<clients, sessions, connVars, session, batch, phase, visited, lockVars>>

\* pool.end() is called, and resolves.
PoolEnding ==
    /\ phase = "closing" /\ current = Nobody /\ Remaining = {}
    /\ phase' = "ending"
    /\ UNCHANGED <<clients, sessions, connVars, session, batch, current, visited, lockVars>>

\* process.exit, after pool.end() or when SHUTDOWN_GRACE_MS have passed.
Exit ==
    /\ phase \in {"closing", "ending"}
    /\ phase' = "exited"
    /\ UNCHANGED <<clients, sessions, connVars, session, batch, current, visited, lockVars>>
-----------------------------------------------------------------------------
Startup(c) ==
    Initialized(c) \/ InitializedTooLate(c) \/ StartupFails(c) \/ Dropped(c)

Next ==
    \/ \E c \in Conns :
          \/ Accept(c) \/ TooManyClients(c) \/ Leave(c)
          \/ NeverStarts(c) \/ Authenticated(c) \/ Startup(c)
          \/ SocketClosed(c) \/ CleanedUp(c)
          \/ LockCommand(c) \/ Terminate(c)
          \/ (\E k \in Keys : BatchStarts(c, k)) \/ BatchGoesOn(c) \/ BatchFails(c)
          \/ ShutdownCloses(c)
    \/ Signal \/ ShutdownClosed \/ PoolEnding \/ Exit

Spec == Init /\ [][Next]_vars
-----------------------------------------------------------------------------
\* PG_MAX_CLIENTS counts every accepted socket exactly once, whatever fails
\* during startup and however many close events its sockets emit.
ClientCount ==
    /\ clients = Cardinality({c \in Conns : socket[c] # "unused" /\ ~finalized[c]})
    /\ clients <= MaxClients

\* When a connection is over, nothing of it stays in the server: its session is
\* not listed, so shutdown and the clients that come later do not meet it, and
\* if nobody closed it (it failed to start) it holds no lock.
Quiet(c) == socket[c] = "gone" /\ startup[c] = "done" /\ ~cleaning[c]
NothingLeft ==
    \A c \in Conns : Quiet(c) =>
        /\ c \notin sessions
        /\ session[c] = "live" => \A k \in Keys : held[k].owner # c

\* The registry agrees with what each client was told: it holds a key exactly
\* if it was granted more locks than unlocks since its session began.
LocksAsAnswered ==
    \A c \in Conns, k \in Keys :
        believed[c][k] = IF held[k].owner = c THEN held[k].count ELSE 0

\* A closed session holds no lock, whether the client, the socket or shutdown
\* closed it, if its client locks in statements of their own.
NoLockAfterClose ==
    \A k \in Keys : held[k].owner \notin Batchers \cup {Nobody} =>
        session[held[k].owner] = "live"

\* pool.end() is called when every listed session is closed, those that were
\* listed during the loop too.
ShutdownReachesAll ==
    [][phase = "closing" /\ phase' = "ending" =>
          \A c \in sessions : session[c] = "closed"]_vars
-----------------------------------------------------------------------------
\* "closing the PostgreSQL TCP session automatically releases its advisory
\* locks" (docs/BUILD_FIX_0.1.20.md): a closed session none of whose queries
\* still runs holds no lock.
CloseReleasesLocks ==
    \A k \in Keys : held[k].owner # Nobody =>
        session[held[k].owner] # "closed" \/ batch[held[k].owner] # Nobody
=============================================================================
