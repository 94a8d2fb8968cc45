------------------------ MODULE SessionJobPoolProofs ------------------------
(***************************************************************************)
(* Proofs about SessionJobPool for every set of callers and jobs and every *)
(* pair of sizes: its invariants, and that it implements JobLeases.        *)
(***************************************************************************)
EXTENDS SessionJobPool, FiniteSetTheorems, SequenceTheorems, TLAPS

(* Lists without repetition: what the pool does to idle and waiters, seen  *)
(* as sets.                                                                *)

\* The first element of idle or waiters is taken out, and only that one.
LEMMA TailOfList ==
    ASSUME NEW S, NEW s \in Seq(S), s # <<>>, IsInjective(s)
    PROVE  /\ Tail(s) \in Seq(S)
           /\ Head(s) \in ToSet(s)
           /\ ToSet(Tail(s)) = ToSet(s) \ {Head(s)}
           /\ IsInjective(Tail(s))
<1>1. /\ Tail(s) \in Seq(S)
      /\ Len(Tail(s)) = Len(s) - 1
      /\ \A i \in 1..Len(Tail(s)) : Tail(s)[i] = s[i + 1]
      /\ Head(s) = s[1]
      /\ Len(s) \in Nat \ {0}
    BY HeadTailProperties
<1>2. DOMAIN s = 1..Len(s) /\ DOMAIN Tail(s) = 1..(Len(s) - 1)
    BY <1>1
<1>3. ToSet(Tail(s)) \subseteq ToSet(s) \ {Head(s)}
    BY <1>1, <1>2 DEF ToSet, IsInjective
<1>4. ASSUME NEW x \in ToSet(s) \ {Head(s)} PROVE x \in ToSet(Tail(s))
    <2>1. PICK i \in 1..Len(s) : s[i] = x
        BY <1>2 DEF ToSet
    <2>2. i - 1 \in 1..(Len(s) - 1) /\ Tail(s)[i - 1] = x
        BY <1>1, <1>2, <2>1
    <2> QED BY <1>2, <2>2 DEF ToSet
<1>5. IsInjective(Tail(s))
    BY <1>1, <1>2 DEF IsInjective
<1>6. Head(s) \in ToSet(s)
    BY <1>1, <1>2 DEF ToSet
<1> QED BY <1>1, <1>3, <1>4, <1>5, <1>6

\* A job pushed to idle, or a caller that queues, is added once at the end.
LEMMA AppendToList ==
    ASSUME NEW S, NEW s \in Seq(S), NEW x \in S
    PROVE  /\ Append(s, x) \in Seq(S)
           /\ Append(s, x) # <<>>
           /\ ToSet(Append(s, x)) = ToSet(s) \cup {x}
           /\ IsInjective(s) /\ x \notin ToSet(s) => IsInjective(Append(s, x))
<1>1. /\ Append(s, x) \in Seq(S)
      /\ Len(Append(s, x)) = Len(s) + 1
      /\ \A i \in 1..Len(s) : Append(s, x)[i] = s[i]
      /\ Append(s, x)[Len(s) + 1] = x
      /\ Len(s) \in Nat
    BY AppendProperties
<1>2. DOMAIN s = 1..Len(s) /\ DOMAIN Append(s, x) = 1..(Len(s) + 1)
    BY <1>1
<1>3. ToSet(Append(s, x)) = ToSet(s) \cup {x}
    BY <1>1, <1>2 DEF ToSet
<1>4. ASSUME IsInjective(s), x \notin ToSet(s) PROVE IsInjective(Append(s, x))
    BY <1>1, <1>2, <1>4 DEF IsInjective, ToSet
<1> QED BY <1>1, <1>3, <1>4

\* Splicing a waiter out, or filtering a job out of idle, removes it alone.
LEMMA WithoutInList ==
    ASSUME NEW S, NEW s \in Seq(S), NEW x, IsInjective(s)
    PROVE  /\ Without(s, x) \in Seq(S)
           /\ ToSet(Without(s, x)) = ToSet(s) \ {x}
           /\ IsInjective(Without(s, x))
<1>1. CASE x \notin ToSet(s)
    BY <1>1 DEF Without
<1>2. CASE x \in ToSet(s)
    <2> DEFINE k == CHOOSE i \in DOMAIN s : s[i] = x
               t == Without(s, x)
    <2>1. k \in DOMAIN s /\ s[k] = x
        BY <1>2 DEF ToSet
    <2>2. Len(s) \in Nat /\ DOMAIN s = 1..Len(s) /\ k \in 1..Len(s)
        BY <2>1
    <2>3. t = SubSeq(s, 1, k - 1) \o SubSeq(s, k + 1, Len(s))
        BY <1>2 DEF Without, RemoveAt
    <2> HIDE DEF k
    <2>4. /\ t \in Seq(S)
          /\ Len(t) = Len(s) - 1
          /\ \A i \in 1..(Len(s) - 1) : t[i] = IF i < k THEN s[i] ELSE s[i + 1]
        <3> DEFINE u == SubSeq(s, 1, k - 1)
                   v == SubSeq(s, k + 1, Len(s))
        <3>1. /\ u \in Seq(S) /\ Len(u) = k - 1
              /\ \A i \in 1..(k - 1) : u[i] = s[i]
            <4>1. \A i \in 1..(k - 1) : s[i] \in S
                BY <2>2
            <4> QED BY <2>2, <4>1, SubSeqProperties
        <3>2. /\ v \in Seq(S) /\ Len(v) = Len(s) - k
              /\ \A i \in 1..(Len(s) - k) : v[i] = s[k + i]
            <4> DEFINE m == k + 1
                       n == Len(s)
            <4>1. m \in Int /\ n \in Int /\ \A i \in m..n : s[i] \in S
                BY <2>2
            <4> HIDE DEF m, n, v
            <4>2. /\ SubSeq(s, m, n) \in Seq(S)
                  /\ Len(SubSeq(s, m, n)) = IF m <= n THEN n - m + 1 ELSE 0
                  /\ \A i \in 1..(n - m + 1) : SubSeq(s, m, n)[i] = s[m + i - 1]
                BY <4>1, SubSeqProperties
            <4>3. v = SubSeq(s, m, n) /\ n = Len(s) /\ m = k + 1
                BY DEF m, n, v
            <4>4. n - m + 1 = Len(s) - k /\ (m <= n \/ Len(s) - k = 0)
                <5>1. n \in Nat /\ k \in 1..n
                    BY <2>2 DEF n
                <5>2. n - (k + 1) + 1 = n - k /\ (k + 1 <= n \/ n - k = 0)
                    BY <5>1
                <5> QED BY <5>2 DEF m, n
            <4>5. v \in Seq(S) /\ Len(v) = Len(s) - k
                BY <2>2, <4>2, <4>3, <4>4
            <4>6. ASSUME NEW i \in 1..(Len(s) - k) PROVE v[i] = s[k + i]
                <5>1. m + i - 1 = k + i
                    BY <2>2, <4>3
                <5> QED BY <4>2, <4>3, <4>4, <5>1
            <4> QED BY <4>5, <4>6
        <3> HIDE DEF u, v
        <3>3. t = u \o v
            BY <2>3 DEF u, v
        <3>4. /\ u \o v \in Seq(S)
              /\ Len(u \o v) = Len(u) + Len(v)
              /\ \A i \in 1..(Len(u) + Len(v)) :
                    (u \o v)[i] = IF i <= Len(u) THEN u[i] ELSE v[i - Len(u)]
            BY <3>1, <3>2, ConcatProperties
        <3> QED BY <2>2, <3>1, <3>2, <3>3, <3>4
    <2> HIDE DEF t
    <2>5. DOMAIN t = 1..(Len(s) - 1)
        BY <2>2, <2>4
    <2>6. ToSet(t) \subseteq ToSet(s) \ {x}
        BY <2>1, <2>2, <2>4, <2>5 DEF ToSet, IsInjective
    <2>7. ASSUME NEW y \in ToSet(s) \ {x} PROVE y \in ToSet(t)
        <3>1. PICK i \in 1..Len(s) : s[i] = y
            BY <2>2 DEF ToSet
        <3>2. CASE i < k
            BY <2>2, <2>4, <2>5, <3>1, <3>2 DEF ToSet
        <3>3. CASE i > k
            <4>1. i - 1 \in 1..(Len(s) - 1) /\ t[i - 1] = y
                BY <2>2, <2>4, <3>1, <3>3
            <4> QED BY <2>5, <4>1 DEF ToSet
        <3>4. i # k
            BY <2>1, <3>1
        <3> QED BY <2>2, <3>1, <3>2, <3>3, <3>4
    <2>8. IsInjective(t)
        BY <2>2, <2>4, <2>5 DEF IsInjective
    <2> QED BY <2>4, <2>6, <2>7, <2>8 DEF t
<1> QED BY <1>1, <1>2
-----------------------------------------------------------------------------
(* The inductive invariant.                                                *)

\* The sets the cap counts are finite.
LEMMA FiniteSets ==
    ASSUME TypeOK
    PROVE  IsFiniteSet(all) /\ IsFiniteSet(Creators) /\ Cardinality(all) \in Nat
<1>1. all \subseteq Jobs /\ Creators \subseteq Callers
    BY DEF TypeOK, Creators
<1> QED BY <1>1, SetsAssumption, FS_Subset, FS_CardinalityType

\* acquire() takes the oldest idle job.
LEMMA AcquireIdleStep ==
    ASSUME IInv, NEW c \in Callers, AcquireIdle(c)
    PROVE  IInv'
<1> DEFINE j == Head(idle)
<1>1. /\ idle \in Seq(Jobs) /\ idle # <<>> /\ IsInjective(idle)
      /\ pc[c] = "out" /\ job[c] = NoJob
    BY DEF IInv, TypeOK, Exclusive, CallsInv, AcquireIdle, JobPCs
<1>2. /\ idle' \in Seq(Jobs) /\ j \in ToSet(idle) /\ IsInjective(idle')
      /\ ToSet(idle') = ToSet(idle) \ {j} /\ j \in Jobs
    BY <1>1, TailOfList, HeadTailProperties DEF AcquireIdle, TakeIdle
<1> HIDE DEF j
<1>3. /\ leased' = leased \cup {j}
      /\ pc' = [pc EXCEPT ![c] = "holding"] /\ job' = [job EXCEPT ![c] = j]
      /\ UNCHANGED <<all, waiters, creating, open, dirty, shutdown>>
    BY DEF AcquireIdle, Goto, j
<1>4. TypeOK'
    BY <1>2, <1>3 DEF IInv, TypeOK, PCs, JobPCs, shutdown
<1>5. Exclusive'
    BY <1>1, <1>2, <1>3, SetsAssumption DEF IInv, TypeOK, Exclusive, Referenced
<1>6. Capacity'
    <2>1. Creators' = Creators
        BY <1>1, <1>3 DEF IInv, TypeOK, Creators, CreatingPCs
    <2> QED BY <2>1, <1>3 DEF IInv, Capacity
<1>7. Accounting'
    BY <1>1, <1>2, <1>3 DEF IInv, TypeOK, Accounting, Held, shutdown
<1>8. CallsInv'
    BY <1>1, <1>2, <1>3, SetsAssumption DEF IInv, TypeOK, CallsInv, JobPCs, shutdown
<1>9. ShutdownInv'
    BY <1>1, <1>2, <1>3 DEF IInv, TypeOK, ShutdownInv, shutdown
<1>10. IsInjective(waiters)' /\ NoIdleWhileWaiting' /\ IdleIsClean' /\ NoWaiterAfterEnd'
    BY <1>1, <1>2, <1>3 DEF IInv, TypeOK, NoIdleWhileWaiting, IdleIsClean, NoWaiterAfterEnd, shutdown
<1> QED BY <1>4, <1>5, <1>6, <1>7, <1>8, <1>9, <1>10 DEF IInv

\* acquire() reserves a slot and starts to connect.
LEMMA AcquireConnectStep ==
    ASSUME IInv, NEW c \in Callers, AcquireConnect(c)
    PROVE  IInv'
<1>1. /\ pc[c] = "out" /\ job[c] = NoJob /\ ~ending
      /\ Cardinality(all) + creating < MaxSize
    BY DEF IInv, TypeOK, CallsInv, JobPCs, AcquireConnect, Accepting, Slots
<1>2. /\ creating' = creating + 1
      /\ pc' = [pc EXCEPT ![c] = "connecting"] /\ job' = [job EXCEPT ![c] = NoJob]
      /\ UNCHANGED <<idle, leased, all, waiters, open, dirty, shutdown>>
    BY DEF AcquireConnect, Goto
<1>3. TypeOK'
    BY <1>1, <1>2 DEF IInv, TypeOK, PCs, CreatingPCs, JobPCs, shutdown, fields
<1>4. Exclusive'
    BY <1>1, <1>2, SetsAssumption DEF IInv, TypeOK, Exclusive, Referenced, fields
<1>5. Capacity'
    <2>1. Creators' = Creators \cup {c} /\ c \notin Creators
        BY <1>1, <1>2 DEF IInv, TypeOK, Creators, CreatingPCs
    <2>2. Cardinality(Creators') = creating'
        BY <2>1, <1>1, <1>2, FiniteSets, FS_AddElement DEF IInv, Capacity
    <2>3. Cardinality(all) + creating < MaxSize /\ creating \in Nat /\ Cardinality(all) \in Nat
        BY <1>1, <1>2, FiniteSets, SizesAssumption DEF IInv, TypeOK
    <2>4. Cardinality(all) + (creating + 1) <= MaxSize
        BY <2>3, SizesAssumption
    <2> QED BY <2>2, <2>4, <1>1, <1>2 DEF Capacity
<1>6. Accounting'
    BY <1>1, <1>2 DEF IInv, TypeOK, Accounting, CallsInv, CreatingPCs, Held, shutdown, fields
<1>7. CallsInv'
    BY <1>1, <1>2, SetsAssumption DEF IInv, TypeOK, Exclusive, CallsInv, JobPCs, shutdown, fields
<1>8. ShutdownInv'
    BY <1>1, <1>2 DEF IInv, TypeOK, CallsInv, ShutdownInv, shutdown, fields
<1>9. IsInjective(waiters)' /\ NoIdleWhileWaiting' /\ IdleIsClean' /\ NoWaiterAfterEnd'
    BY <1>1, <1>2 DEF IInv, TypeOK, CallsInv, NoIdleWhileWaiting, IdleIsClean, NoWaiterAfterEnd, shutdown, fields
<1> QED BY <1>3, <1>4, <1>5, <1>6, <1>7, <1>8, <1>9 DEF IInv

\* acquire() queues when every slot is taken.
LEMMA AcquireWaitStep ==
    ASSUME IInv, NEW c \in Callers, AcquireWait(c)
    PROVE  IInv'
<1>1. /\ pc[c] = "out" /\ job[c] = NoJob /\ ~ending /\ idle = <<>>
      /\ c \notin ToSet(waiters) /\ waiters \in Seq(Callers) /\ IsInjective(waiters)
    BY DEF IInv, TypeOK, CallsInv, JobPCs, AcquireWait, Accepting, Accounting
<1>2. /\ waiters' \in Seq(Callers) /\ IsInjective(waiters')
      /\ ToSet(waiters') = ToSet(waiters) \cup {c}
    BY <1>1, AppendToList DEF AcquireWait
<1>3. /\ pc' = [pc EXCEPT ![c] = "waiting"] /\ job' = [job EXCEPT ![c] = NoJob]
      /\ UNCHANGED <<idle, leased, all, creating, open, dirty, shutdown>>
    BY DEF AcquireWait, Goto
<1>4. TypeOK'
    BY <1>1, <1>2, <1>3 DEF IInv, TypeOK, PCs, CreatingPCs, JobPCs, shutdown, fields
<1>5. Exclusive'
    BY <1>1, <1>2, <1>3, SetsAssumption DEF IInv, TypeOK, Exclusive, Referenced, fields
<1>6. Capacity'
    <2>1. Creators' = Creators
        BY <1>1, <1>2, <1>3 DEF IInv, TypeOK, Creators, CreatingPCs
    <2> QED BY <2>1, <1>1, <1>2, <1>3 DEF IInv, Capacity, fields
<1>7. Accounting'
    BY <1>1, <1>2, <1>3 DEF IInv, TypeOK, Accounting, CallsInv, CreatingPCs, Held, shutdown, fields
<1>8. CallsInv'
    BY <1>1, <1>2, <1>3, SetsAssumption DEF IInv, TypeOK, Exclusive, CallsInv, JobPCs, shutdown, fields
<1>9. ShutdownInv'
    BY <1>1, <1>2, <1>3 DEF IInv, TypeOK, CallsInv, ShutdownInv, shutdown, fields
<1>10. IsInjective(waiters)' /\ NoIdleWhileWaiting' /\ IdleIsClean' /\ NoWaiterAfterEnd'
    BY <1>1, <1>2, <1>3 DEF IInv, TypeOK, CallsInv, NoIdleWhileWaiting, IdleIsClean, NoWaiterAfterEnd, shutdown, fields
<1> QED BY <1>4, <1>5, <1>6, <1>7, <1>8, <1>9, <1>10 DEF IInv

\* The acquire timer takes its waiter, and no other, out of the queue.
LEMMA WaitTimesOutStep ==
    ASSUME IInv, NEW c \in Callers, WaitTimesOut(c)
    PROVE  IInv'
<1>1. /\ pc[c] = "waiting" /\ job[c] = NoJob
      /\ c \in ToSet(waiters) /\ waiters \in Seq(Callers) /\ IsInjective(waiters)
    BY DEF IInv, TypeOK, CallsInv, JobPCs, WaitTimesOut, Accounting
<1>2. /\ waiters' \in Seq(Callers) /\ IsInjective(waiters')
      /\ ToSet(waiters') = ToSet(waiters) \ {c}
    BY <1>1, WithoutInList DEF WaitTimesOut
<1>3. /\ pc' = [pc EXCEPT ![c] = "out"] /\ job' = [job EXCEPT ![c] = NoJob]
      /\ UNCHANGED <<idle, leased, all, creating, open, dirty, shutdown>>
      /\ waiters # <<>>
    BY <1>1 DEF WaitTimesOut, Goto, ToSet
<1>4. TypeOK'
    BY <1>1, <1>2, <1>3 DEF IInv, TypeOK, PCs, CreatingPCs, JobPCs, shutdown, fields
<1>5. Exclusive'
    BY <1>1, <1>2, <1>3, SetsAssumption DEF IInv, TypeOK, Exclusive, Referenced, fields
<1>6. Capacity'
    <2>1. Creators' = Creators
        BY <1>1, <1>2, <1>3 DEF IInv, TypeOK, Creators, CreatingPCs
    <2> QED BY <2>1, <1>1, <1>2, <1>3 DEF IInv, Capacity, fields
<1>7. Accounting'
    BY <1>1, <1>2, <1>3 DEF IInv, TypeOK, Accounting, CallsInv, CreatingPCs, Held, shutdown, fields
<1>8. CallsInv'
    BY <1>1, <1>2, <1>3, SetsAssumption DEF IInv, TypeOK, Exclusive, CallsInv, JobPCs, shutdown, fields
<1>9. ShutdownInv'
    BY <1>1, <1>2, <1>3 DEF IInv, TypeOK, CallsInv, ShutdownInv, shutdown, fields
<1>10. IsInjective(waiters)' /\ NoIdleWhileWaiting' /\ IdleIsClean' /\ NoWaiterAfterEnd'
    BY <1>1, <1>2, <1>3 DEF IInv, TypeOK, CallsInv, NoIdleWhileWaiting, IdleIsClean, NoWaiterAfterEnd, shutdown, fields
<1> QED BY <1>4, <1>5, <1>6, <1>7, <1>8, <1>9, <1>10 DEF IInv

\* connect() resolved: the new SQLJob is in nobody else's hands.
LEMMA ConnectedStep ==
    ASSUME IInv, NEW c \in Callers, NEW j \in Jobs, Connected(c, j)
    PROVE  IInv'
<1>1. /\ j \notin all \cup open \cup closing /\ \A d \in Callers : job[d] # j
      /\ j # NoJob /\ job[c] = NoJob /\ j \notin ToSet(idle) /\ j \notin dirty
    BY SetsAssumption DEF IInv, TypeOK, CallsInv, JobPCs, Connected, Fresh, ShutdownInv
<1>2. PICK p \in {"configuring", "reconfiguring"} :
      /\ pc[c] \in {"connecting", "reconnecting"}
      /\ pc' = [pc EXCEPT ![c] = p] /\ job' = [job EXCEPT ![c] = j]
    BY DEF Connected, Goto
<1>3. open' = open \cup {j} /\ UNCHANGED <<fields, dirty, shutdown>>
    BY DEF Connected
<1>4. TypeOK'
    BY <1>1, <1>2, <1>3 DEF IInv, TypeOK, PCs, CreatingPCs, JobPCs, shutdown, fields
<1>5. Exclusive'
    BY <1>1, <1>2, <1>3, SetsAssumption DEF IInv, TypeOK, Exclusive, Referenced, fields
<1>6. Capacity'
    <2>1. Creators' = Creators
        BY <1>1, <1>2, <1>3 DEF IInv, TypeOK, Creators, CreatingPCs
    <2> QED BY <2>1, <1>1, <1>2, <1>3 DEF IInv, Capacity, fields
<1>7. Accounting'
    BY <1>1, <1>2, <1>3 DEF IInv, TypeOK, Accounting, CallsInv, CreatingPCs, Held, shutdown, fields
<1>8. CallsInv'
    BY <1>1, <1>2, <1>3, SetsAssumption DEF IInv, TypeOK, Exclusive, CallsInv, JobPCs, shutdown, fields
<1>9. ShutdownInv'
    BY <1>1, <1>2, <1>3 DEF IInv, TypeOK, CallsInv, ShutdownInv, shutdown, fields
<1>10. IsInjective(waiters)' /\ NoIdleWhileWaiting' /\ IdleIsClean' /\ NoWaiterAfterEnd'
    BY <1>1, <1>2, <1>3 DEF IInv, TypeOK, CallsInv, NoIdleWhileWaiting, IdleIsClean, NoWaiterAfterEnd, shutdown, fields
<1> QED BY <1>4, <1>5, <1>6, <1>7, <1>8, <1>9, <1>10 DEF IInv

\* A failed connection gives its reservation back.
LEMMA ConnectFailsStep ==
    ASSUME IInv, NEW c \in Callers, ConnectFails(c)
    PROVE  IInv'
<1>1. pc[c] \in CreatingPCs
    BY DEF ConnectFails
<1>2. /\ creating' = creating - 1
      /\ pc' = [pc EXCEPT ![c] = "out"] /\ job' = [job EXCEPT ![c] = NoJob]
      /\ UNCHANGED <<idle, leased, all, waiters, open, dirty, shutdown>>
    BY DEF ConnectFails, ReleaseReservation, Goto
<1>3. creating - 1 \in Nat
    <2>1. creating = Cardinality(Creators) /\ c \in Creators
        BY <1>1 DEF IInv, Capacity, Creators
    <2> QED BY <2>1, FiniteSets, FS_RemoveElement, FS_CardinalityType, FS_EmptySet DEF IInv
<1>4. TypeOK'
    BY <1>1, <1>2, <1>3 DEF IInv, TypeOK, PCs, CreatingPCs, JobPCs, shutdown, fields
<1>5. Exclusive'
    BY <1>1, <1>2, <1>3, SetsAssumption DEF IInv, TypeOK, Exclusive, Referenced, fields
<1>6. Capacity'
    <2>1. Creators' = Creators \ {c} /\ c \in Creators
        BY <1>1, <1>2, <1>3 DEF IInv, TypeOK, Creators, CreatingPCs
    <2>2. Cardinality(Creators') = creating'
        BY <2>1, <1>1, <1>2, <1>3, FiniteSets, FS_RemoveElement DEF IInv, Capacity
    <2>3. Cardinality(all) + creating <= MaxSize /\ creating \in Nat /\ Cardinality(all) \in Nat
        BY FiniteSets DEF IInv, TypeOK, Capacity
    <2>4. Cardinality(all) + (creating - 1) <= MaxSize
        BY <2>3, SizesAssumption
    <2> QED BY <2>2, <2>4, <1>1, <1>2, <1>3 DEF Capacity
<1>7. Accounting'
    BY <1>1, <1>2, <1>3 DEF IInv, TypeOK, Accounting, CallsInv, CreatingPCs, Held, shutdown, fields
<1>8. CallsInv'
    BY <1>1, <1>2, <1>3, SetsAssumption DEF IInv, TypeOK, Exclusive, CallsInv, JobPCs, shutdown, fields
<1>9. ShutdownInv'
    BY <1>1, <1>2, <1>3 DEF IInv, TypeOK, CallsInv, ShutdownInv, shutdown, fields
<1>10. IsInjective(waiters)' /\ NoIdleWhileWaiting' /\ IdleIsClean' /\ NoWaiterAfterEnd'
    BY <1>1, <1>2, <1>3 DEF IInv, TypeOK, CallsInv, NoIdleWhileWaiting, IdleIsClean, NoWaiterAfterEnd, shutdown, fields
<1> QED BY <1>4, <1>5, <1>6, <1>7, <1>8, <1>9, <1>10 DEF IInv

\* acquire() turns its reservation into a counted, leased job.
LEMMA ConfiguredStep ==
    ASSUME IInv, NEW c \in Callers, Configured(c)
    PROVE  IInv'
<1>1. /\ pc[c] = "configuring" /\ job[c] \in Jobs /\ job[c] \notin all
      /\ job[c] \notin dirty /\ (~ending => job[c] \in open)
    BY DEF IInv, TypeOK, CallsInv, JobPCs, Configured
<1>2. /\ creating' = creating - 1
      /\ all' = all \cup {job[c]} /\ leased' = leased \cup {job[c]}
      /\ pc' = [pc EXCEPT ![c] = "holding"] /\ job' = job
      /\ UNCHANGED <<idle, waiters, open, dirty, shutdown>>
    BY DEF IInv, TypeOK, Configured, ReleaseReservation, Goto
<1>3. creating - 1 \in Nat
    <2>1. creating = Cardinality(Creators) /\ c \in Creators
        BY <1>1 DEF IInv, Capacity, Creators, CreatingPCs
    <2> QED BY <2>1, FiniteSets, FS_RemoveElement, FS_CardinalityType, FS_EmptySet DEF IInv
<1>4. TypeOK'
    BY <1>1, <1>2, <1>3 DEF IInv, TypeOK, PCs, CreatingPCs, JobPCs, shutdown, fields
<1>5. Exclusive'
    BY <1>1, <1>2, <1>3, SetsAssumption DEF IInv, TypeOK, Exclusive, Referenced, fields
<1>6. Capacity'
    <2>1. Creators' = Creators \ {c} /\ c \in Creators
        BY <1>1, <1>2, <1>3 DEF IInv, TypeOK, Creators, CreatingPCs
    <2>2. Cardinality(Creators') = creating'
        BY <2>1, <1>1, <1>2, <1>3, FiniteSets, FS_RemoveElement DEF IInv, Capacity
    <2>3. Cardinality(all') = Cardinality(all) + 1
        BY <1>1, <1>2, <1>3, FiniteSets, FS_AddElement DEF IInv
    <2>4. Cardinality(all) + creating <= MaxSize /\ creating \in Nat /\ Cardinality(all) \in Nat
        BY FiniteSets DEF IInv, TypeOK, Capacity
    <2>5. (Cardinality(all) + 1) + (creating - 1) <= MaxSize
        BY <2>4, SizesAssumption
    <2> QED BY <2>2, <2>3, <2>5, <1>1, <1>2, <1>3 DEF Capacity
<1>7. Accounting'
    BY <1>1, <1>2, <1>3 DEF IInv, TypeOK, Accounting, CallsInv, CreatingPCs, Held, shutdown, fields
<1>8. CallsInv'
    BY <1>1, <1>2, <1>3, SetsAssumption DEF IInv, TypeOK, Exclusive, CallsInv, JobPCs, shutdown, fields
<1>9. ShutdownInv'
    BY <1>1, <1>2, <1>3 DEF IInv, TypeOK, CallsInv, ShutdownInv, shutdown, fields
<1>10. IsInjective(waiters)' /\ NoIdleWhileWaiting' /\ IdleIsClean' /\ NoWaiterAfterEnd'
    BY <1>1, <1>2, <1>3 DEF IInv, TypeOK, CallsInv, NoIdleWhileWaiting, IdleIsClean, NoWaiterAfterEnd, shutdown, fields
<1> QED BY <1>4, <1>5, <1>6, <1>7, <1>8, <1>9, <1>10 DEF IInv

\* SQL of a client runs on a leased, connected job.
LEMMA UseStep ==
    ASSUME IInv, NEW c \in Callers, Use(c)
    PROVE  IInv'
<1>1. /\ pc[c] = "holding" /\ job[c] \in open /\ job[c] \in Referenced
      /\ dirty' = dirty \cup {job[c]} /\ UNCHANGED <<fields, pc, job, open, shutdown>>
    BY SetsAssumption DEF IInv, TypeOK, CallsInv, JobPCs, Use, Referenced
<1>2. \A d \in Callers : pc[d] \in {"configuring", "reconfiguring", "closing"} => job[d] # job[c]
    BY <1>1 DEF IInv, Exclusive, CallsInv, JobPCs
<1>3. job[c] \notin ToSet(idle)
    BY <1>1 DEF IInv, Exclusive
<1>4. TypeOK'
    BY <1>1, <1>2, <1>3 DEF IInv, TypeOK, PCs, CreatingPCs, JobPCs, shutdown, fields
<1>5. Exclusive'
    BY <1>1, <1>2, <1>3, SetsAssumption DEF IInv, TypeOK, Exclusive, Referenced, fields
<1>6. Capacity'
    <2>1. Creators' = Creators
        BY <1>1, <1>2, <1>3 DEF IInv, TypeOK, Creators, CreatingPCs
    <2> QED BY <2>1, <1>1, <1>2, <1>3 DEF IInv, Capacity, fields
<1>7. Accounting'
    BY <1>1, <1>2, <1>3 DEF IInv, TypeOK, Accounting, CallsInv, CreatingPCs, Held, shutdown, fields
<1>8. CallsInv'
    BY <1>1, <1>2, <1>3, SetsAssumption DEF IInv, TypeOK, Exclusive, CallsInv, JobPCs, shutdown, fields
<1>9. ShutdownInv'
    BY <1>1, <1>2, <1>3 DEF IInv, TypeOK, CallsInv, ShutdownInv, shutdown, fields
<1>10. IsInjective(waiters)' /\ NoIdleWhileWaiting' /\ IdleIsClean' /\ NoWaiterAfterEnd'
    BY <1>1, <1>2, <1>3 DEF IInv, TypeOK, CallsInv, NoIdleWhileWaiting, IdleIsClean, NoWaiterAfterEnd, shutdown, fields
<1> QED BY <1>4, <1>5, <1>6, <1>7, <1>8, <1>9, <1>10 DEF IInv

\* release() takes the lease back before it cleans the job.
LEMMA ReleaseStep ==
    ASSUME IInv, NEW c \in Callers, Release(c)
    PROVE  IInv'
<1>1. /\ pc[c] = "holding" /\ job[c] \in all
    BY DEF Release
<1>2. /\ leased' = leased \ {job[c]}
      /\ pc' = [pc EXCEPT ![c] = "cleaning"] /\ job' = job
      /\ UNCHANGED <<idle, all, waiters, creating, open, dirty, shutdown>>
    BY DEF IInv, TypeOK, Release, Goto
<1>3. \A d \in Callers : d # c /\ job[d] = job[c] => FALSE
    BY <1>1 DEF IInv, Exclusive, CallsInv, JobPCs
<1>4. TypeOK'
    BY <1>1, <1>2, <1>3 DEF IInv, TypeOK, PCs, CreatingPCs, JobPCs, shutdown, fields
<1>5. Exclusive'
    BY <1>1, <1>2, <1>3, SetsAssumption DEF IInv, TypeOK, Exclusive, Referenced, fields
<1>6. Capacity'
    <2>1. Creators' = Creators
        BY <1>1, <1>2, <1>3 DEF IInv, TypeOK, Creators, CreatingPCs
    <2> QED BY <2>1, <1>1, <1>2, <1>3 DEF IInv, Capacity, fields
<1>7. Accounting'
    BY <1>1, <1>2, <1>3 DEF IInv, TypeOK, Accounting, CallsInv, CreatingPCs, Held, shutdown, fields
<1>8. CallsInv'
    BY <1>1, <1>2, <1>3, SetsAssumption DEF IInv, TypeOK, Exclusive, CallsInv, JobPCs, shutdown, fields
<1>9. ShutdownInv'
    BY <1>1, <1>2, <1>3 DEF IInv, TypeOK, CallsInv, ShutdownInv, shutdown, fields
<1>10. IsInjective(waiters)' /\ NoIdleWhileWaiting' /\ IdleIsClean' /\ NoWaiterAfterEnd'
    BY <1>1, <1>2, <1>3 DEF IInv, TypeOK, CallsInv, NoIdleWhileWaiting, IdleIsClean, NoWaiterAfterEnd, shutdown, fields
<1> QED BY <1>4, <1>5, <1>6, <1>7, <1>8, <1>9, <1>10 DEF IInv

\* A job the pool forgot is dropped by its holder.
LEMMA ReleaseUnknownStep ==
    ASSUME IInv, NEW c \in Callers, ReleaseUnknown(c)
    PROVE  IInv'
<1>1. /\ pc[c] = "holding" /\ job[c] \notin all
    BY DEF ReleaseUnknown
<1>2. /\ pc' = [pc EXCEPT ![c] = "out"] /\ job' = [job EXCEPT ![c] = NoJob]
      /\ UNCHANGED <<fields, open, dirty, shutdown>>
    BY DEF ReleaseUnknown, Goto
<1>3. TypeOK'
    BY <1>1, <1>2 DEF IInv, TypeOK, PCs, CreatingPCs, JobPCs, shutdown, fields
<1>4. Exclusive'
    BY <1>1, <1>2, SetsAssumption DEF IInv, TypeOK, Exclusive, Referenced, fields
<1>5. Capacity'
    <2>1. Creators' = Creators
        BY <1>1, <1>2 DEF IInv, TypeOK, Creators, CreatingPCs
    <2> QED BY <2>1, <1>1, <1>2 DEF IInv, Capacity, fields
<1>6. Accounting'
    BY <1>1, <1>2 DEF IInv, TypeOK, Accounting, CallsInv, CreatingPCs, Held, shutdown, fields
<1>7. CallsInv'
    BY <1>1, <1>2, SetsAssumption DEF IInv, TypeOK, Exclusive, CallsInv, JobPCs, shutdown, fields
<1>8. ShutdownInv'
    BY <1>1, <1>2 DEF IInv, TypeOK, CallsInv, ShutdownInv, shutdown, fields
<1>9. IsInjective(waiters)' /\ NoIdleWhileWaiting' /\ IdleIsClean' /\ NoWaiterAfterEnd'
    BY <1>1, <1>2 DEF IInv, TypeOK, CallsInv, NoIdleWhileWaiting, IdleIsClean, NoWaiterAfterEnd, shutdown, fields
<1> QED BY <1>3, <1>4, <1>5, <1>6, <1>7, <1>8, <1>9 DEF IInv

\* release() closed the job of an ending pool.
LEMMA ClosedStep ==
    ASSUME IInv, NEW c \in Callers, Closed(c)
    PROVE  IInv'
<1>1. /\ pc[c] = "closing" /\ ending /\ job[c] \notin dirty
    BY DEF IInv, TypeOK, CallsInv, JobPCs, Closed
<1>2. /\ open' = open \ {job[c]}
      /\ pc' = [pc EXCEPT ![c] = "out"] /\ job' = [job EXCEPT ![c] = NoJob]
      /\ UNCHANGED <<fields, dirty, shutdown>>
    BY DEF Closed, Goto
<1>3. TypeOK'
    BY <1>1, <1>2 DEF IInv, TypeOK, PCs, CreatingPCs, JobPCs, shutdown, fields
<1>4. Exclusive'
    BY <1>1, <1>2, SetsAssumption DEF IInv, TypeOK, Exclusive, Referenced, fields
<1>5. Capacity'
    <2>1. Creators' = Creators
        BY <1>1, <1>2 DEF IInv, TypeOK, Creators, CreatingPCs
    <2> QED BY <2>1, <1>1, <1>2 DEF IInv, Capacity, fields
<1>6. Accounting'
    BY <1>1, <1>2 DEF IInv, TypeOK, Accounting, CallsInv, CreatingPCs, Held, shutdown, fields
<1>7. CallsInv'
    BY <1>1, <1>2, SetsAssumption DEF IInv, TypeOK, Exclusive, CallsInv, JobPCs, shutdown, fields
<1>8. ShutdownInv'
    BY <1>1, <1>2 DEF IInv, TypeOK, CallsInv, ShutdownInv, shutdown, fields
<1>9. IsInjective(waiters)' /\ NoIdleWhileWaiting' /\ IdleIsClean' /\ NoWaiterAfterEnd'
    BY <1>1, <1>2 DEF IInv, TypeOK, CallsInv, NoIdleWhileWaiting, IdleIsClean, NoWaiterAfterEnd, shutdown, fields
<1> QED BY <1>3, <1>4, <1>5, <1>6, <1>7, <1>8, <1>9 DEF IInv

\* invalidate() forgets the job everywhere at once.
LEMMA DiscardStep ==
    ASSUME IInv, NEW c \in Callers, pc[c] \in {"cleaning", "holding"}, Discard(c)
    PROVE  IInv'
<1>1. /\ idle \in Seq(Jobs) /\ IsInjective(idle) /\ job[c] \in Jobs
      /\ job[c] \notin ToSet(idle)
    BY DEF IInv, TypeOK, Exclusive, CallsInv, JobPCs, Referenced
<1>2. /\ idle' \in Seq(Jobs) /\ IsInjective(idle')
      /\ ToSet(idle') = ToSet(idle) /\ (idle = <<>> => idle' = <<>>)
    BY <1>1, WithoutInList DEF Discard, Without, ToSet
<1>3. /\ leased' = leased \ {job[c]} /\ all' = all \ {job[c]}
      /\ pc' = [pc EXCEPT ![c] = "discarding"] /\ job' = job
      /\ UNCHANGED <<waiters, creating, open, dirty, shutdown>>
    BY DEF IInv, TypeOK, Discard, Goto
<1>4. \A d \in Callers : d # c /\ job[d] = job[c] => FALSE
    BY <1>1, SetsAssumption DEF IInv, Exclusive
<1>5. TypeOK'
    BY <1>1, <1>2, <1>3, <1>4 DEF IInv, TypeOK, PCs, CreatingPCs, JobPCs, shutdown, fields
<1>6. Exclusive'
    BY <1>1, <1>2, <1>3, <1>4, SetsAssumption DEF IInv, TypeOK, Exclusive, Referenced, fields
<1>7. Capacity'
    <2>1. Creators' = Creators
        BY <1>1, <1>2, <1>3, <1>4 DEF IInv, TypeOK, Creators, CreatingPCs
    <2>2. Cardinality(all') <= Cardinality(all) /\ Cardinality(all') \in Nat
        <3>1. all' \in SUBSET all /\ IsFiniteSet(all)
            BY <1>1, <1>2, <1>3, <1>4, FiniteSets DEF IInv
        <3> QED BY <3>1, FS_Subset, FS_CardinalityType
    <2>3. creating \in Nat /\ creating' = creating /\ Cardinality(all) \in Nat
        BY <1>1, <1>2, <1>3, <1>4, FiniteSets DEF IInv, TypeOK
    <2>4. Cardinality(all) + creating <= MaxSize
        BY DEF IInv, Capacity
    <2>5. Cardinality(all') + creating' <= MaxSize
        BY <2>2, <2>3, <2>4, SizesAssumption
    <2>6. creating = Cardinality(Creators)
        BY DEF IInv, Capacity
    <2> QED BY <2>1, <2>3, <2>5, <2>6 DEF Capacity
<1>8. Accounting'
    BY <1>1, <1>2, <1>3, <1>4 DEF IInv, TypeOK, Accounting, CallsInv, CreatingPCs, Held, shutdown, fields
<1>9. CallsInv'
    BY <1>1, <1>2, <1>3, <1>4, SetsAssumption DEF IInv, TypeOK, Exclusive, CallsInv, JobPCs, shutdown, fields
<1>10. ShutdownInv'
    BY <1>1, <1>2, <1>3, <1>4 DEF IInv, TypeOK, CallsInv, ShutdownInv, shutdown, fields
<1>11. IsInjective(waiters)' /\ NoIdleWhileWaiting' /\ IdleIsClean' /\ NoWaiterAfterEnd'
    BY <1>1, <1>2, <1>3, <1>4 DEF IInv, TypeOK, CallsInv, NoIdleWhileWaiting, IdleIsClean, NoWaiterAfterEnd, shutdown, fields
<1> QED BY <1>5, <1>6, <1>7, <1>8, <1>9, <1>10, <1>11 DEF IInv

\* release() leases the cleaned job to the oldest waiter.
LEMMA CleanedHandOverStep ==
    ASSUME IInv, NEW c \in Callers, Cleaned(c), HandOver(c, job[c])
    PROVE  IInv'
<1>1. /\ pc[c] = "cleaning" /\ job[c] \in open /\ job[c] \in Jobs
      /\ dirty' = dirty \ {job[c]}
      /\ UNCHANGED <<all, creating, open, shutdown>>
    BY DEF IInv, TypeOK, CallsInv, JobPCs, Cleaned, ResetState
<1>2. /\ NextWaiter \in Callers /\ NextWaiter # c
      /\ pc[NextWaiter] = "waiting" /\ job[NextWaiter] = NoJob
      /\ waiters' \in Seq(Callers) /\ IsInjective(waiters')
      /\ ToSet(waiters') = ToSet(waiters) \ {NextWaiter}
      /\ idle = <<>> /\ ~ending /\ ToSet(idle) = {}
    <2>1. waiters \in Seq(Callers) /\ waiters # <<>> /\ IsInjective(waiters)
        BY DEF IInv, TypeOK, HandOver
    <2>2. NextWaiter \in ToSet(waiters)
        BY <2>1, TailOfList DEF NextWaiter
    <2>3. /\ waiters' \in Seq(Callers) /\ IsInjective(waiters')
          /\ ToSet(waiters') = ToSet(waiters) \ {NextWaiter}
        BY <2>1, WithoutInList DEF HandOver
    <2>4. NextWaiter \in Callers /\ pc[NextWaiter] = "waiting" /\ job[NextWaiter] = NoJob
        BY <2>2 DEF IInv, TypeOK, Accounting, CallsInv, JobPCs
    <2>5. idle = <<>> /\ ~ending
        BY <2>1 DEF IInv, NoIdleWhileWaiting, NoWaiterAfterEnd
    <2> QED BY <1>1, <2>3, <2>4, <2>5 DEF CreatingPCs, ToSet
<1>3. /\ leased' = leased \cup {job[c]}
      /\ pc' = [pc EXCEPT ![NextWaiter] = "holding", ![c] = "out"]
      /\ job' = [job EXCEPT ![NextWaiter] = job[c], ![c] = NoJob]
      /\ UNCHANGED idle
    BY DEF HandOver
<1>4. job[c] \in all /\ job[c] # NoJob
    BY <1>1, <1>2, SetsAssumption DEF IInv, CallsInv
<1>5. TypeOK'
    BY <1>1, <1>2, <1>3, <1>4 DEF IInv, TypeOK, PCs, CreatingPCs, JobPCs, shutdown, fields
<1>6. Exclusive'
    BY <1>1, <1>2, <1>3, <1>4, SetsAssumption DEF IInv, TypeOK, Exclusive, Referenced, fields
<1>7. Capacity'
    <2>1. Creators' = Creators
        BY <1>1, <1>2, <1>3, <1>4 DEF IInv, TypeOK, Creators, CreatingPCs
    <2> QED BY <2>1, <1>1, <1>2, <1>3, <1>4 DEF IInv, Capacity, fields
<1>8. Accounting'
    BY <1>1, <1>2, <1>3, <1>4 DEF IInv, TypeOK, Accounting, CallsInv, CreatingPCs, Held, shutdown, fields
<1>9. CallsInv'
    BY <1>1, <1>2, <1>3, <1>4, SetsAssumption DEF IInv, TypeOK, Exclusive, CallsInv, JobPCs, shutdown, fields
<1>10. ShutdownInv'
    BY <1>1, <1>2, <1>3, <1>4 DEF IInv, TypeOK, CallsInv, ShutdownInv, shutdown, fields
<1>11. IsInjective(waiters)' /\ NoIdleWhileWaiting' /\ IdleIsClean' /\ NoWaiterAfterEnd'
    BY <1>1, <1>2, <1>3, <1>4 DEF IInv, TypeOK, CallsInv, NoIdleWhileWaiting, IdleIsClean, NoWaiterAfterEnd, shutdown, fields
<1> QED BY <1>5, <1>6, <1>7, <1>8, <1>9, <1>10, <1>11 DEF IInv

\* release() puts the cleaned job at the end of idle.
LEMMA CleanedPushIdleStep ==
    ASSUME IInv, NEW c \in Callers, Cleaned(c), waiters = <<>>, ~ending, PushIdle(c,
           job[c])
    PROVE  IInv'
<1>1. /\ pc[c] = "cleaning" /\ job[c] \in open /\ job[c] \in Jobs
      /\ dirty' = dirty \ {job[c]}
      /\ UNCHANGED <<all, creating, open, shutdown>>
    BY DEF IInv, TypeOK, CallsInv, JobPCs, Cleaned, ResetState
<1>2. /\ idle' \in Seq(Jobs) /\ IsInjective(idle')
      /\ ToSet(idle') = ToSet(idle) \cup {job[c]}
    <2>1. idle \in Seq(Jobs) /\ IsInjective(idle) /\ job[c] \notin ToSet(idle)
        BY <1>1, SetsAssumption DEF IInv, TypeOK, Exclusive, Referenced
    <2> QED BY <1>1, <2>1, AppendToList DEF PushIdle
<1>3. /\ pc' = [pc EXCEPT ![c] = "out"] /\ job' = [job EXCEPT ![c] = NoJob]
      /\ UNCHANGED <<leased, waiters>> /\ waiters = <<>>
    BY DEF PushIdle, Goto
<1>4. job[c] \in all /\ job[c] \notin leased /\ job[c] # NoJob
    BY <1>1, SetsAssumption DEF IInv, Exclusive, Accounting, CallsInv, Held
<1>5. TypeOK'
    BY <1>1, <1>2, <1>3, <1>4 DEF IInv, TypeOK, PCs, CreatingPCs, JobPCs, shutdown, fields
<1>6. Exclusive'
    BY <1>1, <1>2, <1>3, <1>4, SetsAssumption DEF IInv, TypeOK, Exclusive, Referenced, fields
<1>7. Capacity'
    <2>1. Creators' = Creators
        BY <1>1, <1>2, <1>3, <1>4 DEF IInv, TypeOK, Creators, CreatingPCs
    <2> QED BY <2>1, <1>1, <1>2, <1>3, <1>4 DEF IInv, Capacity, fields
<1>8. Accounting'
    BY <1>1, <1>2, <1>3, <1>4 DEF IInv, TypeOK, Accounting, CallsInv, CreatingPCs, Held, shutdown, fields
<1>9. CallsInv'
    BY <1>1, <1>2, <1>3, <1>4, SetsAssumption DEF IInv, TypeOK, Exclusive, CallsInv, JobPCs, shutdown, fields
<1>10. ShutdownInv'
    BY <1>1, <1>2, <1>3, <1>4 DEF IInv, TypeOK, CallsInv, ShutdownInv, shutdown, fields
<1>11. IsInjective(waiters)' /\ NoIdleWhileWaiting' /\ IdleIsClean' /\ NoWaiterAfterEnd'
    BY <1>1, <1>2, <1>3, <1>4 DEF IInv, TypeOK, CallsInv, NoIdleWhileWaiting, IdleIsClean, NoWaiterAfterEnd, shutdown, fields
<1> QED BY <1>5, <1>6, <1>7, <1>8, <1>9, <1>10, <1>11 DEF IInv

\* release() on an ending pool goes on to close the job.
LEMMA CleanedClosingStep ==
    ASSUME IInv, NEW c \in Callers, Cleaned(c), waiters = <<>>, ending, Goto(c,
           "closing", job[c]), UNCHANGED <<idle, leased, waiters>>
    PROVE  IInv'
<1>1. /\ pc[c] = "cleaning" /\ job[c] \in open /\ job[c] \in Jobs
      /\ dirty' = dirty \ {job[c]}
      /\ UNCHANGED <<all, creating, open, shutdown>>
    BY DEF IInv, TypeOK, CallsInv, JobPCs, Cleaned, ResetState
<1>2. /\ pc' = [pc EXCEPT ![c] = "closing"] /\ job' = job
      /\ UNCHANGED <<idle, leased, waiters>>
    BY DEF IInv, TypeOK, Goto
<1>3. \A d \in Callers : d # c /\ job[d] = job[c] => FALSE
    BY <1>1, SetsAssumption DEF IInv, Exclusive
<1>4. TypeOK'
    BY <1>1, <1>2, <1>3 DEF IInv, TypeOK, PCs, CreatingPCs, JobPCs, shutdown, fields
<1>5. Exclusive'
    BY <1>1, <1>2, <1>3, SetsAssumption DEF IInv, TypeOK, Exclusive, Referenced, fields
<1>6. Capacity'
    <2>1. Creators' = Creators
        BY <1>1, <1>2, <1>3 DEF IInv, TypeOK, Creators, CreatingPCs
    <2> QED BY <2>1, <1>1, <1>2, <1>3 DEF IInv, Capacity, fields
<1>7. Accounting'
    BY <1>1, <1>2, <1>3 DEF IInv, TypeOK, Accounting, CallsInv, CreatingPCs, Held, shutdown, fields
<1>8. CallsInv'
    BY <1>1, <1>2, <1>3, SetsAssumption DEF IInv, TypeOK, Exclusive, CallsInv, JobPCs, shutdown, fields
<1>9. ShutdownInv'
    BY <1>1, <1>2, <1>3 DEF IInv, TypeOK, CallsInv, ShutdownInv, shutdown, fields
<1>10. IsInjective(waiters)' /\ NoIdleWhileWaiting' /\ IdleIsClean' /\ NoWaiterAfterEnd'
    BY <1>1, <1>2, <1>3 DEF IInv, TypeOK, CallsInv, NoIdleWhileWaiting, IdleIsClean, NoWaiterAfterEnd, shutdown, fields
<1> QED BY <1>4, <1>5, <1>6, <1>7, <1>8, <1>9, <1>10 DEF IInv

\* The replacement of a discarded job goes to the oldest waiter.
LEMMA ReplacedHandOverStep ==
    ASSUME IInv, NEW c \in Callers, Replaced(c), HandOver(c, job[c])
    PROVE  IInv'
<1>1. /\ pc[c] = "reconfiguring" /\ job[c] \in Jobs /\ job[c] \notin all
      /\ job[c] \notin dirty /\ (~ending => job[c] \in open)
      /\ creating' = creating - 1 /\ all' = all \cup {job[c]}
      /\ UNCHANGED <<open, dirty, shutdown>>
    BY DEF IInv, TypeOK, CallsInv, JobPCs, Replaced, ReleaseReservation
<1>2. /\ NextWaiter \in Callers /\ NextWaiter # c
      /\ pc[NextWaiter] = "waiting" /\ job[NextWaiter] = NoJob
      /\ waiters' \in Seq(Callers) /\ IsInjective(waiters')
      /\ ToSet(waiters') = ToSet(waiters) \ {NextWaiter}
      /\ idle = <<>> /\ ~ending /\ ToSet(idle) = {}
    <2>1. waiters \in Seq(Callers) /\ waiters # <<>> /\ IsInjective(waiters)
        BY DEF IInv, TypeOK, HandOver
    <2>2. NextWaiter \in ToSet(waiters)
        BY <2>1, TailOfList DEF NextWaiter
    <2>3. /\ waiters' \in Seq(Callers) /\ IsInjective(waiters')
          /\ ToSet(waiters') = ToSet(waiters) \ {NextWaiter}
        BY <2>1, WithoutInList DEF HandOver
    <2>4. NextWaiter \in Callers /\ pc[NextWaiter] = "waiting" /\ job[NextWaiter] = NoJob
        BY <2>2 DEF IInv, TypeOK, Accounting, CallsInv, JobPCs
    <2>5. idle = <<>> /\ ~ending
        BY <2>1 DEF IInv, NoIdleWhileWaiting, NoWaiterAfterEnd
    <2> QED BY <1>1, <2>3, <2>4, <2>5 DEF CreatingPCs, ToSet
<1>3. /\ leased' = leased \cup {job[c]}
      /\ pc' = [pc EXCEPT ![NextWaiter] = "holding", ![c] = "out"]
      /\ job' = [job EXCEPT ![NextWaiter] = job[c], ![c] = NoJob]
      /\ UNCHANGED idle
    BY DEF HandOver
<1>4. creating - 1 \in Nat
    <2>1. creating = Cardinality(Creators) /\ c \in Creators
        BY <1>1 DEF IInv, Capacity, Creators, CreatingPCs
    <2> QED BY <2>1, FiniteSets, FS_RemoveElement, FS_CardinalityType, FS_EmptySet DEF IInv
<1>5. TypeOK'
    BY <1>1, <1>2, <1>3, <1>4 DEF IInv, TypeOK, PCs, CreatingPCs, JobPCs, shutdown, fields
<1>6. Exclusive'
    BY <1>1, <1>2, <1>3, <1>4, SetsAssumption DEF IInv, TypeOK, Exclusive, Referenced, fields
<1>7. Capacity'
    <2>1. Creators' = Creators \ {c} /\ c \in Creators
        BY <1>1, <1>2, <1>3, <1>4 DEF IInv, TypeOK, Creators, CreatingPCs
    <2>2. Cardinality(Creators') = creating'
        BY <2>1, <1>1, <1>2, <1>3, <1>4, FiniteSets, FS_RemoveElement DEF IInv, Capacity
    <2>3. Cardinality(all') = Cardinality(all) + 1
        BY <1>1, <1>2, <1>3, <1>4, FiniteSets, FS_AddElement DEF IInv
    <2>4. Cardinality(all) + creating <= MaxSize /\ creating \in Nat /\ Cardinality(all) \in Nat
        BY FiniteSets DEF IInv, TypeOK, Capacity
    <2>5. (Cardinality(all) + 1) + (creating - 1) <= MaxSize
        BY <2>4, SizesAssumption
    <2> QED BY <2>2, <2>3, <2>5, <1>1, <1>2, <1>3, <1>4 DEF Capacity
<1>8. Accounting'
    BY <1>1, <1>2, <1>3, <1>4 DEF IInv, TypeOK, Accounting, CallsInv, CreatingPCs, Held, shutdown, fields
<1>9. CallsInv'
    BY <1>1, <1>2, <1>3, <1>4, SetsAssumption DEF IInv, TypeOK, Exclusive, CallsInv, JobPCs, shutdown, fields
<1>10. ShutdownInv'
    BY <1>1, <1>2, <1>3, <1>4 DEF IInv, TypeOK, CallsInv, ShutdownInv, shutdown, fields
<1>11. IsInjective(waiters)' /\ NoIdleWhileWaiting' /\ IdleIsClean' /\ NoWaiterAfterEnd'
    BY <1>1, <1>2, <1>3, <1>4 DEF IInv, TypeOK, CallsInv, NoIdleWhileWaiting, IdleIsClean, NoWaiterAfterEnd, shutdown, fields
<1> QED BY <1>5, <1>6, <1>7, <1>8, <1>9, <1>10, <1>11 DEF IInv

\* The replacement of a discarded job becomes idle.
LEMMA ReplacedPushIdleStep ==
    ASSUME IInv, NEW c \in Callers, Replaced(c), waiters = <<>>, PushIdle(c, job[c])
    PROVE  IInv'
<1>1. /\ pc[c] = "reconfiguring" /\ job[c] \in Jobs /\ job[c] \notin all
      /\ job[c] \notin dirty /\ (~ending => job[c] \in open)
      /\ creating' = creating - 1 /\ all' = all \cup {job[c]}
      /\ UNCHANGED <<open, dirty, shutdown>>
    BY DEF IInv, TypeOK, CallsInv, JobPCs, Replaced, ReleaseReservation
<1>2. /\ idle' \in Seq(Jobs) /\ IsInjective(idle')
      /\ ToSet(idle') = ToSet(idle) \cup {job[c]}
    <2>1. idle \in Seq(Jobs) /\ IsInjective(idle) /\ job[c] \notin ToSet(idle)
        BY <1>1, SetsAssumption DEF IInv, TypeOK, Exclusive, Referenced
    <2> QED BY <1>1, <2>1, AppendToList DEF PushIdle
<1>3. /\ pc' = [pc EXCEPT ![c] = "out"] /\ job' = [job EXCEPT ![c] = NoJob]
      /\ UNCHANGED <<leased, waiters>> /\ waiters = <<>>
    BY DEF PushIdle, Goto
<1>4. /\ creating - 1 \in Nat
      /\ job[c] # NoJob /\ job[c] \notin leased
      /\ \A d \in Callers : d # c => job[d] # job[c]
    <2>1. creating = Cardinality(Creators) /\ c \in Creators
        BY <1>1 DEF IInv, Capacity, Creators, CreatingPCs
    <2>2. creating - 1 \in Nat
        BY <2>1, FiniteSets, FS_RemoveElement, FS_CardinalityType, FS_EmptySet DEF IInv
    <2>3. job[c] # NoJob /\ job[c] \notin leased
        BY <1>1, SetsAssumption DEF IInv, Accounting
    <2>4. \A d \in Callers : d # c => job[d] # job[c]
        BY <2>3 DEF IInv, Exclusive
    <2> QED BY <2>2, <2>3, <2>4
<1>5. TypeOK'
    BY <1>1, <1>2, <1>3, <1>4 DEF IInv, TypeOK, PCs, CreatingPCs, JobPCs, shutdown, fields
<1>6. Exclusive'
    BY <1>1, <1>2, <1>3, <1>4, SetsAssumption DEF IInv, TypeOK, Exclusive, Referenced, fields
<1>7. Capacity'
    <2>1. Creators' = Creators \ {c} /\ c \in Creators
        BY <1>1, <1>2, <1>3, <1>4 DEF IInv, TypeOK, Creators, CreatingPCs
    <2>2. Cardinality(Creators') = creating'
        BY <2>1, <1>1, <1>2, <1>3, <1>4, FiniteSets, FS_RemoveElement DEF IInv, Capacity
    <2>3. Cardinality(all') = Cardinality(all) + 1
        BY <1>1, <1>2, <1>3, <1>4, FiniteSets, FS_AddElement DEF IInv
    <2>4. Cardinality(all) + creating <= MaxSize /\ creating \in Nat /\ Cardinality(all) \in Nat
        BY FiniteSets DEF IInv, TypeOK, Capacity
    <2>5. (Cardinality(all) + 1) + (creating - 1) <= MaxSize
        BY <2>4, SizesAssumption
    <2> QED BY <2>2, <2>3, <2>5, <1>1, <1>2, <1>3, <1>4 DEF Capacity
<1>8. Accounting'
    BY <1>1, <1>2, <1>3, <1>4 DEF IInv, TypeOK, Accounting, CallsInv, CreatingPCs, Held, shutdown, fields
<1>9. CallsInv'
    BY <1>1, <1>2, <1>3, <1>4, SetsAssumption DEF IInv, TypeOK, Exclusive, CallsInv, JobPCs, shutdown, fields
<1>10. ShutdownInv'
    BY <1>1, <1>2, <1>3, <1>4 DEF IInv, TypeOK, CallsInv, ShutdownInv, shutdown, fields
<1>11. IsInjective(waiters)' /\ NoIdleWhileWaiting' /\ IdleIsClean' /\ NoWaiterAfterEnd'
    BY <1>1, <1>2, <1>3, <1>4 DEF IInv, TypeOK, CallsInv, NoIdleWhileWaiting, IdleIsClean, NoWaiterAfterEnd, shutdown, fields
<1> QED BY <1>5, <1>6, <1>7, <1>8, <1>9, <1>10, <1>11 DEF IInv

\* invalidate() reserves a slot for the replacement.
LEMMA DiscardedReplaceStep ==
    ASSUME IInv, NEW c \in Callers, Discarded(c), ~ending, Slots < StartingSize,
           creating' = creating + 1, Goto(c, "reconnecting", NoJob)
    PROVE  IInv'
<1>1. /\ pc[c] = "discarding" /\ job[c] \in Jobs /\ job[c] \notin all
      /\ open' = open \ {job[c]} /\ dirty' = dirty \ {job[c]}
      /\ UNCHANGED <<idle, leased, all, waiters, shutdown>>
    BY DEF IInv, TypeOK, CallsInv, JobPCs, Discarded
<1>2. /\ creating' = creating + 1 /\ Cardinality(all) + creating < StartingSize
      /\ pc' = [pc EXCEPT ![c] = "reconnecting"] /\ job' = [job EXCEPT ![c] = NoJob]
    BY DEF Goto, Slots
<1>3. \A d \in Callers : d # c /\ job[d] = job[c] => FALSE
    BY <1>1, SetsAssumption DEF IInv, Exclusive
<1>4. TypeOK'
    BY <1>1, <1>2, <1>3 DEF IInv, TypeOK, PCs, CreatingPCs, JobPCs, shutdown, fields
<1>5. Exclusive'
    BY <1>1, <1>2, <1>3, SetsAssumption DEF IInv, TypeOK, Exclusive, Referenced, fields
<1>6. Capacity'
    <2>1. Creators' = Creators \cup {c} /\ c \notin Creators
        BY <1>1, <1>2, <1>3 DEF IInv, TypeOK, Creators, CreatingPCs
    <2>2. Cardinality(Creators') = creating'
        BY <2>1, <1>1, <1>2, <1>3, FiniteSets, FS_AddElement DEF IInv, Capacity
    <2>3. Cardinality(all) + creating < MaxSize /\ creating \in Nat /\ Cardinality(all) \in Nat
        <3>1. Cardinality(all) + creating < StartingSize /\ creating \in Nat /\ Cardinality(all) \in Nat
            BY <1>1, <1>2, <1>3, FiniteSets DEF IInv, TypeOK
        <3> QED BY <3>1, SizesAssumption
    <2>4. Cardinality(all) + (creating + 1) <= MaxSize
        BY <2>3, SizesAssumption
    <2> QED BY <2>2, <2>4, <1>1, <1>2, <1>3 DEF Capacity
<1>7. Accounting'
    BY <1>1, <1>2, <1>3 DEF IInv, TypeOK, Accounting, CallsInv, CreatingPCs, Held, shutdown, fields
<1>8. CallsInv'
    BY <1>1, <1>2, <1>3, SetsAssumption DEF IInv, TypeOK, Exclusive, CallsInv, JobPCs, shutdown, fields
<1>9. ShutdownInv'
    BY <1>1, <1>2, <1>3 DEF IInv, TypeOK, CallsInv, ShutdownInv, shutdown, fields
<1>10. IsInjective(waiters)' /\ NoIdleWhileWaiting' /\ IdleIsClean' /\ NoWaiterAfterEnd'
    BY <1>1, <1>2, <1>3 DEF IInv, TypeOK, CallsInv, NoIdleWhileWaiting, IdleIsClean, NoWaiterAfterEnd, shutdown, fields
<1> QED BY <1>4, <1>5, <1>6, <1>7, <1>8, <1>9, <1>10 DEF IInv

\* invalidate() ends without a replacement.
LEMMA DiscardedStopStep ==
    ASSUME IInv, NEW c \in Callers, Discarded(c), Goto(c, "out", NoJob),
           UNCHANGED creating
    PROVE  IInv'
<1>1. /\ pc[c] = "discarding" /\ job[c] \in Jobs /\ job[c] \notin all
      /\ open' = open \ {job[c]} /\ dirty' = dirty \ {job[c]}
      /\ UNCHANGED <<idle, leased, all, waiters, shutdown>>
    BY DEF IInv, TypeOK, CallsInv, JobPCs, Discarded
<1>2. pc' = [pc EXCEPT ![c] = "out"] /\ job' = [job EXCEPT ![c] = NoJob] /\ creating' = creating
    BY DEF Goto
<1>3. \A d \in Callers : d # c /\ job[d] = job[c] => FALSE
    BY <1>1, SetsAssumption DEF IInv, Exclusive
<1>4. TypeOK'
    BY <1>1, <1>2, <1>3 DEF IInv, TypeOK, PCs, CreatingPCs, JobPCs, shutdown, fields
<1>5. Exclusive'
    BY <1>1, <1>2, <1>3, SetsAssumption DEF IInv, TypeOK, Exclusive, Referenced, fields
<1>6. Capacity'
    <2>1. Creators' = Creators
        BY <1>1, <1>2, <1>3 DEF IInv, TypeOK, Creators, CreatingPCs
    <2> QED BY <2>1, <1>1, <1>2, <1>3 DEF IInv, Capacity, fields
<1>7. Accounting'
    BY <1>1, <1>2, <1>3 DEF IInv, TypeOK, Accounting, CallsInv, CreatingPCs, Held, shutdown, fields
<1>8. CallsInv'
    BY <1>1, <1>2, <1>3, SetsAssumption DEF IInv, TypeOK, Exclusive, CallsInv, JobPCs, shutdown, fields
<1>9. ShutdownInv'
    BY <1>1, <1>2, <1>3 DEF IInv, TypeOK, CallsInv, ShutdownInv, shutdown, fields
<1>10. IsInjective(waiters)' /\ NoIdleWhileWaiting' /\ IdleIsClean' /\ NoWaiterAfterEnd'
    BY <1>1, <1>2, <1>3 DEF IInv, TypeOK, CallsInv, NoIdleWhileWaiting, IdleIsClean, NoWaiterAfterEnd, shutdown, fields
<1> QED BY <1>4, <1>5, <1>6, <1>7, <1>8, <1>9, <1>10 DEF IInv

\* end() marks the pool, rejects every waiter and starts to close every job.
LEMMA EndStep ==
    ASSUME IInv, End
    PROVE  IInv'
<1>1. /\ ~ending /\ ending' = TRUE /\ waiters' = <<>> /\ closing' = all
      /\ pc' = [c \in Callers |-> IF pc[c] = "waiting" THEN "out" ELSE pc[c]]
      /\ UNCHANGED <<idle, leased, all, creating, job, open, dirty, ended>>
    BY DEF End
<1>2. \A c \in Callers : /\ pc[c] # "waiting" => pc'[c] = pc[c]
                         /\ pc[c] = "waiting" => pc'[c] = "out" /\ job[c] = NoJob
    BY <1>1 DEF IInv, TypeOK, CallsInv, JobPCs
<1>3. waiters' \in Seq(Callers) /\ IsInjective(waiters') /\ ToSet(waiters') = {}
    BY <1>1 DEF IsInjective, ToSet
<1>4. TypeOK'
    BY <1>1, <1>3 DEF IInv, TypeOK, PCs
<1>5. Exclusive'
    BY <1>1 DEF IInv, Exclusive, Referenced
<1>6. Capacity'
    <2>1. Creators' = Creators
        BY <1>2 DEF Creators, CreatingPCs
    <2> QED BY <2>1, <1>1 DEF IInv, Capacity
<1>7. Accounting'
    <2>1. {c \in Callers : Held(c)}' = {c \in Callers : Held(c)}
        BY <1>2 DEF Held
    <2>2. {c \in Callers : pc[c] = "waiting"}' = {}
        BY <1>2
    <2> QED BY <1>1, <1>3, <2>1, <2>2 DEF IInv, Accounting
<1>8. CallsInv'
    BY <1>1, <1>2 DEF IInv, CallsInv, JobPCs
<1>9. ShutdownInv'
    BY <1>1, <1>2 DEF IInv, CallsInv, ShutdownInv
<1>10. IsInjective(waiters)' /\ NoIdleWhileWaiting' /\ IdleIsClean' /\ NoWaiterAfterEnd'
    BY <1>1, <1>3 DEF IInv, NoIdleWhileWaiting, IdleIsClean, NoWaiterAfterEnd
<1> QED BY <1>4, <1>5, <1>6, <1>7, <1>8, <1>9, <1>10 DEF IInv

\* end() resolves and forgets every job.
LEMMA EndResolvesStep ==
    ASSUME IInv, EndResolves
    PROVE  IInv'
<1>1. /\ ending /\ open' = open \ closing /\ dirty' = dirty \ closing
      /\ idle' = <<>> /\ leased' = {} /\ all' = {} /\ closing' = {} /\ ended' = TRUE
      /\ UNCHANGED <<waiters, creating, ending, pc, job>>
    BY DEF EndResolves
<1>2. idle' \in Seq(Jobs) /\ IsInjective(idle') /\ ToSet(idle') = {}
    BY <1>1 DEF IsInjective, ToSet
<1>3. TypeOK'
    BY <1>1, <1>2 DEF IInv, TypeOK
<1>4. Exclusive'
    BY <1>1, <1>2 DEF IInv, Exclusive
<1>5. Capacity'
    <2>1. Creators' = Creators
        BY <1>1 DEF Creators
    <2>2. Cardinality(all') = 0
        BY <1>1, FS_EmptySet
    <2>3. 0 + creating <= MaxSize
        <3>1. Cardinality(all) + creating <= MaxSize /\ Cardinality(all) \in Nat /\ creating \in Nat
            BY FiniteSets DEF IInv, TypeOK, Capacity
        <3> QED BY <3>1, SizesAssumption
    <2> QED BY <2>1, <2>2, <2>3, <1>1 DEF IInv, Capacity
<1>6. Accounting'
    BY <1>1, <1>2 DEF IInv, Accounting
<1>7. CallsInv'
    BY <1>1 DEF IInv, CallsInv
<1>8. ShutdownInv'
    BY <1>1, <1>2 DEF IInv, ShutdownInv
<1>9. IsInjective(waiters)' /\ NoIdleWhileWaiting' /\ IdleIsClean' /\ NoWaiterAfterEnd'
    BY <1>1, <1>2 DEF IInv, NoIdleWhileWaiting, IdleIsClean, NoWaiterAfterEnd
<1> QED BY <1>3, <1>4, <1>5, <1>6, <1>7, <1>8, <1>9 DEF IInv

\* release() once the job is clean: it goes to a waiter, to idle or is closed.
LEMMA CleanedStep ==
    ASSUME IInv, NEW c \in Callers, Cleaned(c)
    PROVE  IInv'
<1>1. waiters # <<>> => ~ending
    BY DEF IInv, NoWaiterAfterEnd
<1>2. CASE HandOver(c, job[c])
    BY <1>2, CleanedHandOverStep
<1>3. CASE waiters = <<>> /\ ~ending /\ PushIdle(c, job[c])
    BY <1>3, CleanedPushIdleStep
<1>4. CASE /\ waiters = <<>> /\ ending /\ Goto(c, "closing", job[c])
           /\ UNCHANGED <<idle, leased, waiters>>
    BY <1>4, CleanedClosingStep
<1> QED BY <1>1, <1>2, <1>3, <1>4 DEF Cleaned, PassOn

\* invalidate() once the replacement is set up: it goes to a waiter or to idle.
LEMMA ReplacedStep ==
    ASSUME IInv, NEW c \in Callers, Replaced(c)
    PROVE  IInv'
<1>1. CASE HandOver(c, job[c])
    BY <1>1, ReplacedHandOverStep
<1>2. CASE waiters = <<>> /\ PushIdle(c, job[c])
    BY <1>2, ReplacedPushIdleStep
<1> QED BY <1>1, <1>2 DEF Replaced, PassOn

\* invalidate() once the job is closed: it is replaced or not.
LEMMA DiscardedStep ==
    ASSUME IInv, NEW c \in Callers, Discarded(c)
    PROVE  IInv'
<1>1. CASE /\ ~ending /\ Slots < StartingSize
           /\ creating' = creating + 1 /\ Goto(c, "reconnecting", NoJob)
    BY <1>1, DiscardedReplaceStep
<1>2. CASE Goto(c, "out", NoJob) /\ UNCHANGED creating
    BY <1>2, DiscardedStopStep
<1> QED BY <1>1, <1>2 DEF Discarded

\* init() leaves StartingSize idle jobs and nobody else in the pool.
LEMMA InitInv == Init => IInv
<1> SUFFICES ASSUME Init PROVE IInv
    OBVIOUS
<1>1. PICK s \in [1..StartingSize -> Jobs] :
        /\ \A i, k \in 1..StartingSize : s[i] = s[k] => i = k
        /\ idle = s
        /\ all = ToSet(s)
        /\ open = ToSet(s)
    BY DEF Init
<1>2. /\ leased = {} /\ waiters = <<>> /\ creating = 0 /\ ending = FALSE
      /\ pc = [c \in Callers |-> "out"] /\ job = [c \in Callers |-> NoJob]
      /\ dirty = {} /\ closing = {} /\ ended = FALSE
    BY DEF Init
<1>3. /\ idle \in Seq(Jobs) /\ IsInjective(idle) /\ ToSet(idle) = all
      /\ all \subseteq Jobs
    <2>1. StartingSize \in Nat
        BY SizesAssumption
    <2>2. s \in Seq(Jobs) /\ DOMAIN s = 1..StartingSize
        BY <2>1, SeqDef
    <2> QED BY <1>1, <2>2 DEF IsInjective, ToSet
<1>4. Cardinality(all) <= MaxSize /\ Cardinality(all) \in Nat
    <2>1. s \in Surjection(1..StartingSize, ToSet(s))
        BY DEF Surjection, ToSet
    <2>2. IsFiniteSet(1..StartingSize) /\ Cardinality(1..StartingSize) = StartingSize
        BY SizesAssumption, FS_Interval
    <2>3. IsFiniteSet(all) /\ Cardinality(all) <= StartingSize
        BY <1>1, <2>1, <2>2, FS_Surjection
    <2>4. Cardinality(all) \in Nat
        BY <2>3, FS_CardinalityType
    <2> QED BY <2>3, <2>4, SizesAssumption
<1>5. TypeOK
    <2>1. waiters \in Seq(Callers) /\ creating \in Nat /\ open \in SUBSET Jobs
        BY <1>1, <1>2, <1>3
    <2>2. pc \in [Callers -> PCs] /\ job \in [Callers -> Jobs \cup {NoJob}]
        BY <1>2 DEF PCs
    <2> QED BY <1>2, <1>3, <2>1, <2>2 DEF TypeOK
<1>6. Referenced = {} /\ Creators = {}
    BY <1>2 DEF Referenced, Creators, CreatingPCs
<1>7. Exclusive
    BY <1>2, <1>3, <1>6 DEF Exclusive
<1>8. Capacity
    BY <1>2, <1>4, <1>6, FS_EmptySet DEF Capacity
<1>9. ToSet(waiters) = {} /\ IsInjective(waiters)
    BY <1>2 DEF ToSet, IsInjective
<1>10. Accounting /\ CallsInv /\ ShutdownInv
    BY <1>1, <1>2, <1>3, <1>9 DEF Accounting, CallsInv, ShutdownInv, Held, JobPCs
<1>11. NoIdleWhileWaiting /\ IdleIsClean /\ NoWaiterAfterEnd
    BY <1>2 DEF NoIdleWhileWaiting, IdleIsClean, NoWaiterAfterEnd
<1> QED BY <1>5, <1>7, <1>8, <1>9, <1>10, <1>11 DEF IInv

\* Every step of the pool preserves the invariant.
LEMMA NextInv == IInv /\ [Next]_vars => IInv'
<1> SUFFICES ASSUME IInv, [Next]_vars PROVE IInv'
    OBVIOUS
<1>1. CASE UNCHANGED vars
    BY <1>1 DEF vars, IInv, TypeOK, Exclusive, Referenced, Capacity, Creators, Accounting,
        Held, NoIdleWhileWaiting, IdleIsClean, NoWaiterAfterEnd, CallsInv, ShutdownInv
<1>2. ASSUME NEW c \in Callers, AcquireRefused(c) PROVE IInv'
    BY <1>1, <1>2 DEF AcquireRefused
<1>3. ASSUME NEW c \in Callers,
             CleaningFails(c) \/ Invalidate(c)
      PROVE  IInv'
    BY <1>3, DiscardStep DEF CleaningFails, Invalidate
<1>4. ASSUME NEW c \in Callers,
             \/ AcquireIdle(c) \/ AcquireConnect(c) \/ AcquireWait(c) \/ WaitTimesOut(c)
             \/ \E j \in Jobs : Connected(c, j)
             \/ ConnectFails(c) \/ Configured(c) \/ Use(c)
      PROVE  IInv'
    BY <1>4, AcquireIdleStep, AcquireConnectStep, AcquireWaitStep, WaitTimesOutStep,
        ConnectedStep, ConnectFailsStep, ConfiguredStep, UseStep
<1>5. ASSUME NEW c \in Callers,
             \/ Release(c) \/ ReleaseUnknown(c) \/ Cleaned(c) \/ Closed(c)
             \/ Discarded(c) \/ Replaced(c)
      PROVE  IInv'
    BY <1>5, ReleaseStep, ReleaseUnknownStep, CleanedStep, ClosedStep, DiscardedStep,
        ReplacedStep
<1>6. CASE End \/ EndResolves
    BY <1>6, EndStep, EndResolvesStep
<1> QED BY <1>1, <1>2, <1>3, <1>4, <1>5, <1>6 DEF Next
-----------------------------------------------------------------------------
(* The theorems.                                                           *)

\* The inductive invariant holds in every state of every run of the pool.
THEOREM Invariance == Spec => []IInv
<1>1. Init => IInv
    BY InitInv
<1>2. IInv /\ [Next]_vars => IInv'
    BY NextInv
<1> QED BY <1>1, <1>2, PTL DEF Spec

\* The pool's lists, counters and calls keep their types: a job that was
\* handed out is one the pool created.
THEOREM TypeCorrect == Spec => []TypeOK
<1>1. IInv => TypeOK
    BY DEF IInv
<1> QED BY <1>1, Invariance, PTL

\* acquire(), release(), invalidate() and end() never put one SQLJob in two
\* places, for any number of callers and any sizes.
THEOREM JobExclusive == Spec => []Exclusive
<1>1. IInv => Exclusive
    BY DEF IInv
<1> QED BY <1>1, Invariance, PTL

\* Jobs and reservations together stay within MAPEPIRE_POOL_MAX_SIZE.
THEOREM CapacityKept == Spec => []Capacity
<1>1. IInv => Capacity
    BY DEF IInv
<1> QED BY <1>1, Invariance, PTL

\* leased, waiters and idle agree with the calls that are in flight.
THEOREM ListsAccountForCalls == Spec => []Accounting
<1>1. IInv => Accounting
    BY DEF IInv
<1> QED BY <1>1, Invariance, PTL

\* Nobody queues in acquire() while a job is idle.
THEOREM NoLostWakeUp == Spec => []NoIdleWhileWaiting
<1>1. IInv => NoIdleWhileWaiting
    BY DEF IInv
<1> QED BY <1>1, Invariance, PTL

\* end() leaves nobody in the queue.
THEOREM EndEmptiesQueue == Spec => []NoWaiterAfterEnd
<1>1. IInv => NoWaiterAfterEnd
    BY DEF IInv
<1> QED BY <1>1, Invariance, PTL

\* An idle job holds no state of the client that used it last.
THEOREM IdleJobsAreClean == Spec => []IdleIsClean
<1>1. IInv => IdleIsClean
    BY DEF IInv
<1> QED BY <1>1, Invariance, PTL

\* Whoever begins to hold a job got it from acquire() on an idle job, from a
\* fresh connection, or from the release() or replacement that cleaned it.
LEMMA GrantsAreClean ==
    ASSUME IInv, Next, NEW d \in Callers, ~Held(d), Held(d)'
    PROVE  job'[d] \notin dirty'
<1>1. pc'[d] # pc[d] /\ pc[d] # "holding" /\ pc'[d] = "holding"
    BY DEF Held
<1>2. ASSUME NEW c \in Callers, AcquireIdle(c) PROVE job'[d] \notin dirty'
    <2>1. d = c /\ job'[d] = Head(idle) /\ dirty' = dirty
        BY <1>1, <1>2 DEF IInv, TypeOK, AcquireIdle, Goto
    <2>2. Head(idle) \in ToSet(idle)
        BY <1>2, TailOfList DEF IInv, TypeOK, Exclusive, AcquireIdle
    <2> QED BY <2>1, <2>2 DEF IInv, IdleIsClean
<1>3. ASSUME NEW c \in Callers, Configured(c) PROVE job'[d] \notin dirty'
    <2>1. d = c /\ job'[d] = job[c] /\ dirty' = dirty /\ pc[c] = "configuring"
        BY <1>1, <1>3 DEF IInv, TypeOK, Configured, Goto
    <2> QED BY <2>1 DEF IInv, CallsInv
<1>4. ASSUME NEW c \in Callers, PassOn(c, job[c]), job[c] \notin dirty'
      PROVE  job'[d] \notin dirty'
    <2>1. PushIdle(c, job[c]) => pc'[d] # "holding"
        BY <1>1 DEF IInv, TypeOK, PushIdle, Goto
    <2>2. HandOver(c, job[c])
        BY <1>1, <1>4, <2>1 DEF PassOn
    <2>3. d # c /\ d = NextWaiter
        BY <1>1, <2>2 DEF IInv, TypeOK, HandOver
    <2>4. job'[d] = job[c]
        BY <2>2, <2>3 DEF IInv, TypeOK, HandOver
    <2> QED BY <1>4, <2>4
<1>5. ASSUME NEW c \in Callers, Cleaned(c) PROVE job'[d] \notin dirty'
    <2>1. Goto(c, "closing", job[c]) => pc'[d] # "holding"
        BY <1>1 DEF IInv, TypeOK, Goto
    <2>2. PassOn(c, job[c]) /\ job[c] \notin dirty'
        BY <1>1, <1>5, <2>1 DEF Cleaned, ResetState
    <2> QED BY <1>4, <2>2
<1>6. ASSUME NEW c \in Callers, Replaced(c) PROVE job'[d] \notin dirty'
    <2>1. PassOn(c, job[c]) /\ job[c] \notin dirty'
        BY <1>6 DEF IInv, CallsInv, Replaced
    <2> QED BY <1>4, <2>1
<1>7. ASSUME NEW c \in Callers,
             \/ AcquireConnect(c) \/ AcquireWait(c) \/ WaitTimesOut(c)
             \/ \E j \in Jobs : Connected(c, j)
             \/ ConnectFails(c) \/ Release(c) \/ ReleaseUnknown(c) \/ Closed(c)
             \/ CleaningFails(c) \/ Invalidate(c) \/ Discarded(c)
      PROVE  FALSE
    BY <1>1, <1>7 DEF IInv, TypeOK, Goto, AcquireConnect, AcquireWait, WaitTimesOut,
        Connected, ConnectFails, Release, ReleaseUnknown, Closed, CleaningFails,
        Invalidate, Discard, Discarded
<1>8. ASSUME NEW c \in Callers, AcquireRefused(c) \/ Use(c) PROVE FALSE
    BY <1>1, <1>8 DEF AcquireRefused, Use, vars
<1>9. CASE End \/ EndResolves
    BY <1>1, <1>9 DEF IInv, TypeOK, End, EndResolves
<1> QED BY <1>2, <1>3, <1>5, <1>6, <1>7, <1>8, <1>9 DEF Next

\* No caller is ever handed a job that carries the state of another client.
THEOREM LeasesAreClean == Spec => LeaseIsClean
<1>1. IInv /\ [Next]_vars =>
        [\A c \in Callers : ~Held(c) /\ Held(c)' => job'[c] \notin dirty']_vars
    BY GrantsAreClean
<1> QED BY <1>1, Invariance, PTL DEF Spec, LeaseIsClean
-----------------------------------------------------------------------------
(* What the pool promises its callers: the queue is served in order, and   *)
(* the pool implements JobLeases, so that they may rely on that alone.     *)

\* A hand-over takes the first caller of the queue and wakes nobody else.
LEMMA HandOverServesFirst ==
    ASSUME IInv, NEW c \in Callers, NEW j, HandOver(c, j), pc[c] # "waiting",
           NEW i \in DOMAIN waiters, NEW k \in DOMAIN waiters, i < k
    PROVE  pc'[waiters[k]] # "holding"
<1>1. /\ waiters \in Seq(Callers) /\ waiters # <<>> /\ IsInjective(waiters)
      /\ pc' = [pc EXCEPT ![NextWaiter] = "holding", ![c] = "out"]
    BY DEF IInv, TypeOK, HandOver
<1>2. DOMAIN waiters = 1..Len(waiters) /\ Len(waiters) \in Nat
    BY <1>1
<1>3. NextWaiter = waiters[1] /\ 1 \in DOMAIN waiters /\ k # 1
    BY <1>1, <1>2 DEF NextWaiter
<1>4. waiters[k] # NextWaiter /\ waiters[k] \in Callers
    BY <1>1, <1>2, <1>3 DEF IsInjective
<1>5. pc[waiters[k]] = "waiting"
    BY DEF IInv, Accounting, ToSet
<1> QED BY <1>1, <1>4, <1>5 DEF IInv, TypeOK

\* Only a hand-over takes a caller from the queue to a job.
LEMMA NobodyOvertakes ==
    ASSUME IInv, Next, NEW i \in DOMAIN waiters, NEW k \in DOMAIN waiters, i < k,
           pc'[waiters[k]] = "holding"
    PROVE  FALSE
<1> DEFINE d == waiters[k]
<1>1. pc[d] = "waiting" /\ d \in Callers /\ pc'[d] = "holding"
    BY DEF IInv, Accounting, ToSet
<1> HIDE DEF d
<1>2. ASSUME NEW c \in Callers, pc[c] # "waiting", NEW j, HandOver(c, j) PROVE FALSE
    BY <1>2, HandOverServesFirst
<1>3. ASSUME NEW c \in Callers, NEW j, PushIdle(c, j) PROVE FALSE
    BY <1>1, <1>3 DEF IInv, TypeOK, PushIdle, Goto
<1>4. ASSUME NEW c \in Callers, Cleaned(c) PROVE FALSE
    <2>1. ~Goto(c, "closing", job[c])
        BY <1>1 DEF IInv, TypeOK, Goto
    <2> QED BY <1>2, <1>3, <1>4, <2>1 DEF Cleaned, PassOn
<1>5. ASSUME NEW c \in Callers, Replaced(c) PROVE FALSE
    BY <1>2, <1>3, <1>5 DEF Replaced, PassOn
<1>6. ASSUME NEW c \in Callers,
             \/ AcquireIdle(c) \/ AcquireConnect(c) \/ AcquireWait(c) \/ WaitTimesOut(c)
             \/ \E j \in Jobs : Connected(c, j)
             \/ ConnectFails(c) \/ Configured(c)
      PROVE  FALSE
    BY <1>1, <1>6 DEF IInv, TypeOK, Goto, AcquireIdle, AcquireConnect, AcquireWait,
        WaitTimesOut, Connected, ConnectFails, Configured
<1>7. ASSUME NEW c \in Callers,
             \/ Release(c) \/ ReleaseUnknown(c) \/ Closed(c)
             \/ CleaningFails(c) \/ Invalidate(c) \/ Discarded(c)
      PROVE  FALSE
    BY <1>1, <1>7 DEF IInv, TypeOK, Goto, Release, ReleaseUnknown, Closed, CleaningFails,
        Invalidate, Discard, Discarded
<1>8. ASSUME NEW c \in Callers, AcquireRefused(c) \/ Use(c) PROVE FALSE
    BY <1>1, <1>8 DEF AcquireRefused, Use, vars
<1>9. CASE End \/ EndResolves
    BY <1>1, <1>9 DEF IInv, TypeOK, End, EndResolves
<1> QED BY <1>4, <1>5, <1>6, <1>7, <1>8, <1>9 DEF Next

\* Every hand-over goes to the caller that has waited longest, whoever timed
\* out of the queue or joined it meanwhile.
THEOREM QueueIsServedInOrder == Spec => ServedInOrder
<1>1. IInv /\ [Next]_vars =>
        [\A i, k \in DOMAIN waiters :
            i < k /\ pc'[waiters[k]] = "holding" => pc'[waiters[i]] # "waiting"]_vars
    BY NobodyOvertakes
<1> QED BY <1>1, Invariance, PTL DEF Spec, ServedInOrder
-----------------------------------------------------------------------------
(* The pool implements JobLeases.                                          *)

Holders == {c \in Callers : Held(c)}

\* A leased job is counted until end() forgets it, and even then the leases
\* and the connections in creation stay within the cap: what a creation that
\* ends after end() adds to the leases, it takes from the reservations.
HoldersCounted == ~ending => \A c \in Holders : job[c] \in all
HoldersCapped == Cardinality(Holders) + creating <= MaxSize
HoldersInv == HoldersCounted /\ HoldersCapped

\* As many callers as jobs, when each refers to a job of its own.
LEMMA OneJobEach ==
    ASSUME NEW H, NEW A, IsFiniteSet(A), NEW f,
           \A c \in H : f[c] \in A,
           \A c, d \in H : f[c] = f[d] => c = d
    PROVE  IsFiniteSet(H) /\ Cardinality(H) <= Cardinality(A)
<1> DEFINE g == [c \in H |-> f[c]]
<1>1. g \in Injection(H, A)
    BY DEF Injection, IsInjective
<1> HIDE DEF g
<1> QED BY <1>1, FS_Injection

\* The holders are no more than the jobs the pool counts.
LEMMA HoldersOfCounted ==
    ASSUME IInv, NEW A \in SUBSET Jobs, \A c \in Holders : job[c] \in A
    PROVE  /\ Cardinality(Holders) <= Cardinality(A)
           /\ Cardinality(Holders) \in Nat /\ Cardinality(A) \in Nat
           /\ IsFiniteSet(Holders)
<1>1. IsFiniteSet(A) /\ IsFiniteSet(Holders)
    BY SetsAssumption, FS_Subset DEF Holders
<1>2. \A c, d \in Holders : job[c] = job[d] => c = d
    BY SetsAssumption DEF IInv, Exclusive, Holders
<1> QED BY <1>1, <1>2, OneJobEach, FS_CardinalityType
LEMMA CountedAreCapped == IInv /\ HoldersCounted => ending \/ HoldersCapped
<1> SUFFICES ASSUME IInv, HoldersCounted, ~ending PROVE HoldersCapped
    OBVIOUS
<1>1. all \in SUBSET Jobs /\ \A c \in Holders : job[c] \in all
    BY DEF IInv, TypeOK, HoldersCounted
<1>2. /\ Cardinality(Holders) <= Cardinality(all)
      /\ Cardinality(Holders) \in Nat /\ Cardinality(all) \in Nat
    BY <1>1, HoldersOfCounted
<1>3. Cardinality(all) + creating <= MaxSize /\ creating \in Nat
    BY DEF IInv, TypeOK, Capacity
<1> QED BY <1>2, <1>3, SizesAssumption DEF HoldersCapped

\* While the pool runs, a job leaves all only with the lease on it.
LEMMA CountedStep ==
    ASSUME IInv, HoldersCounted, Next
    PROVE  HoldersCounted'
<1> SUFFICES ASSUME ~ending', NEW d \in Callers, Held(d)' PROVE job'[d] \in all'
    BY DEF HoldersCounted, Holders
<1>1. Held(d) /\ ~ending => job[d] \in all
    BY DEF HoldersCounted, Holders
<1>2. ASSUME NEW c \in Callers, NEW j, HandOver(c, j), j \in all', all \subseteq all', ~ending
      PROVE  job'[d] \in all'
    <2>1. d # c /\ (d = NextWaiter => job'[d] = j)
        BY <1>2 DEF IInv, TypeOK, HandOver, Held
    <2>2. d # NextWaiter => Held(d) /\ job'[d] = job[d]
        BY <1>2, <2>1 DEF IInv, TypeOK, HandOver, Held
    <2> QED BY <1>1, <1>2, <2>1, <2>2
<1>3. ASSUME NEW c \in Callers, NEW j, PushIdle(c, j), all \subseteq all', ~ending
      PROVE  job'[d] \in all'
    BY <1>1, <1>3 DEF IInv, TypeOK, PushIdle, Goto, Held
<1>4. ASSUME NEW c \in Callers, Cleaned(c) PROVE job'[d] \in all'
    <2>1. ~ending /\ job[c] \in all /\ all' = all
        BY <1>4 DEF IInv, CallsInv, Cleaned, shutdown
    <2> QED BY <1>2, <1>3, <1>4, <2>1 DEF Cleaned, PassOn
<1>5. ASSUME NEW c \in Callers, Replaced(c) PROVE job'[d] \in all'
    <2>1. ~ending /\ all' = all \cup {job[c]}
        BY <1>5 DEF Replaced, shutdown
    <2> QED BY <1>2, <1>3, <1>5, <2>1 DEF Replaced, PassOn
<1>6. ASSUME NEW c \in Callers, AcquireIdle(c) PROVE job'[d] \in all'
    <2>1. Head(idle) \in ToSet(idle) /\ all' = all /\ ~ending
        BY <1>6, TailOfList DEF IInv, TypeOK, Exclusive, AcquireIdle, shutdown
    <2>2. Head(idle) \in all
        BY <2>1 DEF IInv, ShutdownInv
    <2> QED BY <1>1, <1>6, <2>1, <2>2 DEF IInv, TypeOK, AcquireIdle, Goto, Held
<1>7. ASSUME NEW c \in Callers, Configured(c) PROVE job'[d] \in all'
    <2>1. ~ending /\ all' = all \cup {job[c]}
        BY <1>7 DEF Configured, shutdown
    <2> QED BY <1>1, <1>7, <2>1 DEF IInv, TypeOK, Configured, Goto, Held
<1>8. ASSUME NEW c \in Callers, CleaningFails(c) \/ Invalidate(c) PROVE job'[d] \in all'
    <2>1. /\ all' = all \ {job[c]} /\ ~ending /\ job[c] # NoJob
          /\ d # c /\ Held(d) /\ job'[d] = job[d]
        BY <1>8 DEF IInv, TypeOK, CallsInv, JobPCs, CleaningFails, Invalidate, Discard,
            Goto, Held, shutdown
    <2>2. job[d] # job[c]
        BY <2>1 DEF IInv, Exclusive
    <2> QED BY <1>1, <2>1, <2>2
<1>9. ASSUME NEW c \in Callers,
             \/ AcquireConnect(c) \/ AcquireWait(c) \/ WaitTimesOut(c)
             \/ \E j \in Jobs : Connected(c, j)
             \/ ConnectFails(c)
      PROVE  job'[d] \in all'
    BY <1>1, <1>9 DEF IInv, TypeOK, Goto, AcquireConnect, AcquireWait, WaitTimesOut,
        Connected, ConnectFails, Held, fields, shutdown
<1>10. ASSUME NEW c \in Callers,
              \/ Release(c) \/ ReleaseUnknown(c) \/ Closed(c) \/ Discarded(c)
       PROVE  job'[d] \in all'
    BY <1>1, <1>10 DEF IInv, TypeOK, Goto, Release, ReleaseUnknown, Closed, Discarded,
        Held, fields, shutdown
<1>11. ASSUME NEW c \in Callers, AcquireRefused(c) \/ Use(c) PROVE job'[d] \in all'
    BY <1>1, <1>11 DEF AcquireRefused, Use, Held, vars, fields, shutdown
<1>12. ~(End \/ EndResolves)
    BY DEF End, EndResolves
<1> QED BY <1>4, <1>5, <1>6, <1>7, <1>8, <1>9, <1>10, <1>11, <1>12 DEF Next

\* A connection that is being created holds a reservation.
LEMMA CreatorsHoldReservations ==
    ASSUME IInv, NEW c \in Callers, pc[c] \in CreatingPCs
    PROVE  creating \in Nat \ {0}
<1>1. creating = Cardinality(Creators) /\ c \in Creators /\ creating \in Nat
    BY DEF IInv, TypeOK, Capacity, Creators
<1> QED BY <1>1, FiniteSets, FS_EmptySet DEF IInv

\* A caller keeps what it has leased, or keeps having no lease.
SameLease(c) == (Held(c)' <=> Held(c)) /\ (Held(c) => job'[c] = job[c])

\* What a step of the pool does to the leases of its callers: nothing, one
\* lease ends, or one begins.
NoLeaseChanges == \A c \in Callers : SameLease(c)
OneEnds(c) == Held(c) /\ ~Held(c)' /\ \A d \in Callers \ {c} : SameLease(d)
OneBegins(c, j) ==
    /\ ~Held(c) /\ Held(c)' /\ job'[c] = j
    /\ \A d \in Callers \ {c} : SameLease(d)

\* A job handed to the caller that waits longest.
LEMMA HandOverBegins ==
    ASSUME IInv, NEW c \in Callers, pc[c] \in {"cleaning", "reconfiguring"},
           NEW j, HandOver(c, j)
    PROVE  ~ending /\ \E d \in Callers : OneBegins(d, j)
<1>1. /\ waiters \in Seq(Callers) /\ waiters # <<>> /\ ~ending
      /\ pc \in [Callers -> PCs] /\ job \in [Callers -> Jobs \cup {NoJob}]
    BY DEF IInv, TypeOK, NoWaiterAfterEnd, HandOver
<1>2. NextWaiter \in ToSet(waiters)
    BY <1>1, TailOfList DEF IInv, NextWaiter
<1>3. PICK d \in Callers : d = NextWaiter
    BY <1>1, <1>2 DEF ToSet
<1>4. pc[d] = "waiting" /\ d # c
    BY <1>2, <1>3 DEF IInv, Accounting
<1>5. /\ pc'[d] = "holding" /\ job'[d] = j
      /\ pc'[c] = "out"
      /\ \A e \in Callers \ {d, c} : pc'[e] = pc[e] /\ job'[e] = job[e]
    BY <1>1, <1>3, <1>4 DEF HandOver
<1>6. OneBegins(d, j)
    BY <1>4, <1>5 DEF OneBegins, SameLease, Held
<1> QED BY <1>1, <1>6

LEMMA PushIdleKeepsLeases ==
    ASSUME IInv, NEW c \in Callers, ~Held(c), NEW j, PushIdle(c, j)
    PROVE  NoLeaseChanges
BY DEF IInv, TypeOK, PushIdle, Goto, NoLeaseChanges, SameLease, Held

\* A lease begins with an idle job, a new job or a job handed over; the last
\* two while a reservation or a running pool leaves room for it.
LEMMA AcquireIdleLeases ==
    ASSUME IInv, NEW c \in Callers, AcquireIdle(c)
    PROVE  /\ ~ending /\ creating' = creating
           /\ Head(idle) \in all \ dirty /\ dirty' = dirty
           /\ \A d \in Callers : job[d] # Head(idle)
           /\ OneBegins(c, Head(idle))
<1>1. Head(idle) \in ToSet(idle)
    BY TailOfList DEF IInv, TypeOK, Exclusive, AcquireIdle
<1>2. Head(idle) \in Jobs /\ Head(idle) # NoJob
    BY <1>1, SetsAssumption DEF IInv, TypeOK, ShutdownInv
<1>3. \A d \in Callers : job[d] # Head(idle)
    BY <1>1, <1>2 DEF IInv, Exclusive, Referenced
<1>4. OneBegins(c, Head(idle))
    BY DEF IInv, TypeOK, AcquireIdle, Goto, OneBegins, SameLease, Held
<1> QED BY <1>1, <1>3, <1>4 DEF IInv, ShutdownInv, IdleIsClean, AcquireIdle, Accepting, shutdown

LEMMA ConfiguredLeases ==
    ASSUME IInv, NEW c \in Callers, Configured(c)
    PROVE  /\ creating' = creating - 1 /\ creating \in Nat \ {0}
           /\ job[c] \in Jobs \ dirty /\ dirty' = dirty
           /\ OneBegins(c, job[c]) /\ ending' = ending
<1>1. job[c] \in Jobs \ dirty
    BY DEF IInv, TypeOK, CallsInv, Configured, JobPCs
<1>2. OneBegins(c, job[c])
    BY DEF IInv, TypeOK, Configured, Goto, OneBegins, SameLease, Held
<1>3. creating \in Nat \ {0}
    BY CreatorsHoldReservations DEF Configured, CreatingPCs
<1> QED BY <1>1, <1>2, <1>3 DEF Configured, ReleaseReservation, shutdown

LEMMA ReplacedLeases ==
    ASSUME IInv, NEW c \in Callers, Replaced(c)
    PROVE  /\ creating' = creating - 1 /\ creating \in Nat \ {0}
           /\ job[c] \in Jobs \ dirty /\ dirty' = dirty
           /\ \/ NoLeaseChanges
              \/ ~ending /\ \E d \in Callers : OneBegins(d, job[c])
<1>1. job[c] \in Jobs \ dirty
    BY DEF IInv, TypeOK, CallsInv, Replaced, JobPCs
<1>2. creating \in Nat \ {0}
    BY CreatorsHoldReservations DEF Replaced, CreatingPCs
<1>3. ~Held(c) /\ pc[c] \in {"cleaning", "reconfiguring"}
    BY DEF Replaced, Held
<1>4. \/ NoLeaseChanges
      \/ ~ending /\ \E d \in Callers : OneBegins(d, job[c])
    BY <1>3, HandOverBegins, PushIdleKeepsLeases DEF Replaced, PassOn
<1> QED BY <1>1, <1>2, <1>4 DEF Replaced, ReleaseReservation

LEMMA CleanedLeases ==
    ASSUME IInv, NEW c \in Callers, Cleaned(c)
    PROVE  /\ creating' = creating /\ ending' = ending
           /\ job[c] \in Jobs /\ dirty' = dirty \ {job[c]}
           /\ ~ending => job[c] \in all
           /\ \/ NoLeaseChanges
              \/ ~ending /\ \E d \in Callers : OneBegins(d, job[c])
<1>1. job[c] \in Jobs /\ (~ending => job[c] \in all)
    BY DEF IInv, TypeOK, CallsInv, Cleaned, JobPCs
<1>2. ~Held(c) /\ pc[c] \in {"cleaning", "reconfiguring"}
    BY DEF Cleaned, Held
<1>3. Goto(c, "closing", job[c]) => NoLeaseChanges
    BY <1>2 DEF IInv, TypeOK, Goto, NoLeaseChanges, SameLease, Held
<1>4. \/ NoLeaseChanges
      \/ ~ending /\ \E d \in Callers : OneBegins(d, job[c])
    BY <1>2, <1>3, HandOverBegins, PushIdleKeepsLeases DEF Cleaned, PassOn
<1> QED BY <1>1, <1>4 DEF Cleaned, ResetState, shutdown

\* release() and invalidate() end a lease, and no other step does.
LEMMA GivenBackLeases ==
    ASSUME IInv, NEW c \in Callers, Release(c) \/ ReleaseUnknown(c) \/ Invalidate(c)
    PROVE  OneEnds(c) /\ UNCHANGED <<creating, dirty, ending>>
<1>1. OneEnds(c)
    BY DEF IInv, TypeOK, Release, ReleaseUnknown, Invalidate, Discard, Goto, OneEnds,
        SameLease, Held
<1> QED BY <1>1 DEF Release, ReleaseUnknown, Invalidate, Discard, fields, shutdown

\* The other calls and timers change no lease.
LEMMA QuietCallsKeepLeases ==
    ASSUME IInv, NEW c \in Callers,
           \/ AcquireConnect(c) \/ AcquireWait(c) \/ WaitTimesOut(c)
           \/ \E j \in Jobs : Connected(c, j)
           \/ ConnectFails(c) \/ Closed(c) \/ CleaningFails(c) \/ Discarded(c)
    PROVE  /\ NoLeaseChanges /\ ending' = ending
           /\ ending => creating' \in {creating, creating - 1}
           /\ dirty' = dirty \/ \E j \in Jobs : dirty' = dirty \ {j}
<1>1. NoLeaseChanges
    <2>1. ~Held(c) /\ \E p \in PCs \ {"holding"}, j \in Jobs \cup {NoJob} : Goto(c, p, j)
        BY DEF IInv, TypeOK, AcquireConnect, AcquireWait, WaitTimesOut, Connected,
            ConnectFails, Closed, CleaningFails, Discard, Discarded, Held, PCs,
            CreatingPCs, JobPCs
    <2> QED BY <2>1 DEF IInv, TypeOK, Goto, NoLeaseChanges, SameLease, Held
<1>2. ending => creating' \in {creating, creating - 1}
    BY DEF AcquireConnect, AcquireWait, WaitTimesOut, Connected, ConnectFails, Closed,
        CleaningFails, Discard, Discarded, Accepting, ReleaseReservation, fields
<1>3. dirty' = dirty \/ \E j \in Jobs : dirty' = dirty \ {j}
    <2>1. Discarded(c) => job[c] \in Jobs /\ dirty' = dirty \ {job[c]}
        BY DEF IInv, TypeOK, CallsInv, Discarded, JobPCs
    <2>2. ~Discarded(c) => dirty' = dirty
        BY DEF AcquireConnect, AcquireWait, WaitTimesOut, Connected, ConnectFails, Closed,
            CleaningFails, Discard
    <2> QED BY <2>1, <2>2
<1> QED BY <1>1, <1>2, <1>3 DEF AcquireConnect, AcquireWait, WaitTimesOut, Connected,
        ConnectFails, Closed, CleaningFails, Discard, Discarded, shutdown

LEMMA EndKeepsLeases ==
    ASSUME IInv, End \/ EndResolves
    PROVE  /\ NoLeaseChanges /\ creating' = creating
           /\ dirty' = dirty \/ dirty' = dirty \ closing
<1>1. NoLeaseChanges
    BY DEF IInv, TypeOK, End, EndResolves, NoLeaseChanges, SameLease, Held
<1> QED BY <1>1 DEF End, EndResolves

LEMMA HoldersAreFinite == IsFiniteSet(Holders) /\ Cardinality(Holders) \in Nat
<1>1. Holders \subseteq Callers
    BY DEF Holders
<1> QED BY <1>1, SetsAssumption, FS_Subset, FS_CardinalityType

LEMMA CapKept ==
    ASSUME IInv, HoldersCapped, NoLeaseChanges, creating' \in {creating, creating - 1},
           creating' \in Nat
    PROVE  HoldersCapped'
<1>1. Holders' = Holders
    BY DEF NoLeaseChanges, SameLease, Holders
<1>2. Cardinality(Holders) \in Nat /\ creating \in Nat
    BY HoldersAreFinite DEF IInv, TypeOK
<1>3. Cardinality(Holders) + creating <= MaxSize
    BY DEF HoldersCapped
<1>4. Cardinality(Holders) + creating' <= MaxSize
    BY <1>2, <1>3, SizesAssumption
<1> QED BY <1>1, <1>4 DEF HoldersCapped

LEMMA CapAfterEnd ==
    ASSUME IInv, HoldersCapped, NEW c \in Callers, OneEnds(c), creating' = creating
    PROVE  HoldersCapped'
<1>1. Holders' = Holders \ {c} /\ c \in Holders
    BY DEF OneEnds, SameLease, Holders
<1>2. Cardinality(Holders') = Cardinality(Holders) - 1
    BY <1>1, HoldersAreFinite, FS_RemoveElement
<1>3. Cardinality(Holders) \in Nat /\ creating \in Nat
    BY HoldersAreFinite DEF IInv, TypeOK
<1>4. Cardinality(Holders) + creating <= MaxSize
    BY DEF HoldersCapped
<1>5. (Cardinality(Holders) - 1) + creating <= MaxSize
    BY <1>3, <1>4, SizesAssumption
<1> QED BY <1>2, <1>5 DEF HoldersCapped

LEMMA CapAfterCreation ==
    ASSUME IInv, HoldersCapped, NEW c \in Callers, Configured(c)
    PROVE  HoldersCapped'
<1>1. /\ creating' = creating - 1 /\ creating \in Nat \ {0}
      /\ OneBegins(c, job[c])
    BY ConfiguredLeases
<1>2. Holders' = Holders \cup {c} /\ c \notin Holders
    BY <1>1 DEF OneBegins, SameLease, Holders
<1>3. Cardinality(Holders') = Cardinality(Holders) + 1
    BY <1>2, HoldersAreFinite, FS_AddElement
<1>4. Cardinality(Holders) \in Nat
    BY HoldersAreFinite
<1>5. Cardinality(Holders) + creating <= MaxSize
    BY DEF HoldersCapped
<1>6. (Cardinality(Holders) + 1) + (creating - 1) <= MaxSize
    BY <1>1, <1>4, <1>5, SizesAssumption
<1> QED BY <1>1, <1>3, <1>6 DEF HoldersCapped

\* Once end() was called no idle job and no hand-over begins a lease.
LEMMA EndingStep ==
    ASSUME IInv, IInv', HoldersCapped, Next, ending'
    PROVE  HoldersCapped'
<1>1. creating' \in Nat
    BY DEF IInv, TypeOK
<1>2. CASE End \/ EndResolves
    BY <1>1, <1>2, EndKeepsLeases, CapKept
<1>3. ASSUME NEW c \in Callers, Configured(c) PROVE HoldersCapped'
    BY <1>3, CapAfterCreation
<1>4. ASSUME NEW c \in Callers, Cleaned(c) \/ Replaced(c) PROVE HoldersCapped'
    <2>1. ending
        BY <1>4 DEF Cleaned, Replaced, shutdown
    <2> QED BY <1>1, <1>4, <2>1, CleanedLeases, ReplacedLeases, CapKept
<1>5. ASSUME NEW c \in Callers, Release(c) \/ ReleaseUnknown(c) \/ Invalidate(c)
      PROVE  HoldersCapped'
    <2>1. OneEnds(c) /\ creating' = creating
        BY <1>5, GivenBackLeases
    <2> QED BY <2>1, CapAfterEnd
<1>6. ASSUME NEW c \in Callers,
             \/ AcquireConnect(c) \/ AcquireWait(c) \/ WaitTimesOut(c)
             \/ \E j \in Jobs : Connected(c, j)
             \/ ConnectFails(c) \/ Closed(c) \/ CleaningFails(c) \/ Discarded(c)
      PROVE  HoldersCapped'
    <2>1. NoLeaseChanges /\ creating' \in {creating, creating - 1}
        BY <1>6, QuietCallsKeepLeases
    <2> QED BY <1>1, <2>1, CapKept
<1>7. ASSUME NEW c \in Callers, AcquireRefused(c) \/ Use(c) PROVE HoldersCapped'
    <2>1. NoLeaseChanges /\ creating' = creating
        BY <1>7 DEF AcquireRefused, Use, NoLeaseChanges, SameLease, Held, vars, fields
    <2> QED BY <1>1, <2>1, CapKept
<1>8. ASSUME NEW c \in Callers PROVE ~AcquireIdle(c)
    BY AcquireIdleLeases DEF AcquireIdle, shutdown
<1> QED BY <1>2, <1>3, <1>4, <1>5, <1>6, <1>7, <1>8 DEF Next

LEMMA HoldersInit == Init => HoldersInv
<1> SUFFICES ASSUME Init PROVE HoldersInv
    OBVIOUS
<1>1. Holders = {} /\ creating = 0
    BY DEF Init, Holders, Held
<1>2. Cardinality(Holders) = 0
    BY <1>1, FS_EmptySet
<1> QED BY <1>1, <1>2, SizesAssumption DEF HoldersInv, HoldersCounted, HoldersCapped

\* Both invariants hold in every state of every run of the pool.
LEMMA HoldersAlways == Spec => [](IInv /\ HoldersInv)
<1>1. Init => HoldersInv
    BY HoldersInit
<1>2. IInv /\ HoldersInv /\ [Next]_vars => HoldersCounted'
    <2>1. ASSUME UNCHANGED vars, HoldersCounted PROVE HoldersCounted'
        BY <2>1 DEF vars, HoldersCounted, Holders, Held
    <2> QED BY <2>1, CountedStep DEF HoldersInv
<1>3. IInv /\ IInv' /\ HoldersInv /\ [Next]_vars /\ ending' => HoldersCapped'
    <2>1. ASSUME UNCHANGED vars, HoldersCapped PROVE HoldersCapped'
        BY <2>1 DEF vars, HoldersCapped, Holders, Held
    <2> QED BY <2>1, EndingStep DEF HoldersInv
<1>4. IInv /\ HoldersCounted => ending \/ HoldersCapped
    BY CountedAreCapped
<1>5. HoldersInv <=> HoldersCounted /\ HoldersCapped
    BY DEF HoldersInv
<1> QED BY <1>1, <1>2, <1>3, <1>4, <1>5, Invariance, PTL DEF Spec
-----------------------------------------------------------------------------
(* Each change of the leases is an action of JobLeases.                    *)

\* JobLeases counts with an operator of its own.
LEMMA SameCount == ASSUME NEW S PROVE Leases!Cardinality(S) = Cardinality(S)
BY DEF Leases!Cardinality, Cardinality

\* Cleaning a job, or closing it, may end its state whatever the leases.
LEMMA QuietStep ==
    ASSUME NoLeaseChanges, NEW js, dirty' = dirty \ js
    PROVE  Leases!LeasesNext
<1>1. PICK ks \in SUBSET dirty : dirty' = dirty \ ks
    <2>1. dirty' = dirty \ (dirty \cap js)
        OBVIOUS
    <2> QED BY <2>1
<1>2. Leases!Clean(ks)
    BY <1>1 DEF Leases!Clean, NoLeaseChanges, SameLease
<1> QED BY <1>1, <1>2 DEF Leases!LeasesNext

\* release() and invalidate() give the lease back.
LEMMA GiveBackStep ==
    ASSUME IInv, NEW c \in Callers, OneEnds(c), dirty' = dirty
    PROVE  Leases!LeasesNext
<1>1. job[c] # NoJob
    BY DEF IInv, CallsInv, JobPCs, OneEnds, Held
<1>2. Leases!GiveBack(c)
    BY <1>1 DEF Leases!GiveBack, OneEnds, SameLease
<1> QED BY <1>2 DEF Leases!LeasesNext

\* SQL runs on leased jobs only.
LEMMA TouchStep ==
    ASSUME IInv, NEW c \in Callers, Use(c)
    PROVE  Leases!LeasesNext
<1>1. Held(c) /\ job[c] # NoJob /\ dirty' = dirty \cup {job[c]} /\ UNCHANGED <<pc, job>>
    BY DEF IInv, CallsInv, JobPCs, Use, Held
<1>2. Leases!Touch(c)
    BY <1>1 DEF Leases!Touch, Held
<1> QED BY <1>2 DEF Leases!LeasesNext

\* No more jobs are leased than callers hold one.
LEMMA LeasedByHolders ==
    ASSUME IInv
    PROVE  /\ Leases!Leased = {job[c] : c \in Holders}
           /\ Cardinality(Leases!Leased) <= Cardinality(Holders)
           /\ Cardinality(Leases!Leased) \in Nat
<1>1. Leases!Leased = {job[c] : c \in Holders}
    <2>1. \A c \in Holders : job[c] # NoJob
        BY DEF IInv, CallsInv, JobPCs, Holders, Held
    <2> QED BY <2>1 DEF Leases!Leased, Holders
<1> DEFINE f == [c \in Holders |-> job[c]]
<1>2. f \in Surjection(Holders, {job[c] : c \in Holders})
    BY DEF Surjection
<1> HIDE DEF f
<1> QED BY <1>1, <1>2, HoldersAreFinite, FS_Surjection, FS_CardinalityType

\* A lease begins with a job nobody has leased, and clean.
LEMMA GrantStep ==
    ASSUME IInv, NEW c \in Callers, NEW j \in Jobs, OneBegins(c, j),
           \A d \in Holders : job[d] # j,
           Cardinality(Holders) < MaxSize,
           dirty' = dirty \ {j}
    PROVE  Leases!LeasesNext
<1>1. j \notin Leases!Leased
    BY LeasedByHolders
<1>2. Cardinality(Leases!Leased) < MaxSize
    <2>1. /\ Cardinality(Leases!Leased) <= Cardinality(Holders)
          /\ Cardinality(Leases!Leased) \in Nat
        BY LeasedByHolders
    <2> QED BY <2>1, HoldersAreFinite, SizesAssumption
<1>3. Leases!Cardinality(Leases!Leased) < MaxSize
    BY <1>2, SameCount
<1>4. Leases!Grant(c, j)
    BY <1>1, <1>3 DEF Leases!Grant, OneBegins, SameLease
<1> QED BY <1>4 DEF Leases!LeasesNext

\* While the pool runs, a counted job nobody holds leaves room for a lease.
LEMMA RoomInAll ==
    ASSUME IInv, HoldersInv, ~ending, NEW j \in all, \A d \in Holders : job[d] # j
    PROVE  Cardinality(Holders) < MaxSize
<1>1. all \ {j} \in SUBSET Jobs /\ \A d \in Holders : job[d] \in all \ {j}
    BY DEF IInv, TypeOK, HoldersInv, HoldersCounted
<1>2. /\ Cardinality(Holders) <= Cardinality(all \ {j})
      /\ Cardinality(Holders) \in Nat /\ Cardinality(all \ {j}) \in Nat
    BY <1>1, HoldersOfCounted
<1>3. Cardinality(all \ {j}) = Cardinality(all) - 1 /\ Cardinality(all) \in Nat
    BY FiniteSets, FS_RemoveElement DEF IInv
<1>4. Cardinality(all) + creating <= MaxSize /\ creating \in Nat
    BY DEF IInv, TypeOK, Capacity
<1> QED BY <1>2, <1>3, <1>4, SizesAssumption

\* A reservation leaves room for a lease.
LEMMA RoomInReservation ==
    ASSUME HoldersInv, creating \in Nat \ {0}
    PROVE  Cardinality(Holders) < MaxSize
<1>1. Cardinality(Holders) + creating <= MaxSize /\ Cardinality(Holders) \in Nat
    BY HoldersAreFinite DEF HoldersInv, HoldersCapped
<1> QED BY <1>1, SizesAssumption

\* The caller of one call refers to a job nobody holds.
LEMMA NobodyHolds ==
    ASSUME IInv, NEW c \in Callers, ~Held(c), job[c] \in Jobs
    PROVE  \A d \in Holders : job[d] # job[c]
BY SetsAssumption DEF IInv, Exclusive, Holders

\* Every step of the pool is a step of JobLeases or leaves its variables be.
LEMMA PoolStep ==
    ASSUME IInv, HoldersInv, Next
    PROVE  Leases!LeasesNext \/ UNCHANGED Leases!leaseVars
<1>1. ASSUME NEW c \in Callers, AcquireIdle(c) PROVE Leases!LeasesNext
    <2>1. PICK j \in Jobs : j = Head(idle)
        BY <1>1, AcquireIdleLeases DEF IInv, TypeOK
    <2>2. OneBegins(c, j) /\ (\A d \in Holders : job[d] # j) /\ dirty' = dirty \ {j}
        BY <1>1, <2>1, AcquireIdleLeases DEF Holders, OneBegins
    <2>3. Cardinality(Holders) < MaxSize
        BY <1>1, <2>1, <2>2, AcquireIdleLeases, RoomInAll
    <2> QED BY <2>2, <2>3, GrantStep
<1>2. ASSUME NEW c \in Callers, Configured(c) PROVE Leases!LeasesNext
    <2>1. PICK j \in Jobs : j = job[c]
        BY <1>2, ConfiguredLeases
    <2>2. OneBegins(c, j) /\ dirty' = dirty \ {j} /\ creating \in Nat \ {0}
        BY <1>2, <2>1, ConfiguredLeases DEF OneBegins
    <2>3. \A d \in Holders : job[d] # j
        BY <1>2, <2>1, NobodyHolds DEF Configured, Held
    <2> QED BY <2>2, <2>3, RoomInReservation, GrantStep
<1>3. ASSUME NEW c \in Callers, Replaced(c) PROVE Leases!LeasesNext
    <2>1. PICK j \in Jobs : j = job[c]
        BY <1>3, ReplacedLeases
    <2>2. /\ creating \in Nat \ {0} /\ dirty' = dirty \ {j}
          /\ NoLeaseChanges \/ \E d \in Callers : OneBegins(d, j)
        BY <1>3, <2>1, ReplacedLeases
    <2>3. \A d \in Holders : job[d] # j
        BY <1>3, <2>1, NobodyHolds DEF Replaced, Held
    <2> QED BY <2>2, <2>3, QuietStep, RoomInReservation, GrantStep
<1>4. ASSUME NEW c \in Callers, Cleaned(c) PROVE Leases!LeasesNext
    <2>1. PICK j \in Jobs : j = job[c]
        BY <1>4, CleanedLeases
    <2>2. /\ dirty' = dirty \ {j} /\ (~ending => j \in all)
          /\ \/ NoLeaseChanges
             \/ ~ending /\ \E d \in Callers : OneBegins(d, j)
        BY <1>4, <2>1, CleanedLeases
    <2>3. \A d \in Holders : job[d] # j
        BY <1>4, <2>1, NobodyHolds DEF Cleaned, Held
    <2> QED BY <2>2, <2>3, QuietStep, RoomInAll, GrantStep
<1>5. ASSUME NEW c \in Callers, Release(c) \/ ReleaseUnknown(c) \/ Invalidate(c)
      PROVE  Leases!LeasesNext
    BY <1>5, GivenBackLeases, GiveBackStep
<1>6. ASSUME NEW c \in Callers,
             \/ AcquireConnect(c) \/ AcquireWait(c) \/ WaitTimesOut(c)
             \/ \E j \in Jobs : Connected(c, j)
             \/ ConnectFails(c) \/ Closed(c) \/ CleaningFails(c) \/ Discarded(c)
      PROVE  Leases!LeasesNext
    <2>1. NoLeaseChanges /\ (dirty' = dirty \ {} \/ \E j \in Jobs : dirty' = dirty \ {j})
        BY <1>6, QuietCallsKeepLeases
    <2> QED BY <2>1, QuietStep
<1>7. CASE End \/ EndResolves
    <2>1. NoLeaseChanges /\ (dirty' = dirty \ {} \/ dirty' = dirty \ closing)
        BY <1>7, EndKeepsLeases
    <2> QED BY <2>1, QuietStep
<1>8. ASSUME NEW c \in Callers, AcquireRefused(c) PROVE UNCHANGED Leases!leaseVars
    BY <1>8 DEF AcquireRefused, vars, Leases!leaseVars, Held
<1>9. ASSUME NEW c \in Callers, Use(c) PROVE Leases!LeasesNext
    BY <1>9, TouchStep
<1> QED BY <1>1, <1>2, <1>3, <1>4, <1>5, <1>6, <1>7, <1>8, <1>9 DEF Next

\* The pool implements JobLeases for any callers, jobs and sizes: whatever
\* queues, connects, times out or shuts down meanwhile, a job is leased to one
\* caller, at most MaxSize are leased, and each is clean when it is.
THEOREM PoolImplementsLeases == Spec => ImplementsLeases
<1>1. Init => Leases!LeasesInit
    BY DEF Init, Leases!LeasesInit, Held
<1>2. IInv /\ HoldersInv /\ [Next]_vars => [Leases!LeasesNext]_(Leases!leaseVars)
    <2>1. UNCHANGED vars => UNCHANGED Leases!leaseVars
        BY DEF vars, Leases!leaseVars, Held
    <2> QED BY <2>1, PoolStep
<1> QED BY <1>1, <1>2, HoldersAlways, PTL DEF Spec, ImplementsLeases, Leases!LeasesSpec
=============================================================================
