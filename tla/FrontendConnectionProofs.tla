---------------------- MODULE FrontendConnectionProofs ----------------------
(***************************************************************************)
(* Theorems about the handlers of a connection, for any statement and      *)
(* portal names, any result shapes, any kinds of statement and any stream  *)
(* of bytes.                                                               *)
(*                                                                         *)
(* The argument: every outcome of every handler sends messages without     *)
(* ReadyForQuery and without the error of a missing job (OutcomeOf), which *)
(* only Settle adds; and an outcome misses a job only as Covered says.  So *)
(* the reply to any message has the form the properties ask for.           *)
(***************************************************************************)
EXTENDS FrontendConnection, TLAPS, SequenceTheorems

\* What handlers send by themselves.
Plain == [type : {"1", "2", "3", "t", "n", "I", "T", "D", "C", "E"},
          info : Shapes \cup {"none", "fixed", "error"}]
StatementMap == [Names -> ParsedKinds \cup {"none"}]
PortalMap == [PortalNames -> PortalRecords \cup {NoPortal}]
OutcomeOf(errors) ==
    [sent : Seq(Plain), error : errors, tx : {"I", "T", "E"},
     prepared : StatementMap, portals : PortalMap]
Missing == {"noJob", "noSavepoint"}
Outcome == OutcomeOf({"none", "error"} \cup Missing)
Calm == OutcomeOf({"none", "error"})

\* A handler of a message of this type may miss its job with this error.
Covered(type, error) ==
    /\ error = "noJob" => type = "DS" \/ (type \in Queries /\ tx = "E" /\ ~pinned)
    /\ error = "noSavepoint" => type \in Queries /\ tx # "I" /\ ~pinned
Leased == \A i \in 1 .. Len(out') : Covered(last', out'[i].info)
Types == ExtendedMessages \cup Queries

-----------------------------------------------------------------------------
(* Outcomes.                                                               *)

LEMMA CalmIsOutcome ==
    ASSUME NEW o \in Calm
    PROVE  o \in Outcome /\ o.error \notin Missing /\ \A type : Covered(type, o.error)
BY DEF Calm, Outcome, OutcomeOf, Missing, Covered

LEMMA StayCalm ==
    ASSUME TypeOK
    PROVE  /\ Stay \in OutcomeOf({"none"})
           /\ Stay.sent = <<>> /\ Stay.error = "none"
           /\ Stay.portals = portals /\ Stay.prepared = prepared
<1>1. <<>> \in Seq(Plain)
    OBVIOUS
<1>2. portals \in PortalMap /\ prepared \in StatementMap /\ tx \in {"I", "T", "E"}
    BY DEF TypeOK, PortalMap, StatementMap
<1> QED BY <1>1, <1>2 DEF Stay, OutcomeOf

LEMMA SendsCalm ==
    ASSUME TypeOK, NEW ms \in Seq(Plain)
    PROVE  /\ Sends(ms) \in Calm
           /\ Sends(ms).sent = ms /\ Sends(ms).error = "none"
           /\ Sends(ms).portals = portals /\ Sends(ms).prepared = prepared
BY StayCalm DEF Sends, Calm, OutcomeOf

LEMMA ThrowsOutcome ==
    ASSUME TypeOK, NEW info \in {"error"} \cup Missing
    PROVE  /\ Throws(info) \in Outcome /\ (info = "error" => Throws(info) \in Calm)
           /\ Throws(info).sent = <<>> /\ Throws(info).error = info
           /\ Throws(info).portals = portals /\ Throws(info).prepared = prepared
BY StayCalm DEF Throws, Outcome, Calm, OutcomeOf, Missing

LEMMA DbErrorOutcome ==
    ASSUME TypeOK, NEW info \in {"error"} \cup Missing
    PROVE  /\ DbError(info) \in Outcome /\ (info = "error" => DbError(info) \in Calm)
           /\ DbError(info).sent = <<>> /\ DbError(info).error = info
           /\ DbError(info).portals = portals /\ DbError(info).prepared = prepared
<1> DEFINE o == Throws(info)
<1>1. o \in Outcome /\ (info = "error" => o \in Calm)
      /\ o.sent = <<>> /\ o.error = info
      /\ o.portals = portals /\ o.prepared = prepared
    BY ThrowsOutcome
<1>2. DbError(info) = [o EXCEPT !.tx = IF tx = "I" THEN "I" ELSE "E"]
    BY DEF DbError
<1> DEFINE x == IF tx = "I" THEN "I" ELSE "E"
<1>3. x \in {"I", "T", "E"}
    OBVIOUS
<1>4. DbError(info) = [o EXCEPT !.tx = x]
    BY <1>2
<1> HIDE DEF o, x
<1>5. DbError(info) \in Outcome
    BY <1>1, <1>3, <1>4 DEF Outcome, OutcomeOf
<1>6. info = "error" => DbError(info) \in Calm
    BY <1>1, <1>3, <1>4 DEF Calm, OutcomeOf
<1>7. /\ DbError(info).sent = o.sent /\ DbError(info).error = o.error
      /\ DbError(info).portals = o.portals /\ DbError(info).prepared = o.prepared
    BY <1>1, <1>4 DEF Outcome, OutcomeOf
<1> QED
    BY <1>1, <1>5, <1>6, <1>7

\* Messages.
LEMMA MessagesPlain ==
    /\ CommandComplete \in Plain /\ NoData \in Plain
    /\ \A shape \in Shapes \cup {"fixed"} : RowDescription(shape) \in Plain
                                           /\ DataRow(shape) \in Plain
    /\ \A type \in {"1", "2", "3", "t", "n", "I", "T", "D", "C", "E"} :
          Message(type, "none") \in Plain
    /\ ErrorResponse("error") \in Plain
BY DEF Plain, RowDescription, DataRow, CommandComplete, NoData, ErrorResponse, Message

\* Two sequences written out.
LEMMA OneAndTwo ==
    ASSUME NEW M, NEW a \in M, NEW b \in M, NEW c \in M
    PROVE  <<a>> \o <<b, c>> = <<a, b, c>> /\ <<>> \o <<b, c>> = <<b, c>>
<1>1. <<a>> \in Seq(M) /\ <<b, c>> \in Seq(M) /\ <<a, b, c>> \in Seq(M)
      /\ <<>> \in Seq(M)
    OBVIOUS
<1>2. /\ Len(<<a>>) = 1 /\ Len(<<b, c>>) = 2
      /\ Len(<<a, b, c>>) = 3 /\ Len(<<>>) = 0
    OBVIOUS
<1>3. /\ <<a>> \o <<b, c>> \in Seq(M) /\ Len(<<a>> \o <<b, c>>) = 3
      /\ \A i \in 1 .. 3 : (<<a>> \o <<b, c>>)[i] =
            IF i <= 1 THEN <<a>>[i] ELSE <<b, c>>[i - 1]
    BY <1>1, <1>2, ConcatProperties
<1>4. \A i \in 1 .. 3 : (<<a>> \o <<b, c>>)[i] = <<a, b, c>>[i]
    <2> TAKE i \in 1 .. 3
    <2> QED BY <1>3
<1>5. <<a>> \o <<b, c>> = <<a, b, c>>
    BY <1>1, <1>2, <1>3, <1>4, SeqEqual
<1>6. <<>> \o <<b, c>> = <<b, c>>
    BY <1>1, ConcatEmptySeq
<1> QED BY <1>5, <1>6

LEMMA RowsPlain ==
    ASSUME NEW shape \in Shapes \cup {"fixed"}, NEW w \in BOOLEAN
    PROVE  /\ Rows(shape, w) \in Seq(Plain)
           /\ w => Rows(shape, w) = <<RowDescription(shape), DataRow(shape), CommandComplete>>
           /\ ~w => Rows(shape, w) = <<DataRow(shape), CommandComplete>>
<1> DEFINE t == RowDescription(shape)
           d == DataRow(shape)
           c == CommandComplete
<1>1. t \in Plain /\ d \in Plain /\ c \in Plain
    BY MessagesPlain
<1>2. Rows(shape, w) = (IF w THEN <<t>> ELSE <<>>) \o <<d, c>>
    BY DEF Rows
<1> HIDE DEF t, d, c
<1>3. <<t>> \o <<d, c>> = <<t, d, c>> /\ <<>> \o <<d, c>> = <<d, c>>
    BY <1>1, OneAndTwo
<1>4. <<t, d, c>> \in Seq(Plain) /\ <<d, c>> \in Seq(Plain)
    BY <1>1
<1> QED BY <1>2, <1>3, <1>4 DEF t, d, c

LEMMA ForgetsCalm ==
    ASSUME TypeOK, NEW stmts \in StatementMap, NEW ps \in PortalMap
    PROVE  /\ Forgets(stmts, ps) \in Calm
           /\ Forgets(stmts, ps).sent = <<CommandComplete>>
           /\ Forgets(stmts, ps).error = "none"
           /\ Forgets(stmts, ps).portals = ps /\ Forgets(stmts, ps).prepared = stmts
<1>1. <<CommandComplete>> \in Seq(Plain)
    BY MessagesPlain
<1> QED BY <1>1, StayCalm DEF Forgets, Calm, OutcomeOf

LEMMA DeallocateCalm ==
    ASSUME TypeOK, NEW n \in Names
    PROVE  Deallocate(n) \in Calm
<1> DEFINE stmts == [prepared EXCEPT ![n] = "none"]
           ps == [p \in PortalNames |->
                    IF Bound(p) /\ portals[p].stmt = n THEN NoPortal ELSE portals[p]]
<1>1. stmts \in StatementMap
    BY DEF TypeOK, StatementMap
<1>2. ps \in PortalMap
    BY DEF TypeOK, PortalMap
<1> HIDE DEF stmts, ps
<1>3. Forgets(stmts, ps) \in Calm /\ Throws("error") \in Calm
    BY <1>1, <1>2, ForgetsCalm, ThrowsOutcome
<1> QED BY <1>3 DEF Deallocate, stmts, ps

LEMMA DeallocateAllCalm == ASSUME TypeOK PROVE DeallocateAll \in Calm
<1>1. [n \in Names |-> "none"] \in StatementMap
      /\ [p \in PortalNames |-> NoPortal] \in PortalMap
    BY DEF StatementMap, PortalMap
<1> QED BY <1>1, ForgetsCalm DEF DeallocateAll
-----------------------------------------------------------------------------
(* executeSql.                                                             *)

\* Rows of one shape sent by a statement of kind k, which changed nothing else.
FixedKinds == {"environment", "advisory", "returning", "catalog", "setConfig"}
SendsRows(o, k, w) ==
    \E shape \in Shapes \cup {"fixed"} :
        /\ o = Sends(Rows(shape, w))
        /\ k \in {"select", "call"} \/ (k \in FixedKinds /\ shape = "fixed")
Rowless(o) == \A i \in 1 .. Len(o.sent) : o.sent[i].type # "D"

LEMMA CompleteCalm ==
    ASSUME TypeOK
    PROVE  Sends(<<CommandComplete>>) \in Calm /\ Rowless(Sends(<<CommandComplete>>))
<1>1. <<CommandComplete>> \in Seq(Plain)
    BY MessagesPlain
<1>2. Sends(<<CommandComplete>>) \in Calm
      /\ Sends(<<CommandComplete>>).sent = <<CommandComplete>>
    BY <1>1, SendsCalm
<1> QED BY <1>2 DEF Rowless, CommandComplete, Message

LEMMA ErrorCalm ==
    ASSUME TypeOK
    PROVE  /\ Throws("error") \in Calm /\ Rowless(Throws("error"))
           /\ DbError("error") \in Calm /\ Rowless(DbError("error"))
BY ThrowsOutcome, DbErrorOutcome DEF Rowless

Same(o) == o.prepared = prepared /\ o.portals = portals

LEMMA FailuresOutcome ==
    ASSUME TypeOK, NEW k, NEW info \in {"error"} \cup Missing, NEW o \in Failures(k, info)
    PROVE  /\ o \in Outcome /\ (info = "error" => o \in Calm)
           /\ o.sent = <<>> /\ Rowless(o) /\ o.error = info /\ Same(o)
<1>1. o = Throws(info) \/ o = DbError(info)
    BY DEF Failures
<1> QED BY <1>1, ThrowsOutcome, DbErrorOutcome DEF Rowless, Same

\* A statement that comes to currentJob() without one gets an error of Missing,
\* after or before the test of the failed transaction.
Missed(o, has) ==
    /\ o.error = "noJob" => tx = "E" /\ ~has
    /\ o.error = "noSavepoint" => tx # "I" /\ ~has
HasItsJob(k, has) ==
    \/ has
    \/ (UsesDb2(k) \/ k = "createSchema" => tx = "E") /\ (k = "savepoint" => tx # "T")

LEMMA CalmIsNotMissed == ASSUME NEW o \in Calm, NEW has PROVE Missed(o, has)
BY CalmIsOutcome DEF Missed, Missing

LEMMA FirstOutcomes ==
    ASSUME TypeOK, NEW k \in ComesFirst, NEW has \in BOOLEAN, HasItsJob(k, has),
           NEW o \in ExecuteFirst(k, has)
    PROVE  o \in Outcome /\ Rowless(o) /\ Same(o) /\ Missed(o, has)
<1> DEFINE done == Sends(<<CommandComplete>>)
           next == IF k = "rollbackTo" THEN "T" ELSE tx
<1>1. done \in Calm /\ Rowless(done) /\ Same(done) /\ done.tx = tx
    <2>1. <<CommandComplete>> \in Seq(Plain)
        BY MessagesPlain
    <2>2. Sends(<<CommandComplete>>).tx = tx
        BY DEF Sends, Stay
    <2> QED BY <2>1, <2>2, CompleteCalm, SendsCalm DEF Same
<1>2. CASE o = done \/ o = Throws("error")
    BY <1>1, <1>2, CalmIsOutcome, CalmIsNotMissed, ErrorCalm, ThrowsOutcome DEF Same
<1>3. CASE o \in Failures(k, "error")
    BY <1>3, FailuresOutcome, CalmIsOutcome, CalmIsNotMissed
<1>4. CASE ~has /\ ~Misplaced(k) /\ k = "rollbackTo" /\ o \in Failures(k, "noSavepoint")
    <2>1. o \in Outcome /\ Rowless(o) /\ o.error = "noSavepoint" /\ Same(o)
        BY <1>4, FailuresOutcome DEF Missing
    <2> QED BY <1>4, <2>1 DEF Missed, Misplaced
<1>5. CASE ~has /\ ~Misplaced(k) /\ k \in {"savepoint", "createSchema"}
           /\ o \in Failures(k, "noJob")
    <2>1. o \in Outcome /\ Rowless(o) /\ o.error = "noJob" /\ Same(o)
        BY <1>5, FailuresOutcome DEF Missing
    <2> QED BY <1>5, <2>1 DEF Missed, Misplaced, HasItsJob
<1>6. CASE o = [done EXCEPT !.tx = next]
    <2>1. next \in {"I", "T", "E"}
        BY DEF TypeOK
    <2> HIDE DEF done, next
    <2>2. o \in Calm /\ Rowless(o) /\ Same(o)
        BY <1>1, <1>6, <2>1 DEF Calm, OutcomeOf, Rowless, Same
    <2> QED BY <2>2, CalmIsOutcome, CalmIsNotMissed
<1>7. \/ o = done \/ o = Throws("error") \/ o \in Failures(k, "error")
      \/ o = [done EXCEPT !.tx = next]
      \/ ~has /\ ~Misplaced(k) /\ k = "rollbackTo" /\ o \in Failures(k, "noSavepoint")
      \/ ~has /\ ~Misplaced(k) /\ k \in {"savepoint", "createSchema"}
         /\ o \in Failures(k, "noJob")
    BY <1>1 DEF ExecuteFirst, ComesFirst
<1> QED BY <1>2, <1>3, <1>4, <1>5, <1>6, <1>7

LEMMA ExecuteOutcomes ==
    ASSUME TypeOK, NEW k \in StatementKinds, NEW has \in BOOLEAN, NEW w \in BOOLEAN,
           HasItsJob(k, has), k \notin ComesFirst,
           NEW o \in ExecuteSql(k, has, w)
    PROVE  o \in Calm /\ (Rowless(o) \/ SendsRows(o, k, w))
<1> DEFINE done == Sends(<<CommandComplete>>)
<1>1. CASE tx = "E" /\ k # "end"
    <2>1. o = Throws("error") BY <1>1 DEF ExecuteSql, UsesDb2
    <2> QED BY <2>1, ErrorCalm
<1>2. CASE ~(tx = "E" /\ k # "end") /\ k = "begin"
    <2>1. o = [done EXCEPT !.tx = "T"] BY <1>2 DEF ExecuteSql, UsesDb2
    <2>2. done \in Calm /\ Rowless(done) BY CompleteCalm
    <2> HIDE DEF done
    <2> QED BY <2>1, <2>2 DEF Calm, OutcomeOf, Rowless
<1>3. CASE k = "end"
    <2> DEFINE failed == Throws("error")
    <2>1. o = [done EXCEPT !.tx = "I"] \/ o = failed \/ o = [failed EXCEPT !.tx = "I"]
        BY <1>3 DEF ExecuteSql, UsesDb2
    <2>2. done \in Calm /\ Rowless(done) /\ failed \in Calm /\ Rowless(failed)
        BY CompleteCalm, ErrorCalm
    <2> HIDE DEF done, failed
    <2> QED BY <2>1, <2>2 DEF Calm, OutcomeOf, Rowless
<1>4. CASE ~(tx = "E" /\ k # "end") /\ k \in {"deallocate", "deallocateAll"}
    <2>1. o = DeallocateAll \/ \E n \in Names : o = Deallocate(n)
        BY <1>4 DEF ExecuteSql, UsesDb2
    <2>2. o \in Calm BY <2>1, DeallocateCalm, DeallocateAllCalm
    <2>3. o.sent = <<CommandComplete>> \/ o.sent = <<>>
        <3>1. CASE o = DeallocateAll
            <4>1. [n \in Names |-> "none"] \in StatementMap
                  /\ [p \in PortalNames |-> NoPortal] \in PortalMap
                BY DEF StatementMap, PortalMap
            <4> QED BY <3>1, <4>1, ForgetsCalm DEF DeallocateAll
        <3>2. ASSUME NEW n \in Names, o = Deallocate(n)
              PROVE  o.sent = <<CommandComplete>> \/ o.sent = <<>>
            BY <3>2, ThrowsOutcome DEF Deallocate, Forgets, Stay
        <3> QED BY <2>1, <3>1, <3>2
    <2> QED BY <2>2, <2>3 DEF Rowless, CommandComplete, Message
<1>5. CASE ~(tx = "E" /\ k # "end") /\ k \in {"environment", "advisory"}
    <2>1. o = Sends(Rows("fixed", w)) BY <1>5 DEF ExecuteSql, UsesDb2
    <2>2. Rows("fixed", w) \in Seq(Plain) BY RowsPlain
    <2> QED BY <1>5, <2>1, <2>2, SendsCalm DEF SendsRows, FixedKinds
<1>6. CASE ~(tx = "E" /\ k # "end") /\ k \in {"rejected", "unsupported", "setting"}
    <2>1. o = Throws("error") \/ o = done BY <1>6 DEF ExecuteSql, UsesDb2
    <2> QED BY <2>1, ErrorCalm, CompleteCalm
<1>7. CASE ~(tx = "E" /\ k # "end") /\ UsesDb2(k)
    <2>1. has BY <1>7 DEF UsesDb2, HasItsJob
    <2>2. \/ o \in Failures(k, "error")
          \/ o = done
          \/ k \in {"select", "call"} /\ \E shape \in Shapes : o = Sends(Rows(shape, w))
          \/ k \in {"returning", "catalog", "setConfig"} /\ o = Sends(Rows("fixed", w))
        BY <1>7, <2>1 DEF ExecuteSql, UsesDb2
    <2>3. CASE o \in Failures(k, "error") BY <2>3, FailuresOutcome
    <2>4. CASE o = done BY <2>4, CompleteCalm
    <2>5. ASSUME k \in {"select", "call"}, NEW shape \in Shapes, o = Sends(Rows(shape, w))
          PROVE  o \in Calm /\ SendsRows(o, k, w)
        BY <2>5, SendsCalm, RowsPlain DEF SendsRows
    <2>6. CASE k \in {"returning", "catalog", "setConfig"} /\ o = Sends(Rows("fixed", w))
        BY <2>6, SendsCalm, RowsPlain DEF SendsRows, FixedKinds
    <2> QED BY <2>2, <2>3, <2>4, <2>5, <2>6
<1> QED
    BY <1>1, <1>2, <1>3, <1>4, <1>5, <1>6, <1>7
       DEF StatementKinds, Local, UsesDb2, ComesFirst
-----------------------------------------------------------------------------
(* The reply.                                                              *)

NotReady == [type : {"1", "2", "3", "t", "n", "I", "T", "D", "C", "E"},
             info : Shapes \cup {"none", "fixed", "error"} \cup Missing]
Fault(error) == IF error # "none" THEN <<ErrorResponse(error)>> ELSE <<>>

LEMMA BodyFacts ==
    ASSUME NEW ms \in Seq(Plain), NEW error \in {"none", "error"} \cup Missing
    PROVE  /\ ms \o Fault(error) \in Seq(NotReady)
           /\ error = "none" => ms \o Fault(error) = ms
           /\ \A i \in 1 .. Len(ms \o Fault(error)) :
                 \/ (ms \o Fault(error))[i] \in Plain
                 \/ (ms \o Fault(error))[i].info = error
<1>1. Plain \subseteq NotReady
    BY DEF Plain, NotReady
<1>2. ms \in Seq(NotReady)
    BY <1>1, SeqMonotonic
<1> DEFINE e == ErrorResponse(error)
<1>a. e \in NotReady /\ e.info = error
    BY DEF NotReady, ErrorResponse, Message
<1>b. Fault(error) = IF error # "none" THEN <<e>> ELSE <<>>
    BY DEF Fault
<1> HIDE DEF e
<1>3. Fault(error) \in Seq(NotReady)
      /\ \A i \in 1 .. Len(Fault(error)) : Fault(error)[i].info = error
    BY <1>a, <1>b
<1>4. /\ ms \o Fault(error) \in Seq(NotReady)
      /\ Len(ms \o Fault(error)) = Len(ms) + Len(Fault(error))
      /\ \A i \in 1 .. Len(ms) + Len(Fault(error)) :
            (ms \o Fault(error))[i] =
                IF i <= Len(ms) THEN ms[i] ELSE Fault(error)[i - Len(ms)]
    BY <1>2, <1>3, ConcatProperties
<1>5. \A i \in 1 .. Len(ms) : ms[i] \in Plain
    BY ElementOfSeq
<1> DEFINE f == Fault(error)
           all == ms \o f
<1>6. ASSUME NEW i \in 1 .. Len(all) PROVE all[i] \in Plain \/ all[i].info = error
    <2>1. Len(ms) \in Nat /\ Len(f) \in Nat
        BY <1>3
    <2> HIDE DEF f, all
    <2>2. i \in 1 .. Len(ms) + Len(f)
        BY <1>4, <1>6 DEF f, all
    <2>3. CASE i <= Len(ms)
        BY <1>4, <1>5, <2>1, <2>2, <2>3 DEF f, all
    <2>4. CASE ~(i <= Len(ms))
        <3>1. i - Len(ms) \in 1 .. Len(f)
            BY <2>1, <2>2, <2>4
        <3>2. all[i] = f[i - Len(ms)]
            BY <1>4, <2>2, <2>4 DEF f, all
        <3> QED BY <1>3, <3>1, <3>2 DEF f
    <2> QED BY <2>3, <2>4
<1>7. error = "none" => ms \o Fault(error) = ms
    BY ConcatEmptySeq DEF Fault
<1> QED BY <1>4, <1>6, <1>7

LEMMA NotReadyFacts ==
    ASSUME NEW ms \in Seq(NotReady)
    PROVE  ms \in Seq(Sent) /\ Readies(ms) = {}
<1>1. NotReady \subseteq Sent
    BY DEF NotReady, Sent, Missing
<1>2. ms \in Seq(Sent)
    BY <1>1, SeqMonotonic
<1>3. \A i \in 1 .. Len(ms) : ms[i] \in NotReady
    BY ElementOfSeq
<1>4. \A i \in 1 .. Len(ms) : ms[i].type # "Z"
    BY <1>3 DEF NotReady
<1> QED BY <1>2, <1>4 DEF Readies

LEMMA ReadyLast ==
    ASSUME NEW ms \in Seq(NotReady)
    PROVE  /\ ms \o <<ReadyForQuery>> \in Seq(Sent)
           /\ Readies(ms \o <<ReadyForQuery>>) = {Len(ms \o <<ReadyForQuery>>)}
           /\ \A i \in 1 .. Len(ms \o <<ReadyForQuery>>) :
                 (ms \o <<ReadyForQuery>>)[i].info \in Missing =>
                     i \in 1 .. Len(ms) /\ (ms \o <<ReadyForQuery>>)[i] = ms[i]
<1> DEFINE z == <<ReadyForQuery>>
           all == ms \o z
<1>1. ms \in Seq(Sent) /\ Readies(ms) = {}
    BY NotReadyFacts
<1>2. ReadyForQuery \in Sent /\ ReadyForQuery.type = "Z" /\ ReadyForQuery.info = "none"
    BY DEF ReadyForQuery, Message, Sent
<1>3. z \in Seq(Sent) /\ Len(z) = 1 /\ z[1] = ReadyForQuery
    BY <1>2
<1>4. /\ all \in Seq(Sent) /\ Len(all) = Len(ms) + 1
      /\ \A i \in 1 .. Len(ms) + 1 :
            all[i] = IF i <= Len(ms) THEN ms[i] ELSE z[i - Len(ms)]
    BY <1>1, <1>3, ConcatProperties
<1>5. Len(ms) \in Nat
    OBVIOUS
<1> HIDE DEF z, all
<1>6. \A i \in 1 .. Len(ms) : ms[i].type # "Z"
    BY <1>1 DEF Readies
<1>7. \A i \in 1 .. Len(ms) : all[i] = ms[i]
    BY <1>4, <1>5
<1>8. all[Len(ms) + 1] = ReadyForQuery
    BY <1>3, <1>4, <1>5
<1>9. Readies(all) = {Len(all)}
    BY <1>2, <1>4, <1>5, <1>6, <1>7, <1>8 DEF Readies
<1>10. \A i \in 1 .. Len(all) :
          all[i].info \in Missing => i \in 1 .. Len(ms) /\ all[i] = ms[i]
    <2> TAKE i \in 1 .. Len(all)
    <2> HAVE all[i].info \in Missing
    <2>1. i # Len(ms) + 1 BY <1>2, <1>8 DEF Missing
    <2>2. i \in 1 .. Len(ms) BY <2>1, <1>4, <1>5
    <2> QED BY <2>2, <1>7
<1> QED BY <1>4, <1>9, <1>10 DEF z, all

LEMMA PlainMissesNothing ==
    ASSUME NEW m \in Plain, ProtocolAssumption
    PROVE  m.info \notin Missing /\ \A type : Covered(type, m.info)
BY DEF Plain, ProtocolAssumption, Missing, Covered

\* A message that was handled with outcome o.
LEMMA SettleFacts ==
    ASSUME TypeOK, NEW type \in Types, NEW has \in BOOLEAN,
           NEW o \in Outcome, Covered(type, o.error),
           Settle(type, has, o)
    PROVE  TypeOK' /\ OneReadyPerRequest' /\ Leased
<1> DEFINE body == o.sent \o Fault(o.error)
<1>1. o.sent \in Seq(Plain) /\ o.error \in {"none", "error"} \cup Missing
    BY DEF Outcome, OutcomeOf
<1>2. /\ body \in Seq(NotReady)
      /\ \A i \in 1 .. Len(body) : body[i] \in Plain \/ body[i].info = o.error
    BY <1>1, BodyFacts
<1>3. out' = IF type \in Queries THEN body \o <<ReadyForQuery>> ELSE body
    <2>1. body \o <<>> = body
        BY <1>2, ConcatEmptySeq
    <2>2. out' = body \o (IF type \in Queries THEN <<ReadyForQuery>> ELSE <<>>)
        BY DEF Settle, Answer, Fault
    <2> QED BY <2>1, <2>2
<1>4. last' = type /\ type # "S"
    BY DEF Settle, Types, ExtendedMessages, Queries
<1> HIDE DEF body
<1>5. out' \in Seq(Sent)
    BY <1>2, <1>3, ReadyLast, NotReadyFacts
<1>6. IF type \in Queries THEN Readies(out') = {Len(out')} ELSE Readies(out') = {}
    BY <1>2, <1>3, ReadyLast, NotReadyFacts
<1>7. OneReadyPerRequest'
    BY <1>4, <1>6 DEF OneReadyPerRequest, Readies
<1>8. Leased
    <2> SUFFICES ASSUME NEW i \in 1 .. Len(out') PROVE Covered(type, out'[i].info)
        BY <1>4 DEF Leased
    <2>1. CASE out'[i].info \notin Missing
        BY <2>1 DEF Covered, Missing
    <2>2. CASE out'[i].info \in Missing
        <3>1. i \in 1 .. Len(body) /\ out'[i] = body[i]
            BY <1>2, <1>3, <2>2, ReadyLast
        <3>2. CASE body[i] \in Plain
            BY <3>1, <3>2, PlainMissesNothing, ProtocolAssumption
        <3>3. CASE body[i].info = o.error
            BY <3>1, <3>3
        <3> QED BY <1>2, <3>1, <3>2, <3>3
    <2> QED BY <2>1, <2>2
<1>9. TypeOK'
    <2>1. /\ o.prepared \in StatementMap /\ o.portals \in PortalMap
          /\ o.tx \in {"I", "T", "E"}
        BY DEF Outcome, OutcomeOf
    <2>2. extendedError' \in BOOLEAN
        BY DEF TypeOK, Settle, Answer
    <2>3. last' \in Handled
        BY <1>4 DEF Handled, Types
    <2>4. pinned' \in BOOLEAN /\ closed' \in BOOLEAN
        BY DEF Settle, TypeOK
    <2>5. prepared' = o.prepared /\ portals' = o.portals /\ tx' = o.tx
        BY DEF Settle
    <2> QED BY <1>5, <2>1, <2>2, <2>3, <2>4, <2>5 DEF TypeOK, StatementMap, PortalMap
<1> QED BY <1>7, <1>8, <1>9
-----------------------------------------------------------------------------
(* What a portal's Describe told, and portals without their statement.     *)

\* What was told and kept for a portal of an unchanged statement of kind k.
Fits(k, portal) ==
    /\ portal.told = "nothing" => portal.replay = "none"
    /\ portal.told # "nothing" =>
         /\ portal.replay \in {"none", portal.told}
         /\ k = "select" => portal.replay = portal.told
         /\ k \in FixedKinds => portal.told = "fixed"
         /\ k \notin FixedKinds \cup {"select", "rejected"} => portal.told = "noData"
AllFit(stmts, ps) ==
    \A p \in PortalNames :
        ps[p] # NoPortal /\ ps[p].fresh /\ stmts[ps[p].stmt] # "none"
            => Fits(stmts[ps[p].stmt], ps[p])
DanglesIn(stmts, ps, p) == ps[p] # NoPortal /\ stmts[ps[p].stmt] = "none"
NoneLost(o) ==
    \A p \in PortalNames : DanglesIn(o.prepared, o.portals, p) => Dangling(p)

IInv == TypeOK /\ AllFit(prepared, portals)

\* The rows of an Execute were described.
Announced(o, shape, w) ==
    w \/ \E p \in PortalNames :
            /\ o.portals[p] # NoPortal
            /\ \/ o.portals[p].told = shape
               \/ ~o.portals[p].fresh
               \/ /\ o.portals[p].told = "noData"
                  /\ o.prepared[o.portals[p].stmt] = "call"
RowsFit(o) ==
    \/ Rowless(o)
    \/ /\ o.error = "none"
       /\ \E shape \in Shapes \cup {"fixed"}, w \in BOOLEAN :
              o.sent = Rows(shape, w) /\ Announced(o, shape, w)

Good(type, o) ==
    /\ o \in Outcome /\ Covered(type, o.error)
    /\ AllFit(o.prepared, o.portals)
    /\ type = "C" \/ NoneLost(o)
    /\ type = "E" => RowsFit(o)

LEMMA SameGood ==
    ASSUME IInv, NEW o \in Calm, o.portals = portals, o.prepared = prepared, NEW type,
           type = "E" => Rowless(o)
    PROVE  Good(type, o)
BY CalmIsOutcome DEF IInv, Good, NoneLost, DanglesIn, Dangling, Bound, RowsFit

LEMMA ErrorGood ==
    ASSUME IInv, NEW type
    PROVE  Good(type, Throws("error")) /\ Good(type, DbError("error"))
           /\ \A k : \A o \in Failures(k, "error") : Good(type, o)
<1>1. TypeOK BY DEF IInv
<1>2. Good(type, Throws("error"))
    BY <1>1, ErrorCalm, ThrowsOutcome, SameGood
<1>3. Good(type, DbError("error"))
    BY <1>1, ErrorCalm, DbErrorOutcome, SameGood
<1> QED BY <1>2, <1>3 DEF Failures

\* What every step has to do.
StepOK ==
    /\ IInv' /\ OneReadyPerRequest' /\ Leased
    /\ RowsMatchDescription'
    /\ \A p \in PortalNames : Dangling(p)' => Dangling(p) \/ last' = "C"

\* The answer to a message with a good outcome.
LEMMA SettleGood ==
    ASSUME IInv, NEW type \in Types, NEW has \in BOOLEAN,
           NEW o, Good(type, o), Settle(type, has, o)
    PROVE  StepOK
<1>1. o \in Outcome /\ TypeOK
    BY DEF Good, IInv
<1>2. TypeOK' /\ OneReadyPerRequest' /\ Leased
    BY <1>1, SettleFacts DEF Good
<1>3. prepared' = o.prepared /\ portals' = o.portals /\ last' = type
    BY DEF Settle
<1>4. IInv'
    BY <1>2, <1>3 DEF Good, IInv, AllFit
<1>5. \A p \in PortalNames : Dangling(p)' => Dangling(p) \/ last' = "C"
    BY <1>3 DEF Good, NoneLost, DanglesIn, Dangling, Bound
<1>6. RowsMatchDescription'
    <2> SUFFICES ASSUME type = "E"
                 PROVE  RowsMatchDescription'
        BY <1>3 DEF RowsMatchDescription
    <2> DEFINE e == ErrorResponse(o.error)
               fault == Fault(o.error)
    <2>1. o.sent \in Seq(Plain) /\ o.error \in {"none", "error"}
        BY DEF Good, Outcome, OutcomeOf, Covered, Missing, Queries
    <2>2. o.sent \o fault \in Seq(NotReady)
        BY <2>1, BodyFacts
    <2>3. out' = o.sent \o fault
        <3>1. (o.sent \o fault) \o <<>> = o.sent \o fault
            BY <2>2, ConcatEmptySeq
        <3> QED BY <3>1 DEF Settle, Answer, Fault, Queries
    <2>4. CASE Rowless(o)
        <3>1. e \in Plain /\ e.type = "E"
            BY <2>1 DEF ErrorResponse, Message, Plain
        <3>2. fault = IF o.error # "none" THEN <<e>> ELSE <<>>
            BY DEF Fault
        <3> HIDE DEF e, fault
        <3>3. /\ fault \in Seq(Plain)
              /\ \A i \in 1 .. Len(fault) : fault[i].type = "E"
            BY <3>1, <3>2
        <3>4. /\ Len(out') = Len(o.sent) + Len(fault)
              /\ \A i \in 1 .. Len(o.sent) + Len(fault) :
                    out'[i] = IF i <= Len(o.sent) THEN o.sent[i]
                                                  ELSE fault[i - Len(o.sent)]
            BY <2>1, <2>3, <3>3, ConcatProperties
        <3>5. \A i \in 1 .. Len(out') : out'[i].type # "D"
            <4> TAKE i \in 1 .. Len(out')
            <4>1. Len(o.sent) \in Nat /\ Len(fault) \in Nat
                BY <2>1, <3>3
            <4>2. CASE i <= Len(o.sent)
                BY <2>4, <3>4, <4>1, <4>2 DEF Rowless
            <4>3. CASE ~(i <= Len(o.sent))
                <5>1. i - Len(o.sent) \in 1 .. Len(fault)
                    BY <3>4, <4>1, <4>3
                <5>2. out'[i] = fault[i - Len(o.sent)]
                    BY <3>4, <4>1, <4>3
                <5> QED BY <3>3, <5>1, <5>2
            <4> QED BY <4>2, <4>3
        <3> QED BY <3>5 DEF RowsMatchDescription
    <2>5. ASSUME NEW shape \in Shapes \cup {"fixed"}, NEW w \in BOOLEAN,
                 o.error = "none", o.sent = Rows(shape, w), Announced(o, shape, w)
          PROVE  RowsMatchDescription'
        <3>1. out' = Rows(shape, w)
            BY <2>1, <2>3, <2>5, BodyFacts
        <3>2. CASE w
            <4>1. out' = <<RowDescription(shape), DataRow(shape), CommandComplete>>
                BY <3>1, <3>2, RowsPlain
            <4>2. \A i \in 1 .. Len(out') : out'[i].type = "D" =>
                     \E j \in 1 .. i - 1 : out'[j] = RowDescription(out'[i].info)
                <5> TAKE i \in 1 .. Len(out')
                <5> HAVE out'[i].type = "D"
                <5>1. Len(out') = 3 BY <4>1
                <5>2. i = 2
                    BY <4>1, <5>1 DEF RowDescription, CommandComplete, DataRow, Message
                <5>3. out'[1] = RowDescription(out'[i].info) /\ 1 \in 1 .. i - 1
                    BY <4>1, <5>2 DEF DataRow, Message
                <5> QED BY <5>3
            <4> QED BY <4>2 DEF RowsMatchDescription
        <3>3. CASE ~w
            <4>1. out' = <<DataRow(shape), CommandComplete>>
                BY <3>1, <3>3, RowsPlain
            <4>2. \A i \in 1 .. Len(out') : out'[i].type = "D" => out'[i].info = shape
                BY <4>1 DEF CommandComplete, DataRow, Message
            <4>3. PICK p \in PortalNames :
                    /\ o.portals[p] # NoPortal
                    /\ \/ o.portals[p].told = shape
                       \/ ~o.portals[p].fresh
                       \/ /\ o.portals[p].told = "noData"
                          /\ o.prepared[o.portals[p].stmt] = "call"
                BY <2>5, <3>3 DEF Announced
            <4> QED
                BY <1>3, <4>2, <4>3 DEF RowsMatchDescription, Bound, KindOf
        <3> QED BY <3>2, <3>3
    <2> QED BY <2>4, <2>5 DEF Good, RowsFit
<1> QED BY <1>2, <1>4, <1>5, <1>6 DEF StepOK

LEMMA HandleGood ==
    ASSUME IInv, NEW type \in Types, NEW needs \in BOOLEAN,
           NEW outcomes, \A o \in outcomes : Good(type, o),
           Handle(type, needs, outcomes)
    PROVE  StepOK
<1>1. pinned \/ needs \in BOOLEAN
    BY DEF IInv, TypeOK
<1>2. CASE \E o \in outcomes : Settle(type, pinned \/ needs, o)
    BY <1>1, <1>2, SettleGood
<1>3. CASE Settle(type, FALSE, Throws("error"))
    BY <1>3, SettleGood, ErrorGood
<1> QED BY <1>2, <1>3 DEF Handle

\* A message that never needs a job, with any good outcomes or just one.
LEMMA NoJobHandled ==
    ASSUME IInv, NEW type \in Types,
           NEW outcomes, \A o \in outcomes : Good(type, o),
           Handle(type, FALSE, outcomes)
    PROVE  StepOK
<1>1. pinned \in BOOLEAN
    BY DEF IInv, TypeOK
<1>2. PICK o \in outcomes : Settle(type, pinned \/ FALSE, o)
    BY DEF Handle
<1>3. (pinned \/ FALSE) \in BOOLEAN
    OBVIOUS
<1> QED BY <1>2, <1>3, SettleGood

LEMMA OneHandled ==
    ASSUME IInv, NEW type \in Types, NEW o, Good(type, o),
           Handle(type, FALSE, {o})
    PROVE  StepOK
<1> DEFINE outcomes == {o}
<1>1. \A a \in outcomes : Good(type, a)
    OBVIOUS
<1>2. Handle(type, FALSE, outcomes)
    OBVIOUS
<1> HIDE DEF outcomes
<1> QED BY <1>1, <1>2, NoJobHandled
-----------------------------------------------------------------------------
(* One lemma per message.                                                  *)

LEMMA PlainMessages ==
    ASSUME NEW type \in {"1", "2", "3", "t", "n", "I", "T", "D", "C", "E"}
    PROVE  <<Message(type, "none")>> \in Seq(Plain)
BY MessagesPlain

LEMMA ParseOK == ASSUME IInv, Parse PROVE StepOK
<1> SUFFICES ASSUME NEW n \in Names, NEW k \in ParsedKinds,
             Handle("P", FALSE,
               {[Sends(<<Message("1", "none")>>) EXCEPT
                    !.prepared = [prepared EXCEPT ![n] = k],
                    !.portals = [p \in PortalNames |-> Outdated(portals[p], n)]]})
             PROVE  StepOK
    BY DEF Parse
<1> DEFINE o0 == Sends(<<Message("1", "none")>>)
           stmts == [prepared EXCEPT ![n] = k]
           ps == [p \in PortalNames |-> Outdated(portals[p], n)]
           o == [o0 EXCEPT !.prepared = stmts, !.portals = ps]
<1>1. Handle("P", FALSE, {o})
    OBVIOUS
<1>2. o0 \in Calm
    BY PlainMessages, SendsCalm DEF IInv
<1>3. k # "none"
    BY ProtocolAssumption DEF ProtocolAssumption, StatementKinds, Local
<1>4. stmts \in StatementMap
    BY DEF IInv, TypeOK, StatementMap
<1>5. ps \in PortalMap
    BY DEF IInv, TypeOK, PortalMap, PortalRecords, Outdated
<1>6. AllFit(stmts, ps)
    <2>1. SUFFICES ASSUME NEW p \in PortalNames, ps[p] # NoPortal, ps[p].fresh,
                          stmts[ps[p].stmt] # "none"
                   PROVE  Fits(stmts[ps[p].stmt], ps[p])
        BY DEF AllFit
    <2>2. ps[p] = Outdated(portals[p], n)
        OBVIOUS
    <2>3. ps[p] = portals[p] /\ portals[p].stmt # n
        BY <2>1, <2>2 DEF IInv, TypeOK, Outdated, PortalRecords
    <2>4. stmts[ps[p].stmt] = prepared[portals[p].stmt]
        BY <2>1, <2>3 DEF IInv, TypeOK, PortalRecords
    <2> QED BY <2>1, <2>3, <2>4 DEF IInv, AllFit
<1>7. \A p \in PortalNames : DanglesIn(stmts, ps, p) => Dangling(p)
    BY <1>3 DEF IInv, TypeOK, DanglesIn, Dangling, Bound, Outdated, PortalRecords
<1> HIDE DEF o0, stmts, ps
<1>8. o \in Calm /\ o.prepared = stmts /\ o.portals = ps
    BY <1>2, <1>4, <1>5 DEF Calm, OutcomeOf
<1>9. Good("P", o)
    BY <1>6, <1>7, <1>8, CalmIsOutcome DEF Good, NoneLost
<1> HIDE DEF o
<1> QED
    BY <1>1, <1>9, OneHandled DEF Types, ExtendedMessages

LEMMA BindOK == ASSUME IInv, Bind PROVE StepOK
<1> SUFFICES ASSUME NEW p \in PortalNames, NEW n \in Names,
             Handle("B", FALSE,
                {Throws("error")} \cup
                (IF prepared[n] = "none" THEN {}
                 ELSE {[Sends(<<Message("2", "none")>>) EXCEPT
                           !.portals = [portals EXCEPT ![p] = Portal(n)]]}))
             PROVE  StepOK
    BY DEF Bind
<1> DEFINE o0 == Sends(<<Message("2", "none")>>)
           ps == [portals EXCEPT ![p] = Portal(n)]
           o == [o0 EXCEPT !.portals = ps]
           outcomes == {Throws("error")} \cup (IF prepared[n] = "none" THEN {} ELSE {o})
<1>1. Handle("B", FALSE, outcomes)
    OBVIOUS
<1>2. o0 \in Calm /\ o0.prepared = prepared
    BY PlainMessages, SendsCalm DEF IInv
<1>3. ps \in PortalMap
    BY DEF IInv, TypeOK, PortalMap, PortalRecords, Portal, Told, Kept
<1>4. AllFit(prepared, ps)
    BY DEF IInv, TypeOK, AllFit, Fits, Portal
<1>5. prepared[n] # "none" =>
        \A q \in PortalNames : DanglesIn(prepared, ps, q) => Dangling(q)
    BY DEF IInv, TypeOK, DanglesIn, Dangling, Bound, Portal
<1> HIDE DEF o0, ps
<1>6. o \in Calm /\ o.prepared = prepared /\ o.portals = ps
    BY <1>2, <1>3 DEF Calm, OutcomeOf
<1>7. prepared[n] # "none" => Good("B", o)
    BY <1>4, <1>5, <1>6, CalmIsOutcome DEF Good, NoneLost
<1> HIDE DEF o
<1>8. \A a \in outcomes : Good("B", a)
    BY <1>7, ErrorGood
<1> HIDE DEF outcomes
<1> QED BY <1>1, <1>8, NoJobHandled DEF Types, ExtendedMessages

LEMMA CloseOK == ASSUME IInv, Close PROVE StepOK
<1> DEFINE o0 == Sends(<<Message("3", "none")>>)
<1>1. o0 \in Calm /\ o0.prepared = prepared /\ o0.portals = portals
    BY PlainMessages, SendsCalm DEF IInv
<1>2. ASSUME NEW n \in Names,
             Handle("C", FALSE, {[o0 EXCEPT !.prepared = [prepared EXCEPT ![n] = "none"]]})
      PROVE  StepOK
    <2> DEFINE stmts == [prepared EXCEPT ![n] = "none"]
               o == [o0 EXCEPT !.prepared = stmts]
    <2>1. Handle("C", FALSE, {o})
        BY <1>2
    <2>2. stmts \in StatementMap /\ AllFit(stmts, portals)
        BY DEF IInv, TypeOK, StatementMap, AllFit, PortalRecords
    <2> HIDE DEF o0, stmts
    <2>3. o \in Calm /\ o.prepared = stmts /\ o.portals = portals
        BY <1>1, <2>2 DEF Calm, OutcomeOf
    <2>4. Good("C", o)
        BY <2>2, <2>3, CalmIsOutcome DEF Good
    <2> HIDE DEF o
    <2> QED BY <2>1, <2>4, OneHandled DEF Types, ExtendedMessages
<1>3. ASSUME NEW p \in PortalNames,
             Handle("C", FALSE, {[o0 EXCEPT !.portals = [portals EXCEPT ![p] = NoPortal]]})
      PROVE  StepOK
    <2> DEFINE ps == [portals EXCEPT ![p] = NoPortal]
               o == [o0 EXCEPT !.portals = ps]
    <2>1. Handle("C", FALSE, {o})
        BY <1>3
    <2>2. ps \in PortalMap /\ AllFit(prepared, ps)
        BY DEF IInv, TypeOK, PortalMap, AllFit
    <2> HIDE DEF o0, ps
    <2>3. o \in Calm /\ o.prepared = prepared /\ o.portals = ps
        BY <1>1, <2>2 DEF Calm, OutcomeOf
    <2>4. Good("C", o)
        BY <2>2, <2>3, CalmIsOutcome DEF Good
    <2> HIDE DEF o
    <2> QED BY <2>1, <2>4, OneHandled DEF Types, ExtendedMessages
<1> QED BY <1>2, <1>3 DEF Close

LEMMA GarbledOK == ASSUME IInv, Garbled PROVE StepOK
<1>1. Good("P", Throws("error"))
    BY ErrorGood
<1> QED BY <1>1, OneHandled DEF Garbled, Types, ExtendedMessages

LEMMA FlushOK == ASSUME IInv, Flush PROVE StepOK
<1>1. Stay \in Calm /\ Stay.portals = portals /\ Stay.prepared = prepared
    BY StayCalm DEF IInv, Calm, OutcomeOf
<1>2. Good("H", Stay)
    BY <1>1, SameGood
<1> QED BY <1>2, OneHandled DEF Flush, Types, ExtendedMessages

LEMMA UnsupportedOK == ASSUME IInv, Unsupported PROVE StepOK
<1> DEFINE o == Sends(<<ErrorResponse("error")>>)
<1>1. <<ErrorResponse("error")>> \in Seq(Plain)
    BY MessagesPlain
<1>2. o \in Calm /\ o.portals = portals /\ o.prepared = prepared
    BY <1>1, SendsCalm DEF IInv
<1>3. Handle("other", FALSE, {o})
    BY DEF Unsupported
<1> HIDE DEF o
<1>4. Good("other", o)
    BY <1>2, SameGood
<1> QED BY <1>3, <1>4, OneHandled DEF Types, ExtendedMessages

\* The parameters of a statement, then the rest of the answer to its Describe.
LEMMA PrefixGood ==
    ASSUME IInv, NEW o \in Outcome, o.portals = portals, o.prepared = prepared,
           o.error # "noSavepoint"
    PROVE  Good("DS", [o EXCEPT !.sent = <<Message("t", "none")>> \o @])
<1> DEFINE ms == <<Message("t", "none")>> \o o.sent
           a == [o EXCEPT !.sent = ms]
<1>1. ms \in Seq(Plain)
    BY PlainMessages, ConcatProperties DEF Outcome, OutcomeOf
<1> HIDE DEF ms
<1>2. a \in Outcome /\ a.portals = portals /\ a.prepared = prepared
    BY <1>1 DEF Outcome, OutcomeOf
<1>3. Good("DS", a)
    <2>1. a.error = o.error
        BY DEF Outcome, OutcomeOf
    <2> QED BY <1>2, <2>1 DEF Good, IInv, NoneLost, DanglesIn, Dangling, Bound, Covered
<1>4. a = [o EXCEPT !.sent = <<Message("t", "none")>> \o @]
    BY DEF ms
<1> QED BY <1>3, <1>4

LEMMA DescribeStatementOK == ASSUME IInv, DescribeStatement PROVE StepOK
<1>1. PICK n \in Names : Handle("DS", FALSE, DescribeOutcomes(prepared[n]))
    BY DEF DescribeStatement
<1> DEFINE k == prepared[n]
           fixed == Sends(<<RowDescription("fixed")>>)
           none == Sends(<<NoData>>)
           Rest == {Throws("error"), Throws("noJob"), fixed, none}
<1>2. TypeOK
    BY DEF IInv
<1>3. <<RowDescription("fixed")>> \in Seq(Plain) /\ <<NoData>> \in Seq(Plain)
    BY MessagesPlain
<1>4. \A o \in Rest : /\ o \in Outcome /\ o.portals = portals /\ o.prepared = prepared
                     /\ o.error # "noSavepoint"
    <2>1. fixed \in Calm /\ none \in Calm
        BY <1>2, <1>3, SendsCalm
    <2>2. /\ fixed.portals = portals /\ fixed.prepared = prepared
          /\ none.portals = portals /\ none.prepared = prepared
          /\ fixed.error # "noSavepoint" /\ none.error # "noSavepoint"
        BY DEF Sends, Stay
    <2>3. /\ Throws("error") \in Outcome /\ Throws("error").error # "noSavepoint"
          /\ Throws("error").portals = portals /\ Throws("error").prepared = prepared
        BY <1>2, ThrowsOutcome DEF Missing
    <2>4. /\ Throws("noJob") \in Outcome /\ Throws("noJob").error # "noSavepoint"
          /\ Throws("noJob").portals = portals /\ Throws("noJob").prepared = prepared
        BY <1>2, ThrowsOutcome DEF Missing
    <2> HIDE DEF fixed, none
    <2> QED BY <2>1, <2>2, <2>3, <2>4, CalmIsOutcome
<1>5. k \in StatementKinds \cup {"none"}
    BY <1>2, ProtocolAssumption DEF TypeOK, ProtocolAssumption
<1>6. \A a \in DescribeOutcomes(k) :
        \/ a = Throws("error")
        \/ \E o \in Rest : a = [o EXCEPT !.sent = <<Message("t", "none")>> \o @]
    BY <1>5 DEF DescribeOutcomes, StatementKinds, Local
<1> HIDE DEF Rest
<1>7. \A a \in DescribeOutcomes(k) : Good("DS", a)
    BY <1>4, <1>6, PrefixGood, ErrorGood
<1> QED BY <1>1, <1>7, NoJobHandled DEF Types, ExtendedMessages

\* A portal that was told a shape which fits the kind of its statement.
LEMMA DescribedGood ==
    ASSUME IInv, NEW p \in PortalNames, Bound(p),
           NEW shape \in Shapes \cup {"fixed", "noData"}, NEW replay \in Kept,
           portals[p].fresh /\ KindOf(p) # "none"
               => Fits(KindOf(p), Retold(p, shape, replay))
    PROVE  Good("DP", DescribedAs(p, shape, replay))
<1> DEFINE ms == <<IF shape = "noData" THEN NoData ELSE RowDescription(shape)>>
           ps == [portals EXCEPT ![p] = Retold(p, shape, replay)]
           o == [Stay EXCEPT !.sent = ms, !.portals = ps]
<1>1. ms \in Seq(Plain)
    BY MessagesPlain
<1>2. portals[p] \in PortalRecords
    BY DEF IInv, TypeOK, Bound
<1>3. Retold(p, shape, replay) \in PortalRecords
    BY <1>2 DEF Retold, PortalRecords, Told, Kept
<1>4. Retold(p, shape, replay).stmt = portals[p].stmt
      /\ Retold(p, shape, replay).fresh = portals[p].fresh
    BY DEF Retold
<1>5. ps \in PortalMap
    BY <1>3 DEF IInv, TypeOK, PortalMap
<1>6. AllFit(prepared, ps)
    BY <1>4 DEF IInv, TypeOK, AllFit, Bound, KindOf
<1>7. \A q \in PortalNames : DanglesIn(prepared, ps, q) => Dangling(q)
    BY <1>4 DEF IInv, TypeOK, DanglesIn, Dangling, Bound
<1>8. Stay \in Calm /\ Stay.prepared = prepared
    BY StayCalm DEF IInv, Calm, OutcomeOf
<1> HIDE DEF ms, ps
<1>9. o \in Calm /\ o.prepared = prepared /\ o.portals = ps
    BY <1>1, <1>5, <1>8 DEF Calm, OutcomeOf
<1>10. Good("DP", o)
    BY <1>6, <1>7, <1>9, CalmIsOutcome DEF Good, NoneLost
<1>11. o = DescribedAs(p, shape, replay)
    BY DEF DescribedAs, ms, ps
<1> QED BY <1>10, <1>11

LEMMA KindOfType ==
    ASSUME TypeOK, NEW p \in PortalNames, Bound(p)
    PROVE  portals[p] \in PortalRecords /\ KindOf(p) \in StatementKinds \cup {"none"}
BY ProtocolAssumption DEF TypeOK, Bound, KindOf, PortalRecords, ProtocolAssumption

LEMMA DescribePortalOK == ASSUME IInv, DescribePortal PROVE StepOK
<1>1. PICK p \in PortalNames :
        LET has == pinned \/ PortalNeedsBackend(p)
        IN Handle("DP", PortalNeedsBackend(p),
             IF ~Bound(p) \/ KindOf(p) \in {"none", "rejected"} THEN {Throws("error")} ELSE
             CASE KindOf(p) \in {"select", "catalog"} /\ ~has ->
                     Failures(KindOf(p), "noJob")
               [] KindOf(p) = "select" /\ has ->
                     {DescribedAs(p, shape, shape) : shape \in Shapes}
                         \cup {DbError("error")}
               [] KindOf(p) = "catalog" /\ has ->
                     {DescribedAs(p, "fixed", "fixed"), Throws("error")}
               [] KindOf(p) = "environment" -> {DescribedAs(p, "fixed", "fixed")}
               [] KindOf(p) = "setting" -> {DescribedAs(p, "noData", "noData")}
               [] KindOf(p) \in {"advisory", "setConfig", "returning"} ->
                     {DescribedAs(p, "fixed", portals[p].replay)}
               [] OTHER -> {DescribedAs(p, "noData", portals[p].replay)})
    BY DEF DescribePortal
<1> DEFINE k == KindOf(p)
           has == pinned \/ PortalNeedsBackend(p)
           outcomes ==
             IF ~Bound(p) \/ k \in {"none", "rejected"} THEN {Throws("error")} ELSE
             CASE k \in {"select", "catalog"} /\ ~has ->
                     Failures(k, "noJob")
               [] k = "select" /\ has ->
                     {DescribedAs(p, shape, shape) : shape \in Shapes}
                         \cup {DbError("error")}
               [] k = "catalog" /\ has ->
                     {DescribedAs(p, "fixed", "fixed"), Throws("error")}
               [] k = "environment" -> {DescribedAs(p, "fixed", "fixed")}
               [] k = "setting" -> {DescribedAs(p, "noData", "noData")}
               [] k \in {"advisory", "setConfig", "returning"} ->
                     {DescribedAs(p, "fixed", portals[p].replay)}
               [] OTHER -> {DescribedAs(p, "noData", portals[p].replay)}
           needs == PortalNeedsBackend(p)
<1>2. Handle("DP", needs, outcomes)
    BY <1>1
<1>3. TypeOK /\ needs \in BOOLEAN
    BY DEF IInv, PortalNeedsBackend
<1> HIDE DEF needs
<1>4. SUFFICES \A a \in outcomes : Good("DP", a)
    BY <1>2, <1>3, HandleGood DEF Types, ExtendedMessages
<1> SUFFICES ASSUME NEW a \in outcomes PROVE Good("DP", a)
    OBVIOUS
<1>5. CASE ~Bound(p) \/ k \in {"none", "rejected"}
    <2>1. a = Throws("error") BY <1>5
    <2> QED BY <2>1, ErrorGood
<1>6. CASE ~(~Bound(p) \/ k \in {"none", "rejected"})
    <2>1. Bound(p) /\ k \in StatementKinds /\ portals[p] \in PortalRecords
        BY <1>3, <1>6, KindOfType
    <2>2. portals[p].fresh => Fits(k, portals[p])
        BY <1>6 DEF IInv, AllFit, Bound, KindOf
    <2>3. portals[p].replay \in Kept
        BY <2>1 DEF PortalRecords, Kept
    <2>4. k \in {"select", "catalog"} => has
        BY <2>1 DEF PortalNeedsBackend, MayReturnRows
    <2> HIDE DEF k, has
    <2>5. CASE k = "select"
        <3>1. a = DbError("error") \/ \E shape \in Shapes : a = DescribedAs(p, shape, shape)
            BY <1>6, <2>4, <2>5
        <3>2. ASSUME NEW shape \in Shapes PROVE Good("DP", DescribedAs(p, shape, shape))
            <4>1. Fits(KindOf(p), Retold(p, shape, shape))
                BY <2>5, ProtocolAssumption DEF Fits, Retold, FixedKinds, k, ProtocolAssumption
            <4> QED BY <2>1, <4>1, DescribedGood DEF Kept
        <3> QED BY <3>1, <3>2, ErrorGood
    <2>6. CASE k \in {"catalog", "environment"}
        <3>1. a = Throws("error") \/ a = DescribedAs(p, "fixed", "fixed")
            BY <1>6, <2>4, <2>6
        <3>2. Fits(KindOf(p), Retold(p, "fixed", "fixed"))
            BY <2>6 DEF Fits, Retold, FixedKinds, k
        <3>3. Good("DP", DescribedAs(p, "fixed", "fixed"))
            BY <2>1, <3>2, DescribedGood DEF Kept
        <3> QED BY <3>1, <3>3, ErrorGood
    <2>7. CASE k \in {"advisory", "setConfig", "returning"}
        <3>1. a = DescribedAs(p, "fixed", portals[p].replay)
            BY <1>6, <2>7
        <3>2. portals[p].fresh => Fits(KindOf(p), Retold(p, "fixed", portals[p].replay))
            BY <2>2, <2>7 DEF Fits, Retold, FixedKinds, k
        <3> QED BY <2>1, <2>3, <3>1, <3>2, DescribedGood
    <2>9. CASE k = "setting"
        <3>1. a = DescribedAs(p, "noData", "noData")
            BY <1>6, <2>9
        <3>2. Fits(KindOf(p), Retold(p, "noData", "noData"))
            BY <2>9 DEF Fits, Retold, FixedKinds, k
        <3> QED BY <2>1, <3>1, <3>2, DescribedGood DEF Kept
    <2>8. CASE k \notin {"select", "catalog", "environment", "setting", "advisory",
                         "setConfig", "returning"}
        <3>1. a = DescribedAs(p, "noData", portals[p].replay)
            BY <1>6, <2>8
        <3>2. portals[p].fresh => Fits(KindOf(p), Retold(p, "noData", portals[p].replay))
            BY <1>6, <2>2, <2>8 DEF Fits, Retold, FixedKinds, k
        <3> QED BY <2>1, <2>3, <3>1, <3>2, DescribedGood
    <2> QED BY <2>5, <2>6, <2>7, <2>8, <2>9
<1> QED BY <1>5, <1>6

\* DEALLOCATE takes the portals of a statement with it.
LEMMA DeallocateGood ==
    ASSUME IInv, NEW n \in Names
    PROVE  /\ AllFit(Deallocate(n).prepared, Deallocate(n).portals)
           /\ NoneLost(Deallocate(n))
<1>1. TypeOK
    BY DEF IInv
<1>2. CASE prepared[n] = "none"
    <2>1. Deallocate(n) = Throws("error")
        BY <1>2 DEF Deallocate
    <2> QED BY <1>1, <2>1, ErrorGood, ThrowsOutcome
                DEF IInv, NoneLost, DanglesIn, Dangling, Bound
<1>3. CASE prepared[n] # "none"
    <2> DEFINE stmts == [prepared EXCEPT ![n] = "none"]
               ps == [p \in PortalNames |->
                        IF Bound(p) /\ portals[p].stmt = n THEN NoPortal ELSE portals[p]]
    <2>1. stmts \in StatementMap /\ ps \in PortalMap
        BY DEF IInv, TypeOK, StatementMap, PortalMap
    <2>2. AllFit(stmts, ps)
        BY DEF IInv, TypeOK, AllFit, Bound, PortalRecords
    <2>3. \A p \in PortalNames : DanglesIn(stmts, ps, p) => Dangling(p)
        BY DEF IInv, TypeOK, DanglesIn, Dangling, Bound, PortalRecords
    <2>4. Deallocate(n) = Forgets(stmts, ps)
        BY <1>3 DEF Deallocate
    <2> HIDE DEF stmts, ps
    <2>5. Deallocate(n).prepared = stmts /\ Deallocate(n).portals = ps
        BY <1>1, <2>1, <2>4, ForgetsCalm
    <2> QED BY <2>2, <2>3, <2>5 DEF NoneLost
<1> QED BY <1>2, <1>3

LEMMA DeallocateAllGood ==
    ASSUME IInv
    PROVE  AllFit(DeallocateAll.prepared, DeallocateAll.portals) /\ NoneLost(DeallocateAll)
<1> DEFINE stmts == [n \in Names |-> "none"]
           ps == [p \in PortalNames |-> NoPortal]
<1>1. stmts \in StatementMap /\ ps \in PortalMap
    BY DEF StatementMap, PortalMap
<1>2. AllFit(stmts, ps) /\ \A p \in PortalNames : ~DanglesIn(stmts, ps, p)
    BY DEF AllFit, DanglesIn
<1>3. DeallocateAll = Forgets(stmts, ps)
    BY DEF DeallocateAll
<1> HIDE DEF stmts, ps
<1>4. DeallocateAll.prepared = stmts /\ DeallocateAll.portals = ps
    BY <1>1, <1>3, ForgetsCalm DEF IInv
<1> QED BY <1>2, <1>4 DEF NoneLost

\* Any statement leaves the prepared statements and portals in order.
LEMMA ExecuteKeeps ==
    ASSUME IInv, NEW k \in StatementKinds, NEW has \in BOOLEAN, NEW w \in BOOLEAN,
           HasItsJob(k, has),
           NEW o \in ExecuteSql(k, has, w)
    PROVE  AllFit(o.prepared, o.portals) /\ NoneLost(o)
<1> DEFINE done == Sends(<<CommandComplete>>)
           failed == Throws("error")
<1>1. TypeOK
    BY DEF IInv
<1>2. ASSUME Same(o) PROVE AllFit(o.prepared, o.portals) /\ NoneLost(o)
    BY <1>2 DEF IInv, NoneLost, DanglesIn, Dangling, Bound, Same
<1>3. done \in Calm /\ failed \in Calm /\ Same(done) /\ Same(failed)
    <2>1. <<CommandComplete>> \in Seq(Plain)
        BY MessagesPlain
    <2> QED BY <1>1, <2>1, SendsCalm, ThrowsOutcome DEF Same
<1>11. CASE k \in ComesFirst
    <2>1. o \in ExecuteFirst(k, has) BY <1>11 DEF ExecuteSql
    <2> QED BY <1>1, <1>2, <1>11, <2>1, FirstOutcomes
<1>4. CASE k \notin ComesFirst /\ tx = "E" /\ k # "end"
    <2>1. o = failed BY <1>4 DEF ExecuteSql, UsesDb2
    <2> QED BY <1>2, <1>3, <2>1
<1>5. CASE k = "begin" /\ tx # "E"
    <2>1. o = [done EXCEPT !.tx = "T"] BY <1>5 DEF ExecuteSql, UsesDb2, ComesFirst
    <2> HIDE DEF done
    <2>2. Same(o) BY <1>3, <2>1 DEF Calm, OutcomeOf, Same
    <2> QED BY <1>2, <2>2
<1>6. CASE k = "end"
    <2>1. o = [done EXCEPT !.tx = "I"] \/ o = failed \/ o = [failed EXCEPT !.tx = "I"]
        BY <1>6 DEF ExecuteSql, UsesDb2, ComesFirst
    <2> HIDE DEF done, failed
    <2>2. Same(o) BY <1>3, <2>1 DEF Calm, OutcomeOf, Same
    <2> QED BY <1>2, <2>2
<1>7. CASE tx # "E" /\ k \in {"deallocate", "deallocateAll"}
    <2>1. o = DeallocateAll \/ \E n \in Names : o = Deallocate(n)
        BY <1>7 DEF ExecuteSql, UsesDb2, ComesFirst
    <2> QED BY <2>1, DeallocateGood, DeallocateAllGood
<1>8. CASE tx # "E" /\ k \in {"environment", "advisory"}
    <2>1. o = Sends(Rows("fixed", w)) BY <1>8 DEF ExecuteSql, UsesDb2, ComesFirst
    <2>2. Same(o) BY <1>1, <2>1, RowsPlain, SendsCalm DEF Same
    <2> QED BY <1>2, <2>2
<1>9. CASE tx # "E" /\ k \in {"rejected", "unsupported", "setting"}
    <2>1. o = failed \/ o = done BY <1>9 DEF ExecuteSql, UsesDb2, ComesFirst
    <2> QED BY <1>2, <1>3, <2>1
<1>10. CASE tx # "E" /\ UsesDb2(k)
    <2>1. has BY <1>10 DEF HasItsJob
    <2>2. \/ o \in Failures(k, "error")
          \/ o = done
          \/ \E shape \in Shapes \cup {"fixed"} : o = Sends(Rows(shape, w))
        BY <1>10, <2>1 DEF ExecuteSql, UsesDb2, ComesFirst
    <2>3. \A f \in Failures(k, "error") : Same(f)
        BY <1>1, FailuresOutcome
    <2>4. \A shape \in Shapes \cup {"fixed"} : Same(Sends(Rows(shape, w)))
        BY <1>1, RowsPlain, SendsCalm DEF Same
    <2> HIDE DEF done
    <2>5. Same(o) BY <1>3, <2>2, <2>3, <2>4
    <2> QED BY <1>2, <2>5
<1> QED
    BY <1>4, <1>5, <1>6, <1>7, <1>8, <1>9, <1>10, <1>11
       DEF StatementKinds, Local, UsesDb2, ComesFirst

\* All that is needed of executeSql.
LEMMA ExecutedOutcome ==
    ASSUME IInv, NEW k \in StatementKinds, NEW has \in BOOLEAN, NEW w \in BOOLEAN,
           HasItsJob(k, has), NEW o \in ExecuteSql(k, has, w)
    PROVE  /\ o \in Outcome /\ Missed(o, has) /\ (Rowless(o) \/ SendsRows(o, k, w))
           /\ k \notin ComesFirst => o \in Calm
           /\ AllFit(o.prepared, o.portals) /\ NoneLost(o)
<1>1. TypeOK
    BY DEF IInv
<1>2. CASE k \in ComesFirst
    <2>1. o \in ExecuteFirst(k, has) BY <1>2 DEF ExecuteSql
    <2> QED BY <1>1, <1>2, <2>1, FirstOutcomes, ExecuteKeeps
<1>3. CASE k \notin ComesFirst
    <2>1. o \in Calm /\ (Rowless(o) \/ SendsRows(o, k, w))
        BY <1>1, <1>3, ExecuteOutcomes
    <2> QED BY <2>1, CalmIsOutcome, CalmIsNotMissed, ExecuteKeeps
<1> QED BY <1>2, <1>3

\* Rows that a portal gets by executing its statement are announced.
LEMMA ExecutedGood ==
    ASSUME IInv, NEW p \in PortalNames, Bound(p), KindOf(p) # "none", ~Replayed(p),
           NEW has \in BOOLEAN, KindOf(p) \in ComesFirst \/ UsesDb2(KindOf(p)) => has,
           NEW o \in ExecuteSql(KindOf(p), has, ~Described(p))
    PROVE  Good("E", o)
<1> DEFINE k == KindOf(p)
           w == ~Described(p)
<1>1. TypeOK
    BY DEF IInv
<1>2. k \in StatementKinds /\ portals[p] \in PortalRecords
    BY <1>1, KindOfType
<1>3. w \in BOOLEAN
    BY DEF Described
<1>4. portals[p].fresh => Fits(k, portals[p])
    BY DEF IInv, AllFit, Bound, KindOf
<1>5. /\ o \in Outcome /\ Covered("E", o.error) /\ (Rowless(o) \/ SendsRows(o, k, w))
      /\ AllFit(o.prepared, o.portals) /\ NoneLost(o)
    <2>0. k \in ComesFirst \/ UsesDb2(k) => has
        OBVIOUS
    <2> HIDE DEF k, w
    <2>1. HasItsJob(k, has)
        BY <2>0 DEF HasItsJob, ComesFirst
    <2>2. o \in ExecuteSql(k, has, w)
        BY DEF k, w
    <2>3. /\ o \in Outcome /\ Missed(o, has) /\ (Rowless(o) \/ SendsRows(o, k, w))
          /\ k \notin ComesFirst => o \in Calm
          /\ AllFit(o.prepared, o.portals) /\ NoneLost(o)
        BY <1>2, <1>3, <2>1, <2>2, ExecutedOutcome
    <2>4. Covered("E", o.error)
        BY <2>0, <2>3, CalmIsOutcome DEF Missed, Covered
    <2> QED BY <2>3, <2>4
<1>6. ASSUME NEW shape \in Shapes \cup {"fixed"}, o = Sends(Rows(shape, w)),
             k \in {"select", "call"} \/ (k \in FixedKinds /\ shape = "fixed")
      PROVE  RowsFit(o)
    <2>1. /\ o.sent = Rows(shape, w) /\ o.error = "none"
          /\ o.portals = portals /\ o.prepared = prepared
        BY <1>1, <1>3, <1>6, RowsPlain, SendsCalm
    <2>2. CASE w
        BY <1>3, <2>1, <2>2 DEF RowsFit, Announced
    <2>3. CASE ~w /\ ~portals[p].fresh
        BY <1>3, <2>1, <2>3 DEF RowsFit, Announced, Bound
    <2>4. CASE ~w /\ portals[p].fresh
        <3>1. portals[p].told # "nothing" /\ portals[p].replay = "none"
            BY <2>4 DEF Described, Replayed
        <3>2. portals[p].told # "none"
            BY <1>2, ProtocolAssumption DEF PortalRecords, Told, ProtocolAssumption
        <3>3. \/ portals[p].told = shape
              \/ portals[p].told = "noData" /\ k = "call"
            BY <1>4, <1>6, <2>4, <3>1, <3>2 DEF Fits, FixedKinds
        <3>4. Announced(o, shape, w)
            BY <2>1, <3>3 DEF Announced, Bound, KindOf
        <3> QED BY <1>3, <2>1, <3>4 DEF RowsFit
    <2> QED BY <2>2, <2>3, <2>4
<1>7. RowsFit(o)
    BY <1>5, <1>6 DEF SendsRows, RowsFit
<1> QED BY <1>5, <1>7, CalmIsOutcome DEF Good

\* Rows that were kept by the Describe of a portal are those it told.
LEMMA ReplayedGood ==
    ASSUME IInv, NEW p \in PortalNames, Bound(p), KindOf(p) # "none", Replayed(p)
    PROVE  Good("E", Sends(Replay(portals[p].replay, ~Described(p))))
<1> DEFINE shape == portals[p].replay
           w == ~Described(p)
           o == Sends(Replay(shape, w))
<1>1. TypeOK
    BY DEF IInv
<1>2. portals[p] \in PortalRecords
    BY <1>1, KindOfType
<1>3. shape \in Shapes \cup {"fixed", "noData"} /\ w \in BOOLEAN
    BY <1>2 DEF PortalRecords, Kept, Replayed, Described
<1>4. CASE shape = "noData"
    <2>1. o = Sends(<<CommandComplete>>)
        BY <1>4 DEF Replay
    <2>2. o.portals = portals /\ o.prepared = prepared
        BY <2>1 DEF Sends, Stay
    <2> HIDE DEF o
    <2>3. Good("E", o)
        BY <1>1, <2>1, <2>2, CompleteCalm, SameGood
    <2> QED BY <2>3 DEF o
<1>5. CASE shape # "noData"
    <2>1. shape \in Shapes \cup {"fixed"} /\ o = Sends(Rows(shape, w))
        BY <1>3, <1>5 DEF Replay
    <2>2. /\ o \in Calm /\ o.sent = Rows(shape, w) /\ o.error = "none"
          /\ o.portals = portals /\ o.prepared = prepared
        <3> HIDE DEF shape, w, o
        <3> QED BY <1>1, <1>3, <2>1, RowsPlain, SendsCalm
    <2>3. portals[p].fresh => Fits(KindOf(p), portals[p])
        BY DEF IInv, AllFit, Bound, KindOf
    <2>4. w \/ portals[p].told = shape \/ ~portals[p].fresh
        BY <2>3 DEF Fits, Described, Replayed
    <2>5. Announced(o, shape, w)
        BY <2>2, <2>4 DEF Announced, Bound
    <2>6. RowsFit(o)
        BY <1>3, <2>1, <2>2, <2>5 DEF RowsFit
    <2> HIDE DEF o
    <2>7. Good("E", o)
        BY <2>2, <2>6, CalmIsOutcome DEF Good, IInv, NoneLost, DanglesIn, Dangling, Bound
    <2> QED BY <2>7 DEF o
<1> QED BY <1>4, <1>5

LEMMA ExecutePortalOK == ASSUME IInv, ExecutePortal PROVE StepOK
<1>1. PICK p \in PortalNames :
        Handle("E", ExecuteNeedsBackend(p),
               RunPortal(p, pinned \/ ExecuteNeedsBackend(p)))
    BY DEF ExecutePortal
<1> DEFINE needs == ExecuteNeedsBackend(p)
           has == pinned \/ needs
<1>2. needs \in BOOLEAN /\ has \in BOOLEAN
    BY DEF IInv, TypeOK, ExecuteNeedsBackend
<1>3. Bound(p) /\ KindOf(p) # "none" /\ ~Replayed(p)
          /\ (KindOf(p) \in ComesFirst \/ UsesDb2(KindOf(p))) => has
    BY DEF ExecuteNeedsBackend, UsesDb2, ComesFirst
<1> HIDE DEF needs, has
<1>4. \A o \in RunPortal(p, has) : Good("E", o)
    <2> TAKE o \in RunPortal(p, has)
    <2>1. CASE ~Bound(p) \/ KindOf(p) = "none"
        <3>1. o = Throws("error") BY <2>1 DEF RunPortal
        <3> QED BY <3>1, ErrorGood
    <2>2. CASE Bound(p) /\ KindOf(p) # "none" /\ Replayed(p)
        <3>1. o = Sends(Replay(portals[p].replay, ~Described(p))) BY <2>2 DEF RunPortal
        <3> QED BY <2>2, <3>1, ReplayedGood
    <2>3. CASE Bound(p) /\ KindOf(p) # "none" /\ ~Replayed(p)
        <3>1. o \in ExecuteSql(KindOf(p), has, ~Described(p)) BY <2>3 DEF RunPortal
        <3> QED BY <1>2, <1>3, <2>3, <3>1, ExecutedGood
    <2> QED BY <2>1, <2>2, <2>3
<1>5. Handle("E", needs, RunPortal(p, has))
    BY <1>1 DEF needs, has
<1> QED BY <1>2, <1>4, <1>5, HandleGood DEF Types, ExtendedMessages

\* An outcome that changed nothing the properties speak of but the transaction.
LEMMA QueryGood ==
    ASSUME IInv, NEW o \in Outcome, Same(o), NEW type \in Queries, Covered(type, o.error)
    PROVE  Good(type, o)
BY DEF Good, IInv, NoneLost, DanglesIn, Dangling, Bound, Same, Queries

LEMMA PartlyGood ==
    ASSUME IInv, NEW errors, \A e \in errors : e \in Outcome /\ Same(e)
                                              /\ Covered("batch", e.error),
           NEW o \in Partly(errors)
    PROVE  Good("batch", o)
<1>1. <<CommandComplete>> \in Seq(Plain)
    BY MessagesPlain
<1>2. CASE o \in errors
    BY <1>2, QueryGood DEF Queries
<1>3. ASSUME NEW e \in errors, o = [e EXCEPT !.sent = <<CommandComplete>>]
      PROVE  Good("batch", o)
    <2>1. e \in Outcome /\ Same(e) /\ Covered("batch", e.error)
        OBVIOUS
    <2>2. o \in Outcome /\ Same(o) /\ o.error = e.error
        BY <1>1, <1>3, <2>1 DEF Outcome, OutcomeOf, Same
    <2> QED BY <2>1, <2>2, QueryGood DEF Queries
<1> QED BY <1>2, <1>3 DEF Partly

LEMMA BatchGood ==
    ASSUME IInv, NEW k \in Batches, NEW has \in BOOLEAN, has \/ tx = "E", pinned => has,
           NEW o \in ExecuteBatch(k, has)
    PROVE  Good("batch", o)
<1> DEFINE refused == {Throws("error")}
           failed == {Throws("error"), DbError("error")}
           missed == {Throws("error"), DbError("noJob")}
<1>1. TypeOK
    BY DEF IInv
<1>2. \A e \in failed : e \in Outcome /\ Same(e) /\ Covered("batch", e.error)
    BY <1>1, ThrowsOutcome, DbErrorOutcome, CalmIsOutcome DEF Same
<1>3. ~has => \A e \in missed : e \in Outcome /\ Same(e) /\ Covered("batch", e.error)
    BY <1>1, ThrowsOutcome, DbErrorOutcome, CalmIsOutcome
       DEF Same, Covered, Missing, Queries
<1>4. CASE o \in Partly(refused) \/ o \in Partly(failed)
    <2>1. \A e \in refused : e \in Outcome /\ Same(e) /\ Covered("batch", e.error)
        BY <1>2
    <2> HIDE DEF refused, failed
    <2> QED BY <1>2, <1>4, <2>1, PartlyGood
<1>5. CASE ~has /\ o \in Partly(missed)
    <2> HIDE DEF missed
    <2> QED BY <1>3, <1>5, PartlyGood
<1>6. CASE o = AllDone
    <2>1. <<CommandComplete, CommandComplete>> \in Seq(Plain)
        BY MessagesPlain
    <2>2. o \in Calm /\ Same(o)
        BY <1>1, <1>6, <2>1, SendsCalm DEF AllDone, Same
    <2> QED BY <2>2, CalmIsOutcome, QueryGood DEF Queries
<1>7. CASE o = Sends(Rows("fixed", TRUE) \o Rows("fixed", TRUE))
    <2>1. Rows("fixed", TRUE) \in Seq(Plain)
        BY RowsPlain
    <2>2. Rows("fixed", TRUE) \o Rows("fixed", TRUE) \in Seq(Plain)
        BY <2>1, ConcatProperties
    <2>3. o \in Calm /\ Same(o)
        BY <1>1, <1>7, <2>2, SendsCalm DEF Same
    <2> QED BY <2>3, CalmIsOutcome, QueryGood DEF Queries
<1>8. CASE ~has /\ o = Throws("noJob")
    <2>1. o \in Outcome /\ Same(o) /\ o.error = "noJob"
        BY <1>1, <1>8, ThrowsOutcome DEF Same, Missing
    <2>2. Covered("batch", o.error)
        BY <1>8, <2>1 DEF Covered, Queries
    <2> QED BY <2>1, <2>2, QueryGood DEF Queries
<1>9. CASE o = Throws("error")
    BY <1>9, ErrorGood
<1>10. ASSUME NEW f \in TakenFor, o \in ExecuteSql(f, has, TRUE)
       PROVE  Good("batch", o)
    <2>1. HasItsJob(f, has) /\ f \in StatementKinds /\ f \notin ComesFirst
        BY DEF HasItsJob, UsesDb2, StatementKinds, Local, ComesFirst, TakenFor
    <2>2. o \in Calm /\ AllFit(o.prepared, o.portals) /\ NoneLost(o)
        BY <1>10, <2>1, ExecutedOutcome
    <2> QED BY <2>2, CalmIsOutcome DEF Good
<1>11. \/ o \in Partly(refused) \/ o \in Partly(failed) \/ o = AllDone
       \/ ~has /\ o \in Partly(missed)
       \/ (~has /\ o = Throws("noJob")) \/ o = Throws("error")
       \/ o = Sends(Rows("fixed", TRUE) \o Rows("fixed", TRUE))
       \/ \E f \in TakenFor : o \in ExecuteSql(f, has, TRUE)
    <2> HIDE DEF refused, failed, missed
    <2>1. CASE k = "tables"
        BY <2>1 DEF ExecuteBatch, refused, failed
    <2>2. CASE k = "schemas"
        BY <2>2 DEF ExecuteBatch, missed, failed
    <2>3. CASE k = "catalogs"
        BY <2>3 DEF ExecuteBatch
    <2>4. CASE k = "others"
        BY <2>4 DEF ExecuteBatch
    <2> QED BY <2>1, <2>2, <2>3, <2>4 DEF Batches
<1> QED BY <1>4, <1>5, <1>6, <1>7, <1>8, <1>9, <1>10, <1>11

LEMMA SimpleQueryOK == ASSUME IInv, SimpleQuery PROVE StepOK
<1> DEFINE needs(k) == QueryNeedsBackend(k)
           has(k) == pinned \/ needs(k)
           type(k) == IF k \in Batches THEN "batch" ELSE "Q"
           empty == Sends(<<Message("I", "none")>>)
           outcomes(k) == CASE k = "empty" -> {empty}
                            [] k \in Batches -> ExecuteBatch(k, has(k))
                            [] OTHER -> ExecuteSql(k, has(k), TRUE)
<1>1. PICK k \in QueryKinds : Handle(type(k), needs(k), outcomes(k))
    BY DEF SimpleQuery
<1>2. TypeOK /\ k \in StatementKinds \cup Batches \cup {"empty"}
    BY ProtocolAssumption DEF IInv, ProtocolAssumption
<1>3. needs(k) \in BOOLEAN /\ has(k) \in BOOLEAN /\ (pinned => has(k))
    BY <1>2 DEF TypeOK, QueryNeedsBackend
<1>4. k \in StatementKinds => HasItsJob(k, has(k))
    BY <1>2 DEF QueryNeedsBackend, UsesDb2, Local, HasItsJob
<1>5. k \in Batches => has(k) \/ tx = "E"
    BY DEF QueryNeedsBackend, Batches, Local
<1>6. type(k) \in Types /\ type(k) \in Queries /\ (k \in Batches => type(k) = "batch")
    BY DEF Types, Queries
<1> HIDE DEF needs, has, type
<1>7. \A o \in outcomes(k) : Good(type(k), o)
    <2> TAKE o \in outcomes(k)
    <2>1. CASE k = "empty"
        <3>1. o = empty
            <4>1. k \notin Batches
                BY <2>1 DEF Batches
            <4> QED BY <2>1, <4>1
        <3>2. empty \in Calm /\ Same(empty)
            BY <1>2, PlainMessages, SendsCalm DEF Same
        <3> HIDE DEF empty
        <3> QED BY <1>6, <3>1, <3>2, CalmIsOutcome, QueryGood
    <2>2. CASE k \in Batches
        <3>1. k # "empty"
            BY <2>2 DEF Batches
        <3>2. o \in ExecuteBatch(k, has(k))
            BY <2>2, <3>1
        <3> QED BY <1>3, <1>5, <1>6, <2>2, <3>2, BatchGood
    <2>3. CASE k \notin Batches \cup {"empty"}
        <3>1. o \in ExecuteSql(k, has(k), TRUE) /\ k \in StatementKinds
            BY <1>2, <2>3
        <3>2. /\ o \in Outcome /\ Missed(o, has(k))
              /\ AllFit(o.prepared, o.portals) /\ NoneLost(o)
            BY <1>3, <1>4, <3>1, ExecutedOutcome
        <3>3. Covered(type(k), o.error)
            BY <1>3, <1>6, <3>2 DEF Covered, Missed
        <3> QED BY <1>6, <3>2, <3>3 DEF Good, Queries
    <2> QED BY <2>1, <2>2, <2>3
<1> HIDE DEF outcomes
<1> QED BY <1>1, <1>3, <1>6, <1>7, HandleGood
-----------------------------------------------------------------------------
(* The steps of a connection.                                              *)

\* A step that handles nothing and sends nothing, or that a frame is bad.
LEMMA SilentOK ==
    ASSUME IInv, TypeOK', UNCHANGED <<prepared, portals>>,
           last' \in {"none", "skipped", "ignored", "framing", "X"},
           out' = <<>> \/ out' = <<ErrorResponse("error")>>
    PROVE  StepOK
<1>1. /\ Len(out') \in {0, 1}
      /\ \A i \in 1 .. Len(out') : out'[i].type # "Z" /\ out'[i].info \notin Missing
    BY DEF ErrorResponse, Message, Missing
<1>2. OneReadyPerRequest' /\ Leased /\ RowsMatchDescription'
    BY <1>1 DEF OneReadyPerRequest, Readies, Leased, Covered, Missing, Queries,
                RowsMatchDescription
<1>3. \A p \in PortalNames : Dangling(p)' => Dangling(p)
    BY DEF Dangling, Bound
<1>4. IInv'
    BY DEF IInv, AllFit
<1> QED BY <1>2, <1>3, <1>4 DEF StepOK

LEMMA SyncOK == ASSUME IInv, Sync PROVE StepOK
<1>1. /\ last' = "S" /\ out' = <<ReadyForQuery>> /\ extendedError' = FALSE
      /\ prepared' = prepared /\ portals' = portals /\ tx' = tx
      /\ pinned' = pinned /\ closed' = closed
    BY DEF Sync
<1>2. ReadyForQuery \in Sent /\ ReadyForQuery.type = "Z" /\ ReadyForQuery.info = "none"
    BY DEF ReadyForQuery, Message, Sent
<1>3. out' \in Seq(Sent) /\ Len(out') = 1 /\ out'[1] = ReadyForQuery
    BY <1>1, <1>2
<1>4. TypeOK'
    BY <1>1, <1>3 DEF IInv, TypeOK, Handled
<1>5. IInv'
    BY <1>1, <1>4 DEF IInv, AllFit
<1>6. Readies(out') = {1}
    BY <1>2, <1>3 DEF Readies
<1>7. OneReadyPerRequest'
    BY <1>1, <1>3, <1>6 DEF OneReadyPerRequest, Readies
<1>8. Leased /\ RowsMatchDescription'
    BY <1>1, <1>2, <1>3 DEF Leased, Covered, RowsMatchDescription
<1>9. \A p \in PortalNames : Dangling(p)' => Dangling(p)
    BY <1>1 DEF Dangling, Bound
<1> QED BY <1>5, <1>7, <1>8, <1>9 DEF StepOK

LEMMA QuietlyOK ==
    ASSUME IInv, NEW why \in {"skipped", "ignored"}, Quietly(why)
    PROVE  StepOK
<1>1. out' = <<>> /\ out' \in Seq(Sent)
    BY DEF Quietly
<1>2. TypeOK'
    BY <1>1 DEF IInv, TypeOK, Quietly
<1> QED BY <1>1, <1>2, SilentOK DEF Quietly

LEMMA ShutOK ==
    ASSUME IInv, NEW type \in {"X", "none"}, Shut(type)
    PROVE  StepOK
<1>1. out' = <<>> /\ out' \in Seq(Sent)
    BY DEF Shut
<1>2. TypeOK'
    BY <1>1 DEF IInv, TypeOK, Shut, Handled
<1> QED BY <1>1, <1>2, SilentOK DEF Shut

LEMMA HandleMessageOK == ASSUME IInv, NEW type, HandleMessage(type) PROVE StepOK
<1>1. CASE Quietly("skipped") \/ Quietly("ignored")
    BY <1>1, QuietlyOK
<1>2. CASE SimpleQuery
    BY <1>2, SimpleQueryOK
<1>3. CASE Extended
    BY <1>3, ParseOK, BindOK, DescribeStatementOK, DescribePortalOK, ExecutePortalOK,
       CloseOK, GarbledOK, FlushOK, UnsupportedOK DEF Extended
<1>4. CASE Sync
    BY <1>4, SyncOK
<1>5. CASE Shut("X")
    BY <1>5, ShutOK
<1>6. CASE Unsupported
    BY <1>6, UnsupportedOK
<1> QED BY <1>1, <1>2, <1>3, <1>4, <1>5, <1>6 DEF HandleMessage

LEMMA ReadOK ==
    ASSUME IInv, Idle,
           \/ Read
           \/ last' = "framing" /\ out' = <<ErrorResponse("error")>>
    PROVE  StepOK
<1>1. ErrorResponse("error") \in Sent
    BY DEF ErrorResponse, Message, Sent
<1>2. (out' = <<>> \/ out' = <<ErrorResponse("error")>>) /\ last' \in {"none", "framing"}
    BY DEF Read
<1>3. out' \in Seq(Sent)
    <2> DEFINE e == ErrorResponse("error")
    <2>1. e \in Sent /\ (out' = <<>> \/ out' = <<e>>)
        BY <1>1, <1>2
    <2> HIDE DEF e
    <2>2. <<>> \in Seq(Sent) /\ <<e>> \in Seq(Sent)
        BY <2>1
    <2> QED BY <2>1, <2>2
<1>4. TypeOK'
    BY <1>2, <1>3 DEF IInv, TypeOK, Idle
<1> QED BY <1>2, <1>4, SilentOK DEF Idle

LEMMA ConnectOK == ASSUME IInv, Connect PROVE StepOK
<1>1. /\ prepared' = [n \in Names |-> "none"]
      /\ portals' = [p \in PortalNames |-> NoPortal]
      /\ last' = "none" /\ out' = <<>>
    BY DEF Connect
<1>2. out' \in Seq(Sent) /\ Len(out') = 0
    BY <1>1
<1>3. TypeOK'
    BY <1>1, <1>2 DEF Connect, TypeOK
<1>4. IInv' /\ \A p \in PortalNames : ~Dangling(p)'
    BY <1>1, <1>3 DEF IInv, AllFit, Dangling, Bound
<1>5. OneReadyPerRequest' /\ Leased /\ RowsMatchDescription'
    BY <1>1, <1>2 DEF OneReadyPerRequest, Readies, Leased, RowsMatchDescription, Queries
<1> QED BY <1>4, <1>5 DEF StepOK

LEMMA EveryStepOK == ASSUME IInv, Next PROVE StepOK
<1>1. ASSUME NEW f \in Frames, Write(f) PROVE StepOK
    BY <1>1, ReadOK DEF Write
<1>2. ASSUME NEW n \in 1 .. Len(wire), Receive(n) PROVE StepOK
    BY <1>2, ReadOK DEF Receive
<1>3. CASE Dispatch
    BY <1>3, HandleMessageOK DEF Dispatch
<1>4. CASE Disconnect
    BY <1>4, ShutOK DEF Disconnect
<1>5. CASE Connect
    BY <1>5, ConnectOK
<1> QED BY <1>1, <1>2, <1>3, <1>4, <1>5 DEF Next, ReceiveSome

\* What holds in every state: the inductive invariant and what every step ensures.
Inv == IInv /\ OneReadyPerRequest /\ RowsMatchDescription

LEMMA InitInv == Init => Inv
<1> SUFFICES ASSUME Init PROVE Inv
    OBVIOUS
<1>1. out = <<>> /\ Len(out) = 0 /\ out \in Seq(Sent) /\ last = "none"
    BY DEF Init, InitSession
<1>2. TypeOK
    BY <1>1 DEF Init, InitSession, TypeOK
<1>3. IInv
    BY <1>2 DEF Init, InitSession, IInv, AllFit
<1>4. OneReadyPerRequest /\ RowsMatchDescription
    BY <1>1 DEF OneReadyPerRequest, Readies, RowsMatchDescription, Queries
<1> QED BY <1>3, <1>4 DEF Inv

LEMMA NextInv == Inv /\ [Next]_vars => Inv'
<1> SUFFICES ASSUME Inv, [Next]_vars PROVE Inv'
    OBVIOUS
<1>1. CASE Next
    BY <1>1, EveryStepOK DEF Inv, StepOK
<1>2. CASE UNCHANGED vars
    BY <1>2 DEF vars, Inv, IInv, TypeOK, AllFit, OneReadyPerRequest, Readies,
                RowsMatchDescription, Bound, KindOf
<1> QED BY <1>1, <1>2

LEMMA AlwaysInv == Spec => []Inv
<1> QED BY InitInv, NextInv, PTL DEF Spec

\* The maps, the transaction status and the reply are always of their types:
\* whatever the client sends, in whatever order, every portal names a statement.
THEOREM HandlersTypeCorrect == Spec => []TypeOK
<1>1. Inv => TypeOK
    BY DEF Inv, IInv
<1> QED BY <1>1, AlwaysInv, PTL

\* Exactly one ReadyForQuery, and last, for Query and Sync, and none otherwise
\* (handleRaw, handleMessage), however a handler or a checkout fails.
THEOREM OneReadyPerRequestHolds == Spec => []OneReadyPerRequest
<1>1. Inv => OneReadyPerRequest
    BY DEF Inv
<1> QED BY <1>1, AlwaysInv, PTL

\* frontendMessageNeedsBackend and queryNeedsBackend check out a job for every message
\* whose handler asks for one, but for the Describe of a prepared statement and for a
\* Query in a transaction that never had a job: a ROLLBACK TO, and what executeSql and
\* simpleQuery do before they look whether the transaction has failed.
THEOREM LeasesCoverEveryHandler == Spec => LeasesCoverHandlers
<1> DEFINE A == \A i \in 1 .. Len(out') :
                  /\ out'[i].info = "noJob" =>
                        last' = "DS" \/ (last' \in Queries /\ tx = "E" /\ ~pinned)
                  /\ out'[i].info = "noSavepoint" =>
                        last' \in Queries /\ tx # "I" /\ ~pinned
<1>1. Inv /\ [Next]_vars => [A]_handlers
    <2> SUFFICES ASSUME Inv, [Next]_vars PROVE [A]_handlers
        OBVIOUS
    <2>1. CASE Next
        BY <2>1, EveryStepOK DEF Inv, StepOK, Leased, Covered
    <2>2. CASE UNCHANGED vars
        BY <2>2 DEF vars, handlers
    <2> QED BY <2>1, <2>2
<1> QED BY <1>1, AlwaysInv, PTL DEF Spec, LeasesCoverHandlers

\* Execute sends the rows that were described, through describe's and
\* executePortal's handling of descriptionSent and of the kept results.
THEOREM RowsMatchDescriptionHolds == Spec => []RowsMatchDescription
<1>1. Inv => RowsMatchDescription
    BY DEF Inv
<1> QED BY <1>1, AlwaysInv, PTL

\* DEALLOCATE, Parse and Bind leave no portal without its statement.
THEOREM OnlyCloseDanglesHolds == Spec => OnlyCloseDangles
<1> DEFINE A == \A p \in PortalNames : Dangling(p)' => Dangling(p) \/ last' = "C"
<1>1. Inv /\ [Next]_vars => [A]_handlers
    <2> SUFFICES ASSUME Inv, [Next]_vars PROVE [A]_handlers
        OBVIOUS
    <2>1. CASE Next
        BY <2>1, EveryStepOK DEF Inv, StepOK
    <2>2. CASE UNCHANGED vars
        BY <2>2 DEF vars, handlers
    <2> QED BY <2>1, <2>2
<1> QED BY <1>1, AlwaysInv, PTL DEF Spec, OnlyCloseDangles
=============================================================================
