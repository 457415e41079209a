------------------------ MODULE GrantExecutionProofs ------------------------
(***************************************************************************)
(* GrantExecution for any number of request threads, pool slots and        *)
(* catalogs: the pool never loses or shares a slot, a GRANT takes effect   *)
(* in the catalog it was asked for, and grant_log tells the truth.         *)
(*                                                                         *)
(* Why a GRANT lands in its target rests on the pool: nobody else may move *)
(* the session between SET CATALOG and GRANT.  Why an "error" row is true  *)
(* rests on the connection: if StarRocks applied a statement whose answer  *)
(* was lost, the connection that would carry the row is gone as well.      *)
(***************************************************************************)
EXTENDS GrantExecution, TLAPS

Holding == {"ping", "reset", "build", "setCatalog", "grant", "query", "auditOk", "auditError"}

(* Who uses which connection.                                              *)
Ownership ==
  /\ \A t \in Threads : pc[t] # "idle" => req[t] \in Requests
  /\ \A t \in Threads : pc[t] \in Holding => conn[t] \in Conns
  /\ \A t \in Threads : pc[t] = "ping" => conn[t] \in Slots
  /\ \A t \in Threads : pc[t] \in {"idle", "borrow", "direct"} => conn[t] = None
  /\ \A t \in Threads : conn[t] \in Threads => conn[t] = t
  /\ \A t \in Threads : conn[t] \notin free
  /\ \A t, u \in Threads : conn[t] = conn[u] /\ conn[t] # None => t = u
  /\ \A s \in Slots : s \in free \/ \E t \in Threads : conn[t] = s

(* After its SET CATALOG a live session is in the requested catalog.       *)
Pinned(t) ==
  /\ pc[t] = "setCatalog" => req[t].kind \in {"object", "list"}
  /\ pc[t] \in {"grant", "auditOk", "auditError"} => req[t].kind \in {"object", "plain"}
  /\ pc[t] = "query" => req[t].kind = "list"
  /\ pc[t] \in {"grant", "query"} /\ req[t].kind # "plain" =>
       Session(t) \in {req[t].catalog, Broken}

(* What a thread has done so far.                                          *)
Progress(t) ==
  /\ pc[t] \in {"borrow", "direct"} \cup Holding =>
       row[t] = None /\ answer[t] = None /\ listed[t] = None
  /\ pc[t] \in {"borrow", "direct"} \cup (Holding \ {"auditOk", "auditError"}) =>
       landed[t] = None
  /\ pc[t] = "return" => answer[t] # None
  /\ pc[t] = "idle" => req[t] = None \/ answer[t] # None
  /\ pc[t] = "auditOk" => landed[t] # None
  /\ pc[t] = "auditError" /\ landed[t] # None => Session(t) = Broken

(* What the thread's properties say of one thread.                         *)
Truthful(t) ==
  /\ landed[t] # None => landed[t] = req[t].catalog
  /\ listed[t] # None => listed[t] = req[t].catalog
  /\ row[t] = "ok" => landed[t] # None
  /\ row[t] = "error" => landed[t] = None
  /\ answer[t] # None /\ answer[t].audit => row[t] = answer[t].result

ThreadInv(t) == Pinned(t) /\ Progress(t) /\ Truthful(t)

IInv ==
  /\ TypeOK
  /\ Ownership
  /\ \A t \in Threads : ThreadInv(t)

-----------------------------------------------------------------------------
LEMMA TypeInit == Init => TypeOK
  BY ConstantsAssumption DEF Init, TypeOK, Conns

LEMMA Replied ==
  ASSUME TypeOK, NEW t \in Threads, NEW result \in {"ok", "error"}, NEW audit \in BOOLEAN,
         Reply(t, result, audit)
  PROVE  answer' \in [Threads -> Answer \cup {None}]
  BY DEF Reply, TypeOK, Answer

LEMMA Broke ==
  ASSUME TypeOK, NEW t \in Threads, Breaks(t)
  PROVE  session' \in [Conns -> Catalogs \cup {Broken}]
  BY DEF Breaks, SetSession, TypeOK

(* Every step keeps the types, given that a thread that uses a connection  *)
(* has one.                                                                *)
LEMMA TypeStep == TypeOK /\ Ownership /\ [Next]_vars => TypeOK'
<1> SUFFICES ASSUME TypeOK, Ownership, [Next]_vars PROVE TypeOK'
  OBVIOUS
<1> USE ConstantsAssumption DEF TypeOK, Conns, Goto, SetSession, outcome
<1>1. ASSUME NEW t \in Threads, NEW q \in Requests, Start(t, q) PROVE TypeOK'
  BY <1>1 DEF Start
<1>2. ASSUME NEW c \in Conns, Break(c) PROVE TypeOK'
  BY <1>2 DEF Break
<1>3. ASSUME NEW t \in Threads, Step(t) PROVE TypeOK'
  <2>1. CASE Borrow(t)
    BY <2>1 DEF Borrow
  <2>2. CASE PoolUnavailable(t)
    BY <2>2 DEF PoolUnavailable
  <2>14. CASE ConnectFails(t)
    BY <2>14, Replied DEF ConnectFails
  <2>15. CASE Build(t)
    BY <2>15, Replied DEF Build
  <2>3. CASE Ping(t)
    BY <2>3 DEF Ping, Alive, Session, Ownership, Holding
  <2>4. CASE PingFails(t)
    BY <2>4, Broke DEF PingFails, Ownership
  <2>5. CASE Connect(t)
    BY <2>5 DEF Connect
  <2>6. CASE Reset(t)
    BY <2>6, Broke DEF Reset
  <2>7. CASE SetCatalog(t)
    <3>1. req[t].catalog \in Catalogs
      BY <2>7 DEF SetCatalog, Ownership, Requests
    <3> QED BY <2>7, <3>1 DEF SetCatalog
  <2>8. CASE SetCatalogFails(t)
    BY <2>8, Broke, Replied DEF SetCatalogFails
  <2>9. CASE Grant(t)
    <3>1. Session(t) \in Catalogs
      BY <2>9 DEF Grant, Alive, Session, Ownership, Holding
    <3> QED BY <2>9, <3>1 DEF Grant, Land
  <2>10. CASE GrantFails(t)
    <3>1. Alive(t) => Session(t) \in Catalogs
      BY <2>10 DEF GrantFails, Alive, Session, Ownership, Holding
    <3> QED BY <2>10, <3>1, Broke DEF GrantFails, Land
  <2>11. CASE Audit(t)
    BY <2>11, Replied DEF Audit, Result
  <2>16. CASE AuditFails(t)
    BY <2>16, Replied, Broke DEF AuditFails, Result
  <2>12. CASE Query(t)
    <3>1. Alive(t) => Session(t) \in Catalogs
      BY <2>12 DEF Query, Alive, Session, Ownership, Holding
    <3>2. answer' \in [Threads -> Answer \cup {None}]
      BY <2>12, Replied DEF Query
    <3>3. session' \in [Conns -> Catalogs \cup {Broken}]
      <4>1. session' = session \/ Breaks(t)
        BY <2>12 DEF Query
      <4> QED BY <4>1, Broke
    <3>4. listed' \in [Threads -> Catalogs \cup {None}]
      <4>1. listed' = listed \/ (Alive(t) /\ listed' = [listed EXCEPT ![t] = Session(t)])
        BY <2>12 DEF Query
      <4> QED BY <3>1, <4>1
    <3> QED BY <2>12, <3>2, <3>3, <3>4 DEF Query
  <2>13. CASE Return(t)
    BY <2>13 DEF Return
  <2> QED BY <1>3, <2>1, <2>2, <2>3, <2>4, <2>5, <2>6, <2>7, <2>8, <2>9, <2>10, <2>11,
             <2>12, <2>13, <2>14, <2>15, <2>16 DEF Step
<1>4. CASE UNCHANGED vars
  BY <1>4 DEF vars
<1> QED BY <1>1, <1>2, <1>3, <1>4 DEF Next

LEMMA OwnershipInit == Init => Ownership
  BY ConstantsAssumption DEF Init, Ownership, Holding

(* A step that moves on with the connection the thread has.                *)
LEMMA KeepsConnection ==
  ASSUME TypeOK, Ownership, NEW t \in Threads, NEW place, pc[t] # "idle",
         Goto(t, place), UNCHANGED <<free, req, conn>>,
         \/ pc[t] \in Holding /\ place \in Holding \cup {"return"} /\ place # "ping"
         \/ pc[t] \in {"borrow", "direct"} /\ place \in {"direct", "return"}
  PROVE  Ownership'
  BY DEF TypeOK, Ownership, Holding, Goto

(* The pool's protocol: what a thread takes is out of the queue, what it   *)
(* puts back it no longer uses.                                            *)
LEMMA OwnershipStep == TypeOK /\ Ownership /\ [Next]_vars => Ownership'
<1> SUFFICES ASSUME TypeOK, Ownership, [Next]_vars PROVE Ownership'
  OBVIOUS
<1> USE ConstantsAssumption DEF TypeOK, Ownership, Holding, Conns, Goto, outcome
<1>1. ASSUME NEW t \in Threads, NEW q \in Requests, Start(t, q) PROVE Ownership'
  BY <1>1 DEF Start
<1>2. ASSUME NEW t \in Threads, Borrow(t) PROVE Ownership'
  BY <1>2 DEF Borrow
<1>3. ASSUME NEW t \in Threads, PingFails(t) PROVE Ownership'
  BY <1>3 DEF PingFails
<1>4. ASSUME NEW t \in Threads, Connect(t) PROVE Ownership'
  BY <1>4 DEF Connect
<1>5. ASSUME NEW t \in Threads, Return(t) PROVE Ownership'
  BY <1>5 DEF Return
<1>6. ASSUME NEW t \in Threads, PoolUnavailable(t) PROVE Ownership'
  BY <1>6, KeepsConnection DEF PoolUnavailable
<1>7. ASSUME NEW t \in Threads, Ping(t) PROVE Ownership'
  BY <1>7, KeepsConnection DEF Ping
<1>8. ASSUME NEW t \in Threads, Reset(t) PROVE Ownership'
  BY <1>8, KeepsConnection DEF Reset
<1>9. ASSUME NEW t \in Threads, ConnectFails(t) PROVE Ownership'
  BY <1>9, KeepsConnection DEF ConnectFails
<1>10. ASSUME NEW t \in Threads, Build(t) PROVE Ownership'
  <2>1. PICK place \in {"return", "grant", "setCatalog"} : pc' = [pc EXCEPT ![t] = place]
    BY <1>10 DEF Build
  <2> QED BY <1>10, <2>1, KeepsConnection DEF Build
<1>11. ASSUME NEW t \in Threads, SetCatalog(t) PROVE Ownership'
  BY <1>11, KeepsConnection DEF SetCatalog
<1>12. ASSUME NEW t \in Threads, SetCatalogFails(t) PROVE Ownership'
  <2>1. PICK place \in {"return", "auditError"} : pc' = [pc EXCEPT ![t] = place]
    BY <1>12 DEF SetCatalogFails
  <2> QED BY <1>12, <2>1, KeepsConnection DEF SetCatalogFails
<1>13. ASSUME NEW t \in Threads, Query(t) PROVE Ownership'
  BY <1>13, KeepsConnection DEF Query
<1>14. ASSUME NEW t \in Threads, Grant(t) PROVE Ownership'
  BY <1>14, KeepsConnection DEF Grant
<1>15. ASSUME NEW t \in Threads, GrantFails(t) PROVE Ownership'
  BY <1>15, KeepsConnection DEF GrantFails
<1>16. ASSUME NEW t \in Threads, Audit(t) PROVE Ownership'
  BY <1>16, KeepsConnection DEF Audit
<1>17. ASSUME NEW t \in Threads, AuditFails(t) PROVE Ownership'
  BY <1>17, KeepsConnection DEF AuditFails
<1>18. ASSUME UNCHANGED <<pc, req, conn, free>> PROVE Ownership'
  BY <1>18
<1> QED BY <1>1, <1>2, <1>3, <1>4, <1>5, <1>6, <1>7, <1>8, <1>9, <1>10,
          <1>11, <1>12, <1>13, <1>14, <1>15, <1>16, <1>17, <1>18
    DEF Next, Step, Break, vars

-----------------------------------------------------------------------------
(* A thread's invariant survives what others do, because nobody else moves *)
(* the session of its connection; at worst the connection breaks.          *)
LEMMA Untouched ==
  ASSUME NEW u \in Threads, ThreadInv(u),
         pc'[u] = pc[u], req'[u] = req[u], landed'[u] = landed[u], row'[u] = row[u],
         listed'[u] = listed[u], answer'[u] = answer[u],
         pc[u] \in Holding => Session(u)' \in {Session(u), Broken}
  PROVE  ThreadInv(u)'
  BY DEF ThreadInv, Pinned, Progress, Truthful, Holding

LEMMA OthersUntouched ==
  ASSUME TypeOK, Ownership, NEW t \in Threads, NEW u \in Threads, u # t, Step(t),
         ThreadInv(u)
  PROVE  ThreadInv(u)'
<1> USE ConstantsAssumption
    DEF TypeOK, Ownership, Holding, Conns, Goto, Reply, SetSession, Breaks, Land, outcome, Session
<1>1. CASE Borrow(t)
  BY <1>1, Untouched DEF Borrow
<1>2. CASE PoolUnavailable(t)
  BY <1>2, Untouched DEF PoolUnavailable
<1>3. CASE Ping(t)
  BY <1>3, Untouched DEF Ping
<1>4. CASE PingFails(t)
  BY <1>4, Untouched DEF PingFails
<1>5. CASE Connect(t)
  BY <1>5, Untouched DEF Connect
<1>6. CASE ConnectFails(t)
  BY <1>6, Untouched DEF ConnectFails
<1>7. CASE Reset(t)
  BY <1>7, Untouched DEF Reset
<1>8. CASE Build(t)
  BY <1>8, Untouched DEF Build
<1>9. CASE SetCatalog(t)
  BY <1>9, Untouched DEF SetCatalog
<1>10. CASE SetCatalogFails(t)
  BY <1>10, Untouched DEF SetCatalogFails
<1>11. CASE Grant(t)
  BY <1>11, Untouched DEF Grant
<1>12. CASE GrantFails(t)
  BY <1>12, Untouched DEF GrantFails
<1>13. CASE Audit(t)
  BY <1>13, Untouched DEF Audit
<1>14. CASE AuditFails(t)
  BY <1>14, Untouched DEF AuditFails
<1>15. CASE Query(t)
  BY <1>15, Untouched DEF Query
<1>16. CASE Return(t)
  BY <1>16, Untouched DEF Return
<1> QED BY <1>1, <1>2, <1>3, <1>4, <1>5, <1>6, <1>7, <1>8, <1>9,
          <1>10, <1>11, <1>12, <1>13, <1>14, <1>15, <1>16 DEF Step

LEMMA RequestShape ==
  ASSUME NEW q \in Requests
  PROVE  /\ q.kind \in {"object", "list", "plain", "invalid"}
         /\ q.kind \in {"plain", "invalid"} => q.catalog = Default
  BY DEF Requests

LEMMA ReplyShape ==
  ASSUME TypeOK, NEW t \in Threads, NEW result \in {"ok", "error"}, NEW audit \in BOOLEAN,
         Reply(t, result, audit)
  PROVE  answer'[t].result = result /\ answer'[t].audit = audit /\ answer'[t] # None
  BY ConstantsAssumption DEF Reply, TypeOK

LEMMA QueryResult ==
  ASSUME TypeOK, NEW t \in Threads, Query(t)
  PROVE  \/ listed'[t] = listed[t]
         \/ listed'[t] = session[conn[t]] /\ session[conn[t]] # Broken
<1>1. CASE UNCHANGED listed
  BY <1>1
<1>2. CASE Alive(t) /\ listed' = [listed EXCEPT ![t] = Session(t)]
  BY <1>2 DEF TypeOK, Alive, Session
<1> QED BY <1>1, <1>2 DEF Query

(* What a thread's own step does to its invariant.                         *)
LEMMA OwnStep ==
  ASSUME TypeOK, Ownership, NEW t \in Threads, Step(t), ThreadInv(t)
  PROVE  ThreadInv(t)'
<1> req[t] \in Requests
  BY DEF Step, Ownership, Holding, Borrow, PoolUnavailable, Ping, PingFails, Connect, ConnectFails,
         Reset, Build, SetCatalog, SetCatalogFails, Grant, GrantFails, Audit, AuditFails, Query,
         Return
<1> USE ConstantsAssumption, RequestShape
    DEF TypeOK, Ownership, Holding, Conns, Goto, SetSession, Breaks, Land, outcome,
        Session, Alive, ThreadInv, Pinned, Progress, Truthful
<1>1. CASE Borrow(t)
  BY <1>1 DEF Borrow
<1>2. CASE PoolUnavailable(t)
  BY <1>2 DEF PoolUnavailable
<1>3. CASE Ping(t)
  BY <1>3 DEF Ping
<1>4. CASE PingFails(t)
  BY <1>4 DEF PingFails
<1>5. CASE Connect(t)
  BY <1>5 DEF Connect
<1>6. CASE ConnectFails(t)
  <2>1. answer'[t].audit = FALSE /\ answer'[t] # None
    BY <1>6, ReplyShape DEF ConnectFails
  <2> QED BY <1>6, <2>1 DEF ConnectFails
<1>7. CASE Reset(t)
  BY <1>7 DEF Reset
<1>8. CASE Build(t)
  <2>1. CASE req[t].kind = "invalid"
    <3>1. answer'[t].audit = FALSE /\ answer'[t] # None
      BY <1>8, <2>1, ReplyShape DEF Build
    <3> QED BY <1>8, <2>1, <3>1 DEF Build
  <2>2. CASE req[t].kind # "invalid"
    BY <1>8, <2>2 DEF Build
  <2> QED BY <2>1, <2>2
<1>9. CASE SetCatalog(t)
  BY <1>9 DEF SetCatalog
<1>10. CASE SetCatalogFails(t)
  <2>1. CASE req[t].kind = "list"
    <3>1. answer'[t].audit = FALSE /\ answer'[t] # None
      BY <1>10, <2>1, ReplyShape DEF SetCatalogFails
    <3> QED BY <1>10, <2>1, <3>1 DEF SetCatalogFails
  <2>2. CASE req[t].kind # "list"
    BY <1>10, <2>2 DEF SetCatalogFails
  <2> QED BY <2>1, <2>2
<1>11. CASE Grant(t)
  BY <1>11 DEF Grant
<1>12. CASE GrantFails(t)
  BY <1>12 DEF GrantFails
<1>13. CASE Audit(t)
  <2>1. answer'[t].result = Result(t) /\ answer'[t] # None
    BY <1>13, ReplyShape DEF Audit, Result
  <2> QED BY <1>13, <2>1 DEF Audit, Result
<1>14. CASE AuditFails(t)
  <2>1. answer'[t].audit = FALSE /\ answer'[t] # None
    BY <1>14, ReplyShape DEF AuditFails, Result
  <2> QED BY <1>14, <2>1 DEF AuditFails, Result
<1>15. CASE Query(t)
  <2>1. answer'[t].audit = FALSE /\ answer'[t] # None
    BY <1>15, ReplyShape DEF Query
  <2>2. listed'[t] # None => listed'[t] = req[t].catalog
    <3>1. session[conn[t]] \in {req[t].catalog, Broken}
      BY <1>15 DEF Query
    <3>2. \/ listed'[t] = listed[t]
          \/ listed'[t] = session[conn[t]] /\ session[conn[t]] # Broken
      BY <1>15, QueryResult
    <3> QED BY <1>15, <3>1, <3>2 DEF Query
  <2>3. row'[t] = None /\ landed'[t] = None /\ pc'[t] = "return" /\ req'[t] = req[t]
    BY <1>15 DEF Query
  <2> QED BY <2>1, <2>2, <2>3
<1>16. CASE Return(t)
  BY <1>16 DEF Return
<1> QED BY <1>1, <1>2, <1>3, <1>4, <1>5, <1>6, <1>7, <1>8, <1>9,
          <1>10, <1>11, <1>12, <1>13, <1>14, <1>15, <1>16 DEF Step

LEMMA InvInit == Init => IInv
<1> SUFFICES ASSUME Init PROVE IInv
  OBVIOUS
<1>1. \A t \in Threads : ThreadInv(t)
  BY ConstantsAssumption DEF Init, ThreadInv, Pinned, Progress, Truthful, Holding
<1> QED BY <1>1, TypeInit, OwnershipInit DEF IInv

LEMMA InvStep == IInv /\ [Next]_vars => IInv'
<1> SUFFICES ASSUME IInv, [Next]_vars PROVE IInv'
  OBVIOUS
<1> USE DEF IInv
<1>1. TypeOK' /\ Ownership'
  BY TypeStep, OwnershipStep
<1>2. ASSUME NEW t \in Threads, Step(t) PROVE \A u \in Threads : ThreadInv(u)'
  BY <1>2, OwnStep, OthersUntouched
<1>3. ASSUME NEW t \in Threads, NEW q \in Requests, Start(t, q)
      PROVE  \A u \in Threads : ThreadInv(u)'
  <2>1. ThreadInv(t)'
    BY <1>3, ConstantsAssumption
       DEF Start, Goto, TypeOK, ThreadInv, Pinned, Progress, Truthful, Holding
  <2>2. ASSUME NEW u \in Threads, u # t PROVE ThreadInv(u)'
    BY <1>3, <2>2, Untouched DEF Start, Goto, TypeOK, Session
  <2> QED BY <2>1, <2>2
<1>4. ASSUME NEW c \in Conns, Break(c) PROVE \A u \in Threads : ThreadInv(u)'
  BY <1>4, Untouched DEF Break, outcome, Session, TypeOK, Ownership
<1>5. CASE UNCHANGED vars
  BY <1>1, <1>5, Untouched DEF vars, Session
<1> QED BY <1>1, <1>2, <1>3, <1>4, <1>5 DEF Next

(* What makes the properties below inductive.                              *)
THEOREM Invariance == Spec => []IInv
  BY InvInit, InvStep, PTL DEF Spec

(* The types of the pool, the sessions and the threads.                    *)
THEOREM TypeCorrect == Spec => []TypeOK
<1>1. IInv => TypeOK
  BY DEF IInv
<1> QED BY <1>1, Invariance, PTL

(* get_pooled_connection: on every path, failures included, a slot of the  *)
(* pool is in its queue or with exactly one thread.                        *)
THEOREM PoolSafe == Spec => []SlotsAccounted
<1>1. IInv => SlotsAccounted
  BY ConstantsAssumption DEF IInv, Ownership, SlotsAccounted
<1> QED BY <1>1, Invariance, PTL

(* build_statements and execute_grant: a GRANT takes effect in the catalog *)
(* of the request, whatever the connection was used for before and whether *)
(* or not its reset worked.                                                *)
THEOREM TargetHit == Spec => []GrantsLandInTarget
<1>1. IInv => GrantsLandInTarget
  BY DEF IInv, ThreadInv, Truthful, GrantsLandInTarget
<1> QED BY <1>1, Invariance, PTL

(* write_audit and execute_grant: what grant_log and the answer say about  *)
(* a change agrees with what StarRocks did, lost answers included.         *)
THEOREM LogTrue == Spec => []LogTruthful
<1>1. IInv => LogTruthful
  BY DEF IInv, ThreadInv, Truthful, LogTruthful
<1> QED BY <1>1, Invariance, PTL

-----------------------------------------------------------------------------
(* RequestOutcome                                                          *)

AtWork == {"borrow", "direct"} \cup Holding

LEMMA WaitsWhileAtWork ==
  ASSUME IInv, NEW t \in Threads
  PROVE  /\ pc[t] \in AtWork => /\ Outcome!Waits(t) /\ req[t] \in Requests
                               /\ row[t] = None /\ listed[t] = None
         /\ pc[t] = "idle" => ~Outcome!Waits(t)
<1>1. pc[t] \in AtWork => req[t] \in Requests /\ req[t] # None
  BY ConstantsAssumption DEF IInv, Ownership, AtWork, Holding
<1>2. ThreadInv(t)
  BY DEF IInv
<1>3. QED
  BY <1>1, <1>2 DEF ThreadInv, Progress, AtWork, Outcome!Waits

LEMMA AnswerIs ==
  ASSUME NEW t \in Threads, NEW result, NEW audit
  PROVE  Reply(t, result, audit) <=> Outcome!Answered(t, result, audit)
  BY DEF Reply, Outcome!Answered

(* An answer that records nothing and claims nothing.                      *)
LEMMA FailsMaps ==
  ASSUME IInv, NEW t \in Threads, pc[t] \in AtWork, Reply(t, "error", FALSE),
         UNCHANGED <<req, landed, row, listed>>
  PROVE  Outcome!OutcomeNext
<1>1. Outcome!Waits(t) /\ Outcome!Answered(t, "error", FALSE)
  BY WaitsWhileAtWork, AnswerIs
<1>2. Outcome!Conclude(t)
  BY <1>1 DEF Outcome!Conclude
<1>3. QED
  BY <1>2 DEF Outcome!OutcomeNext

(* StarRocks applies the statement.                                        *)
LEMMA LandMaps ==
  ASSUME IInv, NEW t \in Threads, pc[t] = "grant", Alive(t), Land(t),
         UNCHANGED <<req, row, listed, answer>>
  PROVE  Outcome!OutcomeNext
<1>1. /\ Outcome!Waits(t) /\ req[t] \in Requests
      /\ req[t].kind \in {"object", "plain"} /\ landed[t] = None
      /\ req[t].kind # "plain" => Session(t) = req[t].catalog
  BY WaitsWhileAtWork DEF AtWork, Holding, IInv, ThreadInv, Pinned, Progress, Alive
<1>2. req[t].kind = "plain" => req[t].catalog = Default
  BY <1>1, RequestShape
<1>3. landed' = [landed EXCEPT ![t] = req[t].catalog]
  BY <1>1, <1>2 DEF Land
<1>4. Outcome!TakeEffect(t)
  BY <1>1, <1>3 DEF Outcome!TakeEffect, Outcome!Changes
<1>5. QED
  BY <1>4 DEF Outcome!OutcomeNext

(* The answer of a change, with its record or without.  A connection that  *)
(* can still write knows what happened.                                    *)
LEMMA AuditMaps ==
  ASSUME IInv, NEW t \in Threads, pc[t] \in {"auditOk", "auditError"}, NEW audit \in BOOLEAN,
         Reply(t, Result(t), audit), UNCHANGED <<req, landed, listed>>,
         \/ UNCHANGED row /\ ~audit
         \/ Session(t) = Default /\ row' = [row EXCEPT ![t] = Result(t)]
  PROVE  Outcome!OutcomeNext
<1>1. /\ Outcome!Waits(t) /\ req[t].kind \in {"object", "plain"}
      /\ pc[t] = "auditOk" => landed[t] # None
      /\ pc[t] = "auditError" /\ landed[t] # None => Session(t) = Broken
  BY WaitsWhileAtWork DEF AtWork, Holding, IInv, ThreadInv, Pinned, Progress
<1>2. /\ Result(t) \in {"ok", "error"} /\ (Result(t) = "ok" <=> pc[t] = "auditOk")
      /\ Default # Broken
  BY ConstantsAssumption DEF Result
<1>3. Outcome!Answered(t, Result(t), audit)
  BY AnswerIs
<1>4. Result(t) = "ok" => landed[t] # None
  BY <1>1, <1>2
<1>5. Outcome!Record(t, Result(t)) \/ (~audit /\ UNCHANGED row)
  BY <1>1, <1>2 DEF Outcome!Record, Outcome!Changes
<1>6. Outcome!Conclude(t)
  BY <1>1, <1>2, <1>3, <1>4, <1>5 DEF Outcome!Conclude
<1>7. QED
  BY <1>6 DEF Outcome!OutcomeNext

LEMMA QueryMaps ==
  ASSUME IInv, NEW t \in Threads, Query(t) PROVE Outcome!OutcomeNext
<1>1. /\ pc[t] = "query" /\ pc[t] \in AtWork
      /\ UNCHANGED <<req, landed, row>>
  BY DEF Query, AtWork, Holding
<1>2. Outcome!Waits(t) /\ req[t].kind = "list" /\ Session(t) \in {req[t].catalog, Broken}
  BY <1>1, WaitsWhileAtWork DEF IInv, ThreadInv, Pinned
<1>3. CASE Breaks(t) /\ Reply(t, "error", FALSE) /\ UNCHANGED listed
  BY <1>1, <1>3, FailsMaps
<1>4. CASE Alive(t) /\ listed' = [listed EXCEPT ![t] = Session(t)] /\ Reply(t, "ok", FALSE)
  <2>1. Outcome!ShowList(t)
    BY <1>1, <1>2, <1>4, AnswerIs DEF Outcome!ShowList, Alive
  <2>2. QED
    BY <2>1 DEF Outcome!OutcomeNext
<1>5. QED
  BY <1>3, <1>4 DEF Query

LEMMA OutcomeStep ==
  ASSUME IInv, [Next]_vars PROVE [Outcome!OutcomeNext]_(Outcome!OutcomeVars)
<1> USE DEF Outcome!OutcomeVars, outcome
<1>1. ASSUME NEW t \in Threads, Step(t)
      PROVE  Outcome!OutcomeNext \/ UNCHANGED Outcome!OutcomeVars
  <2>1. CASE Borrow(t) \/ PoolUnavailable(t) \/ Ping(t) \/ PingFails(t) \/ Connect(t) \/ Reset(t)
             \/ SetCatalog(t) \/ Return(t)
    BY <2>1 DEF Borrow, PoolUnavailable, Ping, PingFails, Connect, Reset, SetCatalog, Return
  <2>2. CASE ConnectFails(t)
    BY <2>2, FailsMaps DEF ConnectFails, AtWork
  <2>3. CASE Build(t)
    <3>1. pc[t] \in AtWork /\ UNCHANGED <<req, landed, row, listed>>
      BY <2>3 DEF Build, AtWork, Holding
    <3>2. Reply(t, "error", FALSE) \/ UNCHANGED answer
      BY <2>3 DEF Build
    <3>3. QED
      BY <3>1, <3>2, FailsMaps
  <2>4. CASE SetCatalogFails(t)
    <3>1. pc[t] \in AtWork /\ UNCHANGED <<req, landed, row, listed>>
      BY <2>4 DEF SetCatalogFails, AtWork, Holding
    <3>2. Reply(t, "error", FALSE) \/ UNCHANGED answer
      BY <2>4 DEF SetCatalogFails
    <3>3. QED
      BY <3>1, <3>2, FailsMaps
  <2>5. CASE Grant(t)
    BY <2>5, LandMaps DEF Grant
  <2>6. CASE GrantFails(t)
    <3>1. pc[t] = "grant" /\ UNCHANGED <<req, row, listed, answer>>
      BY <2>6 DEF GrantFails
    <3>2. UNCHANGED landed \/ (Alive(t) /\ Land(t))
      BY <2>6 DEF GrantFails
    <3>3. QED
      BY <3>1, <3>2, LandMaps
  <2>7. CASE Audit(t)
    BY <2>7, AuditMaps DEF Audit
  <2>8. CASE AuditFails(t)
    <3>1. /\ pc[t] \in {"auditOk", "auditError"} /\ Reply(t, Result(t), FALSE)
          /\ UNCHANGED <<req, landed, listed>>
      BY <2>8 DEF AuditFails
    <3>2. UNCHANGED row \/ (Session(t) = Default /\ row' = [row EXCEPT ![t] = Result(t)])
      BY <2>8 DEF AuditFails
    <3>3. QED
      BY <3>1, <3>2, AuditMaps
  <2>9. CASE Query(t)
    BY <2>9, QueryMaps
  <2>10. QED
    BY <1>1, <2>1, <2>2, <2>3, <2>4, <2>5, <2>6, <2>7, <2>8, <2>9 DEF Step
<1>2. ASSUME NEW t \in Threads, NEW q \in Requests, Start(t, q) PROVE Outcome!OutcomeNext
  <2>1. pc[t] = "idle" /\ ~Outcome!Waits(t)
    BY <1>2, WaitsWhileAtWork DEF Start
  <2>2. Outcome!Ask(t)
    BY <1>2, <2>1 DEF Start, Outcome!Ask
  <2>3. QED
    BY <2>2 DEF Outcome!OutcomeNext
<1>3. ASSUME NEW c \in Conns, Break(c) PROVE UNCHANGED Outcome!OutcomeVars
  BY <1>3 DEF Break
<1>4. CASE UNCHANGED vars
  BY <1>4 DEF vars
<1>5. QED
  BY <1>1, <1>2, <1>3, <1>4 DEF Next

(* execute_grant and list_databases keep to RequestOutcome whatever the    *)
(* pool, the sessions and the connections do.                              *)
THEOREM ExecutionKeepsToOutcome == Spec => KeepsToOutcome
<1>1. Init => Outcome!OutcomeInit
  BY DEF Init, Outcome!OutcomeInit
<1>2. IInv /\ [Next]_vars => [Outcome!OutcomeNext]_(Outcome!OutcomeVars)
  BY OutcomeStep
<1>3. QED
  BY <1>1, <1>2, Invariance, PTL DEF Spec, KeepsToOutcome, Outcome!OutcomeSpec
=============================================================================
