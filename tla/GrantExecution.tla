--------------------------- MODULE GrantExecution ---------------------------
(***************************************************************************)
(* How the application's statements reach StarRocks: requests borrow a     *)
(* pooled connection, reset its session, run their statements one by one,  *)
(* and, when they change grants, write the audit row on the same           *)
(* connection before it goes back to the pool.                             *)
(*                                                                         *)
(* A connection keeps the catalog its last user switched to; every name    *)
(* that is not fully qualified (the object of a GRANT, the audit table)    *)
(* resolves in it.  Connections may break between or during statements.    *)
(***************************************************************************)
EXTENDS Naturals

CONSTANTS
  Threads,  \* request threads
  Slots,    \* connections of the pool of one (host, port, user)
  Catalogs, \* catalogs of the cluster
  Default,  \* default_catalog
  Broken,   \* the session of a connection that is gone
  None,     \* not yet, or not at all
  MayFail   \* whether connections and session statements may fail

(* A thread may open one direct connection, named after the thread.        *)
Conns == Slots \cup Threads

(* The requests: a GRANT or REVOKE on an object of a catalog; one whose    *)
(* statement needs no catalog (a role, a catalog); one build_statements    *)
(* rejects; and list_databases, a read that switches the catalog as well.  *)
Requests ==
  [kind : {"object", "list"}, catalog : Catalogs] \cup
  [kind : {"plain", "invalid"}, catalog : {Default}]

ASSUME ConstantsAssumption ==
  /\ Default \in Catalogs
  /\ MayFail \in BOOLEAN
  /\ Threads \cap Slots = {}
  /\ Broken \notin Catalogs
  /\ None \notin Catalogs \cup Threads \cup Slots \cup {"ok", "error"}
  /\ None \notin Requests
  /\ \A result \in {"ok", "error"}, audit \in BOOLEAN :
       None # [result |-> result, audit |-> audit]

VARIABLES
  session, \* the current catalog of every connection
  free,    \* the slots in the pool's queue
  pc,      \* where each thread is
  req,     \* its request
  conn,    \* the connection it uses
  landed,  \* the catalog its GRANT took effect in
  row,     \* the audit row it left in grant_log
  listed,  \* the catalog its list of databases came from
  answer   \* what it answered

vars == <<session, free, pc, req, conn, landed, row, listed, answer>>

Answer == [result : {"ok", "error"}, audit : BOOLEAN]

TypeOK ==
  /\ session \in [Conns -> Catalogs \cup {Broken}]
  /\ free \in SUBSET Slots
  /\ pc \in [Threads -> {"idle", "borrow", "ping", "direct", "reset", "build", "setCatalog",
                         "grant", "query", "auditOk", "auditError", "return"}]
  /\ req \in [Threads -> Requests \cup {None}]
  /\ conn \in [Threads -> Conns \cup {None}]
  /\ landed \in [Threads -> Catalogs \cup {None}]
  /\ row \in [Threads -> {None, "ok", "error"}]
  /\ listed \in [Threads -> Catalogs \cup {None}]
  /\ answer \in [Threads -> Answer \cup {None}]

Init ==
  /\ session = [c \in Conns |-> Default]
  /\ free = Slots
  /\ pc = [t \in Threads |-> "idle"]
  /\ req = [t \in Threads |-> None]
  /\ conn = [t \in Threads |-> None]
  /\ landed = [t \in Threads |-> None]
  /\ row = [t \in Threads |-> None]
  /\ listed = [t \in Threads |-> None]
  /\ answer = [t \in Threads |-> None]

Goto(t, place) == pc' = [pc EXCEPT ![t] = place]

Reply(t, result, audit) ==
  answer' = [answer EXCEPT ![t] = [result |-> result, audit |-> audit]]

(* The catalog of t's session, or Broken.                                  *)
Session(t) == session[conn[t]]

Alive(t) == Session(t) # Broken

SetSession(t, s) == session' = [session EXCEPT ![conn[t]] = s]

(* A connection can break under the statement it is running.               *)
Breaks(t) == (MayFail \/ ~Alive(t)) /\ SetSession(t, Broken)

outcome == <<landed, row, listed, answer>>

-----------------------------------------------------------------------------
(* get_pooled_connection                                                   *)

Start(t, q) ==
  /\ pc[t] = "idle"
  /\ Goto(t, "borrow")
  /\ req' = [req EXCEPT ![t] = q]
  /\ landed' = [landed EXCEPT ![t] = None]
  /\ row' = [row EXCEPT ![t] = None]
  /\ listed' = [listed EXCEPT ![t] = None]
  /\ answer' = [answer EXCEPT ![t] = None]
  /\ UNCHANGED <<session, free, conn>>

Borrow(t) ==
  /\ pc[t] = "borrow"
  /\ \E s \in free :
       /\ free' = free \ {s}
       /\ conn' = [conn EXCEPT ![t] = s]
  /\ Goto(t, "ping")
  /\ UNCHANGED <<session, req, outcome>>

(* FAULT: an exhausted pool makes the request wait for a slot.             *)
PoolUnavailableWaits(t) ==
  /\ pc[t] = "borrow"
  /\ free # {} /\ MayFail
  /\ Goto(t, "direct")
  /\ UNCHANGED <<session, free, req, conn, outcome>>

(* The pool is exhausted, or cannot be created.                            *)
PoolUnavailable(t) ==
  /\ pc[t] = "borrow"
  /\ free = {} \/ MayFail
  /\ Goto(t, "direct")
  /\ UNCHANGED <<session, free, req, conn, outcome>>

(* ping(reconnect=True, attempts=1): a broken connection is reconnected,   *)
(* which gives it a new session.                                           *)
Ping(t) ==
  /\ pc[t] = "ping"
  /\ SetSession(t, IF Alive(t) THEN Session(t) ELSE Default)
  /\ Goto(t, "reset")
  /\ UNCHANGED <<free, req, conn, outcome>>

(* FAULT: the slot goes back to the pool and the request uses it anyway.   *)
PingFailsKeepsSlot(t) ==
  /\ pc[t] = "ping"
  /\ Breaks(t)
  /\ free' = free \cup {conn[t]}
  /\ Goto(t, "reset")
  /\ UNCHANGED <<req, conn, outcome>>

(* One that cannot be revived goes back to the pool as it is.              *)
PingFails(t) ==
  /\ pc[t] = "ping"
  /\ Breaks(t)
  /\ free' = free \cup {conn[t]}
  /\ conn' = [conn EXCEPT ![t] = None]
  /\ Goto(t, "direct")
  /\ UNCHANGED <<req, outcome>>

Connect(t) ==
  /\ pc[t] = "direct"
  /\ conn' = [conn EXCEPT ![t] = t]
  /\ session' = [session EXCEPT ![t] = Default]
  /\ Goto(t, "reset")
  /\ UNCHANGED <<free, req, outcome>>

(* No direct connection either: the request fails.                         *)
ConnectFails(t) ==
  /\ pc[t] = "direct"
  /\ MayFail
  /\ Reply(t, "error", FALSE)
  /\ Goto(t, "return")
  /\ UNCHANGED <<session, free, req, conn, landed, row, listed>>

(* _reset_session: both of its statements are non-fatal.                   *)
Reset(t) ==
  /\ pc[t] = "reset"
  /\ \/ Alive(t) /\ SetSession(t, Default)
     \/ MayFail /\ UNCHANGED session
     \/ Breaks(t)
  /\ Goto(t, "build")
  /\ UNCHANGED <<free, req, conn, outcome>>

-----------------------------------------------------------------------------
(* The handler                                                             *)

(* FAULT: default_catalog objects rely on the reset.                       *)
BuildDefaultUnpinned(t) ==
  /\ pc[t] = "build"
  /\ IF req[t].kind = "invalid"
     THEN /\ Reply(t, "error", FALSE)
          /\ Goto(t, "return")
     ELSE /\ Goto(t, IF req[t].kind = "plain" \/ (req[t].kind = "object" /\ req[t].catalog = Default)
                     THEN "grant" ELSE "setCatalog")
          /\ UNCHANGED answer
  /\ UNCHANGED <<session, free, req, conn, landed, row, listed>>

(* build_statements pins the catalog of every object that lives in one,    *)
(* default_catalog included.  A ValueError is answered 422: nothing was    *)
(* attempted, nothing is audited.                                          *)
Build(t) ==
  /\ pc[t] = "build"
  /\ IF req[t].kind = "invalid"
     THEN /\ Reply(t, "error", FALSE)
          /\ Goto(t, "return")
     ELSE /\ Goto(t, IF req[t].kind = "plain" THEN "grant" ELSE "setCatalog")
          /\ UNCHANGED answer
  /\ UNCHANGED <<session, free, req, conn, landed, row, listed>>

SetCatalog(t) ==
  /\ pc[t] = "setCatalog"
  /\ Alive(t)
  /\ SetSession(t, req[t].catalog)
  /\ Goto(t, IF req[t].kind = "list" THEN "query" ELSE "grant")
  /\ UNCHANGED <<free, req, conn, outcome>>

(* FAULT: list_databases swallows the error of set_catalog, as             *)
(* fetch_table_detail does.                                                *)
SetCatalogFailsSilently(t) ==
  /\ pc[t] = "setCatalog"
  /\ UNCHANGED session \/ Breaks(t)
  /\ Goto(t, IF req[t].kind = "list" THEN "query" ELSE "auditError")
  /\ UNCHANGED <<free, req, conn, outcome>>

(* Denied, or the connection breaks: the first failing statement ends the  *)
(* sequence.                                                               *)
SetCatalogFails(t) ==
  /\ pc[t] = "setCatalog"
  /\ UNCHANGED session \/ Breaks(t)
  /\ IF req[t].kind = "list"
     THEN Reply(t, "error", FALSE) /\ Goto(t, "return")
     ELSE UNCHANGED answer /\ Goto(t, "auditError")
  /\ UNCHANGED <<free, req, conn, landed, row, listed>>

(* Where StarRocks resolves the object of the statement.                   *)
Land(t) ==
  landed' = [landed EXCEPT ![t] = IF req[t].kind = "object" THEN Session(t) ELSE Default]

Grant(t) ==
  /\ pc[t] = "grant"
  /\ Alive(t)
  /\ Land(t)
  /\ Goto(t, "auditOk")
  /\ UNCHANGED <<session, free, req, conn, row, listed, answer>>

(* Denied; or the connection breaks before StarRocks applies the           *)
(* statement, or after it did and before its answer.                       *)
GrantFails(t) ==
  /\ pc[t] = "grant"
  /\ \/ UNCHANGED <<session, landed>>
     \/ Breaks(t) /\ UNCHANGED landed
     \/ Alive(t) /\ Breaks(t) /\ Land(t)
  /\ Goto(t, "auditError")
  /\ UNCHANGED <<free, req, conn, row, listed, answer>>

Result(t) == IF pc[t] = "auditOk" THEN "ok" ELSE "error"

(* FAULT: write_audit takes a connection of its own.                       *)
AuditElsewhere(t) ==
  /\ pc[t] \in {"auditOk", "auditError"}
  /\ row' = [row EXCEPT ![t] = Result(t)]
  /\ Reply(t, Result(t), TRUE)
  /\ Goto(t, "return")
  /\ UNCHANGED <<session, free, req, conn, landed, listed>>

(* write_audit on the request's own connection: srpm_audit.grant_log is a  *)
(* database of default_catalog.  (The caches are cleared next, after an    *)
(* "ok" only: see GrantCache.)                                             *)
Audit(t) ==
  /\ pc[t] \in {"auditOk", "auditError"}
  /\ Session(t) = Default
  /\ row' = [row EXCEPT ![t] = Result(t)]
  /\ Reply(t, Result(t), TRUE)
  /\ Goto(t, "return")
  /\ UNCHANGED <<session, free, req, conn, landed, listed>>

(* write_audit swallows every error, also when the row was written and     *)
(* only the answer was lost.                                               *)
AuditFails(t) ==
  /\ pc[t] \in {"auditOk", "auditError"}
  /\ \/ Session(t) # Default /\ UNCHANGED <<session, row>>
     \/ MayFail /\ UNCHANGED <<session, row>>
     \/ Breaks(t) /\ UNCHANGED row
     \/ Session(t) = Default /\ Breaks(t) /\ row' = [row EXCEPT ![t] = Result(t)]
  /\ Reply(t, Result(t), FALSE)
  /\ Goto(t, "return")
  /\ UNCHANGED <<free, req, conn, landed, listed>>

(* SHOW DATABASES.                                                         *)
Query(t) ==
  /\ pc[t] = "query"
  /\ \/ /\ Alive(t)
        /\ listed' = [listed EXCEPT ![t] = Session(t)]
        /\ Reply(t, "ok", FALSE)
        /\ UNCHANGED session
     \/ /\ Breaks(t)
        /\ Reply(t, "error", FALSE)
        /\ UNCHANGED listed
  /\ Goto(t, "return")
  /\ UNCHANGED <<free, req, conn, landed, row>>

(* FAULT: whatever connection the request used goes into the queue.        *)
ReturnAny(t) ==
  /\ pc[t] = "return"
  /\ free' = free \cup {conn[t]}
  /\ conn' = [conn EXCEPT ![t] = None]
  /\ Goto(t, "idle")
  /\ UNCHANGED <<session, req, outcome>>

(* conn.close(): a slot returns to the queue with the session it has.      *)
Return(t) ==
  /\ pc[t] = "return"
  /\ free' = free \cup ({conn[t]} \cap Slots)
  /\ conn' = [conn EXCEPT ![t] = None]
  /\ Goto(t, "idle")
  /\ UNCHANGED <<session, req, outcome>>

(* A connection idles in the pool past a timeout, or StarRocks restarts.   *)
Break(c) ==
  /\ MayFail
  /\ session[c] # Broken
  /\ session' = [session EXCEPT ![c] = Broken]
  /\ UNCHANGED <<free, pc, req, conn, outcome>>

-----------------------------------------------------------------------------
Step(t) ==
  \/ Borrow(t) \/ PoolUnavailable(t) \/ Ping(t) \/ PingFails(t)
  \/ Connect(t) \/ ConnectFails(t) \/ Reset(t)
  \/ Build(t) \/ SetCatalog(t) \/ SetCatalogFails(t)
  \/ Grant(t) \/ GrantFails(t) \/ Audit(t) \/ AuditFails(t) \/ Query(t)
  \/ Return(t)

Next ==
  \/ \E t \in Threads : Step(t) \/ \E q \in Requests : Start(t, q)
  \/ \E c \in Conns : Break(c)

Spec == Init /\ [][Next]_vars

(* A request that started runs to its end.                                 *)
FairSpec == Spec /\ \A t \in Threads : WF_vars(Step(t))

-----------------------------------------------------------------------------
(* Every slot of the pool is in its queue or with one thread: none is lost *)
(* on an error path, none is handed out while somebody still uses it.      *)
SlotsAccounted ==
  \A s \in Slots :
    LET holders == {t \in Threads : conn[t] = s}
    IN  IF s \in free THEN holders = {} ELSE \E t \in Threads : holders = {t}

(* GRANT_REVOKE_DESIGN.md: SET CATALOG is always emitted "so behavior is   *)
(* deterministic regardless of the connection's current catalog".  What    *)
(* the previous borrower left and whether the reset worked do not matter.  *)
GrantsLandInTarget ==
  \A t \in Threads : landed[t] # None => landed[t] = req[t].catalog

(* What grant_log says happened: a row "ok" stands for a change that took  *)
(* effect, a row "error" for one that did not, though the driver reports   *)
(* an error for some that did; and the flag of the answer promises a row.  *)
LogTruthful ==
  \A t \in Threads :
    /\ row[t] = "ok" => landed[t] # None
    /\ row[t] = "error" => landed[t] = None
    /\ answer[t] # None /\ answer[t].audit => row[t] = answer[t].result

(* An exhausted pool delays nobody for ever: a request is always answered  *)
(* and gives its connection back.                                          *)
RequestsEnd == \A t \in Threads : pc[t] = "borrow" ~> pc[t] = "idle"

(* Whatever becomes of connections and sessions, the application keeps to  *)
(* RequestOutcome: one effect at most, in the requested catalog and before *)
(* the answer; a list of the requested catalog or an error; "ok" and       *)
(* records only for what happened; and nothing after the answer.           *)
Outcome == INSTANCE RequestOutcome

KeepsToOutcome == Outcome!OutcomeSpec

(* README.md, "Grant Audit": "Every GRANT/REVOKE attempt (including denied *)
(* ones) recorded in srpm_audit.grant_log".                                *)
EveryAttemptAudited ==
  \A t \in Threads :
    answer[t] # None /\ req[t].kind \in {"object", "plain"} => row[t] # None
=============================================================================
