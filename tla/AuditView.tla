------------------------------ MODULE AuditView ------------------------------
(***************************************************************************)
(* The audit tab: it asks the server again whenever a filter changes or a  *)
(* grant was executed, and drops the answer to what it asked before.       *)
(***************************************************************************)
EXTENDS Naturals

CONSTANTS
  AuditFilters, \* values of the actor and action filters
  FirstFilter,
  Unasked,      \* nothing is asked, or was answered
  MaxTicks      \* bound: executed grants

ASSUME AuditConstants ==
  FirstFilter \in AuditFilters /\ MaxTicks \in Nat

AuditQuestions == AuditFilters \X (0..MaxTicks)

VARIABLES
  auditOn,     \* the tab is mounted
  refreshTick, \* of the grant store
  auditFilter, failuresOnly,
  auditAsked,  \* what the request that is not cancelled asked, Unasked when none is
  entries,     \* what the entries or the error on the screen answer
  auditFailed

auditVars == <<auditOn, refreshTick, auditFilter, failuresOnly, auditAsked, entries, auditFailed>>

AuditInit ==
  /\ auditOn = FALSE /\ refreshTick = 0
  /\ auditFilter = FirstFilter /\ failuresOnly = FALSE
  /\ auditAsked = Unasked /\ entries = Unasked /\ auditFailed = FALSE

(* FAULT: the effect that asks does not cancel what was asked before.      *)
AuditAskKeeps(f, tick) ==
  auditAsked' = IF auditAsked # Unasked THEN auditAsked ELSE <<f, tick>>

AuditAsk(f, tick) == auditAsked' = <<f, tick>>

OpenAudit ==
  /\ ~auditOn
  /\ auditOn' = TRUE
  /\ AuditAsk(auditFilter, refreshTick)
  /\ UNCHANGED <<refreshTick, auditFilter, failuresOnly, entries, auditFailed>>

LeaveAudit ==
  /\ auditOn
  /\ auditOn' = FALSE /\ auditFilter' = FirstFilter /\ failuresOnly' = FALSE
  /\ auditAsked' = Unasked /\ entries' = Unasked /\ auditFailed' = FALSE
  /\ UNCHANGED refreshTick

ChangeFilter ==
  /\ auditOn
  /\ \E f \in AuditFilters \ {auditFilter} : auditFilter' = f /\ AuditAsk(f, refreshTick)
  /\ UNCHANGED <<auditOn, refreshTick, failuresOnly, entries, auditFailed>>

(* Filtering for failures is done in the page.                             *)
FailuresOnly ==
  /\ auditOn /\ failuresOnly' = ~failuresOnly
  /\ UNCHANGED <<auditOn, refreshTick, auditFilter, auditAsked, entries, auditFailed>>

(* The grant dialog has executed requests, over whatever tab.              *)
BumpRefresh ==
  /\ refreshTick < MaxTicks
  /\ refreshTick' = refreshTick + 1
  /\ IF auditOn THEN AuditAsk(auditFilter, refreshTick + 1) ELSE UNCHANGED auditAsked
  /\ UNCHANGED <<auditOn, auditFilter, failuresOnly, entries, auditFailed>>

AuditAnswers ==
  /\ auditAsked # Unasked
  /\ entries' = auditAsked /\ auditAsked' = Unasked
  /\ auditFailed' \in BOOLEAN
  /\ UNCHANGED <<auditOn, refreshTick, auditFilter, failuresOnly>>

AuditNext ==
  OpenAudit \/ LeaveAudit \/ ChangeFilter \/ FailuresOnly \/ BumpRefresh \/ AuditAnswers

AuditSpec == AuditInit /\ [][AuditNext]_auditVars

(* A request that is not cancelled is answered.                            *)
AuditFair == WF_auditVars(AuditAnswers)

-----------------------------------------------------------------------------
AuditFlags == auditOn \in BOOLEAN /\ failuresOnly \in BOOLEAN /\ auditFailed \in BOOLEAN

AuditTypeOK ==
  /\ AuditFlags
  /\ refreshTick \in 0..MaxTicks /\ auditFilter \in AuditFilters
  /\ auditAsked \in AuditQuestions \cup {Unasked}
  /\ entries \in AuditQuestions \cup {Unasked}

(* The tab as an abstract fetching view.                                   *)
AuditLatest ==
  INSTANCE LatestAnswer WITH
    Question <- AuditQuestions, NoAnswer <- Unasked,
    question <- IF auditOn THEN <<auditFilter, refreshTick>> ELSE Unasked,
    answered <- entries

(* Entries are shown for the filter they were asked with, and after the    *)
(* latest execution: an answer to anything older never replaces them, and  *)
(* a filter that stays is answered.                                        *)
AuditImplementsLatest == AuditLatest!LatestSpec /\ AuditLatest!Settles
=============================================================================
