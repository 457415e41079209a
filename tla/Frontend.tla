------------------------------ MODULE Frontend ------------------------------
(***************************************************************************)
(* The parts of the page next to each other.  They share no state, so one  *)
(* behaviour follows one part: what interleaves is inside a part.          *)
(***************************************************************************)
EXTENDS Workspace, StatusView, QueriesView, GraphView, PanelView, AuditView

VARIABLE part \* the part this behaviour follows

allVars == <<pageVars, statusVars, queriesVars, graphVars, panelVars2, auditVars, part>>

FrontendInit ==
  /\ part \in {"page", "status", "queries", "graph", "panel", "audit"}
  /\ PageInit /\ (part # "page" => stored = NoOne /\ tab = "obj")
  /\ StatusInit /\ QueriesInit /\ GraphInit /\ PanelInit /\ AuditInit

Only(name) ==
  /\ part = name /\ UNCHANGED part
  /\ name # "page" => UNCHANGED pageVars
  /\ name # "status" => UNCHANGED statusVars
  /\ name # "queries" => UNCHANGED queriesVars
  /\ name # "graph" => UNCHANGED graphVars
  /\ name # "panel" => UNCHANGED panelVars2
  /\ name # "audit" => UNCHANGED auditVars

FrontendNext ==
  \/ PageNext /\ Only("page")
  \/ StatusNext /\ Only("status")
  \/ QueriesNext /\ Only("queries")
  \/ GraphNext /\ Only("graph")
  \/ PanelNext /\ Only("panel")
  \/ AuditNext /\ Only("audit")

FrontendSpec ==
  /\ FrontendInit /\ [][FrontendNext]_allVars
  /\ PageFair /\ StatusFair /\ PanelFair /\ AuditFair

FrontendTypeOK ==
  PageTypeOK /\ StatusTypeOK /\ QueriesTypeOK /\ GraphTypeOK /\ PanelTypeOK /\ AuditTypeOK

(* Privileges and audit entries on the screen answer the question on the   *)
(* screen, whatever was asked before, and a question that stays is         *)
(* answered: both views implement LatestAnswer.                            *)
FetchersImplementLatest == PanelImplementsLatest /\ AuditImplementsLatest
=============================================================================
