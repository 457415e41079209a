------------------------------ MODULE PanelView ------------------------------
(***************************************************************************)
(* The detail panel of the graph tabs: the privileges of the selected node *)
(* through useAsyncData, the table details an object's panel fetches when  *)
(* they are first looked at, and the pages of a group's panel.             *)
(*                                                                         *)
(* Selecting a node makes a new node object even for the same name, so a   *)
(* selection is identified with its number; 0 is none.                     *)
(***************************************************************************)
EXTENDS Naturals

CONSTANTS MaxPicks \* bound: selections

ASSUME PanelConstants == MaxPicks \in Nat

VARIABLES
  picks,     \* selections so far
  pick,      \* the selection the panel shows
  mode,      \* which panel is mounted
  located,   \* the node names its catalog and database
  cell, awaited,        \* useAsyncData: the selection the result belongs to, the live request
  details, detail, detailLoading, \* the Details tab is open, the selection its detail is of
  detailAsked,          \* detail requests in flight, none of which is ever aborted
  page, pages           \* the group panel's page, the pages of its group

detailVars == <<details, detail, detailLoading, detailAsked>>
panelVars2 == <<picks, pick, mode, located, cell, awaited, detailVars, page, pages>>

Modes == {"none", "object", "user", "group"}

(* The group panel fetches nothing.                                        *)
Fetching(m) == m \in {"object", "user"}

NoDetails(asked) ==
  details' = FALSE /\ detail' = 0 /\ detailLoading' = FALSE /\ detailAsked' = asked

PanelInit ==
  /\ picks = 0 /\ pick = 0 /\ mode = "none" /\ located = FALSE
  /\ cell = 0 /\ awaited = 0
  /\ details = FALSE /\ detail = 0 /\ detailLoading = FALSE /\ detailAsked = {}
  /\ page = 0 /\ pages = 0

-----------------------------------------------------------------------------
(* A node is selected: the result is invalidated while it is rendered, the *)
(* request before is given up and the next one sent, and the panel goes    *)
(* back to its first tab.  Another panel is mounted for another kind, a    *)
(* group's panel stays on the page it was on.                              *)
Pick ==
  \E m \in Modes \ {"none"}, l \in BOOLEAN, ps \in 1..2 :
    /\ picks < MaxPicks
    /\ picks' = picks + 1 /\ pick' = picks + 1 /\ mode' = m /\ located' = l
    /\ cell' = 0
    /\ awaited' = IF Fetching(m) THEN picks + 1 ELSE 0
    /\ NoDetails(IF m = mode THEN detailAsked ELSE {})
    /\ page' = IF m = "group" /\ m = mode THEN page ELSE 0
    /\ pages' = IF m = "group" THEN ps ELSE 0

ClosePanel2 ==
  /\ mode # "none"
  /\ mode' = "none" /\ pick' = 0 /\ located' = FALSE
  /\ cell' = 0 /\ awaited' = 0 /\ page' = 0 /\ pages' = 0
  /\ NoDetails({})
  /\ UNCHANGED picks

(* A result or an error settles the live request.                          *)
PrivilegesAnswer ==
  /\ awaited # 0
  /\ cell' = awaited /\ awaited' = 0
  /\ UNCHANGED <<picks, pick, mode, located, detailVars, page, pages>>

(* Looking at the details asks for them, again while there are none.       *)
OpenDetails ==
  /\ mode = "object" /\ ~details
  /\ details' = TRUE
  /\ IF detail = 0 /\ located
     THEN detailLoading' = TRUE /\ detailAsked' = detailAsked \cup {pick}
     ELSE UNCHANGED <<detailLoading, detailAsked>>
  /\ UNCHANGED <<picks, pick, mode, located, cell, awaited, detail, page, pages>>

OpenPrivileges ==
  /\ mode = "object" /\ details
  /\ details' = FALSE
  /\ UNCHANGED <<picks, pick, mode, located, cell, awaited, detail, detailLoading, detailAsked,
                 page, pages>>

(* Whichever request answers writes the detail, whatever is selected now.  *)
DetailAnswers ==
  \E d \in detailAsked :
    /\ detailAsked' = detailAsked \ {d}
    /\ detail' \in {d, detail}
    /\ detailLoading' = FALSE
    /\ UNCHANGED <<picks, pick, mode, located, cell, awaited, details, page, pages>>

TurnPage ==
  /\ mode = "group" /\ pages > 1
  /\ \/ page > 0 /\ page' = page - 1
     \/ page < pages - 1 /\ page' = page + 1
  /\ UNCHANGED <<picks, pick, mode, located, cell, awaited, detailVars, pages>>

PanelNext ==
  \/ Pick \/ ClosePanel2 \/ PrivilegesAnswer \/ OpenDetails \/ OpenPrivileges
  \/ DetailAnswers \/ TurnPage

PanelSpec == PanelInit /\ [][PanelNext]_panelVars2

(* A request that is not given up is answered.                             *)
PanelFair == WF_panelVars2(PrivilegesAnswer)

-----------------------------------------------------------------------------
PanelFlags == located \in BOOLEAN /\ details \in BOOLEAN /\ detailLoading \in BOOLEAN

PanelTypeOK ==
  /\ PanelFlags
  /\ picks \in 0..MaxPicks /\ pick \in 0..MaxPicks
  /\ cell \in 0..MaxPicks /\ awaited \in 0..MaxPicks /\ detail \in 0..MaxPicks
  /\ mode \in Modes
  /\ detailAsked \subseteq 1..MaxPicks
  /\ page \in Nat /\ pages \in Nat

(* The privileges of a panel as an abstract fetching view.                 *)
PanelLatest ==
  INSTANCE LatestAnswer WITH
    Question <- 1..MaxPicks, NoAnswer <- 0,
    question <- IF Fetching(mode) THEN pick ELSE 0, answered <- cell

(* Privileges appear under a node only if they are that node's, however    *)
(* fast the selection changes, and those of a node that stays selected     *)
(* appear.                                                                 *)
PanelImplementsLatest == PanelLatest!LatestSpec /\ PanelLatest!Settles
=============================================================================
