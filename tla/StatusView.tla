------------------------------ MODULE StatusView ------------------------------
(***************************************************************************)
(* Two views of the cluster's status: the Cluster Monitor tab and the      *)
(* drawer, which stays mounted and can open over any tab.  Each polls on   *)
(* its own and aborts its own request before it sends the next; the drawer *)
(* sends the tab to a section or to a node through the cluster store.      *)
(*                                                                         *)
(* A request is identified by its number.  Of a response the model keeps,  *)
(* for each node, whether it is well and its utilization.                  *)
(***************************************************************************)
EXTENDS Integers, Sequences, FiniteSets

CONSTANTS
  FEs, BEs,      \* the nodes of the cluster
  Responses,     \* what a status request may return
  Nothing,       \* null
  SparkMax,      \* points kept for a sparkline
  MaxAsks,       \* bound: requests of the two views
  MaxTimers      \* bound: highlight timers running at a time

ClusterNodes == FEs \cup BEs
Sections == {"frontends", "backends", "queries"}

(* A response names the nodes its mode lets it see.                        *)
NodeInfo == [well : BOOLEAN, pct : (0..100) \cup {Nothing}]

ASSUME StatusConstants ==
  /\ FEs \cap BEs = {} /\ IsFiniteSet(ClusterNodes)
  /\ Responses \subseteq UNION {[N -> NodeInfo] : N \in SUBSET ClusterNodes}
  /\ Nothing \notin ClusterNodes
  /\ SparkMax \in Nat \ {0}
  /\ MaxAsks \in Nat /\ MaxTimers \in Nat

VARIABLES
  onTab,     \* the tab is mounted
  tabView,   \* its state: data, loading, error, highlightId
  sparks,    \* its sparklines
  timers,    \* its highlight timers
  drawerOpen, focus, expanded, \* the cluster store
  drawer,    \* the drawer's state
  asking,    \* requests in flight that are not aborted
  asks       \* requests sent

storeVars == <<drawerOpen, focus, expanded>>
statusVars == <<onTab, tabView, sparks, timers, storeVars, drawer, asking, asks>>

Shown == [no : Nat, nodes : Responses]

(* The running-queries preview is identified with the number of its        *)
(* request; a denied one is hidden.                                        *)
FreshTab == [data |-> Nothing, loading |-> TRUE, error |-> FALSE, highlight |-> Nothing]
FreshDrawer == [data |-> Nothing, loading |-> FALSE, error |-> FALSE, queries |-> Nothing]
NoSparks == [n \in ClusterNodes |-> <<>>]

-----------------------------------------------------------------------------
(* What the views show of a response                                       *)

(* The nodes the alerts list.                                              *)
Alerts(res) == {n \in DOMAIN res : ~res[n].well}

(* The tiles of the KPI band that jump.                                    *)
KpiJumps(res) ==
  {"frontends"} \cup IF DOMAIN res \cap BEs # {} THEN {"backends"} ELSE {}

(* Where the drawer can jump to.                                           *)
Jumps(res) == KpiJumps(res) \cup {"queries"} \cup Alerts(res)

-----------------------------------------------------------------------------
StatusInit ==
  /\ onTab = FALSE /\ tabView = FreshTab /\ sparks = NoSparks /\ timers = 0
  /\ drawerOpen = FALSE /\ focus = Nothing /\ expanded = {}
  /\ drawer = FreshDrawer
  /\ asking = {} /\ asks = 0

(* FAULT: a request does not abort the one before it.                      *)
SendAnyway(views) ==
  /\ asks < MaxAsks
  /\ asks' = asks + 1
  /\ asking' = asking \cup {[view |-> v, no |-> asks + 1] : v \in views}

(* fetchData aborts the view's request in flight and sends the next.       *)
Send(views) ==
  /\ asks < MaxAsks
  /\ asks' = asks + 1
  /\ asking' = {a \in asking : a.view \notin views}
                 \cup {[view |-> v, no |-> asks + 1] : v \in views}

DrawerRequests == {"drawer", "preview"}

(* FAULT: the effect runs when the focus changes only.                     *)
ServeFocusOnChange(target, view) ==
  IF target \in {Nothing, focus} \/ view.data = Nothing
  THEN focus' = target /\ tabView' = view /\ UNCHANGED timers
  ELSE /\ focus' = Nothing
       /\ IF target \in Sections
          THEN tabView' = view /\ UNCHANGED timers
          ELSE /\ tabView' = [view EXCEPT !.highlight = target]
               /\ timers' = timers + 1

(* The focus effect of the tab, run when the focus or the data changes:    *)
(* it scrolls, and a node is highlighted until a timer ends.               *)
ServeFocus(target, view) ==
  IF target = Nothing \/ view.data = Nothing
  THEN focus' = target /\ tabView' = view /\ UNCHANGED timers
  ELSE /\ focus' = Nothing
       /\ IF target \in Sections
          THEN tabView' = view /\ UNCHANGED timers
          ELSE /\ tabView' = [view EXCEPT !.highlight = target]
               /\ timers' = timers + 1

-----------------------------------------------------------------------------
(* ClusterTab                                                              *)

MountTab ==
  /\ onTab' = TRUE
  /\ tabView' = FreshTab /\ sparks' = NoSparks /\ timers' = 0

OpenTab ==
  /\ ~onTab
  /\ MountTab
  /\ Send({"tab"})
  /\ UNCHANGED <<storeVars, drawer>>

(* Another tab: the request is aborted, the timers set nothing any more.   *)
LeaveTab ==
  /\ onTab
  /\ onTab' = FALSE /\ tabView' = FreshTab /\ sparks' = NoSparks /\ timers' = 0
  /\ asking' = {a \in asking : a.view # "tab"}
  /\ UNCHANGED <<storeVars, drawer, asks>>

(* The poll, the refresh button and Retry.  None of them shows a spinner.  *)
TabAsks ==
  /\ onTab
  /\ Send({"tab"})
  /\ UNCHANGED <<onTab, tabView, sparks, timers, storeVars, drawer>>

(* FAULT: nothing leaves the history.                                      *)
PushAll(spark, pct) == IF pct = Nothing THEN spark ELSE Append(spark, pct)

(* A sample is appended to the history of every node that reports one.     *)
Push(spark, pct) ==
  IF pct = Nothing THEN spark
  ELSE LET longer == Append(spark, pct)
       IN IF Len(longer) > SparkMax THEN Tail(longer) ELSE longer

TabAnswers ==
  \E a \in asking :
    /\ a.view = "tab"
    /\ asking' = asking \ {a}
    /\ \/ \E res \in Responses :
            /\ timers < MaxTimers
            /\ ServeFocus(focus, [tabView EXCEPT !.data = [no |-> a.no, nodes |-> res],
                                                 !.loading = FALSE, !.error = FALSE])
            /\ sparks' = [n \in ClusterNodes |->
                            IF n \in DOMAIN res THEN Push(sparks[n], res[n].pct) ELSE sparks[n]]
       \/ /\ tabView' = [tabView EXCEPT !.loading = FALSE, !.error = TRUE]
          /\ UNCHANGED <<sparks, timers, focus>>
    /\ UNCHANGED <<onTab, drawerOpen, expanded, drawer, asks>>

(* A highlight timer clears whatever is highlighted by then.               *)
TimerEnds ==
  /\ timers > 0
  /\ timers' = timers - 1
  /\ tabView' = [tabView EXCEPT !.highlight = Nothing]
  /\ UNCHANGED <<onTab, sparks, storeVars, drawer, asking, asks>>

(* The header of a node's card.                                            *)
ToggleNode ==
  /\ onTab /\ ~tabView.loading /\ tabView.data # Nothing
  /\ \E n \in DOMAIN tabView.data.nodes :
       expanded' = IF n \in expanded THEN expanded \ {n} ELSE expanded \cup {n}
  /\ UNCHANGED <<onTab, tabView, sparks, timers, drawerOpen, focus, drawer, asking, asks>>

-----------------------------------------------------------------------------
(* ClusterDrawer                                                           *)

(* Opening asks with a spinner.  An aborted preview fails like a denied    *)
(* one, and is hidden until the next answer.                               *)
OpenDrawer ==
  /\ ~drawerOpen
  /\ drawerOpen' = TRUE
  /\ drawer' = [drawer EXCEPT !.loading = TRUE, !.error = FALSE]
  /\ Send(DrawerRequests)
  /\ UNCHANGED <<onTab, tabView, sparks, timers, focus, expanded>>

PreviewAborted == \E a \in asking : a.view = "preview"

(* Closing aborts both requests, and leaves the spinner for the next time. *)
CloseDrawer(keep) ==
  /\ drawerOpen' = FALSE
  /\ drawer' = IF PreviewAborted THEN [drawer EXCEPT !.queries = Nothing] ELSE drawer
  /\ asking' = {a \in keep : a.view \notin DrawerRequests}

DrawerCloses ==
  /\ drawerOpen
  /\ CloseDrawer(asking)
  /\ UNCHANGED <<onTab, tabView, sparks, timers, focus, expanded, asks>>

(* The poll asks without a spinner, the refresh button and Retry with one. *)
DrawerAsks ==
  \E spinner \in BOOLEAN :
    /\ drawerOpen /\ (spinner => ~drawer.loading)
    /\ Send(DrawerRequests)
    /\ drawer' = [drawer EXCEPT !.loading = @ \/ spinner, !.error = @ /\ ~spinner,
                                !.queries = IF PreviewAborted THEN Nothing ELSE @]
    /\ UNCHANGED <<onTab, tabView, sparks, timers, storeVars>>

(* An answer does not clear the error of an earlier quiet request: both    *)
(* are shown.                                                              *)
DrawerAnswers ==
  \E a \in asking :
    /\ a.view = "drawer"
    /\ asking' = asking \ {a}
    /\ \/ \E res \in Responses :
            drawer' = [drawer EXCEPT !.data = [no |-> a.no, nodes |-> res], !.loading = FALSE]
       \/ drawer' = [drawer EXCEPT !.error = TRUE, !.loading = FALSE]
    /\ UNCHANGED <<onTab, tabView, sparks, timers, storeVars, asks>>

PreviewAnswers ==
  \E a \in asking :
    /\ a.view = "preview"
    /\ asking' = asking \ {a}
    /\ \E q \in {a.no, Nothing} : drawer' = [drawer EXCEPT !.queries = q]
    /\ UNCHANGED <<onTab, tabView, sparks, timers, storeVars, asks>>

(* A tile, an alert, the preview or the link to the tab, which leaves the  *)
(* focus as it is, sends the user to the tab; the drawer closes.  A tab    *)
(* that is not mounted yet serves the focus when its data are there.       *)
Jump ==
  /\ drawerOpen /\ ~drawer.loading /\ drawer.data # Nothing
  /\ timers < MaxTimers
  /\ \E target \in Jumps(drawer.data.nodes) \cup {focus} :
       IF onTab
       THEN /\ ServeFocus(target, tabView)
            /\ CloseDrawer(asking)
            /\ UNCHANGED <<onTab, sparks, asks>>
       ELSE /\ focus' = target
            /\ MountTab
            /\ asks < MaxAsks /\ asks' = asks + 1
            /\ CloseDrawer(asking \cup {[view |-> "tab", no |-> asks + 1]})
  /\ UNCHANGED expanded

(* Logging out resets the store and unmounts both views.                   *)
EndStatus ==
  /\ onTab' = FALSE /\ tabView' = FreshTab /\ sparks' = NoSparks /\ timers' = 0
  /\ drawerOpen' = FALSE /\ focus' = Nothing /\ expanded' = {}
  /\ drawer' = FreshDrawer
  /\ asking' = {}
  /\ UNCHANGED asks

StatusAnswers == TabAnswers \/ DrawerAnswers \/ PreviewAnswers

StatusNext ==
  \/ OpenTab \/ LeaveTab \/ TabAsks \/ ToggleNode
  \/ OpenDrawer \/ DrawerCloses \/ DrawerAsks \/ Jump \/ EndStatus
  \/ StatusAnswers \/ TimerEnds

StatusSpec == StatusInit /\ [][StatusNext]_statusVars

(* A request that is not aborted is answered, a timer ends.                *)
StatusFair == WF_statusVars(TabAnswers) /\ WF_statusVars(TimerEnds)

-----------------------------------------------------------------------------
StatusTypeOK ==
  /\ onTab \in BOOLEAN
  /\ tabView \in [data : Shown \cup {Nothing}, loading : BOOLEAN, error : BOOLEAN,
                  highlight : ClusterNodes \cup {Nothing}]
  /\ sparks \in [ClusterNodes -> Seq(0..100)]
  /\ \A n \in ClusterNodes : Len(sparks[n]) <= SparkMax
  /\ timers \in Nat
  /\ drawerOpen \in BOOLEAN /\ focus \in Sections \cup ClusterNodes \cup {Nothing}
  /\ expanded \subseteq ClusterNodes
  /\ drawer \in [data : Shown \cup {Nothing}, loading : BOOLEAN, error : BOOLEAN,
                 queries : Nat \cup {Nothing}]
  /\ asking \subseteq [view : {"tab"} \cup DrawerRequests, no : Nat]
  /\ asks \in Nat

(* However polls, clicks, jumps and remounts overlap, neither view ever    *)
(* replaces what it shows by the answer to an earlier request.             *)
NewerThan(old, new) == old # Nothing /\ new # Nothing => new.no >= old.no

StatusNeverGoesBack ==
  [][/\ NewerThan(tabView.data, tabView'.data)
     /\ NewerThan(drawer.data, drawer'.data)
     /\ drawer.queries # Nothing /\ drawer'.queries # Nothing
          => drawer'.queries >= drawer.queries]_statusVars

(* A jump from the drawer is served, also when the tab must first mount    *)
(* and fetch, unless the user leaves the tab or its request fails.         *)
JumpIsServed == focus # Nothing ~> (focus = Nothing \/ ~onTab \/ tabView.error)

=============================================================================
