------------------------- MODULE ClusterViewsProofs -------------------------
(***************************************************************************)
(* The views of the Cluster Monitor, for any cluster, any responses and    *)
(* any number of requests: the status views never go back to an earlier    *)
(* answer, the recent queries are those of the filter, and a killed query  *)
(* does not come back.                                                     *)
(***************************************************************************)
EXTENDS StatusView, QueriesView, TLAPS

-----------------------------------------------------------------------------
(* StatusView: the one request a view awaits is younger than what it shows.*)

TabFields == {"data", "loading", "error", "highlight"}
DrawerFields == {"data", "loading", "error", "queries"}

Numbered == asks \in Nat /\ \A a \in asking : a.no \in Nat /\ a.no <= asks

OneEach == \A a, b \in asking : a.view = b.view => a = b

(* What a view shows is an answer to a request older than the one awaited. *)
OlderThanAwaited(no, view, rs, sent) ==
  no \in Nat /\ no <= sent /\ \A a \in rs : a.view = view => a.no > no

TabIsOlder ==
  /\ DOMAIN tabView = TabFields
  /\ tabView.data # Nothing => OlderThanAwaited(tabView.data.no, "tab", asking, asks)

DrawerIsOlder ==
  /\ DOMAIN drawer = DrawerFields
  /\ drawer.data # Nothing => OlderThanAwaited(drawer.data.no, "drawer", asking, asks)
  /\ drawer.queries # Nothing => OlderThanAwaited(drawer.queries, "preview", asking, asks)

StatusInv == Numbered /\ OneEach /\ TabIsOlder /\ DrawerIsOlder

LEMMA SendKeeps ==
  ASSUME StatusInv, NEW views, Send(views)
  PROVE  /\ Numbered' /\ OneEach'
         /\ \A no, v : OlderThanAwaited(no, v, asking, asks) =>
                         OlderThanAwaited(no, v, asking', asks')
<1>1. /\ asks' = asks + 1
      /\ asking' = {a \in asking : a.view \notin views}
                     \cup {[view |-> v, no |-> asks + 1] : v \in views}
  BY DEF Send
<1>2. \A a \in asking' : \/ a \in asking /\ a.view \notin views
                         \/ a.view \in views /\ a = [view |-> a.view, no |-> asks + 1]
  BY <1>1
<1>3. \A a \in asking' : \/ a \in asking
                         \/ a.no = asks + 1
  BY <1>2
<1>4. Numbered'
  BY <1>1, <1>3 DEF StatusInv, Numbered
<1>5. OneEach'
  BY <1>2 DEF StatusInv, OneEach
<1>6. ASSUME NEW no, NEW v, OlderThanAwaited(no, v, asking, asks)
      PROVE  OlderThanAwaited(no, v, asking', asks')
  BY <1>1, <1>3, <1>6 DEF OlderThanAwaited, StatusInv, Numbered
<1>7. QED
  BY <1>4, <1>5, <1>6

(* Giving requests up disturbs nothing.                                    *)
LEMMA FewerKeeps ==
  ASSUME StatusInv, asking' \subseteq asking, asks' = asks
  PROVE  /\ Numbered' /\ OneEach'
         /\ \A no, v : OlderThanAwaited(no, v, asking, asks) =>
                         OlderThanAwaited(no, v, asking', asks')
  BY DEF StatusInv, Numbered, OneEach, OlderThanAwaited

LEMMA ServeFocusKeepsData ==
  ASSUME NEW target, NEW view, DOMAIN view = TabFields, ServeFocus(target, view)
  PROVE  DOMAIN tabView' = TabFields /\ tabView'.data = view.data
<1>1. tabView' = view \/ tabView' = [view EXCEPT !.highlight = target]
  BY DEF ServeFocus
<1>2. QED
  BY <1>1 DEF TabFields

LEMMA FreshViews ==
  /\ DOMAIN FreshTab = TabFields /\ FreshTab.data = Nothing
  /\ DOMAIN FreshDrawer = DrawerFields /\ FreshDrawer.data = Nothing
  /\ FreshDrawer.queries = Nothing
  BY DEF FreshTab, FreshDrawer, TabFields, DrawerFields

LEMMA StatusInitInv == StatusInit => StatusInv
  BY FreshViews DEF StatusInit, StatusInv, Numbered, OneEach, TabIsOlder, DrawerIsOlder

(* A step keeps the invariant and no view goes back.                       *)
StepIsGood ==
  /\ StatusInv'
  /\ NewerThan(tabView.data, tabView'.data)
  /\ NewerThan(drawer.data, drawer'.data)
  /\ drawer.queries # Nothing /\ drawer'.queries # Nothing
       => drawer'.queries >= drawer.queries

(* Requests are sent or given up, and what the views show is emptied or    *)
(* left alone.                                                             *)
LEMMA EmptyingIsGood ==
  ASSUME StatusInv, Numbered', OneEach',
         \A no, v : OlderThanAwaited(no, v, asking, asks) =>
                      OlderThanAwaited(no, v, asking', asks'),
         DOMAIN tabView' = TabFields, tabView'.data \in {tabView.data, Nothing},
         DOMAIN drawer' = DrawerFields, drawer'.data \in {drawer.data, Nothing},
         drawer'.queries \in {drawer.queries, Nothing}
  PROVE  StepIsGood
<1>1. TabIsOlder' /\ DrawerIsOlder'
  BY DEF StatusInv, TabIsOlder, DrawerIsOlder
<1>2. /\ tabView.data # Nothing => tabView.data.no \in Nat
      /\ drawer.data # Nothing => drawer.data.no \in Nat
      /\ drawer.queries # Nothing => drawer.queries \in Nat
  BY DEF StatusInv, TabIsOlder, DrawerIsOlder, OlderThanAwaited
<1>3. QED
  BY <1>1, <1>2 DEF StepIsGood, StatusInv, NewerThan

(* An answer to the request a view awaits.                                 *)
LEMMA AnswerIsYounger ==
  ASSUME StatusInv, NEW a \in asking, asking' = asking \ {a}, asks' = asks
  PROVE  /\ OlderThanAwaited(a.no, a.view, asking', asks')
         /\ \A no : OlderThanAwaited(no, a.view, asking, asks) => a.no >= no
<1>1. \A b \in asking' : b.view # a.view
  BY DEF StatusInv, OneEach
<1>2. OlderThanAwaited(a.no, a.view, asking', asks')
  BY <1>1 DEF StatusInv, Numbered, OlderThanAwaited
<1>3. \A no : OlderThanAwaited(no, a.view, asking, asks) => a.no >= no
  BY DEF StatusInv, Numbered, OlderThanAwaited
<1>4. QED
  BY <1>2, <1>3

(* Only a tab that is mounted awaits a request of its own.                 *)
TabAwaits == \A a \in asking : a.view = "tab" => onTab

LEMMA TabAwaitsHolds ==
  /\ StatusInit => TabAwaits
  /\ TabAwaits /\ [StatusNext]_statusVars => TabAwaits'
<1> USE DEF TabAwaits
<1>1. StatusInit => TabAwaits
  BY DEF StatusInit
<1>2. ASSUME TabAwaits, [StatusNext]_statusVars PROVE TabAwaits'
  <2>1. CASE OpenTab \/ TabAsks \/ Jump
    BY <2>1 DEF OpenTab, TabAsks, Jump, MountTab, CloseDrawer
  <2>2. CASE LeaveTab \/ EndStatus
    BY <2>2 DEF LeaveTab, EndStatus
  <2>3. CASE OpenDrawer \/ DrawerAsks
    <3>1. asking' \subseteq asking \cup {[view |-> v, no |-> asks + 1] : v \in DrawerRequests}
          /\ onTab' = onTab
      BY <2>3 DEF OpenDrawer, DrawerAsks, Send
    <3>2. QED
      BY <1>2, <3>1 DEF DrawerRequests
  <2>4. CASE DrawerCloses \/ ToggleNode \/ StatusAnswers \/ TimerEnds \/ UNCHANGED statusVars
    <3>1. asking' \subseteq asking /\ onTab' = onTab
      BY <2>4
      DEF DrawerCloses, CloseDrawer, ToggleNode, StatusAnswers, TabAnswers, DrawerAnswers,
          PreviewAnswers, TimerEnds, statusVars
    <3>2. QED
      BY <1>2, <3>1
  <2>5. QED
    BY <1>2, <2>1, <2>2, <2>3, <2>4 DEF StatusNext
<1>3. QED
  BY <1>1, <1>2

LEMMA SameIsNotOlder ==
  ASSUME NEW x, x # Nothing => x.no \in Nat PROVE NewerThan(x, x)
  BY DEF NewerThan

LEMMA StatusStepIsGood == StatusInv /\ TabAwaits /\ [StatusNext]_statusVars => StepIsGood
<1> SUFFICES ASSUME StatusInv, TabAwaits, [StatusNext]_statusVars PROVE StepIsGood
  OBVIOUS
<1>0. DOMAIN tabView = TabFields /\ DOMAIN drawer = DrawerFields
  BY DEF StatusInv, TabIsOlder, DrawerIsOlder
<1>1. CASE OpenTab
  BY <1>0, <1>1, FreshViews, SendKeeps, EmptyingIsGood DEF OpenTab, MountTab
<1>2. CASE LeaveTab \/ EndStatus
  <2>1. asking' \subseteq asking /\ asks' = asks
    BY <1>2 DEF LeaveTab, EndStatus
  <2>2. /\ tabView' = FreshTab
        /\ drawer' = drawer \/ drawer' = FreshDrawer
    BY <1>2 DEF LeaveTab, EndStatus
  <2>3. QED
    BY <1>0, <2>1, <2>2, FreshViews, FewerKeeps, EmptyingIsGood
<1>3. CASE TabAsks
  BY <1>0, <1>3, SendKeeps, EmptyingIsGood DEF TabAsks
<1>4. CASE ToggleNode
  <2>1. UNCHANGED <<tabView, drawer, asking, asks>>
    BY <1>4 DEF ToggleNode
  <2>2. QED
    BY <1>0, <2>1, FewerKeeps, EmptyingIsGood
<1>5. CASE OpenDrawer
  <2>1. DOMAIN drawer' = DrawerFields /\ drawer'.data = drawer.data
        /\ drawer'.queries = drawer.queries
    BY <1>0, <1>5 DEF OpenDrawer, DrawerFields
  <2>2. QED
    BY <1>0, <1>5, <2>1, SendKeeps, EmptyingIsGood DEF OpenDrawer
<1>6. CASE DrawerCloses
  <2>1. asking' \subseteq asking /\ asks' = asks /\ tabView' = tabView
    BY <1>6 DEF DrawerCloses, CloseDrawer
  <2>2. drawer' = drawer \/ drawer' = [drawer EXCEPT !.queries = Nothing]
    BY <1>6 DEF DrawerCloses, CloseDrawer
  <2>3. /\ DOMAIN drawer' = DrawerFields /\ drawer'.data = drawer.data
        /\ drawer'.queries \in {drawer.queries, Nothing}
    BY <1>0, <2>2 DEF DrawerFields
  <2>4. QED
    BY <1>0, <2>1, <2>3, FewerKeeps, EmptyingIsGood
<1>7. CASE DrawerAsks
  <2>1. PICK spinner \in BOOLEAN :
          drawer' = [drawer EXCEPT !.loading = drawer.loading \/ spinner,
                                   !.error = drawer.error /\ ~spinner,
                                   !.queries = IF PreviewAborted THEN Nothing
                                               ELSE drawer.queries]
    BY <1>7, Zenon DEF DrawerAsks
  <2>2. /\ DOMAIN drawer' = DrawerFields /\ drawer'.data = drawer.data
        /\ drawer'.queries = IF PreviewAborted THEN Nothing ELSE drawer.queries
    BY <1>0, <2>1 DEF DrawerFields
  <2>3. drawer'.queries \in {drawer.queries, Nothing}
    BY <2>2
  <2>4. Send(DrawerRequests) /\ tabView' = tabView
    BY <1>7 DEF DrawerAsks
  <2>5. QED
    BY <1>0, <2>2, <2>3, <2>4, SendKeeps, EmptyingIsGood
<1>8. CASE Jump
  <2>1. CASE onTab
    <3>1. PICK target : ServeFocus(target, tabView) /\ CloseDrawer(asking) /\ asks' = asks
      BY <1>8, <2>1 DEF Jump
    <3>2. DOMAIN tabView' = TabFields /\ tabView'.data = tabView.data
      BY <1>0, <3>1, ServeFocusKeepsData
    <3>3. asking' \subseteq asking
      BY <3>1 DEF CloseDrawer
    <3>4. drawer' = drawer \/ drawer' = [drawer EXCEPT !.queries = Nothing]
      BY <3>1 DEF CloseDrawer
    <3>5. /\ DOMAIN drawer' = DrawerFields /\ drawer'.data = drawer.data
          /\ drawer'.queries \in {drawer.queries, Nothing}
      BY <1>0, <3>4 DEF DrawerFields
    <3>6. QED
      BY <3>1, <3>2, <3>3, <3>5, FewerKeeps, EmptyingIsGood
  <2>2. CASE ~onTab
    <3>1. /\ MountTab /\ asks' = asks + 1
          /\ CloseDrawer(asking \cup {[view |-> "tab", no |-> asks + 1]})
      BY <1>8, <2>2 DEF Jump
    <3>2. DOMAIN tabView' = TabFields /\ tabView'.data = Nothing
      BY <3>1, FreshViews DEF MountTab
    <3>3. drawer' = drawer \/ drawer' = [drawer EXCEPT !.queries = Nothing]
      BY <3>1 DEF CloseDrawer
    <3>4. /\ DOMAIN drawer' = DrawerFields /\ drawer'.data = drawer.data
          /\ drawer'.queries \in {drawer.queries, Nothing}
      BY <1>0, <3>3 DEF DrawerFields
    <3>5. \A a \in asking' : \/ a \in asking /\ a.view # "tab"
                             \/ a = [view |-> "tab", no |-> asks + 1]
      BY <2>2, <3>1 DEF TabAwaits, CloseDrawer
    <3>6. Numbered' /\ OneEach'
      BY <3>1, <3>5 DEF StatusInv, Numbered, OneEach
    <3>7. ASSUME NEW no, NEW v, OlderThanAwaited(no, v, asking, asks)
          PROVE  OlderThanAwaited(no, v, asking', asks')
      BY <3>1, <3>5, <3>7 DEF OlderThanAwaited, StatusInv, Numbered
    <3>8. QED
      BY <3>2, <3>4, <3>6, <3>7, EmptyingIsGood
  <2>3. QED
    BY <2>1, <2>2
<1>9. CASE TabAnswers
  <2>1. PICK a \in asking :
          /\ a.view = "tab" /\ asking' = asking \ {a} /\ asks' = asks /\ drawer' = drawer
          /\ \/ \E res \in Responses :
                  ServeFocus(focus, [tabView EXCEPT !.data = [no |-> a.no, nodes |-> res],
                                                    !.loading = FALSE, !.error = FALSE])
             \/ tabView' = [tabView EXCEPT !.loading = FALSE, !.error = TRUE]
    BY <1>9 DEF TabAnswers
  <2>2. CASE \E res \in Responses :
               ServeFocus(focus, [tabView EXCEPT !.data = [no |-> a.no, nodes |-> res],
                                                 !.loading = FALSE, !.error = FALSE])
    <3>1. PICK res : ServeFocus(focus, [tabView EXCEPT !.data = [no |-> a.no, nodes |-> res],
                                                       !.loading = FALSE, !.error = FALSE])
      BY <2>2
    <3> DEFINE view == [tabView EXCEPT !.data = [no |-> a.no, nodes |-> res],
                                       !.loading = FALSE, !.error = FALSE]
    <3>2. DOMAIN view = TabFields /\ view.data.no = a.no
      BY <1>0 DEF TabFields
    <3>3. DOMAIN tabView' = TabFields /\ tabView'.data.no = a.no
      BY <3>1, <3>2, ServeFocusKeepsData
    <3>4. /\ OlderThanAwaited(a.no, "tab", asking', asks')
          /\ \A no : OlderThanAwaited(no, "tab", asking, asks) => a.no >= no
      BY <2>1, AnswerIsYounger
    <3>5. TabIsOlder' /\ NewerThan(tabView.data, tabView'.data)
      BY <3>3, <3>4 DEF StatusInv, TabIsOlder, NewerThan
    <3>6. Numbered' /\ OneEach' /\ DrawerIsOlder'
      BY <2>1, FewerKeeps DEF StatusInv, DrawerIsOlder
    <3>7. /\ drawer.data # Nothing => drawer.data.no \in Nat
          /\ drawer.queries # Nothing => drawer.queries \in Nat
      BY DEF StatusInv, DrawerIsOlder, OlderThanAwaited
    <3>8. drawer'.data = drawer.data /\ drawer'.queries = drawer.queries
      BY <2>1
    <3>9. NewerThan(drawer.data, drawer'.data)
      BY <3>7, <3>8, SameIsNotOlder
    <3>10. drawer.queries # Nothing => drawer'.queries >= drawer.queries
      BY <3>7, <3>8
    <3>11. QED
      BY <3>5, <3>6, <3>9, <3>10 DEF StepIsGood, StatusInv
  <2>3. CASE tabView' = [tabView EXCEPT !.loading = FALSE, !.error = TRUE]
    <3>1. DOMAIN tabView' = TabFields /\ tabView'.data = tabView.data
      BY <1>0, <2>3 DEF TabFields
    <3>2. /\ Numbered' /\ OneEach'
          /\ \A no, v : OlderThanAwaited(no, v, asking, asks) =>
                          OlderThanAwaited(no, v, asking', asks')
      BY <2>1, FewerKeeps
    <3>3. QED
      BY <1>0, <2>1, <3>1, <3>2, EmptyingIsGood
  <2>4. QED
    BY <2>1, <2>2, <2>3
<1>10. CASE TimerEnds
  <2>1. DOMAIN tabView' = TabFields /\ tabView'.data = tabView.data
    BY <1>0, <1>10 DEF TimerEnds, TabFields
  <2>2. UNCHANGED <<drawer, asking, asks>>
    BY <1>10 DEF TimerEnds
  <2>3. QED
    BY <1>0, <2>1, <2>2, FewerKeeps, EmptyingIsGood
<1>11. CASE DrawerAnswers
  <2>1. PICK a \in asking :
          /\ a.view = "drawer" /\ asking' = asking \ {a} /\ asks' = asks /\ tabView' = tabView
          /\ \/ \E res \in Responses :
                  drawer' = [drawer EXCEPT !.data = [no |-> a.no, nodes |-> res],
                                           !.loading = FALSE]
             \/ drawer' = [drawer EXCEPT !.error = TRUE, !.loading = FALSE]
    BY <1>11 DEF DrawerAnswers
  <2>2. CASE \E res \in Responses :
               drawer' = [drawer EXCEPT !.data = [no |-> a.no, nodes |-> res],
                                        !.loading = FALSE]
    <3>1. /\ DOMAIN drawer' = DrawerFields /\ drawer'.data.no = a.no
          /\ drawer'.queries = drawer.queries
      BY <1>0, <2>2 DEF DrawerFields
    <3>2. /\ OlderThanAwaited(a.no, "drawer", asking', asks')
          /\ \A no : OlderThanAwaited(no, "drawer", asking, asks) => a.no >= no
      BY <2>1, AnswerIsYounger
    <3>3. /\ Numbered' /\ OneEach' /\ TabIsOlder'
          /\ drawer'.queries # Nothing =>
               OlderThanAwaited(drawer'.queries, "preview", asking', asks')
      BY <2>1, <3>1, FewerKeeps DEF StatusInv, TabIsOlder, DrawerIsOlder
    <3>4. DrawerIsOlder' /\ NewerThan(drawer.data, drawer'.data)
      BY <3>1, <3>2, <3>3 DEF StatusInv, DrawerIsOlder, NewerThan
    <3>5. /\ tabView.data # Nothing => tabView.data.no \in Nat
          /\ drawer.queries # Nothing => drawer.queries \in Nat
      BY DEF StatusInv, TabIsOlder, DrawerIsOlder, OlderThanAwaited
    <3>6. tabView'.data = tabView.data
      BY <2>1
    <3>7. NewerThan(tabView.data, tabView'.data)
      BY <3>5, <3>6, SameIsNotOlder
    <3>8. drawer.queries # Nothing => drawer'.queries >= drawer.queries
      BY <3>1, <3>5
    <3>9. QED
      BY <3>3, <3>4, <3>7, <3>8 DEF StepIsGood, StatusInv
  <2>3. CASE drawer' = [drawer EXCEPT !.error = TRUE, !.loading = FALSE]
    <3>1. /\ DOMAIN drawer' = DrawerFields /\ drawer'.data = drawer.data
          /\ drawer'.queries = drawer.queries
      BY <1>0, <2>3 DEF DrawerFields
    <3>2. /\ Numbered' /\ OneEach'
          /\ \A no, v : OlderThanAwaited(no, v, asking, asks) =>
                          OlderThanAwaited(no, v, asking', asks')
      BY <2>1, FewerKeeps
    <3>3. QED
      BY <1>0, <2>1, <3>1, <3>2, EmptyingIsGood
  <2>4. QED
    BY <2>1, <2>2, <2>3
<1>12. CASE PreviewAnswers
  <2>1. PICK a \in asking :
          /\ a.view = "preview" /\ asking' = asking \ {a} /\ asks' = asks /\ tabView' = tabView
          /\ \E q \in {a.no, Nothing} : drawer' = [drawer EXCEPT !.queries = q]
    BY <1>12 DEF PreviewAnswers
  <2>2. /\ DOMAIN drawer' = DrawerFields /\ drawer'.data = drawer.data
        /\ drawer'.queries \in {a.no, Nothing}
    BY <1>0, <2>1 DEF DrawerFields
  <2>3. /\ OlderThanAwaited(a.no, "preview", asking', asks')
        /\ \A no : OlderThanAwaited(no, "preview", asking, asks) => a.no >= no
    BY <2>1, AnswerIsYounger
  <2>4. /\ Numbered' /\ OneEach' /\ TabIsOlder'
        /\ drawer'.data # Nothing =>
             OlderThanAwaited(drawer'.data.no, "drawer", asking', asks')
    BY <2>1, <2>2, FewerKeeps DEF StatusInv, TabIsOlder, DrawerIsOlder
  <2>5. /\ DrawerIsOlder'
        /\ drawer.queries # Nothing /\ drawer'.queries # Nothing
             => drawer'.queries >= drawer.queries
    BY <2>2, <2>3, <2>4 DEF StatusInv, DrawerIsOlder
  <2>6. /\ tabView.data # Nothing => tabView.data.no \in Nat
        /\ drawer.data # Nothing => drawer.data.no \in Nat
    BY DEF StatusInv, TabIsOlder, DrawerIsOlder, OlderThanAwaited
  <2>7. QED
    BY <2>1, <2>2, <2>4, <2>5, <2>6 DEF StepIsGood, StatusInv, NewerThan
<1>13. CASE UNCHANGED statusVars
  <2>1. UNCHANGED <<tabView, drawer, asking, asks>>
    BY <1>13 DEF statusVars
  <2>2. QED
    BY <1>0, <2>1, FewerKeeps, EmptyingIsGood
<1>14. QED
  BY <1>1, <1>2, <1>3, <1>4, <1>5, <1>6, <1>7, <1>8, <1>9, <1>10, <1>11, <1>12, <1>13
  DEF StatusNext, StatusAnswers

(* Neither the tab nor the drawer ever replaces what it shows by the       *)
(* answer to an earlier request (the AbortController of both fetchData).   *)
THEOREM StatusOnlyAdvances == StatusSpec => StatusNeverGoesBack
<1>1. StatusInit => StatusInv /\ TabAwaits
  BY StatusInitInv, TabAwaitsHolds
<1>2. StatusInv /\ TabAwaits /\ [StatusNext]_statusVars => (StatusInv /\ TabAwaits)'
  BY StatusStepIsGood, TabAwaitsHolds DEF StepIsGood
<1>3. StatusInv /\ TabAwaits /\ [StatusNext]_statusVars =>
        [/\ NewerThan(tabView.data, tabView'.data)
         /\ NewerThan(drawer.data, drawer'.data)
         /\ drawer.queries # Nothing /\ drawer'.queries # Nothing
              => drawer'.queries >= drawer.queries]_statusVars
  BY StatusStepIsGood DEF StepIsGood
<1>4. QED
  BY <1>1, <1>2, <1>3, PTL DEF StatusSpec, StatusNeverGoesBack

-----------------------------------------------------------------------------
(* StatusView: the shape of the state.                                     *)

Focuses == Sections \cup ClusterNodes \cup {Nothing}
Asks == [view : {"tab"} \cup DrawerRequests, no : Nat]
TabViews ==
  [data : Shown \cup {Nothing}, loading : BOOLEAN, error : BOOLEAN,
   highlight : ClusterNodes \cup {Nothing}]
Drawers ==
  [data : Shown \cup {Nothing}, loading : BOOLEAN, error : BOOLEAN, queries : Nat \cup {Nothing}]

(* No sparkline is longer than it may be.                                  *)
Histories ==
  {s \in [ClusterNodes -> Seq(0..100)] : \A n \in ClusterNodes : Len(s[n]) <= SparkMax}

LEMMA StatusTypeIsSplit ==
  StatusTypeOK <=>
    /\ onTab \in BOOLEAN /\ tabView \in TabViews /\ sparks \in Histories /\ timers \in Nat
    /\ drawerOpen \in BOOLEAN /\ focus \in Focuses /\ expanded \subseteq ClusterNodes
    /\ drawer \in Drawers /\ asking \subseteq Asks /\ asks \in Nat
  BY DEF StatusTypeOK, TabViews, Histories, Focuses, Drawers, Asks

LEMMA FreshIsTyped ==
  FreshTab \in TabViews /\ FreshDrawer \in Drawers /\ NoSparks \in Histories
<1>1. TRUE \in BOOLEAN /\ FALSE \in BOOLEAN
  OBVIOUS
<1>2. FreshTab \in TabViews /\ FreshDrawer \in Drawers
  BY <1>1 DEF FreshTab, FreshDrawer, TabViews, Drawers
<1>3. NoSparks \in Histories
  <2>1. <<>> \in Seq(0..100) /\ Len(<<>>) = 0 /\ SparkMax >= 0
    BY StatusConstants
  <2>2. QED
    BY <2>1 DEF NoSparks, Histories
<1>4. QED
  BY <1>2, <1>3

LEMMA TailIsShorter ==
  \A s \in Seq(0..100) : s # <<>> => Tail(s) \in Seq(0..100) /\ Len(Tail(s)) = Len(s) - 1
  OBVIOUS

LEMMA PushTyped ==
  ASSUME NEW spark \in Seq(0..100), Len(spark) <= SparkMax, NEW pct \in (0..100) \cup {Nothing}
  PROVE  Push(spark, pct) \in Seq(0..100) /\ Len(Push(spark, pct)) <= SparkMax
<1> DEFINE longer == Append(spark, pct)
<1>1. CASE pct = Nothing
  BY <1>1 DEF Push
<1>2. CASE pct # Nothing
  <2>1. longer \in Seq(0..100) /\ Len(longer) = Len(spark) + 1
    BY <1>2
  <2>2. Tail(longer) \in Seq(0..100) /\ Len(Tail(longer)) = Len(spark)
    <3>1. longer # <<>> /\ Len(spark) \in Nat
      BY <2>1
    <3>2. Tail(longer) \in Seq(0..100) /\ Len(Tail(longer)) = Len(longer) - 1
      BY <2>1, <3>1, TailIsShorter
    <3>3. QED
      BY <2>1, <3>1, <3>2
  <2>3. Push(spark, pct) = IF Len(longer) > SparkMax THEN Tail(longer) ELSE longer
    BY <1>2 DEF Push
  <2>4. Len(spark) \in Nat /\ SparkMax \in Nat
    BY StatusConstants
  <2> HIDE DEF longer
  <2>5. QED
    BY <2>1, <2>2, <2>3, <2>4
<1>3. QED
  BY <1>1, <1>2

LEMMA SendTyped ==
  ASSUME asking \subseteq Asks, asks \in Nat, NEW views,
         views \subseteq {"tab"} \cup DrawerRequests, Send(views)
  PROVE  asking' \subseteq Asks /\ asks' \in Nat
<1>1. \A v \in views : [view |-> v, no |-> asks + 1] \in Asks
  BY DEF Asks
<1>2. QED
  BY <1>1 DEF Send

LEMMA ServeFocusTyped ==
  ASSUME timers \in Nat, NEW target \in Focuses, NEW view \in TabViews,
         ServeFocus(target, view)
  PROVE  focus' \in Focuses /\ tabView' \in TabViews /\ timers' \in Nat
<1>1. target = Nothing \/ target \in Sections \/ target \in ClusterNodes
  BY DEF Focuses
<1>2. target \in ClusterNodes => [view EXCEPT !.highlight = target] \in TabViews
  BY Zenon DEF TabViews
<1>3. QED
  BY <1>1, <1>2 DEF ServeFocus, Focuses

LEMMA CloseDrawerTyped ==
  ASSUME drawer \in Drawers, NEW keep, keep \subseteq Asks, CloseDrawer(keep)
  PROVE  drawerOpen' \in BOOLEAN /\ drawer' \in Drawers /\ asking' \subseteq Asks
<1>1. drawerOpen' \in BOOLEAN
  BY Zenon DEF CloseDrawer
<1>2. [drawer EXCEPT !.queries = Nothing] \in Drawers
  BY Zenon DEF Drawers
<1>3. QED
  BY <1>1, <1>2 DEF CloseDrawer

(* What a response says of the nodes it names.                             *)
LEMMA ResponsesAreTyped ==
  \A res \in Responses :
    DOMAIN res \subseteq ClusterNodes /\ \A n \in DOMAIN res : res[n].pct \in (0..100) \cup {Nothing}
<1> SUFFICES ASSUME NEW res \in Responses
             PROVE  /\ DOMAIN res \subseteq ClusterNodes
                    /\ \A n \in DOMAIN res : res[n].pct \in (0..100) \cup {Nothing}
  OBVIOUS
<1>1. PICK N \in SUBSET ClusterNodes : res \in [N -> NodeInfo]
  BY StatusConstants
<1>2. QED
  BY <1>1 DEF NodeInfo

LEMMA DisjunctionIsBoolean == \A p, q \in BOOLEAN : (p \/ q) \in BOOLEAN /\ (p /\ ~q) \in BOOLEAN
  BY Zenon

LEMMA StatusTypeInit == StatusInit => StatusTypeOK
<1> SUFFICES ASSUME StatusInit PROVE StatusTypeOK
  OBVIOUS
<1>1. onTab \in BOOLEAN /\ drawerOpen \in BOOLEAN
  BY Zenon DEF StatusInit
<1>2. QED
  BY <1>1, FreshIsTyped, StatusTypeIsSplit DEF StatusInit, Focuses

LEMMA StatusTypeNext == StatusTypeOK /\ [StatusNext]_statusVars => StatusTypeOK'
<1> SUFFICES ASSUME StatusTypeOK, [StatusNext]_statusVars PROVE StatusTypeOK'
  OBVIOUS
<1> DEFINE TabOK == onTab \in BOOLEAN /\ tabView \in TabViews /\ sparks \in Histories /\ timers \in Nat
           StoreOK == drawerOpen \in BOOLEAN /\ focus \in Focuses /\ expanded \subseteq ClusterNodes
           AsksOK == asking \subseteq Asks /\ asks \in Nat
<1>a. TabOK /\ StoreOK /\ drawer \in Drawers /\ AsksOK
  BY StatusTypeIsSplit
<1>b. TabOK' /\ StoreOK' /\ (drawer \in Drawers)' /\ AsksOK' => StatusTypeOK'
  BY DEF StatusTypeOK, TabViews, Histories, Focuses, Drawers, Asks
<1>c. Nothing \in Focuses /\ TRUE \in BOOLEAN /\ FALSE \in BOOLEAN
  BY DEF Focuses
<1>1. CASE OpenTab
  <2>1. onTab' \in BOOLEAN
    BY <1>1, Zenon DEF OpenTab, MountTab
  <2>2. AsksOK'
    BY <1>1, <1>a, SendTyped DEF OpenTab
  <2>3. QED
    BY <1>1, <1>a, <1>b, <2>1, <2>2, FreshIsTyped DEF OpenTab, MountTab, storeVars
<1>2. CASE LeaveTab
  <2>1. onTab' \in BOOLEAN
    BY <1>2, Zenon DEF LeaveTab
  <2>2. AsksOK'
    BY <1>2, <1>a DEF LeaveTab
  <2>3. QED
    BY <1>2, <1>a, <1>b, <2>1, <2>2, FreshIsTyped DEF LeaveTab, storeVars
<1>3. CASE TabAsks
  <2>1. AsksOK'
    BY <1>3, <1>a, SendTyped DEF TabAsks
  <2>2. QED
    BY <1>3, <1>a, <1>b, <2>1 DEF TabAsks, storeVars
<1>4. CASE ToggleNode
  <2>1. PICK n \in DOMAIN tabView.data.nodes :
          /\ expanded' = IF n \in expanded THEN expanded \ {n} ELSE expanded \cup {n}
          /\ tabView.data # Nothing
          /\ UNCHANGED <<onTab, tabView, sparks, timers, drawerOpen, focus, drawer, asking, asks>>
    BY <1>4, Zenon DEF ToggleNode
  <2>2. tabView.data.nodes \in Responses
    BY <1>a, <2>1 DEF TabViews, Shown
  <2>3. n \in ClusterNodes
    BY <2>2, ResponsesAreTyped
  <2>4. QED
    BY <1>a, <1>b, <2>1, <2>3
<1>5. CASE OpenDrawer
  <2>1. drawerOpen' \in BOOLEAN
    BY <1>5, Zenon DEF OpenDrawer
  <2>2. drawer' \in Drawers
    BY <1>5, <1>a, <1>c, Zenon DEF OpenDrawer, Drawers
  <2>3. AsksOK'
    BY <1>5, <1>a, SendTyped DEF OpenDrawer
  <2>4. QED
    BY <1>5, <1>a, <1>b, <2>1, <2>2, <2>3 DEF OpenDrawer
<1>6. CASE DrawerCloses
  BY <1>6, <1>a, <1>b, CloseDrawerTyped DEF DrawerCloses
<1>7. CASE DrawerAsks
  <2>1. PICK spinner \in BOOLEAN :
          drawer' = [drawer EXCEPT !.loading = drawer.loading \/ spinner,
                                   !.error = drawer.error /\ ~spinner,
                                   !.queries = IF PreviewAborted THEN Nothing
                                               ELSE drawer.queries]
    BY <1>7, Zenon DEF DrawerAsks
  <2>2. drawer.loading \in BOOLEAN /\ drawer.error \in BOOLEAN
    BY <1>a, Zenon DEF Drawers
  <2>3. (drawer.loading \/ spinner) \in BOOLEAN /\ (drawer.error /\ ~spinner) \in BOOLEAN
    BY <2>2, DisjunctionIsBoolean, Zenon
  <2>4. PICK l \in BOOLEAN, e \in BOOLEAN : l = (drawer.loading \/ spinner)
                                             /\ e = (drawer.error /\ ~spinner)
    BY <2>3, Zenon
  <2>5. PICK q \in Nat \cup {Nothing} : q = IF PreviewAborted THEN Nothing ELSE drawer.queries
    BY <1>a DEF Drawers
  <2>6. drawer' = [drawer EXCEPT !.loading = l, !.error = e, !.queries = q]
    BY <2>1, <2>4, <2>5, Zenon
  <2>7. drawer' \in Drawers
    BY <1>a, <2>6, Zenon DEF Drawers
  <2>8. AsksOK'
    BY <1>7, <1>a, SendTyped DEF DrawerAsks
  <2>9. QED
    BY <1>7, <1>a, <1>b, <2>7, <2>8 DEF DrawerAsks, storeVars
<1>8. CASE Jump
  <2>1. CASE onTab
    <3>1. PICK target \in Jumps(drawer.data.nodes) \cup {focus} :
            /\ ServeFocus(target, tabView) /\ CloseDrawer(asking)
            /\ drawer.data # Nothing
            /\ UNCHANGED <<onTab, sparks, asks, expanded>>
      BY <1>8, <2>1, Zenon DEF Jump
    <3>2. drawer.data.nodes \in Responses
      BY <1>a, <3>1 DEF Drawers, Shown
    <3>3. target \in Focuses
      BY <1>a, <3>2, ResponsesAreTyped DEF Jumps, KpiJumps, Alerts, Sections, Focuses
    <3>4. QED
      BY <1>a, <1>b, <3>1, <3>3, ServeFocusTyped, CloseDrawerTyped
  <2>2. CASE ~onTab
    <3>1. PICK target \in Jumps(drawer.data.nodes) \cup {focus} :
            /\ focus' = target /\ MountTab /\ asks' = asks + 1
            /\ CloseDrawer(asking \cup {[view |-> "tab", no |-> asks + 1]})
            /\ drawer.data # Nothing
            /\ UNCHANGED expanded
      BY <1>8, <2>2, Zenon DEF Jump
    <3>2. drawer.data.nodes \in Responses
      BY <1>a, <3>1 DEF Drawers, Shown
    <3>3. target \in Focuses
      BY <1>a, <3>2, ResponsesAreTyped DEF Jumps, KpiJumps, Alerts, Sections, Focuses
    <3>4. asking \cup {[view |-> "tab", no |-> asks + 1]} \subseteq Asks
      BY <1>a DEF Asks
    <3>5. drawerOpen' \in BOOLEAN /\ drawer' \in Drawers /\ asking' \subseteq Asks
      BY <1>a, <3>1, <3>4, CloseDrawerTyped
    <3>6. onTab' \in BOOLEAN
      BY <3>1, Zenon DEF MountTab
    <3>7. QED
      BY <1>a, <1>b, <3>1, <3>3, <3>5, <3>6, FreshIsTyped DEF MountTab
  <2>3. QED
    BY <2>1, <2>2
<1>9. CASE EndStatus
  <2>1. onTab' \in BOOLEAN /\ drawerOpen' \in BOOLEAN
    BY <1>9, Zenon DEF EndStatus
  <2>2. QED
    BY <1>9, <1>a, <1>b, <1>c, <2>1, FreshIsTyped DEF EndStatus
<1>10. CASE TabAnswers
  <2>1. PICK a \in asking :
          /\ asking' = asking \ {a}
          /\ \/ \E res \in Responses :
                  /\ ServeFocus(focus, [tabView EXCEPT !.data = [no |-> a.no, nodes |-> res],
                                                       !.loading = FALSE, !.error = FALSE])
                  /\ sparks' = [n \in ClusterNodes |->
                                  IF n \in DOMAIN res THEN Push(sparks[n], res[n].pct)
                                  ELSE sparks[n]]
             \/ /\ tabView' = [tabView EXCEPT !.loading = FALSE, !.error = TRUE]
                /\ UNCHANGED <<sparks, timers, focus>>
          /\ UNCHANGED <<onTab, drawerOpen, expanded, drawer, asks>>
    BY <1>10, Zenon DEF TabAnswers
  <2>2. a.no \in Nat
    BY <1>a DEF Asks
  <2>3. ASSUME NEW res \in Responses,
               ServeFocus(focus, [tabView EXCEPT !.data = [no |-> a.no, nodes |-> res],
                                                 !.loading = FALSE, !.error = FALSE]),
               sparks' = [n \in ClusterNodes |->
                            IF n \in DOMAIN res THEN Push(sparks[n], res[n].pct) ELSE sparks[n]]
        PROVE  StatusTypeOK'
    <3> DEFINE shown == [no |-> a.no, nodes |-> res]
               view == [tabView EXCEPT !.data = shown, !.loading = FALSE, !.error = FALSE]
    <3>1. shown \in Shown
      BY <2>2, <2>3 DEF Shown
    <3>2. view \in TabViews
      BY <1>a, <1>c, <3>1, Zenon DEF TabViews
    <3>3. focus' \in Focuses /\ tabView' \in TabViews /\ timers' \in Nat
      BY <1>a, <2>3, <3>2, ServeFocusTyped
    <3>4. \A n \in ClusterNodes : /\ sparks'[n] \in Seq(0..100)
                                  /\ Len(sparks'[n]) <= SparkMax
      <4>1. TAKE n \in ClusterNodes
      <4>2. sparks[n] \in Seq(0..100) /\ Len(sparks[n]) <= SparkMax
        BY <1>a DEF Histories
      <4>3. n \in DOMAIN res => res[n].pct \in (0..100) \cup {Nothing}
        BY <2>3, ResponsesAreTyped
      <4>4. n \in DOMAIN res => /\ Push(sparks[n], res[n].pct) \in Seq(0..100)
                                /\ Len(Push(sparks[n], res[n].pct)) <= SparkMax
        BY <4>2, <4>3, PushTyped
      <4>5. sparks'[n] = IF n \in DOMAIN res THEN Push(sparks[n], res[n].pct) ELSE sparks[n]
        BY <2>3
      <4>6. QED
        BY <4>2, <4>4, <4>5
    <3>5. sparks' \in Histories
      BY <2>3, <3>4 DEF Histories
    <3>6. QED
      BY <1>a, <1>b, <2>1, <3>3, <3>5
  <2>4. CASE /\ tabView' = [tabView EXCEPT !.loading = FALSE, !.error = TRUE]
             /\ UNCHANGED <<sparks, timers, focus>>
    <3>1. tabView' \in TabViews
      BY <1>a, <1>c, <2>4, Zenon DEF TabViews
    <3>2. QED
      BY <1>a, <1>b, <2>1, <2>4, <3>1
  <2>5. QED
    BY <2>1, <2>3, <2>4
<1>11. CASE DrawerAnswers
  <2>1. PICK a \in asking :
          /\ asking' = asking \ {a}
          /\ \/ \E res \in Responses :
                  drawer' = [drawer EXCEPT !.data = [no |-> a.no, nodes |-> res],
                                           !.loading = FALSE]
             \/ drawer' = [drawer EXCEPT !.error = TRUE, !.loading = FALSE]
          /\ UNCHANGED <<onTab, tabView, sparks, timers, storeVars, asks>>
    BY <1>11, Zenon DEF DrawerAnswers
  <2>2. \A res \in Responses : [no |-> a.no, nodes |-> res] \in Shown
    BY <1>a DEF Asks, Shown
  <2>3. drawer' \in Drawers
    <3>1. ASSUME NEW s \in Shown
          PROVE  [drawer EXCEPT !.data = s, !.loading = FALSE] \in Drawers
      BY <1>a, <1>c, Zenon DEF Drawers
    <3>2. [drawer EXCEPT !.error = TRUE, !.loading = FALSE] \in Drawers
      BY <1>a, <1>c, Zenon DEF Drawers
    <3>3. QED
      BY <2>1, <2>2, <3>1, <3>2
  <2>4. QED
    BY <1>a, <1>b, <2>1, <2>3 DEF storeVars
<1>12. CASE PreviewAnswers
  <2>1. PICK a \in asking :
          /\ asking' = asking \ {a}
          /\ \E q \in {a.no, Nothing} : drawer' = [drawer EXCEPT !.queries = q]
          /\ UNCHANGED <<onTab, tabView, sparks, timers, storeVars, asks>>
    BY <1>12, Zenon DEF PreviewAnswers
  <2>2. {a.no, Nothing} \subseteq Nat \cup {Nothing}
    BY <1>a DEF Asks
  <2>3. drawer' \in Drawers
    BY <1>a, <2>1, <2>2, Zenon DEF Drawers
  <2>4. QED
    BY <1>a, <1>b, <2>1, <2>3 DEF storeVars
<1>13. CASE TimerEnds
  <2>1. tabView' \in TabViews
    BY <1>13, <1>a, Zenon DEF TimerEnds, TabViews
  <2>2. timers' \in Nat
    BY <1>13, <1>a DEF TimerEnds
  <2>3. QED
    BY <1>13, <1>a, <1>b, <2>1, <2>2 DEF TimerEnds, storeVars
<1>14. CASE UNCHANGED statusVars
  BY <1>14, <1>a, <1>b DEF statusVars, storeVars
<1>15. QED
  BY <1>1, <1>2, <1>3, <1>4, <1>5, <1>6, <1>7, <1>8, <1>9, <1>10, <1>11, <1>12, <1>13, <1>14
  DEF StatusNext, StatusAnswers

(* The status views keep their shape; no sparkline outgrows its window     *)
(* (clusterStore, ClusterTab and ClusterDrawer).                           *)
THEOREM StatusTyped == StatusSpec => []StatusTypeOK
<1>1. StatusInit => StatusTypeOK
  BY StatusTypeInit
<1>2. StatusTypeOK /\ [StatusNext]_statusVars => StatusTypeOK'
  BY StatusTypeNext
<1>3. QED
  BY <1>1, <1>2, PTL DEF StatusSpec

-----------------------------------------------------------------------------
(* QueriesView: who may still report a killed query.                       *)

(* A list that was asked for after a KILL was acknowledged does not hold   *)
(* the query.                                                              *)
Without(rows, no) ==
  rows # Absent => \A k \in killed : no > k.after => k.query \notin rows

(* The query is not in the cluster any more, nor in the cache, nor in what *)
(* a job that started later has read; a job from before may have read it.  *)
GoneFromCluster == \A k \in killed : k.query \notin alive
GoneFromCache == cachedRun # Absent => \A k \in killed : k.query \notin cachedRun
GoneFromJobs == \A j \in jobs : Without(j.rows, j.no)
GoneFromRun == Without(run.rows, run.no)

NumbersUsed ==
  /\ reads \in Nat
  /\ \A j \in jobs : j.no \in Nat /\ j.no <= reads
  /\ run.no \in Nat /\ run.no <= reads
  /\ \A k \in killed : k.after \in Nat

Shapes ==
  /\ DOMAIN run = {"rows", "no", "failed"}
  /\ \A j \in jobs : DOMAIN j = {"no", "bypass", "rows"}

KillInv ==
  /\ NumbersUsed /\ Shapes /\ GoneFromCluster
  /\ ~overtaken => GoneFromCache /\ GoneFromJobs /\ GoneFromRun

LEMMA KillInitInv == QueriesInit => KillInv
  BY DEF QueriesInit, KillInv, NumbersUsed, Shapes, GoneFromCluster, GoneFromCache,
         GoneFromJobs, GoneFromRun, Without, NoRun

(* Another read is asked for: the new job has read nothing.                *)
LEMMA AskKeeps ==
  ASSUME KillInv, NEW bypass, NEW on, AskRunning(bypass, on),
         UNCHANGED <<alive, cachedRun, killed, overtaken>>,
         DOMAIN run' = DOMAIN run,
         run' = run \/ (run'.rows = Absent /\ run'.no = 0)
  PROVE  KillInv'
<1>1. PICK j : /\ jobs' = jobs \cup {j} /\ reads' = reads + 1
               /\ j = [no |-> reads + 1, bypass |-> bypass, rows |-> Absent]
  BY DEF AskRunning
<1>2. NumbersUsed'
  BY <1>1 DEF KillInv, NumbersUsed
<1>3. Shapes'
  BY <1>1 DEF KillInv, Shapes
<1>4. GoneFromCluster'
  BY DEF KillInv, GoneFromCluster
<1>5. ~overtaken => GoneFromCache' /\ GoneFromJobs' /\ GoneFromRun'
  BY <1>1 DEF KillInv, GoneFromCache, GoneFromJobs, GoneFromRun, Without
<1>6. QED
  BY <1>2, <1>3, <1>4, <1>5 DEF KillInv

(* What does not touch the lists but to forget or fail.                    *)
LEMMA ForgettingKeeps ==
  ASSUME KillInv, alive' \subseteq alive, cachedRun' \in {cachedRun, Absent},
         UNCHANGED <<jobs, reads, killed, overtaken>>,
         DOMAIN run' = DOMAIN run,
         (run'.rows = run.rows /\ run'.no = run.no) \/ (run'.rows = Absent /\ run'.no = 0)
  PROVE  KillInv'
<1>1. NumbersUsed' /\ Shapes' /\ GoneFromCluster'
  BY DEF KillInv, NumbersUsed, Shapes, GoneFromCluster
<1>2. ~overtaken => GoneFromCache' /\ GoneFromJobs' /\ GoneFromRun'
  BY DEF KillInv, GoneFromCache, GoneFromJobs, GoneFromRun, Without
<1>3. QED
  BY <1>1, <1>2 DEF KillInv

LEMMA KillNextInv == KillInv /\ [QueriesNext]_queriesVars => KillInv'
<1> SUFFICES ASSUME KillInv, [QueriesNext]_queriesVars PROVE KillInv'
  OBVIOUS
<1> USE DEF histVars, panelVars, killVars
<1>0. DOMAIN run = {"rows", "no", "failed"}
  BY DEF KillInv, Shapes
<1>1. CASE OpenPanel
  BY <1>1, AskKeeps DEF OpenPanel
<1>2. CASE ClosePanel
  <2>1. DOMAIN run' = DOMAIN run /\ run'.rows = Absent /\ run'.no = 0
    BY <1>0, <1>2 DEF ClosePanel, NoRun
  <2>2. QED
    BY <1>2, <2>1, ForgettingKeeps DEF ClosePanel
<1>3. CASE SelectHistory \/ ToggleErrorsOnly \/ HistoryAsks \/ ExpandRow \/ HistoryAnswers
             \/ CacheExpires \/ QueryEnds \/ Kill \/ KillFails \/ UNCHANGED queriesVars
  <2>1. /\ alive' \subseteq alive /\ cachedRun' \in {cachedRun, Absent}
        /\ UNCHANGED <<jobs, reads, killed, overtaken, run>>
    BY <1>3
    DEF SelectHistory, ToggleErrorsOnly, HistoryAsks, ExpandRow, HistoryAnswers, CacheExpires,
        QueryEnds, Kill, KillFails, queriesVars, runVars
  <2>2. QED
    BY <2>1, ForgettingKeeps
<1>4. CASE SelectRunning \/ RunningAsks
  BY <1>4, AskKeeps DEF SelectRunning, RunningAsks
<1>5. CASE SetInterval
  <2>1. CASE subtab = "running"
    BY <1>5, <2>1, AskKeeps DEF SetInterval
  <2>2. CASE subtab # "running"
    BY <1>5, <2>2, ForgettingKeeps DEF SetInterval
  <2>3. QED
    BY <2>1, <2>2
<1>6. CASE RunningFails
  <2>1. DOMAIN run' = DOMAIN run /\ run'.rows = run.rows /\ run'.no = run.no
    BY <1>0, <1>6 DEF RunningFails
  <2>2. QED
    BY <1>6, <2>1, ForgettingKeeps DEF RunningFails
<1>7. CASE JobReads
  <2>0. PICK j \in jobs :
          \E rows, b :
            /\ jobs' = (jobs \ {j}) \cup {[j EXCEPT !.rows = rows, !.bypass = b]}
            /\ (rows = cachedRun /\ cachedRun # Absent) \/ rows = alive
            /\ UNCHANGED <<alive, cachedRun, run, reads, killed, overtaken>>
    BY <1>7, Zenon DEF JobReads
  <2>1. PICK rows, b :
          /\ jobs' = (jobs \ {j}) \cup {[j EXCEPT !.rows = rows, !.bypass = b]}
          /\ (rows = cachedRun /\ cachedRun # Absent) \/ rows = alive
          /\ UNCHANGED <<alive, cachedRun, run, reads, killed, overtaken>>
    BY <2>0
  <2> DEFINE i == [j EXCEPT !.rows = rows, !.bypass = b]
  <2>2. i.no = j.no /\ i.rows = rows /\ DOMAIN i = {"no", "bypass", "rows"}
    BY DEF KillInv, Shapes
  <2>3. NumbersUsed' /\ Shapes' /\ GoneFromCluster'
    BY <2>1, <2>2 DEF KillInv, NumbersUsed, Shapes, GoneFromCluster
  <2>4. ~overtaken => \A k \in killed : k.query \notin rows
    BY <2>1 DEF KillInv, GoneFromCluster, GoneFromCache
  <2>5. ~overtaken => GoneFromJobs'
    BY <2>1, <2>2, <2>4 DEF KillInv, GoneFromJobs, Without
  <2>6. ~overtaken => GoneFromCache' /\ GoneFromRun'
    BY <2>1 DEF KillInv, GoneFromCache, GoneFromRun, Without
  <2>7. QED
    BY <2>1, <2>3, <2>5, <2>6 DEF KillInv
<1>8. CASE JobAnswers
  <2>1. PICK j \in jobs :
          /\ j.rows # Absent
          /\ jobs' = jobs \ {j}
          /\ cachedRun' = cachedRun \/ (cachedRun' = j.rows /\ j.bypass)
          /\ ~overtaken' => ~overtaken /\ ~(j.bypass /\ \E k \in killed : k.query \in j.rows)
          /\ run' = run \/ run' = [rows |-> j.rows, no |-> j.no, failed |-> FALSE]
          /\ UNCHANGED <<alive, reads, killed>>
    BY <1>8, Zenon DEF JobAnswers
  <2>2. NumbersUsed' /\ Shapes' /\ GoneFromCluster'
    BY <2>1 DEF KillInv, NumbersUsed, Shapes, GoneFromCluster
  <2>3. ASSUME ~overtaken' PROVE GoneFromCache'
    BY <2>1, <2>3 DEF KillInv, GoneFromCache
  <2>4. ASSUME ~overtaken' PROVE GoneFromJobs' /\ GoneFromRun'
    BY <2>1, <2>4 DEF KillInv, GoneFromJobs, GoneFromRun, Without
  <2>5. QED
    BY <2>2, <2>3, <2>4 DEF KillInv
<1>9. CASE KillLands
  <2>1. PICK q :
          /\ alive' = alive \ {q} /\ cachedRun' = Absent
          /\ killed' = killed \cup {[query |-> q, after |-> reads]}
          /\ jobs' = jobs \cup {[no |-> reads + 1, bypass |-> TRUE, rows |-> Absent]}
          /\ reads' = reads + 1
          /\ UNCHANGED <<run, overtaken>>
    BY <1>9 DEF KillLands, AskRunning
  <2>2. NumbersUsed' /\ Shapes' /\ GoneFromCluster'
    BY <2>1 DEF KillInv, NumbersUsed, Shapes, GoneFromCluster
  <2>3. ASSUME ~overtaken PROVE GoneFromJobs'
    BY <2>1, <2>3 DEF KillInv, NumbersUsed, GoneFromJobs, Without
  <2>4. ASSUME ~overtaken PROVE GoneFromCache' /\ GoneFromRun'
    BY <2>1, <2>4 DEF KillInv, NumbersUsed, GoneFromCache, GoneFromRun, Without
  <2>5. QED
    BY <2>1, <2>2, <2>3, <2>4 DEF KillInv
<1>10. QED
  BY <1>1, <1>2, <1>3, <1>4, <1>5, <1>6, <1>7, <1>8, <1>9 DEF QueriesNext, QueriesAnswers

(* A query the user killed is in no list asked for after the KILL was      *)
(* acknowledged, unless a read from before it was cached after it          *)
(* (cluster.py clears _queries_cache at the KILL, QueriesPanel reads past  *)
(* it).                                                                    *)
THEOREM KilledQueryStaysGone == QueriesSpec => []KilledStaysGone
<1>1. QueriesInit => KillInv
  BY KillInitInv
<1>2. KillInv /\ [QueriesNext]_queriesVars => KillInv'
  BY KillNextInv
<1>3. KillInv => KilledStaysGone
  BY DEF KillInv, GoneFromRun, Without, KilledStaysGone
<1>4. QED
  BY <1>1, <1>2, <1>3, PTL DEF QueriesSpec

-----------------------------------------------------------------------------
(* QueriesView: the recent queries.                                        *)

HistShape == DOMAIN hist = {"filter", "failed"}
FilterIsFlag == errorsOnly # Absent

(* On the recent subtab, the request that is awaited asks with the filter  *)
(* of the screen; without one, the list that is shown was asked with it.   *)
AsksWithFilter ==
  panelOn /\ subtab = "history" =>
    /\ histAwaits = Absent \/ histAwaits = errorsOnly
    /\ histAwaits = Absent => hist.failed \/ hist.filter = errorsOnly

ClosedIsRunning == ~panelOn => subtab = "running"

HistInv == HistShape /\ FilterIsFlag /\ AsksWithFilter /\ ClosedIsRunning

LEMMA FlagsAreNotAbsent == FALSE # Absent /\ \A x \in BOOLEAN : x # Absent
<1>1. Absent \notin BOOLEAN
  BY QueriesConstants
<1>2. QED
  BY <1>1, Zenon

LEMMA FlagHolds ==
  /\ QueriesInit => errorsOnly \in BOOLEAN
  /\ errorsOnly \in BOOLEAN /\ [QueriesNext]_queriesVars => errorsOnly' \in BOOLEAN
<1>1. QueriesInit => errorsOnly \in BOOLEAN
  BY Zenon DEF QueriesInit
<1>2. ASSUME errorsOnly \in BOOLEAN, [QueriesNext]_queriesVars PROVE errorsOnly' \in BOOLEAN
  <2>1. CASE ClosePanel
    BY <2>1, Zenon DEF ClosePanel
  <2>2. CASE ToggleErrorsOnly
    BY <1>2, <2>2, Zenon DEF ToggleErrorsOnly
  <2>3. CASE ~ClosePanel /\ ~ToggleErrorsOnly
    <3>1. errorsOnly' = errorsOnly
      BY <1>2, <2>3, Zenon
      DEF QueriesNext, QueriesAnswers, OpenPanel, SelectHistory, SelectRunning, SetInterval,
          RunningAsks, HistoryAsks, ExpandRow, JobReads, JobAnswers, HistoryAnswers,
          RunningFails, CacheExpires, QueryEnds, Kill, KillLands, KillFails, panelVars,
          queriesVars
    <3>2. QED
      BY <1>2, <3>1, Zenon
  <2>4. QED
    BY <2>1, <2>2, <2>3
<1>3. QED
  BY <1>1, <1>2

LEMMA HistNextInv ==
  ASSUME HistInv, errorsOnly \in BOOLEAN, errorsOnly' \in BOOLEAN, [QueriesNext]_queriesVars
  PROVE  HistInv'
<1>1. FilterIsFlag'
  BY FlagsAreNotAbsent, Zenon DEF FilterIsFlag
<1> USE <1>1 DEF HistInv, HistShape, AsksWithFilter, ClosedIsRunning
<1>2. CASE SelectHistory \/ ToggleErrorsOnly \/ HistoryAsks
  <2>1. hist' = hist /\ histAwaits' = errorsOnly'
    <3>1. SelectHistory => hist' = hist /\ histAwaits' = errorsOnly'
      BY Zenon DEF SelectHistory, AskHistory
    <3>2. ToggleErrorsOnly => hist' = hist /\ histAwaits' = errorsOnly'
      BY Zenon DEF ToggleErrorsOnly, AskHistory
    <3>3. HistoryAsks => hist' = hist /\ histAwaits' = errorsOnly'
      BY Zenon DEF HistoryAsks, AskHistory, panelVars
    <3>4. QED
      BY <1>2, <3>1, <3>2, <3>3
  <2>2. panelOn'
    BY <1>2 DEF SelectHistory, ToggleErrorsOnly, HistoryAsks
  <2>3. QED
    BY <2>1, <2>2 DEF FilterIsFlag
<1>3. CASE SelectRunning
  BY <1>3 DEF SelectRunning
<1>4. CASE OpenPanel
  BY <1>4 DEF OpenPanel, panelVars, histVars
<1>5. CASE ClosePanel
  BY <1>5 DEF ClosePanel, NoHist
<1>6. CASE SetInterval
  <2>1. CASE subtab = "running"
    BY <1>6, <2>1 DEF SetInterval, histVars
  <2>2. CASE subtab # "running"
    <3>1. panelOn' /\ hist' = hist /\ histAwaits' = errorsOnly' /\ subtab' = subtab
      BY <1>6, <2>2, Zenon DEF SetInterval, AskHistory
    <3>2. QED
      BY <3>1 DEF FilterIsFlag
  <2>3. QED
    BY <2>1, <2>2
<1>7. CASE HistoryAnswers
  <2>1. /\ UNCHANGED <<panelOn, subtab, errorsOnly>> /\ histAwaits # Absent
        /\ histAwaits' = Absent
        /\ \/ hist' = [filter |-> histAwaits, failed |-> FALSE]
           \/ hist' = [hist EXCEPT !.failed = TRUE]
    BY <1>7 DEF HistoryAnswers, panelVars
  <2>2. DOMAIN hist' = {"filter", "failed"}
    BY <2>1
  <2>3. hist'.failed \/ hist'.filter = histAwaits
    BY <2>1
  <2>4. QED
    BY <2>1, <2>2, <2>3
<1>8. CASE ~(SelectHistory \/ ToggleErrorsOnly \/ HistoryAsks \/ SelectRunning \/ OpenPanel
               \/ ClosePanel \/ SetInterval \/ HistoryAnswers)
  <2>1. UNCHANGED <<panelOn, subtab, errorsOnly, hist, histAwaits>>
    BY <1>8
    DEF QueriesNext, QueriesAnswers, RunningAsks, ExpandRow, JobReads, JobAnswers,
        RunningFails, CacheExpires, QueryEnds, Kill, KillLands, KillFails, panelVars,
        histVars, queriesVars
  <2>2. QED
    BY <2>1
<1>9. QED
  BY <1>2, <1>3, <1>4, <1>5, <1>6, <1>7, <1>8

(* The recent queries on the screen were asked for with the filter on the  *)
(* screen (the aborts of useQueryHistory's effects).                       *)
THEOREM RecentQueriesMatchFilter == QueriesSpec => []HistoryMatchesFilter
<1>1. QueriesInit => HistInv /\ errorsOnly \in BOOLEAN
  <2> SUFFICES ASSUME QueriesInit PROVE HistInv /\ errorsOnly \in BOOLEAN
    OBVIOUS
  <2>1. errorsOnly \in BOOLEAN
    BY FlagHolds
  <2>2. FilterIsFlag
    BY <2>1, FlagsAreNotAbsent, Zenon DEF FilterIsFlag
  <2>3. subtab = "running" /\ hist = NoHist
    BY DEF QueriesInit
  <2>4. QED
    BY <2>1, <2>2, <2>3 DEF HistInv, HistShape, AsksWithFilter, ClosedIsRunning, NoHist
<1>2. HistInv /\ errorsOnly \in BOOLEAN /\ [QueriesNext]_queriesVars =>
        (HistInv /\ errorsOnly \in BOOLEAN)'
  BY FlagHolds, HistNextInv
<1>3. HistInv => HistoryMatchesFilter
  BY DEF HistInv, AsksWithFilter, HistoryMatchesFilter, HistoryShows
<1>4. QED
  BY <1>1, <1>2, <1>3, PTL DEF QueriesSpec

-----------------------------------------------------------------------------
(* QueriesView: the shape of the state.                                    *)

Lists == (SUBSET Queries) \cup {Absent}
Jobs == [no : Nat, bypass : BOOLEAN, rows : Lists]
Runs == [rows : Lists, no : Nat, failed : BOOLEAN]
Hists == [filter : BOOLEAN \cup {Absent}, failed : BOOLEAN]

QueryFlags == panelOn \in BOOLEAN /\ errorsOnly \in BOOLEAN /\ overtaken \in BOOLEAN
ServerOK == alive \subseteq Queries /\ cachedRun \in Lists
RunningOK ==
  /\ jobs \subseteq Jobs /\ run \in Runs /\ denied \in BOOLEAN /\ runAwaits \in Nat /\ reads \in Nat
HistoryOK == hist \in Hists /\ histAwaits \in BOOLEAN \cup {Absent}
KillsOK ==
  /\ expandedRow \in Queries \cup {Absent} /\ kills \subseteq Queries
  /\ killed \subseteq [query : Queries, after : Nat] /\ killCount \in Nat
SubtabOK == subtab \in {"running", "history"}

QueriesOK == QueryFlags /\ ServerOK /\ RunningOK /\ HistoryOK /\ KillsOK /\ SubtabOK

LEMMA QueriesTypeIsSplit == QueriesOK <=> QueriesTypeOK
  BY DEF QueriesOK, QueryFlags, ServerOK, RunningOK, HistoryOK, KillsOK, SubtabOK, QueriesTypeOK,
         Lists, Jobs, Runs, Hists

LEMMA QueryFlagsNext == QueryFlags /\ [QueriesNext]_queriesVars => QueryFlags'
<1> SUFFICES ASSUME QueryFlags, [QueriesNext]_queriesVars PROVE QueryFlags'
  OBVIOUS
<1>1. errorsOnly' \in BOOLEAN
  BY FlagHolds DEF QueryFlags
<1>2. panelOn' \in BOOLEAN
  <2>1. CASE OpenPanel \/ ClosePanel
    BY <2>1, Zenon DEF OpenPanel, ClosePanel
  <2>2. CASE ~OpenPanel /\ ~ClosePanel
    <3>1. panelOn' = panelOn
      BY <2>2, Zenon
      DEF QueriesNext, QueriesAnswers, SelectHistory, SelectRunning, SetInterval,
          ToggleErrorsOnly, RunningAsks, HistoryAsks, ExpandRow, JobReads, JobAnswers,
          HistoryAnswers, RunningFails, CacheExpires, QueryEnds, Kill, KillLands, KillFails,
          queriesVars
    <3>2. QED
      BY <3>1, Zenon DEF QueryFlags
  <2>3. QED
    BY <2>1, <2>2
<1>3. overtaken' \in BOOLEAN
  <2>1. CASE JobAnswers
    BY <2>1, Zenon DEF JobAnswers
  <2>2. CASE ~JobAnswers
    <3>1. overtaken' = overtaken
      BY <2>2, Zenon
      DEF QueriesNext, QueriesAnswers, OpenPanel, ClosePanel, SelectHistory, SelectRunning,
          SetInterval, ToggleErrorsOnly, RunningAsks, HistoryAsks, ExpandRow, JobReads,
          HistoryAnswers, RunningFails, CacheExpires, QueryEnds, Kill, KillLands, KillFails,
          queriesVars
    <3>2. QED
      BY <3>1, Zenon DEF QueryFlags
  <2>3. QED
    BY <2>1, <2>2
<1>4. QED
  BY <1>1, <1>2, <1>3 DEF QueryFlags

LEMMA AskTyped ==
  ASSUME RunningOK, NEW bypass \in BOOLEAN, NEW on, AskRunning(bypass, on)
  PROVE  jobs' \subseteq Jobs /\ runAwaits' \in Nat /\ reads' \in Nat
<1>1. [no |-> reads + 1, bypass |-> bypass, rows |-> Absent] \in Jobs
  BY DEF RunningOK, Jobs, Lists
<1>2. QED
  BY <1>1 DEF AskRunning, RunningOK

LEMMA QueriesTypeInit == QueriesInit => QueriesOK
<1> SUFFICES ASSUME QueriesInit PROVE QueriesOK
  OBVIOUS
<1>1. QueryFlags /\ denied \in BOOLEAN /\ NoRun.failed \in BOOLEAN /\ NoHist.failed \in BOOLEAN
  BY Zenon DEF QueriesInit, QueryFlags, NoRun, NoHist
<1>2. NoRun \in Runs /\ NoHist \in Hists
  BY <1>1 DEF NoRun, NoHist, Runs, Hists, Lists
<1>3. QED
  BY <1>1, <1>2
  DEF QueriesInit, QueriesOK, ServerOK, RunningOK, HistoryOK, KillsOK, SubtabOK, Lists

LEMMA QueriesTypeNext == QueriesOK /\ [QueriesNext]_queriesVars => QueriesOK'
<1> SUFFICES ASSUME QueriesOK, [QueriesNext]_queriesVars PROVE QueriesOK'
  OBVIOUS
<1>0. QueryFlags'
  BY QueryFlagsNext DEF QueriesOK
<1>a. QueryFlags /\ ServerOK /\ RunningOK /\ HistoryOK /\ KillsOK /\ SubtabOK
  BY DEF QueriesOK
<1>b. ServerOK' /\ RunningOK' /\ HistoryOK' /\ KillsOK' /\ SubtabOK' => QueriesOK'
  BY <1>0 DEF QueriesOK
<1>c. TRUE \in BOOLEAN /\ FALSE \in BOOLEAN /\ Absent \in Lists
  BY DEF Lists
<1>d. NoRun \in Runs /\ NoHist \in Hists
  BY <1>c DEF NoRun, NoHist, Runs, Hists
<1> USE DEF panelVars, histVars, killVars
<1>1. CASE OpenPanel
  <2>1. jobs' \subseteq Jobs /\ runAwaits' \in Nat /\ reads' \in Nat
    BY <1>1, <1>a, <1>c, AskTyped DEF OpenPanel
  <2>2. QED
    BY <1>1, <1>a, <1>b, <2>1
    DEF OpenPanel, ServerOK, RunningOK, HistoryOK, KillsOK, SubtabOK
<1>2. CASE ClosePanel
  <2>1. denied' \in BOOLEAN
    BY <1>2, Zenon DEF ClosePanel
  <2>2. QED
    BY <1>2, <1>a, <1>b, <1>d, <2>1
    DEF ClosePanel, ServerOK, RunningOK, HistoryOK, KillsOK, SubtabOK
<1>3. CASE SelectHistory
  <2>1. histAwaits' \in BOOLEAN \cup {Absent} /\ hist' = hist
    BY <1>3, <1>a, Zenon DEF SelectHistory, AskHistory, QueryFlags
  <2>2. QED
    BY <1>3, <1>a, <1>b, <2>1
    DEF SelectHistory, ServerOK, RunningOK, HistoryOK, KillsOK, SubtabOK
<1>4. CASE SelectRunning
  <2>1. jobs' \subseteq Jobs /\ runAwaits' \in Nat /\ reads' \in Nat
    BY <1>4, <1>a, <1>c, AskTyped DEF SelectRunning
  <2>2. QED
    BY <1>4, <1>a, <1>b, <2>1
    DEF SelectRunning, ServerOK, RunningOK, HistoryOK, KillsOK, SubtabOK
<1>5. CASE SetInterval
  <2>1. CASE subtab = "running"
    <3>1. jobs' \subseteq Jobs /\ runAwaits' \in Nat /\ reads' \in Nat
      BY <1>5, <1>a, <1>c, <2>1, AskTyped DEF SetInterval
    <3>2. QED
      BY <1>5, <1>a, <1>b, <2>1, <3>1
      DEF SetInterval, ServerOK, RunningOK, HistoryOK, KillsOK, SubtabOK
  <2>2. CASE subtab # "running"
    <3>1. histAwaits' \in BOOLEAN \cup {Absent} /\ hist' = hist
      BY <1>5, <1>a, <2>2, Zenon DEF SetInterval, AskHistory, QueryFlags
    <3>2. QED
      BY <1>5, <1>a, <1>b, <2>2, <3>1
      DEF SetInterval, ServerOK, RunningOK, HistoryOK, KillsOK, SubtabOK
  <2>3. QED
    BY <2>1, <2>2
<1>6. CASE ToggleErrorsOnly
  <2>1. (~errorsOnly) \in BOOLEAN
    BY <1>a, Zenon DEF QueryFlags
  <2>2. histAwaits' \in BOOLEAN \cup {Absent} /\ hist' = hist
    BY <1>6, <2>1, Zenon DEF ToggleErrorsOnly, AskHistory
  <2>3. QED
    BY <1>6, <1>a, <1>b, <2>2
    DEF ToggleErrorsOnly, runVars, ServerOK, RunningOK, HistoryOK, KillsOK, SubtabOK
<1>7. CASE RunningAsks
  <2>1. PICK byUser \in BOOLEAN :
          /\ AskRunning(byUser, TRUE)
          /\ UNCHANGED <<alive, cachedRun, panelOn, panelVars, run, denied, histVars, killVars,
                         overtaken>>
    BY <1>7, Zenon DEF RunningAsks
  <2>2. jobs' \subseteq Jobs /\ runAwaits' \in Nat /\ reads' \in Nat
    BY <1>a, <2>1, AskTyped
  <2>3. QED
    BY <1>a, <1>b, <2>1, <2>2 DEF ServerOK, RunningOK, HistoryOK, KillsOK, SubtabOK
<1>8. CASE HistoryAsks
  <2>1. histAwaits' \in BOOLEAN \cup {Absent} /\ hist' = hist
    BY <1>8, <1>a, Zenon DEF HistoryAsks, AskHistory, QueryFlags
  <2>2. QED
    BY <1>8, <1>a, <1>b, <2>1
    DEF HistoryAsks, runVars, ServerOK, RunningOK, HistoryOK, KillsOK, SubtabOK
<1>9. CASE ExpandRow
  <2>1. run.rows \in SUBSET Queries
    BY <1>9, <1>a DEF ExpandRow, RunningShows, RunningOK, Runs, Lists
  <2>2. expandedRow' \in Queries \cup {Absent}
    BY <1>9, <2>1 DEF ExpandRow
  <2>3. QED
    BY <1>9, <1>a, <1>b, <2>2
    DEF ExpandRow, runVars, ServerOK, RunningOK, HistoryOK, KillsOK, SubtabOK
<1>10. CASE JobReads
  <2>1. PICK j \in jobs :
          /\ jobs' = (jobs \ {j}) \cup
               {[j EXCEPT !.rows = IF ~j.bypass /\ cachedRun # Absent THEN cachedRun ELSE alive,
                          !.bypass = j.bypass \/ cachedRun = Absent]}
          /\ UNCHANGED <<alive, cachedRun, panelOn, panelVars, run, denied, runAwaits, reads,
                         histVars, killVars, overtaken>>
    BY <1>10, Zenon DEF JobReads
  <2>2. PICK rows \in Lists :
          rows = IF ~j.bypass /\ cachedRun # Absent THEN cachedRun ELSE alive
    BY <1>a DEF ServerOK, Lists
  <2>3. (j.bypass \/ cachedRun = Absent) \in BOOLEAN
    BY Zenon
  <2>4. PICK b \in BOOLEAN : b = (j.bypass \/ cachedRun = Absent)
    BY <2>3, Zenon
  <2>5. jobs' = (jobs \ {j}) \cup {[j EXCEPT !.rows = rows, !.bypass = b]}
    BY <2>1, <2>2, <2>4, Zenon
  <2>6. [j EXCEPT !.rows = rows, !.bypass = b] \in Jobs
    <3>1. j \in Jobs
      BY <1>a DEF RunningOK
    <3>2. QED
      BY <3>1, Zenon DEF Jobs
  <2>7. jobs' \subseteq Jobs
    BY <1>a, <2>5, <2>6 DEF RunningOK
  <2>8. QED
    BY <1>a, <1>b, <2>1, <2>7 DEF ServerOK, RunningOK, HistoryOK, KillsOK, SubtabOK
<1>11. CASE JobAnswers
  <2>1. PICK j \in jobs :
          /\ jobs' = jobs \ {j}
          /\ cachedRun' \in {j.rows, cachedRun}
          /\ runAwaits' \in {0, runAwaits}
          /\ run' = run \/ run' = [rows |-> j.rows, no |-> j.no, failed |-> FALSE]
          /\ denied' = denied \/ denied' = FALSE
          /\ UNCHANGED <<alive, panelVars, reads, histVars, killVars>>
    BY <1>11, Zenon DEF JobAnswers
  <2>2. j \in Jobs
    BY <1>a DEF RunningOK
  <2>3. j.rows \in Lists /\ j.no \in Nat
    BY <2>2 DEF Jobs
  <2>4. run' \in Runs
    <3>1. [rows |-> j.rows, no |-> j.no, failed |-> FALSE] \in Runs
      BY <1>c, <2>3 DEF Runs
    <3>2. QED
      BY <1>a, <2>1, <3>1, Zenon DEF RunningOK
  <2>5. denied' \in BOOLEAN
    BY <1>a, <1>c, <2>1, Zenon DEF RunningOK
  <2>6. ServerOK'
    BY <1>a, <2>1, <2>3 DEF ServerOK
  <2>7. RunningOK'
    BY <1>a, <2>1, <2>4, <2>5 DEF RunningOK
  <2>8. QED
    BY <1>a, <1>b, <2>1, <2>6, <2>7 DEF HistoryOK, KillsOK, SubtabOK
<1>12. CASE HistoryAnswers
  <2>1. /\ histAwaits' = Absent
        /\ \/ hist' = [filter |-> histAwaits, failed |-> FALSE]
           \/ hist' = [hist EXCEPT !.failed = TRUE]
    BY <1>12, Zenon DEF HistoryAnswers
  <2>2. hist' \in Hists
    <3>1. [filter |-> histAwaits, failed |-> FALSE] \in Hists
      BY <1>a, <1>c, Zenon DEF HistoryOK, Hists
    <3>2. [hist EXCEPT !.failed = TRUE] \in Hists
      BY <1>a, <1>c, Zenon DEF HistoryOK, Hists
    <3>3. QED
      BY <2>1, <3>1, <3>2, Zenon
  <2>3. QED
    BY <1>12, <1>a, <1>b, <2>1, <2>2
    DEF HistoryAnswers, runVars, ServerOK, RunningOK, HistoryOK, KillsOK, SubtabOK
<1>13. CASE RunningFails
  <2>1. denied' \in BOOLEAN
    BY <1>13, <1>a, Zenon DEF RunningFails, RunningOK
  <2>2. run' \in Runs
    BY <1>13, <1>a, Zenon DEF RunningFails, RunningOK, Runs
  <2>3. QED
    BY <1>13, <1>a, <1>b, <2>1, <2>2
    DEF RunningFails, ServerOK, RunningOK, HistoryOK, KillsOK, SubtabOK
<1>14. CASE CacheExpires \/ QueryEnds \/ KillFails
  BY <1>14, <1>a, <1>b
  DEF CacheExpires, QueryEnds, KillFails, runVars, ServerOK, RunningOK, HistoryOK, KillsOK,
      SubtabOK, Lists
<1>15. CASE Kill
  <2>1. expandedRow \in Queries
    BY <1>15, <1>a DEF Kill, KillsOK
  <2>2. QED
    BY <1>15, <1>a, <1>b, <2>1
    DEF Kill, runVars, ServerOK, RunningOK, HistoryOK, KillsOK, SubtabOK
<1>16. CASE KillLands
  <2>1. PICK k \in kills :
          /\ alive' = alive \ {k} /\ cachedRun' = Absent /\ kills' = kills \ {k}
          /\ killed' = killed \cup {[query |-> k, after |-> reads]}
          /\ expandedRow' = Absent
          /\ AskRunning(TRUE, panelOn)
          /\ UNCHANGED <<panelOn, subtab, errorsOnly, run, denied, histVars, killCount,
                         overtaken>>
    BY <1>16, Zenon DEF KillLands
  <2>2. jobs' \subseteq Jobs /\ runAwaits' \in Nat /\ reads' \in Nat
    BY <1>a, <1>c, <2>1, AskTyped
  <2>3. [query |-> k, after |-> reads] \in [query : Queries, after : Nat]
    BY <1>a DEF KillsOK, RunningOK
  <2>4. QED
    BY <1>a, <1>b, <1>c, <2>1, <2>2, <2>3 DEF ServerOK, RunningOK, HistoryOK, KillsOK, SubtabOK
<1>17. CASE UNCHANGED queriesVars
  BY <1>17, <1>a, <1>b
  DEF queriesVars, runVars, ServerOK, RunningOK, HistoryOK, KillsOK, SubtabOK
<1>18. QED
  BY <1>1, <1>2, <1>3, <1>4, <1>5, <1>6, <1>7, <1>8, <1>9, <1>10, <1>11, <1>12, <1>13, <1>14,
     <1>15, <1>16, <1>17
  DEF QueriesNext, QueriesAnswers

(* The queries panel, the server's jobs and its cache keep their shape     *)
(* (useRunningQueries, useQueryHistory, cluster.py).                       *)
THEOREM QueriesTyped == QueriesSpec => []QueriesTypeOK
<1>1. QueriesInit => QueriesOK
  BY QueriesTypeInit
<1>2. QueriesOK /\ [QueriesNext]_queriesVars => QueriesOK'
  BY QueriesTypeNext
<1>3. QueriesOK => QueriesTypeOK
  BY QueriesTypeIsSplit
<1>4. QED
  BY <1>1, <1>2, <1>3, PTL DEF QueriesSpec
=============================================================================
