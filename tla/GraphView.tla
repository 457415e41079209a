------------------------------ MODULE GraphView ------------------------------
(***************************************************************************)
(* The graph of a tab on the screen: DAGView with its layout and highlight *)
(* hooks, the filters of the toolbar and of the sidebar, and the selection *)
(* they share through the graph store.  The graph itself comes and goes by *)
(* the store's loads (Workspace).                                          *)
(*                                                                         *)
(* A node is selected by its name and type, which are taken to identify it.*)
(***************************************************************************)
EXTENDS DagLayout

CONSTANTS
  ServedGraphs,  \* graphs the server may answer with
  HidableTypes, HidableNames, \* what the filters can hide
  Unset,         \* null
  MaxContainer,  \* bound: children of a container whose layout is checked
  StartBoxes     \* places dagre may give to boxes, as sequences of boxes

ASSUME GraphViewConstants ==
  /\ \A g \in ServedGraphs :
       /\ g.node \subseteq GraphNodes
       /\ g.edges \in Seq(GraphNodes \X GraphNodes) /\ g.edge = ToSet(g.edges)
  /\ Unset \notin GraphNodes
  /\ MaxContainer \in Nat

VARIABLES
  mounted,  \* the graph view is on the screen
  gData,    \* dagData of the store
  drawn,    \* nodes of the drawing
  filter,   \* visibleTypes, groupsOnly and hiddenNodes of the store
  clicked,  \* clickedNodeId
  selected, panel, members \* store: selectedNode, panelMode, groupChildren

graphVars == <<mounted, gData, drawn, filter, clicked, selected, panel, members>>

NoFilter == [types |-> {}, groupsOnly |-> FALSE, names |-> {}]

-----------------------------------------------------------------------------
(* Highlighting                                                            *)

(* FAULT: the search upwards starts from everything found so far.          *)
ConnectedToAll(g, n) ==
  LET below == Search({n}, {n}, [m \in g.node |-> Successors(g, m)])
  IN Search(below, below, [m \in g.node |-> Predecessors(g, m)])

(* Down from the clicked node, then up from it, into one set.              *)
Connected(g, n) ==
  LET below == Search({n}, {n}, [m \in g.node |-> Successors(g, m)])
  IN Search(below, {n}, [m \in g.node |-> Predecessors(g, m)])

Highlights == [g \in ServedGraphs |-> [n \in g.node |-> Connected(g, n)]]

Lit == IF clicked = Unset \/ gData = Unset THEN {} ELSE Highlights[gData][clicked]

(* The node of the graph that matches the selection is highlighted when    *)
(* either changes; without a match the highlight stays as it is.           *)
Match(g, sel, otherwise) ==
  IF g = Unset THEN otherwise ELSE IF sel \in g.node THEN sel ELSE otherwise

(* The layout follows the graph and the filter; without a graph the        *)
(* drawing stays as it is.                                                 *)
LayOut(g, f) == drawn' = IF g # Unset /\ mounted THEN Drawing(g, f) ELSE drawn

-----------------------------------------------------------------------------
GraphInit ==
  /\ mounted = FALSE /\ gData = Unset /\ drawn = {} /\ filter = NoFilter
  /\ clicked = Unset /\ selected = Unset /\ panel = Unset /\ members = {}

(* A graph tab is entered or left for a tab without a graph; the drawing   *)
(* and the highlight are the view's own.                                   *)
EnterGraph ==
  /\ ~mounted
  /\ mounted' = TRUE
  /\ drawn' = IF gData # Unset THEN Drawing(gData, filter) ELSE {}
  /\ clicked' = Match(gData, selected, Unset)
  /\ UNCHANGED <<gData, filter, selected, panel, members>>

LeaveGraph ==
  /\ mounted
  /\ mounted' = FALSE /\ drawn' = {} /\ clicked' = Unset
  /\ UNCHANGED <<gData, filter, selected, panel, members>>

(* The store's graph is cleared for a load, arrives, or is taken from the  *)
(* cache.                                                                  *)
GraphChanges ==
  \E g \in ServedGraphs \cup {Unset} :
    /\ g # gData
    /\ gData' = g
    /\ LayOut(g, filter)
    /\ clicked' = IF mounted THEN Match(g, selected, clicked) ELSE clicked
    /\ UNCHANGED <<mounted, filter, selected, panel, members>>

PanelFor(n) ==
  IF n \in GroupNodes THEN "group" ELSE IF NodeType[n] = "user" THEN "user" ELSE "object"

(* A click on a node of an old drawing, while there is no graph, is lost.  *)
ClickNode ==
  /\ mounted /\ gData # Unset
  /\ \E d \in drawn :
       /\ d.id \in gData.node
       /\ clicked' = d.id /\ selected' = d.id /\ panel' = PanelFor(d.id)
       /\ members' = IF d.id \in GroupNodes THEN Successors(gData, d.id) ELSE members
  /\ UNCHANGED <<mounted, gData, drawn, filter>>

ClickPane ==
  /\ mounted /\ clicked # Unset
  /\ clicked' = Unset
  /\ UNCHANGED <<mounted, gData, drawn, filter, selected, panel, members>>

(* An item of the sidebar, of its search results, or of the group panel.   *)
Select ==
  \E n \in (GraphNodes \ GroupNodes) \cup (IF panel = "group" THEN members ELSE {}) :
    /\ selected' = n
    /\ panel' = IF NodeType[n] = "user" THEN "user" ELSE "object"
    /\ clicked' = IF mounted THEN Match(gData, n, clicked) ELSE clicked
    /\ UNCHANGED <<mounted, gData, drawn, filter, members>>

CloseDetails ==
  /\ panel # Unset /\ panel' = Unset
  /\ UNCHANGED <<mounted, gData, drawn, filter, clicked, selected, members>>

SetFilter(f) ==
  /\ filter' = f
  /\ LayOut(gData, f)
  /\ UNCHANGED <<mounted, gData, clicked, selected, panel, members>>

Toggled(set, x) == IF x \in set THEN set \ {x} ELSE set \cup {x}

ToggleType == mounted /\ \E t \in HidableTypes : SetFilter([filter EXCEPT !.types = Toggled(@, t)])

SetGroupsOnly == mounted /\ SetFilter([filter EXCEPT !.groupsOnly = ~@])

(* FAULT: the drawing is made without hiddenNodes among its dependencies.  *)
ToggleNodeVisibilityOnly ==
  /\ mounted
  /\ \E n \in HidableNames : filter' = [filter EXCEPT !.names = Toggled(@, n)]
  /\ UNCHANGED <<mounted, gData, drawn, clicked, selected, panel, members>>

(* The eye of an item in the sidebar, which graph tabs have.               *)
ToggleNodeVisibility ==
  mounted /\ \E n \in HidableNames : SetFilter([filter EXCEPT !.names = Toggled(@, n)])

GraphNext ==
  \/ EnterGraph \/ LeaveGraph \/ GraphChanges \/ ClickNode \/ ClickPane \/ Select
  \/ CloseDetails \/ ToggleType \/ SetGroupsOnly \/ ToggleNodeVisibility

GraphSpec == GraphInit /\ [][GraphNext]_graphVars

-----------------------------------------------------------------------------
(* The nodes that lie in every set that holds one node and, with each of   *)
(* its members, that member's neighbours.                                  *)
Reach(n, next) ==
  {m \in DOMAIN next : \A s \in SUBSET DOMAIN next :
     n \in s /\ (\A k \in s : next[k] \subseteq s) => m \in s}

Downward(g, n) == Reach(n, [m \in g.node |-> Successors(g, m)])
Upward(g, n) == Reach(n, [m \in g.node |-> Predecessors(g, m)])

(* What graphs are like, beyond what this code sees to.                    *)

(* No node has another one above it and below it: StarRocks refuses to     *)
(* grant a role to one that holds it, and the graph of objects is a tree.  *)
NoCycles == \A g \in ServedGraphs : \A n \in g.node : Downward(g, n) \cap Upward(g, n) = {n}

(* An object is listed once, in one group: object_dag.py gives it one node *)
(* and one edge.  Two objects of one database whose ids agree would break  *)
(* it.                                                                     *)
OneGroupEach ==
  \A g \in ServedGraphs : \A i, j \in DOMAIN g.edges :
    {g.edges[i][1], g.edges[j][1]} \subseteq GroupNodes /\ g.edges[i][2] = g.edges[j][2] => i = j

-----------------------------------------------------------------------------
GraphTypeOK ==
  /\ mounted \in BOOLEAN
  /\ gData \in ServedGraphs \cup {Unset}
  /\ drawn \subseteq [id : GraphNodes, group : GraphNodes, slot : Nat]
  /\ filter \in [types : SUBSET HidableTypes, groupsOnly : BOOLEAN, names : SUBSET HidableNames]
  /\ {clicked, selected} \subseteq GraphNodes \cup {Unset}
  /\ panel \in {"object", "user", "group", Unset}
  /\ members \subseteq GraphNodes

Lineages == [g \in ServedGraphs |-> [n \in g.node |-> Downward(g, n) \cup Upward(g, n)]]

(* With a node of the graph highlighted, what stays lit are its ancestors, *)
(* its descendants and itself: nothing that is only connected through      *)
(* them, and nothing less, although both searches fill one set.            *)
HighlightIsLineage ==
  Match(gData, clicked, Unset) # Unset => Lit = Lineages[gData][clicked]

(* Whatever was filtered while graphs came and went, every node of the     *)
(* graph that the filters leave is drawn, and drawn once.                  *)
DrawnOnce ==
  mounted /\ gData # Unset =>
    \A n \in GraphNodes :
      Cardinality({d \in drawn : d.id = n}) = IF n \in VisibleNodes(gData, filter) THEN 1 ELSE 0

(* Wherever dagre puts boxes first, the passes leave them clear of each    *)
(* other, and so do the rows of groups and the components side by side.    *)
BoxesApart ==
  \A boxes \in StartBoxes :
    /\ NoneOverlap(Separate(boxes))
    /\ NoneOverlap(<<boxes[1]>> \o GroupRow(boxes[1], Tail(boxes)))
    /\ NoneOverlap(FlattenSeq(Abreast([i \in 1..Len(boxes) |-> <<boxes[i]>>])))

(* So many children lie in their container, below its header.              *)
ContainerHolds(count) ==
  LET size == ContainerSize(count)
      children == [i \in 1..count |-> ChildBox(i - 1, count)]
  IN NoneOverlap(children) /\ \A i \in 1..count : Within(children[i], size.w, size.h)

(* The components of a role map share nothing and are whole, and their     *)
(* built-in roles lie above the rest.                                      *)
ComponentsApart(g) ==
  \A c \in Components(g.node, g.edges) :
    /\ \A d \in Components(g.node, g.edges) : c = d \/ c \cap d = {}
    /\ \A e \in g.edge \cap (g.node \X g.node) : e[1] \in c <=> e[2] \in c
    /\ c \cap Builtin # {} =>
         \A height \in [c -> {0, NodeH}] : \A b \in c \cap Builtin, n \in c \ Builtin :
           LiftBuiltins(height)[b] + NodeH < LiftBuiltins(height)[n]

LayoutsApart ==
  /\ BoxesApart
  /\ \A count \in 1..MaxContainer : ContainerHolds(count)
  /\ \A g \in {h \in ServedGraphs : IsRoleMap(h.node)} : ComponentsApart(g)

(* Nothing is drawn over anything else: the children of every group on the *)
(* screen take the first slots of a container that holds them, one each,   *)
(* whatever the filters left of them, and boxes, components and built-in   *)
(* roles are kept apart.                                                   *)
LaidOutApart ==
  /\ LayoutsApart
  /\ \A c \in GroupNodes :
       LET inside == {d \in drawn : d.group = c /\ d.slot > 0}
       IN {d.slot : d \in inside} = 1..Cardinality(inside) /\ ContainerHolds(Cardinality(inside))
=============================================================================
