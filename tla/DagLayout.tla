------------------------------ MODULE DagLayout ------------------------------
(***************************************************************************)
(* How a graph becomes a drawing: which nodes the filters leave, which of  *)
(* them lie in the container of a group, and where boxes come to lie.      *)
(*                                                                         *)
(* A graph is a record of the community module Graphs with, besides, the   *)
(* order of its edges.  Lengths are pixels; dagre, which is not part of    *)
(* the repository, gives the boxes their first places, and halves of a     *)
(* pixel are rounded up.                                                   *)
(***************************************************************************)
EXTENDS Integers, Sequences, SequencesExt, FiniteSetsExt, Graphs

CONSTANTS
  GraphNodes,   \* identities of nodes
  NodeType,     \* the type of a node
  GroupNodes,   \* nodes whose role in the graph is "group"
  Above,        \* the names of a node, its database and its catalog
  Builtin       \* built-in roles

ASSUME DagConstants ==
  /\ GroupNodes \subseteq GraphNodes /\ Builtin \subseteq GraphNodes
  /\ NodeType \in [GraphNodes -> STRING]
  /\ DOMAIN Above = GraphNodes

StructuralTypes == {"system", "catalog", "database"}

(* What a search finds that starts at some nodes and goes on from every    *)
(* node that was not found before: the least set that its steps do not     *)
(* leave.  "next" gives the neighbours of a node.                          *)
Search(found, start, next) ==
  LET closed == {s \in SUBSET DOMAIN next :
                   found \subseteq s /\ \A n \in start \cup (s \ found) : next[n] \subseteq s}
  IN {m \in DOMAIN next : \A s \in closed : m \in s}

-----------------------------------------------------------------------------
(* Filtering                                                               *)

(* A filter hides types and names, or all but the structure and groups.    *)
VisibleNodes(g, filter) ==
  {n \in g.node :
     /\ NodeType[n] \notin filter.types
     /\ filter.groupsOnly => n \in GroupNodes \/ NodeType[n] \in StructuralTypes
     /\ Above[n] \cap filter.names = {}}

(* The edges that put a node into the container of a group: both are       *)
(* left by the filters.                                                    *)
ContainerEdges(g, shown, group) ==
  {i \in DOMAIN g.edges : /\ g.edges[i][1] = group
                          /\ group \in GroupNodes \cap shown /\ g.edges[i][2] \in shown}

Children(g, shown) ==
  {g.edges[i][2] : i \in UNION {ContainerEdges(g, shown, c) : c \in GroupNodes}}

(* A group's children take its slots in the order of the edges.            *)
Slot(i, edges) == Cardinality({j \in edges : j <= i})

Contents(g, shown, group) ==
  {[id |-> g.edges[i][2], group |-> group, slot |-> Slot(i, ContainerEdges(g, shown, group))] :
     i \in ContainerEdges(g, shown, group)}

(* What is drawn: a node that is nobody's child in a place of its own, a   *)
(* child in a slot of its group's container.                               *)
Drawing(g, filter) ==
  LET shown == VisibleNodes(g, filter)
  IN {[id |-> n, group |-> n, slot |-> 0] : n \in shown \ Children(g, shown)}
     \cup UNION {Contents(g, shown, c) : c \in GroupNodes}

-----------------------------------------------------------------------------
(* Containers                                                              *)

Box(x, y, w, h) == [x |-> x, y |-> y, w |-> w, h |-> h]

NodeW == 160
NodeH == 40
ChildW == 168
ChildH == 34
CellW == ChildW + 16
CellH == ChildH + 16
HeaderH == 32
Gap == 20

(* FAULT: the last row is not counted when it is not full.                 *)
RowsFilled(count) == count \div 3

Rows(count) == (count + 2) \div 3
Columns(count) == Min({count, 3})

ContainerSize(count) ==
  [w |-> Max({NodeW, Columns(count) * CellW + 38}),
   h |-> Max({NodeH, HeaderH + Rows(count) * CellH + 34})]

(* A child, counted from 0, within its container.                          *)
ChildBox(i, count) ==
  LET size == ContainerSize(count)
      left == (size.w - Columns(count) * CellW) \div 2
      top == HeaderH + (size.h - HeaderH - Rows(count) * CellH) \div 2
  IN Box(left + (i % 3) * CellW + (CellW - ChildW) \div 2,
         top + (i \div 3) * CellH + (CellH - ChildH) \div 2, ChildW, ChildH)

(* The groups of one parent in a row below it, centred.                    *)
GroupRow(parent, groups) ==
  LET total == FoldLeft(LAMBDA sum, b : sum + b.w + Gap, 0, groups) - Gap
      start == parent.x + ChildW \div 2 - total \div 2
      before(i) == FoldLeft(LAMBDA sum, b : sum + b.w + Gap, 0, SubSeq(groups, 1, i - 1))
  IN [i \in 1..Len(groups) |->
        [groups[i] EXCEPT !.x = start + before(i), !.y = parent.y + parent.h + Gap]]

(* The box around some boxes.                                              *)
Around(boxes) ==
  LET left == Min({b.x : b \in boxes})
      top == Min({b.y : b \in boxes})
  IN Box(left, top, Max({b.x + b.w : b \in boxes}) - left,
                    Max({b.y + b.h : b \in boxes}) - top)

-----------------------------------------------------------------------------
(* Role map: every connected component is laid out by itself.              *)

IsRoleMap(nodes) ==
  LET types == {NodeType[n] : n \in nodes}
  IN "role" \in types /\ types \cap {"table", "database"} = {}

(* What a search without directions finds from a node.                     *)
ComponentOf(n, nodes, edges) ==
  Search({n}, {n}, [m \in nodes |->
    {k \in nodes : \E i \in DOMAIN edges : edges[i] \in {<<m, k>>, <<k, m>>}}])

Components(nodes, edges) == {ComponentOf(n, nodes, edges) : n \in nodes}

(* The built-in roles of a component go to one height above the rest.      *)
LiftBuiltins(height) ==
  LET builtin == DOMAIN height \cap Builtin
      others == DOMAIN height \ Builtin
      lowest(ns) == Min({height[n] : n \in ns})
      target == Min({lowest(builtin), lowest(IF others # {} THEN others ELSE builtin) - 100})
  IN [n \in DOMAIN height |-> IF n \in builtin THEN target ELSE height[n]]

(* Components side by side, each a sequence of boxes, 80 apart.            *)
Abreast(comps) ==
  LET around(i) == Around(ToSet(comps[i]))
      offset[i \in 1..Len(comps)] ==
        IF i = 1 THEN 0 ELSE offset[i - 1] + around(i - 1).w + 80
  IN [i \in 1..Len(comps) |->
        [j \in 1..Len(comps[i]) |->
           [comps[i][j] EXCEPT !.x = @ + offset[i] - around(i).x, !.y = @ - around(i).y]]]

-----------------------------------------------------------------------------
(* Pushing boxes apart                                                     *)

(* How far a box is pushed off one that comes after it, 0 when they do not *)
(* overlap.  A box left of its predecessor counts as overlapping it, so    *)
(* the two change sides.                                                   *)
PushApart(a, b) ==
  LET overX == a.x + a.w + Gap - b.x
      overY == Min({a.y + a.h, b.y + b.h}) - Max({a.y, b.y})
  IN IF overX > 0 /\ overY > 0 THEN (overX + 1) \div 2 + Gap \div 2 ELSE 0

(* The pairs of a pass in the order of its two loops.                      *)
Pairs(count) ==
  FlattenSeq([i \in 1..count |-> [d \in 1..(count - i) |-> <<i, i + d>>]])

Pass(boxes) ==
  FoldLeft(LAMBDA bs, p :
             LET push == PushApart(bs[p[1]], bs[p[2]])
             IN [bs EXCEPT ![p[1]].x = @ - push, ![p[2]].x = @ + push],
           boxes, Pairs(Len(boxes)))

MaxPasses == 50

(* The loop ends when a pass changes nothing.                              *)
Separate(boxes) ==
  LET after[k \in 0..MaxPasses] == IF k = 0 THEN boxes ELSE Pass(after[k - 1])
  IN after[CHOOSE k \in 0..MaxPasses : k = MaxPasses \/ Pass(after[k]) = after[k]]

-----------------------------------------------------------------------------
Overlap(a, b) ==
  /\ a.x < b.x + b.w /\ b.x < a.x + a.w
  /\ a.y < b.y + b.h /\ b.y < a.y + a.h

Within(b, w, h) == b.x >= 0 /\ b.x + b.w <= w /\ b.y >= HeaderH /\ b.y + b.h <= h

NoneOverlap(boxes) ==
  \A i, j \in 1..Len(boxes) : i # j => ~Overlap(boxes[i], boxes[j])
=============================================================================
