----------------------------- MODULE MCFrontend -----------------------------
(* Two users, one of them an administrator, a frontend and a backend node, *)
(* an object graph with a group and a role map with a diamond.             *)
EXTENDS Frontend

CONSTANTS
  a, b,                           \* users
  fe, be,                         \* cluster nodes
  cat, db, tables, t1, t2, t3, t4,\* an object graph
  root, lone, ra, rb, rc, member  \* a role map

MCAdmin == [u \in {a, b} |-> u = a]

(* All is well; a backend is not; a limited response without backends.     *)
Info(well, pct) == [well |-> well, pct |-> pct]
MCResponses ==
  {[n \in {fe, be} |-> IF n = fe THEN Info(TRUE, 50) ELSE Info(TRUE, 90)],
   [n \in {fe, be} |-> IF n = fe THEN Info(TRUE, 50) ELSE Info(FALSE, Nothing)],
   [n \in {fe} |-> Info(TRUE, 60)]}

(* A database with a group of four tables, a diamond of roles.             *)
WithEdge(nodes, edges) == [node |-> nodes, edges |-> edges, edge |-> ToSet(edges)]
ObjectGraph ==
  WithEdge({cat, db, tables, t1, t2, t3, t4},
           <<<<cat, db>>, <<db, tables>>, <<tables, t1>>, <<tables, t2>>, <<tables, t3>>,
             <<tables, t4>>>>)
RoleMap ==
  WithEdge({root, lone, ra, rb, rc, member},
           <<<<root, ra>>, <<root, rb>>, <<ra, rc>>, <<rb, rc>>, <<rc, member>>>>)
MCGraphs == {ObjectGraph, RoleMap}

(* The graphs are what the theorems suppose, and the nodes reached up or   *)
(* down are those of module Graphs.                                        *)
ASSUME MCGraphsAreServed == NoCycles /\ OneGroupEach
ASSUME MCReach ==
  \A g \in MCGraphs :
    LET joined == ConnectionsIn(g)
    IN \A m, n \in g.node : /\ m \in Downward(g, n) <=> joined[n, m]
                            /\ m \in Upward(g, n) <=> joined[m, n]

MCNodes == ObjectGraph.node \cup RoleMap.node
MCType ==
  [n \in MCNodes |-> CASE n = cat -> "catalog" [] n = db -> "database"
                       [] n \in {tables, t1, t2, t3, t4} -> "table"
                       [] n = member -> "user" [] OTHER -> "role"]
MCAbove == [n \in MCNodes |-> {n} \cup IF n \in ObjectGraph.node THEN {cat} ELSE {}]

(* Three boxes, clear of each other, overlapping, or swapped.              *)
MCBoxes ==
  {[i \in 1..3 |-> Box(xs[i], ys[i], NodeW, NodeH)] :
     xs \in [1..3 -> {0, 100, 250}], ys \in [1..3 -> {0, 30}]}
=============================================================================
