-------------------------- MODULE RoleSearchProofs --------------------------
(***************************************************************************)
(* What the upward role searches find, for every role graph, every limit   *)
(* and any changes to the role grants while a search runs.                 *)
(***************************************************************************)
EXTENDS RoleSearch, FiniteSetTheorems, TLAPS

QueueIndices == 1..Len(queue)
Queued == {queue[i][1] : i \in QueueIndices}
Root == {root} \ {None}

(* The history variables enclose the role grants while a search runs.      *)
HistoryBrackets ==
  \A r \in Roles :
    /\ always[r] \subseteq ever[r]
    /\ pc = "search" => always[r] \subseteq parents[r] /\ parents[r] \subseteq ever[r]

(* Every entry of the queue is truthful about its seed.                    *)
QueueTruthful ==
  \A i \in QueueIndices :
    /\ queue[i][2] \in seeds
    /\ queue[i][1] \in Inherited(ever, {queue[i][2]})

(* An entry for a seed that came through another seed stands behind the    *)
(* seed's own entry, or the seed has been visited.                         *)
SeedsFirst ==
  \A i \in QueueIndices :
    queue[i][1] \in seeds \ visited =>
      \E j \in 1..i : queue[j] = <<queue[i][1], queue[i][1]>>

(* A seed is in the queue under its own name until it is visited.          *)
SeedsQueued ==
  \A s \in seeds \ visited : \E i \in QueueIndices : queue[i] = <<s, s>>

(* Every parent of a visited role is visited or queued.                    *)
Frontier ==
  pc # "idle" /\ ~failed => \A r \in visited : always[r] \subseteq visited \cup Queued

VisitedInherited == visited \subseteq Inherited(ever, seeds) \cup Root

(* A finished search has nothing left in the queue or has hit the limit.   *)
FinishedOrFull ==
  pc = "done" => queue = <<>> \/ (kind # "ancestors" /\ Cardinality(visited) >= Limit)

(* Between two searches there is no result.                                *)
IdleClean == pc = "idle" => \A r \in Roles : origin[r] = None

IInv ==
  /\ TypeOK
  /\ HistoryBrackets
  /\ QueueTruthful
  /\ SeedsFirst
  /\ SeedsQueued
  /\ Frontier
  /\ VisitedInherited
  /\ FinishedOrFull
  /\ OriginTruthful
  /\ DirectIsItsOwnOrigin
  /\ IdleClean

-----------------------------------------------------------------------------
(* Sequences of roles and of queue entries                                 *)

(* A listing of a set is a sequence of its elements, of all of them.       *)
LEMMA ListingProperties ==
  ASSUME NEW S \in SUBSET Roles, NEW l \in Listings(S)
  PROVE  /\ l \in Seq(Roles)
         /\ Len(l) \in Nat
         /\ \A i \in 1..Len(l) : l[i] \in S
         /\ \A x \in S : \E i \in 1..Len(l) : l[i] = x
<1>1. Cardinality(S) \in Nat
  BY FS_Subset, FS_CardinalityType, ConstantsAssumption
<1>2. l \in [1..Cardinality(S) -> S] /\ \A x \in S : \E i \in 1..Cardinality(S) : l[i] = x
  BY DEF Listings
<1>3. l \in Seq(S) /\ Len(l) = Cardinality(S)
  BY <1>1, <1>2
<1> QED
  BY <1>1, <1>2, <1>3

(* The entries of a query's roles under the roles' own names.              *)
LEMMA SelvesProperties ==
  ASSUME NEW l \in Seq(Roles)
  PROVE  /\ Selves(l) \in Seq(Roles \X Roles)
         /\ Len(Selves(l)) = Len(l)
         /\ \A i \in 1..Len(l) : Selves(l)[i] = <<l[i], l[i]>>
BY DEF Selves

(* The entries of a query's roles under a seed.                            *)
LEMMA ViaProperties ==
  ASSUME NEW l \in Seq(Roles), NEW s \in Roles
  PROVE  /\ Via(l, s) \in Seq(Roles \X Roles)
         /\ Len(Via(l, s)) = Len(l)
         /\ \A i \in 1..Len(l) : Via(l, s)[i] = <<l[i], s>>
BY DEF Via

(* What popping an entry and entering others does to a queue.              *)
LEMMA PopAndEnter ==
  ASSUME NEW q \in Seq(Roles \X Roles), q # <<>>, NEW new \in Seq(Roles \X Roles)
  PROVE  /\ Head(q) = q[1]
         /\ Tail(q) \in Seq(Roles \X Roles)
         /\ Tail(q) \o new \in Seq(Roles \X Roles)
         /\ Len(q) \in Nat \ {0}
         /\ Len(Tail(q) \o new) = Len(q) - 1 + Len(new)
         /\ \A i \in 1..Len(q) - 1 : (Tail(q) \o new)[i] = q[i + 1]
         /\ \A i \in 1..Len(new) : (Tail(q) \o new)[Len(q) - 1 + i] = new[i]
<1>1. Len(q) \in Nat \ {0} /\ Len(new) \in Nat
  OBVIOUS
<1>2. Head(q) = q[1] /\ Tail(q) \in Seq(Roles \X Roles) /\ Len(Tail(q)) = Len(q) - 1
  OBVIOUS
<1>3. \A i \in 1..Len(q) - 1 : Tail(q)[i] = q[i + 1]
  OBVIOUS
<1>4. Tail(q) \o new \in Seq(Roles \X Roles) /\ Len(Tail(q) \o new) = Len(q) - 1 + Len(new)
  BY <1>2
<1>5. \A i \in 1..Len(q) - 1 : (Tail(q) \o new)[i] = Tail(q)[i]
  BY <1>1, <1>2
<1>6. ASSUME NEW i \in 1..Len(new)
      PROVE  (Tail(q) \o new)[Len(q) - 1 + i] = new[i]
  BY <1>1, <1>2
<1> QED
  BY <1>1, <1>2, <1>3, <1>4, <1>5, <1>6

-----------------------------------------------------------------------------
(* Inheritance                                                             *)

(* Inherited(E, S) contains S.                                             *)
LEMMA InheritedSelf ==
  ASSUME NEW E, NEW S \in SUBSET Roles
  PROVE  S \subseteq Inherited(E, S)
BY DEF Inherited

(* It is closed under E.                                                   *)
LEMMA InheritedStep ==
  ASSUME NEW E \in [Roles -> SUBSET Roles], NEW S, NEW r \in Inherited(E, S), NEW p \in E[r]
  PROVE  p \in Inherited(E, S)
BY DEF Inherited

(* It is the least such set.                                               *)
LEMMA InheritedLeast ==
  ASSUME NEW E, NEW S, NEW C \in SUBSET Roles, S \subseteq C, \A c \in C : E[c] \subseteq C
  PROVE  Inherited(E, S) \subseteq C
BY DEF Inherited

(* It grows with E and S.                                                  *)
LEMMA InheritedMonotone ==
  ASSUME NEW E \in [Roles -> SUBSET Roles], NEW F \in [Roles -> SUBSET Roles],
         NEW S, NEW T, S \subseteq T, \A r \in Roles : E[r] \subseteq F[r]
  PROVE  Inherited(E, S) \subseteq Inherited(F, T)
<1> SUFFICES ASSUME NEW r \in Inherited(E, S), NEW C \in SUBSET Roles,
                    T \subseteq C, \A c \in C : F[c] \subseteq C
             PROVE  r \in C
  BY DEF Inherited
<1>1. S \subseteq C /\ \A c \in C : E[c] \subseteq C
  OBVIOUS
<1> QED
  BY <1>1 DEF Inherited

-----------------------------------------------------------------------------
(* The inductive invariant                                                 *)

LEMMA InitIInv == Init => IInv
<1> SUFFICES ASSUME Init PROVE IInv
  OBVIOUS
<1>1. TypeOK
  <2>1. changes \in 0..MaxChanges
    BY ConstantsAssumption DEF Init
  <2>2. queue \in Seq(Roles \X Roles)
    BY DEF Init
  <2>3. ever \in [Roles -> SUBSET Roles] /\ always \in [Roles -> SUBSET Roles]
    BY DEF Init, NoGrants
  <2>4. origin \in [Roles -> Roles \cup {None}]
    BY DEF Init
  <2> QED
    BY <2>1, <2>2, <2>3, <2>4 DEF Init, TypeOK
<1>2. QueueIndices = {}
  BY DEF Init, QueueIndices
<1>3. HistoryBrackets /\ Frontier /\ FinishedOrFull
  BY DEF Init, NoGrants, HistoryBrackets, Frontier, FinishedOrFull
<1>4. QueueTruthful /\ SeedsFirst /\ SeedsQueued
  BY <1>2 DEF Init, QueueTruthful, SeedsFirst, SeedsQueued
<1>5. VisitedInherited /\ OriginTruthful /\ DirectIsItsOwnOrigin /\ IdleClean
  BY DEF Init, VisitedInherited, OriginTruthful, DirectIsItsOwnOrigin, IdleClean
<1> QED
  BY <1>1, <1>3, <1>4, <1>5 DEF IInv

(* What a queue that was just filled with a listing of seeds satisfies.    *)
LEMMA FreshQueue ==
  ASSUME TypeOK,
         NEW r \in Roles \cup {None},
         pc' = "search", root' = r, visited' = {r} \ {None}, ever' = parents, always' = parents,
         UNCHANGED <<parents, changes, origin>>,
         kind' \in {"chain", "role", "ancestors"}, failed' \in BOOLEAN,
         seeds' \in SUBSET Roles,
         queue' \in Seq(Roles \X Roles),
         \A i \in 1..Len(queue') : \E s \in seeds' : queue'[i] = <<s, s>>,
         \A s \in seeds' : \E i \in 1..Len(queue') : queue'[i] = <<s, s>>,
         \A x \in Roles : origin[x] = None,
         ~failed' => \A x \in visited' : parents[x] \subseteq seeds'
  PROVE  IInv'
<1>1. TypeOK'
  BY DEF TypeOK
<1>2. HistoryBrackets'
  BY DEF HistoryBrackets
<1>3. QueueTruthful'
  <2> SUFFICES ASSUME NEW i \in 1..Len(queue')
               PROVE  queue'[i][2] \in seeds' /\ queue'[i][1] \in Inherited(ever', {queue'[i][2]})
    BY DEF QueueTruthful, QueueIndices
  <2>1. PICK s \in seeds' : queue'[i] = <<s, s>>
    OBVIOUS
  <2>2. {s} \subseteq Inherited(ever', {s})
    BY InheritedSelf
  <2> QED
    BY <2>1, <2>2
<1>4. SeedsFirst'
  <2> SUFFICES ASSUME NEW i \in 1..Len(queue')
               PROVE  \E j \in 1..i : queue'[j] = <<queue'[i][1], queue'[i][1]>>
    BY DEF SeedsFirst, QueueIndices
  <2>1. PICK s \in seeds' : queue'[i] = <<s, s>>
    OBVIOUS
  <2>2. i \in 1..i
    OBVIOUS
  <2> QED
    BY <2>1, <2>2
<1>5. SeedsQueued'
  BY DEF SeedsQueued, QueueIndices
<1>6. Frontier'
  <2>1. seeds' \subseteq Queued'
    <3> SUFFICES ASSUME NEW s \in seeds' PROVE s \in Queued'
      OBVIOUS
    <3>1. PICK i \in 1..Len(queue') : queue'[i] = <<s, s>>
      OBVIOUS
    <3> QED
      BY <3>1 DEF Queued, QueueIndices
  <2> QED
    BY <2>1 DEF Frontier
<1>7. VisitedInherited'
  BY DEF VisitedInherited, Root
<1>8. FinishedOrFull'
  BY DEF FinishedOrFull
<1>9. OriginTruthful' /\ DirectIsItsOwnOrigin' /\ IdleClean'
  BY ConstantsAssumption DEF OriginTruthful, DirectIsItsOwnOrigin, IdleClean
<1> QED
  BY <1>1, <1>2, <1>3, <1>4, <1>5, <1>6, <1>7, <1>8, <1>9 DEF IInv

LEMMA BeginChainStep ==
  ASSUME IInv, NEW assigned \in SUBSET Roles, BeginChain(assigned)
  PROVE  IInv'
<1>1. PICK direct \in Answers(assigned) :
        /\ seeds' = direct \cup {Public}
        /\ failed' = (direct # assigned)
        /\ \E l \in Listings(direct) :
             queue' = IF Public \in direct THEN Selves(l) ELSE Append(Selves(l), <<Public, Public>>)
  BY DEF BeginChain
<1>2. PICK l \in Listings(direct) :
        queue' = IF Public \in direct THEN Selves(l) ELSE Append(Selves(l), <<Public, Public>>)
  BY <1>1
<1>3. direct \in SUBSET Roles
  BY DEF Answers
<1>4. /\ l \in Seq(Roles)
      /\ Len(l) \in Nat
      /\ \A i \in 1..Len(l) : l[i] \in direct
      /\ \A x \in direct : \E i \in 1..Len(l) : l[i] = x
  BY <1>3, ListingProperties
<1>5. /\ Selves(l) \in Seq(Roles \X Roles)
      /\ Len(Selves(l)) = Len(l)
      /\ \A i \in 1..Len(l) : Selves(l)[i] = <<l[i], l[i]>>
  BY <1>4, SelvesProperties
<1>6. Public \in Roles /\ None \notin Roles
  BY ConstantsAssumption
<1>7. /\ queue' \in Seq(Roles \X Roles)
      /\ \A i \in 1..Len(queue') : \E s \in seeds' : queue'[i] = <<s, s>>
      /\ \A s \in seeds' : \E i \in 1..Len(queue') : queue'[i] = <<s, s>>
  <2>1. CASE Public \in direct
    <3>1. queue' = Selves(l) /\ seeds' = direct
      BY <1>1, <1>2, <2>1
    <3> QED
      BY <3>1, <1>4, <1>5
  <2>2. CASE Public \notin direct
    <3>1. queue' = Append(Selves(l), <<Public, Public>>)
      BY <1>2, <2>2
    <3>2. /\ queue' \in Seq(Roles \X Roles)
          /\ Len(queue') = Len(l) + 1
          /\ \A i \in 1..Len(l) : queue'[i] = <<l[i], l[i]>>
          /\ queue'[Len(l) + 1] = <<Public, Public>>
      BY <3>1, <1>4, <1>5, <1>6
    <3>3. ASSUME NEW i \in 1..Len(queue')
          PROVE  \E s \in seeds' : queue'[i] = <<s, s>>
      <4>1. CASE i \in 1..Len(l)
        <5>1. queue'[i] = <<l[i], l[i]>> /\ l[i] \in seeds'
          BY <4>1, <3>2, <1>4, <1>1
        <5> QED
          BY <5>1
      <4>2. CASE i = Len(l) + 1
        BY <4>2, <3>2, <1>1
      <4> QED
        BY <4>1, <4>2, <3>2, <1>4
    <3>4. ASSUME NEW s \in seeds'
          PROVE  \E i \in 1..Len(queue') : queue'[i] = <<s, s>>
      <4>1. CASE s \in direct
        <5>1. PICK i \in 1..Len(l) : l[i] = s
          BY <4>1, <1>4
        <5>2. i \in 1..Len(queue') /\ queue'[i] = <<s, s>>
          BY <5>1, <3>2, <1>4
        <5> QED
          BY <5>2
      <4>2. CASE s = Public
        <5>1. Len(l) + 1 \in 1..Len(queue')
          BY <3>2, <1>4
        <5> QED
          BY <5>1, <4>2, <3>2
      <4> QED
        BY <4>1, <4>2, <1>1
    <3> QED
      BY <3>2, <3>3, <3>4
  <2> QED
    BY <2>1, <2>2
<1>8. TypeOK /\ \A x \in Roles : origin[x] = None
  BY DEF IInv, IdleClean, BeginChain, Begin
<1>9. visited' = {}
  BY DEF BeginChain, Begin
<1> QED
  <2>1. /\ pc' = "search" /\ root' = None /\ kind' = "chain"
        /\ ever' = parents /\ always' = parents
        /\ UNCHANGED <<parents, changes, origin>>
    BY DEF BeginChain, Begin, graph
  <2>2. failed' \in BOOLEAN /\ seeds' \in SUBSET Roles
    BY <1>1, <1>3, <1>6
  <2> QED
    BY <1>7, <1>8, <1>9, <2>1, <2>2, FreshQueue

LEMMA BeginRoleStep ==
  ASSUME IInv, NEW k \in {"role", "ancestors"}, NEW r \in Roles, BeginRole(k, r)
  PROVE  IInv'
<1>1. PICK answer \in Answers(parents[r]) :
        /\ seeds' = answer
        /\ failed' = (answer # parents[r])
        /\ \E l \in Listings(answer) : queue' = Selves(l)
  BY DEF BeginRole
<1>2. PICK l \in Listings(answer) : queue' = Selves(l)
  BY <1>1
<1>3. TypeOK /\ \A x \in Roles : origin[x] = None
  BY DEF IInv, IdleClean, BeginRole, Begin
<1>4. answer \in SUBSET Roles
  BY <1>3 DEF Answers, TypeOK
<1>5. /\ l \in Seq(Roles)
      /\ Len(l) \in Nat
      /\ \A i \in 1..Len(l) : l[i] \in answer
      /\ \A x \in answer : \E i \in 1..Len(l) : l[i] = x
  BY <1>4, ListingProperties
<1>6. /\ Selves(l) \in Seq(Roles \X Roles)
      /\ Len(Selves(l)) = Len(l)
      /\ \A i \in 1..Len(l) : Selves(l)[i] = <<l[i], l[i]>>
  BY <1>5, SelvesProperties
<1>7. /\ queue' \in Seq(Roles \X Roles)
      /\ \A i \in 1..Len(queue') : \E s \in seeds' : queue'[i] = <<s, s>>
      /\ \A s \in seeds' : \E i \in 1..Len(queue') : queue'[i] = <<s, s>>
  BY <1>1, <1>2, <1>5, <1>6
<1>8. visited' = {r}
  BY ConstantsAssumption DEF BeginRole, Begin
<1> QED
  BY <1>1, <1>3, <1>4, <1>7, <1>8, FreshQueue DEF BeginRole, Begin, graph

LEMMA SkipStep ==
  ASSUME IInv, Skip
  PROVE  IInv'
<1>1. /\ TypeOK /\ queue # <<>> /\ pc = "search" /\ queue' = Tail(queue)
      /\ HeadRole \in visited
      /\ UNCHANGED <<graph, pc, kind, root, seeds, visited, origin, ever, always, failed>>
  BY DEF IInv, Skip, Searching
<1>2. /\ HeadRole = queue[1][1]
      /\ queue' \in Seq(Roles \X Roles)
      /\ Len(queue) \in Nat \ {0}
      /\ Len(queue') = Len(queue) - 1
      /\ \A i \in 1..Len(queue') : queue'[i] = queue[i + 1]
  BY <1>1 DEF TypeOK, HeadRole
<1>3. \A i \in 1..Len(queue') : i + 1 \in 1..Len(queue) /\ queue'[i] = queue[i + 1]
  BY <1>2
<1>4. TypeOK'
  BY <1>1, <1>2 DEF TypeOK, graph
<1>5. HistoryBrackets' /\ VisitedInherited' /\ OriginTruthful' /\ DirectIsItsOwnOrigin' /\ IdleClean'
  BY <1>1 DEF IInv, HistoryBrackets, VisitedInherited, OriginTruthful, DirectIsItsOwnOrigin, IdleClean,
              Root, Inherited, graph
<1>6. QueueTruthful'
  <2> SUFFICES ASSUME NEW i \in 1..Len(queue')
               PROVE  queue'[i][2] \in seeds /\ queue'[i][1] \in Inherited(ever, {queue'[i][2]})
    BY <1>1 DEF QueueTruthful, QueueIndices, Inherited
  <2> QED
    BY <1>3 DEF IInv, QueueTruthful, QueueIndices
<1>7. ASSUME NEW s \in seeds \ visited, NEW i \in 1..Len(queue), queue[i] = <<s, s>>
      PROVE  i - 1 \in 1..Len(queue') /\ queue'[i - 1] = <<s, s>>
  <2>1. i # 1
    BY <1>1, <1>2, <1>7
  <2>2. i - 1 \in 1..Len(queue') /\ (i - 1) + 1 = i
    BY <2>1, <1>2
  <2>3. queue'[i - 1] = queue[(i - 1) + 1]
    BY <2>2, <1>2
  <2> QED
    BY <2>2, <2>3, <1>7
<1>8. SeedsQueued'
  <2> SUFFICES ASSUME NEW s \in seeds \ visited
               PROVE  \E i \in 1..Len(queue') : queue'[i] = <<s, s>>
    BY <1>1 DEF SeedsQueued, QueueIndices
  <2>1. PICK i \in 1..Len(queue) : queue[i] = <<s, s>>
    BY DEF IInv, SeedsQueued, QueueIndices
  <2> QED
    BY <2>1, <1>7
<1>9. SeedsFirst'
  <2> SUFFICES ASSUME NEW i \in 1..Len(queue'), queue'[i][1] \in seeds \ visited
               PROVE  \E j \in 1..i : queue'[j] = <<queue'[i][1], queue'[i][1]>>
    BY <1>1 DEF SeedsFirst, QueueIndices
  <2>1. PICK j \in 1..(i + 1) : queue[j] = <<queue'[i][1], queue'[i][1]>>
    BY <1>3 DEF IInv, SeedsFirst, QueueIndices
  <2>2. j \in 1..Len(queue)
    BY <1>2
  <2>3. j - 1 \in 1..Len(queue') /\ queue'[j - 1] = <<queue'[i][1], queue'[i][1]>>
    BY <2>1, <2>2, <1>7
  <2>4. j - 1 \in 1..i
    BY <2>3, <1>2
  <2> QED
    BY <2>3, <2>4
<1>10. Frontier'
  <2>1. Queued \subseteq visited \cup Queued'
    <3> SUFFICES ASSUME NEW i \in 1..Len(queue), queue[i][1] \notin visited
                 PROVE  \E j \in 1..Len(queue') : queue'[j][1] = queue[i][1]
      BY DEF Queued, QueueIndices
    <3>1. i # 1
      BY <1>1, <1>2
    <3>2. i - 1 \in 1..Len(queue') /\ queue'[i - 1] = queue[i]
      BY <3>1, <1>2
    <3> QED
      BY <3>2
  <2> QED
    BY <1>1, <2>1 DEF IInv, Frontier
<1>11. FinishedOrFull'
  BY <1>1 DEF FinishedOrFull
<1> QED
  BY <1>4, <1>5, <1>6, <1>8, <1>9, <1>10, <1>11 DEF IInv

LEMMA FinishStep ==
  ASSUME IInv, Finish
  PROVE  IInv'
<1>1. /\ TypeOK /\ pc = "search" /\ pc' = "done" /\ ~Searching
      /\ UNCHANGED <<parents, changes, kind, root, seeds, visited, origin, queue, ever, always, failed>>
  BY DEF IInv, Finish, graph
<1>2. TypeOK'
  BY <1>1 DEF TypeOK
<1>3. HistoryBrackets' /\ IdleClean'
  BY <1>1 DEF IInv, HistoryBrackets, IdleClean
<1>4. QueueTruthful' /\ SeedsFirst' /\ SeedsQueued'
  BY <1>1 DEF IInv, QueueTruthful, SeedsFirst, SeedsQueued, QueueIndices, Inherited
<1>5. Frontier'
  BY <1>1 DEF IInv, Frontier, Queued, QueueIndices
<1>6. VisitedInherited' /\ OriginTruthful' /\ DirectIsItsOwnOrigin'
  BY <1>1 DEF IInv, VisitedInherited, OriginTruthful, DirectIsItsOwnOrigin, Root, Inherited
<1>7. FinishedOrFull'
  <2>1. Cardinality(visited) \in Nat
    BY <1>1, ConstantsAssumption, FS_Subset, FS_CardinalityType DEF TypeOK
  <2> QED
    BY <1>1, <2>1, ConstantsAssumption DEF FinishedOrFull, Searching
<1> QED
  BY <1>2, <1>3, <1>4, <1>5, <1>6, <1>7 DEF IInv

LEMMA AnswerStep ==
  ASSUME IInv, Answer
  PROVE  IInv'
<1>1. TypeOK'
  <2>1. queue' \in Seq(Roles \X Roles)
    BY DEF Answer
  <2>2. ever' \in [Roles -> SUBSET Roles] /\ always' \in [Roles -> SUBSET Roles]
    BY DEF Answer, NoGrants
  <2> QED
    BY <2>1, <2>2 DEF IInv, Answer, TypeOK, graph
<1>2. QueueIndices' = {}
  BY DEF Answer, QueueIndices
<1>3. HistoryBrackets' /\ Frontier' /\ FinishedOrFull' /\ IdleClean'
  BY DEF Answer, NoGrants, HistoryBrackets, Frontier, FinishedOrFull, IdleClean
<1>4. QueueTruthful' /\ SeedsFirst' /\ SeedsQueued'
  BY <1>2 DEF Answer, QueueTruthful, SeedsFirst, SeedsQueued
<1>5. VisitedInherited' /\ OriginTruthful' /\ DirectIsItsOwnOrigin'
  BY DEF Answer, VisitedInherited, OriginTruthful, DirectIsItsOwnOrigin
<1> QED
  BY <1>1, <1>3, <1>4, <1>5 DEF IInv

LEMMA ChangeStep ==
  ASSUME IInv, NEW r \in Roles, NEW p \in Roles, Change(r, p)
  PROVE  IInv'
<1>1. /\ TypeOK
      /\ parents' = [parents EXCEPT ![r] = IF p \in @ THEN @ \ {p} ELSE @ \cup {p}]
      /\ IF pc = "search"
         THEN /\ ever' = [ever EXCEPT ![r] = @ \cup {p}]
              /\ always' = [always EXCEPT ![r] = @ \ {p}]
         ELSE ever' = ever /\ always' = always
      /\ UNCHANGED <<pc, kind, root, seeds, visited, origin, queue, failed>>
  BY DEF IInv, Change
<1>2. TypeOK'
  <2>1. changes' \in 0..MaxChanges
    BY ConstantsAssumption DEF Change, IInv, TypeOK
  <2> QED
    BY <1>1, <2>1 DEF TypeOK
<1>3. /\ ever \in [Roles -> SUBSET Roles] /\ ever' \in [Roles -> SUBSET Roles]
      /\ \A x \in Roles : ever[x] \subseteq ever'[x] /\ always'[x] \subseteq always[x]
  <2>1. /\ ever \in [Roles -> SUBSET Roles] /\ ever' \in [Roles -> SUBSET Roles]
        /\ always \in [Roles -> SUBSET Roles]
    BY <1>1, <1>2 DEF TypeOK
  <2>2. CASE pc = "search"
    BY <1>1, <2>1, <2>2
  <2>3. CASE pc # "search"
    BY <1>1, <2>1, <2>3
  <2> QED
    BY <2>1, <2>2, <2>3
<1>4. \A S : Inherited(ever, S) \subseteq Inherited(ever', S)
  BY <1>3, InheritedMonotone
<1>5. HistoryBrackets'
  BY <1>1, <1>3 DEF IInv, HistoryBrackets, TypeOK
<1>6. QueueTruthful'
  BY <1>1, <1>4 DEF IInv, QueueTruthful, QueueIndices
<1>7. SeedsFirst' /\ SeedsQueued' /\ FinishedOrFull' /\ DirectIsItsOwnOrigin' /\ IdleClean'
  BY <1>1 DEF IInv, SeedsFirst, SeedsQueued, FinishedOrFull, DirectIsItsOwnOrigin, IdleClean, QueueIndices
<1>8. Frontier'
  BY <1>1, <1>3 DEF IInv, Frontier, Queued, QueueIndices, TypeOK
<1>9. VisitedInherited' /\ OriginTruthful'
  BY <1>1, <1>4 DEF IInv, VisitedInherited, OriginTruthful, Root
<1> QED
  BY <1>2, <1>5, <1>6, <1>7, <1>8, <1>9 DEF IInv

LEMMA VisitStep ==
  ASSUME IInv, Visit
  PROVE  IInv'
<1> DEFINE h == HeadRole
           o == HeadOrigin
<1>1. /\ TypeOK /\ queue # <<>> /\ pc = "search" /\ h \notin visited
      /\ visited' = visited \cup {h}
      /\ origin' = [origin EXCEPT ![h] = o]
      /\ UNCHANGED <<parents, changes, pc, kind, root, seeds, ever, always>>
  BY DEF IInv, Visit, Searching, graph
<1>2. PICK answer \in Answers(parents[h]) :
        /\ failed' = (failed \/ answer # parents[h])
        /\ \E l \in Listings(IF kind = "role" THEN answer ELSE answer \ visited') :
             queue' = Tail(queue) \o Via(l, o)
  BY DEF Visit
<1>3. queue[1] \in Roles \X Roles /\ h = queue[1][1] /\ o = queue[1][2] /\ 1 \in QueueIndices
  BY <1>1 DEF TypeOK, HeadRole, HeadOrigin, QueueIndices
<1>4. h \in Roles /\ o \in Roles
  BY <1>3
<1> DEFINE rows == IF kind = "role" THEN answer ELSE answer \ visited'
<1>5. answer \in SUBSET Roles /\ answer \subseteq parents[h] /\ rows \in SUBSET Roles
      /\ rows \subseteq answer /\ answer \subseteq rows \cup visited'
  BY <1>1, <1>4 DEF Answers, TypeOK
<1>6. PICK l \in Listings(rows) : queue' = Tail(queue) \o Via(l, o)
  BY <1>2
<1> HIDE DEF h, o, rows
<1>7. /\ l \in Seq(Roles) /\ Len(l) \in Nat
      /\ \A i \in 1..Len(l) : l[i] \in rows
      /\ \A x \in rows : \E i \in 1..Len(l) : l[i] = x
  BY <1>5, ListingProperties
<1>8. /\ Via(l, o) \in Seq(Roles \X Roles) /\ Len(Via(l, o)) = Len(l)
      /\ \A i \in 1..Len(l) : Via(l, o)[i] = <<l[i], o>>
  BY <1>4, <1>7, ViaProperties
<1>9. /\ queue' \in Seq(Roles \X Roles)
      /\ Len(queue) \in Nat \ {0}
      /\ Len(queue') = Len(queue) - 1 + Len(l)
      /\ \A i \in 1..Len(queue) - 1 : queue'[i] = queue[i + 1]
      /\ \A i \in 1..Len(l) : queue'[Len(queue) - 1 + i] = <<l[i], o>>
  <2>1. queue \in Seq(Roles \X Roles)
    BY <1>1 DEF TypeOK
  <2> DEFINE new == Via(l, o)
  <2>2. new \in Seq(Roles \X Roles) /\ queue # <<>> /\ queue' = Tail(queue) \o new
    BY <1>1, <1>6, <1>8
  <2> HIDE DEF new
  <2>3. /\ queue' \in Seq(Roles \X Roles)
        /\ Len(queue) \in Nat \ {0}
        /\ Len(queue') = Len(queue) - 1 + Len(new)
        /\ \A i \in 1..Len(queue) - 1 : queue'[i] = queue[i + 1]
        /\ \A i \in 1..Len(new) : queue'[Len(queue) - 1 + i] = new[i]
    BY <2>1, <2>2, PopAndEnter
  <2> QED
    BY <2>3, <1>8 DEF new
(* Every entry of the new queue is an old one or a new one.                *)
<1>10. ASSUME NEW i \in 1..Len(queue')
       PROVE  \/ /\ i \in 1..Len(queue) - 1 /\ i + 1 \in 1..Len(queue)
                 /\ queue'[i] = queue[i + 1]
              \/ /\ i \notin 1..Len(queue) - 1
                 /\ \E x \in rows : queue'[i] = <<x, o>>
  <2>1. CASE i \in 1..Len(queue) - 1
    BY <2>1, <1>9
  <2>2. CASE i \notin 1..Len(queue) - 1
    <3>1. i - (Len(queue) - 1) \in 1..Len(l) /\ i = Len(queue) - 1 + (i - (Len(queue) - 1))
      BY <2>2, <1>9, <1>7
    <3> DEFINE n == i - (Len(queue) - 1)
    <3> HIDE DEF n
    <3>2. n \in 1..Len(l) /\ i = Len(queue) - 1 + n
      BY <3>1 DEF n
    <3>3. queue'[i] = <<l[n], o>> /\ l[n] \in rows
      BY <3>2, <1>9, <1>7
    <3> QED
      BY <3>3, <2>2
  <2> QED
    BY <2>1, <2>2
<1>11. TypeOK'
  BY <1>1, <1>2, <1>4, <1>9 DEF TypeOK
<1>12. HistoryBrackets' /\ IdleClean' /\ FinishedOrFull'
  BY <1>1 DEF IInv, HistoryBrackets, IdleClean, FinishedOrFull
<1>13. o \in seeds /\ h \in Inherited(ever, {o})
  BY <1>3 DEF IInv, QueueTruthful
<1>14. \A x \in rows : x \in Inherited(ever, {o})
  <2> SUFFICES ASSUME NEW x \in rows PROVE x \in Inherited(ever, {o})
    OBVIOUS
  <2>1. x \in ever[h] /\ ever \in [Roles -> SUBSET Roles]
    BY <1>1, <1>4, <1>5 DEF IInv, HistoryBrackets, TypeOK
  <2> QED
    BY <2>1, <1>13, InheritedStep
<1>15. QueueTruthful'
  <2> SUFFICES ASSUME NEW i \in 1..Len(queue')
               PROVE  queue'[i][2] \in seeds /\ queue'[i][1] \in Inherited(ever, {queue'[i][2]})
    BY <1>1 DEF QueueTruthful, QueueIndices, Inherited
  <2>1. CASE i + 1 \in 1..Len(queue) /\ queue'[i] = queue[i + 1]
    BY <2>1 DEF IInv, QueueTruthful, QueueIndices
  <2>2. CASE \E x \in rows : queue'[i] = <<x, o>>
    <3>1. PICK x \in rows : queue'[i] = <<x, o>>
      BY <2>2
    <3>2. queue'[i][1] = x /\ queue'[i][2] = o
      BY <3>1
    <3> QED
      BY <3>2, <1>13, <1>14
  <2> QED
    BY <1>10, <2>1, <2>2
<1>16. ASSUME NEW s \in seeds \ visited'
       PROVE  \E j \in 1..Len(queue) - 1 : queue'[j] = <<s, s>>
  <2>1. PICK i \in 1..Len(queue) : queue[i] = <<s, s>>
    BY <1>1 DEF IInv, SeedsQueued, QueueIndices
  <2>2. i # 1
    BY <2>1, <1>1, <1>3
  <2>3. i - 1 \in 1..Len(queue) - 1 /\ (i - 1) + 1 = i
    BY <2>2, <1>9
  <2>4. queue'[i - 1] = queue[(i - 1) + 1]
    BY <2>3, <1>9
  <2> QED
    BY <2>1, <2>3, <2>4
<1>17. SeedsQueued'
  <2> SUFFICES ASSUME NEW s \in seeds \ visited'
               PROVE  \E i \in 1..Len(queue') : queue'[i] = <<s, s>>
    BY <1>1 DEF SeedsQueued, QueueIndices
  <2>1. PICK j \in 1..Len(queue) - 1 : queue'[j] = <<s, s>>
    BY <1>16
  <2>2. j \in 1..Len(queue')
    BY <1>7, <1>9
  <2> QED
    BY <2>1, <2>2
<1>18. SeedsFirst'
  <2> SUFFICES ASSUME NEW i \in 1..Len(queue'), queue'[i][1] \in seeds \ visited'
               PROVE  \E j \in 1..i : queue'[j] = <<queue'[i][1], queue'[i][1]>>
    BY <1>1 DEF SeedsFirst, QueueIndices
  <2> DEFINE s == queue'[i][1]
  <2>1. CASE i \in 1..Len(queue) - 1
    <3>1. i + 1 \in 1..Len(queue) /\ queue[i + 1] = queue'[i]
      BY <2>1, <1>9
    <3>2. PICK j \in 1..(i + 1) : queue[j] = <<s, s>>
      BY <3>1, <1>1 DEF IInv, SeedsFirst, QueueIndices
    <3>3. j # 1
      BY <3>2, <1>1, <1>3
    <3>4. j - 1 \in 1..Len(queue) - 1 /\ j - 1 \in 1..i
      BY <2>1, <3>2, <3>3, <1>9
    <3>5. queue'[j - 1] = queue[(j - 1) + 1] /\ (j - 1) + 1 = j
      BY <3>4, <1>9
    <3> QED
      BY <3>2, <3>4, <3>5
  <2>2. CASE i \notin 1..Len(queue) - 1
    <3>1. PICK j \in 1..Len(queue) - 1 : queue'[j] = <<s, s>>
      BY <1>16
    <3>2. j \in 1..i
      BY <2>2, <1>9
    <3> QED
      BY <3>1, <3>2
  <2> QED
    BY <2>1, <2>2
<1>19. Queued \subseteq visited' \cup Queued'
  <2> SUFFICES ASSUME NEW i \in 1..Len(queue), queue[i][1] \notin visited'
               PROVE  \E j \in 1..Len(queue') : queue'[j][1] = queue[i][1]
    BY DEF Queued, QueueIndices
  <2>1. i # 1
    BY <1>1, <1>3
  <2>2. i - 1 \in 1..Len(queue) - 1 /\ (i - 1) + 1 = i
    BY <2>1, <1>9
  <2>4. queue'[i - 1] = queue[(i - 1) + 1]
    BY <2>2, <1>9
  <2>3. i - 1 \in 1..Len(queue')
    BY <2>2, <1>7, <1>9
  <2> QED
    BY <2>2, <2>3, <2>4
<1>20. rows \subseteq Queued'
  <2> SUFFICES ASSUME NEW x \in rows
               PROVE  \E j \in 1..Len(queue') : queue'[j][1] = x
    BY DEF Queued, QueueIndices
  <2>1. PICK i \in 1..Len(l) : l[i] = x
    BY <1>7
  <2>2. Len(queue) - 1 + i \in 1..Len(queue') /\ queue'[Len(queue) - 1 + i] = <<x, o>>
    BY <2>1, <1>7, <1>9
  <2> QED
    BY <2>2
<1>21. Frontier'
  <2> SUFFICES ASSUME ~failed', NEW x \in visited'
               PROVE  always[x] \subseteq visited' \cup Queued'
    BY <1>1 DEF Frontier
  <2>1. CASE x \in visited
    BY <2>1, <1>1, <1>2, <1>19 DEF IInv, Frontier
  <2>2. CASE x = h
    <3>1. answer = parents[h]
      BY <1>2
    <3>2. always[h] \subseteq parents[h]
      BY <1>1, <1>4 DEF IInv, HistoryBrackets
    <3> QED
      BY <2>2, <3>1, <3>2, <1>5, <1>20
  <2> QED
    BY <2>1, <2>2, <1>1
<1>22. VisitedInherited'
  <2>1. Inherited(ever, {o}) \subseteq Inherited(ever, seeds)
    <3>1. ever \in [Roles -> SUBSET Roles] /\ {o} \subseteq seeds
      BY <1>1, <1>13 DEF TypeOK
    <3> QED
      BY <3>1, InheritedMonotone
  <2> QED
    BY <2>1, <1>1, <1>13 DEF IInv, VisitedInherited, Root, Inherited
<1>23. OriginTruthful'
  BY <1>1, <1>4, <1>13 DEF IInv, OriginTruthful, TypeOK, Inherited
<1>24. DirectIsItsOwnOrigin'
  <2>1. h \in seeds => o = h
    <3> SUFFICES ASSUME h \in seeds PROVE o = h
      OBVIOUS
    <3>1. \E j \in 1..1 : queue[j] = <<h, h>>
      BY <1>1, <1>3 DEF IInv, SeedsFirst
    <3> QED
      BY <3>1, <1>3
  <2> QED
    BY <2>1, <1>1, <1>4 DEF IInv, DirectIsItsOwnOrigin, TypeOK
<1> QED
  BY <1>11, <1>12, <1>15, <1>17, <1>18, <1>21, <1>22, <1>23, <1>24 DEF IInv

-----------------------------------------------------------------------------
(* Theorems                                                                *)

(* The inductive invariant holds in every reachable state.                 *)
THEOREM Invariance == Spec => []IInv
<1>1. Init => IInv
  BY InitIInv
<1>2. IInv /\ [Next]_vars => IInv'
  <2> SUFFICES ASSUME IInv, [Next]_vars PROVE IInv'
    OBVIOUS
  <2>1. ASSUME NEW assigned \in SUBSET Roles, BeginChain(assigned) PROVE IInv'
    BY <2>1, BeginChainStep
  <2>2. ASSUME NEW r \in Roles, BeginRole("role", r) PROVE IInv'
    BY <2>2, BeginRoleStep
  <2>3. ASSUME NEW r \in Roles, BeginRole("ancestors", r) PROVE IInv'
    BY <2>3, BeginRoleStep
  <2>4. CASE Skip
    BY <2>4, SkipStep
  <2>5. CASE Visit
    BY <2>5, VisitStep
  <2>6. CASE Finish
    BY <2>6, FinishStep
  <2>7. CASE Answer
    BY <2>7, AnswerStep
  <2>8. ASSUME NEW r \in Roles, NEW p \in Roles, Change(r, p) PROVE IInv'
    BY <2>8, ChangeStep
  <2>9. CASE UNCHANGED vars
    <3>1. /\ UNCHANGED <<parents, changes, pc, kind, root, seeds, visited, origin, queue>>
          /\ UNCHANGED <<ever, always, failed>>
      BY <2>9 DEF vars, graph, search
    <3>2. TypeOK'
      BY <3>1 DEF IInv, TypeOK
    <3>5. HistoryBrackets' /\ DirectIsItsOwnOrigin'
      BY <3>1 DEF IInv, HistoryBrackets, DirectIsItsOwnOrigin
    <3>6. IdleClean' /\ FinishedOrFull'
      BY <3>1 DEF IInv, IdleClean, FinishedOrFull
    <3>3. QueueTruthful' /\ SeedsFirst' /\ SeedsQueued'
      BY <3>1 DEF IInv, QueueTruthful, SeedsFirst, SeedsQueued, QueueIndices, Inherited
    <3>7. Frontier'
      BY <3>1 DEF IInv, Frontier, Queued, QueueIndices
    <3>4. VisitedInherited' /\ OriginTruthful'
      BY <3>1 DEF IInv, VisitedInherited, OriginTruthful, Root, Inherited
    <3> QED
      BY <3>2, <3>3, <3>4, <3>5, <3>6, <3>7 DEF IInv
  <2> QED
    BY <2>1, <2>2, <2>3, <2>4, <2>5, <2>6, <2>7, <2>8, <2>9 DEF Next, Step
<1> QED
  BY <1>1, <1>2, PTL DEF Spec

(* The variables have their types.                                         *)
THEOREM TypeCorrect == Spec => []TypeOK
BY Invariance, PTL DEF IInv

(* No role is in a chain that the user does not inherit, and none is       *)
(* attributed to a role it does not come from.                             *)
THEOREM OriginsSound == Spec => []OriginTruthful
BY Invariance, PTL DEF IInv

(* A directly assigned role is never attributed to another one.            *)
THEOREM DirectRolesKept == Spec => []DirectIsItsOwnOrigin
BY Invariance, PTL DEF IInv

(* A search whose queue is empty has visited a set that contains the seeds *)
(* and is closed under the grants that lasted.  One that stopped at the    *)
(* limit has visited as many roles as there are to find, so all of them.   *)
LEMMA FinishedIsComplete == IInv => ChainComplete
<1> SUFFICES ASSUME IInv, pc = "done", ~failed,
                    \/ kind = "ancestors"
                    \/ Cardinality(Inherited(ever, seeds) \cup ({root} \ {None})) <= Limit
             PROVE  Inherited(always, seeds) \subseteq visited
  BY DEF ChainComplete
<1>1. TypeOK
  BY DEF IInv
<1>2. CASE queue = <<>>
  <2>1. Queued = {} /\ QueueIndices = {}
    BY <1>2 DEF Queued, QueueIndices
  <2>2. seeds \subseteq visited
    BY <2>1, <1>1 DEF IInv, SeedsQueued, TypeOK
  <2>3. \A r \in visited : always[r] \subseteq visited
    BY <2>1 DEF IInv, Frontier
  <2> QED
    BY <2>2, <2>3, <1>1, InheritedLeast DEF TypeOK
<1>3. CASE kind # "ancestors" /\ Cardinality(visited) >= Limit
  <2> DEFINE found == Inherited(ever, seeds) \cup Root
  <2>1. visited \subseteq found /\ IsFiniteSet(found)
    <3>1. found \subseteq Roles
      BY <1>1 DEF TypeOK, Inherited, Root
    <3> QED
      BY <3>1, FS_Subset, ConstantsAssumption DEF IInv, VisitedInherited
  <2>2. Cardinality(found) <= Limit
    BY <1>3 DEF Root
  <2>3. visited = found
    <3>1. Cardinality(visited) <= Cardinality(found)
      BY <2>1, FS_Subset
    <3>2. Cardinality(visited) \in Nat /\ Cardinality(found) \in Nat /\ Limit \in Nat
      BY <2>1, FS_Subset, FS_CardinalityType, ConstantsAssumption
    <3>3. Cardinality(visited) = Cardinality(found)
      BY <3>1, <3>2, <2>2, <1>3
    <3> QED
      BY <3>3, <2>1, FS_Subset
  <2>4. Inherited(always, seeds) \subseteq Inherited(ever, seeds)
    BY <1>1, InheritedMonotone DEF IInv, HistoryBrackets, TypeOK
  <2> QED
    BY <2>3, <2>4
<1> QED
  BY <1>2, <1>3 DEF IInv, FinishedOrFull

(* No inherited role is missing from a chain unless a query failed: roles  *)
(* may be granted and revoked while it is built, and a hierarchy of        *)
(* exactly Limit roles is not cut off.                                     *)
THEOREM SearchComplete == Spec => []ChainComplete
BY Invariance, FinishedIsComplete, PTL
=============================================================================
