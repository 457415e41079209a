----------------------- MODULE ObjectPrivilegesProofs -----------------------
(***************************************************************************)
(* What for_object shows, for every role graph, every assignment of roles  *)
(* and every set of grants that concern the object.                        *)
(***************************************************************************)
EXTENDS ObjectPrivileges, FiniteSetTheorems, WellFoundedInduction, TLAPS

QueueIndices == 1..Len(queue)
Queued == {queue[i][1] : i \in QueueIndices}

(* The roles known to hold something on the object.                        *)
Reached == {r \in Roles : granted[r] # {} \/ via[r] # None}

IsShown(g) == \E row \in shown : row[1] = g

(* Before the grants are classified there is no result.                    *)
Fresh ==
  pc = "classify" =>
    /\ queue = <<>> /\ visited = {}
    /\ \A r \in Roles : via[r] = None

(* Up to the merge role_privs holds the roles' own grants.                 *)
OwnRolePrivs == pc \in {"search", "merge"} => rolePrivs = granted

(* Every entry of the queue inherits from its origin, which has grants.    *)
QueueTruthful ==
  \A i \in QueueIndices :
    queue[i][2] \in Above(queue[i][1]) /\ granted[queue[i][2]] # {}

(* So does every role in the search's result, with what it was found to    *)
(* have.                                                                   *)
FoundTruthful ==
  \A c \in Roles :
    /\ found[c] \subseteq HeldByRole(c)
    /\ via[c] # None => via[c] \in Above(c) /\ granted[via[c]] # {} /\ found[c] # {}

RolePrivsHeld == \A r \in Roles : rolePrivs[r] \subseteq HeldByRole(r)

(* The children of a visited role are found; whatever is reached will be   *)
(* visited.                                                                *)
Frontier ==
  pc = "search" =>
    /\ Reached \subseteq visited \cup Queued
    /\ \A r \in visited : \A c \in children[r] : via[c] # None

(* After the search every role below one that is reached is reached.       *)
ReachedClosed ==
  pc \in {"merge", "users", "done"} => \A r \in Reached : children[r] \subseteq Reached

OwnGrantsShown ==
  pc # "classify" =>
    /\ \A r \in Roles : granted[r] # {} => IsShown(r)
    /\ \A u \in Users : userGrants[u] # {} => IsShown(u)

Merged ==
  pc \in {"users", "done"} => \A r \in Reached : rolePrivs[r] # {} /\ IsShown(r)

UsersResolved ==
  pc \in {"users", "done"} => \A u \in Users \ pending : Held(u) # {} => IsShown(u)

NobodyPending == pc = "done" => pending = {}

IInv ==
  /\ TypeOK
  /\ Fresh
  /\ OwnRolePrivs
  /\ QueueTruthful
  /\ FoundTruthful
  /\ RolePrivsHeld
  /\ Frontier
  /\ ReachedClosed
  /\ OwnGrantsShown
  /\ Merged
  /\ UsersResolved
  /\ NobodyPending
  /\ ShownIsHeld
  /\ SourceIsInherited

-----------------------------------------------------------------------------
(* Inheritance                                                             *)

(* A role inherits from itself.                                            *)
LEMMA AboveSelf ==
  ASSUME NEW r \in Roles
  PROVE  r \in Above(r)
BY DEF Above

(* What a role inherits from, the roles below it inherit from.             *)
LEMMA AboveChild ==
  ASSUME TypeOK, NEW r \in Roles, NEW c \in children[r], NEW o \in Above(r)
  PROVE  o \in Above(c)
<1> SUFFICES ASSUME NEW C \in SUBSET Roles, c \in C,
                    \A p \in Roles : children[p] \cap C # {} => p \in C
             PROVE  o \in C
  BY DEF Above
<1>1. children[r] \cap C # {}
  OBVIOUS
<1>2. r \in C
  BY <1>1
<1> QED
  BY <1>2 DEF Above

LEMMA AboveTransitive ==
  ASSUME NEW r \in Roles, NEW a \in Above(r), NEW b \in Above(a)
  PROVE  b \in Above(r)
<1> SUFFICES ASSUME NEW C \in SUBSET Roles, r \in C,
                    \A p \in Roles : children[p] \cap C # {} => p \in C
             PROVE  b \in C
  BY DEF Above
<1>1. a \in C
  BY DEF Above
<1> QED
  BY <1>1 DEF Above

(* A set that contains the children of its members contains every role     *)
(* below them.                                                             *)
LEMMA ClosedDownward ==
  ASSUME TypeOK, NEW R \in SUBSET Roles, \A r \in R : children[r] \subseteq R,
         NEW r \in Roles, NEW a \in Above(r), a \in R
  PROVE  r \in R
<1> SUFFICES ASSUME r \notin R PROVE FALSE
  OBVIOUS
<1> DEFINE C == Roles \ R
<1>1. r \in C /\ C \in SUBSET Roles
  OBVIOUS
<1>2. \A p \in Roles : children[p] \cap C # {} => p \in C
  OBVIOUS
<1>3. a \in C
  BY <1>1, <1>2 DEF Above
<1> QED
  BY <1>3

LEMMA HeldByRoleMember ==
  ASSUME NEW r
  PROVE  \A p : p \in HeldByRole(r) <=> \E a \in Above(r) : p \in granted[a]
BY DEF HeldByRole

LEMMA HeldMember ==
  /\ \A r \in Roles : Held(r) = HeldByRole(r)
  /\ \A u \in Users : \A p :
       p \in Held(u) <=> p \in userGrants[u] \/ \E r \in rolesOf[u] : p \in HeldByRole(r)
<1>1. ASSUME NEW r \in Roles PROVE Held(r) = HeldByRole(r)
  BY ConstantsAssumption DEF Held
<1>2. ASSUME NEW u \in Users, NEW p
      PROVE  p \in Held(u) <=> p \in userGrants[u] \/ \E r \in rolesOf[u] : p \in HeldByRole(r)
  BY DEF Held
<1> QED
  BY <1>1, <1>2

(* Privileges are handed down.                                             *)
LEMMA HeldBelow ==
  ASSUME NEW r \in Roles, NEW a \in Above(r)
  PROVE  granted[a] \subseteq HeldByRole(r) /\ HeldByRole(a) \subseteq HeldByRole(r)
<1>1. granted[a] \subseteq HeldByRole(r)
  BY HeldByRoleMember
<1>2. ASSUME NEW p \in HeldByRole(a) PROVE p \in HeldByRole(r)
  <2>1. PICK b \in Above(a) : p \in granted[b]
    BY HeldByRoleMember
  <2>2. b \in Above(r)
    BY AboveTransitive
  <2> QED
    BY <2>1, <2>2, HeldByRoleMember
<1> QED
  BY <1>1, <1>2

(* What everybody holds depends on the collected grants only.              *)
LEMMA SameHoldings ==
  ASSUME UNCHANGED inputs
  PROVE  /\ \A r : Above(r)' = Above(r)
         /\ \A r : HeldByRole(r)' = HeldByRole(r)
         /\ \A g : Held(g)' = Held(g)
<1>1. ASSUME NEW r PROVE Above(r)' = Above(r)
  BY DEF inputs, Above
<1>2. ASSUME NEW r PROVE HeldByRole(r)' = HeldByRole(r)
  BY <1>1 DEF inputs, HeldByRole
<1>3. ASSUME NEW g PROVE Held(g)' = Held(g)
  BY <1>2 DEF inputs, Held
<1> QED
  BY <1>1, <1>2, <1>3
-----------------------------------------------------------------------------
(* Listings and queues                                                     *)

(* A listing of a set is a sequence of its elements, of all of them.       *)
LEMMA ListingProperties ==
  ASSUME NEW S \in SUBSET Roles, NEW l \in Listings(S)
  PROVE  /\ l \in Seq(Roles)
         /\ Len(l) \in Nat
         /\ \A i \in 1..Len(l) : l[i] \in S
         /\ \A x \in S : \E i \in 1..Len(l) : l[i] = x
<1>1. Cardinality(S) \in Nat
  BY FS_Subset, FS_CardinalityType, ConstantsAssumption
<1>2. l \in [1..Cardinality(S) -> S] /\ \A x \in S : \E i \in 1..Cardinality(S) : l[i] = x
  BY DEF Listings
<1>3. l \in Seq(S) /\ Len(l) = Cardinality(S)
  BY <1>1, <1>2
<1> QED
  BY <1>1, <1>2, <1>3

(* What popping an entry and entering others does to a queue.              *)
LEMMA PopAndEnter ==
  ASSUME NEW q \in Seq(Roles \X Roles), q # <<>>, NEW new \in Seq(Roles \X Roles)
  PROVE  /\ Head(q) = q[1]
         /\ Len(q) \in Nat \ {0}
         /\ Tail(q) \o new \in Seq(Roles \X Roles)
         /\ Len(Tail(q) \o new) = Len(q) - 1 + Len(new)
         /\ \A i \in 1..Len(q) - 1 : (Tail(q) \o new)[i] = q[i + 1]
         /\ \A i \in 1..Len(new) : (Tail(q) \o new)[Len(q) - 1 + i] = new[i]
<1>1. Len(q) \in Nat \ {0} /\ Len(new) \in Nat
  OBVIOUS
<1>2. Head(q) = q[1] /\ Tail(q) \in Seq(Roles \X Roles) /\ Len(Tail(q)) = Len(q) - 1
  OBVIOUS
<1>3. \A i \in 1..Len(q) - 1 : Tail(q)[i] = q[i + 1]
  OBVIOUS
<1>4. Tail(q) \o new \in Seq(Roles \X Roles) /\ Len(Tail(q) \o new) = Len(q) - 1 + Len(new)
  BY <1>2
<1>5. \A i \in 1..Len(q) - 1 : (Tail(q) \o new)[i] = Tail(q)[i]
  BY <1>1, <1>2
<1>6. ASSUME NEW i \in 1..Len(new)
      PROVE  (Tail(q) \o new)[Len(q) - 1 + i] = new[i]
  BY <1>1, <1>2
<1> QED
  BY <1>1, <1>2, <1>3, <1>4, <1>5, <1>6

(* The head of the queue is a role and its origin.                         *)
LEMMA HeadProperties ==
  ASSUME TypeOK, queue # <<>>
  PROVE  /\ HeadRole \in Roles /\ HeadOrigin \in Roles
         /\ Len(queue) \in Nat \ {0}
         /\ HeadRole = queue[1][1] /\ HeadOrigin = queue[1][2]
         /\ Tail(queue) \in Seq(Roles \X Roles)
         /\ Len(Tail(queue)) = Len(queue) - 1
         /\ \A i \in 1..Len(queue) - 1 : Tail(queue)[i] = queue[i + 1]
<1>1. queue \in Seq(Roles \X Roles)
  BY DEF TypeOK
<1>2. Head(queue) = queue[1] /\ Head(queue) \in Roles \X Roles
  BY <1>1
<1>3. Len(queue) \in Nat \ {0} /\ Tail(queue) \in Seq(Roles \X Roles) /\ Len(Tail(queue)) = Len(queue) - 1
  BY <1>1
<1>4. \A i \in 1..Len(queue) - 1 : Tail(queue)[i] = queue[i + 1]
  BY <1>1
<1> QED
  BY <1>2, <1>3, <1>4 DEF HeadRole, HeadOrigin

-----------------------------------------------------------------------------
(* The inductive invariant                                                 *)

LEMMA InitIInv == Init => IInv
<1> SUFFICES ASSUME Init PROVE IInv
  OBVIOUS
<1>1. TypeOK
  <2>1. queue \in Seq(Roles \X Roles)
    BY DEF Init
  <2>2. via \in [Roles -> Roles \cup {None}] /\ found \in [Roles -> SUBSET Privileges]
        /\ rolePrivs \in [Roles -> SUBSET Privileges]
    BY DEF Init
  <2> QED
    BY <2>1, <2>2 DEF Init, TypeOK
<1>2. QueueIndices = {}
  BY DEF Init, QueueIndices
<1>3. QueueTruthful
  BY <1>2 DEF QueueTruthful
<1>4. FoundTruthful /\ RolePrivsHeld /\ Fresh
  BY DEF Init, FoundTruthful, RolePrivsHeld, Fresh
<1>5. OwnRolePrivs /\ Frontier /\ ReachedClosed /\ OwnGrantsShown /\ Merged /\ UsersResolved /\ NobodyPending
  BY DEF Init, OwnRolePrivs, Frontier, ReachedClosed, OwnGrantsShown, Merged, UsersResolved, NobodyPending
<1>6. ShownIsHeld /\ SourceIsInherited
  BY DEF Init, ShownIsHeld, SourceIsInherited
<1> QED
  BY <1>1, <1>3, <1>4, <1>5, <1>6 DEF IInv

LEMMA ClassifyStep == IInv /\ Classify => IInv'
<1> SUFFICES ASSUME IInv, Classify PROVE IInv'
  OBVIOUS
<1> USE DEF IInv
<1>0. UNCHANGED inputs /\ pc = "classify" /\ shown' = OwnRows /\ rolePrivs' = granted
      /\ UNCHANGED <<visited, found, via, pending>>
  BY DEF Classify
<1>i. UNCHANGED <<children, rolesOf, granted, userGrants>>
  BY <1>0 DEF inputs
<1>a. /\ \A r : Above(r)' = Above(r)
      /\ \A r : HeldByRole(r)' = HeldByRole(r)
      /\ \A g : Held(g)' = Held(g)
  BY <1>0, SameHoldings
<1>b. queue = <<>> /\ visited = {} /\ \A r \in Roles : via[r] = None
  BY <1>0 DEF Fresh
<1>c. \A r \in Roles : granted[r] \subseteq HeldByRole(r)
  BY AboveSelf, HeldBelow
<1>q. /\ queue' \in Seq(Roles \X Roles)
      /\ \A i \in 1..Len(queue') : \E s \in Holding(granted) : queue'[i] = <<s, s>>
      /\ pc' = "search" => \A s \in Holding(granted) : \E i \in 1..Len(queue') : queue'[i] = <<s, s>>
      /\ pc' \in {"search", "merge"}
      /\ pc' = "merge" => Holding(granted) = {} \/ \A r \in Roles : children[r] = {}
  <2>1. CASE Holding(granted) # {} /\ \E r \in Roles : children[r] # {}
    <3>1. PICK l \in Listings(Holding(granted)) : queue' = [i \in 1..Len(l) |-> <<l[i], l[i]>>]
      BY <2>1 DEF Classify
    <3>2. Holding(granted) \in SUBSET Roles
      BY DEF Holding
    <3>3. /\ l \in Seq(Roles)
          /\ Len(l) \in Nat
          /\ \A i \in 1..Len(l) : l[i] \in Holding(granted)
          /\ \A x \in Holding(granted) : \E i \in 1..Len(l) : l[i] = x
      BY <3>2, ListingProperties
    <3>4. queue' \in Seq(Roles \X Roles) /\ Len(queue') = Len(l)
      BY <3>1, <3>3
    <3>5. \A i \in 1..Len(l) : queue'[i] = <<l[i], l[i]>>
      BY <3>1
    <3>6. pc' = "search"
      BY <2>1 DEF Classify
    <3> QED
      BY <3>3, <3>4, <3>5, <3>6
  <2>2. CASE ~(Holding(granted) # {} /\ \E r \in Roles : children[r] # {})
    <3>1. pc' = "merge" /\ queue' = <<>>
      BY <2>2, <1>b DEF Classify
    <3> QED
      BY <2>2, <3>1
  <2> QED
    BY <2>1, <2>2
<1>1. TypeOK'
  <2>1. OwnRows \in SUBSET Rows
    BY DEF OwnRows
  <2> QED
    BY <1>0, <1>i, <1>q, <2>1 DEF TypeOK, Rows
<1>2. Fresh' /\ OwnRolePrivs' /\ Merged' /\ UsersResolved' /\ NobodyPending'
  BY <1>0, <1>i, <1>q DEF Fresh, OwnRolePrivs, Merged, UsersResolved, NobodyPending
<1>3. QueueTruthful'
  <2> SUFFICES ASSUME NEW i \in 1..Len(queue')
               PROVE  queue'[i][2] \in Above(queue'[i][1]) /\ granted[queue'[i][2]] # {}
    BY <1>a, <1>i DEF QueueTruthful, QueueIndices
  <2>1. PICK s \in Holding(granted) : queue'[i] = <<s, s>>
    BY <1>q
  <2> QED
    BY <2>1, AboveSelf DEF Holding
<1>4. FoundTruthful' /\ RolePrivsHeld'
  BY <1>0, <1>i, <1>a, <1>c DEF FoundTruthful, RolePrivsHeld
<1>5. Reached' = Holding(granted)
  BY <1>0, <1>i, <1>b DEF Reached, Holding
<1>6. Frontier'
  <2> SUFFICES ASSUME pc' = "search"
               PROVE  Reached' \subseteq visited' \cup Queued' /\ visited' = {}
    BY DEF Frontier
  <2>1. \A s \in Holding(granted) : \E i \in 1..Len(queue') : queue'[i][1] = s
    BY <1>q
  <2> QED
    BY <1>0, <1>b, <1>5, <2>1 DEF Queued, QueueIndices
<1>7. ReachedClosed'
  <2> SUFFICES ASSUME pc' = "merge" PROVE \A r \in Reached' : children'[r] \subseteq Reached'
    BY <1>q DEF ReachedClosed
  <2> QED
    BY <1>i, <1>5, <1>q DEF Holding
<1>8. OwnGrantsShown'
  <2>1. ASSUME NEW r \in Roles, granted[r] # {} PROVE \E row \in OwnRows : row[1] = r
    <3>1. PICK p \in granted[r] : TRUE
      BY <2>1
    <3>2. <<r, p, Direct>> \in OwnRows
      BY <3>1 DEF OwnRows, Rows, TypeOK
    <3> QED
      BY <3>2
  <2>2. ASSUME NEW u \in Users, userGrants[u] # {} PROVE \E row \in OwnRows : row[1] = u
    <3>1. PICK p \in userGrants[u] : TRUE
      BY <2>2
    <3>2. <<u, p, Direct>> \in OwnRows
      BY <3>1 DEF OwnRows, Rows, TypeOK
    <3> QED
      BY <3>2
  <2> QED
    BY <1>0, <1>i, <2>1, <2>2 DEF OwnGrantsShown, IsShown
<1>9. ShownIsHeld' /\ SourceIsInherited'
  <2>1. ASSUME NEW row \in OwnRows PROVE row[2] \in Held(row[1])
    <3>1. CASE row[1] \in Roles /\ row[2] \in granted[row[1]]
      BY <3>1, <1>c, HeldMember
    <3>2. CASE row[1] \in Users /\ row[2] \in userGrants[row[1]]
      BY <3>2, HeldMember
    <3> QED
      BY <3>1, <3>2 DEF OwnRows
  <2>2. \A row \in OwnRows : row[3] = Direct
    BY DEF OwnRows
  <2> QED
    BY <1>0, <1>a, <2>1, <2>2 DEF ShownIsHeld, SourceIsInherited
<1> QED
  BY <1>1, <1>2, <1>3, <1>4, <1>6, <1>7, <1>8, <1>9

LEMMA SkipStep == IInv /\ Skip => IInv'
<1> SUFFICES ASSUME IInv, Skip PROVE IInv'
  OBVIOUS
<1> USE DEF IInv
<1>0. UNCHANGED inputs /\ pc = "search" /\ queue # <<>> /\ HeadRole \in visited /\ queue' = Tail(queue)
      /\ UNCHANGED <<pc, visited, found, via, rolePrivs, pending, shown>>
  BY DEF Skip
<1>i. UNCHANGED <<children, rolesOf, granted, userGrants>>
  BY <1>0 DEF inputs
<1>a. /\ \A r : Above(r)' = Above(r)
      /\ \A r : HeldByRole(r)' = HeldByRole(r)
      /\ \A g : Held(g)' = Held(g)
  BY <1>0, SameHoldings
<1>h. /\ Len(queue) \in Nat \ {0}
      /\ HeadRole = queue[1][1]
      /\ queue' \in Seq(Roles \X Roles)
      /\ Len(queue') = Len(queue) - 1
      /\ \A i \in 1..Len(queue) - 1 : queue'[i] = queue[i + 1]
  BY <1>0, HeadProperties
<1>1. TypeOK'
  BY <1>0, <1>i, <1>h DEF TypeOK, Rows
<1>2. Fresh' /\ OwnRolePrivs' /\ ReachedClosed' /\ Merged' /\ UsersResolved' /\ NobodyPending'
  BY <1>0, <1>i DEF Fresh, OwnRolePrivs, ReachedClosed, Merged, UsersResolved, NobodyPending
<1>3. QueueTruthful'
  <2> SUFFICES ASSUME NEW i \in 1..Len(queue')
               PROVE  queue'[i][2] \in Above(queue'[i][1]) /\ granted[queue'[i][2]] # {}
    BY <1>a, <1>i DEF QueueTruthful, QueueIndices
  <2>1. i + 1 \in 1..Len(queue) /\ queue'[i] = queue[i + 1]
    BY <1>h
  <2> QED
    BY <2>1 DEF QueueTruthful, QueueIndices
<1>4. FoundTruthful' /\ RolePrivsHeld'
  BY <1>0, <1>i, <1>a DEF FoundTruthful, RolePrivsHeld
<1>5. Frontier'
  <2>1. Reached' = Reached
    BY <1>0, <1>i DEF Reached
  <2>2. ASSUME NEW x \in Queued PROVE x \in visited \cup Queued'
    <3>1. PICK i \in 1..Len(queue) : queue[i][1] = x
      BY DEF Queued, QueueIndices
    <3>2. CASE i = 1
      BY <3>1, <3>2, <1>0, <1>h
    <3>3. CASE i # 1
      <4>1. i - 1 \in 1..Len(queue') /\ queue'[i - 1] = queue[i]
        BY <3>3, <1>h
      <4> QED
        BY <3>1, <4>1 DEF Queued, QueueIndices
    <3> QED
      BY <3>2, <3>3
  <2> QED
    BY <1>0, <1>i, <2>1, <2>2 DEF Frontier
<1>6. OwnGrantsShown' /\ ShownIsHeld' /\ SourceIsInherited'
  BY <1>0, <1>i, <1>a DEF OwnGrantsShown, IsShown, ShownIsHeld, SourceIsInherited
<1> QED
  BY <1>1, <1>2, <1>3, <1>4, <1>5, <1>6

LEMMA ExpandStep == IInv /\ Expand => IInv'
<1> SUFFICES ASSUME IInv, Expand PROVE IInv'
  OBVIOUS
<1> USE DEF IInv
<1> DEFINE below == children[HeadRole]
           passed == PassedOn(HeadRole, HeadOrigin)
<1>0. /\ UNCHANGED inputs /\ pc = "search" /\ queue # <<>>
      /\ visited' = visited \cup {HeadRole}
      /\ found' = [c \in Roles |-> IF c \in below THEN found[c] \cup passed ELSE found[c]]
      /\ via' = [c \in Roles |-> IF c \in below /\ via[c] = None THEN HeadOrigin ELSE via[c]]
      /\ UNCHANGED <<pc, rolePrivs, pending, shown>>
  BY DEF Expand
<1>i. UNCHANGED <<children, rolesOf, granted, userGrants>>
  BY <1>0 DEF inputs
<1>a. /\ \A r : Above(r)' = Above(r)
      /\ \A r : HeldByRole(r)' = HeldByRole(r)
      /\ \A g : Held(g)' = Held(g)
  BY <1>0, SameHoldings
<1>h. /\ HeadRole \in Roles /\ HeadOrigin \in Roles
      /\ Len(queue) \in Nat \ {0}
      /\ HeadRole = queue[1][1] /\ HeadOrigin = queue[1][2]
  BY <1>0, HeadProperties
<1>b. below \in SUBSET Roles
  BY <1>h DEF TypeOK
<1>o. HeadOrigin \in Above(HeadRole) /\ granted[HeadOrigin] # {}
  BY <1>h DEF QueueTruthful, QueueIndices
<1>c. \A c \in below : HeadOrigin \in Above(c)
  BY <1>h, <1>o, AboveChild
<1>p. passed # {} /\ passed \subseteq HeldByRole(HeadRole) /\ passed \subseteq Privileges
  <2>1. rolePrivs = granted
    BY <1>0 DEF OwnRolePrivs
  <2>2. granted[HeadRole] \subseteq HeldByRole(HeadRole) /\ granted[HeadOrigin] \subseteq HeldByRole(HeadRole)
    BY <1>h, <1>o, AboveSelf, HeldBelow
  <2> QED
    BY <2>1, <2>2, <1>h, <1>o DEF PassedOn, TypeOK
<1>d. \A c \in below : passed \subseteq HeldByRole(c)
  <2>1. ASSUME NEW c \in below PROVE HeldByRole(HeadRole) \subseteq HeldByRole(c)
    BY <1>h, <1>b, AboveSelf, AboveChild, HeldBelow
  <2> QED
    BY <2>1, <1>p
<1>l. PICK l \in Listings(below \ visited') :
        queue' = Tail(queue) \o [i \in 1..Len(l) |-> <<l[i], HeadOrigin>>]
  BY DEF Expand
<1> DEFINE new == [i \in 1..Len(l) |-> <<l[i], HeadOrigin>>]
<1>m. /\ l \in Seq(Roles)
      /\ Len(l) \in Nat
      /\ \A i \in 1..Len(l) : l[i] \in below \ visited'
      /\ \A x \in below \ visited' : \E i \in 1..Len(l) : l[i] = x
  BY <1>b, ListingProperties
<1>n. new \in Seq(Roles \X Roles) /\ Len(new) = Len(l) /\ \A i \in 1..Len(l) : new[i] = <<l[i], HeadOrigin>>
  BY <1>m, <1>h
<1>q. /\ queue' \in Seq(Roles \X Roles)
      /\ Len(queue') = Len(queue) - 1 + Len(l)
      /\ \A i \in 1..Len(queue) - 1 : queue'[i] = queue[i + 1]
      /\ \A i \in 1..Len(l) : queue'[Len(queue) - 1 + i] = <<l[i], HeadOrigin>>
  <2>1. queue \in Seq(Roles \X Roles)
    BY DEF TypeOK
  <2>2. queue' = Tail(queue) \o new
    BY <1>l
  <2> HIDE DEF new
  <2> QED
    BY <2>1, <2>2, <1>0, <1>n, PopAndEnter
<1> HIDE DEF below, passed, new
<1>1. TypeOK'
  <2>1. found' \in [Roles -> SUBSET Privileges]
    BY <1>0, <1>p DEF TypeOK
  <2>2. via' \in [Roles -> Roles \cup {None}]
    BY <1>0, <1>h DEF TypeOK
  <2>3. visited' \in SUBSET Roles
    BY <1>0, <1>h DEF TypeOK
  <2> QED
    BY <1>0, <1>i, <1>q, <2>1, <2>2, <2>3 DEF TypeOK, Rows
<1>2. Fresh' /\ OwnRolePrivs' /\ ReachedClosed' /\ Merged' /\ UsersResolved' /\ NobodyPending'
  BY <1>0, <1>i DEF Fresh, OwnRolePrivs, ReachedClosed, Merged, UsersResolved, NobodyPending
<1>3. QueueTruthful'
  <2> SUFFICES ASSUME NEW i \in 1..Len(queue')
               PROVE  queue'[i][2] \in Above(queue'[i][1]) /\ granted[queue'[i][2]] # {}
    BY <1>a, <1>i DEF QueueTruthful, QueueIndices
  <2>1. CASE i \in 1..Len(queue) - 1
    <3>1. i + 1 \in 1..Len(queue) /\ queue'[i] = queue[i + 1]
      BY <2>1, <1>h, <1>q
    <3> QED
      BY <3>1 DEF QueueTruthful, QueueIndices
  <2>2. CASE i \notin 1..Len(queue) - 1
    <3>1. PICK j \in 1..Len(l) : i = Len(queue) - 1 + j
      <4>1. i - (Len(queue) - 1) \in 1..Len(l) /\ i = Len(queue) - 1 + (i - (Len(queue) - 1))
        BY <2>2, <1>h, <1>m, <1>q
      <4> QED
        BY <4>1
    <3>2. queue'[i] = <<l[j], HeadOrigin>> /\ l[j] \in below
      BY <3>1, <1>m, <1>q
    <3> QED
      BY <3>2, <1>c, <1>o
  <2> QED
    BY <2>1, <2>2
<1>4. FoundTruthful'
  <2> SUFFICES ASSUME NEW c \in Roles
               PROVE  /\ found'[c] \subseteq HeldByRole(c)
                      /\ via'[c] # None => via'[c] \in Above(c) /\ granted[via'[c]] # {} /\ found'[c] # {}
    BY <1>a, <1>i DEF FoundTruthful
  <2>1. CASE c \in below
    BY <2>1, <1>0, <1>c, <1>d, <1>o, <1>p DEF FoundTruthful
  <2>2. CASE c \notin below
    BY <2>2, <1>0 DEF FoundTruthful
  <2> QED
    BY <2>1, <2>2
<1>5. RolePrivsHeld'
  BY <1>0, <1>i, <1>a DEF RolePrivsHeld
<1>6. Frontier'
  <2>1. \A c \in Roles : via'[c] # None <=> via[c] # None \/ c \in below
    BY <1>0, <1>h, ConstantsAssumption DEF TypeOK
  <2>2. Reached' = Reached \cup below
    BY <1>i, <1>b, <2>1 DEF Reached
  <2>3. ASSUME NEW x \in Queued PROVE x \in visited' \cup Queued'
    <3>1. PICK i \in 1..Len(queue) : queue[i][1] = x
      BY DEF Queued, QueueIndices
    <3>2. CASE i = 1
      BY <3>1, <3>2, <1>0, <1>h
    <3>3. CASE i # 1
      <4>1. i - 1 \in 1..Len(queue) - 1 /\ i - 1 \in 1..Len(queue')
        BY <3>3, <1>h, <1>m, <1>q
      <4>2. queue'[i - 1] = queue[i]
        BY <4>1, <1>q
      <4> QED
        BY <3>1, <4>1, <4>2 DEF Queued, QueueIndices
    <3> QED
      BY <3>2, <3>3
  <2>4. ASSUME NEW x \in below \ visited' PROVE x \in Queued'
    <3>1. PICK i \in 1..Len(l) : l[i] = x
      BY <1>m
    <3>2. Len(queue) - 1 + i \in 1..Len(queue')
      BY <1>h, <1>m, <1>q
    <3>3. queue'[Len(queue) - 1 + i] = <<x, HeadOrigin>>
      BY <3>1, <1>q
    <3> QED
      BY <3>2, <3>3 DEF Queued, QueueIndices
  <2>5. Reached' \subseteq visited' \cup Queued'
    BY <2>2, <2>3, <2>4, <1>0 DEF Frontier
  <2>6. ASSUME NEW r \in visited', NEW c \in children[r] PROVE via'[c] # None
    <3>1. c \in Roles
      BY <2>6, <1>0, <1>h DEF TypeOK
    <3>2. CASE r = HeadRole
      BY <3>1, <3>2, <2>1 DEF below
    <3>3. CASE r \in visited
      BY <3>1, <3>3, <2>1, <1>0 DEF Frontier
    <3> QED
      BY <3>2, <3>3, <1>0
  <2> QED
    BY <2>5, <2>6, <1>i DEF Frontier
<1>7. OwnGrantsShown' /\ ShownIsHeld' /\ SourceIsInherited'
  BY <1>0, <1>i, <1>a DEF OwnGrantsShown, IsShown, ShownIsHeld, SourceIsInherited
<1> QED
  BY <1>1, <1>2, <1>3, <1>4, <1>5, <1>6, <1>7

LEMMA SearchDoneStep == IInv /\ SearchDone => IInv'
<1> SUFFICES ASSUME IInv, SearchDone PROVE IInv'
  OBVIOUS
<1> USE DEF IInv
<1>0. /\ UNCHANGED inputs /\ pc = "search" /\ queue = <<>> /\ pc' = "merge"
      /\ UNCHANGED <<queue, visited, found, via, rolePrivs, pending, shown>>
  BY DEF SearchDone
<1>i. UNCHANGED <<children, rolesOf, granted, userGrants>>
  BY <1>0 DEF inputs
<1>a. /\ \A r : Above(r)' = Above(r)
      /\ \A r : HeldByRole(r)' = HeldByRole(r)
      /\ \A g : Held(g)' = Held(g)
  BY <1>0, SameHoldings
<1>1. TypeOK'
  BY <1>0, <1>i DEF TypeOK, Rows
<1>2. Fresh' /\ OwnRolePrivs' /\ Frontier' /\ Merged' /\ UsersResolved' /\ NobodyPending'
  BY <1>0, <1>i DEF Fresh, OwnRolePrivs, Frontier, Merged, UsersResolved, NobodyPending
<1>3. QueueTruthful' /\ FoundTruthful' /\ RolePrivsHeld'
  BY <1>0, <1>i, <1>a DEF QueueTruthful, QueueIndices, FoundTruthful, RolePrivsHeld
<1>4. ReachedClosed'
  <2>1. Queued = {}
    BY <1>0 DEF Queued, QueueIndices
  <2>2. Reached \subseteq visited /\ \A r \in visited : \A c \in children[r] : via[c] # None
    BY <1>0, <2>1 DEF Frontier
  <2>3. \A r \in Reached : children[r] \subseteq Reached
    BY <2>2 DEF Reached, TypeOK
  <2>4. Reached' = Reached
    BY <1>0, <1>i DEF Reached
  <2> QED
    BY <1>i, <2>3, <2>4 DEF ReachedClosed
<1>5. OwnGrantsShown' /\ ShownIsHeld' /\ SourceIsInherited'
  BY <1>0, <1>i, <1>a DEF OwnGrantsShown, IsShown, ShownIsHeld, SourceIsInherited
<1> QED
  BY <1>1, <1>2, <1>3, <1>4, <1>5

(* After the search every role that holds anything is reached.             *)
LEMMA HeldIsReached ==
  ASSUME TypeOK, ReachedClosed, pc \in {"merge", "users", "done"},
         NEW r \in Roles, HeldByRole(r) # {}
  PROVE  r \in Reached
<1>1. PICK a \in Above(r) : granted[a] # {}
  BY HeldByRoleMember
<1>2. a \in Roles
  BY DEF Above
<1>3. a \in Reached
  BY <1>1, <1>2 DEF Reached
<1>4. Reached \in SUBSET Roles /\ \A x \in Reached : children[x] \subseteq Reached
  BY DEF Reached, ReachedClosed
<1> QED
  BY <1>3, <1>4, ClosedDownward

LEMMA MergeStep == IInv /\ Merge => IInv'
<1> SUFFICES ASSUME IInv, Merge PROVE IInv'
  OBVIOUS
<1> USE DEF IInv
<1> DEFINE rows == {row \in Rows :
                      row[1] \in Inheriting /\ row[2] \in found[row[1]] /\ row[3] = via[row[1]]}
<1>0. /\ UNCHANGED inputs /\ pc = "merge" /\ pc' = "users"
      /\ rolePrivs' = [r \in Roles |-> IF r \in Inheriting THEN found[r] ELSE rolePrivs[r]]
      /\ shown' = shown \cup rows
      /\ pending' = IF Holding(rolePrivs) # {} THEN {u \in Users : userGrants[u] = {}} ELSE {}
      /\ UNCHANGED <<queue, visited, found, via>>
  BY DEF Merge
<1>i. UNCHANGED <<children, rolesOf, granted, userGrants>>
  BY <1>0 DEF inputs
<1>a. /\ \A r : Above(r)' = Above(r)
      /\ \A r : HeldByRole(r)' = HeldByRole(r)
      /\ \A g : Held(g)' = Held(g)
  BY <1>0, SameHoldings
<1>b. rolePrivs = granted
  BY <1>0 DEF OwnRolePrivs
<1>c. Inheriting = {r \in Roles : via[r] # None /\ granted[r] = {}}
  BY DEF Inheriting, Holding
<1>d. Reached' = Reached
  BY <1>0, <1>i DEF Reached
<1>e. ASSUME NEW row \in rows
      PROVE  /\ row[1] \in Roles
             /\ row[2] \in HeldByRole(row[1])
             /\ row[3] \in Above(row[1]) /\ granted[row[3]] # {}
  BY <1>c DEF FoundTruthful
<1>f. \A g : IsShown(g) => IsShown(g)'
  BY <1>0 DEF IsShown
<1>g. \A g : (\E row \in rows : row[1] = g) => IsShown(g)'
  BY <1>0 DEF IsShown
<1>s. ASSUME NEW r \in Inheriting PROVE \E row \in rows : row[1] = r
  <2>1. r \in Roles /\ via[r] # None /\ via[r] \in Roles
    BY <1>c DEF TypeOK
  <2>2. PICK p \in found[r] : TRUE
    BY <2>1 DEF FoundTruthful
  <2>3. p \in Privileges
    BY <2>1, <2>2 DEF TypeOK
  <2>4. <<r, p, via[r]>> \in Rows
    BY <2>1, <2>3 DEF Rows
  <2>5. <<r, p, via[r]>> \in rows
    BY <2>2, <2>4
  <2> QED
    BY <2>5
<1>t. rows \subseteq Rows
  OBVIOUS
<1> HIDE DEF rows
<1>1. TypeOK'
  <2>1. rolePrivs' \in [Roles -> SUBSET Privileges]
    BY <1>0 DEF TypeOK
  <2>2. pending' \in SUBSET Users
    BY <1>0
  <2>3. shown' \in SUBSET Rows
    BY <1>0, <1>t DEF TypeOK
  <2> QED
    BY <1>0, <1>i, <2>1, <2>2, <2>3 DEF TypeOK, Rows
<1>2. Fresh' /\ OwnRolePrivs' /\ Frontier' /\ NobodyPending'
  BY <1>0 DEF Fresh, OwnRolePrivs, Frontier, NobodyPending
<1>3. QueueTruthful' /\ FoundTruthful'
  BY <1>0, <1>i, <1>a DEF QueueTruthful, QueueIndices, FoundTruthful
<1>4. RolePrivsHeld'
  BY <1>0, <1>a DEF RolePrivsHeld, FoundTruthful
<1>5. ReachedClosed'
  BY <1>0, <1>i, <1>d DEF ReachedClosed
<1>6. OwnGrantsShown'
  BY <1>0, <1>i, <1>f DEF OwnGrantsShown
<1>7. Merged'
  <2> SUFFICES ASSUME NEW r \in Reached PROVE rolePrivs'[r] # {} /\ IsShown(r)'
    BY <1>d DEF Merged
  <2>1. CASE r \in Inheriting
    <3>1. found[r] # {}
      BY <2>1, <1>c DEF FoundTruthful
    <3>2. rolePrivs'[r] = found[r]
      BY <2>1, <1>0, <1>c
    <3> QED
      BY <2>1, <3>1, <3>2, <1>s, <1>g
  <2>2. CASE r \notin Inheriting
    <3>1. r \in Roles /\ granted[r] # {}
      BY <2>2, <1>c DEF Reached
    <3>2. rolePrivs'[r] = granted[r]
      BY <2>2, <3>1, <1>0, <1>b
    <3>3. IsShown(r)
      BY <3>1, <1>0 DEF OwnGrantsShown
    <3> QED
      BY <3>1, <3>2, <3>3, <1>f
  <2> QED
    BY <2>1, <2>2
<1>8. UsersResolved'
  <2> SUFFICES ASSUME NEW u \in Users, u \notin pending', Held(u) # {} PROVE IsShown(u)'
    BY <1>a DEF UsersResolved
  <2>1. userGrants[u] # {}
    <3>1. CASE Holding(rolePrivs) # {}
      BY <3>1, <1>0
    <3>2. CASE Holding(rolePrivs) = {}
      <4>1. \A r \in Roles : granted[r] = {}
        BY <3>2, <1>b DEF Holding
      <4>2. \A r \in Roles : HeldByRole(r) = {}
        <5> SUFFICES ASSUME NEW r \in Roles, NEW p \in HeldByRole(r) PROVE FALSE
          OBVIOUS
        <5>1. PICK x \in Above(r) : p \in granted[x]
          BY HeldByRoleMember
        <5>2. x \in Roles
          BY DEF Above
        <5> QED
          BY <4>1, <5>1, <5>2
      <4>3. rolesOf[u] \subseteq Roles
        BY DEF TypeOK
      <4> QED
        BY <4>2, <4>3, HeldMember
    <3> QED
      BY <3>1, <3>2
  <2>2. IsShown(u)
    BY <2>1, <1>0 DEF OwnGrantsShown
  <2> QED
    BY <2>2, <1>f
<1>9. ShownIsHeld'
  <2>1. \A row \in rows : row[2] \in Held(row[1])
    BY <1>e, HeldMember
  <2> QED
    BY <1>0, <1>a, <2>1 DEF ShownIsHeld
<1>10. SourceIsInherited'
  <2>1. \A row \in rows : row[1] \notin Users /\ row[3] \in Above(row[1]) /\ granted[row[3]] # {}
    BY <1>e, ConstantsAssumption
  <2> QED
    BY <1>0, <1>i, <1>a, <2>1 DEF SourceIsInherited
<1> QED
  BY <1>1, <1>2, <1>3, <1>4, <1>5, <1>6, <1>7, <1>8, <1>9, <1>10

(* A set of natural numbers has a least member.                            *)
LEMMA LeastMember ==
  ASSUME NEW S \in SUBSET Nat, S # {}
  PROVE  \E i \in S : \A j \in S : i <= j
<1> DEFINE below == OpToRel(<, Nat)
<1>1. IsWellFoundedOn(below, Nat)
  BY NatLessThanWellFounded
<1>2. \A x, y \in Nat : y < x => <<y, x>> \in below
  BY DEF OpToRel
<1> HIDE DEF below
<1>3. PICK i \in S : \A j \in S : <<j, i>> \notin below
  BY <1>1, WFMin
<1>4. \A j \in S : i \in Nat /\ j \in Nat /\ ~(j < i)
  BY <1>2, <1>3
<1> QED
  BY <1>4

(* The fast path finds something for whoever has a role that holds         *)
(* something: take the first such role in the user's list.                 *)
LEMMA FastPathFinds ==
  ASSUME TypeOK, NEW u \in Users, NEW l \in Listings(rolesOf[u]),
         NEW r \in rolesOf[u], rolePrivs[r] # {}
  PROVE  \E row \in FastRows(u, l) : row[1] = u
<1>1. rolesOf[u] \in SUBSET Roles
  BY DEF TypeOK
<1>2. /\ Len(l) \in Nat
      /\ \A i \in 1..Len(l) : l[i] \in rolesOf[u]
      /\ \A x \in rolesOf[u] : \E i \in 1..Len(l) : l[i] = x
  BY <1>1, ListingProperties
<1>3. PICK p \in rolePrivs[r] : p \in Privileges
  BY <1>1 DEF TypeOK
<1> DEFINE having == {i \in 1..Len(l) : p \in rolePrivs[l[i]]}
<1>4. having \in SUBSET Nat /\ having # {}
  <2>1. PICK i \in 1..Len(l) : l[i] = r
    BY <1>2
  <2>2. i \in having
    BY <1>3, <2>1
  <2>3. having \subseteq 1..Len(l)
    OBVIOUS
  <2>4. 1..Len(l) \subseteq Nat
    BY <1>2
  <2> HIDE DEF having
  <2> QED
    BY <2>2, <2>3, <2>4
<1>5. PICK i \in having : \A j \in having : i <= j
  BY <1>4, LeastMember
<1>6. \A j \in 1..(i - 1) : p \notin rolePrivs[l[j]]
  BY <1>2, <1>5
<1>7. <<u, p, l[i]>> \in Rows
  BY <1>1, <1>2, <1>3 DEF Rows
<1>8. <<u, p, l[i]>> \in FastRows(u, l)
  BY <1>2, <1>5, <1>6, <1>7 DEF FastRows
<1> QED
  BY <1>8

LEMMA ResolveUserStep ==
  ASSUME IInv, NEW u \in Users, ResolveUser(u)
  PROVE  IInv'
<1> USE DEF IInv
<1>0. /\ UNCHANGED inputs /\ pc = "users" /\ pc' = "users"
      /\ pending' = pending \ {u}
      /\ UNCHANGED <<queue, visited, found, via, rolePrivs>>
  BY DEF ResolveUser
<1>i. UNCHANGED <<children, rolesOf, granted, userGrants>>
  BY <1>0 DEF inputs
<1>a. /\ \A r : Above(r)' = Above(r)
      /\ \A r : HeldByRole(r)' = HeldByRole(r)
      /\ \A g : Held(g)' = Held(g)
  BY <1>0, SameHoldings
<1>l. PICK l \in Listings(rolesOf[u]) :
        IF FastRows(u, l) # {}
        THEN shown' = shown \cup FastRows(u, l)
        ELSE \E rows \in SlowAnswers(u) : shown' = shown \cup rows
  BY DEF ResolveUser
<1>b. rolesOf[u] \in SUBSET Roles
  BY DEF TypeOK
<1>c. PICK rows : /\ shown' = shown \cup rows
                  /\ rows = FastRows(u, l) \/ (FastRows(u, l) = {} /\ rows \in SlowAnswers(u))
  BY <1>l
<1>d. ASSUME NEW row \in rows
      PROVE  /\ row \in Rows
             /\ row[1] = u
             /\ row[3] \in rolesOf[u]
             /\ row[2] \in HeldByRole(row[3])
  <2>1. CASE row \in FastRows(u, l)
    <3>1. /\ Len(l) \in Nat
          /\ \A i \in 1..Len(l) : l[i] \in rolesOf[u]
      BY <1>b, ListingProperties
    <3>2. row \in Rows /\ row[1] = u
      BY <2>1 DEF FastRows
    <3>3. PICK i \in 1..Len(l) : row[3] = l[i] /\ row[2] \in rolePrivs[l[i]]
      BY <2>1 DEF FastRows
    <3>4. row[3] \in rolesOf[u] /\ row[2] \in rolePrivs[row[3]]
      BY <3>1, <3>3
    <3> QED
      BY <3>2, <3>4, <1>b DEF RolePrivsHeld
  <2>2. CASE row \in SlowRows(u)
    <3>1. row \in Rows /\ row[1] = u /\ row[3] \in rolesOf[u]
      BY <2>2 DEF SlowRows
    <3>2. PICK x \in Above(row[3]) : row[2] \in rolePrivs[x]
      BY <2>2 DEF SlowRows
    <3>3. x \in Roles /\ row[2] \in HeldByRole(x)
      BY <3>2 DEF Above, RolePrivsHeld
    <3> QED
      BY <1>b, <3>1, <3>2, <3>3, HeldBelow
  <2> QED
    BY <1>c, <2>1, <2>2 DEF SlowAnswers
<1>f. \A g : IsShown(g) => IsShown(g)'
  BY <1>c DEF IsShown
<1>r. Reached' = Reached
  BY <1>0, <1>i DEF Reached
<1>1. TypeOK'
  <2>1. shown' \in SUBSET Rows
    BY <1>c, <1>d DEF TypeOK
  <2> QED
    BY <1>0, <1>i, <2>1 DEF TypeOK, Rows
<1>2. Fresh' /\ OwnRolePrivs' /\ Frontier' /\ NobodyPending'
  BY <1>0 DEF Fresh, OwnRolePrivs, Frontier, NobodyPending
<1>3. QueueTruthful' /\ FoundTruthful' /\ RolePrivsHeld'
  BY <1>0, <1>i, <1>a DEF QueueTruthful, QueueIndices, FoundTruthful, RolePrivsHeld
<1>4. ReachedClosed'
  BY <1>0, <1>i, <1>r DEF ReachedClosed
<1>5. OwnGrantsShown' /\ Merged'
  BY <1>0, <1>i, <1>f, <1>r DEF OwnGrantsShown, Merged
<1>6. UsersResolved'
  <2> SUFFICES ASSUME NEW v \in Users, v \notin pending', Held(v) # {} PROVE IsShown(v)'
    BY <1>a DEF UsersResolved
  <2>1. CASE v # u \/ userGrants[u] # {}
    BY <2>1, <1>0, <1>f DEF UsersResolved, OwnGrantsShown
  <2>2. CASE v = u /\ userGrants[u] = {}
    <3>1. PICK r \in rolesOf[u] : HeldByRole(r) # {}
      BY <2>2, HeldMember
    <3>2. r \in Reached
      BY <3>1, <1>0, <1>b, HeldIsReached
    <3>3. rolePrivs[r] # {}
      BY <3>2, <1>0 DEF Merged
    <3>4. \E row \in FastRows(u, l) : row[1] = u
      BY <3>3, FastPathFinds
    <3>5. rows = FastRows(u, l)
      BY <3>4, <1>c
    <3> QED
      BY <2>2, <3>4, <3>5, <1>c DEF IsShown
  <2> QED
    BY <2>1, <2>2
<1>7. ShownIsHeld'
  <2>1. \A row \in rows : row[2] \in Held(row[1])
    BY <1>d, HeldMember
  <2> QED
    BY <1>a, <1>c, <2>1 DEF ShownIsHeld
<1>8. SourceIsInherited'
  <2>1. \A row \in rows : row[1] \in Users /\ row[3] \in rolesOf[row[1]] /\ row[2] \in HeldByRole(row[3])
    BY <1>d
  <2> QED
    BY <1>i, <1>a, <1>c, <2>1 DEF SourceIsInherited
<1> QED
  BY <1>1, <1>2, <1>3, <1>4, <1>5, <1>6, <1>7, <1>8

LEMMA FinishStep == IInv /\ Finish => IInv'
<1> SUFFICES ASSUME IInv, Finish PROVE IInv'
  OBVIOUS
<1> USE DEF IInv
<1>0. /\ UNCHANGED inputs /\ pc = "users" /\ pending = {} /\ pc' = "done"
      /\ UNCHANGED <<queue, visited, found, via, rolePrivs, pending, shown>>
  BY DEF Finish
<1>i. UNCHANGED <<children, rolesOf, granted, userGrants>>
  BY <1>0 DEF inputs
<1>a. /\ \A r : Above(r)' = Above(r)
      /\ \A r : HeldByRole(r)' = HeldByRole(r)
      /\ \A g : Held(g)' = Held(g)
  BY <1>0, SameHoldings
<1>r. Reached' = Reached
  BY <1>0, <1>i DEF Reached
<1>1. TypeOK' /\ NobodyPending'
  BY <1>0, <1>i DEF TypeOK, Rows, NobodyPending
<1>2. Fresh' /\ OwnRolePrivs' /\ Frontier'
  BY <1>0 DEF Fresh, OwnRolePrivs, Frontier
<1>3. QueueTruthful' /\ FoundTruthful' /\ RolePrivsHeld'
  BY <1>0, <1>i, <1>a DEF QueueTruthful, QueueIndices, FoundTruthful, RolePrivsHeld
<1>4. ReachedClosed' /\ OwnGrantsShown' /\ Merged' /\ UsersResolved'
  BY <1>0, <1>i, <1>a, <1>r DEF ReachedClosed, OwnGrantsShown, IsShown, Merged, UsersResolved
<1>5. ShownIsHeld' /\ SourceIsInherited'
  BY <1>0, <1>i, <1>a DEF ShownIsHeld, SourceIsInherited
<1> QED
  BY <1>1, <1>2, <1>3, <1>4, <1>5

LEMMA StutterStep == IInv /\ UNCHANGED vars => IInv'
<1> SUFFICES ASSUME IInv, UNCHANGED vars PROVE IInv'
  OBVIOUS
<1> USE DEF IInv
<1>0. /\ UNCHANGED inputs
      /\ UNCHANGED <<pc, queue, visited, found, via, rolePrivs, pending, shown>>
  BY DEF vars
<1>i. UNCHANGED <<children, rolesOf, granted, userGrants>>
  BY <1>0 DEF inputs
<1>a. /\ \A r : Above(r)' = Above(r)
      /\ \A r : HeldByRole(r)' = HeldByRole(r)
      /\ \A g : Held(g)' = Held(g)
  BY <1>0, SameHoldings
<1>r. Reached' = Reached /\ Queued' = Queued
  BY <1>0, <1>i DEF Reached, Queued, QueueIndices
<1>1. TypeOK' /\ NobodyPending' /\ Fresh' /\ OwnRolePrivs'
  BY <1>0, <1>i DEF TypeOK, Rows, NobodyPending, Fresh, OwnRolePrivs
<1>2. QueueTruthful' /\ FoundTruthful' /\ RolePrivsHeld'
  BY <1>0, <1>i, <1>a DEF QueueTruthful, QueueIndices, FoundTruthful, RolePrivsHeld
<1>3. Frontier' /\ ReachedClosed' /\ OwnGrantsShown' /\ Merged' /\ UsersResolved'
  BY <1>0, <1>i, <1>a, <1>r DEF Frontier, ReachedClosed, OwnGrantsShown, IsShown, Merged, UsersResolved
<1>4. ShownIsHeld' /\ SourceIsInherited'
  BY <1>0, <1>i, <1>a DEF ShownIsHeld, SourceIsInherited
<1> QED
  BY <1>1, <1>2, <1>3, <1>4

-----------------------------------------------------------------------------
(* The inductive invariant holds in every state of for_object's            *)
(* computation (GrantResolver.for_object).                                 *)
THEOREM Invariance == Spec => []IInv
<1>1. IInv /\ [Next]_vars => IInv'
  <2> SUFFICES ASSUME IInv, [Next]_vars PROVE IInv'
    OBVIOUS
  <2>1. CASE Classify
    BY <2>1, ClassifyStep
  <2>2. CASE Skip
    BY <2>2, SkipStep
  <2>3. CASE Expand
    BY <2>3, ExpandStep
  <2>4. CASE SearchDone
    BY <2>4, SearchDoneStep
  <2>5. CASE Merge
    BY <2>5, MergeStep
  <2>6. CASE \E u \in Users : ResolveUser(u)
    BY <2>6, ResolveUserStep
  <2>7. CASE Finish
    BY <2>7, FinishStep
  <2>8. CASE UNCHANGED vars
    BY <2>8, StutterStep
  <2> QED
    BY <2>1, <2>2, <2>3, <2>4, <2>5, <2>6, <2>7, <2>8 DEF Next
<1> QED
  BY InitIInv, <1>1, PTL DEF Spec

(* The types of for_object's intermediate results: queue, result,          *)
(* role_privs and the rows of the answer.                                  *)
THEOREM TypeCorrect == Spec => []TypeOK
<1>1. IInv => TypeOK
  BY DEF IInv
<1> QED
  BY <1>1, Invariance, PTL

(* for_object shows nobody with a privilege he does not hold.              *)
THEOREM OnlyHeldShown == Spec => []ShownIsHeld
<1>1. IInv => ShownIsHeld
  BY DEF IInv
<1> QED
  BY <1>1, Invariance, PTL

(* The source for_object names is a role the grantee inherits from.        *)
THEOREM SourcesSound == Spec => []SourceIsInherited
<1>1. IInv => SourceIsInherited
  BY DEF IInv
<1> QED
  BY <1>1, Invariance, PTL

(* When for_object returns, everybody who holds anything on the object is  *)
(* in the answer.                                                          *)
THEOREM EverybodyShown == Spec => []NobodyMissing
<1>1. IInv => NobodyMissing
  <2> SUFFICES ASSUME IInv, pc = "done", NEW g \in Roles \cup Users, Held(g) # {}
               PROVE  IsShown(g)
    BY DEF NobodyMissing, IsShown
  <2>1. CASE g \in Users
    BY <2>1 DEF IInv, UsersResolved, NobodyPending
  <2>2. CASE g \in Roles
    <3>1. HeldByRole(g) # {}
      BY <2>2, HeldMember
    <3>2. g \in Reached
      BY <2>2, <3>1, HeldIsReached DEF IInv
    <3> QED
      BY <3>2 DEF IInv, Merged
  <2> QED
    BY <2>1, <2>2
<1> QED
  BY <1>1, Invariance, PTL
=============================================================================
