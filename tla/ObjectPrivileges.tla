-------------------------- MODULE ObjectPrivileges --------------------------
(***************************************************************************)
(* GrantResolver.for_object for administrators: who holds privileges on    *)
(* one object, computed in memory from what the collector read:            *)
(*                                                                         *)
(*  1. the grants that concern the object, of roles and of users;          *)
(*  2. _bfs_child_roles: a breadth-first search from the roles that have   *)
(*     such grants down to the roles that inherit from them;               *)
(*  3. _bfs_user_privs, user by user: what the user's roles hold.          *)
(*                                                                         *)
(* Which grants concern an object is classify_grant's business and is      *)
(* abstracted from: the model starts with those that do.                   *)
(***************************************************************************)
EXTENDS Naturals, Sequences, FiniteSets

CONSTANTS
  Roles,      \* the roles of the cluster
  Users,      \* all_users
  Privileges, \* privilege types
  Direct,     \* the source of a grantee's own grants
  None        \* no origin

ASSUME ConstantsAssumption ==
  /\ IsFiniteSet(Roles)
  /\ Roles \cap Users = {}
  /\ Direct \notin Roles
  /\ None \notin Roles

VARIABLES
  children,  \* role_child_map
  rolesOf,   \* user_role_map
  granted,   \* the privileges granted to each role itself
  userGrants, \* and to each user
  pc,
  queue,     \* pairs of a role and the role the search came from
  visited,
  found,     \* the privileges in the search's result, per role
  via,       \* the origin in the search's result; None: not in the result
  rolePrivs, \* role_privs; {}: not in it
  pending,   \* users still to resolve
  shown      \* the answer's rows: grantee, privilege, source

inputs == <<children, rolesOf, granted, userGrants>>
vars == <<inputs, pc, queue, visited, found, via, rolePrivs, pending, shown>>

Rows == (Roles \cup Users) \X Privileges \X (Roles \cup {Direct})

TypeOK ==
  /\ children \in [Roles -> SUBSET Roles]
  /\ rolesOf \in [Users -> SUBSET Roles]
  /\ granted \in [Roles -> SUBSET Privileges]
  /\ userGrants \in [Users -> SUBSET Privileges]
  /\ pc \in {"classify", "search", "merge", "users", "done"}
  /\ queue \in Seq(Roles \X Roles)
  /\ visited \in SUBSET Roles
  /\ found \in [Roles -> SUBSET Privileges]
  /\ via \in [Roles -> Roles \cup {None}]
  /\ rolePrivs \in [Roles -> SUBSET Privileges]
  /\ pending \in SUBSET Users
  /\ shown \in SUBSET Rows

(* Any collected grants; no role is granted to itself.                     *)
Init ==
  /\ children \in [Roles -> SUBSET Roles]
  /\ \A r \in Roles : r \notin children[r]
  /\ rolesOf \in [Users -> SUBSET Roles]
  /\ granted \in [Roles -> SUBSET Privileges]
  /\ userGrants \in [Users -> SUBSET Privileges]
  /\ pc = "classify"
  /\ queue = <<>>
  /\ visited = {}
  /\ found = [r \in Roles |-> {}]
  /\ via = [r \in Roles |-> None]
  /\ rolePrivs = [r \in Roles |-> {}]
  /\ pending = {}
  /\ shown = {}

(* The elements of a set in the order of some list or dict.                *)
Listings(S) ==
  {l \in [1..Cardinality(S) -> S] : \A x \in S : \E i \in 1..Cardinality(S) : l[i] = x}

HeadRole == Head(queue)[1]
HeadOrigin == Head(queue)[2]

Holding(privs) == {r \in Roles : privs[r] # {}}

-----------------------------------------------------------------------------
OwnRows ==
  {row \in Rows : row[3] = Direct /\
     \/ row[1] \in Roles /\ row[2] \in granted[row[1]]
     \/ row[1] \in Users /\ row[2] \in userGrants[row[1]]}

(* FAULT: the queue starts with roles instead of pairs.                    *)
ClassifyBareRoles ==
  /\ pc = "classify"
  /\ shown' = OwnRows
  /\ rolePrivs' = granted
  /\ IF Holding(granted) # {} /\ \E r \in Roles : children[r] # {}
     THEN /\ pc' = "search"
          /\ queue' \in Listings(Holding(granted))
     ELSE /\ pc' = "merge"
          /\ UNCHANGED queue
  /\ UNCHANGED <<inputs, visited, found, via, pending>>

(* Steps 1 and 2: the rows the grants themselves make, and the queue of    *)
(* the search, in the order of the grants.                                 *)
Classify ==
  /\ pc = "classify"
  /\ shown' = OwnRows
  /\ rolePrivs' = granted
  /\ IF Holding(granted) # {} /\ \E r \in Roles : children[r] # {}
     THEN /\ pc' = "search"
          /\ \E l \in Listings(Holding(granted)) :
               queue' = [i \in 1..Len(l) |-> <<l[i], l[i]>>]
     ELSE /\ pc' = "merge"
          /\ UNCHANGED queue
  /\ UNCHANGED <<inputs, visited, found, via, pending>>

Skip ==
  /\ pc = "search" /\ queue # <<>>
  /\ HeadRole \in visited
  /\ queue' = Tail(queue)
  /\ UNCHANGED <<inputs, pc, visited, found, via, rolePrivs, pending, shown>>

(* What a role passes on: its own privileges, or else those of the role    *)
(* the search came from.                                                   *)
PassedOn(r, o) == IF rolePrivs[r] # {} THEN rolePrivs[r] ELSE rolePrivs[o]

(* FAULT: the role graph is followed to the roles a role inherits from.    *)
ExpandUpward ==
  /\ pc = "search" /\ queue # <<>>
  /\ HeadRole \notin visited
  /\ visited' = visited \cup {HeadRole}
  /\ LET below == {r \in Roles : HeadRole \in children[r]}
     IN  /\ found' = [c \in Roles |->
              IF c \in below THEN found[c] \cup PassedOn(HeadRole, HeadOrigin) ELSE found[c]]
         /\ via' = [c \in Roles |->
              IF c \in below /\ via[c] = None THEN HeadOrigin ELSE via[c]]
         /\ \E l \in Listings(below \ visited') :
              queue' = Tail(queue) \o [i \in 1..Len(l) |-> <<l[i], HeadOrigin>>]
  /\ UNCHANGED <<inputs, pc, rolePrivs, pending, shown>>

(* FAULT: the result names the role that was expanded.                     *)
ExpandNearestOrigin ==
  /\ pc = "search" /\ queue # <<>>
  /\ HeadRole \notin visited
  /\ visited' = visited \cup {HeadRole}
  /\ LET below == children[HeadRole]
     IN  /\ found' = [c \in Roles |->
              IF c \in below THEN found[c] \cup PassedOn(HeadRole, HeadOrigin) ELSE found[c]]
         /\ via' = [c \in Roles |->
              IF c \in below /\ via[c] = None THEN HeadRole ELSE via[c]]
         /\ \E l \in Listings(below \ visited') :
              queue' = Tail(queue) \o [i \in 1..Len(l) |-> <<l[i], HeadOrigin>>]
  /\ UNCHANGED <<inputs, pc, rolePrivs, pending, shown>>

(* FAULT: only the children of the roles with grants are found.            *)
ExpandOneLevel ==
  /\ pc = "search" /\ queue # <<>>
  /\ HeadRole \notin visited
  /\ visited' = visited \cup {HeadRole}
  /\ LET below == children[HeadRole]
     IN  /\ found' = [c \in Roles |->
              IF c \in below THEN found[c] \cup PassedOn(HeadRole, HeadOrigin) ELSE found[c]]
         /\ via' = [c \in Roles |->
              IF c \in below /\ via[c] = None THEN HeadOrigin ELSE via[c]]
         /\ queue' = Tail(queue)
  /\ UNCHANGED <<inputs, pc, rolePrivs, pending, shown>>

Expand ==
  /\ pc = "search" /\ queue # <<>>
  /\ HeadRole \notin visited
  /\ visited' = visited \cup {HeadRole}
  /\ LET below == children[HeadRole]
     IN  /\ found' = [c \in Roles |->
              IF c \in below THEN found[c] \cup PassedOn(HeadRole, HeadOrigin) ELSE found[c]]
         /\ via' = [c \in Roles |->
              IF c \in below /\ via[c] = None THEN HeadOrigin ELSE via[c]]
         /\ \E l \in Listings(below \ visited') :
              queue' = Tail(queue) \o [i \in 1..Len(l) |-> <<l[i], HeadOrigin>>]
  /\ UNCHANGED <<inputs, pc, rolePrivs, pending, shown>>

SearchDone ==
  /\ pc = "search" /\ queue = <<>>
  /\ pc' = "merge"
  /\ UNCHANGED <<inputs, queue, visited, found, via, rolePrivs, pending, shown>>

(* The roles found, but for those that have grants of their own.           *)
Inheriting == {r \in Roles : via[r] # None} \ Holding(granted)

(* Step 3 begins with the users that have no grants of their own.          *)
Merge ==
  /\ pc = "merge"
  /\ rolePrivs' = [r \in Roles |-> IF r \in Inheriting THEN found[r] ELSE rolePrivs[r]]
  /\ shown' = shown \cup {row \in Rows :
       row[1] \in Inheriting /\ row[2] \in found[row[1]] /\ row[3] = via[row[1]]}
  /\ pending' = IF Holding(rolePrivs) # {} THEN {u \in Users : userGrants[u] = {}} ELSE {}
  /\ pc' = "users"
  /\ UNCHANGED <<inputs, queue, visited, found, via>>

(* The roles a role inherits from, and itself: invert_child_map, followed  *)
(* upward.                                                                 *)
Above(r) ==
  {a \in Roles : \A C \in SUBSET Roles :
     (r \in C /\ \A p \in Roles : children[p] \cap C # {} => p \in C) => a \in C}

(* What the fast path of _bfs_user_privs reads off the user's own roles:   *)
(* every privilege with the first role that has it.                        *)
FastRows(u, l) ==
  {row \in Rows : row[1] = u /\ \E i \in 1..Len(l) :
     /\ row[3] = l[i]
     /\ row[2] \in rolePrivs[l[i]]
     /\ \A j \in 1..(i - 1) : row[2] \notin rolePrivs[l[j]]}

(* And the slow path, a search upward from them: a role's privilege with   *)
(* the user's role that led to it.  It names one such role per privilege,  *)
(* and misses what lies beyond its limit of 100 roles.                     *)
SlowRows(u) ==
  {row \in Rows : row[1] = u /\ row[3] \in rolesOf[u] /\
     \E a \in Above(row[3]) : row[2] \in rolePrivs[a]}

SlowAnswers(u) == {S \in SUBSET SlowRows(u) : \A x, y \in S : x[2] = y[2] => x = y}

ResolveUser(u) ==
  /\ pc = "users"
  /\ u \in pending
  /\ pending' = pending \ {u}
  /\ \E l \in Listings(rolesOf[u]) :
       IF FastRows(u, l) # {}
       THEN shown' = shown \cup FastRows(u, l)
       ELSE \E rows \in SlowAnswers(u) : shown' = shown \cup rows
  /\ UNCHANGED <<inputs, pc, queue, visited, found, via, rolePrivs>>

Finish ==
  /\ pc = "users"
  /\ pending = {}
  /\ pc' = "done"
  /\ UNCHANGED <<inputs, queue, visited, found, via, rolePrivs, pending, shown>>

-----------------------------------------------------------------------------
Next ==
  \/ Classify
  \/ Skip \/ Expand \/ SearchDone
  \/ Merge
  \/ \E u \in Users : ResolveUser(u)
  \/ Finish

Spec == Init /\ [][Next]_vars

-----------------------------------------------------------------------------
(* What a role holds: its own privileges and those of the roles above.     *)
HeldByRole(r) == UNION {granted[a] : a \in Above(r)}

Held(g) ==
  IF g \in Users THEN userGrants[g] \cup UNION {HeldByRole(r) : r \in rolesOf[g]} ELSE HeldByRole(g)

(* Nobody is shown with a privilege he does not hold.                      *)
ShownIsHeld == \A row \in shown : row[2] \in Held(row[1])

(* Where a privilege is said to come from is a role the grantee has it     *)
(* through: for a user one of his own roles, which holds the privilege;    *)
(* for a role one it inherits from, with grants on the object.             *)
SourceIsInherited ==
  \A row \in shown : row[3] # Direct =>
    IF row[1] \in Users
    THEN row[3] \in rolesOf[row[1]] /\ row[2] \in HeldByRole(row[3])
    ELSE row[3] \in Above(row[1]) /\ granted[row[3]] # {}

(* Everybody who holds anything on the object is shown with something.     *)
NobodyMissing ==
  pc = "done" =>
    \A g \in Roles \cup Users : Held(g) # {} => \E row \in shown : row[1] = g

(* API.md, GET /api/privileges/object: "Returns all privilege grants on a  *)
(* specific object (users + roles)"; the handler's docstring: "including   *)
(* inherited".                                                             *)
AllHeldIsShown ==
  pc = "done" =>
    \A g \in Roles \cup Users : \A p \in Held(g) : \E row \in shown : row[1] = g /\ row[2] = p
=============================================================================
