----------------------------- MODULE RoleSearch -----------------------------
(***************************************************************************)
(* The breadth-first searches that follow granted roles upward, one query  *)
(* of StarRocks per role:                                                  *)
(*                                                                         *)
(*  - "chain": build_role_chain, the roles of a user and, for each, the    *)
(*    directly assigned role it was discovered through;                    *)
(*  - "role": GrantResolver.for_role, the roles another role inherits;     *)
(*  - "ancestors": _find_ancestors_with_grants, the same without a limit.  *)
(*                                                                         *)
(* The search is not atomic: roles can be granted and revoked between two  *)
(* of its queries, and a query that fails counts as one without rows.      *)
(***************************************************************************)
EXTENDS Naturals, Sequences, FiniteSets

CONSTANTS
  Roles,      \* the roles of a cluster
  Public,     \* the role every user has
  None,       \* no role
  Limit,      \* how many roles are visited at most (100)
  MaxChanges, \* bound on the role grants that change during the searches
  MayFail     \* whether a query may fail

ASSUME ConstantsAssumption ==
  /\ IsFiniteSet(Roles)
  /\ Public \in Roles
  /\ None \notin Roles
  /\ Limit \in Nat
  /\ MaxChanges \in Nat
  /\ MayFail \in BOOLEAN

VARIABLES
  parents,  \* the roles granted to each role (sys.role_edges)
  changes,  \* how often parents has changed
  pc,       \* idle, search or done
  kind,     \* which of the searches runs
  root,     \* the role it starts from, or None
  seeds,    \* the roles the search starts with
  visited,
  origin,   \* the seed each role was found through
  queue,    \* pairs of a role and the seed it was found through
  ever,     \* history: the role grants that existed at some time of the search
  always,   \* history: those that existed all the time
  failed    \* history: a query of the search has failed

graph == <<parents, changes>>
search == <<pc, kind, root, seeds, visited, origin, queue, ever, always, failed>>
vars == <<graph, search>>

TypeOK ==
  /\ parents \in [Roles -> SUBSET Roles]
  /\ changes \in 0..MaxChanges
  /\ pc \in {"idle", "search", "done"}
  /\ kind \in {"chain", "role", "ancestors"}
  /\ root \in Roles \cup {None}
  /\ seeds \in SUBSET Roles
  /\ visited \in SUBSET Roles
  /\ origin \in [Roles -> Roles \cup {None}]
  /\ queue \in Seq(Roles \X Roles)
  /\ ever \in [Roles -> SUBSET Roles]
  /\ always \in [Roles -> SUBSET Roles]
  /\ failed \in BOOLEAN

NoGrants == [r \in Roles |-> {}]

Init ==
  /\ parents \in [Roles -> SUBSET Roles]
  /\ changes = 0
  /\ pc = "idle"
  /\ kind = "chain"
  /\ root = None
  /\ seeds = {}
  /\ visited = {}
  /\ origin = [r \in Roles |-> None]
  /\ queue = <<>>
  /\ ever = NoGrants
  /\ always = NoGrants
  /\ failed = FALSE

(* The rows of a query, in the order StarRocks happens to return them.     *)
Listings(S) ==
  {l \in [1..Cardinality(S) -> S] : \A x \in S : \E i \in 1..Cardinality(S) : l[i] = x}

(* get_user_roles and get_parent_roles: sys.role_edges, or else SHOW       *)
(* GRANTS, or else nothing.                                                *)
Answers(rows) == {rows} \cup (IF MayFail THEN {{}} ELSE {})

(* The queue's entries for the roles a query returned.                     *)
Selves(l) == [i \in 1..Len(l) |-> <<l[i], l[i]>>]
Via(l, seed) == [i \in 1..Len(l) |-> <<l[i], seed>>]

(* for role, origin in queue: ...                                          *)
HeadRole == Head(queue)[1]
HeadOrigin == Head(queue)[2]

-----------------------------------------------------------------------------
Begin(k, r) ==
  /\ pc = "idle"
  /\ pc' = "search"
  /\ kind' = k
  /\ root' = r
  /\ visited' = {r} \ {None}
  /\ ever' = parents
  /\ always' = parents
  /\ UNCHANGED <<graph, origin>>

(* The chain of a user with these roles.  build_role_chain appends         *)
(* "public" to the roles it read unless it is one of them.                 *)
BeginChain(assigned) ==
  /\ Begin("chain", None)
  /\ \E direct \in Answers(assigned) :
       /\ seeds' = direct \cup {Public}
       /\ failed' = (direct # assigned)
       /\ \E l \in Listings(direct) :
            queue' = IF Public \in direct THEN Selves(l) ELSE Append(Selves(l), <<Public, Public>>)

(* for_role and _find_ancestors_with_grants start at the parents of a role *)
(* that counts as visited.                                                 *)
BeginRole(k, r) ==
  /\ Begin(k, r)
  /\ \E answer \in Answers(parents[r]) :
       /\ seeds' = answer
       /\ failed' = (answer # parents[r])
       /\ \E l \in Listings(answer) : queue' = Selves(l)

(* FAULT: the limit is compared one too early.                             *)
SearchingStopsEarly ==
  /\ pc = "search"
  /\ queue # <<>>
  /\ kind = "ancestors" \/ Cardinality(visited) + 1 < Limit

(* while queue and len(visited) < 100                                      *)
Searching ==
  /\ pc = "search"
  /\ queue # <<>>
  /\ kind = "ancestors" \/ Cardinality(visited) < Limit

(* FAULT: continue before the entry is popped.                             *)
SkipWithoutPop ==
  /\ Searching
  /\ HeadRole \in visited
  /\ UNCHANGED vars

Skip ==
  /\ Searching
  /\ HeadRole \in visited
  /\ queue' = Tail(queue)
  /\ UNCHANGED <<graph, pc, kind, root, seeds, visited, origin, ever, always, failed>>

(* FAULT: the parents found are searched first.                            *)
VisitDepthFirst ==
  /\ Searching
  /\ HeadRole \notin visited
  /\ visited' = visited \cup {HeadRole}
  /\ origin' = [origin EXCEPT ![HeadRole] = HeadOrigin]
  /\ \E answer \in Answers(parents[HeadRole]) :
       /\ failed' = (failed \/ answer # parents[HeadRole])
       /\ \E l \in Listings(IF kind = "role" THEN answer ELSE answer \ visited') :
            queue' = Via(l, HeadOrigin) \o Tail(queue)
  /\ UNCHANGED <<graph, pc, kind, root, seeds, ever, always>>

(* FAULT: a role is attributed to the role it was found at.                *)
VisitNearestOrigin ==
  /\ Searching
  /\ HeadRole \notin visited
  /\ visited' = visited \cup {HeadRole}
  /\ origin' = [origin EXCEPT ![HeadRole] = HeadOrigin]
  /\ \E answer \in Answers(parents[HeadRole]) :
       /\ failed' = (failed \/ answer # parents[HeadRole])
       /\ \E l \in Listings(IF kind = "role" THEN answer ELSE answer \ visited') :
            queue' = Tail(queue) \o Via(l, HeadRole)
  /\ UNCHANGED <<graph, pc, kind, root, seeds, ever, always>>

(* FAULT: role_origin holds the queue's entry.                             *)
VisitRecordsEntry ==
  /\ Searching
  /\ HeadRole \notin visited
  /\ visited' = visited \cup {HeadRole}
  /\ origin' = [origin EXCEPT ![HeadRole] = Head(queue)]
  /\ \E answer \in Answers(parents[HeadRole]) :
       /\ failed' = (failed \/ answer # parents[HeadRole])
       /\ \E l \in Listings(IF kind = "role" THEN answer ELSE answer \ visited') :
            queue' = Tail(queue) \o Via(l, HeadOrigin)
  /\ UNCHANGED <<graph, pc, kind, root, seeds, ever, always>>

(* Only for_role also enters the parents it has visited.                   *)
Visit ==
  /\ Searching
  /\ HeadRole \notin visited
  /\ visited' = visited \cup {HeadRole}
  /\ origin' = [origin EXCEPT ![HeadRole] = HeadOrigin]
  /\ \E answer \in Answers(parents[HeadRole]) :
       /\ failed' = (failed \/ answer # parents[HeadRole])
       /\ \E l \in Listings(IF kind = "role" THEN answer ELSE answer \ visited') :
            queue' = Tail(queue) \o Via(l, HeadOrigin)
  /\ UNCHANGED <<graph, pc, kind, root, seeds, ever, always>>

Finish ==
  /\ pc = "search"
  /\ ~Searching
  /\ pc' = "done"
  /\ UNCHANGED <<graph, kind, root, seeds, visited, origin, queue, ever, always, failed>>

(* The caller has used the result.                                         *)
Answer ==
  /\ pc = "done"
  /\ pc' = "idle"
  /\ kind' = "chain"
  /\ root' = None
  /\ seeds' = {}
  /\ visited' = {}
  /\ origin' = [r \in Roles |-> None]
  /\ queue' = <<>>
  /\ ever' = NoGrants
  /\ always' = NoGrants
  /\ failed' = FALSE
  /\ UNCHANGED graph

(* Somebody grants role p to role r, or revokes it.                        *)
Change(r, p) ==
  /\ changes < MaxChanges
  /\ changes' = changes + 1
  /\ parents' = [parents EXCEPT ![r] = IF p \in @ THEN @ \ {p} ELSE @ \cup {p}]
  /\ IF pc = "search"
     THEN /\ ever' = [ever EXCEPT ![r] = @ \cup {p}]
          /\ always' = [always EXCEPT ![r] = @ \ {p}]
     ELSE UNCHANGED <<ever, always>>
  /\ UNCHANGED <<pc, kind, root, seeds, visited, origin, queue, failed>>

-----------------------------------------------------------------------------
Step == Skip \/ Visit \/ Finish

Next ==
  \/ \E assigned \in SUBSET Roles : BeginChain(assigned)
  \/ \E r \in Roles : BeginRole("role", r) \/ BeginRole("ancestors", r)
  \/ Step
  \/ Answer
  \/ \E r, p \in Roles : Change(r, p)

Spec == Init /\ [][Next]_vars

(* A search that started goes on.                                          *)
FairSpec == Spec /\ WF_vars(Step)

-----------------------------------------------------------------------------
(* The roles that the roles of S inherit under the grants E, and S itself. *)
Inherited(E, S) ==
  {r \in Roles : \A C \in SUBSET Roles :
      (S \subseteq C /\ \A c \in C : E[c] \subseteq C) => r \in C}

(* A role is in the chain only if the user really inherits it, through the *)
(* directly assigned role the chain names as its origin: along role grants *)
(* each of which existed while the search ran.                             *)
OriginTruthful ==
  \A r \in Roles : origin[r] # None =>
    /\ origin[r] \in seeds
    /\ r \in Inherited(ever, {origin[r]})

(* A directly assigned role is its own origin, also when another one       *)
(* inherits it: the seeds come first in the queue.                         *)
DirectIsItsOwnOrigin == \A r \in seeds : origin[r] \in {None, r}

(* No inherited role is missing, unless a query failed: neither because    *)
(* roles were granted and revoked meanwhile, nor because the limit cuts    *)
(* off a hierarchy that is not larger than the limit.                      *)
ChainComplete ==
  pc = "done" /\ ~failed
    /\ (kind = "ancestors" \/ Cardinality(Inherited(ever, seeds) \cup ({root} \ {None})) <= Limit)
  => Inherited(always, seeds) \subseteq visited

(* The visited set keeps the searches from running in circles.             *)
SearchEnds == pc = "search" ~> pc = "done"
=============================================================================
