----------------------------- MODULE GrantCache -----------------------------
(***************************************************************************)
(* The server-side grant caches of the permission manager and everything   *)
(* that races on them:                                                     *)
(*                                                                         *)
(*  - readers: request threads that run GrantCollector.collect, which      *)
(*    looks the (host, username, is_admin) key up under a lock, collects   *)
(*    from StarRocks OUTSIDE the lock on a miss, and stores the result     *)
(*    under the lock again; an administrator's collection also goes        *)
(*    through the process-wide user list cache of get_all_users;           *)
(*  - writers: request threads that change grants (execute_grant) and then *)
(*    wipe every cache, and logins, which wipe every cache too;            *)
(*  - StarRocks itself, whose grants other tools may change;               *)
(*  - time: a cached entry may expire at any moment after it was stored.   *)
(*                                                                         *)
(* The grants of a StarRocks host are abstracted to a version number that  *)
(* every change increments.  What a query returned is the version it saw,  *)
(* or Lost when the query failed and the code carried on without its rows. *)
(***************************************************************************)
EXTENDS Integers

CONSTANTS
  Readers,    \* request threads that read grants
  Writers,    \* request threads that change grants or log in
  Hosts,      \* StarRocks clusters the process serves
  Keys,       \* keys of the grants cache: (host, username, is_admin)
  HostOf,     \* the host of a key
  AdminKeys,  \* the keys with is_admin = True
  None,       \* no entry, no holder
  MaxVersion, \* bound on the number of grant changes per host
  MayFail     \* whether a StarRocks query may fail

Lost == -1

Version == Nat \cup {Lost}

(* Which host's users a user list names, and which version of them.  The   *)
(* field `late' is history: the caches were cleared between the queries    *)
(* that produced the list and its store.                                   *)
UserList == [host : Hosts, ver : Version, late : BOOLEAN]

(* A CollectedGrants: the grant rows, the user list, the role graph, and   *)
(* the same history for the collection as a whole.                         *)
Collected == [grants : Version, users : UserList, roles : Version, late : BOOLEAN]

ASSUME ConstantsAssumption ==
  /\ HostOf \in [Keys -> Hosts]
  /\ AdminKeys \subseteq Keys
  /\ MaxVersion \in Nat
  /\ MayFail \in BOOLEAN
  /\ None \notin Readers \cup Keys \cup UserList \cup Collected

VARIABLES
  db,          \* current version of each host's grants
  acked,       \* last version whose change was acknowledged to its author
  grantsCache, \* grant_collector.grants
  usersCache,  \* user_service.users: one entry, key "all_users"
  usersLock,   \* holder of _user_cache_lock across two steps
  pc,          \* where each reader is
  key,         \* the key each reader was asked for
  draft,       \* the CollectedGrants a reader is assembling or returning
  wpc,         \* where each writer is
  whost,       \* the host a writer changes
  wver         \* the version a writer's change produced (0: a login)

readerVars == <<pc, key, draft>>
writerVars == <<wpc, whost, wver>>
cacheVars  == <<grantsCache, usersCache, usersLock>>
vars == <<db, acked, cacheVars, readerVars, writerVars>>

ReaderPc ==
  {"idle", "lookup", "grants", "users", "usersHit", "usersQuery",
   "usersStore", "roles", "store", "served", "crashed"}
WriterPc == {"idle", "execute", "clearUsers", "clearGrants"}

Host(r) == HostOf[key[r]]

TypeOK ==
  /\ db \in [Hosts -> Nat]
  /\ acked \in [Hosts -> Nat]
  /\ grantsCache \in [Keys -> Collected \cup {None}]
  /\ usersCache \in UserList \cup {None}
  /\ usersLock \in Readers \cup {None}
  /\ pc \in [Readers -> ReaderPc]
  /\ key \in [Readers -> Keys \cup {None}]
  /\ draft \in [Readers -> Collected \cup {None}]
  /\ \A r \in Readers : pc[r] # "idle" => key[r] \in Keys /\ draft[r] \in Collected
  /\ wpc \in [Writers -> WriterPc]
  /\ whost \in [Writers -> Hosts]
  /\ wver \in [Writers -> Nat]

(* all_users = set() and empty lists.                                      *)
NoUsers(h) == [host |-> h, ver |-> Lost, late |-> FALSE]

NoData(h) ==
  [grants |-> Lost, users |-> NoUsers(h), roles |-> Lost, late |-> FALSE]

Init ==
  /\ db = [h \in Hosts |-> 0]
  /\ acked = [h \in Hosts |-> 0]
  /\ grantsCache = [k \in Keys |-> None]
  /\ usersCache = None
  /\ usersLock = None
  /\ pc = [r \in Readers |-> "idle"]
  /\ key = [r \in Readers |-> None]
  /\ draft = [r \in Readers |-> None]
  /\ wpc = [w \in Writers |-> "idle"]
  /\ whost \in [Writers -> Hosts]
  /\ wver = [w \in Writers |-> 0]

-----------------------------------------------------------------------------
(* Readers: GrantCollector.collect                                         *)

(* A request for key k arrives.                                            *)
Request(r, k) ==
  /\ pc[r] = "idle"
  /\ pc' = [pc EXCEPT ![r] = "lookup"]
  /\ key' = [key EXCEPT ![r] = k]
  /\ draft' = [draft EXCEPT ![r] = NoData(HostOf[k])]
  /\ UNCHANGED <<db, acked, cacheVars, writerVars>>

(* Hit under _grants_cache_lock: the caller gets a deep copy.              *)
Hit(r) ==
  /\ pc[r] = "lookup"
  /\ grantsCache[key[r]] # None
  /\ draft' = [draft EXCEPT ![r] = grantsCache[key[r]]]
  /\ pc' = [pc EXCEPT ![r] = "served"]
  /\ UNCHANGED <<db, acked, cacheVars, key, writerVars>>

(* Miss: _collect_uncached picks the administrator's or the user's         *)
(* collector.  collect_admin reads the grants first, collect_non_admin the *)
(* role chain.                                                             *)
Miss(r) ==
  /\ pc[r] = "lookup"
  /\ grantsCache[key[r]] = None
  /\ pc' = [pc EXCEPT ![r] = IF key[r] \in AdminKeys THEN "grants" ELSE "roles"]
  /\ UNCHANGED <<db, acked, cacheVars, key, draft, writerVars>>

(* What a query of the reader's host can return now.                       *)
Answers(r) == {db[Host(r)]} \cup (IF MayFail THEN {Lost} ELSE {})

(* FAULT: every collection goes on to the process-wide user list.          *)
CollectGrantsWithUsers(r) ==
  /\ pc[r] = "grants"
  /\ \E v \in Answers(r) : draft' = [draft EXCEPT ![r].grants = v]
  /\ pc' = [pc EXCEPT ![r] = IF draft[r].users.ver = Lost THEN "users" ELSE "store"]
  /\ UNCHANGED <<db, acked, cacheVars, key, writerVars>>

CollectGrants(r) ==
  /\ pc[r] = "grants"
  /\ \E v \in Answers(r) : draft' = [draft EXCEPT ![r].grants = v]
  /\ pc' = [pc EXCEPT ![r] = IF key[r] \in AdminKeys THEN "users" ELSE "store"]
  /\ UNCHANGED <<db, acked, cacheVars, key, writerVars>>

(* get_all_users: the membership test takes the lock and, on a hit, keeps  *)
(* it for the read; on a miss the lock is released before the queries.     *)
UsersTest(r) ==
  /\ pc[r] = "users"
  /\ usersLock = None
  /\ \/ /\ usersCache # None
        /\ usersLock' = r
        /\ pc' = [pc EXCEPT ![r] = "usersHit"]
     \/ /\ usersCache = None
        /\ pc' = [pc EXCEPT ![r] = "usersQuery"]
        /\ UNCHANGED usersLock
  /\ UNCHANGED <<db, acked, grantsCache, usersCache, key, draft, writerVars>>

(* FAULT: the lock is released by hand, and not on the KeyError.           *)
UsersReadNoFinally(r) ==
  /\ pc[r] = "usersHit"
  /\ \/ /\ usersCache # None
        /\ usersLock' = None
        /\ draft' = [draft EXCEPT ![r].users = usersCache]
        /\ pc' = [pc EXCEPT ![r] = "roles"]
     \/ /\ usersCache = None
        /\ pc' = [pc EXCEPT ![r] = "crashed"]
        /\ UNCHANGED <<usersLock, draft>>
  /\ UNCHANGED <<db, acked, grantsCache, usersCache, key, writerVars>>

(* The read after the test.  Neither expiry nor clear_all_caches takes the *)
(* lock, so the entry may be gone: KeyError, and the request fails.        *)
UsersRead(r) ==
  /\ pc[r] = "usersHit"
  /\ usersLock' = None
  /\ \/ /\ usersCache # None
        /\ draft' = [draft EXCEPT ![r].users = usersCache]
        /\ pc' = [pc EXCEPT ![r] = "roles"]
     \/ /\ usersCache = None
        /\ pc' = [pc EXCEPT ![r] = "crashed"]
        /\ UNCHANGED draft
  /\ UNCHANGED <<db, acked, grantsCache, usersCache, key, writerVars>>

(* A failed query leaves the set empty, and the empty set is cached.       *)
UsersQuery(r) ==
  /\ pc[r] = "usersQuery"
  /\ \E v \in Answers(r) :
       draft' = [draft EXCEPT ![r].users = [host |-> Host(r), ver |-> v, late |-> FALSE]]
  /\ pc' = [pc EXCEPT ![r] = "usersStore"]
  /\ UNCHANGED <<db, acked, cacheVars, key, writerVars>>

(* FAULT: the whole collection is stored under "all_users".                *)
UsersStoreDraft(r) ==
  /\ pc[r] = "usersStore"
  /\ usersLock = None
  /\ usersCache' = draft[r]
  /\ pc' = [pc EXCEPT ![r] = "roles"]
  /\ UNCHANGED <<db, acked, grantsCache, usersLock, key, draft, writerVars>>

UsersStore(r) ==
  /\ pc[r] = "usersStore"
  /\ usersLock = None
  /\ usersCache' = draft[r].users
  /\ pc' = [pc EXCEPT ![r] = "roles"]
  /\ UNCHANGED <<db, acked, grantsCache, usersLock, key, draft, writerVars>>

CollectRoles(r) ==
  /\ pc[r] = "roles"
  /\ \E v \in Answers(r) : draft' = [draft EXCEPT ![r].roles = v]
  /\ pc' = [pc EXCEPT ![r] = IF key[r] \in AdminKeys THEN "store" ELSE "grants"]
  /\ UNCHANGED <<db, acked, cacheVars, key, writerVars>>

(* The unconditional store under _grants_cache_lock.                       *)
Store(r) ==
  /\ pc[r] = "store"
  /\ grantsCache' = [grantsCache EXCEPT ![key[r]] = draft[r]]
  /\ pc' = [pc EXCEPT ![r] = "served"]
  /\ UNCHANGED <<db, acked, usersCache, usersLock, key, draft, writerVars>>

(* The response, or the error, reaches the client.                         *)
Respond(r) ==
  /\ pc[r] \in {"served", "crashed"}
  /\ pc' = [pc EXCEPT ![r] = "idle"]
  /\ key' = [key EXCEPT ![r] = None]
  /\ draft' = [draft EXCEPT ![r] = None]
  /\ UNCHANGED <<db, acked, cacheVars, writerVars>>

-----------------------------------------------------------------------------
(* Writers: execute_grant and login                                        *)

StartExecute(w, h) ==
  /\ wpc[w] = "idle"
  /\ wpc' = [wpc EXCEPT ![w] = "execute"]
  /\ whost' = [whost EXCEPT ![w] = h]
  /\ UNCHANGED <<db, acked, cacheVars, readerVars, wver>>

(* FAULT: execute_grant answers without clear_all_caches.                  *)
ApplyWithoutClear(w) ==
  /\ wpc[w] = "execute"
  /\ db[whost[w]] < MaxVersion
  /\ db' = [db EXCEPT ![whost[w]] = @ + 1]
  /\ acked' = [acked EXCEPT ![whost[w]] = db[whost[w]] + 1]
  /\ wpc' = [wpc EXCEPT ![w] = "idle"]
  /\ UNCHANGED <<cacheVars, readerVars, whost, wver>>

(* StarRocks applies the statement and execute_statement returns.          *)
Apply(w) ==
  /\ wpc[w] = "execute"
  /\ db[whost[w]] < MaxVersion
  /\ db' = [db EXCEPT ![whost[w]] = @ + 1]
  /\ wver' = [wver EXCEPT ![w] = db[whost[w]] + 1]
  /\ wpc' = [wpc EXCEPT ![w] = "clearUsers"]
  /\ UNCHANGED <<acked, cacheVars, readerVars, whost>>

(* An Error from the driver: no cache is cleared.  StarRocks denied the    *)
(* statement, or applied it and the connection broke before its answer.    *)
Error(w) ==
  /\ wpc[w] = "execute"
  /\ \/ UNCHANGED db
     \/ /\ MayFail
        /\ db[whost[w]] < MaxVersion
        /\ db' = [db EXCEPT ![whost[w]] = @ + 1]
  /\ wpc' = [wpc EXCEPT ![w] = "idle"]
  /\ UNCHANGED <<acked, cacheVars, readerVars, whost, wver>>

(* A login clears the caches without having changed a grant.               *)
Login(w) ==
  /\ wpc[w] = "idle"
  /\ wpc' = [wpc EXCEPT ![w] = "clearUsers"]
  /\ UNCHANGED <<db, acked, cacheVars, readerVars, whost, wver>>

(* The reader has queried StarRocks and not yet stored what it collects.   *)
Collecting(r) ==
  pc[r] \in IF key[r] \in AdminKeys
            THEN {"users", "usersHit", "usersQuery", "usersStore", "roles", "store"}
            ELSE {"grants", "store"}

(* FAULT: the user list cache was not created with make_ttl_cache, so the  *)
(* registry does not know it.                                              *)
ClearUsersUnregistered(w) ==
  /\ wpc[w] = "clearUsers"
  /\ wpc' = [wpc EXCEPT ![w] = "clearGrants"]
  /\ UNCHANGED <<db, acked, cacheVars, readerVars, whost, wver>>

(* clear_all_caches walks the registry in registration order, which the    *)
(* import order fixes: user_service.users before grant_collector.grants.   *)
(* It takes no cache's lock.                                               *)
ClearUsers(w) ==
  /\ wpc[w] = "clearUsers"
  /\ usersCache' = None
  /\ draft' = [r \in Readers |->
                 IF pc[r] = "usersStore" THEN [draft[r] EXCEPT !.users.late = TRUE] ELSE draft[r]]
  /\ wpc' = [wpc EXCEPT ![w] = "clearGrants"]
  /\ UNCHANGED <<db, acked, grantsCache, usersLock, pc, key, whost, wver>>

(* The last clear; the response acknowledges the change to its author.     *)
ClearGrants(w) ==
  /\ wpc[w] = "clearGrants"
  /\ grantsCache' = [k \in Keys |-> None]
  /\ acked' = [acked EXCEPT ![whost[w]] = IF wver[w] > @ THEN wver[w] ELSE @]
  /\ draft' = [r \in Readers |->
                 IF Collecting(r) THEN [draft[r] EXCEPT !.late = TRUE] ELSE draft[r]]
  /\ wver' = [wver EXCEPT ![w] = 0]
  /\ wpc' = [wpc EXCEPT ![w] = "idle"]
  /\ UNCHANGED <<db, usersCache, usersLock, pc, key, whost>>

-----------------------------------------------------------------------------
(* The environment                                                         *)

(* A change made outside the application clears nothing.                   *)
ExternalChange(h) ==
  /\ db[h] < MaxVersion
  /\ db' = [db EXCEPT ![h] = @ + 1]
  /\ UNCHANGED <<acked, cacheVars, readerVars, writerVars>>

ExpireGrants(k) ==
  /\ grantsCache[k] # None
  /\ grantsCache' = [grantsCache EXCEPT ![k] = None]
  /\ UNCHANGED <<db, acked, usersCache, usersLock, readerVars, writerVars>>

(* FAULT: the user list is kept in a cache without a TTL.                  *)
ExpireUsersNever == FALSE /\ UNCHANGED vars

ExpireUsers ==
  /\ usersCache # None
  /\ usersCache' = None
  /\ UNCHANGED <<db, acked, grantsCache, usersLock, readerVars, writerVars>>

-----------------------------------------------------------------------------
ReaderStep(r) ==
  \/ Hit(r) \/ Miss(r)
  \/ CollectGrants(r)
  \/ UsersTest(r) \/ UsersRead(r) \/ UsersQuery(r) \/ UsersStore(r)
  \/ CollectRoles(r)
  \/ Store(r)
  \/ Respond(r)

WriterStep(w) == Apply(w) \/ Error(w) \/ ClearUsers(w) \/ ClearGrants(w)

Expire == ExpireUsers \/ \E k \in Keys : ExpireGrants(k)

Next ==
  \/ \E r \in Readers : ReaderStep(r) \/ \E k \in Keys : Request(r, k)
  \/ \E w \in Writers : WriterStep(w) \/ Login(w) \/ \E h \in Hosts : StartExecute(w, h)
  \/ \E h \in Hosts : ExternalChange(h)
  \/ Expire

Spec == Init /\ [][Next]_vars

(* A request thread that started runs to its end, and an entry older than  *)
(* its TTL is no longer found.  Nobody has to send requests.               *)
Fairness ==
  /\ \A r \in Readers : WF_vars(ReaderStep(r))
  /\ \A w \in Writers : WF_vars(WriterStep(w))
  /\ \A k \in Keys : WF_vars(ExpireGrants(k))
  /\ WF_vars(ExpireUsers)

FairSpec == Spec /\ Fairness

-----------------------------------------------------------------------------
(* What the caches promise                                                 *)

(* A part is current enough for h: it shows every change of h that was     *)
(* acknowledged to its author, unless its query failed.                    *)
ShowsAcked(v, h) == v = Lost \/ v >= acked[h]

(* execute_grant clears the caches after the statements and before it      *)
(* answers.  So a cached collection that shows less than what has been     *)
(* acknowledged can only come from a reader whose queries and whose store  *)
(* lie on both sides of a clear; none survives a clear, and none is stored *)
(* by a reader that started after it.                                      *)
NoStaleSurvivor ==
  \A k \in Keys :
    LET e == grantsCache[k]
    IN  e # None /\ ~e.late =>
          /\ ShowsAcked(e.grants, HostOf[k])
          /\ ShowsAcked(e.roles, HostOf[k])
          /\ ~e.users.late => ShowsAcked(e.users.ver, e.users.host)

(* The same for the user list of get_all_users.                            *)
NoStaleUserSurvivor ==
  usersCache # None /\ ~usersCache.late =>
    ShowsAcked(usersCache.ver, usersCache.host)

(* Whoever fails inside get_all_users, the lock of the user list is free   *)
(* again: it is held by a reader between its test and its read, by nobody  *)
(* else.                                                                   *)
LockHeldOnlyInRead ==
  \A r \in Readers : usersLock = r <=> pc[r] = "usersHit"

(* GRANT_REVOKE_DESIGN.md, "Cache invalidation": after a successful GRANT  *)
(* or REVOKE the caches are cleared "so the UI reflects the change         *)
(* immediately": what the next request finds in the cache shows every      *)
(* change acknowledged so far.                                             *)
ReflectedImmediately ==
  \A k \in Keys :
    grantsCache[k] # None => ShowsAcked(grantsCache[k].grants, HostOf[k])

(* grant_collector.py: the assembled CollectedGrants is cached "per (host, *)
(* username, is_admin)", so what is cached for a host is about that host.  *)
OwnHostOnly ==
  \A k \in Keys : grantsCache[k] # None => grantsCache[k].users.host = HostOf[k]

(* Layer 1 and Layer 2 stay apart: what is cached for a key without admin  *)
(* rights, collected with SHOW GRANTS only, carries no user list, not even *)
(* one that an administrator's request left in the other cache.            *)
PlainKeysHoldNoUsers ==
  \A k \in Keys \ AdminKeys : grantsCache[k] # None => grantsCache[k].users = NoUsers(HostOf[k])

(* Once the grants no longer change, every cached collection is eventually *)
(* the current one (but for what a failed query left out) and stays so:    *)
(* neither stale stores nor a stale user list copied from one cache into   *)
(* the other can keep a stale answer alive past the TTLs.                  *)
Shows(v, h) == v \in {Lost, db[h]}

Current(k) ==
  grantsCache[k] = None \/
    /\ Shows(grantsCache[k].grants, HostOf[k])
    /\ Shows(grantsCache[k].roles, HostOf[k])
    /\ Shows(grantsCache[k].users.ver, grantsCache[k].users.host)

EventuallyCurrent == <>[](\A k \in Keys : Current(k))
=============================================================================
