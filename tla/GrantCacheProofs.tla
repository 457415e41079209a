-------------------------- MODULE GrantCacheProofs --------------------------
(***************************************************************************)
(* TypeOK, NoStaleSurvivor and NoStaleUserSurvivor of GrantCache, for any  *)
(* number of request threads, hosts, keys and grant changes.               *)
(*                                                                         *)
(* NoStaleSurvivor is not inductive: whether a clear leaves only current   *)
(* data behind depends on what the readers in flight hold, and on the fact *)
(* that the user list, cleared first, is refilled with data that includes  *)
(* the change whose clear is still under way.  IInv adds these facts.      *)
(***************************************************************************)
EXTENDS GrantCache, TLAPS

(* Nothing is acknowledged, and no change is about to be, that StarRocks   *)
(* has not applied; a writer that is not clearing has no change pending.   *)
AckedApplied ==
  /\ \A h \in Hosts : acked[h] <= db[h]
  /\ \A w \in Writers : wver[w] <= db[whost[w]]
  /\ \A w \in Writers : wpc[w] \in {"idle", "execute"} => wver[w] = 0

(* A user list shows what is acknowledged, and what a writer that has      *)
(* already cleared the user list is going to acknowledge.                  *)
ListCurrent(u) ==
  ~u.late =>
    /\ ShowsAcked(u.ver, u.host)
    /\ \A w \in Writers : wpc[w] = "clearGrants" /\ whost[w] = u.host =>
         u.ver = Lost \/ u.ver >= wver[w]

ListsCurrent ==
  /\ usersCache # None => ListCurrent(usersCache)
  /\ \A r \in Readers : pc[r] = "usersStore" => ListCurrent(draft[r].users)

(* A collection, cached or under way, that no clear has overlapped.        *)
DataCurrent(d, h) ==
  ~d.late =>
    /\ ShowsAcked(d.grants, h)
    /\ ShowsAcked(d.roles, h)
    /\ ~d.users.late => ShowsAcked(d.users.ver, d.users.host)

InFlight(r) == pc[r] \notin {"idle", "served", "crashed"}

DraftsCurrent == \A r \in Readers : InFlight(r) => DataCurrent(draft[r], Host(r))

(* Before its first query a reader holds nothing.                          *)
BlankBeforeQuery ==
  \A r \in Readers : InFlight(r) /\ ~Collecting(r) => draft[r] = NoData(Host(r))

(* Only an administrator's collection asks for the user list.              *)
UsersForAdmins ==
  \A r \in Readers :
    pc[r] \in {"users", "usersHit", "usersQuery", "usersStore"} => key[r] \in AdminKeys

EntriesCurrent ==
  \A k \in Keys : grantsCache[k] # None => DataCurrent(grantsCache[k], HostOf[k])

IInv ==
  /\ TypeOK
  /\ AckedApplied
  /\ ListsCurrent
  /\ DraftsCurrent
  /\ BlankBeforeQuery
  /\ UsersForAdmins
  /\ EntriesCurrent

-----------------------------------------------------------------------------
(* What the queries and the clears put into a collection keeps its shape.  *)
LEMMA QueryShape ==
  ASSUME NEW d \in Collected, NEW v \in Version
  PROVE  /\ [d EXCEPT !.grants = v] \in Collected
         /\ [d EXCEPT !.roles = v] \in Collected
  BY DEF Collected

LEMMA UsersShape ==
  ASSUME NEW d \in Collected, NEW u \in UserList
  PROVE  [d EXCEPT !.users = u] \in Collected
  BY DEF Collected

LEMMA ClearShape ==
  ASSUME NEW d \in Collected
  PROVE  /\ d.users \in UserList
         /\ [d EXCEPT !.late = TRUE] \in Collected
         /\ [d EXCEPT !.users.late = TRUE] \in Collected
  BY DEF Collected, UserList

(* The blank collection of a key is a collection.                          *)
LEMMA BlankShape ==
  ASSUME NEW h \in Hosts
  PROVE  NoData(h) \in Collected
  BY DEF NoData, NoUsers, Collected, UserList, Version, Lost

(* Every query answers with a version or is lost.                          *)
LEMMA AnswerShape ==
  ASSUME TypeOK, NEW r \in Readers, key[r] \in Keys
  PROVE  /\ Host(r) \in Hosts
         /\ Answers(r) \subseteq Version
  BY ConstantsAssumption DEF TypeOK, Answers, Version, Host

LEMMA TypeInit == Init => TypeOK
  BY DEF Init, TypeOK, ReaderPc, WriterPc

(* One step of each kind preserves the types.                              *)
LEMMA TypeStep == TypeOK /\ [Next]_vars => TypeOK'
<1> SUFFICES ASSUME TypeOK, [Next]_vars PROVE TypeOK'
  OBVIOUS
<1> USE DEF TypeOK, ReaderPc, WriterPc, readerVars, writerVars, cacheVars
<1>1. ASSUME NEW r \in Readers, NEW k \in Keys, Request(r, k) PROVE TypeOK'
  <2>1. NoData(HostOf[k]) \in Collected
    BY BlankShape, ConstantsAssumption
  <2> QED BY <1>1, <2>1 DEF Request
<1>2. ASSUME NEW r \in Readers, Hit(r) PROVE TypeOK'
  BY <1>2 DEF Hit
<1>3. ASSUME NEW r \in Readers, Miss(r) PROVE TypeOK'
  BY <1>3 DEF Miss
<1>4. ASSUME NEW r \in Readers, CollectGrants(r) PROVE TypeOK'
  <2>1. PICK v \in Answers(r) : draft' = [draft EXCEPT ![r].grants = v]
    BY <1>4 DEF CollectGrants
  <2>2. draft[r] \in Collected /\ key[r] \in Keys
    BY <1>4 DEF CollectGrants
  <2>3. v \in Version
    BY <2>2, AnswerShape
  <2>4. [draft[r] EXCEPT !.grants = v] \in Collected
    BY <2>2, <2>3, QueryShape
  <2> QED BY <1>4, <2>1, <2>2, <2>4 DEF CollectGrants
<1>5. ASSUME NEW r \in Readers, UsersTest(r) PROVE TypeOK'
  BY <1>5 DEF UsersTest
<1>6. ASSUME NEW r \in Readers, UsersRead(r) PROVE TypeOK'
  <2>1. draft[r] \in Collected
    BY <1>6 DEF UsersRead
  <2>2. usersCache # None => [draft[r] EXCEPT !.users = usersCache] \in Collected
    BY <2>1, UsersShape
  <2> QED BY <1>6, <2>1, <2>2 DEF UsersRead
<1>7. ASSUME NEW r \in Readers, UsersQuery(r) PROVE TypeOK'
  <2>1. PICK v \in Answers(r) :
          draft' = [draft EXCEPT ![r].users = [host |-> Host(r), ver |-> v, late |-> FALSE]]
    BY <1>7 DEF UsersQuery
  <2>2. draft[r] \in Collected /\ key[r] \in Keys
    BY <1>7 DEF UsersQuery
  <2>3. v \in Version /\ Host(r) \in Hosts
    BY <2>2, AnswerShape
  <2>4. [host |-> Host(r), ver |-> v, late |-> FALSE] \in UserList
    BY <2>3 DEF UserList
  <2>5. [draft[r] EXCEPT !.users = [host |-> Host(r), ver |-> v, late |-> FALSE]] \in Collected
    BY <2>2, <2>4, UsersShape
  <2> QED BY <1>7, <2>1, <2>2, <2>5 DEF UsersQuery
<1>8. ASSUME NEW r \in Readers, UsersStore(r) PROVE TypeOK'
  <2>1. draft[r].users \in UserList
    BY <1>8, ClearShape DEF UsersStore
  <2> QED BY <1>8, <2>1 DEF UsersStore
<1>9. ASSUME NEW r \in Readers, CollectRoles(r) PROVE TypeOK'
  <2>1. PICK v \in Answers(r) : draft' = [draft EXCEPT ![r].roles = v]
    BY <1>9 DEF CollectRoles
  <2>2. draft[r] \in Collected /\ key[r] \in Keys
    BY <1>9 DEF CollectRoles
  <2>3. v \in Version
    BY <2>2, AnswerShape
  <2>4. [draft[r] EXCEPT !.roles = v] \in Collected
    BY <2>2, <2>3, QueryShape
  <2> QED BY <1>9, <2>1, <2>2, <2>4 DEF CollectRoles
<1>10. ASSUME NEW r \in Readers, Store(r) PROVE TypeOK'
  BY <1>10 DEF Store
<1>11. ASSUME NEW r \in Readers, Respond(r) PROVE TypeOK'
  BY <1>11 DEF Respond
<1>12. ASSUME NEW w \in Writers, NEW h \in Hosts, StartExecute(w, h) PROVE TypeOK'
  BY <1>12 DEF StartExecute
<1>13. ASSUME NEW w \in Writers, Apply(w) PROVE TypeOK'
  BY <1>13 DEF Apply
<1>14. ASSUME NEW w \in Writers, Error(w) PROVE TypeOK'
  BY <1>14 DEF Error
<1>15. ASSUME NEW w \in Writers, Login(w) PROVE TypeOK'
  BY <1>15 DEF Login
<1>16. ASSUME NEW w \in Writers, ClearUsers(w) PROVE TypeOK'
  <2>1. \A r \in Readers : pc[r] = "usersStore" =>
          [draft[r] EXCEPT !.users.late = TRUE] \in Collected
    BY ClearShape
  <2>2. \A r \in Readers : draft'[r] \in Collected \cup {None}
    BY <1>16, <2>1 DEF ClearUsers
  <2>3. \A r \in Readers : pc[r] # "idle" => draft'[r] \in Collected
    BY <1>16, <2>1 DEF ClearUsers
  <2>4. draft' \in [Readers -> Collected \cup {None}]
    BY <1>16, <2>2 DEF ClearUsers
  <2> QED BY <1>16, <2>3, <2>4 DEF ClearUsers
<1>17. ASSUME NEW w \in Writers, ClearGrants(w) PROVE TypeOK'
  <2>1. \A r \in Readers : Collecting(r) => [draft[r] EXCEPT !.late = TRUE] \in Collected
    BY ClearShape DEF Collecting
  <2>2. \A r \in Readers : draft'[r] \in Collected \cup {None}
    BY <1>17, <2>1 DEF ClearGrants
  <2>3. \A r \in Readers : pc[r] # "idle" => draft'[r] \in Collected
    BY <1>17, <2>1 DEF ClearGrants
  <2>4. draft' \in [Readers -> Collected \cup {None}]
    BY <1>17, <2>2 DEF ClearGrants
  <2> QED BY <1>17, <2>3, <2>4 DEF ClearGrants
<1>18. ASSUME NEW h \in Hosts, ExternalChange(h) PROVE TypeOK'
  BY <1>18 DEF ExternalChange
<1>19. ASSUME NEW k \in Keys, ExpireGrants(k) PROVE TypeOK'
  BY <1>19 DEF ExpireGrants
<1>20. CASE ExpireUsers
  BY <1>20 DEF ExpireUsers
<1>21. CASE UNCHANGED vars
  BY <1>21 DEF vars
<1> QED
  BY <1>1, <1>2, <1>3, <1>4, <1>5, <1>6, <1>7, <1>8, <1>9, <1>10, <1>11, <1>12, <1>13,
     <1>14, <1>15, <1>16, <1>17, <1>18, <1>19, <1>20, <1>21
     DEF Next, ReaderStep, WriterStep, Expire

(* The caches, the readers' places and their drafts are always well formed *)
(* whatever the interleaving: no thread stores under one key what was      *)
(* assembled for another kind of entry.                                    *)
THEOREM TypeCorrect == Spec => []TypeOK
  BY TypeInit, TypeStep, PTL DEF Spec

-----------------------------------------------------------------------------
LEMMA InvInit == Init => IInv
<1> SUFFICES ASSUME Init PROVE IInv
  OBVIOUS
<1>1. TypeOK
  BY TypeInit
<1>2. AckedApplied
  BY ConstantsAssumption DEF Init, AckedApplied
<1>3. ListsCurrent /\ DraftsCurrent /\ BlankBeforeQuery /\ UsersForAdmins /\ EntriesCurrent
  BY DEF Init, ListsCurrent, DraftsCurrent, BlankBeforeQuery, UsersForAdmins, EntriesCurrent,
         InFlight
<1> QED BY <1>1, <1>2, <1>3 DEF IInv

(* The blank collection shows all there is to show.                        *)
LEMMA BlankCurrent ==
  ASSUME NEW h, NEW g
  PROVE  DataCurrent(NoData(h), g)
  BY DEF DataCurrent, NoData, NoUsers, ShowsAcked

(* What StarRocks answers now shows what is acknowledged, and what a       *)
(* writer that is clearing is going to acknowledge.                        *)
LEMMA AnswersCurrent ==
  ASSUME TypeOK, AckedApplied, NEW r \in Readers, key[r] \in Keys, NEW v \in Answers(r)
  PROVE  /\ ShowsAcked(v, Host(r))
         /\ \A w \in Writers : whost[w] = Host(r) => v = Lost \/ v >= wver[w]
  <1>1. Host(r) \in Hosts
    BY AnswerShape
  <1> QED BY <1>1 DEF TypeOK, AckedApplied, Answers, ShowsAcked

LEMMA InvStep == IInv /\ [Next]_vars => IInv'
<1> SUFFICES ASSUME IInv, [Next]_vars PROVE IInv'
  OBVIOUS
<1> USE DEF IInv, readerVars, writerVars, cacheVars
<1>0. TypeOK'
  BY TypeStep
<1> DEFINE Rest == AckedApplied /\ ListsCurrent /\ DraftsCurrent /\ BlankBeforeQuery
                     /\ UsersForAdmins /\ EntriesCurrent
<1>1. ASSUME NEW r \in Readers, NEW k \in Keys, Request(r, k) PROVE Rest'
  <2> USE <1>1 DEF Request
  <2>1. AckedApplied' /\ UsersForAdmins' /\ EntriesCurrent'
    BY DEF AckedApplied, UsersForAdmins, EntriesCurrent, DataCurrent, ShowsAcked, TypeOK
  <2>2. ListsCurrent'
    BY DEF ListsCurrent, ListCurrent, ShowsAcked, TypeOK
  <2>3. draft'[r] = NoData(HostOf[k]) /\ Host(r)' = HostOf[k] /\ pc'[r] = "lookup"
    BY DEF TypeOK, Host
  <2>4. DraftsCurrent'
    BY <2>3, BlankCurrent DEF DraftsCurrent, DataCurrent, ShowsAcked, InFlight, Host, TypeOK
  <2>5. BlankBeforeQuery'
    BY <2>3 DEF BlankBeforeQuery, Collecting, InFlight, Host, TypeOK
  <2> QED BY <2>1, <2>2, <2>4, <2>5
<1>2. ASSUME NEW r \in Readers, Hit(r) PROVE Rest'
  BY <1>2 DEF Hit, AckedApplied, UsersForAdmins, EntriesCurrent, DataCurrent,
     ShowsAcked, ListsCurrent, ListCurrent, DraftsCurrent, InFlight, Host,
     BlankBeforeQuery, Collecting, TypeOK
<1>3. ASSUME NEW r \in Readers, Miss(r) PROVE Rest'
  BY <1>3 DEF Miss, AckedApplied, UsersForAdmins, EntriesCurrent, DataCurrent,
     ShowsAcked, ListsCurrent, ListCurrent, DraftsCurrent, InFlight, Host,
     BlankBeforeQuery, Collecting, TypeOK
<1>4. ASSUME NEW r \in Readers, CollectGrants(r) PROVE Rest'
  <2> USE <1>4 DEF CollectGrants
  <2>0. PICK v \in Answers(r) : draft' = [draft EXCEPT ![r].grants = v]
    OBVIOUS
  <2>01. key[r] \in Keys /\ draft[r] \in Collected
    BY DEF TypeOK
  <2>02. ShowsAcked(v, Host(r))
    BY <2>01, AnswersCurrent
  <2>03. DataCurrent(draft'[r], Host(r))
    BY <2>0, <2>01, <2>02 DEF DraftsCurrent, InFlight, DataCurrent, Collected, TypeOK
  <2>4. DraftsCurrent'
    BY <2>0, <2>03 DEF DraftsCurrent, DataCurrent, ShowsAcked, InFlight, Host, TypeOK
  <2>5. BlankBeforeQuery'
    BY <2>0 DEF BlankBeforeQuery, Collecting, InFlight, Host, TypeOK
  <2>6. AckedApplied' /\ UsersForAdmins' /\ EntriesCurrent' /\ ListsCurrent'
    BY DEF AckedApplied, UsersForAdmins, EntriesCurrent, DataCurrent,
           ShowsAcked, ListsCurrent, ListCurrent, TypeOK
  <2> QED BY <2>4, <2>5, <2>6
<1>5. ASSUME NEW r \in Readers, UsersTest(r) PROVE Rest'
  BY <1>5 DEF UsersTest, AckedApplied, UsersForAdmins, EntriesCurrent,
     DataCurrent, ShowsAcked, ListsCurrent, ListCurrent, DraftsCurrent,
     InFlight, Host, BlankBeforeQuery, Collecting, TypeOK
<1>6. ASSUME NEW r \in Readers, UsersRead(r) PROVE Rest'
  <2> USE <1>6 DEF UsersRead
  <2>0. key[r] \in AdminKeys /\ draft[r] \in Collected
    BY DEF UsersForAdmins, TypeOK
  <2>01. usersCache # None => DataCurrent([draft[r] EXCEPT !.users = usersCache], Host(r))
    BY <2>0 DEF DraftsCurrent, InFlight, DataCurrent, Collected, ListsCurrent, ListCurrent
  <2>4. DraftsCurrent'
    BY <2>0, <2>01 DEF DraftsCurrent, DataCurrent, ShowsAcked, InFlight, Host, TypeOK
  <2>5. BlankBeforeQuery'
    BY <2>0 DEF BlankBeforeQuery, Collecting, InFlight, Host, TypeOK
  <2>6. AckedApplied' /\ UsersForAdmins' /\ EntriesCurrent' /\ ListsCurrent'
    BY DEF AckedApplied, UsersForAdmins, EntriesCurrent, DataCurrent,
           ShowsAcked, ListsCurrent, ListCurrent, TypeOK
  <2> QED BY <2>4, <2>5, <2>6
<1>7. ASSUME NEW r \in Readers, UsersQuery(r) PROVE Rest'
  <2> USE <1>7 DEF UsersQuery
  <2> DEFINE list(v) == [host |-> Host(r), ver |-> v, late |-> FALSE]
  <2>0. PICK v \in Answers(r) : draft' = [draft EXCEPT ![r].users = list(v)]
    OBVIOUS
  <2>01. key[r] \in Keys /\ draft[r] \in Collected /\ key[r] \in AdminKeys
    BY DEF UsersForAdmins, TypeOK
  <2>02. ListCurrent(list(v))
    BY <2>01, AnswersCurrent DEF ListCurrent
  <2>03. DataCurrent(draft'[r], Host(r))
    BY <2>0, <2>01, <2>02 DEF DraftsCurrent, InFlight, DataCurrent, ListCurrent, Collected, TypeOK
  <2>04. draft'[r].users = list(v)
    BY <2>0, <2>01 DEF Collected, TypeOK
  <2>3. ListsCurrent'
    BY <2>0, <2>02, <2>04 DEF ListsCurrent, ListCurrent, ShowsAcked, TypeOK
  <2>4. DraftsCurrent'
    BY <2>0, <2>03 DEF DraftsCurrent, DataCurrent, ShowsAcked, InFlight, Host, TypeOK
  <2>5. BlankBeforeQuery'
    BY <2>0, <2>01 DEF BlankBeforeQuery, Collecting, InFlight, Host, TypeOK
  <2>6. AckedApplied' /\ UsersForAdmins' /\ EntriesCurrent'
    BY DEF AckedApplied, UsersForAdmins, EntriesCurrent, DataCurrent,
           ShowsAcked, TypeOK
  <2> QED BY <2>3, <2>4, <2>5, <2>6
<1>8. ASSUME NEW r \in Readers, UsersStore(r) PROVE Rest'
  <2> USE <1>8 DEF UsersStore
  <2>3. ListsCurrent'
    BY DEF ListsCurrent, ListCurrent, ShowsAcked, TypeOK
  <2>6. AckedApplied' /\ UsersForAdmins' /\ EntriesCurrent' /\
       DraftsCurrent' /\ BlankBeforeQuery'
    BY DEF AckedApplied, UsersForAdmins, EntriesCurrent, DataCurrent,
           ShowsAcked, DraftsCurrent, InFlight, Host, BlankBeforeQuery,
           Collecting, TypeOK
  <2> QED BY <2>3, <2>6
<1>9. ASSUME NEW r \in Readers, CollectRoles(r) PROVE Rest'
  <2> USE <1>9 DEF CollectRoles
  <2>0. PICK v \in Answers(r) : draft' = [draft EXCEPT ![r].roles = v]
    OBVIOUS
  <2>01. key[r] \in Keys /\ draft[r] \in Collected
    BY DEF TypeOK
  <2>02. ShowsAcked(v, Host(r))
    BY <2>01, AnswersCurrent
  <2>03. DataCurrent(draft'[r], Host(r))
    BY <2>0, <2>01, <2>02 DEF DraftsCurrent, InFlight, DataCurrent, Collected, TypeOK
  <2>4. DraftsCurrent'
    BY <2>0, <2>03 DEF DraftsCurrent, DataCurrent, ShowsAcked, InFlight, Host, TypeOK
  <2>5. BlankBeforeQuery'
    BY <2>0 DEF BlankBeforeQuery, Collecting, InFlight, Host, TypeOK
  <2>6. AckedApplied' /\ UsersForAdmins' /\ EntriesCurrent' /\ ListsCurrent'
    BY DEF AckedApplied, UsersForAdmins, EntriesCurrent, DataCurrent,
           ShowsAcked, ListsCurrent, ListCurrent, TypeOK
  <2> QED BY <2>4, <2>5, <2>6
<1>10. ASSUME NEW r \in Readers, Store(r) PROVE Rest'
  <2> USE <1>10 DEF Store
  <2>0. DataCurrent(draft[r], HostOf[key[r]])
    BY DEF DraftsCurrent, InFlight, Host
  <2>2. EntriesCurrent'
    BY <2>0 DEF EntriesCurrent, DataCurrent, ShowsAcked, TypeOK
  <2>6. AckedApplied' /\ UsersForAdmins' /\ ListsCurrent' /\
       DraftsCurrent' /\ BlankBeforeQuery'
    BY DEF AckedApplied, UsersForAdmins, ListsCurrent, ListCurrent,
           ShowsAcked, DraftsCurrent, DataCurrent, InFlight, Host,
           BlankBeforeQuery, Collecting, TypeOK
  <2> QED BY <2>2, <2>6
<1>11. ASSUME NEW r \in Readers, Respond(r) PROVE Rest'
  BY <1>11 DEF Respond, AckedApplied, UsersForAdmins, EntriesCurrent,
     DataCurrent, ShowsAcked, ListsCurrent, ListCurrent, DraftsCurrent,
     InFlight, Host, BlankBeforeQuery, Collecting, TypeOK
<1>12. ASSUME NEW w \in Writers, NEW h \in Hosts, StartExecute(w, h) PROVE Rest'
  <2> USE <1>12 DEF StartExecute
  <2>1. AckedApplied'
    BY DEF AckedApplied, TypeOK
  <2>6. UsersForAdmins' /\ EntriesCurrent' /\ ListsCurrent' /\
       DraftsCurrent' /\ BlankBeforeQuery'
    BY DEF UsersForAdmins, EntriesCurrent, DataCurrent, ShowsAcked,
           ListsCurrent, ListCurrent, DraftsCurrent, InFlight, Host,
           BlankBeforeQuery, Collecting, TypeOK
  <2> QED BY <2>1, <2>6
<1>13. ASSUME NEW w \in Writers, Apply(w) PROVE Rest'
  <2> USE <1>13 DEF Apply
  <2>1. AckedApplied'
    BY DEF AckedApplied, TypeOK
  <2>3. ListsCurrent'
    BY DEF ListsCurrent, ListCurrent, ShowsAcked, TypeOK
  <2>6. UsersForAdmins' /\ EntriesCurrent' /\ DraftsCurrent' /\
       BlankBeforeQuery'
    BY DEF UsersForAdmins, EntriesCurrent, DataCurrent, ShowsAcked,
           DraftsCurrent, InFlight, Host, BlankBeforeQuery, Collecting, TypeOK
  <2> QED BY <2>1, <2>3, <2>6
<1>14. ASSUME NEW w \in Writers, Error(w) PROVE Rest'
  <2> USE <1>14 DEF Error
  <2>1. AckedApplied'
    BY DEF AckedApplied, TypeOK
  <2>6. UsersForAdmins' /\ EntriesCurrent' /\ ListsCurrent' /\
       DraftsCurrent' /\ BlankBeforeQuery'
    BY DEF UsersForAdmins, EntriesCurrent, DataCurrent, ShowsAcked,
           ListsCurrent, ListCurrent, DraftsCurrent, InFlight, Host,
           BlankBeforeQuery, Collecting, TypeOK
  <2> QED BY <2>1, <2>6
<1>15. ASSUME NEW w \in Writers, Login(w) PROVE Rest'
  BY <1>15 DEF Login, AckedApplied, UsersForAdmins, EntriesCurrent,
     DataCurrent, ShowsAcked, ListsCurrent, ListCurrent, DraftsCurrent,
     InFlight, Host, BlankBeforeQuery, Collecting, TypeOK
<1>16. ASSUME NEW w \in Writers, ClearUsers(w) PROVE Rest'
  <2> USE <1>16 DEF ClearUsers
  <2>3. ListsCurrent'
    BY DEF ListsCurrent, ListCurrent, ShowsAcked, TypeOK
  <2>4. DraftsCurrent'
    BY DEF DraftsCurrent, DataCurrent, ShowsAcked, InFlight, Host, TypeOK
  <2>5. BlankBeforeQuery'
    BY DEF BlankBeforeQuery, UsersForAdmins, Collecting, InFlight, Host, TypeOK
  <2>6. AckedApplied' /\ UsersForAdmins' /\ EntriesCurrent'
    BY DEF AckedApplied, UsersForAdmins, EntriesCurrent, DataCurrent,
           ShowsAcked, TypeOK
  <2> QED BY <2>3, <2>4, <2>5, <2>6
<1>17. ASSUME NEW w \in Writers, ClearGrants(w) PROVE Rest'
  <2> USE <1>17 DEF ClearGrants
  <2>1. AckedApplied' /\ UsersForAdmins'
    BY DEF AckedApplied, UsersForAdmins, TypeOK
  <2>2. EntriesCurrent'
    BY DEF EntriesCurrent, DataCurrent, ShowsAcked, TypeOK
  <2>3. ListsCurrent'
    BY DEF ListsCurrent, ListCurrent, ShowsAcked, TypeOK
  <2>4. DraftsCurrent'
    <3>1. ASSUME NEW q \in Readers, InFlight(q), Collecting(q)
          PROVE  DataCurrent(draft[q], Host(q))'
      <4>1. draft'[q] = [draft[q] EXCEPT !.late = TRUE] /\ draft[q] \in Collected
        BY <3>1 DEF InFlight, TypeOK
      <4> QED BY <4>1 DEF DataCurrent, Collected
    <3>2. ASSUME NEW q \in Readers, InFlight(q), ~Collecting(q)
          PROVE  DataCurrent(draft[q], Host(q))'
      <4>1. draft'[q] = NoData(Host(q))
        BY <3>2 DEF BlankBeforeQuery
      <4> QED BY <4>1 DEF DataCurrent, NoData, NoUsers, ShowsAcked
    <3> QED BY <3>1, <3>2 DEF DraftsCurrent, InFlight
  <2>5. BlankBeforeQuery'
    BY DEF BlankBeforeQuery, Collecting, InFlight, Host, TypeOK
  <2> QED BY <2>1, <2>2, <2>3, <2>4, <2>5
<1>18. ASSUME NEW h \in Hosts, ExternalChange(h) PROVE Rest'
  <2> USE <1>18 DEF ExternalChange
  <2>1. AckedApplied'
    BY DEF AckedApplied, TypeOK
  <2>6. UsersForAdmins' /\ EntriesCurrent' /\ ListsCurrent' /\
       DraftsCurrent' /\ BlankBeforeQuery'
    BY DEF UsersForAdmins, EntriesCurrent, DataCurrent, ShowsAcked,
           ListsCurrent, ListCurrent, DraftsCurrent, InFlight, Host,
           BlankBeforeQuery, Collecting, TypeOK
  <2> QED BY <2>1, <2>6
<1>19. ASSUME NEW k \in Keys, ExpireGrants(k) PROVE Rest'
  BY <1>19 DEF ExpireGrants, AckedApplied, UsersForAdmins, EntriesCurrent,
     DataCurrent, ShowsAcked, ListsCurrent, ListCurrent, DraftsCurrent,
     InFlight, Host, BlankBeforeQuery, Collecting, TypeOK
<1>20. ASSUME ExpireUsers PROVE Rest'
  BY <1>20 DEF ExpireUsers, AckedApplied, UsersForAdmins, EntriesCurrent,
     DataCurrent, ShowsAcked, ListsCurrent, ListCurrent, DraftsCurrent,
     InFlight, Host, BlankBeforeQuery, Collecting, TypeOK
<1>21. ASSUME UNCHANGED vars PROVE Rest'
  BY <1>21 DEF vars, AckedApplied, UsersForAdmins, EntriesCurrent,
     DataCurrent, ShowsAcked, ListsCurrent, ListCurrent, DraftsCurrent,
     InFlight, Host, BlankBeforeQuery, Collecting, TypeOK
<1> QED
  BY <1>0, <1>1, <1>2, <1>3, <1>4, <1>5, <1>6, <1>7, <1>8, <1>9, <1>10, <1>11, <1>12, <1>13,
     <1>14, <1>15, <1>16, <1>17, <1>18, <1>19, <1>20, <1>21
     DEF Next, ReaderStep, WriterStep, Expire

(* What makes NoStaleSurvivor inductive holds in every reachable state.    *)
THEOREM Invariance == Spec => []IInv
  BY InvInit, InvStep, PTL DEF Spec

(* execute_grant and GrantCollector.collect: whatever the interleaving of  *)
(* readers and writers, a cached collection that shows less than what has  *)
(* been acknowledged was overtaken by a clear while it was collected.      *)
THEOREM NoStale == Spec => []NoStaleSurvivor
<1>1. IInv => NoStaleSurvivor
  BY DEF IInv, EntriesCurrent, DataCurrent, NoStaleSurvivor
<1> QED BY <1>1, Invariance, PTL

(* The same for the process-wide user list of get_all_users.               *)
THEOREM NoStaleUsers == Spec => []NoStaleUserSurvivor
<1>1. IInv => NoStaleUserSurvivor
  BY DEF IInv, ListsCurrent, ListCurrent, NoStaleUserSurvivor
<1> QED BY <1>1, Invariance, PTL

-----------------------------------------------------------------------------
(* get_all_users: the lock of the user list is held by the thread between  *)
(* its test and its read, also when the entry vanishes in between.         *)
THEOREM LockReleased == Spec => []LockHeldOnlyInRead
<1> USE DEF LockHeldOnlyInRead, TypeOK
<1>1. Init => LockHeldOnlyInRead
  BY ConstantsAssumption DEF Init
<1>2. TypeOK /\ LockHeldOnlyInRead /\ [Next]_vars => LockHeldOnlyInRead'
  <2> SUFFICES ASSUME TypeOK, LockHeldOnlyInRead, [Next]_vars PROVE LockHeldOnlyInRead'
    OBVIOUS
  <2> USE ConstantsAssumption DEF readerVars, writerVars, cacheVars
  <2>1. ASSUME NEW r \in Readers, ReaderStep(r) PROVE LockHeldOnlyInRead'
    <3>1. CASE UsersTest(r)
      BY <3>1 DEF UsersTest
    <3>2. CASE UsersRead(r)
      BY <3>2 DEF UsersRead
    <3>3. CASE UsersQuery(r) \/ UsersStore(r) \/ Hit(r) \/ Miss(r)
      BY <3>3 DEF UsersQuery, UsersStore, Hit, Miss
    <3>4. CASE CollectGrants(r) \/ CollectRoles(r) \/ Store(r) \/ Respond(r)
      BY <3>4 DEF CollectGrants, CollectRoles, Store, Respond
    <3> QED BY <2>1, <3>1, <3>2, <3>3, <3>4 DEF ReaderStep
  <2>2. ASSUME NEW r \in Readers, NEW k \in Keys, Request(r, k) PROVE LockHeldOnlyInRead'
    BY <2>2 DEF Request
  <2>3. ASSUME UNCHANGED <<pc, usersLock>> PROVE LockHeldOnlyInRead'
    BY <2>3
  <2> QED BY <2>1, <2>2, <2>3 DEF Next, WriterStep, StartExecute, Apply, Error, Login,
            ClearUsers, ClearGrants, ExternalChange, Expire, ExpireGrants, ExpireUsers, vars
<1> QED BY <1>1, <1>2, TypeCorrect, PTL DEF Spec

-----------------------------------------------------------------------------
(* The drafts of the readers without admin rights carry no user list.      *)
PlainDrafts ==
  \A r \in Readers : pc[r] # "idle" /\ key[r] \notin AdminKeys =>
    draft[r].users = NoUsers(Host(r))

PlainInv == TypeOK /\ UsersForAdmins /\ PlainDrafts /\ PlainKeysHoldNoUsers

(* Only get_all_users writes the user list of a draft, and only an         *)
(* administrator's collection calls it.                                   *)
LEMMA PlainStep == PlainInv /\ [Next]_vars => PlainInv'
<1> SUFFICES ASSUME PlainInv, [Next]_vars PROVE PlainInv'
  OBVIOUS
<1> USE DEF PlainInv, TypeOK, readerVars, writerVars, cacheVars
<1>0. TypeOK'
  BY TypeStep
<1> DEFINE Rest == UsersForAdmins /\ PlainDrafts /\ PlainKeysHoldNoUsers
<1> USE DEF UsersForAdmins, PlainDrafts, PlainKeysHoldNoUsers, Host
<1>1. ASSUME NEW r \in Readers, NEW k \in Keys, Request(r, k) PROVE Rest'
  BY <1>1 DEF Request, NoData
<1>2. ASSUME NEW r \in Readers, Hit(r) \/ Miss(r) \/ Store(r) \/ Respond(r) PROVE Rest'
  BY <1>2 DEF Hit, Miss, Store, Respond
<1>3. ASSUME NEW r \in Readers, CollectGrants(r) \/ CollectRoles(r) PROVE Rest'
  <2>1. draft'[r].users = draft[r].users
    BY <1>3 DEF CollectGrants, CollectRoles, Collected
  <2> QED BY <1>3, <2>1 DEF CollectGrants, CollectRoles
<1>4. ASSUME NEW r \in Readers,
             UsersTest(r) \/ UsersRead(r) \/ UsersQuery(r) \/ UsersStore(r)
      PROVE  Rest'
  BY <1>4 DEF UsersTest, UsersRead, UsersQuery, UsersStore
<1>5. ASSUME NEW w \in Writers, ClearUsers(w) PROVE Rest'
  BY <1>5 DEF ClearUsers
<1>6. ASSUME NEW w \in Writers, ClearGrants(w) PROVE Rest'
  <2>1. \A r \in Readers : pc[r] # "idle" => draft'[r].users = draft[r].users
    BY <1>6 DEF ClearGrants, Collected
  <2> QED BY <1>6, <2>1 DEF ClearGrants
<1>7. ASSUME NEW k \in Keys, ExpireGrants(k) PROVE Rest'
  BY <1>7 DEF ExpireGrants
<1>8. ASSUME UNCHANGED <<pc, key, draft, grantsCache>> PROVE Rest'
  BY <1>8
<1> QED BY <1>0, <1>1, <1>2, <1>3, <1>4, <1>5, <1>6, <1>7, <1>8
    DEF Next, ReaderStep, WriterStep, StartExecute, Apply, Error, Login, ExternalChange,
        Expire, ExpireUsers, vars

(* Layer 1 and Layer 2 stay apart: no collection cached for a key without  *)
(* admin rights carries a user list.                                       *)
THEOREM TiersApart == Spec => []PlainKeysHoldNoUsers
<1>1. Init => PlainInv
  <2>1. Init => UsersForAdmins /\ PlainDrafts /\ PlainKeysHoldNoUsers
    BY DEF Init, UsersForAdmins, PlainDrafts, PlainKeysHoldNoUsers
  <2> QED BY <2>1, TypeInit DEF PlainInv
<1>2. PlainInv => PlainKeysHoldNoUsers
  BY DEF PlainInv
<1> QED BY <1>1, <1>2, PlainStep, PTL DEF Spec
=============================================================================
