------------------------------ MODULE Workspace ------------------------------
(***************************************************************************)
(* The page around the views: the authentication store, the login form,    *)
(* App's effects, the header's health poll, and the graph store.           *)
(*                                                                         *)
(* Requests are in flight between the page and the server; a 401 of any of *)
(* them logs the page out, whichever login had sent it.  The token lies in *)
(* the local storage, which another tab of the browser may change.  A      *)
(* graph is identified with the login it was fetched in and its key.       *)
(***************************************************************************)
EXTENDS Naturals, FiniteSets

CONSTANTS
  Users,
  IsAdmin, CanGrant, \* capabilities of a user
  Catalogs, FirstCatalog,
  NoOne,             \* null
  MaxTokens,         \* bound: sessions the server hands out
  MaxLogins,         \* bound: logins of the page
  MaxInFlight        \* bound: health polls in flight

Tabs == {"obj", "role", "perm", "myperm", "audit", "cluster"}
GraphTabs == {"obj", "role"}
Keys == GraphTabs \X Catalogs

ASSUME WorkspaceConstants ==
  /\ IsAdmin \in [Users -> BOOLEAN] /\ CanGrant \in [Users -> BOOLEAN]
  /\ FirstCatalog \in Catalogs
  /\ NoOne \notin Users \cup Keys
  /\ MaxTokens \in Nat \ {0} /\ MaxLogins \in Nat /\ MaxInFlight \in Nat

Tokens == [user : Users \cup {NoOne}, no : 0..MaxTokens]

(* What the storage holds after setItem of a null token: a string that is  *)
(* no token.                                                               *)
BadToken == [user |-> NoOne, no |-> 0]

VARIABLES
  live, issued,  \* server: sessions alive, sessions handed out
  stored,        \* sr_token of the local storage, NoOne when absent
  isLoggedIn, user, \* the authentication store
  login,         \* number of the present login, as setAuth counts them
  signin,        \* the login form's attempt
  hidden,        \* document.hidden
  tab, catalog,  \* activeTab, activeCatalog
  dag,           \* graph store: currentKey, dagData, dagLoading, dagCache
  requests       \* in flight

authVars == <<isLoggedIn, user, login>>
serverVars == <<live, issued>>
pageVars == <<serverVars, stored, authVars, signin, hidden, tab, catalog, dag,
              requests>>

FetchedGraphs == [login : Nat, key : Keys]

(* A request carries the token stored when it was sent.  `login` is the    *)
(* login it was sent in.                                                   *)
Requests == [kind : {"me", "health", "dag"}, token : Tokens \cup {NoOne},
             login : Nat, key : Keys \cup {NoOne}]

NoSignin == [stage |-> "idle", user |-> NoOne, token |-> NoOne]

(* clearDagCache                                                           *)
NoGraphs == [key |-> NoOne, data |-> NoOne, loading |-> FALSE, cache |-> {}]

-----------------------------------------------------------------------------
(* The tabs a user is offered, and App's redirect away from the others.    *)
Offered(u) == {t \in Tabs : (t = "perm" => IsAdmin[u]) /\ (t = "audit" => CanGrant[u])}

(* FAULT: the redirect only looks at the tab when the page is loaded.      *)
RedirectOnce(t, u) == t

Redirect(t, u) == IF t \in Offered(u) THEN t ELSE "obj"

(* FAULT: the effect that loads a graph returns no cleanup.                *)
NotAborted(rs) == rs

Aborted(rs) == {r \in rs : r.kind # "dag"}

(* FAULT: a hit leaves the spinner of the load before.                     *)
LoadDagSpinning(t, c, in, rest) ==
  LET key == <<t, c>>
      hit == {g \in dag.cache : g.key = key}
  IN IF t \notin GraphTabs
     THEN /\ dag' = [dag EXCEPT !.loading = FALSE]
          /\ requests' = rest
     ELSE IF hit # {}
     THEN /\ dag' = [dag EXCEPT !.key = key, !.data = CHOOSE g \in hit : TRUE]
          /\ requests' = rest
     ELSE /\ dag' = [dag EXCEPT !.key = key, !.data = NoOne, !.loading = TRUE]
          /\ requests' = rest \cup
               {[kind |-> "dag", token |-> stored', login |-> in, key |-> key]}

(* The effect that loads the graph of the active tab, after its cleanup    *)
(* has aborted the load before.  A cached graph is shown at once, another  *)
(* tab leaves the graph that is there.                                     *)
LoadDag(t, c, in, rest) ==
  LET key == <<t, c>>
      hit == {g \in dag.cache : g.key = key}
  IN IF t \notin GraphTabs
     THEN /\ dag' = [dag EXCEPT !.loading = FALSE]
          /\ requests' = rest
     ELSE IF hit # {}
     THEN /\ dag' = [dag EXCEPT !.key = key, !.loading = FALSE,
                                !.data = CHOOSE g \in hit : TRUE]
          /\ requests' = rest
     ELSE /\ dag' = [dag EXCEPT !.key = key, !.data = NoOne, !.loading = TRUE]
          /\ requests' = rest \cup
               {[kind |-> "dag", token |-> stored', login |-> in, key |-> key]}

(* setAuth and the effects it sets off.                                    *)
SetAuth(token, u, rest) ==
  /\ stored' = token
  /\ isLoggedIn' = TRUE /\ user' = u /\ login' = login + 1
  /\ tab' = Redirect(tab, u)
  /\ LoadDag(tab', catalog, login + 1, Aborted(rest))

(* logout and the effects it sets off; its request ends the session of the *)
(* token that was stored, if it arrives.                                   *)
Logout(rest) ==
  /\ live' \in {live, live \ {stored}}
  /\ requests' = Aborted(rest)
  /\ stored' = NoOne
  /\ isLoggedIn' = FALSE /\ user' = NoOne
  /\ dag' = NoGraphs

PageInit ==
  /\ issued = 1
  /\ stored \in {NoOne} \cup {[user |-> u, no |-> 1] : u \in Users}
  /\ live \in {{}, {stored} \ {NoOne}}
  /\ isLoggedIn = (stored # NoOne)
  /\ user = NoOne /\ login = 0
  /\ signin = NoSignin /\ hidden = FALSE
  /\ tab \in Tabs /\ catalog = FirstCatalog
  /\ dag = NoGraphs
  /\ requests = IF stored = NoOne THEN {}
                ELSE {[kind |-> "me", token |-> stored, login |-> 0, key |-> NoOne]}

-----------------------------------------------------------------------------
(* Logging in and out                                                      *)

(* A token that was stored is restored: the page asks who it belongs to.   *)
RestoreAnswers ==
  \E r \in requests :
    /\ r.kind = "me"
    /\ \/ /\ r.token \in live
          /\ login < MaxLogins
          /\ SetAuth(IF stored = NoOne THEN BadToken ELSE stored, r.token.user,
                     requests \ {r})
          /\ UNCHANGED live
       \/ /\ Logout(requests \ {r})
          /\ UNCHANGED <<login, tab>>
    /\ UNCHANGED <<issued, signin, hidden, catalog>>

Submit ==
  \E u \in Users :
    /\ ~isLoggedIn /\ signin.stage = "idle"
    /\ signin' = [stage |-> "login", user |-> u, token |-> NoOne]
    /\ UNCHANGED <<serverVars, stored, authVars, hidden, tab, catalog, dag, requests>>

(* The server opens a session, or refuses.  The token is stored before the *)
(* user is known.                                                          *)
LoginAnswers ==
  /\ signin.stage = "login"
  /\ \/ /\ issued < MaxTokens
        /\ LET t == [user |-> signin.user, no |-> issued + 1] IN
             /\ issued' = issued + 1
             /\ live' = live \cup {t}
             /\ stored' = t
             /\ signin' = [signin EXCEPT !.stage = "me", !.token = t]
     \/ /\ signin' = NoSignin
        /\ UNCHANGED <<live, issued, stored>>
  /\ UNCHANGED <<authVars, hidden, tab, catalog, dag, requests>>

(* getMe of the login form: a failure leaves the token where it is, unless *)
(* it is a 401.                                                            *)
MeAnswers ==
  /\ signin.stage = "me"
  /\ signin' = NoSignin
  /\ \/ /\ signin.token \in live /\ login < MaxLogins
        /\ SetAuth(signin.token, signin.user, requests)
        /\ UNCHANGED live
     \/ UNCHANGED <<live, stored, authVars, tab, dag, requests>>
     \/ /\ signin.token \notin live
        /\ Logout(requests)
        /\ UNCHANGED <<login, tab>>
  /\ UNCHANGED <<issued, hidden, catalog>>

LogoutClick ==
  /\ user # NoOne
  /\ Logout(requests)
  /\ UNCHANGED <<issued, login, signin, hidden, tab, catalog>>

(* Loading the page again: the stores start over, the storage and the hash *)
(* of the address stay.                                                    *)
Reload ==
  /\ isLoggedIn' = (stored # NoOne)
  /\ user' = NoOne /\ signin' = NoSignin
  /\ catalog' = FirstCatalog /\ dag' = NoGraphs
  /\ requests' = IF stored = NoOne THEN {}
                 ELSE {[kind |-> "me", token |-> stored, login |-> login, key |-> NoOne]}
  /\ UNCHANGED <<serverVars, stored, login, hidden, tab>>

-----------------------------------------------------------------------------
(* The environment: sessions expire, and another tab of the same browser   *)
(* logs in and out through the same storage.                               *)

Expire ==
  /\ \E t \in live : live' = live \ {t}
  /\ UNCHANGED <<issued, stored, authVars, signin, hidden, tab, catalog, dag, requests>>

OtherTab ==
  /\ \/ /\ issued < MaxTokens
        /\ \E u \in Users : LET t == [user |-> u, no |-> issued + 1] IN
             issued' = issued + 1 /\ live' = live \cup {t} /\ stored' = t
     \/ stored # NoOne /\ stored' = NoOne /\ live' = live \ {stored} /\ UNCHANGED issued
  /\ UNCHANGED <<authVars, signin, hidden, tab, catalog, dag, requests>>

HideOrShow ==
  /\ hidden' = ~hidden
  /\ UNCHANGED <<serverVars, stored, authVars, signin, tab, catalog, dag, requests>>

-----------------------------------------------------------------------------
(* The workspace                                                           *)

Ready == isLoggedIn /\ user # NoOne

SelectTab ==
  /\ Ready
  /\ tab' \in Offered(user) \ {tab}
  /\ UNCHANGED <<serverVars, stored, authVars, signin, hidden, catalog>>
  /\ LoadDag(tab', catalog, login, Aborted(requests))

(* The sidebar, which only the graph tabs have, opens the object tab with  *)
(* a catalog.                                                              *)
SelectCatalog ==
  /\ Ready /\ tab \in GraphTabs
  /\ tab' = "obj" /\ catalog' \in Catalogs \ {catalog}
  /\ UNCHANGED <<serverVars, stored, authVars, signin, hidden>>
  /\ LoadDag(tab', catalog', login, Aborted(requests))

(* A load settles: a graph of the current key is cached and shown, and one *)
(* that has been overtaken is dropped.                                     *)
DagAnswers ==
  \E r \in requests :
    LET g == [login |-> r.login, key |-> r.key]
        current == dag.key = r.key
    IN
      /\ r.kind = "dag"
      /\ \/ /\ r.token \in live
            /\ requests' = requests \ {r}
            /\ dag' = IF current
                      THEN [dag EXCEPT !.data = g, !.loading = FALSE, !.cache = @ \cup {g}]
                      ELSE dag
            /\ UNCHANGED <<live, stored, isLoggedIn, user>>
         \/ /\ requests' = requests \ {r}
            /\ dag' = IF current THEN [dag EXCEPT !.loading = FALSE] ELSE dag
            /\ UNCHANGED <<live, stored, isLoggedIn, user>>
         \/ /\ r.token \notin live /\ r.token # NoOne
            /\ Logout(requests \ {r})
      /\ UNCHANGED <<issued, login, signin, hidden, tab, catalog>>

(* The header polls the cluster's health while the page is visible.  The   *)
(* poll is the only request that a page left alone keeps sending.          *)
HealthTick ==
  /\ Ready /\ ~hidden
  /\ Cardinality({r \in requests : r.kind = "health"}) < MaxInFlight
  /\ requests' = requests \cup
       {[kind |-> "health", token |-> stored, login |-> login, key |-> NoOne]}
  /\ UNCHANGED <<serverVars, stored, authVars, signin, hidden, tab, catalog, dag>>

(* FAULT: a quiet request does not report the end of the session.          *)
HealthAnswersQuietly ==
  \E r \in requests :
    /\ r.kind = "health"
    /\ requests' = requests \ {r}
    /\ UNCHANGED <<serverVars, stored, authVars, dag, signin, hidden, tab, catalog>>

(* Its answer only moves the header's badge, which is not kept here, but a *)
(* 401 ends the session, also that of a later login.                       *)
HealthAnswers ==
  \E r \in requests :
    /\ r.kind = "health"
    /\ \/ /\ r.token \in live \cup {NoOne}
          /\ requests' = requests \ {r}
          /\ UNCHANGED <<live, stored, isLoggedIn, user, dag>>
       \/ /\ r.token \notin live \cup {NoOne}
          /\ Logout(requests \ {r})
    /\ UNCHANGED <<issued, login, signin, hidden, tab, catalog>>

PageAnswers == RestoreAnswers \/ LoginAnswers \/ MeAnswers \/ DagAnswers \/ HealthAnswers

PageNext ==
  \/ Submit \/ LogoutClick \/ Reload \/ Expire \/ OtherTab \/ HideOrShow
  \/ SelectTab \/ SelectCatalog \/ HealthTick \/ PageAnswers

PageSpec == PageInit /\ [][PageNext]_pageVars

(* Timers fire and answers arrive.                                         *)
PageFair == WF_pageVars(HealthTick) /\ WF_pageVars(HealthAnswers)

-----------------------------------------------------------------------------
PageTypeOK ==
  /\ live \subseteq Tokens /\ issued \in 0..MaxTokens
  /\ stored \in Tokens \cup {NoOne}
  /\ isLoggedIn \in BOOLEAN /\ user \in Users \cup {NoOne} /\ login \in Nat
  /\ signin \in [stage : {"idle", "login", "me"}, user : Users \cup {NoOne},
                 token : Tokens \cup {NoOne}]
  /\ hidden \in BOOLEAN
  /\ tab \in Tabs /\ catalog \in Catalogs
  /\ dag \in [key : Keys \cup {NoOne}, data : FetchedGraphs \cup {NoOne}, loading : BOOLEAN,
              cache : SUBSET FetchedGraphs]
  /\ requests \subseteq Requests

(* The graphs shown and cached were fetched in the present login, and the  *)
(* graph on a graph tab is that tab's: no load of an earlier login or of   *)
(* an earlier tab settles after the page has moved on (dagStore's key      *)
(* guard alone does not tell two logins apart; the abort does).            *)
GraphOfThisLogin ==
  /\ \A g \in dag.cache \cup ({dag.data} \ {NoOne}) : isLoggedIn /\ g.login = login
  /\ Ready /\ tab \in GraphTabs /\ dag.data # NoOne => dag.data.key = <<tab, catalog>>

(* The spinner of a graph tab stands for a load that is under way, so it   *)
(* ends with that load.                                                    *)
SpinnerHasALoad ==
  dag.loading <=> \E r \in requests : r.kind = "dag" /\ r.key = dag.key

(* Whoever logs in after whom, and whatever the address says, the tab that *)
(* is open is one the user is offered.                                     *)
TabIsOffered == Ready => tab \in Offered(user)

(* A page left alone notices that its session is over: some visible poll   *)
(* meets the 401.  A token another tab has removed is not noticed, because *)
(* a request without one is answered 422.                                  *)
ExpiryIsNoticed ==
  (Ready /\ stored \notin live \cup {NoOne}) ~>
    (~Ready \/ hidden \/ stored \in live \cup {NoOne})
==============================================================================
