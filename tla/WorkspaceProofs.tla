-------------------------- MODULE WorkspaceProofs --------------------------
(***************************************************************************)
(* What the page keeps true across logins, for any users, capabilities,    *)
(* catalogs and numbers of sessions: the open tab is one the user is       *)
(* offered, graphs are those of the present login and of the open tab, and *)
(* the spinner stands for a load.                                          *)
(*                                                                         *)
(* The argument is about who may be in flight.  A restoring request is     *)
(* alone in flight and nobody is known before it is answered; a login form *)
(* that signs in excludes a user; without a user there is no graph and no  *)
(* load; and the one load there may be is of the present login and of the  *)
(* current key.                                                            *)
(***************************************************************************)
EXTENDS Workspace, TLAPS

GraphFields == {"key", "data", "loading", "cache"}

TokensOfUsers == \A t \in live : t.user \in Users

SigningIn ==
  signin.stage # "idle" =>
    user = NoOne /\ ~isLoggedIn /\ signin.user \in Users /\ "user" \in DOMAIN signin

UserIsLoggedIn == user # NoOne => isLoggedIn

Restoring ==
  \A r \in requests : r.kind = "me" => requests = {r} /\ user = NoOne /\ isLoggedIn

NothingBefore == user = NoOne => dag = NoGraphs

(* The one load that may be in flight, and the spinner.                    *)
IsLoad(r, key, in) == r.kind = "dag" /\ r.login = in /\ r.key = key

OneLoad ==
  \A r \in requests : r.kind = "dag" =>
    /\ user # NoOne /\ IsLoad(r, dag.key, login)
    /\ \A s \in requests : s.kind = "dag" => s = r

GraphsOf(d, in) ==
  /\ DOMAIN d = GraphFields
  /\ \A g \in d.cache : g.login = in
  /\ d.data # NoOne => d.data.login = in /\ d.data.key = d.key

KeyOfTab == user # NoOne /\ tab \in GraphTabs => dag.key = <<tab, catalog>>

TabOffered == user # NoOne => tab \in Offered(user)

Inv ==
  /\ TokensOfUsers /\ SigningIn /\ UserIsLoggedIn /\ Restoring /\ NothingBefore
  /\ OneLoad /\ GraphsOf(dag, login) /\ KeyOfTab /\ TabOffered

(* The spinner is proved on its own: it is the only fact about a field     *)
(* that is a truth value.                                                  *)
Spins == dag.loading <=> \E r \in requests : r.kind = "dag"

-----------------------------------------------------------------------------
LEMMA ChosenIsMember ==
  ASSUME NEW S, S # {} PROVE (CHOOSE x \in S : TRUE) \in S
  OBVIOUS

LEMMA RedirectIsOffered ==
  ASSUME NEW t, NEW u PROVE Redirect(t, u) \in Offered(u)
  BY DEF Redirect, Offered, Tabs

LEMMA AbortedHasNoLoad ==
  ASSUME NEW rs PROVE \A r \in Aborted(rs) : r \in rs /\ r.kind # "dag"
  BY DEF Aborted

(* What the effect that loads a graph leaves behind.                       *)
LEMMA LoadDagLeaves ==
  ASSUME NEW t, NEW c, NEW in, NEW rest,
         \A r \in rest : r.kind # "dag",
         GraphsOf(dag, in),
         LoadDag(t, c, in, rest)
  PROVE  /\ GraphsOf(dag', in)
         /\ t \in GraphTabs => dag'.key = <<t, c>>
         /\ \A r \in requests' : r \notin rest => IsLoad(r, dag'.key, in)
         /\ \A r, s \in requests' : r.kind = "dag" /\ s.kind = "dag" => r = s
<1> DEFINE key == <<t, c>>
           hit == {g \in dag.cache : g.key = key}
           load == [kind |-> "dag", token |-> stored', login |-> in, key |-> key]
<1> USE DEF GraphsOf, GraphFields, IsLoad
<1>1. CASE t \notin GraphTabs
  <2>1. dag' = [dag EXCEPT !.loading = FALSE] /\ requests' = rest
    BY <1>1 DEF LoadDag
  <2>2. /\ DOMAIN dag' = GraphFields
        /\ dag'.cache = dag.cache /\ dag'.data = dag.data /\ dag'.key = dag.key
    BY <2>1
  <2>3. QED
    BY <1>1, <2>1, <2>2
<1>2. CASE t \in GraphTabs /\ hit # {}
  <2>1. /\ dag' = [dag EXCEPT !.key = key, !.loading = FALSE,
                              !.data = CHOOSE g \in hit : TRUE]
        /\ requests' = rest
    BY <1>2 DEF LoadDag
  <2>2. (CHOOSE g \in hit : TRUE) \in hit
    BY <1>2, ChosenIsMember
  <2>3. PICK g \in hit : g = CHOOSE h \in hit : TRUE
    BY <2>2
  <2>4. dag' = [dag EXCEPT !.key = key, !.loading = FALSE, !.data = g]
    BY <2>1, <2>3
  <2>5. /\ DOMAIN dag' = GraphFields
        /\ dag'.cache = dag.cache /\ dag'.data = g /\ dag'.key = key
    BY <2>4
  <2>6. g.login = in /\ g.key = key
    BY <2>3
  <2>7. QED
    BY <2>1, <2>5, <2>6
<1>3. CASE t \in GraphTabs /\ hit = {}
  <2>1. /\ dag' = [dag EXCEPT !.key = key, !.data = NoOne, !.loading = TRUE]
        /\ requests' = rest \cup {load}
    BY <1>3 DEF LoadDag
  <2>2. /\ DOMAIN dag' = GraphFields
        /\ dag'.cache = dag.cache /\ dag'.data = NoOne /\ dag'.key = key
    BY <2>1
  <2>3. QED
    BY <2>1, <2>2
<1>4. QED
  BY <1>1, <1>2, <1>3

LEMMA LoadDagSpins ==
  ASSUME NEW t, NEW c, NEW in, NEW rest,
         \A r \in rest : r.kind # "dag",
         DOMAIN dag = GraphFields,
         LoadDag(t, c, in, rest)
  PROVE  Spins'
<1> DEFINE key == <<t, c>>
           hit == {g \in dag.cache : g.key = key}
           load == [kind |-> "dag", token |-> stored', login |-> in, key |-> key]
<1> USE DEF GraphFields, Spins
<1>1. CASE t \notin GraphTabs
  <2>1. dag'.loading = FALSE /\ requests' = rest
    BY <1>1 DEF LoadDag
  <2>2. QED
    BY <2>1
<1>2. CASE t \in GraphTabs /\ hit # {}
  <2>1. dag'.loading = FALSE /\ requests' = rest
    BY <1>2 DEF LoadDag
  <2>2. QED
    BY <2>1
<1>3. CASE t \in GraphTabs /\ hit = {}
  <2>1. dag'.loading = TRUE /\ requests' = rest \cup {load}
    BY <1>3 DEF LoadDag
  <2>2. load \in requests' /\ load.kind = "dag"
    BY <2>1
  <2>3. QED
    BY <2>1, <2>2
<1>4. QED
  BY <1>1, <1>2, <1>3

-----------------------------------------------------------------------------
(* A login of a page that knows no user: its load is the only one.         *)
LEMMA SetAuthKeeps ==
  ASSUME Inv, NEW token, NEW u \in Users, NEW rest, rest \subseteq requests,
         \A r \in rest : r.kind # "me", user = NoOne,
         SetAuth(token, u, rest), live' = live, catalog' = catalog,
         signin'.stage = "idle"
  PROVE  Inv' /\ Spins'
<1>1. /\ user' = u /\ user' # NoOne /\ isLoggedIn' /\ login' = login + 1
      /\ tab' = Redirect(tab, u)
      /\ LoadDag(tab', catalog, login + 1, Aborted(rest))
  BY WorkspaceConstants DEF SetAuth
<1>2. GraphsOf(dag, login + 1)
  BY DEF Inv, NothingBefore, NoGraphs, GraphsOf, GraphFields
<1>3. /\ GraphsOf(dag', login')
      /\ tab' \in GraphTabs => dag'.key = <<tab', catalog'>>
      /\ \A r \in requests' : r \notin Aborted(rest) => IsLoad(r, dag'.key, login')
      /\ \A r, s \in requests' : r.kind = "dag" /\ s.kind = "dag" => r = s
  BY <1>1, <1>2, LoadDagLeaves, AbortedHasNoLoad
<1>4. \A r \in requests' :
        /\ r.kind # "me"
        /\ r.kind = "dag" => IsLoad(r, dag'.key, login')
  BY <1>3, AbortedHasNoLoad DEF IsLoad
<1>5. Spins'
  BY <1>1, <1>2, LoadDagSpins, AbortedHasNoLoad DEF GraphsOf
<1>6. tab' \in Offered(user')
  BY <1>1, RedirectIsOffered
<1>7. TokensOfUsers' /\ SigningIn' /\ UserIsLoggedIn' /\ NothingBefore'
  BY <1>1 DEF Inv, TokensOfUsers, SigningIn, UserIsLoggedIn, NothingBefore
<1>8. Restoring' /\ OneLoad'
  BY <1>1, <1>3, <1>4 DEF Restoring, OneLoad
<1>9. KeyOfTab' /\ TabOffered'
  BY <1>3, <1>6 DEF KeyOfTab, TabOffered
<1>10. QED
  BY <1>3, <1>5, <1>7, <1>8, <1>9 DEF Inv

(* A page that is logged out shows and awaits nothing.                     *)
LEMMA LogoutKeeps ==
  ASSUME Inv, NEW rest, rest \subseteq requests, \A r \in rest : r.kind # "me",
         Logout(rest), signin' \in {signin, NoSignin}
  PROVE  Inv' /\ Spins'
<1>1. /\ live' \subseteq live /\ requests' = Aborted(rest)
      /\ ~isLoggedIn' /\ user' = NoOne /\ dag' = NoGraphs
  BY DEF Logout
<1>2. \A r \in requests' : r.kind # "me" /\ r.kind # "dag"
  BY <1>1, AbortedHasNoLoad
<1>3. SigningIn'
  <2>1. CASE signin' = NoSignin
    BY <2>1 DEF SigningIn, NoSignin
  <2>2. CASE signin' = signin
    BY <1>1, <2>2 DEF Inv, SigningIn
  <2>3. QED
    BY <2>1, <2>2
<1>4. TokensOfUsers'
  BY <1>1 DEF Inv, TokensOfUsers
<1>5. GraphsOf(dag', login')
  BY <1>1 DEF GraphsOf, NoGraphs, GraphFields
<1>6. UserIsLoggedIn' /\ Restoring' /\ NothingBefore' /\ OneLoad' /\ KeyOfTab' /\ TabOffered'
  BY <1>1, <1>2 DEF UserIsLoggedIn, Restoring, NothingBefore, OneLoad, KeyOfTab, TabOffered
<1>7. Spins'
  <2>1. dag'.loading = FALSE
    BY <1>1 DEF NoGraphs
  <2>2. QED
    BY <1>2, <2>1 DEF Spins
<1>8. QED
  BY <1>3, <1>4, <1>5, <1>6, <1>7 DEF Inv

LEMMA InitInv == PageInit => Inv /\ Spins
<1> SUFFICES ASSUME PageInit PROVE Inv /\ Spins
  OBVIOUS
<1>1. /\ user = NoOne /\ dag = NoGraphs /\ signin.stage = "idle"
  BY DEF PageInit, NoSignin
<1>2. \A r \in requests : r.kind = "me" /\ requests = {r} /\ isLoggedIn
  <2>1. stored # NoOne => isLoggedIn
    BY Zenon DEF PageInit
  <2>2. stored = NoOne => requests = {}
    BY DEF PageInit
  <2>3. \A r \in requests : r.kind = "me" /\ requests = {r}
    BY DEF PageInit
  <2>4. QED
    BY <2>1, <2>2, <2>3
<1>3. TokensOfUsers
  BY DEF PageInit, TokensOfUsers
<1>4. GraphsOf(dag, login)
  BY <1>1 DEF GraphsOf, NoGraphs, GraphFields
<1>5. /\ SigningIn /\ UserIsLoggedIn /\ Restoring /\ NothingBefore /\ OneLoad /\ KeyOfTab
      /\ TabOffered
  BY <1>1, <1>2
  DEF SigningIn, UserIsLoggedIn, Restoring, NothingBefore, OneLoad, KeyOfTab, TabOffered
<1>6. Spins
  <2>1. dag.loading = FALSE
    BY <1>1 DEF NoGraphs
  <2>2. QED
    BY <1>2, <2>1 DEF Spins
<1>7. QED
  BY <1>3, <1>4, <1>5, <1>6 DEF Inv

-----------------------------------------------------------------------------
(* The effect that loads a graph runs again for a user who is there.       *)
LEMMA ReloadKeeps ==
  ASSUME Inv, user # NoOne, user' = user, isLoggedIn' = isLoggedIn, login' = login,
         live' = live, signin' = signin, tab' \in Offered(user),
         LoadDag(tab', catalog', login, Aborted(requests))
  PROVE  Inv' /\ Spins'
<1>1. GraphsOf(dag, login) /\ isLoggedIn
  BY DEF Inv, UserIsLoggedIn
<1>2. \A r \in requests : r.kind # "me"
  BY DEF Inv, Restoring
<1>3. /\ GraphsOf(dag', login')
      /\ tab' \in GraphTabs => dag'.key = <<tab', catalog'>>
      /\ \A r \in requests' : r \notin Aborted(requests) => IsLoad(r, dag'.key, login')
      /\ \A r, s \in requests' : r.kind = "dag" /\ s.kind = "dag" => r = s
  BY <1>1, LoadDagLeaves, AbortedHasNoLoad
<1>4. \A r \in requests' :
        /\ r.kind # "me"
        /\ r.kind = "dag" => IsLoad(r, dag'.key, login')
  BY <1>2, <1>3, AbortedHasNoLoad DEF IsLoad
<1>5. Spins'
  BY <1>1, LoadDagSpins, AbortedHasNoLoad DEF GraphsOf
<1>6. TokensOfUsers' /\ SigningIn' /\ UserIsLoggedIn' /\ NothingBefore'
  BY <1>1 DEF Inv, TokensOfUsers, SigningIn, UserIsLoggedIn, NothingBefore
<1>7. Restoring' /\ OneLoad' /\ KeyOfTab' /\ TabOffered'
  BY <1>3, <1>4 DEF Restoring, OneLoad, KeyOfTab, TabOffered
<1>8. QED
  BY <1>3, <1>5, <1>6, <1>7 DEF Inv

(* The actions that leave the graph, the user and the requests alone.      *)
LEMMA QuietKeeps ==
  ASSUME Inv, Spins, UNCHANGED <<authVars, tab, catalog, dag, requests>>,
         TokensOfUsers', SigningIn'
  PROVE  Inv' /\ Spins'
<1> USE DEF authVars
<1>1. UserIsLoggedIn' /\ Restoring' /\ NothingBefore' /\ OneLoad' /\ KeyOfTab' /\ TabOffered'
  BY DEF Inv, UserIsLoggedIn, Restoring, NothingBefore, OneLoad, KeyOfTab, TabOffered
<1>2. GraphsOf(dag', login')
  BY DEF Inv, GraphsOf
<1>3. Spins'
  BY DEF Spins
<1>4. QED
  BY <1>1, <1>2, <1>3 DEF Inv

LEMMA NextInv == Inv /\ Spins /\ [PageNext]_pageVars => Inv' /\ Spins'
<1> SUFFICES ASSUME Inv, Spins, [PageNext]_pageVars PROVE Inv' /\ Spins'
  OBVIOUS
<1>1. CASE Submit
  <2>1. /\ user = NoOne /\ ~isLoggedIn
        /\ signin'.user \in Users /\ "user" \in DOMAIN signin'
    BY <1>1 DEF Submit, Inv, UserIsLoggedIn
  <2>2. SigningIn'
    BY <1>1, <2>1 DEF Submit, SigningIn, authVars
  <2>3. TokensOfUsers'
    BY <1>1 DEF Submit, Inv, TokensOfUsers, serverVars
  <2>4. QED
    BY <1>1, <2>2, <2>3, QuietKeeps DEF Submit
<1>2. CASE LogoutClick
  <2>1. \A r \in requests : r.kind # "me"
    BY <1>2 DEF LogoutClick, Inv, Restoring
  <2>2. QED
    BY <1>2, <2>1, LogoutKeeps DEF LogoutClick
<1>3. CASE Reload
  <2>1. /\ live' = live /\ user' = NoOne /\ signin' = NoSignin /\ dag' = NoGraphs
        /\ stored # NoOne => isLoggedIn'
    BY <1>3, Zenon DEF Reload, serverVars
  <2>2. \A r \in requests' : r.kind = "me" /\ requests' = {r} /\ stored # NoOne
    BY <1>3 DEF Reload
  <2>3. TokensOfUsers'
    BY <2>1 DEF Inv, TokensOfUsers
  <2>4. GraphsOf(dag', login')
    BY <2>1 DEF GraphsOf, NoGraphs, GraphFields
  <2>5. /\ SigningIn' /\ UserIsLoggedIn' /\ Restoring' /\ NothingBefore' /\ OneLoad'
        /\ KeyOfTab' /\ TabOffered'
    BY <2>1, <2>2
    DEF SigningIn, NoSignin, UserIsLoggedIn, Restoring, NothingBefore, OneLoad, KeyOfTab,
        TabOffered
  <2>6. dag'.loading = FALSE
    BY <2>1 DEF NoGraphs
  <2>7. Spins'
    BY <2>2, <2>6 DEF Spins
  <2>8. QED
    BY <2>3, <2>4, <2>5, <2>7 DEF Inv
<1>4. CASE Expire \/ OtherTab \/ HideOrShow
  <2>1. TokensOfUsers'
    BY <1>4 DEF Expire, OtherTab, HideOrShow, serverVars, Inv, TokensOfUsers
  <2>2. SigningIn'
    BY <1>4 DEF Expire, OtherTab, HideOrShow, authVars, Inv, SigningIn
  <2>3. QED
    BY <1>4, <2>1, <2>2, QuietKeeps DEF Expire, OtherTab, HideOrShow
<1>5. CASE SelectTab \/ SelectCatalog
  <2>1. user # NoOne /\ tab' \in Offered(user)
    BY <1>5 DEF SelectTab, SelectCatalog, Ready, Offered, Tabs
  <2>2. QED
    BY <1>5, <2>1, ReloadKeeps DEF SelectTab, SelectCatalog, serverVars, authVars
<1>6. CASE HealthTick
  <2>1. PICK r : r.kind = "health" /\ requests' = requests \cup {r}
    BY <1>6 DEF HealthTick
  <2>2. user # NoOne /\ UNCHANGED <<live, authVars, signin, tab, catalog, dag>>
    BY <1>6 DEF HealthTick, Ready, serverVars
  <2>3. \A s \in requests' : s.kind # "me" /\ (s.kind = "dag" => s \in requests)
    BY <2>1, <2>2 DEF Inv, Restoring
  <2>4. Spins'
    BY <2>1, <2>2, <2>3 DEF Spins
  <2>5. Restoring' /\ OneLoad'
    BY <2>2, <2>3 DEF Inv, Restoring, OneLoad, authVars
  <2>6. TokensOfUsers' /\ SigningIn' /\ UserIsLoggedIn' /\ NothingBefore' /\ KeyOfTab'
        /\ TabOffered'
    BY <2>2
    DEF Inv, TokensOfUsers, SigningIn, UserIsLoggedIn, NothingBefore, KeyOfTab, TabOffered,
        authVars
  <2>7. GraphsOf(dag', login')
    BY <2>2 DEF Inv, GraphsOf, authVars
  <2>8. QED
    BY <2>4, <2>5, <2>6, <2>7 DEF Inv
<1>7. CASE RestoreAnswers
  <2>1. PICK r \in requests : r.kind = "me" /\
          \/ /\ r.token \in live
             /\ SetAuth(IF stored = NoOne THEN BadToken ELSE stored, r.token.user,
                        requests \ {r})
             /\ live' = live /\ signin' = signin /\ catalog' = catalog
          \/ /\ Logout(requests \ {r})
             /\ signin' = signin
    BY <1>7 DEF RestoreAnswers
  <2>2. requests \ {r} = {} /\ user = NoOne /\ signin.stage = "idle"
    BY <2>1 DEF Inv, Restoring, SigningIn
  <2>3. r.token \in live => r.token.user \in Users
    BY DEF Inv, TokensOfUsers
  <2>4. QED
    BY <2>1, <2>2, <2>3, SetAuthKeeps, LogoutKeeps
<1>8. CASE LoginAnswers
  <2>1. /\ user = NoOne /\ ~isLoggedIn /\ signin.user \in Users /\ "user" \in DOMAIN signin
        /\ UNCHANGED authVars
    BY <1>8 DEF LoginAnswers, Inv, SigningIn
  <2>2. signin' = NoSignin \/ (signin'.user = signin.user /\ DOMAIN signin' = DOMAIN signin)
    BY <1>8 DEF LoginAnswers, Inv, SigningIn
  <2>3. SigningIn'
    BY <2>1, <2>2 DEF SigningIn, NoSignin, authVars
  <2>4. live' = live \/ live' = live \cup {[user |-> signin.user, no |-> issued + 1]}
    BY <1>8 DEF LoginAnswers
  <2>5. TokensOfUsers'
    BY <2>1, <2>4 DEF Inv, TokensOfUsers
  <2>6. QED
    BY <1>8, <2>3, <2>5, QuietKeeps DEF LoginAnswers
<1>9. CASE MeAnswers
  <2>1. /\ user = NoOne /\ ~isLoggedIn /\ signin.user \in Users /\ signin' = NoSignin
        /\ catalog' = catalog
    BY <1>9 DEF MeAnswers, Inv, SigningIn
  <2>2. \A r \in requests : r.kind # "me"
    BY <2>1 DEF Inv, Restoring
  <2>3. CASE SetAuth(signin.token, signin.user, requests) /\ live' = live
    BY <2>1, <2>2, <2>3, SetAuthKeeps DEF NoSignin
  <2>4. CASE UNCHANGED <<live, stored, authVars, tab, dag, requests>>
    <3>1. SigningIn' /\ TokensOfUsers'
      BY <2>1, <2>4 DEF SigningIn, NoSignin, Inv, TokensOfUsers
    <3>2. QED
      BY <2>1, <2>4, <3>1, QuietKeeps
  <2>5. CASE Logout(requests)
    BY <2>1, <2>2, <2>5, LogoutKeeps
  <2>6. QED
    BY <1>9, <2>3, <2>4, <2>5 DEF MeAnswers
<1>10. CASE DagAnswers
  <2>1. PICK r \in requests :
          LET g == [login |-> r.login, key |-> r.key] IN
            /\ r.kind = "dag"
            /\ UNCHANGED <<login, signin, tab, catalog>>
            /\ \/ /\ requests' = requests \ {r}
                  /\ \/ dag' = IF dag.key = r.key
                               THEN [dag EXCEPT !.data = g, !.loading = FALSE,
                                                !.cache = @ \cup {g}]
                               ELSE dag
                     \/ dag' = IF dag.key = r.key THEN [dag EXCEPT !.loading = FALSE] ELSE dag
                  /\ UNCHANGED <<live, isLoggedIn, user>>
               \/ Logout(requests \ {r})
    BY <1>10, Zenon DEF DagAnswers
  <2> DEFINE g == [login |-> r.login, key |-> r.key]
  <2>2. /\ user # NoOne /\ r.key = dag.key /\ r.login = login
        /\ \A s \in requests : s.kind = "dag" => s = r
    BY <2>1 DEF Inv, OneLoad, IsLoad
  <2>3. \A s \in requests : s.kind # "me"
    BY <2>2 DEF Inv, Restoring
  <2>4. CASE Logout(requests \ {r})
    BY <2>1, <2>3, <2>4, LogoutKeeps
  <2>5. CASE ~Logout(requests \ {r})
    <3>1. /\ requests' = requests \ {r}
          /\ UNCHANGED <<live, isLoggedIn, user, login, signin, tab, catalog>>
          /\ \/ dag' = [dag EXCEPT !.data = g, !.loading = FALSE, !.cache = @ \cup {g}]
             \/ dag' = [dag EXCEPT !.loading = FALSE]
      BY <2>1, <2>2, <2>5
    <3>2. \A s \in requests' : s.kind # "me" /\ s.kind # "dag"
      BY <2>2, <2>3, <3>1
    <3>3. GraphsOf(dag, login)
      BY DEF Inv
    <3>4. GraphsOf(dag', login') /\ dag'.key = dag.key
      <4>1. CASE dag' = [dag EXCEPT !.data = g, !.loading = FALSE, !.cache = @ \cup {g}]
        <5>1. /\ DOMAIN dag' = GraphFields /\ dag'.key = dag.key
              /\ dag'.data = g /\ dag'.cache = dag.cache \cup {g}
          BY <3>3, <4>1 DEF GraphsOf, GraphFields
        <5>2. QED
          BY <2>2, <3>1, <3>3, <5>1 DEF GraphsOf
      <4>2. CASE dag' = [dag EXCEPT !.loading = FALSE]
        <5>1. /\ DOMAIN dag' = GraphFields /\ dag'.key = dag.key
              /\ dag'.data = dag.data /\ dag'.cache = dag.cache
          BY <3>3, <4>2 DEF GraphsOf, GraphFields
        <5>2. QED
          BY <3>1, <3>3, <5>1 DEF GraphsOf
      <4>3. QED
        BY <3>1, <4>1, <4>2
    <3>5. dag'.loading = FALSE
      BY <3>1, <3>3 DEF GraphsOf, GraphFields
    <3>6. Spins'
      BY <3>2, <3>5 DEF Spins
    <3>7. /\ TokensOfUsers' /\ SigningIn' /\ UserIsLoggedIn' /\ Restoring' /\ NothingBefore'
          /\ OneLoad' /\ KeyOfTab' /\ TabOffered'
      BY <2>2, <3>1, <3>2, <3>4
      DEF Inv, TokensOfUsers, SigningIn, UserIsLoggedIn, Restoring, NothingBefore, OneLoad,
          KeyOfTab, TabOffered
    <3>8. QED
      BY <3>4, <3>6, <3>7 DEF Inv
  <2>6. QED
    BY <2>4, <2>5
<1>11. CASE HealthAnswers
  <2>1. PICK r \in requests :
          /\ r.kind = "health"
          /\ UNCHANGED <<login, signin, tab, catalog>>
          /\ \/ requests' = requests \ {r} /\ UNCHANGED <<live, isLoggedIn, user, dag>>
             \/ Logout(requests \ {r})
    BY <1>11, Zenon DEF HealthAnswers
  <2>2. \A s \in requests : s.kind # "me"
    BY <2>1 DEF Inv, Restoring
  <2>3. CASE Logout(requests \ {r})
    BY <2>1, <2>2, <2>3, LogoutKeeps
  <2>4. CASE ~Logout(requests \ {r})
    <3>1. /\ requests' = requests \ {r}
          /\ UNCHANGED <<live, isLoggedIn, user, login, dag, signin, tab, catalog>>
      BY <2>1, <2>4
    <3>2. \A s \in requests : s.kind = "dag" => s \in requests'
      BY <2>1, <3>1
    <3>3. Spins'
      BY <3>1, <3>2 DEF Spins
    <3>4. Restoring' /\ OneLoad'
      BY <2>2, <3>1 DEF Inv, Restoring, OneLoad
    <3>5. /\ TokensOfUsers' /\ SigningIn' /\ UserIsLoggedIn' /\ NothingBefore' /\ KeyOfTab'
          /\ TabOffered' /\ GraphsOf(dag', login')
      BY <3>1
      DEF Inv, TokensOfUsers, SigningIn, UserIsLoggedIn, NothingBefore, KeyOfTab, TabOffered
    <3>6. QED
      BY <3>3, <3>4, <3>5 DEF Inv
  <2>5. QED
    BY <2>3, <2>4
<1>12. CASE UNCHANGED pageVars
  <2>1. TokensOfUsers' /\ SigningIn'
    BY <1>12 DEF pageVars, serverVars, authVars, Inv, TokensOfUsers, SigningIn
  <2>2. QED
    BY <1>12, <2>1, QuietKeeps DEF pageVars
<1>13. QED
  BY <1>1, <1>2, <1>3, <1>4, <1>5, <1>6, <1>7, <1>8, <1>9, <1>10, <1>11, <1>12
  DEF PageNext, PageAnswers

LEMMA InvHolds == PageSpec => [](Inv /\ Spins)
<1>1. PageInit => Inv /\ Spins
  BY InitInv
<1>2. Inv /\ Spins /\ [PageNext]_pageVars => (Inv /\ Spins)'
  BY NextInv
<1>3. QED
  BY <1>1, <1>2, PTL DEF PageSpec

-----------------------------------------------------------------------------
(* Whoever logs in after whom, and whatever tab the address names, the tab *)
(* that is open is one the user is offered (App's redirect effect).        *)
THEOREM OpenTabIsOffered == PageSpec => []TabIsOffered
<1>1. Inv => TabIsOffered
  BY DEF Inv, TabOffered, TabIsOffered, Ready
<1>2. QED
  BY <1>1, InvHolds, PTL

(* Every graph shown or cached was fetched in the present login, and a     *)
(* graph tab shows its own: the abort of App's load effect and the clear   *)
(* on logout make dagStore's key guard enough.                             *)
THEOREM GraphIsOfThisLogin == PageSpec => []GraphOfThisLogin
<1>1. Inv => GraphOfThisLogin
  <2> SUFFICES ASSUME Inv PROVE GraphOfThisLogin
    OBVIOUS
  <2>1. user = NoOne => dag.cache = {} /\ dag.data = NoOne
    BY DEF Inv, NothingBefore, NoGraphs
  <2>2. user # NoOne => isLoggedIn
    BY DEF Inv, UserIsLoggedIn
  <2>3. ASSUME NEW g \in dag.cache \cup ({dag.data} \ {NoOne})
        PROVE  isLoggedIn /\ g.login = login
    BY <2>1, <2>2, <2>3 DEF Inv, GraphsOf
  <2>4. Ready /\ tab \in GraphTabs /\ dag.data # NoOne => dag.data.key = <<tab, catalog>>
    BY DEF Inv, GraphsOf, KeyOfTab, Ready
  <2>5. QED
    BY <2>3, <2>4 DEF GraphOfThisLogin
<1>2. QED
  BY <1>1, InvHolds, PTL

(* The spinner of a graph tab is shown exactly while a load of the current *)
(* key is under way (dagStore's loadDag and its aborts).                   *)
THEOREM SpinnerStandsForALoad == PageSpec => []SpinnerHasALoad
<1>1. Inv /\ Spins => SpinnerHasALoad
  <2> SUFFICES ASSUME Inv, Spins PROVE SpinnerHasALoad
    OBVIOUS
  <2>1. \A r \in requests : r.kind = "dag" => r.key = dag.key
    BY DEF Inv, OneLoad, IsLoad
  <2>2. QED
    BY <2>1 DEF Spins, SpinnerHasALoad
<1>2. QED
  BY <1>1, InvHolds, PTL

-----------------------------------------------------------------------------
(* The shape of the state.  It needs a little more than itself: a restored *)
(* token is a user's because the server knows it, and a load has a key.    *)

GraphStores ==
  [key : Keys \cup {NoOne}, data : FetchedGraphs \cup {NoOne}, loading : BOOLEAN,
   cache : SUBSET FetchedGraphs]

Signins ==
  [stage : {"idle", "login", "me"}, user : Users \cup {NoOne}, token : Tokens \cup {NoOne}]

KeyedRequests == {r \in Requests : r.kind = "dag" => r.key \in Keys}

Typed == PageTypeOK /\ requests \subseteq KeyedRequests

LEMMA NoGraphsIsTyped == NoGraphs \in GraphStores
<1>1. FALSE \in BOOLEAN
  OBVIOUS
<1>2. QED
  BY <1>1 DEF NoGraphs, GraphStores

LEMMA SpinnerIsTyped ==
  ASSUME dag \in GraphStores, NEW b \in BOOLEAN
  PROVE  [dag EXCEPT !.loading = b] \in GraphStores
  BY Zenon DEF GraphStores

LEMMA ShownIsTyped ==
  ASSUME dag \in GraphStores, NEW k \in Keys, NEW g \in FetchedGraphs \cup {NoOne},
         NEW b \in BOOLEAN
  PROVE  [dag EXCEPT !.key = k, !.data = g, !.loading = b] \in GraphStores
  BY Zenon DEF GraphStores

LEMMA CachedIsTyped ==
  ASSUME dag \in GraphStores, NEW g \in FetchedGraphs, NEW b \in BOOLEAN
  PROVE  [dag EXCEPT !.data = g, !.loading = b, !.cache = @ \cup {g}] \in GraphStores
  BY Zenon DEF GraphStores

LEMMA LoadDagTyped ==
  ASSUME NEW t \in Tabs, NEW c \in Catalogs, NEW in \in Nat, NEW rest,
         rest \subseteq KeyedRequests, dag \in GraphStores,
         stored' \in Tokens \cup {NoOne}, LoadDag(t, c, in, rest)
  PROVE  dag' \in GraphStores /\ requests' \subseteq KeyedRequests
<1> DEFINE key == <<t, c>>
           hit == {g \in dag.cache : g.key = key}
           load == [kind |-> "dag", token |-> stored', login |-> in, key |-> key]
<1>0. FALSE \in BOOLEAN /\ TRUE \in BOOLEAN
  OBVIOUS
<1>1. CASE t \notin GraphTabs
  BY <1>0, <1>1, SpinnerIsTyped DEF LoadDag
<1>2. t \in GraphTabs => key \in Keys
  BY DEF Keys
<1>3. CASE t \in GraphTabs /\ hit # {}
  <2>1. /\ dag' = [dag EXCEPT !.key = key, !.loading = FALSE,
                              !.data = CHOOSE g \in hit : TRUE]
        /\ requests' = rest
    BY <1>3 DEF LoadDag
  <2>2. (CHOOSE g \in hit : TRUE) \in hit
    BY <1>3, ChosenIsMember
  <2>3. dag.cache \subseteq FetchedGraphs
    BY DEF GraphStores
  <2>4. PICK g \in FetchedGraphs : g = CHOOSE h \in hit : TRUE
    BY <2>2, <2>3
  <2>5. dag' = [dag EXCEPT !.key = key, !.loading = FALSE, !.data = g]
    BY <2>1, <2>4
  <2>6. dag' \in GraphStores
    BY <1>0, <1>2, <1>3, <2>4, <2>5, Zenon DEF GraphStores
  <2>7. QED
    BY <2>1, <2>6
<1>4. CASE t \in GraphTabs /\ hit = {}
  <2>1. /\ dag' = [dag EXCEPT !.key = key, !.data = NoOne, !.loading = TRUE]
        /\ requests' = rest \cup {load}
    BY <1>4 DEF LoadDag
  <2>2. load \in KeyedRequests
    BY <1>2, <1>4 DEF Requests, KeyedRequests
  <2>3. QED
    BY <1>0, <1>2, <1>4, <2>1, <2>2, ShownIsTyped
<1>5. QED
  BY <1>1, <1>3, <1>4

LEMMA SetAuthTyped ==
  ASSUME Typed, NEW token \in Tokens \cup {NoOne}, NEW u \in Users, NEW rest,
         rest \subseteq requests, SetAuth(token, u, rest)
  PROVE  /\ stored' \in Tokens \cup {NoOne} /\ isLoggedIn' \in BOOLEAN
         /\ user' \in Users \cup {NoOne} /\ login' \in Nat /\ tab' \in Tabs
         /\ dag' \in GraphStores /\ requests' \subseteq KeyedRequests
<1>1. /\ stored' = token /\ user' = u /\ login' = login + 1
      /\ tab' = Redirect(tab, u)
      /\ LoadDag(tab', catalog, login + 1, Aborted(rest))
  BY DEF SetAuth
<1>2. isLoggedIn' \in BOOLEAN
  BY Zenon DEF SetAuth
<1>3. tab' \in Tabs
  BY <1>1, RedirectIsOffered DEF Offered
<1>4. Aborted(rest) \subseteq KeyedRequests
  BY DEF Aborted, Typed
<1>5. dag \in GraphStores /\ catalog \in Catalogs /\ login + 1 \in Nat
  BY DEF Typed, PageTypeOK, GraphStores
<1>6. dag' \in GraphStores /\ requests' \subseteq KeyedRequests
  BY <1>1, <1>3, <1>4, <1>5, LoadDagTyped
<1>7. QED
  BY <1>1, <1>2, <1>3, <1>5, <1>6

LEMMA LogoutTyped ==
  ASSUME Typed, NEW rest, rest \subseteq requests, Logout(rest)
  PROVE  /\ live' \subseteq Tokens /\ stored' \in Tokens \cup {NoOne}
         /\ isLoggedIn' \in BOOLEAN /\ user' \in Users \cup {NoOne}
         /\ dag' \in GraphStores /\ requests' \subseteq KeyedRequests
<1>1. /\ live' \subseteq live /\ requests' = Aborted(rest) /\ stored' = NoOne
      /\ user' = NoOne /\ dag' = NoGraphs
  BY DEF Logout
<1>2. isLoggedIn' \in BOOLEAN
  BY Zenon DEF Logout
<1>3. QED
  BY <1>1, <1>2, NoGraphsIsTyped DEF Aborted, Typed, PageTypeOK

LEMMA PageTypeInit == PageInit => Typed
<1> SUFFICES ASSUME PageInit PROVE Typed
  OBVIOUS
<1>1. issued \in 0..MaxTokens /\ stored \in Tokens \cup {NoOne} /\ live \subseteq Tokens
  BY WorkspaceConstants DEF PageInit, Tokens
<1>2. isLoggedIn \in BOOLEAN /\ hidden \in BOOLEAN
  BY Zenon DEF PageInit
<1>3. signin \in Signins
  BY DEF PageInit, NoSignin, Signins
<1>4. requests \subseteq KeyedRequests
  <2>1. CASE stored = NoOne
    BY <2>1 DEF PageInit
  <2>2. CASE stored # NoOne
    <3>1. [kind |-> "me", token |-> stored, login |-> 0, key |-> NoOne] \in KeyedRequests
      BY <1>1, <2>2 DEF Requests, KeyedRequests
    <3>2. QED
      BY <2>2, <3>1 DEF PageInit
  <2>3. QED
    BY <2>1, <2>2
<1>5. /\ user \in Users \cup {NoOne} /\ login \in Nat /\ tab \in Tabs /\ catalog \in Catalogs
      /\ dag = NoGraphs
  BY WorkspaceConstants DEF PageInit
<1>6. QED
  BY <1>1, <1>2, <1>3, <1>4, <1>5, NoGraphsIsTyped
  DEF Typed, PageTypeOK, GraphStores, Signins, KeyedRequests

LEMMA PageTypeNext == Typed /\ Inv /\ [PageNext]_pageVars => Typed'
<1> SUFFICES ASSUME Typed, Inv, [PageNext]_pageVars PROVE Typed'
  OBVIOUS
<1> DEFINE Served == /\ live \subseteq Tokens /\ issued \in 0..MaxTokens
                     /\ stored \in Tokens \cup {NoOne}
           Known == isLoggedIn \in BOOLEAN /\ user \in Users \cup {NoOne} /\ login \in Nat
           Shown == hidden \in BOOLEAN /\ tab \in Tabs /\ catalog \in Catalogs
           Loaded == dag \in GraphStores /\ requests \subseteq KeyedRequests
<1>a. Served /\ Known /\ signin \in Signins /\ Shown /\ Loaded
  BY DEF Typed, PageTypeOK, GraphStores, Signins
<1>b. Served' /\ Known' /\ (signin \in Signins)' /\ Shown' /\ Loaded' => Typed'
  BY DEF Typed, PageTypeOK, GraphStores, Signins, KeyedRequests
<1>c. NoSignin \in Signins
  BY DEF NoSignin, Signins
<1>d. TRUE \in BOOLEAN /\ FALSE \in BOOLEAN
  OBVIOUS
<1>1. CASE Submit
  <2>1. (signin \in Signins)'
    BY <1>1 DEF Submit, Signins
  <2>2. QED
    BY <1>1, <1>a, <1>b, <2>1 DEF Submit, serverVars, authVars
<1>2. CASE LogoutClick
  <2>1. Logout(requests) /\ UNCHANGED <<issued, login, signin, hidden, tab, catalog>>
    BY <1>2 DEF LogoutClick
  <2>2. QED
    BY <1>a, <1>b, <2>1, LogoutTyped
<1>3. CASE Reload
  <2>1. isLoggedIn' \in BOOLEAN
    BY <1>3, Zenon DEF Reload
  <2>2. /\ user' = NoOne /\ signin' = NoSignin /\ catalog' = FirstCatalog /\ dag' = NoGraphs
        /\ UNCHANGED <<live, issued, stored, login, hidden, tab>>
    BY <1>3 DEF Reload, serverVars
  <2>3. requests' \subseteq KeyedRequests
    <3>1. CASE stored = NoOne
      BY <1>3, <3>1 DEF Reload
    <3>2. CASE stored # NoOne
      <4>1. [kind |-> "me", token |-> stored, login |-> login, key |-> NoOne] \in KeyedRequests
        BY <1>a, <3>2 DEF Requests, KeyedRequests
      <4>2. QED
        BY <1>3, <3>2, <4>1 DEF Reload
    <3>3. QED
      BY <3>1, <3>2
  <2>4. QED
    BY <1>a, <1>b, <1>c, <2>1, <2>2, <2>3, NoGraphsIsTyped, WorkspaceConstants
<1>4. CASE Expire
  BY <1>4, <1>a, <1>b DEF Expire, authVars
<1>5. CASE OtherTab
  <2>1. Served'
    BY <1>5, <1>a, WorkspaceConstants DEF OtherTab, Tokens
  <2>2. QED
    BY <1>5, <1>a, <1>b, <2>1 DEF OtherTab, authVars
<1>6. CASE HideOrShow
  <2>1. hidden' \in BOOLEAN
    BY <1>6, Zenon DEF HideOrShow
  <2>2. QED
    BY <1>6, <1>a, <1>b, <2>1 DEF HideOrShow, serverVars, authVars
<1>7. CASE SelectTab \/ SelectCatalog
  <2>1. /\ tab' \in Tabs /\ catalog' \in Catalogs
        /\ UNCHANGED <<live, issued, stored, isLoggedIn, user, login, signin, hidden>>
        /\ LoadDag(tab', catalog', login, Aborted(requests))
    BY <1>7, <1>a DEF SelectTab, SelectCatalog, Offered, Tabs, serverVars, authVars
  <2>2. Aborted(requests) \subseteq KeyedRequests /\ stored' \in Tokens \cup {NoOne}
    BY <1>a, <2>1 DEF Aborted
  <2>3. Loaded'
    BY <1>a, <2>1, <2>2, LoadDagTyped
  <2>4. QED
    BY <1>a, <1>b, <2>1, <2>3
<1>8. CASE HealthTick
  <2>1. [kind |-> "health", token |-> stored, login |-> login, key |-> NoOne] \in KeyedRequests
    BY <1>a DEF Requests, KeyedRequests
  <2>2. requests' \subseteq KeyedRequests
    BY <1>8, <1>a, <2>1 DEF HealthTick
  <2>3. QED
    BY <1>8, <1>a, <1>b, <2>2 DEF HealthTick, serverVars, authVars
<1>9. CASE RestoreAnswers
  <2>1. PICK r \in requests :
          /\ r.kind = "me"
          /\ \/ /\ r.token \in live
                /\ SetAuth(IF stored = NoOne THEN BadToken ELSE stored, r.token.user,
                           requests \ {r})
                /\ UNCHANGED live
             \/ /\ Logout(requests \ {r})
                /\ UNCHANGED <<login, tab>>
          /\ UNCHANGED <<issued, signin, hidden, catalog>>
    BY <1>9, Zenon DEF RestoreAnswers
  <2>2. r.token \in live => r.token.user \in Users
    BY DEF Inv, TokensOfUsers
  <2>3. (IF stored = NoOne THEN BadToken ELSE stored) \in Tokens \cup {NoOne}
    BY <1>a, WorkspaceConstants DEF BadToken, Tokens
  <2>4. CASE /\ SetAuth(IF stored = NoOne THEN BadToken ELSE stored, r.token.user,
                        requests \ {r})
             /\ r.token \in live /\ UNCHANGED live
    <3>1. PICK u \in Users : u = r.token.user
      BY <2>2, <2>4
    <3>2. PICK t \in Tokens \cup {NoOne} : t = IF stored = NoOne THEN BadToken ELSE stored
      BY <2>3
    <3>3. SetAuth(t, u, requests \ {r})
      BY <2>4, <3>1, <3>2
    <3>4. /\ stored' \in Tokens \cup {NoOne} /\ Known' /\ tab' \in Tabs /\ Loaded'
      BY <3>3, SetAuthTyped
    <3>5. QED
      BY <1>a, <1>b, <2>1, <2>4, <3>4
  <2>5. CASE Logout(requests \ {r}) /\ UNCHANGED <<login, tab>>
    BY <1>a, <1>b, <2>1, <2>5, LogoutTyped
  <2>6. QED
    BY <2>1, <2>4, <2>5
<1>10. CASE LoginAnswers
  <2>1. UNCHANGED <<isLoggedIn, user, login, hidden, tab, catalog, dag, requests>>
    BY <1>10 DEF LoginAnswers, authVars
  <2>2. CASE UNCHANGED <<live, issued, stored>> /\ signin' = NoSignin
    BY <1>a, <1>b, <1>c, <2>1, <2>2
  <2>3. CASE /\ issued < MaxTokens
             /\ LET t == [user |-> signin.user, no |-> issued + 1] IN
                  /\ issued' = issued + 1 /\ live' = live \cup {t} /\ stored' = t
                  /\ signin' = [signin EXCEPT !.stage = "me", !.token = t]
    <3> DEFINE t == [user |-> signin.user, no |-> issued + 1]
    <3>1. t \in Tokens
      BY <1>a, <2>3, WorkspaceConstants DEF Tokens, Signins
    <3>2. Served'
      BY <1>a, <2>3, <3>1, WorkspaceConstants
    <3>3. signin' = [signin EXCEPT !.stage = "me", !.token = t]
      BY <2>3
    <3>4. (signin \in Signins)'
      BY <1>a, <3>1, <3>3 DEF Signins
    <3>5. QED
      BY <1>a, <1>b, <2>1, <3>2, <3>4
  <2>4. QED
    BY <1>10, <2>2, <2>3 DEF LoginAnswers
<1>11. CASE MeAnswers
  <2>1. signin' = NoSignin /\ UNCHANGED <<issued, hidden, catalog>>
    BY <1>11 DEF MeAnswers
  <2>2. CASE SetAuth(signin.token, signin.user, requests) /\ UNCHANGED live
    <3>1. signin.user \in Users /\ signin.token \in Tokens \cup {NoOne}
      BY <1>11, <1>a DEF MeAnswers, Inv, SigningIn, Signins
    <3>2. QED
      BY <1>a, <1>b, <1>c, <2>1, <2>2, <3>1, SetAuthTyped
  <2>3. CASE UNCHANGED <<live, stored, authVars, tab, dag, requests>>
    BY <1>a, <1>b, <1>c, <2>1, <2>3 DEF authVars
  <2>4. CASE Logout(requests) /\ UNCHANGED <<login, tab>>
    BY <1>a, <1>b, <1>c, <2>1, <2>4, LogoutTyped
  <2>5. QED
    BY <1>11, <2>2, <2>3, <2>4, Zenon DEF MeAnswers
<1>12. CASE DagAnswers
  <2>1. PICK r \in requests :
          LET g == [login |-> r.login, key |-> r.key] IN
            /\ r.kind = "dag"
            /\ UNCHANGED <<issued, login, signin, hidden, tab, catalog>>
            /\ \/ /\ requests' = requests \ {r}
                  /\ \/ dag' = IF dag.key = r.key
                               THEN [dag EXCEPT !.data = g, !.loading = FALSE,
                                                !.cache = @ \cup {g}]
                               ELSE dag
                     \/ dag' = IF dag.key = r.key THEN [dag EXCEPT !.loading = FALSE] ELSE dag
                  /\ UNCHANGED <<live, stored, isLoggedIn, user>>
               \/ Logout(requests \ {r})
    BY <1>12, Zenon DEF DagAnswers
  <2> DEFINE g == [login |-> r.login, key |-> r.key]
  <2>2. g \in FetchedGraphs
    BY <1>a, <2>1 DEF KeyedRequests, Requests, FetchedGraphs
  <2>3. CASE Logout(requests \ {r})
    BY <1>a, <1>b, <2>1, <2>3, LogoutTyped
  <2>4. CASE ~Logout(requests \ {r})
    <3>1. /\ requests' = requests \ {r} /\ UNCHANGED <<live, stored, isLoggedIn, user>>
          /\ \/ dag' = [dag EXCEPT !.data = g, !.loading = FALSE, !.cache = @ \cup {g}]
             \/ dag' = [dag EXCEPT !.loading = FALSE]
             \/ dag' = dag
      BY <2>1, <2>4
    <3>2. dag' \in GraphStores
      BY <1>a, <1>d, <2>2, <3>1, CachedIsTyped, SpinnerIsTyped
    <3>3. QED
      BY <1>a, <1>b, <2>1, <3>1, <3>2
  <2>5. QED
    BY <2>3, <2>4
<1>13. CASE HealthAnswers
  <2>1. PICK r \in requests :
          /\ r.kind = "health"
          /\ \/ requests' = requests \ {r} /\ UNCHANGED <<live, stored, isLoggedIn, user, dag>>
             \/ Logout(requests \ {r})
          /\ UNCHANGED <<issued, login, signin, hidden, tab, catalog>>
    BY <1>13, Zenon DEF HealthAnswers
  <2>2. QED
    BY <1>a, <1>b, <2>1, LogoutTyped
<1>14. CASE UNCHANGED pageVars
  BY <1>14, <1>a, <1>b DEF pageVars, serverVars, authVars
<1>15. QED
  BY <1>1, <1>2, <1>3, <1>4, <1>5, <1>6, <1>7, <1>8, <1>9, <1>10, <1>11, <1>12, <1>13, <1>14
  DEF PageNext, PageAnswers

(* The page's state keeps its shape (authStore, dagStore, App, and what is *)
(* in flight between them and the server).                                 *)
THEOREM PageTyped == PageSpec => []PageTypeOK
<1>1. PageInit => Typed
  BY PageTypeInit
<1>2. Typed /\ Inv /\ [PageNext]_pageVars => Typed'
  BY PageTypeNext
<1>3. Typed => PageTypeOK
  BY DEF Typed
<1>4. QED
  BY <1>1, <1>2, <1>3, InvHolds, PTL DEF PageSpec
=============================================================================
