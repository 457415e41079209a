--------------------------- MODULE FrontendProofs ---------------------------
(***************************************************************************)
(* What the parts of the page keep true, for any selections, filters and   *)
(* graphs, and what they keep true next to each other.                     *)
(*                                                                         *)
(* The two fetching views implement the safety part of LatestAnswer for    *)
(* one reason: a request that is still awaited asks what the screen asks.  *)
(* The graph view keeps its drawing that of the present graph and filter;  *)
(* the rest is about what a drawing and a highlight are, by facts about    *)
(* closed sets of nodes, about counting and about boxes.                   *)
(***************************************************************************)
EXTENDS Frontend, WorkspaceProofs, ClusterViewsProofs, FiniteSetTheorems,
        WellFoundedInduction, NaturalsInduction, TLAPS

-----------------------------------------------------------------------------
(* The detail panel                                                        *)

(* The live request of useAsyncData is that of the selection on the screen.*)
AwaitsThePick == awaited # 0 => Fetching(mode) /\ awaited = pick

(* A panel that is open was opened by a selection.                         *)
OpenedByAPick == mode # "none" => pick # 0

PanelInv == PanelTypeOK /\ AwaitsThePick /\ OpenedByAPick

LEMMA PanelFlagsHold ==
  /\ PanelInit => PanelFlags
  /\ PanelFlags /\ [PanelNext]_panelVars2 => PanelFlags'
<1> USE DEF PanelFlags
<1>1. PanelInit => PanelFlags
  BY Zenon DEF PanelInit
<1>2. ASSUME PanelFlags, [PanelNext]_panelVars2 PROVE PanelFlags'
  <2>1. CASE Pick \/ ClosePanel2
    BY <2>1, Zenon DEF Pick, ClosePanel2, NoDetails
  <2>2. CASE OpenDetails \/ OpenPrivileges
    BY <1>2, <2>2, Zenon DEF OpenDetails, OpenPrivileges
  <2>3. CASE PrivilegesAnswer \/ TurnPage
    BY <1>2, <2>3, Zenon DEF PrivilegesAnswer, TurnPage, detailVars
  <2>4. CASE DetailAnswers
    BY <1>2, <2>4, Zenon DEF DetailAnswers
  <2>5. CASE UNCHANGED panelVars2
    BY <1>2, <2>5, Zenon DEF panelVars2, detailVars
  <2>6. QED
    BY <1>2, <2>1, <2>2, <2>3, <2>4, <2>5 DEF PanelNext
<1>3. QED
  BY <1>1, <1>2

LEMMA PanelInitInv == PanelInit => PanelInv
  BY PanelConstants, PanelFlagsHold
  DEF PanelInit, PanelInv, PanelTypeOK, AwaitsThePick, OpenedByAPick, Fetching, Modes

LEMMA PanelNextInv == PanelInv /\ [PanelNext]_panelVars2 => PanelInv'
<1> SUFFICES ASSUME PanelInv, [PanelNext]_panelVars2 PROVE PanelInv'
  OBVIOUS
<1>0. PanelFlags'
  BY PanelFlagsHold DEF PanelInv, PanelTypeOK
<1> USE PanelConstants, <1>0 DEF PanelInv, PanelTypeOK, AwaitsThePick, OpenedByAPick, Fetching, Modes
<1>1. CASE Pick
  <2>1. PICK m \in Modes \ {"none"}, l \in BOOLEAN, ps \in 1..2 :
          /\ picks < MaxPicks
          /\ picks' = picks + 1 /\ pick' = picks + 1 /\ mode' = m
          /\ cell' = 0
          /\ awaited' = IF Fetching(m) THEN picks + 1 ELSE 0
          /\ detail' = 0 /\ detailAsked' = IF m = mode THEN detailAsked ELSE {}
          /\ page' = IF m = "group" /\ m = mode THEN page ELSE 0
          /\ pages' = IF m = "group" THEN ps ELSE 0
    BY <1>1, Zenon DEF Pick, NoDetails
  <2>2. QED
    BY <2>1
<1>2. CASE ClosePanel2
  BY <1>2 DEF ClosePanel2, NoDetails
<1>3. CASE PrivilegesAnswer
  BY <1>3 DEF PrivilegesAnswer, detailVars
<1>4. CASE OpenDetails
  <2>1. detailAsked' = detailAsked \/ detailAsked' = detailAsked \cup {pick}
    BY <1>4, Zenon DEF OpenDetails
  <2>2. /\ mode = "object"
        /\ UNCHANGED <<picks, pick, mode, cell, awaited, detail, page, pages>>
    BY <1>4, Zenon DEF OpenDetails
  <2>3. pick \in 1..MaxPicks
    BY <2>2
  <2>4. detailAsked' \subseteq 1..MaxPicks
    BY <2>1, <2>3
  <2>5. QED
    BY <2>2, <2>4
<1>5. CASE OpenPrivileges
  BY <1>5 DEF OpenPrivileges
<1>6. CASE DetailAnswers
  <2>1. detail' \in 0..MaxPicks /\ detailAsked' \subseteq 1..MaxPicks
    BY <1>6 DEF DetailAnswers
  <2>2. QED
    BY <1>6, <2>1 DEF DetailAnswers
<1>7. CASE TurnPage
  BY <1>7 DEF TurnPage, detailVars
<1>8. CASE UNCHANGED panelVars2
  BY <1>8 DEF panelVars2, detailVars
<1>9. QED
  BY <1>1, <1>2, <1>3, <1>4, <1>5, <1>6, <1>7, <1>8 DEF PanelNext

(* The panel's state keeps its shape, and the request that is awaited is   *)
(* always the one of the node on the screen (useAsyncData's cancelled flag).*)
THEOREM PanelAwaitsThePick == PanelSpec => []PanelInv
<1>1. PanelInit => PanelInv
  BY PanelInitInv
<1>2. PanelInv /\ [PanelNext]_panelVars2 => PanelInv'
  BY PanelNextInv
<1>3. QED
  BY <1>1, <1>2, PTL DEF PanelSpec

LEMMA PanelStepMaps ==
  PanelInv /\ PanelInv' /\ [PanelNext]_panelVars2 =>
    [PanelLatest!LatestNext]_(PanelLatest!LatestVars)
<1> SUFFICES ASSUME PanelInv, PanelInv', [PanelNext]_panelVars2
             PROVE  [PanelLatest!LatestNext]_(PanelLatest!LatestVars)
  OBVIOUS
<1> USE DEF PanelLatest!LatestNext, PanelLatest!LatestVars, PanelLatest!Asked
<1>1. (IF Fetching(mode') THEN pick' ELSE 0) \in 1..MaxPicks \cup {0}
  BY PanelConstants DEF PanelInv, PanelTypeOK
<1>2. CASE Pick \/ ClosePanel2
  <2>1. cell' = 0
    BY <1>2 DEF Pick, ClosePanel2
  <2>2. PanelLatest!Forget
    BY <1>1, <2>1 DEF PanelLatest!Forget, PanelLatest!Asked, Fetching
  <2>3. QED
    BY <2>2
<1>3. CASE PrivilegesAnswer
  BY <1>3 DEF PrivilegesAnswer, PanelLatest!Receive, PanelInv, AwaitsThePick, Fetching
<1>4. CASE OpenDetails \/ OpenPrivileges \/ DetailAnswers \/ TurnPage
  BY <1>4 DEF OpenDetails, OpenPrivileges, DetailAnswers, TurnPage, Fetching
<1>5. CASE UNCHANGED panelVars2
  BY <1>5 DEF panelVars2, Fetching
<1>6. QED
  BY <1>2, <1>3, <1>4, <1>5 DEF PanelNext

(* Privileges appear in the panel only for the node that is selected:      *)
(* every behaviour of the panel is one of LatestAnswer.                    *)
THEOREM PanelRefinesLatest == PanelSpec => PanelLatest!LatestSpec
<1>1. PanelInit => PanelLatest!LatestInit
  BY DEF PanelInit, PanelLatest!LatestInit, PanelLatest!Asked, Fetching
<1>2. QED
  BY <1>1, PanelAwaitsThePick, PanelStepMaps, PTL DEF PanelSpec, PanelLatest!LatestSpec

-----------------------------------------------------------------------------
(* The audit tab                                                           *)

(* What is asked and not cancelled is what the filters and the executions  *)
(* ask now.                                                                *)
AsksThePresent ==
  auditAsked # Unasked => auditOn /\ auditAsked = <<auditFilter, refreshTick>>

AuditInv == AuditTypeOK /\ AsksThePresent

LEMMA AuditFlagsHold ==
  /\ AuditInit => AuditFlags
  /\ AuditFlags /\ [AuditNext]_auditVars => AuditFlags'
<1> USE DEF AuditFlags
<1>1. AuditInit => AuditFlags
  BY Zenon DEF AuditInit
<1>2. ASSUME AuditFlags, [AuditNext]_auditVars PROVE AuditFlags'
  <2>1. CASE OpenAudit \/ LeaveAudit
    BY <1>2, <2>1, Zenon DEF OpenAudit, LeaveAudit
  <2>2. CASE ChangeFilter \/ BumpRefresh \/ AuditAnswers
    BY <1>2, <2>2, Zenon DEF ChangeFilter, BumpRefresh, AuditAnswers
  <2>3. CASE FailuresOnly
    BY <1>2, <2>3, Zenon DEF FailuresOnly
  <2>4. CASE UNCHANGED auditVars
    BY <1>2, <2>4, Zenon DEF auditVars
  <2>5. QED
    BY <1>2, <2>1, <2>2, <2>3, <2>4 DEF AuditNext
<1>3. QED
  BY <1>1, <1>2

LEMMA AuditInitInv == AuditInit => AuditInv
  BY AuditConstants, AuditFlagsHold DEF AuditInit, AuditInv, AuditTypeOK, AsksThePresent

LEMMA AuditNextInv == AuditInv /\ [AuditNext]_auditVars => AuditInv'
<1> SUFFICES ASSUME AuditInv, [AuditNext]_auditVars PROVE AuditInv'
  OBVIOUS
<1>0. AuditFlags'
  BY AuditFlagsHold DEF AuditInv, AuditTypeOK
<1> USE AuditConstants, <1>0 DEF AuditInv, AuditTypeOK, AsksThePresent, AuditQuestions
<1>1. CASE OpenAudit
  BY <1>1 DEF OpenAudit, AuditAsk
<1>2. CASE LeaveAudit
  BY <1>2 DEF LeaveAudit
<1>3. CASE ChangeFilter
  BY <1>3 DEF ChangeFilter, AuditAsk
<1>4. CASE FailuresOnly
  BY <1>4 DEF FailuresOnly
<1>5. CASE BumpRefresh
  BY <1>5 DEF BumpRefresh, AuditAsk
<1>6. CASE AuditAnswers
  BY <1>6 DEF AuditAnswers
<1>7. CASE UNCHANGED auditVars
  BY <1>7 DEF auditVars
<1>8. QED
  BY <1>1, <1>2, <1>3, <1>4, <1>5, <1>6, <1>7 DEF AuditNext

(* The audit tab's state keeps its shape, and no request that was asked    *)
(* with older filters, or before the last execution, is awaited.           *)
THEOREM AuditAsksThePresent == AuditSpec => []AuditInv
<1>1. AuditInit => AuditInv
  BY AuditInitInv
<1>2. AuditInv /\ [AuditNext]_auditVars => AuditInv'
  BY AuditNextInv
<1>3. QED
  BY <1>1, <1>2, PTL DEF AuditSpec

LEMMA AuditStepMaps ==
  AuditInv /\ AuditInv' /\ [AuditNext]_auditVars =>
    [AuditLatest!LatestNext]_(AuditLatest!LatestVars)
<1> SUFFICES ASSUME AuditInv, AuditInv', [AuditNext]_auditVars
             PROVE  [AuditLatest!LatestNext]_(AuditLatest!LatestVars)
  OBVIOUS
<1> USE DEF AuditLatest!LatestNext, AuditLatest!LatestVars, AuditLatest!Asked
<1>1. (IF auditOn' THEN <<auditFilter', refreshTick'>> ELSE Unasked)
        \in AuditQuestions \cup {Unasked}
  BY DEF AuditInv, AuditTypeOK, AuditQuestions
<1>2. CASE OpenAudit \/ ChangeFilter \/ BumpRefresh
  <2>1. entries' = entries
    BY <1>2 DEF OpenAudit, ChangeFilter, BumpRefresh
  <2>2. AuditLatest!Ask
    BY <1>1, <2>1 DEF AuditLatest!Ask, AuditLatest!Asked
  <2>3. QED
    BY <2>2
<1>3. CASE LeaveAudit
  BY <1>1, <1>3 DEF LeaveAudit, AuditLatest!Forget, AuditLatest!Asked
<1>4. CASE AuditAnswers
  BY <1>4 DEF AuditAnswers, AuditLatest!Receive, AuditInv, AsksThePresent
<1>5. CASE FailuresOnly
  BY <1>5 DEF FailuresOnly
<1>6. CASE UNCHANGED auditVars
  BY <1>6 DEF auditVars
<1>7. QED
  BY <1>2, <1>3, <1>4, <1>5, <1>6 DEF AuditNext

(* The entries on the screen answer the present filters at the moment they *)
(* appear: every behaviour of the audit tab is one of LatestAnswer.        *)
THEOREM AuditRefinesLatest == AuditSpec => AuditLatest!LatestSpec
<1>1. AuditInit => AuditLatest!LatestInit
  BY DEF AuditInit, AuditLatest!LatestInit, AuditLatest!Asked
<1>2. QED
  BY <1>1, AuditAsksThePresent, AuditStepMaps, PTL DEF AuditSpec, AuditLatest!LatestSpec

-----------------------------------------------------------------------------
(* The graph: what is highlighted                                          *)

(* Reach is the least set that holds a node and is closed.                 *)
LEMMA ReachIsLeast ==
  ASSUME NEW next, NEW n \in DOMAIN next, \A k \in DOMAIN next : next[k] \subseteq DOMAIN next
  PROVE  /\ n \in Reach(n, next) /\ Reach(n, next) \subseteq DOMAIN next
         /\ \A k \in Reach(n, next) : next[k] \subseteq Reach(n, next)
         /\ \A s \in SUBSET DOMAIN next :
              n \in s /\ (\A k \in s : next[k] \subseteq s) => Reach(n, next) \subseteq s
  BY Zenon DEF Reach

LEMMA SearchFromOne ==
  ASSUME NEW next, NEW n \in DOMAIN next
  PROVE  Search({n}, {n}, next) = Reach(n, next)
<1>1. \A s : n \in s => {n} \cup (s \ {n}) = s
  OBVIOUS
<1>2. QED
  BY <1>1 DEF Search, Reach

(* The second search goes on past what the first one found only from the   *)
(* clicked node; that loses nothing because no other node is both above    *)
(* and below it.                                                           *)
LEMMA ConnectedIsLineage ==
  ASSUME NoCycles, NEW g \in ServedGraphs, NEW n \in g.node
  PROVE  Connected(g, n) = Downward(g, n) \cup Upward(g, n)
<1> DEFINE succ == [m \in g.node |-> Successors(g, m)]
           pred == [m \in g.node |-> Predecessors(g, m)]
           D == Downward(g, n)
           U == Upward(g, n)
<1>1. /\ DOMAIN succ = g.node /\ DOMAIN pred = g.node
      /\ \A k \in g.node : succ[k] \subseteq g.node /\ pred[k] \subseteq g.node
  BY DEF Successors, Predecessors
<1>2. D = Reach(n, succ) /\ U = Reach(n, pred)
  BY DEF Downward, Upward
<1>3. D \cap U = {n}
  BY DEF NoCycles
<1>4. Connected(g, n) = Search(D, {n}, pred)
  BY <1>1, <1>2, SearchFromOne DEF Connected
<1> HIDE DEF succ, pred, D, U
<1>5. /\ D \subseteq g.node /\ n \in D
      /\ U \subseteq g.node /\ n \in U /\ \A k \in U : pred[k] \subseteq U
      /\ \A s \in SUBSET g.node : n \in s /\ (\A k \in s : pred[k] \subseteq s) => U \subseteq s
  BY <1>1, <1>2, ReachIsLeast
<1>6. Search(D, {n}, pred) \subseteq D \cup U
  <2>1. /\ D \cup U \in SUBSET DOMAIN pred
        /\ \A k \in {n} \cup ((D \cup U) \ D) : pred[k] \subseteq D \cup U
    BY <1>1, <1>5
  <2>2. QED
    BY <2>1 DEF Search
<1>7. ASSUME NEW s \in SUBSET g.node, D \subseteq s,
             \A k \in {n} \cup (s \ D) : pred[k] \subseteq s
      PROVE  D \cup U \subseteq s
  <2>1. ASSUME NEW k \in U \cap s PROVE pred[k] \subseteq U \cap s
    <3>1. k = n \/ k \in s \ D
      BY <1>3, <2>1
    <3>2. QED
      BY <1>5, <1>7, <2>1, <3>1
  <2>2. U \cap s \in SUBSET g.node /\ n \in U \cap s
    BY <1>5, <1>7
  <2>3. U \subseteq U \cap s
    BY <1>5, <2>1, <2>2
  <2>4. QED
    BY <1>7, <2>3
<1>8. D \cup U \subseteq Search(D, {n}, pred)
  BY <1>1, <1>5, <1>7 DEF Search
<1>9. QED
  BY <1>4, <1>6, <1>8 DEF D, U

LEMMA LeastNumber ==
  ASSUME NEW T, T \subseteq Nat, T # {}
  PROVE  \E x \in T : \A y \in T : x <= y
<1> DEFINE R == {ss \in Nat \X Nat : ss[1] < ss[2]}
<1>1. OpToRel(<, Nat) = R
  BY DEF OpToRel
<1>2. IsWellFoundedOn(R, Nat)
  BY <1>1, NatLessThanWellFounded
<1>3. PICK x \in T : \A y \in T : ~(<<y, x>> \in R)
  BY <1>2, WFMin
<1>4. \A y \in T : ~(y < x)
  BY <1>3
<1>5. QED
  BY <1>4

LEMMA SequenceOfOne == ASSUME NEW S, NEW x \in S PROVE <<x>> \in Seq(S)
  OBVIOUS

LEMMA PrependOne ==
  ASSUME NEW S, NEW x \in S, NEW p \in Seq(S), p # <<>>
  PROVE  /\ <<x>> \o p \in Seq(S) /\ Len(<<x>> \o p) = Len(p) + 1 /\ Len(p) \in Nat /\ Len(p) > 0
         /\ \A i \in 2..(Len(p) + 1) : (<<x>> \o p)[i] = p[i - 1]
         /\ (<<x>> \o p)[1] = x
<1>1. <<x>> \in Seq(S) /\ Len(<<x>>) = 1 /\ <<x>>[1] = x
  OBVIOUS
<1>2. Len(p) \in Nat /\ Len(p) > 0
  OBVIOUS
<1>3. Len(<<x>> \o p) = Len(p) + 1 /\ <<x>> \o p \in Seq(S)
  BY <1>1, <1>2
<1>4. \A i \in 1..(Len(p) + 1) : (<<x>> \o p)[i] = IF i <= 1 THEN <<x>>[i] ELSE p[i - 1]
  BY <1>1, <1>2
<1>5. QED
  BY <1>1, <1>2, <1>3, <1>4

LEMMA DownwardAreAtTheEndOfAPath ==
  ASSUME NEW g \in ServedGraphs, NEW n \in g.node
  PROVE  Downward(g, n) = {m \in g.node : AreConnectedIn(n, m, g)}
<1> DEFINE next == [m \in g.node |-> Successors(g, m)]
           D == Downward(g, n)
           A == {m \in g.node : AreConnectedIn(n, m, g)}
<1>1. DOMAIN next = g.node /\ \A k \in g.node : next[k] = {m \in g.node : <<k, m>> \in g.edge}
  BY DEF Successors
<1>2. D = Reach(n, next)
  BY DEF Downward
<1> HIDE DEF next, D
<1>3. /\ n \in D /\ D \subseteq g.node /\ \A k \in D : next[k] \subseteq D
      /\ \A s \in SUBSET g.node : n \in s /\ (\A k \in s : next[k] \subseteq s) => D \subseteq s
  <2>1. \A k \in g.node : next[k] \subseteq g.node
    BY <1>1
  <2>2. DOMAIN next = g.node
    BY <1>1
  <2>3. QED
    BY <1>2, <2>1, <2>2, ReachIsLeast
<1>4. D \subseteq A
  <2>1. n \in A
    <3>1. <<n>> \in Seq(g.node) /\ <<n>> # <<>> /\ Len(<<n>>) = 1 /\ <<n>>[1] = n
      <4>1. <<n>> \in Seq(g.node)
        BY SequenceOfOne
      <4>2. Len(<<n>>) = 1
        OBVIOUS
      <4>3. <<n>>[1] = n
        OBVIOUS
      <4>4. <<n>> # <<>>
        BY <4>2
      <4>5. QED
        BY <4>1, <4>2, <4>3, <4>4
    <3>2. \A i \in 1..(1 - 1) : <<<<n>>[i], <<n>>[i + 1]>> \in g.edge
      OBVIOUS
    <3>3. <<n>> \in Path(g)
      BY <3>1, <3>2, Zenon DEF Path
    <3>4. QED
      BY <3>1, <3>3 DEF AreConnectedIn
  <2>2. ASSUME NEW k \in A, NEW j \in next[k] PROVE j \in A
    <3>1. PICK p \in Path(g) : p[1] = n /\ p[Len(p)] = k
      BY DEF AreConnectedIn
    <3>2. /\ p \in Seq(g.node) /\ p # <<>>
          /\ \A i \in 1..(Len(p) - 1) : <<p[i], p[i + 1]>> \in g.edge
      BY DEF Path
    <3>3. j \in g.node /\ <<k, j>> \in g.edge
      BY <1>1
    <3> DEFINE q == Append(p, j)
    <3>4. /\ q \in Seq(g.node) /\ q # <<>> /\ Len(q) = Len(p) + 1 /\ Len(p) \in Nat /\ Len(p) > 0
          /\ \A i \in 1..Len(p) : q[i] = p[i]
          /\ q[Len(p) + 1] = j
      BY <3>2, <3>3
    <3> HIDE DEF q
    <3>5. ASSUME NEW i \in 1..(Len(q) - 1) PROVE <<q[i], q[i + 1]>> \in g.edge
      <4>1. CASE i = Len(p)
        BY <3>1, <3>3, <3>4, <4>1
      <4>2. CASE i # Len(p)
        <5>1. i \in 1..(Len(p) - 1) /\ i \in 1..Len(p) /\ i + 1 \in 1..Len(p)
          BY <3>4, <4>2
        <5>2. QED
          BY <3>2, <3>4, <5>1
      <4>3. QED
        BY <4>1, <4>2
    <3>6. q \in Path(g) /\ q[1] = n /\ q[Len(q)] = j
      BY <3>1, <3>4, <3>5 DEF Path
    <3>7. QED
      BY <3>3, <3>6 DEF AreConnectedIn
  <2>3. QED
    BY <1>3, <2>1, <2>2
<1>5. ASSUME NEW m \in A PROVE m \in D
  <2>0. m \in g.node /\ AreConnectedIn(n, m, g)
    BY <1>5
  <2>1. PICK p \in Path(g) : p[1] = n /\ p[Len(p)] = m
    BY <2>0, Zenon DEF AreConnectedIn
  <2>2. /\ p \in Seq(g.node) /\ p # <<>> /\ Len(p) \in Nat /\ Len(p) > 0
        /\ \A i \in 1..(Len(p) - 1) : <<p[i], p[i + 1]>> \in g.edge
    BY DEF Path
  <2> DEFINE T == {i \in 1..Len(p) : p[i] \notin D}
  <2>3. CASE T = {}
    BY <2>1, <2>2, <2>3
  <2>4. CASE T # {}
    <3>1. PICK x \in T : \A y \in T : x <= y
      <4>1. T \subseteq Nat
        OBVIOUS
      <4>2. QED
        BY <2>4, <4>1, LeastNumber
    <3>2. x # 1
      BY <1>3, <2>1
    <3>3. x - 1 \in 1..Len(p) /\ x - 1 \in 1..(Len(p) - 1) /\ ~(x <= x - 1) /\ (x - 1) + 1 = x
      BY <2>2, <3>1, <3>2
    <3>4. p[x - 1] \in D /\ <<p[x - 1], p[x]>> \in g.edge /\ p[x] \in g.node /\ p[x - 1] \in g.node
      BY <2>2, <3>1, <3>3
    <3>5. p[x] \in D
      BY <1>1, <1>3, <3>4
    <3>6. QED
      BY <3>1, <3>5
  <2>5. QED
    BY <2>3, <2>4
<1>6. QED
  BY <1>4, <1>5 DEF D

LEMMA UpwardAreAtTheStartOfAPath ==
  ASSUME NEW g \in ServedGraphs, NEW n \in g.node
  PROVE  Upward(g, n) = {m \in g.node : AreConnectedIn(m, n, g)}
<1> DEFINE next == [m \in g.node |-> Predecessors(g, m)]
           U == Upward(g, n)
           A == {m \in g.node : AreConnectedIn(m, n, g)}
<1>1. DOMAIN next = g.node /\ \A k \in g.node : next[k] = {m \in g.node : <<m, k>> \in g.edge}
  BY DEF Predecessors
<1>2. U = Reach(n, next)
  BY DEF Upward
<1> HIDE DEF next, U
<1>3. /\ n \in U /\ U \subseteq g.node /\ \A k \in U : next[k] \subseteq U
      /\ \A s \in SUBSET g.node : n \in s /\ (\A k \in s : next[k] \subseteq s) => U \subseteq s
  <2>1. \A k \in g.node : next[k] \subseteq g.node
    BY <1>1
  <2>2. DOMAIN next = g.node
    BY <1>1
  <2>3. QED
    BY <1>2, <2>1, <2>2, ReachIsLeast
<1>4. U \subseteq A
  <2>1. n \in A
    <3>1. <<n>> \in Seq(g.node) /\ <<n>> # <<>> /\ Len(<<n>>) = 1 /\ <<n>>[1] = n
      <4>1. <<n>> \in Seq(g.node)
        BY SequenceOfOne
      <4>2. Len(<<n>>) = 1
        OBVIOUS
      <4>3. <<n>>[1] = n
        OBVIOUS
      <4>4. <<n>> # <<>>
        BY <4>2
      <4>5. QED
        BY <4>1, <4>2, <4>3, <4>4
    <3>2. \A i \in 1..(1 - 1) : <<<<n>>[i], <<n>>[i + 1]>> \in g.edge
      OBVIOUS
    <3>3. <<n>> \in Path(g)
      BY <3>1, <3>2, Zenon DEF Path
    <3>4. QED
      BY <3>1, <3>3 DEF AreConnectedIn
  <2>2. ASSUME NEW k \in A, NEW j \in next[k] PROVE j \in A
    <3>1. PICK p \in Path(g) : p[1] = k /\ p[Len(p)] = n
      BY DEF AreConnectedIn
    <3>2. /\ p \in Seq(g.node) /\ p # <<>>
          /\ \A i \in 1..(Len(p) - 1) : <<p[i], p[i + 1]>> \in g.edge
      BY DEF Path
    <3>3. j \in g.node /\ <<j, k>> \in g.edge
      BY <1>1
    <3> DEFINE q == <<j>> \o p
    <3>4. /\ q \in Seq(g.node) /\ Len(q) = Len(p) + 1 /\ Len(p) \in Nat /\ Len(p) > 0
          /\ \A i \in 2..(Len(p) + 1) : q[i] = p[i - 1]
          /\ q[1] = j
      BY <3>2, <3>3, PrependOne
    <3> HIDE DEF q
    <3>5. ASSUME NEW i \in 1..(Len(q) - 1) PROVE <<q[i], q[i + 1]>> \in g.edge
      <4>0. i + 1 \in 2..(Len(p) + 1) /\ (i + 1) - 1 = i
        BY <3>4
      <4>1. CASE i = 1
        BY <3>1, <3>3, <3>4, <4>0, <4>1
      <4>2. CASE i # 1
        <5>1. i \in 2..(Len(p) + 1) /\ i - 1 \in 1..(Len(p) - 1) /\ (i - 1) + 1 = i
          BY <3>4, <4>2
        <5>2. q[i] = p[i - 1] /\ q[i + 1] = p[i]
          BY <3>4, <4>0, <5>1
        <5>3. <<p[i - 1], p[(i - 1) + 1]>> \in g.edge
          BY <3>2, <5>1
        <5>4. QED
          BY <5>1, <5>2, <5>3
      <4>3. QED
        BY <4>1, <4>2
    <3>6. q \in Path(g) /\ q[1] = j /\ q[Len(q)] = n
      <4>1. q # <<>>
        BY <3>4
      <4>2. Len(p) + 1 \in 2..(Len(p) + 1) /\ (Len(p) + 1) - 1 = Len(p)
        BY <3>4
      <4>3. QED
        BY <3>1, <3>4, <3>5, <4>1, <4>2 DEF Path
    <3>7. QED
      BY <3>3, <3>6 DEF AreConnectedIn
  <2>3. QED
    BY <1>3, <2>1, <2>2
<1>5. ASSUME NEW m \in A PROVE m \in U
  <2>0. m \in g.node /\ AreConnectedIn(m, n, g)
    BY <1>5
  <2>1. PICK p \in Path(g) : p[1] = m /\ p[Len(p)] = n
    BY <2>0, Zenon DEF AreConnectedIn
  <2>2. /\ p \in Seq(g.node) /\ p # <<>> /\ Len(p) \in Nat /\ Len(p) > 0
        /\ \A i \in 1..(Len(p) - 1) : <<p[i], p[i + 1]>> \in g.edge
    BY DEF Path
  <2> DEFINE T == {d \in 0..(Len(p) - 1) : p[Len(p) - d] \notin U}
  <2>3. CASE T = {}
    <3>1. Len(p) - 1 \in 0..(Len(p) - 1) /\ Len(p) - (Len(p) - 1) = 1
      BY <2>2
    <3>2. p[1] \in U
      BY <2>3, <3>1
    <3>3. QED
      BY <2>1, <3>2
  <2>4. CASE T # {}
    <3>1. PICK x \in T : \A y \in T : x <= y
      <4>1. T \subseteq Nat
        BY <2>2
      <4>2. QED
        BY <2>4, <4>1, LeastNumber
    <3>2. x # 0
      <4>1. p[Len(p) - 0] \in U
        BY <1>3, <2>1, <2>2
      <4>2. QED
        BY <4>1
    <3> DEFINE i == Len(p) - x
    <3>3. /\ x - 1 \in 0..(Len(p) - 1) /\ ~(x <= x - 1) /\ i \in 1..(Len(p) - 1)
          /\ Len(p) - (x - 1) = i + 1
      BY <2>2, <3>1, <3>2
    <3>4. x - 1 \notin T
      BY <3>1, <3>3
    <3>5. p[i + 1] \in U /\ p[i] \notin U
      BY <3>1, <3>3, <3>4
    <3> HIDE DEF i
    <3>6. <<p[i], p[i + 1]>> \in g.edge /\ p[i] \in g.node /\ p[i + 1] \in g.node
      BY <2>2, <3>3
    <3>7. p[i] \in U
      BY <1>1, <1>3, <3>5, <3>6
    <3>8. QED
      BY <3>5, <3>7
  <2>5. QED
    BY <2>3, <2>4
<1>6. QED
  BY <1>4, <1>5 DEF U

-----------------------------------------------------------------------------
(* The graph: what is drawn                                                *)

(* A set of numbers counted from below.                                    *)

LEMMA SlotsCount ==
  ASSUME NEW E, E \subseteq Nat, IsFiniteSet(E)
  PROVE  /\ Cardinality(E) \in Nat
         /\ \A i \in E : Slot(i, E) \in 1..Cardinality(E)
         /\ \A i, j \in E : Slot(i, E) = Slot(j, E) => i = j
         /\ {Slot(i, E) : i \in E} = 1..Cardinality(E)
<1> DEFINE Upto(i) == {j \in E : j <= i}
<1>1. Cardinality(E) \in Nat
  BY FS_CardinalityType
<1>2. ASSUME NEW i \in E
      PROVE  /\ IsFiniteSet(Upto(i)) /\ Cardinality(Upto(i)) \in Nat
             /\ Cardinality(Upto(i)) <= Cardinality(E) /\ Cardinality(Upto(i)) # 0
  <2>1. Upto(i) \in SUBSET E /\ i \in Upto(i)
    OBVIOUS
  <2>2. IsFiniteSet(Upto(i)) /\ Cardinality(Upto(i)) <= Cardinality(E)
    BY <2>1, FS_Subset
  <2>3. Cardinality(Upto(i)) \in Nat /\ Cardinality(Upto(i)) # 0
    BY <2>1, <2>2, FS_CardinalityType, FS_EmptySet
  <2>4. QED
    BY <2>2, <2>3
<1>3. ASSUME NEW i \in E, NEW j \in E, i < j
      PROVE  Cardinality(Upto(i)) # Cardinality(Upto(j))
  <2>0. i \in Nat /\ j \in Nat
    OBVIOUS
  <2>1. j \in Upto(j) /\ j \notin Upto(i) /\ \A k \in Upto(i) : k \in E /\ k \in Nat /\ k <= i
    BY <1>3, <2>0
  <2>4. \A k \in Upto(i) : k \in E /\ k <= j
    BY <1>3, <2>0, <2>1
  <2>5. Upto(i) \in SUBSET Upto(j)
    BY <2>4, Zenon
  <2>2. QED
    BY <1>2, <2>1, <2>5, FS_Subset
<1>4. \A i \in E : Slot(i, E) \in 1..Cardinality(E)
  BY <1>1, <1>2 DEF Slot
<1>5. \A i, j \in E : Slot(i, E) = Slot(j, E) => i = j
  <2> SUFFICES ASSUME NEW i \in E, NEW j \in E, Slot(i, E) = Slot(j, E) PROVE i = j
    OBVIOUS
  <2>1. ~(i < j) /\ ~(j < i)
    BY <1>3 DEF Slot
  <2>2. QED
    BY <2>1
<1>6. {Slot(i, E) : i \in E} = 1..Cardinality(E)
  <2> DEFINE f == [i \in E |-> Slot(i, E)]
  <2>1. f \in Injection(E, 1..Cardinality(E))
    BY <1>4, <1>5 DEF Injection, IsInjective
  <2>2. IsFiniteSet(1..Cardinality(E)) /\ Cardinality(1..Cardinality(E)) = Cardinality(E)
    BY <1>1, FS_Interval
  <2>3. f \in Surjection(E, 1..Cardinality(E))
    BY <2>1, <2>2, FS_Injection
  <2>4. \A k \in 1..Cardinality(E) : \E i \in E : Slot(i, E) = k
    BY <2>3 DEF Surjection
  <2>5. QED
    BY <1>4, <2>4
<1>7. QED
  BY <1>1, <1>4, <1>5, <1>6

LEMMA EdgesOfAContainer ==
  ASSUME NEW g \in ServedGraphs, NEW shown, NEW c
  PROVE  /\ ContainerEdges(g, shown, c) \subseteq Nat
         /\ IsFiniteSet(ContainerEdges(g, shown, c))
<1>1. g.edges \in Seq(GraphNodes \X GraphNodes)
  BY GraphViewConstants
<1>2. DOMAIN g.edges = 1..Len(g.edges) /\ Len(g.edges) \in Nat
  BY <1>1
<1>3. IsFiniteSet(1..Len(g.edges))
  BY <1>2, FS_Interval
<1>4. ContainerEdges(g, shown, c) \in SUBSET (1..Len(g.edges))
  BY <1>2 DEF ContainerEdges
<1>5. QED
  BY <1>2, <1>3, <1>4, FS_Subset

LEMMA ContentsAre ==
  ASSUME NEW g \in ServedGraphs, NEW shown \in SUBSET GraphNodes, NEW c, NEW d \in Contents(g, shown, c)
  PROVE  /\ c \in GroupNodes /\ d.group = c /\ d.id \in Children(g, shown) /\ d.id \in shown
         /\ d \in [id : GraphNodes, group : GraphNodes, slot : Nat] /\ d.slot > 0
<1>1. PICK i \in ContainerEdges(g, shown, c) :
        d = [id |-> g.edges[i][2], group |-> c, slot |-> Slot(i, ContainerEdges(g, shown, c))]
  BY DEF Contents
<1>2. c \in GroupNodes /\ c \in shown /\ g.edges[i][2] \in shown
  BY DEF ContainerEdges
<1>3. Slot(i, ContainerEdges(g, shown, c)) \in Nat /\ Slot(i, ContainerEdges(g, shown, c)) > 0
  BY EdgesOfAContainer, SlotsCount
<1>4. g.edges[i][2] \in Children(g, shown)
  BY <1>2, Zenon DEF Children
<1>5. QED
  BY <1>1, <1>2, <1>3, <1>4

LEMMA VisibleAreNodes ==
  ASSUME NEW g \in ServedGraphs, NEW f
  PROVE  VisibleNodes(g, f) \in SUBSET GraphNodes /\ VisibleNodes(g, f) \subseteq g.node
  BY GraphViewConstants DEF VisibleNodes

LEMMA DrawingTyped ==
  ASSUME NEW g \in ServedGraphs, NEW f
  PROVE  Drawing(g, f) \subseteq [id : GraphNodes, group : GraphNodes, slot : Nat]
<1> DEFINE shown == VisibleNodes(g, f)
<1>1. shown \in SUBSET GraphNodes
  BY VisibleAreNodes
<1>2. \A c : Contents(g, shown, c) \subseteq [id : GraphNodes, group : GraphNodes, slot : Nat]
  BY <1>1, ContentsAre
<1>3. {[id |-> n, group |-> n, slot |-> 0] : n \in shown \ Children(g, shown)}
        \subseteq [id : GraphNodes, group : GraphNodes, slot : Nat]
  BY <1>1
<1>4. QED
  BY <1>2, <1>3 DEF Drawing

(* A node is drawn once because it has a place of its own or a slot, and   *)
(* no two groups hold it.                                                  *)
LEMMA DrawingHasEachOnce ==
  ASSUME OneGroupEach, NEW g \in ServedGraphs, NEW f, NEW n
  PROVE  Cardinality({d \in Drawing(g, f) : d.id = n})
           = IF n \in VisibleNodes(g, f) THEN 1 ELSE 0
<1> DEFINE shown == VisibleNodes(g, f)
           own == {[id |-> m, group |-> m, slot |-> 0] : m \in shown \ Children(g, shown)}
           places == {d \in Drawing(g, f) : d.id = n}
<1>1. shown \in SUBSET GraphNodes
  BY VisibleAreNodes
<1>2. Drawing(g, f) = own \cup UNION {Contents(g, shown, c) : c \in GroupNodes}
  BY DEF Drawing
<1>3. \A c : \A d \in Contents(g, shown, c) : d.id \in Children(g, shown) /\ d.id \in shown
  BY <1>1, ContentsAre
<1>4. CASE n \notin shown
  <2>1. places = {}
    BY <1>2, <1>3, <1>4
  <2>2. QED
    BY <1>4, <2>1, FS_EmptySet
<1>5. CASE n \in shown /\ n \notin Children(g, shown)
  <2>1. places = {[id |-> n, group |-> n, slot |-> 0]}
    <3>1. \A d \in own : d.id = n => d = [id |-> n, group |-> n, slot |-> 0]
      OBVIOUS
    <3>2. [id |-> n, group |-> n, slot |-> 0] \in places
      BY <1>2, <1>5
    <3>3. \A d \in places : d \in own
      BY <1>2, <1>3, <1>5
    <3>4. QED
      BY <3>1, <3>2, <3>3
  <2>2. QED
    BY <1>5, <2>1, FS_Singleton
<1>6. CASE n \in shown /\ n \in Children(g, shown)
  <2>1. PICK c \in GroupNodes : \E i \in ContainerEdges(g, shown, c) : g.edges[i][2] = n
    BY <1>6, Zenon DEF Children
  <2>2. PICK i \in ContainerEdges(g, shown, c) : g.edges[i][2] = n
    BY <2>1
  <2> DEFINE place == [id |-> n, group |-> c, slot |-> Slot(i, ContainerEdges(g, shown, c))]
  <2>3. place \in places
    <3>1. place \in Contents(g, shown, c)
      BY <2>2 DEF Contents
    <3>2. QED
      BY <1>2, <2>1, <3>1
  <2>4. ASSUME NEW d \in places PROVE d = place
    <3>1. d \notin own
      BY <1>6
    <3>2. PICK b \in GroupNodes : d \in Contents(g, shown, b)
      BY <1>2, <3>1
    <3>3. PICK j \in ContainerEdges(g, shown, b) :
            d = [id |-> g.edges[j][2], group |-> b, slot |-> Slot(j, ContainerEdges(g, shown, b))]
      BY <3>2 DEF Contents
    <3>4. /\ i \in DOMAIN g.edges /\ g.edges[i][1] = c
          /\ j \in DOMAIN g.edges /\ g.edges[j][1] = b /\ g.edges[j][2] = n
      BY <3>3 DEF ContainerEdges
    <3>5. i = j
      BY <2>2, <3>4 DEF OneGroupEach
    <3>6. QED
      BY <3>3, <3>4, <3>5
  <2>5. places = {place}
    BY <2>3, <2>4
  <2>6. QED
    BY <1>6, <2>5, FS_Singleton
<1>7. QED
  BY <1>4, <1>5, <1>6

(* The children of a group take the first slots of its container.          *)
LEMMA ContainerSlots ==
  ASSUME NEW g \in ServedGraphs, NEW f, NEW c \in GroupNodes
  PROVE  LET inside == {d \in Drawing(g, f) : d.group = c /\ d.slot > 0}
         IN /\ Cardinality(inside) \in Nat
            /\ {d.slot : d \in inside} = 1..Cardinality(inside)
<1> DEFINE shown == VisibleNodes(g, f)
           inside == {d \in Drawing(g, f) : d.group = c /\ d.slot > 0}
           E == ContainerEdges(g, shown, c)
           place(i) == [id |-> g.edges[i][2], group |-> c, slot |-> Slot(i, E)]
<1>1. shown \in SUBSET GraphNodes
  BY VisibleAreNodes
<1>2. inside = Contents(g, shown, c)
  <2>1. \A d \in Contents(g, shown, c) : d.group = c /\ d.slot > 0
    BY <1>1, ContentsAre
  <2>2. \A b : \A d \in Contents(g, shown, b) : d.group = b
    BY <1>1, ContentsAre
  <2>3. \A d \in {[id |-> n, group |-> n, slot |-> 0] : n \in shown \ Children(g, shown)} : ~(d.slot > 0)
    OBVIOUS
  <2>4. QED
    BY <2>1, <2>2, <2>3 DEF Drawing
<1>3. E \subseteq Nat /\ IsFiniteSet(E)
  BY EdgesOfAContainer
<1>4. /\ Cardinality(E) \in Nat
      /\ \A i, j \in E : Slot(i, E) = Slot(j, E) => i = j
      /\ {Slot(i, E) : i \in E} = 1..Cardinality(E)
  BY <1>3, SlotsCount
<1>5. inside = {place(i) : i \in E}
  BY <1>2 DEF Contents
<1> HIDE DEF E, inside
<1>6. Cardinality(inside) = Cardinality(E)
  <2> DEFINE h == [i \in E |-> place(i)]
  <2>1. h \in Bijection(E, inside)
    <3>1. h \in [E -> inside] /\ \A d \in inside : \E i \in E : h[i] = d
      BY <1>5
    <3>2. \A i, j \in E : h[i] = h[j] => i = j
      BY <1>4
    <3>3. QED
      BY <3>1, <3>2 DEF Bijection, Injection, Surjection, IsInjective
  <2>2. QED
    BY <1>3, <2>1, FS_Bijection DEF ExistsBijection
<1>7. {d.slot : d \in inside} = {Slot(i, E) : i \in E}
  <2>1. \A i \in E : place(i).slot = Slot(i, E)
    OBVIOUS
  <2> HIDE DEF place
  <2>2. QED
    BY <1>5, <2>1
<1>8. QED
  BY <1>4, <1>6, <1>7 DEF inside

-----------------------------------------------------------------------------
(* The graph: where things lie                                             *)

LEMMA LesserOfTwo ==
  ASSUME NEW a \in Int, NEW b \in Int
  PROVE  Min({a, b}) \in {a, b} /\ Min({a, b}) <= a /\ Min({a, b}) <= b
<1>1. \E x \in {a, b} : \A y \in {a, b} : x <= y
  OBVIOUS
<1>2. QED
  BY <1>1 DEF Min

LEMMA GreaterOfTwo ==
  ASSUME NEW a \in Int, NEW b \in Int
  PROVE  Max({a, b}) \in {a, b} /\ Max({a, b}) >= a /\ Max({a, b}) >= b
<1>1. \E x \in {a, b} : \A y \in {a, b} : x >= y
  OBVIOUS
<1>2. QED
  BY <1>1 DEF Max

LEMMA LengthsAre ==
  NodeW = 160 /\ NodeH = 40 /\ ChildW = 168 /\ ChildH = 34 /\ CellW = 184 /\ CellH = 50
    /\ HeaderH = 32
  BY DEF NodeW, NodeH, ChildW, ChildH, CellW, CellH, HeaderH

(* A container has room for its cells, and margins.                        *)
LEMMA ContainerHasRoom ==
  ASSUME NEW count \in Nat
  PROVE  /\ Columns(count) \in 0..3 /\ Rows(count) \in Nat
         /\ ContainerSize(count).w \in Int /\ ContainerSize(count).h \in Int
         /\ ContainerSize(count).w >= Columns(count) * 184 + 38
         /\ ContainerSize(count).h >= 32 + Rows(count) * 50 + 34
<1>1. Columns(count) \in 0..3
  BY LesserOfTwo DEF Columns
<1>2. Rows(count) \in Nat
  BY DEF Rows
<1> DEFINE w == Columns(count) * CellW + 38
           h == HeaderH + Rows(count) * CellH + 34
<1>3. w \in Int /\ w = Columns(count) * 184 + 38 /\ h \in Int /\ h = 32 + Rows(count) * 50 + 34
  BY <1>1, <1>2, LengthsAre
<1>4. ContainerSize(count).w = Max({160, w}) /\ ContainerSize(count).h = Max({40, h})
  BY LengthsAre DEF ContainerSize
<1> HIDE DEF w, h
<1>5. Max({160, w}) \in {160, w} /\ Max({160, w}) >= w
  <2>1. 160 \in Int /\ w \in Int
    BY <1>3
  <2>2. QED
    BY <2>1, GreaterOfTwo, Zenon
<1>6. Max({40, h}) \in {40, h} /\ Max({40, h}) >= h
  <2>1. 40 \in Int /\ h \in Int
    BY <1>3
  <2>2. QED
    BY <2>1, GreaterOfTwo, Zenon
<1>7. QED
  BY <1>1, <1>2, <1>3, <1>4, <1>5, <1>6

LEMMA ByThree ==
  ASSUME NEW i \in Nat
  PROVE  i % 3 \in 0..2 /\ i \div 3 \in Nat /\ i = 3 * (i \div 3) + (i % 3)
<1>1. i % 3 \in 0..2
  OBVIOUS
<1>2. i = 3 * (i \div 3) + (i % 3)
  OBVIOUS
<1>3. i \div 3 \in Nat
  OBVIOUS
<1>4. QED
  BY <1>1, <1>2, <1>3

(* Cells by row and column.                                                *)
LEMMA CellOf ==
  ASSUME NEW count \in Nat, NEW i \in 0..(count - 1)
  PROVE  /\ i % 3 \in 0..(Columns(count) - 1) /\ i \div 3 \in 0..(Rows(count) - 1)
         /\ i = 3 * (i \div 3) + (i % 3)
<1>1. i \in Nat /\ i < count
  OBVIOUS
<1>2. i % 3 \in 0..2 /\ i \div 3 \in Nat /\ i = 3 * (i \div 3) + (i % 3)
  BY <1>1, ByThree, Zenon
<1>3. Rows(count) \in Nat /\ 3 * Rows(count) >= count
  BY DEF Rows
<1>4. Columns(count) \in {count, 3} /\ (count >= 3 => Columns(count) = 3)
  BY LesserOfTwo DEF Columns
<1>5. i \div 3 < Rows(count)
  BY <1>1, <1>2, <1>3
<1>6. i % 3 < Columns(count)
  BY <1>1, <1>2, <1>4
<1>7. QED
  BY <1>2, <1>3, <1>4, <1>5, <1>6

LeftOf(count) == (ContainerSize(count).w - Columns(count) * 184) \div 2
TopOf(count) == 32 + ((ContainerSize(count).h - 32 - Rows(count) * 50) \div 2)
Cell(count, column, row) ==
  Box(LeftOf(count) + column * 184 + 8, TopOf(count) + row * 50 + 8, 168, 34)

LEMMA ChildBoxIs ==
  ASSUME NEW count \in Nat, NEW i \in 0..(count - 1)
  PROVE  /\ LeftOf(count) \in Int /\ LeftOf(count) >= 19
         /\ 2 * LeftOf(count) <= ContainerSize(count).w - Columns(count) * 184
         /\ TopOf(count) \in Int /\ TopOf(count) >= 49
         /\ 2 * TopOf(count) <= ContainerSize(count).h + 32 - Rows(count) * 50
         /\ ChildBox(i, count) = Cell(count, i % 3, i \div 3)
<1> DEFINE W == ContainerSize(count).w
           H == ContainerSize(count).h
           wide == Columns(count) * 184
           high == Rows(count) * 50
           left == (W - wide) \div 2
           half == (H - 32 - high) \div 2
           top == 32 + half
<1>1. W \in Int /\ H \in Int /\ W >= wide + 38 /\ H >= 32 + high + 34
  BY ContainerHasRoom
<1>2. wide \in Int /\ high \in Int
  <2>1. Columns(count) \in Int /\ Rows(count) \in Int
    BY ContainerHasRoom
  <2>2. QED
    BY <2>1
<1>3. ChildBox(i, count) = Cell(count, i % 3, i \div 3)
  BY LengthsAre DEF ChildBox, Cell, LeftOf, TopOf
<1> HIDE DEF W, H, wide, high
<1>4. left \in Int /\ 2 * left <= W - wide /\ left >= 19
  BY <1>1, <1>2
<1>5. half \in Int /\ 2 * half <= H - 32 - high /\ half >= 17
  BY <1>1, <1>2
<1> HIDE DEF half
<1>6. top \in Int /\ 2 * top <= H + 32 - high /\ top >= 49
  BY <1>1, <1>2, <1>5
<1>7. QED
  BY <1>3, <1>4, <1>6 DEF W, H, wide, high, half, LeftOf, TopOf

LEMMA ContainerHoldsAny ==
  ASSUME NEW count \in Nat PROVE ContainerHolds(count)
<1> DEFINE W == ContainerSize(count).w
           H == ContainerSize(count).h
           C == Columns(count)
           R == Rows(count)
           left == LeftOf(count)
           top == TopOf(count)
           children == [i \in 1..count |-> ChildBox(i - 1, count)]
<1>1. /\ W \in Int /\ H \in Int /\ C \in 0..3 /\ R \in Nat
  BY ContainerHasRoom
<1>2. ASSUME NEW i \in 0..(count - 1)
      PROVE  /\ left \in Int /\ top \in Int /\ 2 * left <= W - C * 184 /\ left >= 19
             /\ 2 * top <= H + 32 - R * 50 /\ top >= 49
             /\ ChildBox(i, count) = Cell(count, i % 3, i \div 3)
  BY ChildBoxIs
<1>3. \A i \in 0..(count - 1) :
        i % 3 \in 0..(C - 1) /\ i \div 3 \in 0..(R - 1) /\ i = 3 * (i \div 3) + (i % 3)
  BY CellOf
<1> HIDE DEF W, H, C, R, left, top
<1>4. ASSUME NEW i \in 0..(count - 1) PROVE Within(ChildBox(i, count), W, H)
  <2> DEFINE p == i % 3
             q == i \div 3
  <2>1. p \in 0..(C - 1) /\ q \in 0..(R - 1)
    BY <1>3
  <2>2. /\ left \in Int /\ top \in Int /\ 2 * left <= W - C * 184 /\ left >= 19
        /\ 2 * top <= H + 32 - R * 50 /\ top >= 49
    BY <1>2
  <2>3. ChildBox(i, count) = Box(left + p * 184 + 8, top + q * 50 + 8, 168, 34)
    BY <1>2 DEF Cell, left, top
  <2> HIDE DEF p, q
  <2>4. /\ left + p * 184 + 8 >= 0 /\ left + p * 184 + 8 + 168 <= W
        /\ top + q * 50 + 8 >= 32 /\ top + q * 50 + 8 + 34 <= H
    BY <1>1, <2>1, <2>2
  <2>5. QED
    BY <2>3, <2>4, LengthsAre DEF Within, Box
<1>5. ASSUME NEW i \in 0..(count - 1), NEW j \in 0..(count - 1), i # j
      PROVE  ~Overlap(ChildBox(i, count), ChildBox(j, count))
  <2> DEFINE p == i % 3
             q == i \div 3
             r == j % 3
             s == j \div 3
  <2>1. p \in 0..(C - 1) /\ q \in 0..(R - 1) /\ r \in 0..(C - 1) /\ s \in 0..(R - 1)
    BY <1>3
  <2>2. left \in Int /\ top \in Int
    BY <1>2
  <2>3. /\ ChildBox(i, count) = Box(left + p * 184 + 8, top + q * 50 + 8, 168, 34)
        /\ ChildBox(j, count) = Box(left + r * 184 + 8, top + s * 50 + 8, 168, 34)
    BY <1>2 DEF Cell, left, top
  <2>4. i = 3 * q + p /\ j = 3 * s + r
    BY <1>3
  <2> HIDE DEF p, q, r, s
  <2>5. p \in Int /\ q \in Int /\ r \in Int /\ s \in Int /\ (p # r \/ q # s)
    BY <1>1, <1>5, <2>1, <2>4
  <2>6. \/ left + p * 184 + 8 >= left + r * 184 + 8 + 168
        \/ left + r * 184 + 8 >= left + p * 184 + 8 + 168
        \/ top + q * 50 + 8 >= top + s * 50 + 8 + 34
        \/ top + s * 50 + 8 >= top + q * 50 + 8 + 34
    BY <2>2, <2>5
  <2>7. QED
    BY <2>2, <2>3, <2>5, <2>6 DEF Overlap, Box
<1>6. Len(children) = count /\ \A i \in 1..count : children[i] = ChildBox(i - 1, count) /\ i - 1 \in 0..(count - 1)
  OBVIOUS
<1> HIDE DEF children
<1>7. NoneOverlap(children)
  <2> SUFFICES ASSUME NEW i \in 1..count, NEW j \in 1..count, i # j
               PROVE  ~Overlap(children[i], children[j])
    BY <1>6 DEF NoneOverlap
  <2>1. i - 1 # j - 1
    OBVIOUS
  <2>2. QED
    BY <1>5, <1>6, <2>1
<1>8. QED
  BY <1>4, <1>6, <1>7 DEF ContainerHolds, children, W, H

(* Components: a search without directions finds the same from every node  *)
(* it reaches.                                                             *)
Neighbours(nodes, edges) ==
  [m \in nodes |-> {k \in nodes : \E i \in DOMAIN edges : edges[i] \in {<<m, k>>, <<k, m>>}}]

LEMMA ComponentIsReach ==
  ASSUME NEW nodes, NEW edges, NEW n \in nodes
  PROVE  LET next == Neighbours(nodes, edges)
             c == ComponentOf(n, nodes, edges)
         IN /\ n \in c /\ c \subseteq nodes
            /\ \A k \in c : next[k] \subseteq c
            /\ \A s \in SUBSET nodes :
                 n \in s /\ (\A k \in s : next[k] \subseteq s) => c \subseteq s
<1> DEFINE next == Neighbours(nodes, edges)
<1>1. DOMAIN next = nodes /\ \A k \in nodes : next[k] \subseteq nodes
  BY DEF Neighbours
<1>2. ComponentOf(n, nodes, edges) = Search({n}, {n}, next)
  BY DEF ComponentOf, Neighbours
<1> HIDE DEF next
<1>3. ComponentOf(n, nodes, edges) = Reach(n, next)
  BY <1>1, <1>2, SearchFromOne
<1>4. QED
  BY <1>1, <1>3, ReachIsLeast DEF next

LEMMA NeighboursAreMutual ==
  ASSUME NEW nodes, NEW edges, NEW m \in nodes, NEW k \in nodes
  PROVE  k \in Neighbours(nodes, edges)[m] <=> m \in Neighbours(nodes, edges)[k]
  BY DEF Neighbours

LEMMA ComponentOfAMember ==
  ASSUME NEW nodes, NEW edges, NEW n \in nodes, NEW k \in ComponentOf(n, nodes, edges)
  PROVE  ComponentOf(k, nodes, edges) = ComponentOf(n, nodes, edges)
<1> DEFINE next == Neighbours(nodes, edges)
           N == ComponentOf(n, nodes, edges)
           K == ComponentOf(k, nodes, edges)
<1>1. /\ n \in N /\ N \subseteq nodes /\ \A m \in N : next[m] \subseteq N
      /\ \A s \in SUBSET nodes : n \in s /\ (\A m \in s : next[m] \subseteq s) => N \subseteq s
  BY ComponentIsReach
<1>2. k \in nodes
  BY <1>1
<1>3. /\ k \in K /\ K \subseteq nodes /\ \A m \in K : next[m] \subseteq K
      /\ \A s \in SUBSET nodes : k \in s /\ (\A m \in s : next[m] \subseteq s) => K \subseteq s
  BY <1>2, ComponentIsReach
<1>4. \A m, j \in nodes : j \in next[m] <=> m \in next[j]
  BY NeighboursAreMutual
<1>5. k \in N
  OBVIOUS
<1> HIDE DEF next, N, K
<1>6. K \subseteq N
  BY <1>1, <1>3, <1>5
<1>7. n \in K
  <2>1. SUFFICES ASSUME n \notin K PROVE FALSE
    OBVIOUS
  <2>2. ASSUME NEW m \in N \ K PROVE next[m] \subseteq N \ K
    <3>1. \A j \in next[m] : j \in N /\ j \in nodes /\ m \in nodes
      BY <1>1
    <3>2. \A j \in next[m] : j \notin K
      BY <1>3, <1>4, <3>1
    <3>3. QED
      BY <3>1, <3>2
  <2>3. N \subseteq N \ K
    BY <1>1, <2>1, <2>2
  <2>4. QED
    BY <1>3, <1>5, <2>3
<1>8. N \subseteq K
  BY <1>1, <1>3, <1>7
<1>9. QED
  BY <1>6, <1>8 DEF N, K

LEMMA LeastHeight ==
  ASSUME NEW S, S \subseteq {0, 40}, S # {}
  PROVE  Min(S) \in S /\ \A x \in S : Min(S) <= x
<1>1. \E x \in S : \A y \in S : x <= y
  <2>1. CASE 0 \in S
    BY <2>1
  <2>2. CASE 0 \notin S
    <3>1. S = {40}
      BY <2>2
    <3>2. QED
      BY <3>1
  <2>3. QED
    BY <2>1, <2>2
<1>2. QED
  BY <1>1 DEF Min

LEMMA BuiltinsAreLifted ==
  ASSUME NEW c, NEW height \in [c -> {0, NodeH}],
         NEW b \in c \cap Builtin, NEW n \in c \ Builtin
  PROVE  LiftBuiltins(height)[b] + NodeH < LiftBuiltins(height)[n]
<1> DEFINE builtin == DOMAIN height \cap Builtin
           others == DOMAIN height \ Builtin
           lowB == Min({height[k] : k \in builtin})
           lowO == Min({height[k] : k \in others})
           target == Min({lowB, lowO - 100})
<1>1. NodeH = 40 /\ DOMAIN height = c
  BY LengthsAre
<1>2. /\ {height[k] : k \in builtin} # {} /\ {height[k] : k \in builtin} \subseteq {0, 40}
      /\ {height[k] : k \in others} # {} /\ {height[k] : k \in others} \subseteq {0, 40}
      /\ height[n] \in {height[k] : k \in others}
  BY <1>1
<1>3. lowB \in {0, 40} /\ lowO \in {0, 40} /\ lowO <= height[n]
  BY <1>2, LeastHeight
<1>4. others # {}
  BY <1>1
<1>5. LiftBuiltins(height) = [k \in DOMAIN height |-> IF k \in builtin THEN target ELSE height[k]]
  BY <1>4 DEF LiftBuiltins
<1>6. LiftBuiltins(height)[b] = target /\ LiftBuiltins(height)[n] = height[n]
  BY <1>1, <1>5
<1> HIDE DEF lowB, lowO
<1>7. lowB \in Int /\ lowO - 100 \in Int
  BY <1>3
<1>8. target \in {lowB, lowO - 100} /\ target <= lowO - 100
  BY <1>7, LesserOfTwo
<1> HIDE DEF target
<1>9. height[n] \in {0, 40}
  BY <1>1
<1>10. QED
  BY <1>1, <1>3, <1>6, <1>7, <1>8, <1>9

LEMMA ComponentsAreApart ==
  ASSUME NEW g \in ServedGraphs PROVE ComponentsApart(g)
<1>1. g.edge = {g.edges[i] : i \in DOMAIN g.edges}
  BY GraphViewConstants DEF ToSet
<1>2. ASSUME NEW n \in g.node, NEW m \in g.node
      PROVE  LET c == ComponentOf(n, g.node, g.edges)
                 d == ComponentOf(m, g.node, g.edges)
             IN c = d \/ c \cap d = {}
  BY ComponentOfAMember
<1>3. ASSUME NEW n \in g.node, NEW e \in g.edge \cap (g.node \X g.node)
      PROVE  e[1] \in ComponentOf(n, g.node, g.edges) <=> e[2] \in ComponentOf(n, g.node, g.edges)
  <2> DEFINE next == Neighbours(g.node, g.edges)
  <2>1. PICK i \in DOMAIN g.edges : g.edges[i] = e
    BY <1>1
  <2>2. e = <<e[1], e[2]>> /\ e[1] \in g.node /\ e[2] \in g.node
    BY <1>3
  <2>3. e[2] \in next[e[1]] /\ e[1] \in next[e[2]]
    BY <2>1, <2>2 DEF Neighbours
  <2>4. \A k \in ComponentOf(n, g.node, g.edges) : next[k] \subseteq ComponentOf(n, g.node, g.edges)
    BY ComponentIsReach
  <2>5. QED
    BY <2>3, <2>4
<1>4. ASSUME NEW c \in Components(g.node, g.edges)
      PROVE  /\ \A d \in Components(g.node, g.edges) : c = d \/ c \cap d = {}
             /\ \A e \in g.edge \cap (g.node \X g.node) : e[1] \in c <=> e[2] \in c
  <2>1. PICK n \in g.node : c = ComponentOf(n, g.node, g.edges)
    BY <1>4 DEF Components
  <2>2. \A d \in Components(g.node, g.edges) :
          \E m \in g.node : d = ComponentOf(m, g.node, g.edges)
    BY DEF Components
  <2>3. QED
    BY <1>2, <1>3, <2>1, <2>2
<1>5. \A c : \A height \in [c -> {0, NodeH}] : \A b \in c \cap Builtin, n \in c \ Builtin :
        LiftBuiltins(height)[b] + NodeH < LiftBuiltins(height)[n]
  BY BuiltinsAreLifted
<1>6. QED
  BY <1>4, <1>5, Zenon DEF ComponentsApart

-----------------------------------------------------------------------------
(* The graph: its theorems                                                 *)

Filters == [types : SUBSET HidableTypes, groupsOnly : BOOLEAN, names : SUBSET HidableNames]

LEMMA FiltersKept ==
  /\ NoFilter \in Filters
  /\ \A f \in Filters :
       /\ \A t \in HidableTypes : [f EXCEPT !.types = Toggled(@, t)] \in Filters
       /\ [f EXCEPT !.groupsOnly = ~@] \in Filters
       /\ \A n \in HidableNames : [f EXCEPT !.names = Toggled(@, n)] \in Filters
<1>1. TRUE \in BOOLEAN /\ FALSE \in BOOLEAN
  OBVIOUS
<1>2. NoFilter \in Filters
  BY <1>1 DEF NoFilter, Filters
<1>3. ASSUME NEW f \in Filters, NEW t \in HidableTypes
      PROVE  [f EXCEPT !.types = Toggled(@, t)] \in Filters
  <2>1. Toggled(f.types, t) \in SUBSET HidableTypes
    BY <1>3 DEF Filters, Toggled
  <2>2. QED
    BY <1>3, <2>1, Zenon DEF Filters
<1>4. ASSUME NEW f \in Filters, NEW n \in HidableNames
      PROVE  [f EXCEPT !.names = Toggled(@, n)] \in Filters
  <2>1. Toggled(f.names, n) \in SUBSET HidableNames
    BY <1>4 DEF Filters, Toggled
  <2>2. QED
    BY <1>4, <2>1, Zenon DEF Filters
<1>5. ASSUME NEW f \in Filters PROVE [f EXCEPT !.groupsOnly = ~@] \in Filters
  <2>1. (~f.groupsOnly) \in BOOLEAN
    BY Zenon
  <2>2. QED
    BY <1>5, <2>1, Zenon DEF Filters
<1>6. QED
  BY <1>2, <1>3, <1>4, <1>5

Places == [id : GraphNodes, group : GraphNodes, slot : Nat]

(* A drawing on the screen is one of a served graph, with some filter, and *)
(* of the present graph with the present filter while there is one.        *)
DrawnFromAGraph ==
  drawn = {} \/ \E g \in ServedGraphs, f \in Filters : drawn = Drawing(g, f)

DrawnFromThePresent == mounted /\ gData # Unset => drawn = Drawing(gData, filter)

GraphInv == GraphTypeOK /\ DrawnFromAGraph /\ DrawnFromThePresent

MountedOK == mounted \in BOOLEAN
StoreOK == /\ gData \in ServedGraphs \cup {Unset} /\ filter \in Filters
ChoiceOK == /\ clicked \in GraphNodes \cup {Unset} /\ selected \in GraphNodes \cup {Unset}
            /\ panel \in {"object", "user", "group", Unset} /\ members \subseteq GraphNodes

LEMMA GraphParts ==
  /\ GraphTypeOK <=> MountedOK /\ StoreOK /\ ChoiceOK /\ drawn \subseteq Places
  /\ DrawnFromAGraph => drawn \subseteq Places
<1>1. DrawnFromAGraph => drawn \subseteq Places
  BY DrawingTyped DEF DrawnFromAGraph, Places
<1>2. QED
  BY <1>1, Zenon DEF GraphTypeOK, MountedOK, StoreOK, ChoiceOK, Places, Filters

LEMMA MatchIs ==
  ASSUME NEW g \in ServedGraphs \cup {Unset}, NEW sel, NEW otherwise \in GraphNodes \cup {Unset}
  PROVE  Match(g, sel, otherwise) \in GraphNodes \cup {Unset}
  BY GraphViewConstants DEF Match

LEMMA NeighboursAreNodes ==
  ASSUME NEW g \in ServedGraphs, NEW n PROVE Successors(g, n) \subseteq GraphNodes
  BY GraphViewConstants DEF Successors

LEMMA GraphInitInv == GraphInit => GraphInv
<1> SUFFICES ASSUME GraphInit PROVE GraphInv
  OBVIOUS
<1>1. MountedOK /\ ~mounted
  BY Zenon DEF GraphInit, MountedOK
<1>2. StoreOK
  BY FiltersKept DEF GraphInit, StoreOK
<1>3. ChoiceOK
  BY DEF GraphInit, ChoiceOK
<1>4. DrawnFromAGraph /\ DrawnFromThePresent
  BY <1>1 DEF GraphInit, DrawnFromAGraph, DrawnFromThePresent
<1>5. QED
  BY <1>1, <1>2, <1>3, <1>4, GraphParts DEF GraphInv

LEMMA MountedNext == MountedOK /\ [GraphNext]_graphVars => MountedOK'
<1> SUFFICES ASSUME MountedOK, [GraphNext]_graphVars PROVE MountedOK'
  OBVIOUS
<1>1. mounted' = TRUE \/ mounted' = FALSE \/ mounted' = mounted
  BY Zenon DEF GraphNext, EnterGraph, LeaveGraph, GraphChanges, ClickNode, ClickPane, Select,
       CloseDetails, ToggleType, SetGroupsOnly, ToggleNodeVisibility, SetFilter, graphVars
<1>2. QED
  BY <1>1, Zenon DEF MountedOK

LEMMA SetFilterKeeps ==
  ASSUME GraphInv, NEW f \in Filters, SetFilter(f)
  PROVE  StoreOK' /\ ChoiceOK' /\ DrawnFromAGraph' /\ DrawnFromThePresent'
<1>1. StoreOK /\ ChoiceOK /\ DrawnFromAGraph
  BY GraphParts DEF GraphInv
<1>2. /\ filter' = f /\ UNCHANGED <<mounted, gData, clicked, selected, panel, members>>
      /\ drawn' = IF gData # Unset /\ mounted THEN Drawing(gData, f) ELSE drawn
  BY DEF SetFilter, LayOut
<1>3. StoreOK' /\ ChoiceOK'
  BY <1>1, <1>2 DEF StoreOK, ChoiceOK
<1>4. DrawnFromThePresent'
  BY <1>2 DEF DrawnFromThePresent
<1>5. DrawnFromAGraph'
  <2>1. CASE gData # Unset /\ mounted
    BY <1>1, <1>2, <2>1 DEF DrawnFromAGraph, StoreOK
  <2>2. CASE ~(gData # Unset /\ mounted)
    BY <1>1, <1>2, <2>2 DEF DrawnFromAGraph
  <2>3. QED
    BY <2>1, <2>2
<1>6. QED
  BY <1>3, <1>4, <1>5

LEMMA GraphNextInv == GraphInv /\ [GraphNext]_graphVars => GraphInv'
<1> SUFFICES ASSUME GraphInv, [GraphNext]_graphVars PROVE GraphInv'
  OBVIOUS
<1>0. MountedOK /\ StoreOK /\ ChoiceOK /\ DrawnFromAGraph /\ DrawnFromThePresent
  BY GraphParts DEF GraphInv
<1> SUFFICES StoreOK' /\ ChoiceOK' /\ DrawnFromAGraph' /\ DrawnFromThePresent'
  <2>1. MountedOK'
    BY <1>0, MountedNext
  <2>2. /\ GraphTypeOK' <=> MountedOK' /\ StoreOK' /\ ChoiceOK' /\ (drawn \subseteq Places)'
        /\ DrawnFromAGraph' => (drawn \subseteq Places)'
    BY GraphParts, PTL
  <2>3. QED
    BY <2>1, <2>2 DEF GraphInv
<1>1. CASE EnterGraph
  <2>1. StoreOK'
    BY <1>0, <1>1 DEF EnterGraph, StoreOK
  <2>2. ChoiceOK'
    BY <1>0, <1>1, MatchIs DEF EnterGraph, ChoiceOK, StoreOK
  <2>3. DrawnFromAGraph' /\ DrawnFromThePresent'
    BY <1>0, <1>1 DEF EnterGraph, DrawnFromAGraph, DrawnFromThePresent, StoreOK
  <2>4. QED
    BY <2>1, <2>2, <2>3
<1>2. CASE LeaveGraph
  BY <1>0, <1>2 DEF LeaveGraph, StoreOK, ChoiceOK, DrawnFromAGraph, DrawnFromThePresent
<1>3. CASE GraphChanges
  <2>1. PICK g \in ServedGraphs \cup {Unset} :
          /\ gData' = g /\ LayOut(g, filter)
          /\ clicked' = IF mounted THEN Match(g, selected, clicked) ELSE clicked
          /\ UNCHANGED <<mounted, filter, selected, panel, members>>
    BY <1>3 DEF GraphChanges
  <2>2. StoreOK'
    BY <1>0, <2>1 DEF StoreOK
  <2>3. ChoiceOK'
    BY <1>0, <2>1, MatchIs DEF ChoiceOK
  <2>4. DrawnFromAGraph' /\ DrawnFromThePresent'
    BY <1>0, <2>1 DEF LayOut, DrawnFromAGraph, DrawnFromThePresent, StoreOK
  <2>5. QED
    BY <2>2, <2>3, <2>4
<1>4. CASE ClickNode
  <2>1. gData \in ServedGraphs /\ UNCHANGED <<mounted, gData, drawn, filter>>
    BY <1>0, <1>4 DEF ClickNode, StoreOK
  <2>2. PICK d \in drawn :
          /\ d.id \in gData.node
          /\ clicked' = d.id /\ selected' = d.id /\ panel' = PanelFor(d.id)
          /\ members' = IF d.id \in GroupNodes THEN Successors(gData, d.id) ELSE members
    BY <1>4 DEF ClickNode
  <2>3. ChoiceOK'
    BY <1>0, <2>1, <2>2, GraphViewConstants, NeighboursAreNodes DEF ChoiceOK, PanelFor
  <2>4. QED
    BY <1>0, <2>1, <2>3 DEF StoreOK, DrawnFromAGraph, DrawnFromThePresent
<1>5. CASE ClickPane
  BY <1>0, <1>5 DEF ClickPane, StoreOK, ChoiceOK, DrawnFromAGraph, DrawnFromThePresent
<1>6. CASE Select
  <2>1. PICK n \in (GraphNodes \ GroupNodes) \cup (IF panel = "group" THEN members ELSE {}) :
          /\ selected' = n
          /\ panel' = IF NodeType[n] = "user" THEN "user" ELSE "object"
          /\ clicked' = IF mounted THEN Match(gData, n, clicked) ELSE clicked
          /\ UNCHANGED <<mounted, gData, drawn, filter, members>>
    BY <1>6 DEF Select
  <2>2. n \in GraphNodes
    BY <1>0 DEF ChoiceOK
  <2>3. ChoiceOK'
    BY <1>0, <2>1, <2>2, MatchIs DEF ChoiceOK, StoreOK
  <2>4. QED
    BY <1>0, <2>1, <2>3 DEF StoreOK, DrawnFromAGraph, DrawnFromThePresent
<1>7. CASE CloseDetails
  BY <1>0, <1>7 DEF CloseDetails, StoreOK, ChoiceOK, DrawnFromAGraph, DrawnFromThePresent
<1>8. CASE ToggleType \/ SetGroupsOnly \/ ToggleNodeVisibility
  <2>1. filter \in Filters
    BY <1>0 DEF StoreOK
  <2>2. \E f \in Filters : SetFilter(f)
    BY <1>8, <2>1, FiltersKept, Zenon DEF ToggleType, SetGroupsOnly, ToggleNodeVisibility
  <2>3. QED
    BY <2>2, SetFilterKeeps
<1>9. CASE UNCHANGED graphVars
  BY <1>0, <1>9 DEF graphVars, StoreOK, ChoiceOK, DrawnFromAGraph, DrawnFromThePresent
<1>10. QED
  BY <1>1, <1>2, <1>3, <1>4, <1>5, <1>6, <1>7, <1>8, <1>9 DEF GraphNext

(* Whatever the user filters, selects and opens while graphs come and go,  *)
(* the drawing is that of the present graph with the present filter        *)
(* (useDagLayoutSync's dependencies), and the state keeps its shape.       *)
THEOREM GraphStays == GraphSpec => []GraphInv
<1>1. QED
  BY GraphInitInv, GraphNextInv, PTL DEF GraphSpec

(* The state of the graph view and of the store it shares keeps its shape. *)
THEOREM GraphTyped == GraphSpec => []GraphTypeOK
<1>1. GraphInv => GraphTypeOK
  BY DEF GraphInv
<1>2. QED
  BY <1>1, GraphStays, PTL

(* What is lit is the lineage of the clicked node: the second search of    *)
(* useDagHighlight shares its set with the first and loses nothing by it,  *)
(* for every graph without cycles.                                         *)
THEOREM HighlightsAreLineages ==
  ASSUME NoCycles PROVE GraphSpec => []HighlightIsLineage
<1>1. GraphInv => HighlightIsLineage
  <2> SUFFICES ASSUME GraphInv, Match(gData, clicked, Unset) # Unset
               PROVE  Lit = Lineages[gData][clicked]
    BY DEF HighlightIsLineage
  <2>1. gData # Unset /\ clicked \in gData.node /\ clicked # Unset
    BY DEF Match
  <2>2. gData \in ServedGraphs
    BY <2>1 DEF GraphInv, GraphTypeOK
  <2>3. Connected(gData, clicked) = Downward(gData, clicked) \cup Upward(gData, clicked)
    BY <2>1, <2>2, ConnectedIsLineage
  <2>4. Lit = Connected(gData, clicked)
    BY <2>1, <2>2 DEF Lit, Highlights
  <2>5. Lineages[gData][clicked] = Downward(gData, clicked) \cup Upward(gData, clicked)
    BY <2>1, <2>2 DEF Lineages
  <2>6. QED
    BY <2>3, <2>4, <2>5
<1>2. QED
  BY <1>1, GraphStays, PTL

(* Every node the filters leave is drawn exactly once, and nothing else is *)
(* (buildDagLayout): by itself, or in the container of its only group.     *)
THEOREM NodesAreDrawnOnce ==
  ASSUME OneGroupEach PROVE GraphSpec => []DrawnOnce
<1>1. GraphInv => DrawnOnce
  <2> SUFFICES ASSUME GraphInv, mounted, gData # Unset, NEW n \in GraphNodes
               PROVE  Cardinality({d \in drawn : d.id = n})
                        = IF n \in VisibleNodes(gData, filter) THEN 1 ELSE 0
    BY DEF DrawnOnce
  <2>1. drawn = Drawing(gData, filter) /\ gData \in ServedGraphs
    BY DEF GraphInv, DrawnFromThePresent, GraphTypeOK
  <2>2. QED
    BY <2>1, DrawingHasEachOnce
<1>2. QED
  BY <1>1, GraphStays, PTL

(* For boxes that the passes keep apart: containers hold any number of     *)
(* children clear of each other, the children of a group take the first    *)
(* slots of its container, and the components of a role map are whole,     *)
(* disjoint and have their built-in roles above the rest (layoutDag).      *)
THEOREM NothingIsDrawnOverAnything ==
  ASSUME BoxesApart PROVE GraphSpec => []LaidOutApart
<1>1. LayoutsApart
  BY GraphViewConstants, ContainerHoldsAny, ComponentsAreApart DEF LayoutsApart
<1>2. ASSUME GraphInv, NEW c \in GroupNodes
      PROVE  LET inside == {d \in drawn : d.group = c /\ d.slot > 0}
             IN /\ Cardinality(inside) \in Nat
                /\ {d.slot : d \in inside} = 1..Cardinality(inside)
  <2>1. CASE drawn = {}
    <3>1. {d \in drawn : d.group = c /\ d.slot > 0} = {}
      BY <2>1
    <3>2. Cardinality({}) = 0 /\ {d.slot : d \in {}} = {} /\ 1..0 = {}
      BY FS_EmptySet
    <3>3. QED
      BY <3>1, <3>2
  <2>2. CASE drawn # {}
    <3>1. PICK g \in ServedGraphs, f \in Filters : drawn = Drawing(g, f)
      BY <1>2, <2>2 DEF GraphInv, DrawnFromAGraph
    <3>2. QED
      BY <3>1, ContainerSlots
  <2>3. QED
    BY <2>1, <2>2
<1>3. GraphInv => LaidOutApart
  BY <1>1, <1>2, ContainerHoldsAny DEF LaidOutApart
<1>4. QED
  BY <1>3, GraphStays, PTL

(* With a node highlighted, what stays lit is what a path joins to it.     *)
LitAreJoined ==
  Match(gData, clicked, Unset) # Unset =>
    Lit = {m \in gData.node : AreConnectedIn(clicked, m, gData) \/ AreConnectedIn(m, clicked, gData)}

(* The closed sets of HighlightsAreLineages are those of the paths of the  *)
(* graph: a node is lit exactly if the clicked one is its ancestor or its  *)
(* descendant (useDagHighlight's two searches).                            *)
THEOREM HighlightsFollowPaths == ASSUME NoCycles PROVE GraphSpec => []LitAreJoined
<1>1. GraphInv /\ HighlightIsLineage => LitAreJoined
  <2> SUFFICES ASSUME GraphInv, HighlightIsLineage, Match(gData, clicked, Unset) # Unset
               PROVE  Lit = {m \in gData.node : \/ AreConnectedIn(clicked, m, gData)
                                                \/ AreConnectedIn(m, clicked, gData)}
    BY DEF LitAreJoined
  <2>1. gData \in ServedGraphs /\ clicked \in gData.node
    BY DEF Match, GraphInv, GraphTypeOK
  <2>2. Lit = Downward(gData, clicked) \cup Upward(gData, clicked)
    BY <2>1 DEF HighlightIsLineage, Lineages
  <2>3. QED
    BY <2>1, <2>2, DownwardAreAtTheEndOfAPath, UpwardAreAtTheStartOfAPath
<1>2. QED
  BY <1>1, GraphStays, HighlightsAreLineages, PTL

-----------------------------------------------------------------------------
(* The parts next to each other                                            *)

LEMMA StepsOfTheParts ==
  ASSUME [FrontendNext]_allVars
  PROVE  /\ [PageNext]_pageVars /\ [StatusNext]_statusVars /\ [QueriesNext]_queriesVars
         /\ [GraphNext]_graphVars /\ [PanelNext]_panelVars2 /\ [AuditNext]_auditVars
<1>1. CASE PageNext /\ Only("page")
  <2>1. /\ UNCHANGED statusVars /\ UNCHANGED queriesVars /\ UNCHANGED graphVars
        /\ UNCHANGED panelVars2 /\ UNCHANGED auditVars
    BY <1>1 DEF Only
  <2>2. QED
    BY <1>1, <2>1
<1>2. CASE StatusNext /\ Only("status")
  <2>1. /\ UNCHANGED pageVars /\ UNCHANGED queriesVars /\ UNCHANGED graphVars
        /\ UNCHANGED panelVars2 /\ UNCHANGED auditVars
    BY <1>2 DEF Only
  <2>2. QED
    BY <1>2, <2>1
<1>3. CASE QueriesNext /\ Only("queries")
  <2>1. /\ UNCHANGED pageVars /\ UNCHANGED statusVars /\ UNCHANGED graphVars
        /\ UNCHANGED panelVars2 /\ UNCHANGED auditVars
    BY <1>3 DEF Only
  <2>2. QED
    BY <1>3, <2>1
<1>4. CASE GraphNext /\ Only("graph")
  <2>1. /\ UNCHANGED pageVars /\ UNCHANGED statusVars /\ UNCHANGED queriesVars
        /\ UNCHANGED panelVars2 /\ UNCHANGED auditVars
    BY <1>4 DEF Only
  <2>2. QED
    BY <1>4, <2>1
<1>5. CASE PanelNext /\ Only("panel")
  <2>1. /\ UNCHANGED pageVars /\ UNCHANGED statusVars /\ UNCHANGED queriesVars
        /\ UNCHANGED graphVars /\ UNCHANGED auditVars
    BY <1>5 DEF Only
  <2>2. QED
    BY <1>5, <2>1
<1>6. CASE AuditNext /\ Only("audit")
  <2>1. /\ UNCHANGED pageVars /\ UNCHANGED statusVars /\ UNCHANGED queriesVars
        /\ UNCHANGED graphVars /\ UNCHANGED panelVars2
    BY <1>6 DEF Only
  <2>2. QED
    BY <1>6, <2>1
<1>7. CASE UNCHANGED allVars
  <2>1. /\ UNCHANGED pageVars /\ UNCHANGED statusVars /\ UNCHANGED queriesVars
        /\ UNCHANGED graphVars /\ UNCHANGED panelVars2 /\ UNCHANGED auditVars
    BY <1>7, Zenon DEF allVars
  <2>2. QED
    BY <2>1
<1>8. QED
  BY <1>1, <1>2, <1>3, <1>4, <1>5, <1>6, <1>7 DEF FrontendNext

(* Next to the others, every part of the page behaves as it does alone.    *)
THEOREM PartsBehaveAsAlone ==
  FrontendSpec => /\ PageSpec /\ StatusSpec /\ QueriesSpec
                  /\ GraphSpec /\ PanelSpec /\ AuditSpec
<1>1. FrontendInit => PageInit /\ StatusInit /\ QueriesInit /\ GraphInit /\ PanelInit /\ AuditInit
  BY DEF FrontendInit
<1>2. QED
  BY <1>1, StepsOfTheParts, PTL
  DEF FrontendSpec, PageSpec, StatusSpec, QueriesSpec, GraphSpec, PanelSpec, AuditSpec

(* The state of the whole page keeps its shape.                            *)
THEOREM FrontendTyped == FrontendSpec => []FrontendTypeOK
<1>1. PanelInv => PanelTypeOK
  BY DEF PanelInv
<1>2. AuditInv => AuditTypeOK
  BY DEF AuditInv
<1>3. PageTypeOK /\ StatusTypeOK /\ QueriesTypeOK /\ GraphTypeOK /\ PanelTypeOK /\ AuditTypeOK
        => FrontendTypeOK
  BY DEF FrontendTypeOK
<1>4. QED
  BY <1>1, <1>2, <1>3, PartsBehaveAsAlone, PageTyped, StatusTyped, QueriesTyped, GraphTyped,
     PanelAwaitsThePick, AuditAsksThePresent, PTL

(* All that is kept true by the parts holds of the page, for graphs with   *)
(* neither cycles nor an object in two groups and for boxes that the       *)
(* passes keep apart.                                                      *)
THEOREM FrontendIsSafe ==
  ASSUME NoCycles, OneGroupEach, BoxesApart
  PROVE  FrontendSpec =>
           /\ [](GraphOfThisLogin /\ SpinnerHasALoad /\ TabIsOffered)
           /\ [](HistoryMatchesFilter /\ KilledStaysGone)
           /\ [](HighlightIsLineage /\ DrawnOnce /\ LaidOutApart)
           /\ StatusNeverGoesBack
           /\ PanelLatest!LatestSpec /\ AuditLatest!LatestSpec
<1>1. GraphSpec => [](HighlightIsLineage /\ DrawnOnce /\ LaidOutApart)
  BY HighlightsAreLineages, NodesAreDrawnOnce, NothingIsDrawnOverAnything, PTL
<1>2. QED
  BY <1>1, PartsBehaveAsAlone, OpenTabIsOffered, GraphIsOfThisLogin, SpinnerStandsForALoad,
     StatusOnlyAdvances, KilledQueryStaysGone, RecentQueriesMatchFilter, PanelRefinesLatest,
     AuditRefinesLatest, PTL
=============================================================================
