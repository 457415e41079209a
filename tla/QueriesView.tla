----------------------------- MODULE QueriesView -----------------------------
(***************************************************************************)
(* The queries panel of the Cluster Monitor: the running queries, the      *)
(* recent ones, and the KILL of a running query, with the cache of the     *)
(* server that answers for a few seconds instead of the cluster.           *)
(*                                                                         *)
(* The panel aborts a request before it sends the next one.  The server    *)
(* does not know: it goes on, and still writes what it read to its cache.  *)
(***************************************************************************)
EXTENDS Naturals, FiniteSets

CONSTANTS
  Queries,   \* query ids; an id is not used twice
  Absent,    \* null
  MaxReads,  \* bound: requests for the running queries
  MaxKills   \* bound: KILLs

ASSUME QueriesConstants == Absent \notin BOOLEAN /\ MaxReads \in Nat /\ MaxKills \in Nat

VARIABLES
  alive,     \* the cluster: queries that run
  cachedRun, \* the server: the response in _queries_cache, Absent when there is none
  jobs,      \* the server: requests for the running queries it works on
  panelOn,   \* the panel is mounted
  subtab, errorsOnly, expandedRow, \* state of the panel
  run,       \* useRunningQueries: rows shown, their request, error
  denied,    \* deniedRef
  runAwaits, \* number of the request that is not aborted, 0 when there is none
  hist,      \* useQueryHistory: how what is shown was filtered, error
  histAwaits,\* the filter of the request that is not aborted
  kills,     \* KILLs in flight
  killed,    \* history: acknowledged KILLs, with the number of reads sent by then
  overtaken, \* history: a read from before a KILL was cached after it
  reads, killCount \* counters of the bounds

panelVars == <<subtab, errorsOnly, expandedRow>>
runVars == <<run, denied, runAwaits, reads, jobs>>
histVars == <<hist, histAwaits>>
killVars == <<kills, killed, killCount>>
queriesVars == <<alive, cachedRun, panelOn, panelVars, runVars, histVars, killVars, overtaken>>

NoRun == [rows |-> Absent, no |-> 0, failed |-> FALSE]
NoHist == [filter |-> Absent, failed |-> FALSE]

(* What the running subtab shows: a loader until the first answer, a note  *)
(* after a failure or when nothing runs.                                   *)
RunningShows ==
  IF run.failed THEN "a note"
  ELSE IF run.rows = Absent THEN "loader"
  ELSE IF run.rows = {} THEN "a note"
  ELSE "table"

(* What the recent subtab shows.                                           *)
HistoryShows ==
  IF histAwaits # Absent /\ hist.filter = Absent THEN "loader"
  ELSE IF hist.failed THEN "a note"
  ELSE "table"

-----------------------------------------------------------------------------
(* A read of the running queries.  `bypass` is refresh=1.                  *)
AskRunning(bypass, mounted) ==
  /\ reads < MaxReads
  /\ reads' = reads + 1
  /\ jobs' = jobs \cup {[no |-> reads + 1, bypass |-> bypass, rows |-> Absent]}
  /\ runAwaits' = IF mounted THEN reads + 1 ELSE runAwaits

(* The history loads while it awaits an answer.                            *)
AskHistory(filter) == histAwaits' = filter /\ UNCHANGED hist

QueriesInit ==
  /\ alive = Queries /\ cachedRun = Absent /\ jobs = {}
  /\ panelOn = FALSE
  /\ subtab = "running" /\ errorsOnly = FALSE /\ expandedRow = Absent
  /\ run = NoRun /\ denied = FALSE /\ runAwaits = 0
  /\ hist = NoHist /\ histAwaits = Absent
  /\ kills = {} /\ killed = {} /\ overtaken = FALSE
  /\ reads = 0 /\ killCount = 0

OpenPanel ==
  /\ ~panelOn
  /\ panelOn' = TRUE
  /\ AskRunning(FALSE, TRUE)
  /\ UNCHANGED <<alive, cachedRun, panelVars, run, denied, histVars, killVars, overtaken>>

(* Leaving the tab, or logging out: the panel forgets everything.          *)
ClosePanel ==
  /\ panelOn
  /\ panelOn' = FALSE
  /\ subtab' = "running" /\ errorsOnly' = FALSE /\ expandedRow' = Absent
  /\ run' = NoRun /\ denied' = FALSE /\ runAwaits' = 0
  /\ hist' = NoHist /\ histAwaits' = Absent
  /\ UNCHANGED <<alive, cachedRun, jobs, reads, killVars, overtaken>>

(* Each subtab asks when it is entered, and aborts when it is left.        *)
SelectHistory ==
  /\ panelOn /\ subtab = "running"
  /\ subtab' = "history"
  /\ runAwaits' = 0
  /\ AskHistory(errorsOnly)
  /\ UNCHANGED <<alive, cachedRun, panelOn, errorsOnly, expandedRow, run, denied,
                 reads, jobs, killVars, overtaken>>

SelectRunning ==
  /\ panelOn /\ subtab = "history"
  /\ subtab' = "running"
  /\ histAwaits' = Absent
  /\ AskRunning(FALSE, TRUE)
  /\ UNCHANGED <<alive, cachedRun, panelOn, errorsOnly, expandedRow, run, denied,
                 hist, killVars, overtaken>>

(* A new interval, "Off" included, asks again at once.  Which one it is    *)
(* only says how often a poll ticks, and is not kept.                      *)
SetInterval ==
  /\ panelOn
  /\ IF subtab = "running"
     THEN AskRunning(FALSE, TRUE) /\ UNCHANGED histVars
     ELSE AskHistory(errorsOnly) /\ UNCHANGED <<runAwaits, reads, jobs>>
  /\ UNCHANGED <<alive, cachedRun, panelOn, subtab, errorsOnly, expandedRow, run, denied,
                 killVars, overtaken>>

(* FAULT: the filter is not a dependency of the effect that asks.          *)
ToggleErrorsOnlyLazily ==
  /\ panelOn /\ subtab = "history"
  /\ errorsOnly' = ~errorsOnly
  /\ UNCHANGED <<alive, cachedRun, panelOn, subtab, expandedRow, runVars, histVars,
                 killVars, overtaken>>

ToggleErrorsOnly ==
  /\ panelOn /\ subtab = "history"
  /\ errorsOnly' = ~errorsOnly
  /\ AskHistory(~errorsOnly)
  /\ UNCHANGED <<alive, cachedRun, panelOn, subtab, expandedRow, runVars,
                 killVars, overtaken>>

(* The poll of the running queries stops after a 403; the refresh button   *)
(* and Retry do not, and bypass the server's cache.                        *)
RunningAsks ==
  \E byUser \in BOOLEAN :
    /\ panelOn /\ subtab = "running"
    /\ byUser \/ ~denied
    /\ AskRunning(byUser, TRUE)
    /\ UNCHANGED <<alive, cachedRun, panelOn, panelVars, run, denied, histVars, killVars,
                   overtaken>>

HistoryAsks ==
  /\ panelOn /\ subtab = "history"
  /\ AskHistory(errorsOnly)
  /\ UNCHANGED <<alive, cachedRun, panelOn, panelVars, runVars, killVars, overtaken>>

ExpandRow ==
  /\ panelOn /\ subtab = "running" /\ RunningShows = "table"
  /\ \E q \in run.rows : expandedRow' = IF expandedRow = q THEN Absent ELSE q
  /\ UNCHANGED <<alive, cachedRun, panelOn, subtab, errorsOnly, runVars, histVars,
                 killVars, overtaken>>

-----------------------------------------------------------------------------
(* The server                                                              *)

(* A hit answers with the cached response, anything else reads the cluster.*)
JobReads ==
  \E j \in jobs :
    /\ j.rows = Absent
    /\ jobs' = (jobs \ {j}) \cup
         {[j EXCEPT !.rows = IF ~j.bypass /\ cachedRun # Absent THEN cachedRun ELSE alive,
                    !.bypass = j.bypass \/ cachedRun = Absent]}
    /\ UNCHANGED <<alive, cachedRun, panelOn, panelVars, run, denied, runAwaits, reads,
                   histVars, killVars, overtaken>>

(* What was read is cached, and the answer goes out: to nobody when the    *)
(* request was aborted.                                                    *)
JobAnswers ==
  \E j \in jobs :
    /\ j.rows # Absent
    /\ jobs' = jobs \ {j}
    /\ cachedRun' = IF j.bypass THEN j.rows ELSE cachedRun
    /\ overtaken' = (overtaken \/ (j.bypass /\ \E k \in killed : k.query \in j.rows))
    /\ IF j.no = runAwaits
       THEN /\ runAwaits' = 0
            /\ run' = [rows |-> j.rows, no |-> j.no, failed |-> FALSE]
            /\ denied' = FALSE
       ELSE UNCHANGED <<run, denied, runAwaits>>
    /\ UNCHANGED <<alive, panelOn, panelVars, reads, histVars, killVars>>

(* The request fails on its way or is refused; a 403 is remembered.        *)
RunningFails ==
  /\ runAwaits # 0
  /\ runAwaits' = 0
  /\ run' = [run EXCEPT !.failed = TRUE]
  /\ denied' \in {denied, TRUE}
  /\ UNCHANGED <<alive, cachedRun, jobs, panelOn, panelVars, reads, histVars, killVars,
                 overtaken>>

HistoryAnswers ==
  /\ histAwaits # Absent
  /\ histAwaits' = Absent
  /\ \/ hist' = [filter |-> histAwaits, failed |-> FALSE]
     \/ hist' = [hist EXCEPT !.failed = TRUE]
  /\ UNCHANGED <<alive, cachedRun, panelOn, panelVars, runVars, killVars, overtaken>>

(* The entry's time to live.                                               *)
CacheExpires ==
  /\ cachedRun # Absent /\ cachedRun' = Absent
  /\ UNCHANGED <<alive, panelOn, panelVars, runVars, histVars, killVars, overtaken>>

QueryEnds ==
  /\ \E q \in alive : alive' = alive \ {q}
  /\ UNCHANGED <<cachedRun, panelOn, panelVars, runVars, histVars, killVars, overtaken>>

-----------------------------------------------------------------------------
(* KILL: confirmed in the expanded row.                                    *)
Kill ==
  /\ panelOn /\ subtab = "running" /\ RunningShows = "table"
  /\ expandedRow # Absent /\ expandedRow \in run.rows
  /\ killCount < MaxKills
  /\ kills' = kills \cup {expandedRow}
  /\ killCount' = killCount + 1
  /\ UNCHANGED <<alive, cachedRun, panelOn, panelVars, runVars, histVars, killed, overtaken>>

(* FAULT: the server keeps its cache.                                      *)
KillLandsOnly ==
  \E k \in kills :
    /\ k \in alive
    /\ alive' = alive \ {k}
    /\ kills' = kills \ {k}
    /\ killed' = killed \cup {[query |-> k, after |-> reads]}
    /\ expandedRow' = Absent
    /\ AskRunning(TRUE, panelOn)
    /\ UNCHANGED <<cachedRun, panelOn, subtab, errorsOnly, run, denied, histVars,
                   killCount, overtaken>>

(* The query is gone, the server clears its cache, and the panel collapses *)
(* whatever row is expanded by now and reads past the cache.  A panel that *)
(* is gone still sends that read.                                          *)
KillLands ==
  \E k \in kills :
    /\ k \in alive
    /\ alive' = alive \ {k}
    /\ cachedRun' = Absent
    /\ kills' = kills \ {k}
    /\ killed' = killed \cup {[query |-> k, after |-> reads]}
    /\ expandedRow' = Absent
    /\ AskRunning(TRUE, panelOn)
    /\ UNCHANGED <<panelOn, subtab, errorsOnly, run, denied, histVars, killCount,
                   overtaken>>

(* It had ended before, or the KILL is refused: a toast.                   *)
KillFails ==
  /\ \E k \in kills : kills' = kills \ {k}
  /\ UNCHANGED <<alive, cachedRun, panelOn, panelVars, runVars, histVars, killed, killCount,
                 overtaken>>

QueriesAnswers == JobReads \/ JobAnswers \/ HistoryAnswers

QueriesNext ==
  \/ OpenPanel \/ ClosePanel \/ SelectHistory \/ SelectRunning \/ SetInterval
  \/ ToggleErrorsOnly \/ RunningAsks \/ HistoryAsks \/ ExpandRow
  \/ QueriesAnswers \/ RunningFails \/ CacheExpires \/ QueryEnds
  \/ Kill \/ KillLands \/ KillFails

QueriesSpec == QueriesInit /\ [][QueriesNext]_queriesVars

-----------------------------------------------------------------------------
QueriesTypeOK ==
  /\ alive \subseteq Queries /\ cachedRun \in (SUBSET Queries) \cup {Absent}
  /\ jobs \subseteq [no : Nat, bypass : BOOLEAN, rows : (SUBSET Queries) \cup {Absent}]
  /\ panelOn \in BOOLEAN /\ subtab \in {"running", "history"}
  /\ errorsOnly \in BOOLEAN
  /\ expandedRow \in Queries \cup {Absent}
  /\ run \in [rows : (SUBSET Queries) \cup {Absent}, no : Nat, failed : BOOLEAN]
  /\ denied \in BOOLEAN /\ runAwaits \in Nat
  /\ hist \in [filter : BOOLEAN \cup {Absent}, failed : BOOLEAN]
  /\ histAwaits \in BOOLEAN \cup {Absent}
  /\ kills \subseteq Queries
  /\ killed \subseteq [query : Queries, after : Nat]
  /\ overtaken \in BOOLEAN /\ reads \in Nat /\ killCount \in Nat

(* The recent queries on the screen are those of the filter on the screen, *)
(* whatever subtabs, intervals and filters were passed through while       *)
(* requests were under way.                                                *)
HistoryMatchesFilter ==
  panelOn /\ subtab = "history" /\ HistoryShows = "table" /\ histAwaits = Absent =>
    hist.filter = errorsOnly

(* A query the user killed is gone from every list that was asked for      *)
(* after the KILL was acknowledged, also when that read fails and a later  *)
(* poll is answered by the server's cache: unless a read from before the   *)
(* KILL, aborted by the panel but not by the server, was cached after it.  *)
KilledStaysGone ==
  run.rows # Absent /\ ~overtaken =>
    \A k \in killed : run.no > k.after => k.query \notin run.rows
=============================================================================
