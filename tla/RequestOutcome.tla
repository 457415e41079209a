--------------------------- MODULE RequestOutcome ---------------------------
(***************************************************************************)
(* What the application owes whoever sends it a request: a change takes    *)
(* effect at most once, where it was asked for, and before the answer;     *)
(* "ok" is only said of what happened; a record tells what happened, and   *)
(* is only promised when it was written; and nothing comes after the       *)
(* answer.  An error may be answered to a change that did take effect, but *)
(* it is not recorded as an error then.                                    *)
(*                                                                         *)
(* How it gets there (pools, sessions, catalogs, connections that break)   *)
(* is no concern of this specification: GrantExecution implements it.      *)
(***************************************************************************)
CONSTANTS
  Threads,  \* who asks, one request at a time
  Requests, \* [kind, catalog] records
  None      \* not yet, or not at all

VARIABLES
  req,      \* what each asked for last
  landed,   \* the catalog its change took effect in
  row,      \* the record of it
  listed,   \* the catalog its list came from
  answer    \* what it was answered

OutcomeVars == <<req, landed, row, listed, answer>>

Changes == {"object", "plain"}

OutcomeInit == \A f \in {req, landed, row, listed, answer} : f = [t \in Threads |-> None]

Waits(t) == req[t] # None /\ answer[t] = None

Ask(t) ==
  /\ ~Waits(t)
  /\ \E q \in Requests : req' = [req EXCEPT ![t] = q]
  /\ landed' = [landed EXCEPT ![t] = None] /\ row' = [row EXCEPT ![t] = None]
  /\ listed' = [listed EXCEPT ![t] = None] /\ answer' = [answer EXCEPT ![t] = None]

TakeEffect(t) ==
  /\ Waits(t) /\ req[t].kind \in Changes /\ landed[t] = None
  /\ landed' = [landed EXCEPT ![t] = req[t].catalog]
  /\ UNCHANGED <<req, row, listed, answer>>

Answered(t, result, audit) ==
  answer' = [answer EXCEPT ![t] = [result |-> result, audit |-> audit]]

(* The record, if there is one, is written with the answer or before it.   *)
Record(t, result) ==
  /\ req[t].kind \in Changes
  /\ result = "ok" <=> landed[t] # None
  /\ row' = [row EXCEPT ![t] = result]

Conclude(t) ==
  /\ Waits(t)
  /\ \E result \in {"ok", "error"}, audit \in BOOLEAN :
       /\ result = "ok" => landed[t] # None
       /\ Record(t, result) \/ (~audit /\ UNCHANGED row)
       /\ Answered(t, result, audit)
  /\ UNCHANGED <<req, landed, listed>>

ShowList(t) ==
  /\ Waits(t) /\ req[t].kind = "list"
  /\ listed' = [listed EXCEPT ![t] = req[t].catalog]
  /\ Answered(t, "ok", FALSE)
  /\ UNCHANGED <<req, landed, row>>

OutcomeNext == \E t \in Threads : Ask(t) \/ TakeEffect(t) \/ Conclude(t) \/ ShowList(t)

OutcomeSpec == OutcomeInit /\ [][OutcomeNext]_OutcomeVars
=============================================================================
