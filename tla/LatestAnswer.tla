---------------------------- MODULE LatestAnswer ----------------------------
(***************************************************************************)
(* What a view that fetches owes its reader: the question on the screen    *)
(* may change at any time, but an answer appears only while the question   *)
(* it answers is the one being asked, and a question that stays is         *)
(* answered in the end.  An answer may be that the request failed.         *)
(*                                                                         *)
(* This is the abstract specification that the hooks with a `cancelled`    *)
(* flag or an AbortController implement.                                   *)
(***************************************************************************)
CONSTANTS
  Question, \* what can be asked
  NoAnswer  \* nothing is asked, or nothing was answered yet

VARIABLES
  question, \* what is being asked
  answered  \* the question the answer on the screen belongs to

LatestVars == <<question, answered>>

Asked == Question \cup {NoAnswer}

LatestInit == question \in Asked /\ answered = NoAnswer

Ask == question' \in Asked /\ UNCHANGED answered

(* An answer, good or bad, to the question that is being asked now.        *)
Receive == answered' = question /\ UNCHANGED question

(* The view goes away, or comes back empty.                                *)
Forget == question' \in Asked /\ answered' = NoAnswer

LatestNext == Ask \/ Receive \/ Forget

LatestSpec == LatestInit /\ [][LatestNext]_LatestVars

(* A question that is not given up is answered.                            *)
Settles == <>[][question' = question]_question => <>(answered = question)
=============================================================================
