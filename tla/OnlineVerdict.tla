---------------------------- MODULE OnlineVerdict ----------------------------
(***************************************************************************)
(* What a pull-request run promises about the names it has to check        *)
(* online, with no steps, budget, cache or calls: every question a scan    *)
(* raises ends answered or missed, a missed one stays missed, and the run  *)
(* passes judgement only when it is through with all of them: it could     *)
(* not run when a question that counts was missed.                         *)
(***************************************************************************)
CONSTANT Questions

VARIABLES
  open,      \* questions not settled yet
  answered,  \* questions the registry answered
  missed,    \* questions given up
  counted,   \* the questions whose miss fails this run; fixed
  outcome    \* "running", "judged" or "could-not-run"

vars == <<open, answered, missed, counted, outcome>>

Init ==
  /\ open \in SUBSET Questions
  /\ counted \in SUBSET Questions
  /\ answered = {} /\ missed = {}
  /\ outcome = "running"

(* One lookup settles one question, or every question of a bulk call.      *)
Settle == \E A, M \in SUBSET open :
  /\ outcome = "running"
  /\ A \cap M = {} /\ A \cup M # {}
  /\ open' = open \ (A \cup M)
  /\ answered' = answered \cup A
  /\ missed' = missed \cup M
  /\ UNCHANGED <<counted, outcome>>

Judge ==
  /\ outcome = "running" /\ open = {}
  /\ outcome' = IF missed \cap counted # {} THEN "could-not-run" ELSE "judged"
  /\ UNCHANGED <<open, answered, missed, counted>>

Next == Settle \/ Judge

Spec == Init /\ [][Next]_vars /\ WF_vars(Next)
=============================================================================
