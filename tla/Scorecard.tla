------------------------------ MODULE Scorecard ------------------------------
(***************************************************************************)
(* How the scorer turns the model's answers into the two columns of a lead *)
(* (compute in scorecard.go): four gates decide `workable`, then five axes *)
(* add up to the fit.  The answers come from outside: any option of a      *)
(* question, sure or not, or none.  Probabilities are in quarters, values  *)
(* in hundredths and weights in tenths, so that everything is a number.    *)
(***************************************************************************)
EXTENDS Integers, Sequences

GateOrder == <<"is_it_a_job", "pay_model", "location_rule", "apply_route">>
AxisOrder == <<"go_depth", "stack_overlap", "domain", "seniority", "frontend_load">>

Gates == [
  is_it_a_job |-> [
    blocking |-> {"cofounder_equity_only", "advice_or_discussion", "filled_or_dead"},
    unknown |-> {"job_board_ad"}, pass |-> {"live_paid_role"}],
  pay_model |-> [
    blocking |-> {"equity_only", "unpaid"},
    unknown |-> {"not_stated"}, pass |-> {"salary", "b2b_contract"}],
  location_rule |-> [
    blocking |-> {"excludes_georgia", "hybrid_or_onsite"},
    unknown |-> {"not_stated"}, pass |-> {"worldwide", "includes_georgia"}],
  apply_route |-> [
    blocking |-> {},
    unknown |-> {"linkedin_dm", "none_given"}, pass |-> {"ats_form", "email", "telegram_dm"}]]

\* The worth of each level, in the order of the levels; the weight of the axis.
Values == [
  go_depth |-> <<10, 50, 95, 100>>,
  stack_overlap |-> <<0, 45, 75, 100>>,
  domain |-> <<100, 90, 75, 35, 25, 55>>,
  seniority |-> <<20, 60, 100, 95, 50>>,
  frontend_load |-> <<100, 85, 50, 10>>]

WeightsByHand == [go_depth |-> 25, stack_overlap |-> 25, domain |-> 20, seniority |-> 20, frontend_load |-> 15]
Weights == [go_depth |-> 25, stack_overlap |-> 25, domain |-> 20, seniority |-> 15, frontend_load |-> 15]

NoAnswer == [choice |-> "", sure |-> FALSE]
GateAnswers(gate) ==
  {NoAnswer} \cup
  [choice : Gates[gate].blocking \cup Gates[gate].unknown \cup Gates[gate].pass, sure : BOOLEAN]

VARIABLES
  resolved,  \* the lead has the text of its posting
  answers,   \* the answers to the gates so far
  workable, blockedBy,
  axis,      \* the next axis, 0 while the gates are asked
  points     \* the fit so far, in 4000ths

vars == <<resolved, answers, workable, blockedBy, axis, points>>

Init ==
  /\ resolved \in BOOLEAN
  /\ answers = <<>>
  /\ workable = IF resolved THEN "yes" ELSE "unknown"
  /\ blockedBy = 0
  /\ axis = 0 /\ points = 0

-----------------------------------------------------------------------------
(* The gates.                                                              *)

JudgedUnsure(gate, a) ==
  IF a.choice \in Gates[gate].blocking THEN "blocked"
  ELSE IF a.choice \in Gates[gate].unknown \/ ~a.sure THEN "unknown" ELSE "pass"

\* A knockout takes a sure answer (gateConfidence); an option of neither set passes.
Judged(gate, a) ==
  IF a.choice \in Gates[gate].blocking /\ a.sure THEN "blocked"
  ELSE IF a.choice \in Gates[gate].blocking \cup Gates[gate].unknown \/ ~a.sure
  THEN "unknown" ELSE "pass"

\* The loop of compute over the gates.
Gate(a) ==
  /\ LET verdict == Judged(GateOrder[Len(answers) + 1], a) IN
     /\ workable' = IF verdict = "unknown" THEN "unknown" ELSE workable
     /\ blockedBy' = IF verdict = "blocked" THEN blockedBy + 1 ELSE blockedBy
  /\ answers' = Append(answers, a)
  /\ UNCHANGED <<resolved, axis, points>>

EndGates ==
  /\ axis = 0 /\ Len(answers) = Len(GateOrder)
  /\ workable' = IF blockedBy > 0 THEN "blocked" ELSE workable
  /\ axis' = 1
  /\ answers' = <<>> /\ blockedBy' = 0
  /\ UNCHANGED <<resolved, points>>

-----------------------------------------------------------------------------
(* The axes.                                                               *)

\* A distribution over the levels: a quarter for one, the rest for another or
\* for the same.  An answer without one names a level.
AxisAnswers(name) == (DOMAIN Values[name]) \X (DOMAIN Values[name])

Expected(name, p) == Values[name][p[1]] + 3 * Values[name][p[2]]

\* An axis that was not answered adds nothing.
Skipped ==
  /\ axis \in DOMAIN AxisOrder
  /\ axis' = axis + 1
  /\ UNCHANGED <<resolved, answers, workable, blockedBy, points>>

Axis(p) ==
  /\ points' = points + Expected(AxisOrder[axis], p) * Weights[AxisOrder[axis]]
  /\ axis' = axis + 1
  /\ UNCHANGED <<resolved, answers, workable, blockedBy>>

\* round1, in tenths
Fit == (points + 200) \div 400

Next ==
  \/ /\ axis = 0 /\ Len(answers) < Len(GateOrder)
     /\ \E a \in GateAnswers(GateOrder[Len(answers) + 1]) : Gate(a)
  \/ EndGates
  \/ Skipped
  \/ /\ axis \in DOMAIN AxisOrder
     /\ \E p \in AxisAnswers(AxisOrder[axis]) : Axis(p)

Spec == Init /\ [][Next]_vars

-----------------------------------------------------------------------------

Surely(i, options) == answers[i].sure /\ answers[i].choice \in options

\* scorecard.go:353: a sure knockout blocks the lead whatever else was answered
\* before or after it; `yes` is said only when everything checked out on a
\* resolved posting; everything else is unknown.
YesIsEarned ==
  [][EndGates => workable' =
       IF \E i \in DOMAIN GateOrder : Surely(i, Gates[GateOrder[i]].blocking) THEN "blocked"
       ELSE IF resolved /\ \A i \in DOMAIN GateOrder : Surely(i, Gates[GateOrder[i]].pass)
       THEN "yes" ELSE "unknown"]_vars

\* scorecard.go:50: the weights add up so that, whatever distributions the
\* answers carry, the fit reads as 0-10.
FitReadsAsTen == Fit \in 0..100
==============================================================================
