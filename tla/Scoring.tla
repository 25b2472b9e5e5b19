------------------------------ MODULE Scoring --------------------------------
(***************************************************************************)
(* The background scorer, and beside it how one evaluation turns answers   *)
(* into a verdict and a fit (Scorecard).  The scorer knows of an           *)
(* evaluation only its verdict, so that a behaviour of their composition   *)
(* is explored one `part` at a time, the other idle.                       *)
(***************************************************************************)
EXTENDS Scorer

VARIABLES part, resolved, answers, workable, blockedBy, axis, points

card == <<resolved, answers, workable, blockedBy, axis, points>>

Card == INSTANCE Scorecard

ScoringInit == part \in {"queue", "card"} /\ Init /\ Card!Init

QueueNext == part = "queue" /\ Next /\ UNCHANGED <<part, card>>
CardNext == part = "card" /\ Card!Next /\ UNCHANGED <<part, vars>>

EnqueueGoesOn == part = "queue" /\ Enqueue /\ UNCHANGED <<part, card>>
TakeGoesOn(w) == part = "queue" /\ Take(w) /\ UNCHANGED <<part, card>>
EvaluationEnds(w) == part = "queue" /\ Ends(w) /\ UNCHANGED <<part, card>>

scoringVars == <<part, vars, card>>

\* The fairness of Scorer!FairSpec.
ScoringSpec ==
  /\ ScoringInit /\ [][QueueNext \/ CardNext]_scoringVars
  /\ WF_scoringVars(EnqueueGoesOn)
  /\ \A w \in Workers : WF_scoringVars(TakeGoesOn(w)) /\ WF_scoringVars(EvaluationEnds(w))

-----------------------------------------------------------------------------

\* Scorecard: the fit reads as 0-10.
FitReadsAsTen == Card!FitReadsAsTen

\* Scorecard: a sure knockout blocks the lead, `yes` takes four sure passes on a
\* resolved posting, everything else is unknown.
YesIsEarned == Card!YesIsEarned
==============================================================================
