------------------------------- MODULE MCSteps -------------------------------
(***************************************************************************)
(* Instances of the step-by-step handlers for TLC.                         *)
(***************************************************************************)
EXTENDS StepProperties, MCEngine

\* No action reads reply; the properties read it only after a step.
StepCore == <<Core, call, start.disk, raced, orphans>>

\* The two uuids are alike: call the first one handed out p1.  (A symmetry set
\* would not do for a liveness property.)
P1First == Known(p2) => Known(p1)

\* A call begins with every file there; others may delete it at any step.
WholeTree == Idle => \A f \in Files : Exists(f)
=============================================================================
