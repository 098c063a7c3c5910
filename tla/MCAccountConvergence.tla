------------------------ MODULE MCAccountConvergence ------------------------
(***************************************************************************)
(* Instances of AccountConvergence for TLC.                                *)
(***************************************************************************)
EXTENDS AccountConvergence, TLC

CONSTANTS p1, p2

\* The plans are interchangeable.
PlanSymmetry == Permutations({p1, p2})

\* For liveness, where TLC's symmetry is not sound, the same saving by naming the
\* plan the account starts with.
FirstPlan == AInit /\ plan = p1

FirstPlanSpec == FirstPlan /\ [][ANext]_vars /\ AFairness
=============================================================================
