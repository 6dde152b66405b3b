------------------------- MODULE MCGovernedDispatch -------------------------
(* Instances of GovernedDispatch: one target behind a high adapter, whose   *)
(* intents are declared low or sealed_only.                                *)
EXTENDS GovernedDispatch, TLC

HighAdapter == [t \in Target |-> High]
HighCeiling == [t \in Target |-> 3]
\* A plain failure is a late one without its effect, and threatens less.
WithEffect == {"done", "failed_late"}
Runners == Permutations(Runner)
=============================================================================
