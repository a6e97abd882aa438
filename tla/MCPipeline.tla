----------------------------- MODULE MCPipeline -----------------------------
(* Instances of Pipeline for TLC. *)
EXTENDS Pipeline, TLC

ResearchStep == [from |-> "queued", running |-> "researching", to |-> "facts_ready"]
RelevanceStep == [from |-> "facts_approved", running |-> "finding_refs", to |-> "refs_ready"]

(* What wiring.Build registers today. *)
WiredSteps == {ResearchStep}

(* The next milestone's registry, so that videos travel past a gate and back. *)
TwoSteps == {ResearchStep, RelevanceStep}

JobSymmetry == Permutations(Jobs)
=============================================================================
