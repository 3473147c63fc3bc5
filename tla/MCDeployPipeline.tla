-------------------------- MODULE MCDeployPipeline --------------------------
(* DeployPipeline with three runs and two images a migration apart. *)
EXTENDS DeployPipeline

CONSTANTS d1, d2, d3, older, newer

ThreeRuns == {d1, d2, d3}
TwoImages == {older, newer}
Revisions == [i \in TwoImages |-> IF i = older THEN 1 ELSE 3]
=============================================================================
