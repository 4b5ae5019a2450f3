------------------------ MODULE MCDeploymentPipeline ------------------------
(* Small instances of DeploymentPipeline for TLC. *)
EXTENDS DeploymentPipeline, TLC

\* The ids of deployments, projects and slots are interchangeable.
Symmetry ==
  Permutations(Deployment) \cup Permutations(Project) \cup Permutations(Worker)

NoFaults    == {}
OnlyRedis   == {"redis"}
Recoverable == {"db", "redis", "crash"}
AllFaults   == {"db", "redis", "crash", "stall"}
=============================================================================
