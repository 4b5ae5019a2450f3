------------------------- MODULE MCDeploymentHistory -------------------------
(* Small instances of DeploymentHistory for TLC. *)
EXTENDS DeploymentHistory, TLC

Symmetry == Permutations(Deployment)

\* Below, at and above both ends of the range.
SomeNumbers == {-1, 0, 1, 2, 3}
=============================================================================
