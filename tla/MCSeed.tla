------------------------------- MODULE MCSeed -------------------------------
(* Small instances of Seed for TLC. *)
EXTENDS Seed, TLC

\* Runs and ids of each kind are interchangeable.
Symmetry ==
  Permutations(Run) \cup Permutations(User) \cup Permutations(Project)
    \cup Permutations(Deployment)
=============================================================================
