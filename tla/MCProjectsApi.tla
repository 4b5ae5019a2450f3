---------------------------- MODULE MCProjectsApi ----------------------------
(* Small instances of ProjectsApi for TLC. *)
EXTENDS ProjectsApi, TLC

\* The ids are interchangeable; so are the names and the URLs.
Symmetry ==
  Permutations(User) \cup Permutations(Project) \cup Permutations(Deployment)
    \cup Permutations(Name) \cup Permutations(Repo) \cup Permutations(Call)
=============================================================================
