--------------------------- MODULE MCRequestGuards ---------------------------
(* Small instances of RequestGuards for TLC. *)
EXTENDS RequestGuards, TLC

\* Addresses and requests are interchangeable, routes are not.
Symmetry == Permutations(Address) \cup Permutations(Request)
=============================================================================
