----------------------------- MODULE MCAccounts -----------------------------
(* Small instances of Accounts for TLC. *)
EXTENDS Accounts, TLC

\* All the values are interchangeable.
Symmetry ==
  Permutations(User) \cup Permutations(Email) \cup Permutations(Password)
    \cup Permutations(Call) \cup Permutations(Session)
=============================================================================
