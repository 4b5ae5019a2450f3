------------------------------- MODULE Tables -------------------------------
(***************************************************************************)
(* A table (of a database, of Redis, of the requests in flight) is a        *)
(* partial function: its domain holds the keys that exist.                  *)
(***************************************************************************)
EXTENDS Functions

\* f is a partial function from S to T.
Table(f, S, T) ==
  /\ DOMAIN f \subseteq S
  /\ f \in [DOMAIN f -> T]

Empty        == [x \in {} |-> x]
Put(f, k, v) == [x \in DOMAIN f \cup {k} |-> IF x = k THEN v ELSE f[x]]
Drop(f, k)   == Restrict(f, DOMAIN f \ {k})
=============================================================================
