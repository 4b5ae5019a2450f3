---------------------------- MODULE TableTheorems ----------------------------
(* What the operators of Tables do to the type and the domain of a table. *)
EXTENDS Tables, TLAPS

\* Put keeps a table from S to T such a table, and adds k to its domain.
LEMMA PutTable ==
  ASSUME NEW S, NEW T, NEW f, Table(f, S, T), NEW k \in S, NEW v \in T
  PROVE  Table(Put(f, k, v), S, T)
  BY DEF Put, Table

LEMMA PutDomain ==
  ASSUME NEW f, NEW k, NEW v
  PROVE  DOMAIN Put(f, k, v) = DOMAIN f \cup {k}
  BY DEF Put

\* Restrict keeps a table from S to T such a table.
LEMMA RestrictTable ==
  ASSUME NEW S, NEW T, NEW f, Table(f, S, T), NEW D \in SUBSET DOMAIN f
  PROVE  Table(Restrict(f, D), S, T)
  BY DEF Restrict, Table

\* So does Drop, which takes k from its domain.
LEMMA DropTable ==
  ASSUME NEW S, NEW T, NEW f, Table(f, S, T), NEW k
  PROVE  Table(Drop(f, k), S, T)
  BY DEF Drop, Restrict, Table

LEMMA DropDomain ==
  ASSUME NEW f, NEW k
  PROVE  DOMAIN Drop(f, k) = DOMAIN f \ {k}
  BY DEF Drop, Restrict

\* Replacing the value at a key by one of the same type keeps a table.
LEMMA ExceptTable ==
  ASSUME NEW S, NEW T, NEW f, Table(f, S, T), NEW k \in DOMAIN f, NEW v \in T
  PROVE  Table([f EXCEPT ![k] = v], S, T)
  BY DEF Table

\* What is in a table has its types.
LEMMA TableValue ==
  ASSUME NEW S, NEW T, NEW f, Table(f, S, T), NEW k \in DOMAIN f
  PROVE  k \in S /\ f[k] \in T
  BY DEF Table

\* The empty table.
LEMMA EmptyTable ==
  ASSUME NEW S, NEW T
  PROVE  Table(Empty, S, T)
  BY DEF Empty, Table
==============================================================================
