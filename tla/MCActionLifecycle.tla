-------------------------- MODULE MCActionLifecycle --------------------------
(* Values of the constants of ActionLifecycle for TLC. *)
EXTENDS ActionLifecycle

CONSTANTS p1, p2, old, new, alice, bob, carol, d1, d2, d3, e1, e2, e3, key1, key2

\* The first proposal asks for a new value; the second one is its rollback.
Targets == [p \in Proposals |-> IF p = p1 THEN new ELSE old]
Sources == [p \in Proposals |-> IF p = p2 THEN p1 ELSE None]

\* alice has made the proposals.
Voters == [d \in Deciders |-> CASE d = d1 -> bob [] d = d2 -> carol [] d = d3 -> alice]

\* Two requests repeat a key, the third one has a key of its own.
RepeatedKey == [e \in Executors |-> IF e = e3 THEN key2 ELSE key1]
=============================================================================
