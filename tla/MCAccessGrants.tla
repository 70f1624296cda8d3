---- MODULE MCAccessGrants ----
(* A drug and a category, four proposals at once. *)
EXTENDS AccessGrants, TLC
CONSTANTS drug, category, p1, p2, p3, p4

On(access) == [access |-> access, active |-> TRUE]
Off(access) == [access |-> access, active |-> FALSE]

\* Every grant and revocation, and the packages of one or two entries.
MCPlans ==
    {[kind |-> "grant", entries |-> <<On(k)>>] : k \in Accesses}
    \cup {[kind |-> "revoke", entries |-> <<Off(k)>>] : k \in Accesses}
    \cup {[kind |-> "package", entries |-> <<e>>] : e \in Entry}
    \cup {[kind |-> "package", entries |-> <<e, f>>] :
             e \in {On(drug), Off(drug)}, f \in {On(category), Off(category)}}
    \cup {[kind |-> "package", entries |-> <<Off(category), On(drug)>>]}

Seeded(k, active) == [access |-> k, active |-> active, version |-> 1, by |-> "seed"]
MCFounding == {<<>>, <<Seeded(drug, TRUE)>>, <<Seeded(category, FALSE)>>,
               <<Seeded(drug, FALSE), Seeded(category, TRUE)>>}

MCSymmetry == Permutations(Proposals)
====
