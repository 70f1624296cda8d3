---- MODULE MCMemberships ----
(* Two users and the changes that concern them, three proposals at once. *)
EXTENDS Memberships, TLC
CONSTANTS a, b, p1, p2, p3

Other(u) == CHOOSE v \in Users : v # u

\* Proposals are made by the other user; a removal also by its target.  Only
\* some kinds have a role or a seat as argument.
MCPlans == {plan \in Plan :
    /\ plan.by = Other(plan.user) \/ plan.kind = "offboard"
    /\ plan.kind \in {"invite", "role", "onboard"} \/ plan.role = "member"
    /\ plan.kind = "onboard" \/ ~plan.seat}

OffboardPlans == {plan \in MCPlans : plan.kind = "offboard"}

Row(s, r) == [status |-> s, role |-> r, version |-> 1]
MCFounding ==
    {[u \in Users |-> IF u = a THEN Row("active", "admin") ELSE row] :
        row \in {Absent, Row("invited", "member"), Row("active", "member"),
                 Row("active", "admin"), Row("suspended", "member"),
                 Row("removed", "member")}}

MCSymmetry == Permutations(Proposals)
====
