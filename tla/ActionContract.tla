--------------------------- MODULE ActionContract ---------------------------
(***************************************************************************)
(* What the governed action lifecycle promises of every proposal, whatever *)
(* the requests that act on it: the transitions of agent/action_state.py,  *)
(* with the outcome of the one execution a proposal may have.              *)
(***************************************************************************)
CONSTANT Proposals

VARIABLES
    status,   \* of the proposal, as its readers see it
    outcome   \* of its execution

vars == <<status, outcome>>

Init ==
    /\ status = [p \in Proposals |-> "absent"]
    /\ outcome = [p \in Proposals |-> "none"]

Move(p, from, to) ==
    /\ status[p] \in from
    /\ status' = [status EXCEPT ![p] = to]

Propose(p) == Move(p, {"absent"}, "pending_approval") /\ UNCHANGED outcome

\* Only a pending proposal is decided, and nothing undoes the decision.
Decide(p) ==
    /\ \E verdict \in {"approved", "rejected"} :
          Move(p, {"pending_approval"}, verdict)
    /\ UNCHANGED outcome

\* Cancelled by somebody, or by the clock.
Withdraw(p) ==
    /\ \E end \in {"cancelled", "expired"} :
          Move(p, {"pending_approval", "approved"}, end)
    /\ UNCHANGED outcome

Outdate(p) == Move(p, {"approved"}, "stale") /\ UNCHANGED outcome

Execute(p) ==
    /\ Move(p, {"approved"}, "executing")
    /\ outcome[p] = "none"
    /\ outcome' = [outcome EXCEPT ![p] = "executing"]

\* The proposal and its execution are closed together.
Resolve(p) ==
    \/ /\ Move(p, {"executing", "reconciliation_required"}, "succeeded")
       /\ outcome' = [outcome EXCEPT ![p] = "succeeded"]
    \/ /\ Move(p, {"executing"}, "reconciliation_required")
       /\ outcome' = [outcome EXCEPT ![p] = "reconciliation_required"]
    \/ /\ Move(p, {"executing"}, "stale")
       /\ outcome' = [outcome EXCEPT ![p] = "failed"]

Next == \E p \in Proposals :
    Propose(p) \/ Decide(p) \/ Withdraw(p) \/ Outdate(p) \/ Execute(p) \/ Resolve(p)

Spec == Init /\ [][Next]_vars
=============================================================================
