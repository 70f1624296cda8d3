----------------------------- MODULE RunContract -----------------------------
(***************************************************************************)
(* What agent runs promise to whoever submits and follows them, without    *)
(* workers, leases, versions or transactions: a run is accepted once, its  *)
(* log of events only grows, one conversation has one open run, and an     *)
(* open run is closed exactly once, by one terminal event that agrees with *)
(* its status.  AgentRuns implements this; RunEventStream reads it.        *)
(***************************************************************************)
EXTENDS Integers, Sequences

CONSTANTS Runs, Conversations, None

VARIABLES
    status,  \* the public status of each run
    conv,    \* the conversation of each run
    log      \* the events of each run, in the order of their sequence

contractVars == <<status, conv, log>>

Open == {"queued", "running", "cancel_requested"}
Answered == {"succeeded", "clarification_required", "proposal_ready"}
Closed == Answered \cup {"failed", "cancelled"}

\* The terminal event that announces each final status.
ClosingEvent ==
    [succeeded              |-> "answer.completed",
     clarification_required |-> "clarification.required",
     proposal_ready         |-> "proposal.created",
     cancelled              |-> "run.cancelled",
     failed                 |-> "run.failed"]
Terminal == {ClosingEvent[s] : s \in Closed}
Progress == {"run.started", "activity.updated", "run.cancel_requested"}

ContractInit ==
    /\ status = [r \in Runs |-> "absent"]
    /\ conv = [r \in Runs |-> None]
    /\ log = [r \in Runs |-> <<>>]

\* The commit of create_run.
Accept(r, c) ==
    /\ status[r] = "absent"
    /\ \A s \in Runs : conv[s] = c => status[s] \notin Open
    /\ status' = [status EXCEPT ![r] = "queued"]
    /\ conv' = [conv EXCEPT ![r] = c]
    /\ log' = [log EXCEPT ![r] = <<"run.accepted">>]

\* The commit of claim_next, which also overwrites cancel_requested.
Claimed(r) ==
    /\ status[r] \in Open
    /\ status' = [status EXCEPT ![r] = "running"]
    /\ UNCHANGED <<conv, log>>

\* The commit of request_cancellation.
CancelRequested(r) ==
    /\ status[r] \in Open
    /\ status' = [status EXCEPT ![r] = "cancel_requested"]
    /\ UNCHANGED <<conv, log>>

\* The commit of append_event.  The run may be closed already: the event of
\* a cancellation request, or of a worker that lost its lease, comes late.
Report(r, kind) ==
    /\ status[r] \in Open \cup Closed
    /\ log' = [log EXCEPT ![r] = Append(@, kind)]
    /\ UNCHANGED <<status, conv>>

\* The commit of complete_run, cancel_run or fail_run, which only a worker
\* that claimed the run calls.
Close(r, s) ==
    /\ status[r] \in {"running", "cancel_requested"}
    /\ status' = [status EXCEPT ![r] = s]
    /\ log' = [log EXCEPT ![r] = Append(@, ClosingEvent[s])]
    /\ UNCHANGED conv

ContractNext ==
    \E r \in Runs :
        \/ \E c \in Conversations : Accept(r, c)
        \/ Claimed(r) \/ CancelRequested(r)
        \/ \E kind \in Progress : Report(r, kind)
        \/ \E s \in Closed : Close(r, s)

Contract == ContractInit /\ [][ContractNext]_contractVars

\* An accepted run is closed in the end.
Promise == \A r \in Runs : (status[r] \in Open) ~> (status[r] \in Closed)

=============================================================================
