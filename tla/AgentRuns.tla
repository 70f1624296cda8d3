----------------------------- MODULE AgentRuns -----------------------------
(***************************************************************************)
(* The durable agent runs of the workplace agent: HTTP calls that create   *)
(* runs and request their cancellation, and leased workers that claim and  *)
(* execute them (app/repositories/agent_run_repository.py and              *)
(* app/services/agent_run_worker.py).                                      *)
(*                                                                         *)
(* Grain of atomicity.  Every repository operation is some SELECTs outside *)
(* a transaction, whose result is kept in a local, followed by one write   *)
(* transaction whose UPDATEs compare the row version with the one read.    *)
(* An operation is therefore a reading step and a writing step, and every  *)
(* other process may step in between.  A write whose comparison fails is   *)
(* rolled back and the row is read again; since a failed write changes     *)
(* nothing, failure and re-reading are one step.                           *)
(***************************************************************************)
EXTENDS Integers, FiniteSets

CONSTANTS
    Calls,       \* POST .../agent/runs requests; one names the run and the
                 \* conversation that it inserts
    Keys,        \* client_request_id values
    KeyOf,       \* the client_request_id a call carries
    Workers,     \* agent run coordinators, one per process
    Cancellers,  \* POST .../cancel handlers
    None,        \* no conversation, no owner, no run
    MaxTries,    \* range(6) and range(20) of the retry loops
    MaxStalls,   \* bound: leases that lapse while their owner is executing
    MaxCrashes   \* bound: workers that die or are shut down while busy

ASSUME CallsAssumption == None \notin Calls \cup Workers
ASSUME KeyOfAssumption == KeyOf \in [Calls -> Keys]
ASSUME BoundsAssumption ==
    MaxTries \in Nat \ {0} /\ MaxStalls \in Nat /\ MaxCrashes \in Nat

VARIABLES
    runs,       \* agent_runs
    events,     \* agent_run_events, a set of rows for each run
    convs,      \* agent_conversations
    messages,   \* agent_messages, a set of rows for each conversation
    proposals,  \* how many agent_action_proposals name the run as their source
    calls,      \* the state of each create_run call
    workers,    \* the state of each worker
    cancels,    \* the state of each request_cancellation call
    stalls,     \* counts toward MaxStalls
    crashes     \* counts toward MaxCrashes

store == <<runs, events, convs, messages, proposals>>
vars == <<store, calls, workers, cancels, stalls, crashes>>

-----------------------------------------------------------------------------
(* Rows.                                                                   *)

ActiveStatuses == {"queued", "running", "cancel_requested"}
Completed == {"succeeded", "clarification_required", "proposal_ready"}
TerminalStatuses == Completed \cup {"failed", "cancelled"}

Modes == {"read", "clarification_required", "action_proposal"}

StatusOf(mode) ==
    CASE mode = "read" -> "succeeded"
      [] mode = "clarification_required" -> "clarification_required"
      [] mode = "action_proposal" -> "proposal_ready"

\* The type of the one terminal event that goes with each final status.
TerminalKind(status) ==
    CASE status = "succeeded" -> "answer.completed"
      [] status = "clarification_required" -> "clarification.required"
      [] status = "proposal_ready" -> "proposal.created"
      [] status = "cancelled" -> "run.cancelled"
      [] status = "failed" -> "run.failed"

TerminalKinds ==
    {"answer.completed", "clarification.required", "proposal.created",
     "run.cancelled", "run.failed"}
Kinds == TerminalKinds \cup
    {"run.accepted", "run.started", "activity.updated", "run.cancel_requested"}

Run == [status   : ActiveStatuses \cup TerminalStatuses \cup {"absent"},
        slot     : BOOLEAN,                        \* active_slot is 1
        version  : Nat,
        conv     : Calls \cup {None},
        owner    : Workers \cup {None},            \* lease_owner
        lease    : {"none", "live", "expired"},    \* lease_expires_at and now
        attempts : Nat,                            \* attempt_count
        cancel   : BOOLEAN,                        \* cancellation_requested_at
        next     : Nat,                            \* next_event_sequence
        proposal : BOOLEAN]                        \* proposal_id is set

AbsentRun == [status |-> "absent", slot |-> FALSE, version |-> 0,
              conv |-> None, owner |-> None, lease |-> "none",
              attempts |-> 0, cancel |-> FALSE, next |-> 0,
              proposal |-> FALSE]

Event == [seq : Nat, kind : Kinds]
Message == [seq : Nat, role : {"user", "assistant"}, run : Calls]

Conversation == [status : {"absent", "active", "archived"},
                 version : Nat, next : Nat]
AbsentConversation == [status |-> "absent", version |-> 0, next |-> 0]

\* What a session keeps of the conversation row it has read.
ConvSnapshot == [version : Nat, next : Nat]
SeenConv(row) == [version |-> row.version, next |-> row.next]
NoConversation == SeenConv(AbsentConversation)

\* What a session keeps of the run row it has read.
Snapshot == [version : Nat, next : Nat, attempts : Nat,
             status : ActiveStatuses \cup TerminalStatuses \cup {"absent"}]
Seen(row) == [version |-> row.version, next |-> row.next,
              attempts |-> row.attempts, status |-> row.status]
NoSnapshot == Seen(AbsentRun)

Turns == 0 .. (MaxTries - 1)  \* of a retry loop

Created(r) == runs[r].status # "absent"
Finished(r) == runs[r].status \in TerminalStatuses
ActiveRuns(c) ==
    {r \in Calls : runs[r].conv = c /\ runs[r].status \in ActiveStatuses}
HolderOf(key) == {r \in Calls : Created(r) /\ KeyOf[r] = key}

-----------------------------------------------------------------------------
(* Writes shared by several operations.                                    *)

\* WHERE id = r AND version = the version read
Unchanged(r, seen) == runs[r].version = seen.version

\* Unique constraints on (run_id, sequence) and (conversation_id, sequence).
EventFree(r, n) == \A e \in events[r] : e.seq # n
MessageFree(c, n) == \A m \in messages[c] : m.seq # n

AddEvent(r, n, kind) ==
    events' = [events EXCEPT ![r] = @ \cup {[seq |-> n, kind |-> kind]}]

AddMessage(c, n, role, r) ==
    messages' = [messages EXCEPT
        ![c] = @ \cup {[seq |-> n, role |-> role, run |-> r]}]

\* Mutant: an append without the comparison and the constraint.
CanAlwaysAppend(r, seen) == TRUE

CanAppend(r, seen) == Unchanged(r, seen) /\ EventFree(r, seen.next)

\* append_event: no look at the status of the run
AppendEvent(r, seen, kind) ==
    /\ CanAppend(r, seen)
    /\ runs' = [runs EXCEPT
          ![r] = [@ EXCEPT !.next = seen.next + 1, !.version = seen.version + 1]]
    /\ AddEvent(r, seen.next, kind)
    /\ UNCHANGED <<convs, messages, proposals>>

-----------------------------------------------------------------------------
(* create_run.  Reading: the lookup by client_request_id.  Checking: the   *)
(* conversation row and find_active_run.  Writing: the UPDATE of the       *)
(* conversation and the INSERTs, or the IntegrityError of a constraint.    *)

CallPhases == {"reading", "checking", "writing", "done"}
Outcomes == {"pending", "created", "existing", "busy", "not_found", "error"}
Call == [phase   : CallPhases,
         target  : Calls \cup {None},       \* conversation_id of the request
         seen    : ConvSnapshot,
         tries   : Turns,
         outcome : Outcomes,
         run     : Calls \cup {None}]       \* the run of the response

Answer(k, outcome, r) ==
    calls' = [calls EXCEPT
        ![k] = [@ EXCEPT !.phase = "done", !.outcome = outcome, !.run = r]]

\* The run found by client_request_id is the answer, if its conversation is
\* still active: require_conversation raises LookupError otherwise.
AnswerExisting(k, r) ==
    Answer(k, IF convs[runs[r].conv].status = "active"
                THEN "existing" ELSE "not_found", r)

LookUpKey(k) ==
    LET holders == HolderOf(KeyOf[k])
    IN  /\ calls[k].phase = "reading"
        /\ \/ \E r \in holders : AnswerExisting(k, r)
           \/ /\ holders = {}
              /\ calls' = [calls EXCEPT ![k] = [@ EXCEPT !.phase = "checking"]]
        /\ UNCHANGED <<store, workers, cancels, stalls, crashes>>

ReadForCreate(k) ==
    LET c == calls[k].target
    IN  /\ calls[k].phase = "checking"
        /\ \/ /\ c # None /\ convs[c].status # "active"
              /\ Answer(k, "not_found", None)
           \/ /\ c # None /\ convs[c].status = "active"
              /\ ActiveRuns(c) # {}
              /\ Answer(k, "busy", None)
           \/ /\ c # None => convs[c].status = "active" /\ ActiveRuns(c) = {}
              /\ calls' = [calls EXCEPT
                    ![k] = [@ EXCEPT !.phase = "writing",
                                     !.seen = IF c = None THEN NoConversation
                                                          ELSE SeenConv(convs[c])]]
        /\ UNCHANGED <<store, workers, cancels, stalls, crashes>>

\* Rollback and another turn of the loop, or RuntimeError after the last one.
RetryCreate(k) ==
    IF calls[k].tries + 1 = MaxTries
      THEN Answer(k, "error", None)
      ELSE calls' = [calls EXCEPT
              ![k] = [@ EXCEPT !.phase = "reading", !.tries = calls[k].tries + 1]]

\* Mutant: no unique constraint on the client_request_id.
NoKeyConstraint(key) == TRUE

\* Unique (organization, user, client_request_id) and (conversation,
\* active_slot) constraints; rows whose active_slot is NULL never conflict.
KeyFree(key) == HolderOf(key) = {}
SlotFree(c) == \A r \in Calls : runs[r].conv = c => ~runs[r].slot

InsertRun(k, c) ==
    /\ runs' = [runs EXCEPT ![k] =
          [AbsentRun EXCEPT !.status = "queued", !.slot = TRUE, !.version = 1,
                            !.conv = c, !.next = 2]]
    /\ AddEvent(k, 1, "run.accepted")

CreateInNewConversation(k) ==
    /\ calls[k].phase = "writing" /\ calls[k].target = None
    /\ KeyFree(KeyOf[k])
    /\ convs' = [convs EXCEPT
          ![k] = [status |-> "active", version |-> 1, next |-> 2]]
    /\ InsertRun(k, k)
    /\ AddMessage(k, 1, "user", k)
    /\ Answer(k, "created", k)
    /\ UNCHANGED <<proposals, workers, cancels, stalls, crashes>>

ConversationUnchanged(c, seen) == convs[c].version = seen.version

\* Mutant: the conversation's next_message_sequence is not advanced.
CreateWithoutAdvance(k) ==
    LET c == calls[k].target
        seen == calls[k].seen
    IN  /\ calls[k].phase = "writing" /\ c # None
        /\ ConversationUnchanged(c, seen)
        /\ KeyFree(KeyOf[k]) /\ SlotFree(c) /\ MessageFree(c, seen.next)
        /\ convs' = [convs EXCEPT ![c] = [@ EXCEPT !.version = seen.version + 1]]
        /\ InsertRun(k, c)
        /\ AddMessage(c, seen.next, "user", k)
        /\ Answer(k, "created", k)
        /\ UNCHANGED <<proposals, workers, cancels, stalls, crashes>>

\* The UPDATE of the conversation looks at its version only, not at its
\* status: an archived conversation may still receive the run.
CreateInConversation(k) ==
    LET c == calls[k].target
        seen == calls[k].seen
    IN  /\ calls[k].phase = "writing" /\ c # None
        /\ ConversationUnchanged(c, seen)
        /\ KeyFree(KeyOf[k]) /\ SlotFree(c) /\ MessageFree(c, seen.next)
        /\ convs' = [convs EXCEPT
              ![c] = [@ EXCEPT !.version = seen.version + 1,
                               !.next = seen.next + 1]]
        /\ InsertRun(k, c)
        /\ AddMessage(c, seen.next, "user", k)
        /\ Answer(k, "created", k)
        /\ UNCHANGED <<proposals, workers, cancels, stalls, crashes>>

\* The comparison of the version failed: rollback and retry.
CreateLosesRace(k) ==
    LET c == calls[k].target
    IN  /\ calls[k].phase = "writing" /\ c # None
        /\ ~ConversationUnchanged(c, calls[k].seen)
        /\ RetryCreate(k)
        /\ UNCHANGED <<store, workers, cancels, stalls, crashes>>

\* IntegrityError: the run that took the key, then Busy, then a retry.
CreateConflicts(k) ==
    LET c == calls[k].target
        holders == HolderOf(KeyOf[k])
    IN  /\ calls[k].phase = "writing"
        /\ \/ ~KeyFree(KeyOf[k])
           \/ /\ c # None
              /\ ~(SlotFree(c) /\ MessageFree(c, calls[k].seen.next))
        /\ c # None => ConversationUnchanged(c, calls[k].seen)
        /\ \/ \E r \in holders : AnswerExisting(k, r)
           \/ /\ holders = {} /\ ActiveRuns(c) # {}
              /\ Answer(k, "busy", None)
           \/ /\ holders = {} /\ ActiveRuns(c) = {}
              /\ RetryCreate(k)
        /\ UNCHANGED <<store, workers, cancels, stalls, crashes>>

\* archive_conversation: unconditional, and does not advance the version.
Archive(c) ==
    /\ convs[c].status = "active"
    /\ convs' = [convs EXCEPT ![c] = [@ EXCEPT !.status = "archived"]]
    /\ UNCHANGED <<runs, events, messages, proposals,
                   calls, workers, cancels, stalls, crashes>>

-----------------------------------------------------------------------------
(* request_cancellation.  A call that finds the run finished, or its       *)
(* cancellation already requested, returns at once and changes nothing.    *)

Cancel == [phase : {"idle", "writing", "announcing"},
           run : Calls \cup {None}, seen : Snapshot, tries : Turns]
IdleCancel ==
    [phase |-> "idle", run |-> None, seen |-> NoSnapshot, tries |-> 0]

RequestCancellation(u, r) ==
    /\ cancels[u].phase = "idle"
    /\ runs[r].status \in ActiveStatuses /\ ~runs[r].cancel
    /\ cancels' = [cancels EXCEPT ![u] =
          [phase |-> "writing", run |-> r, seen |-> Seen(runs[r]), tries |-> 0]]
    /\ UNCHANGED <<store, calls, workers, stalls, crashes>>

WriteCancellation(u) ==
    LET r == cancels[u].run
        seen == cancels[u].seen
    IN  /\ cancels[u].phase = "writing"
        /\ Unchanged(r, seen) /\ runs[r].status \in ActiveStatuses
        /\ runs' = [runs EXCEPT
              ![r] = [@ EXCEPT !.cancel = TRUE, !.status = "cancel_requested",
                               !.version = seen.version + 1]]
        /\ cancels' = [cancels EXCEPT
              ![u] = [@ EXCEPT !.phase = "announcing", !.seen = Seen(runs'[r]),
                               !.tries = 0]]
        /\ UNCHANGED <<events, convs, messages, proposals,
                       calls, workers, stalls, crashes>>

\* Mutant: the loop does not stop at its last turn.
RetryCancelForever(u, done) ==
    LET me == cancels[u]
    IN  cancels' = [cancels EXCEPT ![u] =
            IF done \/ me.tries = MaxTries
              THEN IdleCancel
              ELSE [me EXCEPT !.seen = Seen(runs[me.run]), !.tries = me.tries + 1]]

RetryCancel(u, done) ==
    LET me == cancels[u]
    IN  cancels' = [cancels EXCEPT ![u] =
            IF done \/ me.tries + 1 = MaxTries
              THEN IdleCancel
              ELSE [me EXCEPT !.seen = Seen(runs[me.run]), !.tries = me.tries + 1]]

CancellationLosesRace(u) ==
    LET r == cancels[u].run
    IN  /\ cancels[u].phase = "writing"
        /\ ~Unchanged(r, cancels[u].seen)
        /\ RetryCancel(u, Finished(r) \/ runs[r].cancel)
        /\ UNCHANGED <<store, calls, workers, stalls, crashes>>

\* append_event of run.cancel_requested, in a transaction of its own.
AnnounceCancellation(u) ==
    LET r == cancels[u].run
        seen == cancels[u].seen
    IN  /\ cancels[u].phase = "announcing"
        /\ \/ /\ AppendEvent(r, seen, "run.cancel_requested")
              /\ cancels' = [cancels EXCEPT ![u] = IdleCancel]
           \/ /\ ~CanAppend(r, seen)
              /\ RetryCancel(u, FALSE)
              /\ UNCHANGED store
        /\ UNCHANGED <<calls, workers, stalls, crashes>>

-----------------------------------------------------------------------------
(* The worker: claim_next, then AgentRunExecutor.execute with the response *)
(* service inlined.  Between two of its accesses to the database the code  *)
(* reads, plans and synthesises; that work may raise, which is a failure   *)
(* of the phase it leads to.  Checkpoints with nothing between them are    *)
(* one.                                                                    *)

\* The phases that may follow a successful checkpoint or activity event.  One
\* event and one checkpoint stand for those of all the tool calls of a plan.
\* A requester who is gone makes the run fail, with the row read at first.
Follows ==
    [check_requester |-> {"emit_access", "fail"},
     emit_access     |-> {"check_access"},
     check_access    |-> {"emit_planning"},
     emit_planning   |-> {"check_plan"},
     check_plan      |-> {"complete", "emit_proposal", "emit_retrieval"},
     emit_proposal   |-> {"check_proposal"},
     check_proposal  |-> {"propose"},
     emit_retrieval  |-> {"check_results"},
     check_results   |-> {"emit_answer"},
     emit_answer     |-> {"check_answer"},
     check_answer    |-> {"complete"}]

EmitPhases ==
    {"emit_access", "emit_planning", "emit_proposal", "emit_retrieval", "emit_answer"}
CheckPhases == DOMAIN Follows \ EmitPhases
Executing == DOMAIN Follows \cup
    {"find_proposal", "propose", "complete", "commit", "cancel", "fail"}
Phases == Executing \cup {"idle", "claiming", "announcing", "starting"}

\* The mode of a completion that follows this checkpoint.
ModeOf(phase) ==
    IF phase = "check_plan" THEN "clarification_required" ELSE "read"

Worker == [phase : Phases,
           run   : Calls \cup {None},
           seen  : Snapshot,                        \* the session's run row
           conv  : ConvSnapshot,                    \* its conversation row
           mode  : Modes \cup {"none"},             \* completion.mode
           tries : Turns]
IdleWorker == [phase |-> "idle", run |-> None, seen |-> NoSnapshot,
               conv |-> NoConversation, mode |-> "none", tries |-> 0]

RunOf(w) == workers[w].run
SeenBy(w) == workers[w].seen

Become(w, new) == workers' = [workers EXCEPT ![w] = new]
GoTo(w, phase, row) ==
    Become(w, [workers[w] EXCEPT !.phase = phase, !.seen = Seen(row), !.tries = 0])
Stop(w) == Become(w, IdleWorker)

\* A lost comparison: rollback, expire_all and another turn in phase "again";
\* after the last turn the RuntimeError leads to phase "raised".
Retry(w, again, raised) ==
    IF workers[w].tries + 1 = MaxTries
      THEN GoTo(w, raised, runs[RunOf(w)])
      ELSE Become(w, [workers[w] EXCEPT !.phase = again,
                                        !.seen = Seen(runs[RunOf(w)]),
                                        !.tries = workers[w].tries + 1])

\* Mutant: failed runs are tried again.
FailedClaimable(row) ==
    \/ row.status \in {"queued", "failed"}
    \/ row.status = "cancel_requested" /\ (row.owner = None \/ row.lease # "live")
    \/ row.status = "running" /\ row.lease = "expired"

\* Mutant: only queued and cancelled runs are looked for.
RunningNotClaimable(row) ==
    \/ row.status = "queued"
    \/ row.status = "cancel_requested" /\ (row.owner = None \/ row.lease # "live")

Claimable(row) ==
    \/ row.status = "queued"
    \/ row.status = "cancel_requested" /\ (row.owner = None \/ row.lease # "live")
    \/ row.status = "running" /\ row.lease = "expired"

\* The SELECT of claim_next.  Any of the candidates may be the one the loop
\* gets to, which covers the order by created_at.
SelectCandidate(w, r) ==
    /\ workers[w].phase = "idle"
    /\ Claimable(runs[r])
    /\ Become(w, [IdleWorker EXCEPT !.phase = "claiming", !.run = r,
                                    !.seen = Seen(runs[r])])
    /\ UNCHANGED <<store, calls, cancels, stalls, crashes>>

\* The first attempt is announced if the candidate still shows no attempt.
\* The UPDATE may have brought the candidate up to date (the ORM synchronises
\* the objects of its session), and then it is not.
AfterClaim(seen) ==
    IF seen.attempts = 0 THEN {"announcing", "starting"} ELSE {"starting"}

\* Mutant: the UPDATE compares nothing.
ClaimWithoutComparison(w) ==
    LET r == RunOf(w)
        seen == SeenBy(w)
    IN  /\ workers[w].phase = "claiming"
        /\ runs' = [runs EXCEPT
              ![r] = [@ EXCEPT !.status = "running", !.owner = w, !.lease = "live",
                               !.attempts = seen.attempts + 1,
                               !.version = seen.version + 1]]
        /\ \E next \in AfterClaim(seen) : GoTo(w, next, runs'[r])
        /\ UNCHANGED <<events, convs, messages, proposals,
                       calls, cancels, stalls, crashes>>

\* The UPDATE compares the version, and neither the status nor the lease.
Claim(w) ==
    LET r == RunOf(w)
        seen == SeenBy(w)
    IN  /\ workers[w].phase = "claiming"
        /\ Unchanged(r, seen)
        /\ runs' = [runs EXCEPT
              ![r] = [@ EXCEPT !.status = "running", !.owner = w, !.lease = "live",
                               !.attempts = seen.attempts + 1,
                               !.version = seen.version + 1]]
        /\ \E next \in AfterClaim(seen) : GoTo(w, next, runs'[r])
        /\ UNCHANGED <<events, convs, messages, proposals,
                       calls, cancels, stalls, crashes>>

ClaimLost(w) ==
    /\ workers[w].phase = "claiming"
    /\ ~Unchanged(RunOf(w), SeenBy(w))
    /\ Stop(w)
    /\ UNCHANGED <<store, calls, cancels, stalls, crashes>>

\* append_event of run.started; its RuntimeError ends run_once, and the run
\* waits for its lease to lapse.
AnnounceStart(w) ==
    LET r == RunOf(w)
    IN  /\ workers[w].phase = "announcing"
        /\ \/ /\ AppendEvent(r, SeenBy(w), "run.started")
              /\ GoTo(w, "starting", runs'[r])
           \/ /\ ~CanAppend(r, SeenBy(w))
              /\ IF workers[w].tries + 1 = MaxTries
                   THEN Stop(w) ELSE Retry(w, "announcing", "idle")
              /\ UNCHANGED store
        /\ UNCHANGED <<calls, cancels, stalls, crashes>>

StartExecution(w) ==
    /\ workers[w].phase = "starting"
    /\ IF Finished(RunOf(w))
         THEN Stop(w) ELSE GoTo(w, "find_proposal", runs[RunOf(w)])
    /\ UNCHANGED <<store, calls, cancels, stalls, crashes>>

\* Mutant: no lookup of a proposal that is already committed.
NeverFindProposal(w) ==
    /\ workers[w].phase = "find_proposal"
    /\ Become(w, [workers[w] EXCEPT !.phase = "check_requester"])
    /\ UNCHANGED <<store, calls, cancels, stalls, crashes>>

\* A reclaimed run whose proposal was committed is completed with it, before
\* any checkpoint.
FindProposal(w) ==
    /\ workers[w].phase = "find_proposal"
    /\ Become(w, IF proposals[RunOf(w)] > 0
                   THEN [workers[w] EXCEPT !.phase = "complete",
                                           !.mode = "action_proposal"]
                   ELSE [workers[w] EXCEPT !.phase = "check_requester"])
    /\ UNCHANGED <<store, calls, cancels, stalls, crashes>>

\* Any exception: rollback, then fail_run.
Raise(w) == GoTo(w, "fail", runs[RunOf(w)])

\* Mutant: checkpoint() looks at the status, which the claim has overwritten.
CheckpointByStatus(w) ==
    LET phase == workers[w].phase
        cancelled == runs[RunOf(w)].status = "cancel_requested"
    IN  /\ phase \in CheckPhases
        /\ \/ cancelled /\ GoTo(w, "cancel", runs[RunOf(w)])
           \/ /\ ~cancelled
              /\ \E next \in Follows[phase] :
                    Become(w, [workers[w] EXCEPT
                        !.phase = next,
                        !.mode = IF next = "complete" THEN ModeOf(phase) ELSE @])
        /\ UNCHANGED <<store, calls, cancels, stalls, crashes>>

\* checkpoint() reads the column, not the row the session holds.
Checkpoint(w) ==
    LET phase == workers[w].phase
        cancelled == runs[RunOf(w)].cancel
    IN  /\ phase \in CheckPhases
        /\ \/ cancelled /\ GoTo(w, "cancel", runs[RunOf(w)])
           \/ /\ ~cancelled
              /\ \E next \in Follows[phase] :
                    Become(w, [workers[w] EXCEPT
                        !.phase = next,
                        !.mode = IF next = "complete" THEN ModeOf(phase) ELSE @])
        /\ UNCHANGED <<store, calls, cancels, stalls, crashes>>

WorkRaises(w) ==
    /\ workers[w].phase \in CheckPhases \cup {"propose"}
    /\ Raise(w)
    /\ UNCHANGED <<store, calls, cancels, stalls, crashes>>

Emit(w) ==
    LET phase == workers[w].phase
        r == RunOf(w)
    IN  /\ phase \in EmitPhases
        /\ \/ /\ AppendEvent(r, SeenBy(w), "activity.updated")
              /\ \E next \in Follows[phase] : GoTo(w, next, runs'[r])
           \/ /\ ~CanAppend(r, SeenBy(w))
              /\ Retry(w, phase, "fail")
              /\ UNCHANGED store
        /\ UNCHANGED <<calls, cancels, stalls, crashes>>

\* Mutant: neither the lookup nor the constraint on source_agent_run_id.
ProposeAgain(w) ==
    LET r == RunOf(w)
    IN  /\ workers[w].phase = "propose"
        /\ proposals' = [proposals EXCEPT ![r] = @ + 1]
        /\ \/ Become(w, [workers[w] EXCEPT !.phase = "complete",
                                           !.mode = "action_proposal"])
           \/ Raise(w)
        /\ UNCHANGED <<runs, events, convs, messages,
                       calls, cancels, stalls, crashes>>

\* create_proposal returns the proposal that already names the run, by its
\* lookup or by the unique source_agent_run_id, and otherwise commits one;
\* the audit append after the commit may raise.
Propose(w) ==
    LET r == RunOf(w)
    IN  /\ workers[w].phase = "propose"
        /\ proposals' = [proposals EXCEPT ![r] = IF @ = 0 THEN 1 ELSE @]
        /\ \/ Become(w, [workers[w] EXCEPT !.phase = "complete",
                                           !.mode = "action_proposal"])
           \/ Raise(w)
        /\ UNCHANGED <<runs, events, convs, messages,
                       calls, cancels, stalls, crashes>>

\* complete_run, first half: the conversation row is read after the run row.
ReadConversation(w) ==
    LET c == runs[RunOf(w)].conv
    IN  /\ workers[w].phase = "complete"
        /\ Become(w, [workers[w] EXCEPT
              !.phase = "commit",
              !.conv = SeenConv(convs[c])])
        /\ UNCHANGED <<store, calls, cancels, stalls, crashes>>

\* Mutant: the run is updated without its version and its status.
CanCompleteBlindly(r, seen, seenConv) ==
    LET c == runs[r].conv
    IN  /\ ConversationUnchanged(c, seenConv)
        /\ EventFree(r, seen.next) /\ MessageFree(c, seenConv.next)

CanComplete(r, seen, seenConv) ==
    LET c == runs[r].conv
    IN  /\ ConversationUnchanged(c, seenConv)
        /\ Unchanged(r, seen)
        /\ runs[r].status \in {"running", "cancel_requested"}
        /\ EventFree(r, seen.next) /\ MessageFree(c, seenConv.next)

\* The columns a finished run is left with.
Finish(r, seen, status, proposal) ==
    runs' = [runs EXCEPT
        ![r] = [@ EXCEPT !.status = status, !.slot = FALSE,
                         !.owner = None, !.lease = "none", !.proposal = proposal,
                         !.next = seen.next + 1, !.version = seen.version + 1]]

\* complete_run, second half: conversation, run, answer and terminal event
\* in one transaction.
Complete(w) ==
    LET r == RunOf(w)
        c == runs[r].conv
        me == workers[w]
    IN  /\ me.phase = "commit"
        /\ CanComplete(r, me.seen, me.conv)
        /\ convs' = [convs EXCEPT
              ![c] = [@ EXCEPT !.version = me.conv.version + 1,
                               !.next = me.conv.next + 1]]
        /\ Finish(r, me.seen, StatusOf(me.mode), me.mode = "action_proposal")
        /\ AddMessage(c, me.conv.next, "assistant", r)
        /\ AddEvent(r, me.seen.next, TerminalKind(StatusOf(me.mode)))
        /\ Stop(w)
        /\ UNCHANGED <<proposals, calls, cancels, stalls, crashes>>

CompletionLosesRace(w) ==
    /\ workers[w].phase = "commit"
    /\ ~CanComplete(RunOf(w), SeenBy(w), workers[w].conv)
    /\ Retry(w, "complete", "fail")
    /\ UNCHANGED <<store, calls, cancels, stalls, crashes>>

\* _finish_without_message for cancel_run and fail_run.  Neither the owner
\* of the lease nor the status is compared, the version is.
FinishWithoutMessage(w) ==
    LET r == RunOf(w)
        seen == SeenBy(w)
        status == IF workers[w].phase = "cancel" THEN "cancelled" ELSE "failed"
    IN  /\ workers[w].phase \in {"cancel", "fail"}
        /\ \/ /\ seen.status \in TerminalStatuses
              /\ Stop(w)
              /\ UNCHANGED store
           \/ /\ seen.status \notin TerminalStatuses
              /\ CanAppend(r, seen)
              /\ Finish(r, seen, status, runs[r].proposal)
              /\ AddEvent(r, seen.next, TerminalKind(status))
              /\ Stop(w)
              /\ UNCHANGED <<convs, messages, proposals>>
           \/ /\ seen.status \notin TerminalStatuses
              /\ ~CanAppend(r, seen)
              /\ IF workers[w].tries + 1 = MaxTries
                   THEN Stop(w)
                   ELSE Retry(w, workers[w].phase, "idle")
              /\ UNCHANGED store
        /\ UNCHANGED <<calls, cancels, stalls, crashes>>

-----------------------------------------------------------------------------
(* Leases, time and processes.                                             *)

\* The renewal task of an execution; it ends when the row names another
\* owner.  Renewing a live lease changes nothing here.  The version stays.
RenewLease(w) ==
    LET r == RunOf(w)
    IN  /\ workers[w].phase \in Executing
        /\ runs[r].owner = w
        /\ runs[r].status \in {"running", "cancel_requested"}
        /\ runs[r].lease = "expired"
        /\ runs' = [runs EXCEPT ![r] = [@ EXCEPT !.lease = "live"]]
        /\ UNCHANGED <<events, convs, messages, proposals,
                       calls, workers, cancels, stalls, crashes>>

Attended(r) ==
    \E w \in Workers : /\ runs[r].owner = w
                       /\ workers[w].run = r
                       /\ workers[w].phase \notin {"idle", "claiming"}

\* Time passes.  The lease of a run that its owner executes lapses only when
\* the renewal comes too late: the process stalls, or the database does.
LeaseExpires(r) ==
    /\ runs[r].lease = "live"
    /\ runs' = [runs EXCEPT ![r] = [@ EXCEPT !.lease = "expired"]]
    /\ UNCHANGED <<events, convs, messages, proposals,
                   calls, workers, cancels, crashes>>

UnattendedLeaseExpires(r) ==
    ~Attended(r) /\ LeaseExpires(r) /\ UNCHANGED stalls
AttendedLeaseExpires(r) ==
    /\ Attended(r) /\ stalls < MaxStalls
    /\ LeaseExpires(r) /\ stalls' = stalls + 1

\* A worker dies, or stop() cancels its task: asyncio.CancelledError is
\* raised again, nothing is written, and a new process takes its place.
Crash(w) ==
    /\ workers[w].phase # "idle" /\ crashes < MaxCrashes
    /\ Stop(w)
    /\ crashes' = crashes + 1
    /\ UNCHANGED <<store, calls, cancels, stalls>>

-----------------------------------------------------------------------------
(* The specification.                                                      *)

Init ==
    /\ runs = [r \in Calls |-> AbsentRun]
    /\ events = [r \in Calls |-> {}]
    /\ convs = [c \in Calls |-> AbsentConversation]
    /\ messages = [c \in Calls |-> {}]
    /\ proposals = [r \in Calls |-> 0]
    /\ \E target \in [Calls -> Calls \cup {None}] :
          calls = [k \in Calls |->
                     [phase |-> "reading", target |-> target[k],
                      seen |-> NoConversation, tries |-> 0,
                      outcome |-> "pending", run |-> None]]
    /\ workers = [w \in Workers |-> IdleWorker]
    /\ cancels = [u \in Cancellers |-> IdleCancel]
    /\ stalls = 0
    /\ crashes = 0

CallStep(k) ==
    \/ LookUpKey(k) \/ ReadForCreate(k)
    \/ CreateInNewConversation(k) \/ CreateInConversation(k)
    \/ CreateLosesRace(k) \/ CreateConflicts(k)

CancelStep(u) ==
    \/ \E r \in Calls : RequestCancellation(u, r)
    \/ WriteCancellation(u) \/ CancellationLosesRace(u) \/ AnnounceCancellation(u)

WorkerStep(w) ==
    \/ \E r \in Calls : SelectCandidate(w, r)
    \/ Claim(w) \/ ClaimLost(w) \/ AnnounceStart(w)
    \/ StartExecution(w) \/ FindProposal(w)
    \/ Checkpoint(w) \/ WorkRaises(w) \/ Emit(w) \/ Propose(w)
    \/ ReadConversation(w) \/ Complete(w) \/ CompletionLosesRace(w)
    \/ FinishWithoutMessage(w)

Environment ==
    \/ \E w \in Workers : RenewLease(w) \/ Crash(w)
    \/ \E r \in Calls : UnattendedLeaseExpires(r) \/ AttendedLeaseExpires(r)
    \/ \E c \in Calls : Archive(c)

Next ==
    \/ \E k \in Calls : CallStep(k)
    \/ \E u \in Cancellers : CancelStep(u)
    \/ \E w \in Workers : WorkerStep(w)
    \/ Environment

Spec == Init /\ [][Next]_vars

\* Every coordinator loop goes on (it polls every 0.75 s and a dead process
\* is replaced), and time passes for a lease that nobody renews.  Nothing is
\* assumed of the clients, of renewals, or of failures.
Fairness ==
    /\ \A w \in Workers : WF_vars(WorkerStep(w))
    /\ \A r \in Calls : WF_vars(UnattendedLeaseExpires(r))

FairSpec == Spec /\ Fairness

-----------------------------------------------------------------------------
(* Properties.                                                             *)

TypeOK ==
    /\ runs \in [Calls -> Run]
    /\ events \in [Calls -> SUBSET Event]
    /\ convs \in [Calls -> Conversation]
    /\ messages \in [Calls -> SUBSET Message]
    /\ proposals \in [Calls -> Nat]
    /\ calls \in [Calls -> Call]
    /\ workers \in [Workers -> Worker]
    /\ cancels \in [Cancellers -> Cancel]
    /\ stalls \in 0 .. MaxStalls
    /\ crashes \in 0 .. MaxCrashes

\* Two runs of one conversation are never active together, whoever creates,
\* claims or finishes them: what find_active_run, the version comparison and
\* the active_slot constraint are for.
OneActiveRun ==
    \A r, s \in Calls :
        /\ runs[r].status \in ActiveStatuses
        /\ runs[s].status \in ActiveStatuses
        /\ runs[r].conv = runs[s].conv
        => r = s

\* The calls that carry one client_request_id and are answered with a run
\* are all answered with the same run, and one run holds the key.
IdempotentCreate ==
    \A j, k \in Calls :
        KeyOf[j] = KeyOf[k] =>
            /\ Created(j) /\ Created(k) => j = k
            /\ calls[j].run # None /\ calls[k].run # None
                  => calls[j].run = calls[k].run

\* A finished run has exactly one terminal event, the one of its status, and
\* a completed one has one assistant message in its conversation; no other run
\* has any.  Several workers, a late cancellation and a reclaimed lease may all
\* try to finish or to write: the run still ends once and answers once.
OneEnding ==
    \A r, c \in Calls :
        LET terminal == {e \in events[r] : e.kind \in TerminalKinds}
            answers == {m \in messages[c] : m.run = r /\ m.role = "assistant"}
        IN  /\ IF Finished(r)
                 THEN \E e \in terminal : /\ terminal = {e}
                                          /\ e.kind = TerminalKind(runs[r].status)
                 ELSE terminal = {}
            /\ IF runs[r].status \in Completed /\ runs[r].conv = c
                 THEN \E m \in answers : answers = {m}
                 ELSE answers = {}

\* The events of a run are numbered 1, 2, ... without gap or duplicate up to
\* next_event_sequence, so a reader with a cursor misses nothing.
EventsDense ==
    \A r \in Calls :
        /\ {e.seq : e \in events[r]} = 1 .. (runs[r].next - 1)
        /\ \A e, f \in events[r] : e.seq = f.seq => e = f

\* The same for the messages of a conversation, written by creations and
\* completions.
MessagesDense ==
    \A c \in Calls :
        /\ {m.seq : m \in messages[c]} = 1 .. (convs[c].next - 1)
        /\ \A m, n \in messages[c] : m.seq = n.seq => m = n

\* No run is the source of two proposals, and a run that is proposal_ready
\* has one.
OneProposal ==
    \A r \in Calls :
        /\ proposals[r] <= 1
        /\ runs[r].status = "proposal_ready" => runs[r].proposal /\ proposals[r] = 1

\* While no lease lapses under a worker that still executes, a cancelled run
\* has left no proposal behind: the proposal is looked for before the first
\* checkpoint, and nothing is checked after it is committed.
CancelledWithoutProposal ==
    stalls = 0 =>
        \A r \in Calls : runs[r].status = "cancelled" => proposals[r] = 0

\* A finished run stays as it is: its status, answer and proposal never
\* change, its slot is never taken again and no lease is granted on it.
FinishedForever ==
    [][\A r \in Calls : Finished(r) =>
          /\ runs'[r].status = runs[r].status
          /\ runs'[r].proposal = runs[r].proposal
          /\ ~runs'[r].slot /\ runs'[r].owner = None /\ runs'[r].lease = "none"
          /\ runs'[r].cancel = runs[r].cancel]_vars

\* A run whose cancellation is requested before any worker claims it never
\* does anything: it proposes nothing, and does not complete.
CancelledBeforeClaim ==
    \A r \in Calls :
        [](runs[r].cancel /\ runs[r].attempts = 0
            => [](proposals[r] = 0 /\ runs[r].status \notin Completed))

\* The rows, seen as the contract sees them: the log of a run is its events
\* in the order of their sequence numbers.
LogOf(r) ==
    [n \in 1 .. (runs[r].next - 1) |->
        LET row == CHOOSE e \in events[r] : e.seq = n IN row.kind]

Public == INSTANCE RunContract WITH
    Runs <- Calls, Conversations <- Calls,
    status <- [r \in Calls |-> runs[r].status],
    conv <- [r \in Calls |-> runs[r].conv],
    log <- [r \in Calls |-> LogOf(r)]

\* The rows implement the contract of a run: every commit of every process is
\* one step of it or changes nothing that it shows.
ImplementsContract == Public!Contract

\* With the fairness of the coordinators they keep its promise: every run
\* that is accepted is finished in the end, through crashes, lapsed leases
\* and lost comparisons.
EveryRunFinishes == Public!Promise

=============================================================================
