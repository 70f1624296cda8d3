--------------------------- MODULE ActionLifecycle ---------------------------
(***************************************************************************)
(* Governed actions: proposals that are approved, executed once and, when  *)
(* the outcome is unknown, reconciled                                      *)
(* (app/services/*agent_action_service.py and                              *)
(* app/repositories/*agent_action_repository.py).                          *)
(*                                                                         *)
(* A request is a session that walks through the accesses to the database  *)
(* in the order of the code; every access is one action, and any other     *)
(* request may step in between two of them.  The transactions of decide    *)
(* and start_execution read their row with FOR UPDATE before they write.   *)
(* SQLite ignores it, so that they read outside the transaction and their  *)
(* UPDATE names only the id of the row; RowLocks chooses the database.     *)
(***************************************************************************)
EXTENDS Integers, FiniteSets

CONSTANTS
    Proposals,
    Values,              \* of the field of the resource that actions change
    TargetOf,            \* the value a proposal asks for
    SourceOf,            \* the proposal a rollback proposal inverts, or None
    None,
    Users,
    Requester,           \* the user who made the proposals
    Deciders, UserOf,    \* approve and reject requests, and who sends them
    Cancellers,          \* cancel requests
    Executors,           \* execute requests
    Keys, KeyOf,         \* the idempotency keys they carry
    Reconcilers,         \* reconcile requests
    Replayers,           \* audit-replay requests
    MinimumApprovals,    \* of the approval policy
    SelfApproval,        \* self_approval_allowed of the policy
    RowLocks,            \* the database honours SELECT ... FOR UPDATE
    MaxReconciliations,  \* action_maximum_reconciliation_attempts
    MaxReplays,          \* action_maximum_audit_replay_attempts
    MaxDrifts,           \* bound: changes of the resource by anybody else
    MaxCrashes           \* bound: requests that die with their process

Sessions == Deciders \cup Cancellers \cup Executors \cup Reconcilers \cup Replayers

ASSUME ArgumentsAssumption ==
    /\ TargetOf \in [Proposals -> Values]
    /\ SourceOf \in [Proposals -> Proposals \cup {None}]
    /\ None \notin Proposals \cup Keys
    /\ UserOf \in [Deciders -> Users]
    /\ KeyOf \in [Executors -> Keys]
ASSUME RolesAssumption ==
    /\ Deciders \cap (Cancellers \cup Executors \cup Reconcilers \cup Replayers) = {}
    /\ Cancellers \cap (Executors \cup Reconcilers \cup Replayers) = {}
    /\ Executors \cap (Reconcilers \cup Replayers) = {}
    /\ Reconcilers \cap Replayers = {}
ASSUME PolicyAssumption ==
    /\ MinimumApprovals \in Nat \ {0}
    /\ SelfApproval \in BOOLEAN
    /\ RowLocks \in BOOLEAN
    /\ {MaxReconciliations, MaxReplays, MaxDrifts, MaxCrashes} \subseteq Nat

VARIABLES
    proposals,   \* agent_action_proposals
    approvals,   \* agent_action_approvals, a set of rows for each proposal
    executions,  \* agent_action_executions, at most one for each proposal
    resource,    \* the row that actions change
    effects,     \* how often a proposal's change was made
    audited,     \* an audit event tells that the proposal succeeded
    sessions,    \* where each request is and what it has read
    drifts,      \* counts toward MaxDrifts
    crashes      \* counts toward MaxCrashes

tables == <<proposals, approvals, executions, resource, effects, audited>>
vars == <<tables, sessions, drifts, crashes>>

-----------------------------------------------------------------------------
(* Rows.                                                                   *)

Open == {"pending_approval", "approved"}
Closed == {"rejected", "expired", "cancelled", "stale", "succeeded", "failed"}
Statuses == Open \cup Closed \cup {"executing", "reconciliation_required"}

Outcomes == {"executing", "succeeded", "failed", "reconciliation_required"}
Unresolved == {"executing", "reconciliation_required"}

\* The transitions that the state table permits.
Allowed(status) ==
    CASE status = "pending_approval" -> {"approved", "rejected", "expired", "cancelled"}
      [] status = "approved" -> {"executing", "expired", "cancelled", "stale"}
      [] status = "executing" ->
            {"succeeded", "failed", "stale", "reconciliation_required"}
      [] status = "reconciliation_required" -> {"succeeded", "failed"}
      [] status \in Closed -> {}

Proposal == [status   : Statuses \cup {"absent"},
             observed : Nat,        \* observed_resource_version
             overdue  : BOOLEAN]    \* expires_at has passed
AbsentProposal == [status |-> "absent", observed |-> 0, overdue |-> FALSE]

Approval == [by : Users, decision : {"approved", "rejected"}, consumed : BOOLEAN]

Execution == [outcome  : Outcomes \cup {"none"},
              key      : Keys \cup {None},   \* idempotency_key
              attempts : Nat,                \* attempt_count
              owed     : BOOLEAN,            \* audit_pending
              replays  : Nat]                \* audit_replay_attempts
NoExecution == [outcome |-> "none", key |-> None, attempts |-> 0,
                owed |-> FALSE, replays |-> 0]

Resource == [version : Nat, value : Values]

Approved(p) == {a \in approvals[p] : a.decision = "approved"}
Unconsumed(p) == {a \in Approved(p) : ~a.consumed}
Executed(p) == executions[p].outcome # "none"

\* Mutant: one approval less than the policy asks for.
EnoughButOne(rows) == Cardinality(rows) + 1 >= MinimumApprovals

Enough(rows) == Cardinality(rows) >= MinimumApprovals

-----------------------------------------------------------------------------
(* Sessions.                                                               *)

Phases ==
    {"idle", "done", "look", "expire", "reread",              \* get_proposal
     "decide", "write",                                       \* decide
     "cancel",                                                \* cancel
     "check", "consent", "prepare", "drift", "outdate",       \* execute
     "excuse", "begin", "start", "rival", "announce", "apply", "mark",
     "tally", "save", "conclude",                             \* complete_execution
     "open", "count", "bump", "ask", "keep",                  \* reconcile
     "replay", "record"}                                      \* replay_audit

Session == [at    : Phases,
            on    : Proposals \cup {None},
            seen  : Statuses \cup {"absent"},  \* the status, or outcome, it has read
            aim   : Statuses,                  \* the one it is about to write
            owed  : BOOLEAN,                   \* audit_pending as it has read it,
                                               \* or whether its replay was stored
            tries : Nat,                       \* attempt_count as it has read it
            reply : Outcomes \cup {"none"}]    \* the execution it has answered with
Idle == [at |-> "idle", on |-> None, seen |-> "absent", aim |-> "approved",
         owed |-> FALSE, tries |-> 0, reply |-> "none"]

At(c, phase) == sessions[c].at = phase
On(c) == sessions[c].on
\* A request that has ended keeps nothing but its answer: an execution, or an
\* error or something else ("none").
Become(c, new) == sessions' = [sessions EXCEPT
    ![c] = IF new.at = "done"
           THEN [Idle EXCEPT !.at = "done", !.on = new.on, !.reply = new.reply]
           ELSE new]
Goto(c, phase) == Become(c, [sessions[c] EXCEPT !.at = phase])
Finish(c, reply) == Become(c, [sessions[c] EXCEPT !.at = "done", !.reply = reply])

\* Between its locking SELECT and its commit a session holds the proposal row.
Holds(c, p) == sessions[c].at \in {"write", "start"} /\ On(c) = p
Unlocked(c, p) == RowLocks => \A d \in Sessions \ {c} : ~Holds(d, p)

SetStatus(p, status) == proposals' = [proposals EXCEPT ![p].status = status]
SetOwed(p, owed) == executions' = [executions EXCEPT ![p].owed = owed]

Init ==
    /\ proposals = [p \in Proposals |-> AbsentProposal]
    /\ approvals = [p \in Proposals |-> {}]
    /\ executions = [p \in Proposals |-> NoExecution]
    /\ resource \in [version : {1}, value : Values]
    /\ effects = [p \in Proposals |-> 0]
    /\ audited = [p \in Proposals |-> FALSE]
    /\ sessions = [c \in Sessions |-> Idle]
    /\ drifts = 0
    /\ crashes = 0

-----------------------------------------------------------------------------
(* Proposals come and expire.                                              *)

\* The resource is read and the proposal is inserted in one step: a change of
\* the resource between the two looks like one right after them.  A rollback
\* proposal asks for an inverse of an execution that has succeeded.
Propose(p) ==
    /\ proposals[p].status = "absent"
    /\ SourceOf[p] # None => executions[SourceOf[p]].outcome = "succeeded"
    /\ resource.value # TargetOf[p]
    /\ proposals' = [proposals EXCEPT ![p] =
          [status |-> "pending_approval", observed |-> resource.version,
           overdue |-> FALSE]]
    /\ UNCHANGED <<approvals, executions, resource, effects, audited,
                   sessions, drifts, crashes>>

TimePasses(p) ==
    /\ proposals[p].status # "absent" /\ ~proposals[p].overdue
    /\ proposals' = [proposals EXCEPT ![p].overdue = TRUE]
    /\ UNCHANGED <<approvals, executions, resource, effects, audited,
                   sessions, drifts, crashes>>

\* A request that only reads proposals expires them.  Its UPDATE succeeds only
\* from the status it has read and time does not go back, so that reading and
\* writing are one step.
ReadProposals(p) ==
    /\ proposals[p].status \in Open /\ proposals[p].overdue
    /\ RowLocks => \A d \in Sessions : ~Holds(d, p)
    /\ SetStatus(p, "expired")
    /\ UNCHANGED <<approvals, executions, resource, effects, audited,
                   sessions, drifts, crashes>>

-----------------------------------------------------------------------------
(* get_proposal, with which every request on a proposal begins.            *)

\* Mutant: the requester may always decide.
AnyoneMayDecide(c) == TRUE

MayDecide(c) == SelfApproval \/ UserOf[c] # Requester

\* What a request does about a proposal of this status.
Judge(c, status) ==
    CASE c \in Deciders ->
            IF status = "pending_approval" /\ MayDecide(c) THEN "decide" ELSE "done"
      [] c \in Cancellers -> IF status \in Open THEN "cancel" ELSE "done"
      [] c \in Executors -> "check"
      [] c \in Reconcilers -> "open"

\* Mutant: the verb of the request is stored as the status.
VerbsAsStatuses(c) == IF c \in Deciders THEN {"approve", "reject"} ELSE {"succeeded"}

Aims(c) == IF c \in Deciders THEN {"approved", "rejected"} ELSE {"succeeded"}

Look(c, p) ==
    /\ \/ At(c, "idle") /\ c \notin Reconcilers \cup Replayers
       \/ At(c, "look") /\ On(c) = p
    /\ proposals[p].status # "absent"
    /\ LET status == proposals[p].status
           late == status \in Open /\ proposals[p].overdue
       IN  \E aim \in Aims(c) :
               Become(c, [sessions[c] EXCEPT
                   !.on = p, !.seen = status, !.aim = aim,
                   !.at = IF late THEN "expire" ELSE Judge(c, status)])
    /\ UNCHANGED <<tables, drifts, crashes>>

Expire(c) ==
    /\ At(c, "expire")
    /\ Unlocked(c, On(c))
    /\ LET p == On(c)
       IN  SetStatus(p, IF proposals[p].status = sessions[c].seen
                        THEN "expired" ELSE proposals[p].status)
    /\ Goto(c, "reread")
    /\ UNCHANGED <<approvals, executions, resource, effects, audited,
                   drifts, crashes>>

Reread(c) ==
    /\ At(c, "reread")
    /\ LET status == proposals[On(c)].status
       IN  Become(c, [sessions[c] EXCEPT
                      !.seen = status, !.at = Judge(c, status)])
    /\ UNCHANGED <<tables, drifts, crashes>>

-----------------------------------------------------------------------------
(* decide and cancel.                                                      *)

ReadToDecide(c) ==
    /\ At(c, "decide")
    /\ LET p == On(c)
           stillPending == /\ proposals[p].status = "pending_approval"
                           /\ ~proposals[p].overdue
       IN  /\ Unlocked(c, p)
           /\ IF stillPending THEN Goto(c, "write") ELSE Finish(c, "none")
    /\ UNCHANGED <<tables, drifts, crashes>>

\* The status is written over whatever it has become since it was read.
WriteDecision(c) ==
    /\ At(c, "write")
    /\ LET p == On(c)
           verdict == sessions[c].aim
           row == [by |-> UserOf[c], decision |-> verdict, consumed |-> FALSE]
           twice == \E a \in approvals[p] : a.by = row.by
           enough == Enough(Approved(p) \cup {row})
       IN  IF twice
           THEN UNCHANGED <<proposals, approvals>>
           ELSE /\ approvals' = [approvals EXCEPT ![p] = @ \cup {row}]
                /\ IF verdict = "rejected" \/ enough
                   THEN SetStatus(p, verdict)
                   ELSE UNCHANGED proposals
    /\ Finish(c, "none")
    /\ UNCHANGED <<executions, resource, effects, audited, drifts, crashes>>

Cancel(c) ==
    /\ At(c, "cancel")
    /\ Unlocked(c, On(c))
    /\ LET p == On(c)
       IN  SetStatus(p, IF proposals[p].status = sessions[c].seen
                        THEN "cancelled" ELSE proposals[p].status)
    /\ Finish(c, "none")
    /\ UNCHANGED <<approvals, executions, resource, effects, audited,
                   drifts, crashes>>

-----------------------------------------------------------------------------
(* execute, up to the effect.                                              *)

\* Mutant: the key is not compared.
AnswerAnyKey(e, returned) ==
    LET x == executions[On(e)]
    IN  IF x.outcome \in returned THEN x.outcome ELSE "none"

\* An execution is returned only to the key it was started with.
Answer(e, returned) ==
    LET x == executions[On(e)]
    IN  IF x.key = KeyOf[e] /\ x.outcome \in returned THEN x.outcome ELSE "none"

Check(e) ==
    /\ At(e, "check")
    /\ LET next == CASE sessions[e].seen = "approved" -> "consent"
                     [] sessions[e].seen = "stale" -> "excuse"
                     [] OTHER -> "done"
       IN  IF Executed(On(e))
           THEN Finish(e, Answer(e, {"succeeded", "failed"}))
           ELSE Goto(e, next)
    /\ UNCHANGED <<tables, drifts, crashes>>

Consent(e) ==
    /\ At(e, "consent")
    /\ IF Unconsumed(On(e)) # {} THEN Goto(e, "prepare") ELSE Finish(e, "none")
    /\ UNCHANGED <<tables, drifts, crashes>>

\* prepare() raises when there is nothing to change; its result is compared
\* with what was approved.
Prepare(e) ==
    /\ At(e, "prepare")
    /\ Goto(e, IF resource.value = TargetOf[On(e)] THEN "drift"
               ELSE IF resource.version # proposals[On(e)].observed THEN "outdate"
               ELSE "begin")
    /\ UNCHANGED <<tables, drifts, crashes>>

Drift(e) ==
    /\ At(e, "drift")
    /\ IF proposals[On(e)].status = "approved"
       THEN Goto(e, "outdate") ELSE Finish(e, "none")
    /\ UNCHANGED <<tables, drifts, crashes>>

Outdate(e) ==
    /\ At(e, "outdate")
    /\ Unlocked(e, On(e))
    /\ LET p == On(e)
       IN  SetStatus(p, IF proposals[p].status = "approved"
                        THEN "stale" ELSE proposals[p].status)
    /\ Goto(e, "excuse")
    /\ UNCHANGED <<approvals, executions, resource, effects, audited,
                   drifts, crashes>>

\* The resource may have changed because a request with this key was faster.
Excuse(e) ==
    /\ At(e, "excuse")
    /\ Finish(e, Answer(e, {"succeeded"}))
    /\ UNCHANGED <<tables, drifts, crashes>>

ReadToStart(e) ==
    /\ At(e, "begin")
    /\ LET p == On(e)
       IN  /\ Unlocked(e, p)
           /\ Goto(e, IF /\ proposals[p].status = "approved"
                         /\ ~proposals[p].overdue
                         /\ Enough(Unconsumed(p))
                      THEN "start" ELSE "rival")
    /\ UNCHANGED <<tables, drifts, crashes>>

\* Mutant: neither rowcount nor unique constraint is looked at.
CanAlwaysStart(e) == TRUE

\* The approvals are still there, the proposal has no execution and no
\* execution has the key.
CanStart(e) ==
    /\ Enough(Unconsumed(On(e)))
    /\ ~Executed(On(e))
    /\ \A p \in Proposals : executions[p].key # KeyOf[e]

StartExecution(e) ==
    /\ At(e, "start")
    /\ LET p == On(e)
       IN  IF CanStart(e)
           THEN /\ SetStatus(p, "executing")
                /\ approvals' = [approvals EXCEPT ![p] =
                      {IF a.decision = "approved" THEN [a EXCEPT !.consumed = TRUE]
                                                  ELSE a : a \in @}]
                /\ executions' = [executions EXCEPT ![p] =
                      [outcome |-> "executing", key |-> KeyOf[e], attempts |-> 1,
                       owed |-> FALSE, replays |-> 0]]
                /\ Goto(e, "announce")
           ELSE /\ Goto(e, "rival")
                /\ UNCHANGED <<proposals, approvals, executions>>
    /\ UNCHANGED <<resource, effects, audited, drifts, crashes>>

Rival(e) ==
    /\ At(e, "rival")
    /\ Finish(e, Answer(e, Outcomes \ {"executing"}))
    /\ UNCHANGED <<tables, drifts, crashes>>

-----------------------------------------------------------------------------
(* execute, from the effect on.                                            *)

\* An audit event that cannot be appended leaves the execution marked.
Announce(e) ==
    /\ At(e, "announce")
    /\ \E failed \in BOOLEAN : SetOwed(On(e), executions[On(e)].owed \/ failed)
    /\ Goto(e, "apply")
    /\ UNCHANGED <<proposals, approvals, resource, effects, audited,
                   drifts, crashes>>

Aim(c, outcome) == Become(c, [sessions[c] EXCEPT !.aim = outcome, !.at = "tally"])

\* The handler fails, or changes the reviewed version of the resource, or finds
\* another one.  Its answer may be lost after the change.
Apply(e) ==
    /\ At(e, "apply")
    /\ LET p == On(e)
           reviewed == resource.version = proposals[p].observed
       IN  \/ /\ Aim(e, "reconciliation_required")
              /\ UNCHANGED <<resource, effects>>
           \/ /\ reviewed
              /\ resource' = [version |-> resource.version + 1, value |-> TargetOf[p]]
              /\ effects' = [effects EXCEPT ![p] = @ + 1]
              /\ \E outcome \in {"succeeded", "reconciliation_required"} : Aim(e, outcome)
           \/ /\ ~reviewed
              /\ Goto(e, "mark")
              /\ UNCHANGED <<resource, effects>>
    /\ UNCHANGED <<proposals, approvals, executions, audited, drifts, crashes>>

\* complete_execution first reads the mark that it must keep ...
Tally(c) ==
    /\ At(c, "tally")
    /\ Become(c, [sessions[c] EXCEPT
          !.owed = @ \/ executions[On(c)].owed, !.at = "save"])
    /\ UNCHANGED <<tables, drifts, crashes>>

\* Mutant: success is taken for the result of a reconciliation.
FromUnknown(aim) == IF aim = "succeeded" THEN {"reconciliation_required"} ELSE {"executing"}

\* ... and then moves both rows, each from a status that permits it.
From(aim) == IF aim = "succeeded" THEN Unresolved ELSE {"executing"}

\* Mutant: the UPDATEs name only the proposal.
CanAlwaysClose(p, from) == TRUE

CanClose(p, from) == executions[p].outcome \in from /\ proposals[p].status \in from

Save(c) ==
    /\ At(c, "save")
    /\ Unlocked(c, On(c))
    /\ LET p == On(c)
           aim == sessions[c].aim
       IN  IF CanClose(p, From(aim))
           THEN /\ SetStatus(p, aim)
                /\ executions' = [executions EXCEPT
                      ![p].outcome = aim, ![p].owed = sessions[c].owed]
                /\ Goto(c, "conclude")
           ELSE /\ Finish(c, "none")
                /\ UNCHANGED <<proposals, executions>>
    /\ UNCHANGED <<approvals, resource, effects, audited, drifts, crashes>>

\* The audit event of the outcome, and the answer.
Conclude(c) ==
    /\ At(c, "conclude")
    /\ LET p == On(c)
           success == sessions[c].aim = "succeeded"
       IN  /\ \/ /\ audited' = [audited EXCEPT ![p] = @ \/ success]
                 /\ UNCHANGED executions
              \/ SetOwed(p, TRUE) /\ UNCHANGED audited
           /\ Finish(c, IF success THEN "succeeded" ELSE "none")
    /\ UNCHANGED <<proposals, approvals, resource, effects, drifts, crashes>>

\* mark_stale_execution: the handler has found another version.
MarkStale(e) ==
    /\ At(e, "mark")
    /\ Unlocked(e, On(e))
    /\ LET p == On(e)
       IN  IF CanClose(p, {"executing"})
           THEN /\ SetStatus(p, "stale")
                /\ executions' = [executions EXCEPT ![p].outcome = "failed"]
                /\ Goto(e, "excuse")
           ELSE /\ Finish(e, "none")
                /\ UNCHANGED <<proposals, executions>>
    /\ UNCHANGED <<approvals, resource, effects, audited, drifts, crashes>>

-----------------------------------------------------------------------------
(* reconcile.                                                              *)

CheckLimit(r, p) ==
    /\ At(r, "idle")
    /\ proposals[p].status # "absent"
    /\ LET x == executions[p]
           exhausted == x.outcome \in Unresolved /\ x.attempts >= MaxReconciliations
       IN  Become(r, [sessions[r] EXCEPT
                      !.on = p, !.at = IF exhausted THEN "done" ELSE "look"])
    /\ UNCHANGED <<tables, drifts, crashes>>

ReadExecution(r) ==
    /\ At(r, "open")
    /\ LET x == executions[On(r)]
       IN  IF x.outcome \in Unresolved
           THEN Become(r, [sessions[r] EXCEPT !.owed = x.owed, !.at = "count"])
           ELSE Finish(r, x.outcome)
    /\ UNCHANGED <<tables, drifts, crashes>>

CountAttempts(r) ==
    /\ At(r, "count")
    /\ Become(r, [sessions[r] EXCEPT
          !.tries = executions[On(r)].attempts, !.at = "bump"])
    /\ UNCHANGED <<tables, drifts, crashes>>

BumpAttempts(r) ==
    /\ At(r, "bump")
    /\ executions' = [executions EXCEPT ![On(r)].attempts = sessions[r].tries + 1]
    /\ Goto(r, "ask")
    /\ UNCHANGED <<proposals, approvals, resource, effects, audited,
                   drifts, crashes>>

\* Mutant: reconciliation trusts the execution.
AssumeEffect(p) == TRUE

\* Does the resource show what the proposal asks for?
ShowsEffect(p) == resource.value = TargetOf[p]

Ask(r) ==
    /\ At(r, "ask")
    /\ \/ IF ShowsEffect(On(r)) THEN Aim(r, "succeeded") ELSE Goto(r, "keep")
       \/ Finish(r, "none")   \* the handler raises
    /\ UNCHANGED <<tables, drifts, crashes>>

\* keep_reconciliation_required puts back the mark as it was read; it refuses
\* an execution that never reached reconciliation_required.
Keep(r) ==
    /\ At(r, "keep")
    /\ LET p == On(r)
       IN  IF executions[p].outcome = "reconciliation_required"
           THEN /\ SetOwed(p, sessions[r].owed)
                /\ Finish(r, "reconciliation_required")
           ELSE /\ Finish(r, "none")
                /\ UNCHANGED executions
    /\ UNCHANGED <<proposals, approvals, resource, effects, audited,
                   drifts, crashes>>

-----------------------------------------------------------------------------
(* replay_audit.                                                           *)

ReadOwed(y, p) ==
    /\ At(y, "idle")
    /\ LET x == executions[p]
           due == Executed(p) /\ x.owed /\ x.replays < MaxReplays
       IN  /\ Executed(p)
           /\ Become(y, [sessions[y] EXCEPT
                 !.on = p, !.seen = x.outcome, !.at = IF due THEN "replay" ELSE "done"])
    /\ UNCHANGED <<tables, drifts, crashes>>

\* The event tells the outcome that was read.
Replay(y) ==
    /\ At(y, "replay")
    /\ LET told == sessions[y].seen = "succeeded"
       IN  \E stored \in BOOLEAN :
               /\ audited' = [audited EXCEPT ![On(y)] = @ \/ (stored /\ told)]
               /\ Become(y, [sessions[y] EXCEPT !.owed = stored, !.at = "record"])
    /\ UNCHANGED <<proposals, approvals, executions, resource, effects,
                   drifts, crashes>>

RecordReplay(y) ==
    /\ At(y, "record")
    /\ LET stored == sessions[y].owed
       IN  executions' = [executions EXCEPT
               ![On(y)].replays = @ + 1, ![On(y)].owed = @ /\ ~stored]
    /\ Finish(y, "none")
    /\ UNCHANGED <<proposals, approvals, resource, effects, audited,
                   drifts, crashes>>

-----------------------------------------------------------------------------
(* The world around.                                                       *)

\* Somebody else changes the resource.
OthersChange ==
    /\ drifts < MaxDrifts
    /\ drifts' = drifts + 1
    /\ \E v \in Values \ {resource.value} :
           resource' = [version |-> resource.version + 1, value |-> v]
    /\ UNCHANGED <<proposals, approvals, executions, effects, audited,
                   sessions, crashes>>

\* A request dies with its process; its transaction is rolled back.
Crash(c) ==
    /\ ~At(c, "idle") /\ ~At(c, "done")
    /\ crashes < MaxCrashes
    /\ crashes' = crashes + 1
    /\ Finish(c, "none")
    /\ UNCHANGED <<tables, drifts>>

Arrive(c) == \E p \in Proposals :
    \/ c \in Deciders \cup Cancellers \cup Executors /\ At(c, "idle") /\ Look(c, p)
    \/ c \in Reconcilers /\ CheckLimit(c, p)
    \/ c \in Replayers /\ ReadOwed(c, p)

\* What a request does once it is there.
Proceed(c) ==
    \/ \E p \in Proposals : At(c, "look") /\ Look(c, p)
    \/ Expire(c) \/ Reread(c)
    \/ ReadToDecide(c) \/ WriteDecision(c) \/ Cancel(c)
    \/ Check(c) \/ Consent(c) \/ Prepare(c) \/ Drift(c) \/ Outdate(c) \/ Excuse(c)
    \/ ReadToStart(c) \/ StartExecution(c) \/ Rival(c)
    \/ Announce(c) \/ Apply(c) \/ Tally(c) \/ Save(c) \/ Conclude(c) \/ MarkStale(c)
    \/ ReadExecution(c) \/ CountAttempts(c) \/ BumpAttempts(c) \/ Ask(c) \/ Keep(c)
    \/ Replay(c) \/ RecordReplay(c)

Next ==
    \/ \E p \in Proposals : Propose(p) \/ TimePasses(p) \/ ReadProposals(p)
    \/ \E c \in Sessions : Arrive(c) \/ Proceed(c) \/ Crash(c)
    \/ OthersChange

\* A request that has arrived is served to its end, unless its process dies.
Fairness == \A c \in Sessions : WF_vars(Proceed(c))

Spec == Init /\ [][Next]_vars /\ Fairness

-----------------------------------------------------------------------------
(* Properties.                                                             *)

TypeOK ==
    /\ proposals \in [Proposals -> Proposal]
    /\ approvals \in [Proposals -> SUBSET Approval]
    /\ executions \in [Proposals -> Execution]
    /\ resource \in Resource
    /\ effects \in [Proposals -> Nat]
    /\ audited \in [Proposals -> BOOLEAN]
    /\ sessions \in [Sessions -> Session]
    /\ drifts \in 0 .. MaxDrifts
    /\ crashes \in 0 .. MaxCrashes

\* Between start_execution and complete_execution a proposal is in the hands of
\* one request: its unique constraints and the consumed approvals let no second
\* one through, with the same idempotency key or another.
InHand == {"announce", "apply", "mark"}
OneExecutor == \A d, e \in Executors :
    /\ d # e
    /\ sessions[d].at \in InHand /\ sessions[e].at \in InHand
    => On(d) # On(e)

\* Nothing is executed without the approvals that the policy asks for, by
\* different users, none of them the requester unless the policy allows it.
\* It holds though decisions and executions overwrite each other's status.
ConsentGiven == \A p \in Proposals : Executed(p) =>
    LET consumed == {a \in Approved(p) : a.consumed}
        voters == {a.by : a \in consumed}
    IN  /\ Cardinality(voters) >= MinimumApprovals
        /\ SelfApproval \/ Requester \notin voters

\* A request is answered with an execution only if it carries its key, and a
\* success that was reported remains one.
AnswersHold == \A e \in Executors :
    sessions[e].reply # "none" =>
        /\ executions[On(e)].key = KeyOf[e]
        /\ sessions[e].reply = "succeeded" => executions[On(e)].outcome = "succeeded"

\* Somebody else may have changed the resource to what p asks for.
MadeByOthers(p) ==
    \/ drifts > 0
    \/ \E q \in Proposals \ {p} : TargetOf[q] = TargetOf[p] /\ effects[q] > 0

\* The outcome of an execution tells the truth about the resource, across lost
\* answers, crashes and reconciliations: a failed execution has changed
\* nothing, a succeeded one has changed it once (unless somebody else has made
\* the same change, which reconcile cannot tell apart).
OutcomeIsTrue == \A p \in Proposals :
    /\ effects[p] <= 1
    /\ executions[p].outcome = "failed" => effects[p] = 0
    /\ executions[p].outcome = "succeeded" /\ ~MadeByOthers(p) => effects[p] = 1

\* An execution is never restarted, renamed or reopened, whoever reconciles it
\* while it is running.
ExecutionsOnlyClose == [][\A p \in Proposals : Executed(p) =>
    /\ executions'[p].key = executions[p].key
    /\ \/ executions'[p].outcome = executions[p].outcome
       \/ executions'[p].outcome \in Allowed(executions[p].outcome)]_vars

\* The proposals obey the table of agent/action_state.py, which
\* tests/test_agent_action_state.py repeats: a cancelled proposal is not
\* executed, an expired one is not approved, an executing one not approved again.
ObeysTable == [][\A p \in Proposals : proposals[p].status # "absent" =>
    \/ proposals'[p].status = proposals[p].status
    \/ proposals'[p].status \in Allowed(proposals[p].status)]_vars

\* With row locks, proposals and executions do what the contract says.
Contract == INSTANCE ActionContract WITH
    status <- [p \in Proposals |-> proposals[p].status],
    outcome <- [p \in Proposals |-> executions[p].outcome]
ImplementsContract == Contract!Spec

\* "Successful writes are audited": an event says that the proposal succeeded,
\* or the execution is marked for a replay, or the request is about to append it.
WritesAudited == \A p \in Proposals :
    executions[p].outcome = "succeeded" =>
        \/ audited[p] \/ executions[p].owed
        \/ \E c \in Sessions : At(c, "conclude") /\ On(c) = p
                               /\ sessions[c].aim = "succeeded"

\* With row locks and without crashes, no execution stays "executing" for ever.
Settles == \A p \in Proposals :
    executions[p].outcome = "executing" ~> executions[p].outcome # "executing"
=============================================================================
