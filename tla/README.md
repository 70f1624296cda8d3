# A verification project for the DBMR Workplace Agent

The repository is a FastAPI service (`src/app`, SQLAlchemy async sessions over
SQLite) and an Angular client (`src/frontend`).  Users talk to an agent about
their organization; the agent answers, or prepares changes that people approve
before they are executed.  What can go wrong lies between processes: HTTP
handlers, leased workers and browsers share one database and read it in one
step and write it in another.  These modules model those interleavings.

## Inventory

| Component | State it keeps | Operations | Hard behaviour | What makes it correct |
|---|---|---|---|---|
| Durable agent runs (`repositories/agent_run_repository.py`, `db/agent_run_models.py`) | conversations, messages, runs with version, lease, active slot, event counter; events | `create_run`, `request_cancellation`, `claim_next`, `renew_lease`, `append_event`, `complete_run`, `cancel_run`, `fail_run`, `archive_conversation` | reads outside a transaction, optimistic versions, bounded retries, unique constraints, leases that lapse | one active run per conversation, one run per `client_request_id`, one terminal event and one answer, dense numbering, finished runs stay finished |
| Agent run worker (`services/agent_run_worker.py`, `agent/response_service.py`, `services/agent_run_activity.py`) | the run row each session has read, the phase of the execution | poll and claim, checkpoints, activity events, propose, complete, fail, cancel, renew, stop | crashes and shutdowns between any two steps, two workers on one run, cancellation at every point | one answer, one proposal, no proposal of a cancelled run, every accepted run finishes |
| Run event stream (`api/agent_run_routes.py`, `agent-run-stream.service.ts`) | cursor of the generator, cursor of the browser | list events, read status, yield, reconnect | lost connections, batches, a run that finishes between two reads, late events | nothing skipped or repeated, the outcome shown is the true one, it arrives |
| Governed action lifecycle (`services/*agent_action_service.py`, `repositories/*agent_action_repository.py`) | proposals, approvals, executions, rollbacks, audit flags | propose, decide, cancel, expire, execute, reconcile, replay audit, roll back | check-then-act, external effects of unknown outcome, idempotency keys, expiry | no execution without the approvals of the policy, one effect per proposal, every execution is resolved |
| Action control plane (`services/action_control_service.py`, `repositories/action_control_repository.py`, approval centre) | the execution event log, the cursor of a browser | execute and reconcile with their events, append with a dedupe key, stream, reconnect | several requests write one log, any of them may die or be answered with an error | the log is ordered and agrees with the execution, a success is told, every follower learns it |
| Conversations (`repositories/conversation_repository.py`, compaction, context memory) | message tree, overlays, context blocks | branch walk, compaction, search | pure algorithms on trees | a branch is a path to the root |
| Nucleus store (`repositories/nucleus_*`) | accounts, accesses, sidecar versions, tombstones, intents, projections | grant, revoke, compare-and-advance, access packages | the version lives beside the row it protects; a first grant has no row to compare with | one row for an access, no change of what nobody reviewed, the approved outcome |
| Members and seats (`services/operational_resource_service.py`) | memberships, seat assignments, the pool | invite, activate, change role, remove, assign, revoke | rules over several rows, checked before and written after | an administrator remains, one seat each, none beyond the pool, none with a leaver |
| Workplace resources and workflows (`workplace_resources/`) | versioned resources, mutation plans and receipts | apply, bulk update, restore; onboarding, offboarding, access packages | a workflow writes several rows it has compared earlier | all or nothing, only what was reviewed |
| Planning and providers, permissions, sessions, schemas, seed data | none that several actors write | | | |

The actors interact through the database only: the handlers insert and flag
runs, workers poll for them, the stream polls for events, and
`source_agent_run_id` ties a proposal to the run that made it.  Patch scripts
(`apply_*.py`, `patch_extracted/`, `scratch/`) and generated documentation are
not part of the system.

## Modules

* **AgentRuns** models the first two components.  `runs`, `events`, `convs`,
  `messages` and `proposals` are the tables; `calls`, `workers` and `cancels`
  are what each session holds.  One action stands for one step that no other
  process can divide: on SQLite a SELECT is not part of a transaction, and the
  first UPDATE or INSERT starts an exclusive one that ends with the commit.
  Every operation is therefore a reading action, which keeps a snapshot, and a
  writing action, which compares with it.  A failed comparison is rolled back
  and read again in one step.  Contents, titles, stages and metadata are left
  out; a run is named after the call that inserts it.
  `execute` and the response service are one phase machine: `Follows` lists
  the accesses to the database in the order of the code, and what lies between
  two of them (authorization, the language model, read tools) is a choice of
  the next phase or an exception (`WorkRaises`).
  `run.started` is written only if the candidate row still shows no attempt
  after the UPDATE; the ORM synchronises the objects of a session by default,
  which makes the condition false, so `AfterClaim` allows both.
* **RunContract** is the abstract specification: a run is accepted into a
  conversation without an open run, reported on, and closed once with the event
  of its status.  `AgentRuns!Public` maps the tables to it, the events in the
  order of their sequence numbers.
* **RunEventStream** composes that contract, instead of AgentRuns, with the SSE
  generator, the connection and the reconnecting browser.  It is sound because
  AgentRuns implements the contract, and it keeps the state space small.
* **ActionLifecycle** models the governed actions.  `proposals`, `approvals` and
  `executions` are the tables, `resource` is the row the action changes
  (the role of a member, in the terms of `UpdateOrganizationMemberRoleHandler`;
  every handler compares a version in this way), `effects` counts the changes
  made for a proposal and `audited` remembers that an event tells its success.
  A session is one request, and `at` is the access to the database it comes to
  next: `Look`, `Expire`, `Reread` are `get_proposal`, with which decide,
  cancel, execute and reconcile begin; then come `ReadToDecide` and
  `WriteDecision`; `Cancel`; `Check` to `Rival` up to the committed execution and
  `Announce` to `MarkStale` from there on; `CheckLimit` to `Keep`; `ReadOwed` to
  `RecordReplay`.  The four service classes are one: the try/except of
  StaleSafe is `Drift`, that of ReleaseReady is `Excuse`.
  `RowLocks` says whether the database honours `SELECT ... FOR UPDATE`, on which
  `decide` and `start_execution` rely.  SQLite does not.
* **ActionContract** is the abstract specification: the table of
  `agent/action_state.py` with the outcome of the one execution of a proposal.
* **ActionControl** composes that contract, instead of ActionLifecycle, with the
  control plane: what execute and reconcile write into the event log of a
  proposal (`Look` and `Insert` are `append_event`, with its dedupe key, its
  number taken from the greatest one, its unique constraints and its tries), and
  the browser that follows the log over an SSE connection.  What is shown of it
  holds where the lifecycle implements the contract, with row locks
  (`LocksKeepTheContract`).  What the action service answers is read off the
  contract's state; where it raises one of many errors, any of them is possible at
  any time.  Events that the code always writes in a row are one event (`Opening`).
* **Memberships** models the members and seats of an organization: the
  operations of `operational_resource_service.py` and the onboarding and
  offboarding workflows, all as executions of approved proposals.  A session is
  prepared (`Propose` keeps what the approvers were shown), prepared again
  (`Revalidate`), checked by its handler (`Check`, or `Load` and `Gather` for a
  workflow) and written in one transaction.  `dirty` remembers whether a table
  changed after the session's last read, and `outdated` collects the kinds of the
  changes that were committed all the same: the properties say with it *which*
  overlaps they survive.
* **AccessGrants** models the accesses of the Nucleus store in the same way:
  first grants (`GrantNew`), grants and revocations of an existing row (`Flip`
  compares and advances the version in the sidecar table), and the access
  package, which changes several accesses at once (`Load`, then
  `ApplyPackage`: all entries or none).  `Managed` accesses have a tombstone
  instead of an `IsActive` column, and an intent row that guards their first
  grant.
* **MCAgentRuns**, **MCActionLifecycle**, **MCActionControl**, **MCMemberships** and
  **MCAccessGrants** give the constants their values; RunEventStream needs none.
* **AgentRunsProofs**, **AgentRunsLogProofs** (which extends it) and
  **AgentRunsCancelProofs** (which extends the latter), **RunEventStreamProofs**,
  **ActionLifecycleProofs**, **ActionControlProofs**, **MembershipsProofs** and
  **AccessGrantsProofs** hold the theorems.

Definitions whose comment begins with *Mutant* are faulty variants of the
definition below them.  No action uses them: they exist to show that a
property is able to fail.

## Runs and bounds

| Run | Instance | States | Shows |
|---|---|---|---|
| `requests` | 3 calls, two with one key, any targets; 1 worker; 2 turns of the retry loop | 793 k | `OneActiveRun`, `IdempotentCreate`, `MessagesDense` |
| `run_races` | 1 run, 2 workers, a cancellation, one lease that lapses under its owner; 1 turn | 923 k | `TypeOK`, `OneEnding`, `OneProposal`, `EventsDense`, `FinishedForever`, `ImplementsContract` |
| `run_liveness` | 1 run, 2 workers, a cancellation, 1 crash; 1 turn | 89 k | `CancelledWithoutProposal`, `CancelledBeforeClaim`, `EveryRunFinishes` |
| `event_stream` | 1 run with up to 4 reports, 1 browser, batches of 2, 2 lost connections | 86 k | `StreamTypeOK`, `NothingSkipped`, `DoneKnowsOutcome`, `OutcomeArrives` |
| `action_locks` | row locks; 1 proposal, 2 approvers of 2, a canceller, an executor, a reconciliation, an audit replay, 1 foreign change | 322 k | `TypeOK`, `ConsentGiven`, `ImplementsContract`, `Settles` |
| `action_races` | SQLite; 1 proposal, 1 approver, 3 executors with two keys, a reconciliation, 1 crash | 1.88 M | `OneExecutor`, `AnswersHold`, `OutcomeIsTrue`, `ExecutionsOnlyClose` |
| `action_control` | 1 proposal, 2 of 3 requests (to execute with the same or another key, or to reconcile), one of which may die; 2 tries of an append; 1 browser, batches of 2, 1 lost connection | 487 k | `TypeOK`, `LogInOrder`, `SuccessIsTrue`, `NothingSkipped`, `SuccessTold`, `WatchEnds` |
| `members` | 2 users, 3 proposals of any kind, a pool of 1 seat, 6 foundings | 139 k | `TypeOK`, `OneSeat`, `AdminRemains`, `SeatsWithinPool`, `SeatedMembersActive`, `ReviewedRow` |
| `grants` | a category and a drug, 4 proposals (grants, revocations, packages of 1 or 2 entries), 4 foundings | 356 k | `TypeOK`, `OneAccess`, `ReviewedAccess`, `ApprovedIsSo` |
| `last_admin` | 2 administrators, 2 offboardings | | the last administrator is **not** kept |
| `action_table` | SQLite; 1 approver, 1 executor | | the state table does **not** hold |
| `action_audit` | row locks; an executor, a reconciliation, an audit replay | | an unaudited success exists |

Two processes are enough for each race between a read and a write: an operation
compares with one row it has read, so a third process only repeats what the
second did.  `requests`, `action_races`, `members` and `grants` take a third and a
fourth, because two may prepare what a third one runs into (a duplicate row, a
closed execution, a version used again).  Two turns show a retry and its
exhaustion; the code's 6 and 20 differ in how often they retry.  `run_races`
allows one turn, which makes every lost comparison final, the more dangerous
case.  A batch of 2 splits a log of 5 in three; the code's 200 splits longer logs
the same way.  Runs of safety properties use the symmetry of workers and
proposals.  Deadlock is not checked, because the systems may really stop: all
calls answered, all runs finished, all proposals executed.

`action_races` has no second proposal: a rollback waits for its source
(`SourceOf`), and its execution is one like any other.  The theorems about
ActionLifecycle cover rollbacks.

Three runs are findings.  In `action_table` a decision is written on SQLite over an
expiry, a cancellation or an execution that came after its read, against the
transitions that `tests/test_agent_action_state.py` forbids; `action_locks` shows
that the same code keeps the table where FOR UPDATE locks (`LocksObeyTheTable`
proves it), and `action_races` what is safe all the same: executions are unique,
nothing runs twice, and (`ConsentIsGiven`) nothing runs without consent.  In
`action_audit` a replay clears the mark that was set, after the replay had read the
row, for the event of the success; `OnlyReplaysForget` proves that nothing else
but a crash loses one.  In `last_admin` two offboardings of two administrators both count
two of them: each write touches the row of its own target only, so no version
notices, although `docs/WORKPLACE_WORKFLOWS.md:60` says that the removal of the
last active administrator is blocked.

### What the properties do not promise

Things the models show that nothing in the repository contradicts, or that a
property excludes by name:

* Events may follow the terminal one (`AnnounceCancellation`, a stalled worker).
  One response of the run stream may end before the terminal event, when the run
  finishes between the list of events and the read of its status; the browser
  opens another and is not hurt (`OutcomeArrives`).
* A run may be accepted in a conversation archived meanwhile, and its replay is
  then answered not found; a run failed by its audit record keeps a pending
  proposal (`Propose`); with a lapsed lease a run may be cancelled by one worker
  after another has committed its proposal, which is why
  `CancelledWithoutProposal` is restricted to `stalls = 0`.
* An execution whose process dies before its effect stays `executing`:
  `keep_reconciliation_required` refuses it and nothing fails it.  So does, on
  SQLite, an execution whose status a late approval has overwritten, because
  `complete_execution` then matches no row; `Settles` is therefore claimed with
  row locks and without crashes.  `reconcile` takes the same change made by
  somebody else, or for another proposal of the same value, for its own
  (`OutcomeIsTrue` excludes it with `MadeByOthers`), and `attempt_count` loses
  concurrent increments.
* A terminal event of the control plane ends one request, not the proposal: a
  second execute may tell a failure while the first one still succeeds.
  `SuccessIsTrue` and `SuccessTold` say what a reader of the log may rely on.
  The approval centre keeps its cursor when another proposal is selected; the
  model has one proposal for each browser.
* Every active seat assignment has version 1, so that a revocation may take a seat
  that was given after its review (`ReviewedRow` is about memberships only).
* Workflows and packages select their rows once more after the comparison and write
  them without a version.  What came in between is overwritten and its version
  used again, although `docs/WORKPLACE_REQUIREMENTS.md:19` asks for optimistic
  versions: hence `outdated` in the properties of Memberships and AccessGrants.
* Overlapping first grants of a category make two rows.  A grant may then take one
  of them for the other, of the same version (`Shows`), and a revocation finds one.

## Fairness

`AgentRuns!Fairness` is weak fairness of each worker's steps, because the
coordinator loop polls every 0.75 s, catches every exception and is replaced
when its process dies, and of the lapse of a lease that nobody renews, because
time passes.  Nothing is assumed of clients, renewals or failures.  Crashes and
lapses under a live owner are bounded; without a bound a run that kills every
worker is claimed for ever, since `attempt_count` is never limited.
`RunEventStream!StreamFairness` adds the polling generator and the browser's
loop, and takes from AgentRuns that accepted runs are claimed and closed.

`ActionLifecycle!Fairness` is weak fairness of each request once it is there,
because a handler runs to its end unless its process dies.  Nobody must send a
request, decide, cancel or reconcile.  `ActionControl!FairSpec` assumes the same
of its requests, and that streams poll and browsers reconnect.  A request that
dies or exhausts the tries of an append is `cut`, and `SuccessTold` says so.

## Proofs

All theorems hold for any sets of actors and any bounds that satisfy the named
assumptions of the module.

`AgentRunsProofs`:

* `TypeCorrect`: `Spec => []TypeOK`.  The strengthening adds that a worker,
  a cancellation or a call that is not idle names a run and holds a snapshot of
  the right type.
* `FinishedStays`: `Spec => FinishedForever`.  `IInv` is the type invariant,
  `Rows` (slot, lease and owner of a row agree with its status) and `Sessions`
  (what a session has read is not newer than the row; at the same version it
  *is* the row).  The second is what makes the version comparison meaningful: a
  write that passes it acts on the row it has read, so a claim cannot hit a
  finished run although its UPDATE never looks at the status.
* `OneRunAtATime`: `Spec => []OneActiveRun`.  `Slots` says that exactly the
  active runs hold their conversation's slot; the constraint does the rest.
* `CreationIsIdempotent`: `Spec => []IdempotentCreate`, from `Keyed`: the run a
  call is answered with exists and carries the call's key.

The argument is by one lemma per kind of step: `RowStep` describes all that any
action may do to any row, and the invariants are preserved by every `RowStep`.

`AgentRunsLogProofs` goes on from there to the tables that hang on a run, its events,
its messages and its proposal: `EndsOnce` (`Spec => []OneEnding`), `EventsAreDense`,
`MessagesAreDense` and `ProposesOnce`.  The inductive invariant, `TablesInv`, adds to
the one above:

* `Logs` and `Dialogues`: the numbers in a log are 1 up to the counter of the run, or
  of the conversation, and none is used twice.
* `Copies`: a creation or a completion that has read a conversation holds a version
  that is not newer than the row's, and at the same version the same counter.
  This is why comparing the version of the conversation, which archiving does
  not advance, still numbers the messages without a gap.
* `Endings` and `AnswersOnce`: one terminal event, one answer, when the status says
  so and not before.
* `Claims` and `Proposed`: a worker that completes a run with a proposal has
  committed it or found it, and a run that was never claimed has none.

`TablesStep` is what any step may do to those tables: at most one run is accepted,
restated (claimed, or asked to cancel), reported on or closed, and the message it
writes is the next one of its conversation.  Each part of the invariant is then
preserved by every `TablesStep`, whatever action took it.

`RunsKeepTheContract` at its end is the refinement: `Spec => ImplementsContract`.
The contract sees a run's log as a sequence; `LogUpTo` reads it off the table of
events, and `AppendToLog` shows that an event with the next number appends to it.
Each of the four changes above is then one action of RunContract, and
every other step a stutter.  With the theorems of RunEventStream, which are about
any behaviour of RunContract, the browser's guarantees hold of the tables too.

`AgentRunsCancelProofs`:

* `CancelledInTime`: `Spec => CancelledBeforeClaim`.  `Attempted` says that nobody has
  done anything for a run that counts no attempt, so when it is cancelled then it is
  `Quiet`: it has no proposal, and whoever works on it is in one of the
  `Harmless` phases, which lead to the first checkpoint and from there only to the
  cancellation.  Every step keeps a run quiet.
* `NothingIsLeftBehind`: `Spec => []CancelledWithoutProposal`.  While `stalls = 0`,
  `Alone` holds: a run is executed only by the worker that holds its live lease, and
  a candidate whose version is still the one read is executed by nobody, so a
  claim cannot make it two.  `Bare` follows: between the look for a proposal and the
  last checkpoint no one else commits one.  Without the condition it is false: a
  second worker may find the run cancelled while the first one proposes.

With these, every safety property of AgentRuns that a run checks is proved.

`RunEventStreamProofs`: `TypeCorrect`, `NothingIsSkipped`
(`StreamSpec => []NothingSkipped`) and `OutcomeIsKnown`
(`StreamSpec => []DoneKnowsOutcome`), from `StreamInv`: the logs only grow and a
terminal event is true (`ContractInv`, which the contract gives), and each
watcher is `Synced`: what the browser has shown, what is on the wire and what the
generator will send next are consecutive, and no terminal event lies among them
but as the last.  A step of a run preserves it because the log keeps its
beginning (`GrowthKeepsSynced`), a step of a watcher because it moves one event
from one part to the next.

`ActionLifecycleProofs`, from the assumptions that ActionLifecycle states
of its constants (each request is of one kind, at least one approval is asked
for), with and without row locks unless the theorem names them:

* `TypeCorrect`: `Spec => []TypeOK`.  The strengthening, `SessionsOK`, says
  which kind of request reaches each phase and that it knows its proposal there;
  otherwise a decision might be saved that is neither an approval nor a rejection.
* `ExecutionsClose`: `Spec => ExecutionsOnlyClose`.
* `ConsentIsGiven`: `Spec => []ConsentGiven`.  `Ballot` adds that the approvals
  of a proposal are finitely many, one for each user, and not by the requester;
  without "one for each user" the code's count of rows is no count of people.
  The theorem does not need the status, which racing requests overwrite.
* `OneExecutorOnly`: `Spec => []OneExecutor`.  `Handled` adds that a request has
  a proposal in hand only once it is executed, so no other one can start it.
* `AnswersAreKept`: `Spec => []AnswersHold`, and `OutcomesAreTrue`:
  `Spec => []OutcomeIsTrue`.
* `LocksKeepTheContract`: with row locks, `Spec => ImplementsContract`, the
  refinement of ActionContract; and `LocksObeyTheTable`: with row locks,
  `Spec => ObeysTable`.  Without row locks both are false (run `action_table`).
* `OnlyReplaysForget`: without audit replays and crashes, `Spec => []WritesAudited`.
  With replays it is false (run `action_audit`), and a process that dies between the
  commit of a success and its event leaves neither event nor mark.  The theorem says
  that there is no third way, although `complete_execution` writes back a mark it
  has read earlier: whoever commits the success is also the one who records it.

For the first four, `RowStep` says what any action may do to a proposal: a request
starts its execution and consumes its approvals (`Starts`), or the execution at
most closes (`Closes`) while at most one approval is added (`Votes`); and
`HandStep` says how a request comes to have a proposal in hand.  The others need
to know why a request may write what it writes, and the invariant is `LifeInv`:

* `Duty` is what a request may rely on in its phase.  It has the proposal in hand:
  the execution has its key, no effect yet, and has not failed.  It is about to
  save a success: the resource has shown the value (`Shown`).  It was answered:
  with an execution that has its key and is closed so.
* `Effect` relates the rows of a proposal: no effect without an execution, none but
  one, none if it failed, and a success that was shown.
* `Exclusive` says that two requests never hold the same locked row.  With it a
  status read under the lock is still the status when it is written, which is
  all that the contract and the table ask for.

`Turn` is the step of one request, which does its duty afterwards, and `Changes`
is all that any step may do to statuses, outcomes and effects (`Change(p)` names the
eight moves of a proposal).  That the requests which do not move can still do
their duty (`DutyStays`) follows from `Changes` alone.

`ActionControlProofs` proves every safety property of the run `action_control`:
`TypeCorrect`, `LogIsInOrder`, `SuccessesAreTrue` and `NothingIsSkipped`, for any
requests, keys, proposals, tries, crashes, browsers and lost connections.
`ArgumentsAssumption` says that an idempotency key is no number, because the dedupe
keys of executions and of reconciliations begin differently
(`action_control_service.py:227` and `:340`).  `ControlInv` consists of:

* `ServiceInv`: a success is final, in the outcome and in the status.
* `LogOK`: the numbers of a log are exactly 1 up to its size.  A request inserts a
  number that it computed earlier, from a log that has grown since; `FreeIsNext`
  says that if the number is still free, it is still the next one, and so the
  unique constraint is enough for a log without gaps.
* `Duty`: what a request is about to tell is in its turn and true (`Telling`).  After
  "accepted" was found or inserted it is in the log, whoever wrote it; "started" is
  there before the service is called; and who tells a success has seen the
  proposal succeed.  Logs only grow (`Grows`) and successes last, so it stays true.
* `Reading`: what a browser has seen is the log up to its cursor, and what is on
  the wire is what comes next in it, without a gap.

`MembershipsProofs` proves every property of the run `members`: `TypeCorrect`,
`OneSeatEach`, `LeaversHaveNoSeat`, `AnAdminRemains`, `PoolSuffices`,
`WritesAreReviewed`.  `Clean` is the heart of it: while a session is not `dirty`,
what it has read is what the tables hold, so a change on a check that is not
outdated acts on the state its rules were checked against.  `RoomShown` says that
an assignment whose version of the pool is current still finds room, and
`VersionInv` that a row at the version a session has seen is the row it has seen;
that is true only until a workflow writes on an outdated check, which uses a
version twice.

`AccessGrantsProofs` proves every property of the run `grants`: `TypeCorrect`,
`OneRowForAnAccess`, `ChangesAreReviewed`, `OutcomeIsApproved`.  `IInv` adds to
the types, for each session, that its plan is one of the plans and its readings
belong to its entries (`Planned`, `Placed`), that they are current while it is not
`dirty` (`Fresh`), and that a row at the version read is in the state read
(`Reviewed`, until a package was applied on an outdated check); and, for the
table, `Single` (one active row for an access) and `Intended` (an intent row for
every first grant of a managed access).

With these, every safety property that a passing run checks is proved, the two
refinements included.  Model-checked only: liveness (`EveryRunFinishes`,
`OutcomeArrives`, `Settles`, `SuccessTold`, `WatchEnds`), which is out of the
prover's reach, as is anything about ENABLED; and the three findings, which are
counterexamples.

## Plan

Done: AgentRuns, RunContract, RunEventStream; ActionLifecycle, ActionContract;
ActionControl; Memberships; AccessGrants; and the proofs above.  What is left:

1. The limits on proposals, the fingerprint and the rollback link of the action
   service, as further accesses in ActionLifecycle.
2. Bulk updates and snapshot restores of `workplace_resources/`: several steps of
   which one fails, with a receipt for each.
3. Pure algorithms against reference definitions: branch walk, compaction,
   advanced query, risk.
4. The stores of the Angular client.

## Not modelled

Wording and layout of events and answers, JSON validation, prompts and provider
calls, password and token handling, demonstration data, and read-only queries.
They keep no state that two actors could disagree about.  The generic workplace
resources (`workplace_resources/service.py`) and the fields, permissions and
lifecycle of a Nucleus account change one row with one compared UPDATE each: what
Memberships shows of `role` and AccessGrants of `Flip` holds for them.
The projection of the Nucleus store only reads.

Patch scripts (`apply_*.py`, `patch_extracted/`, `scratch/`) make up most of the
lines of Python here.  They rewrite source files once, are not imported by the
service, and contain copies of the modules under `app/`: there is nothing in them
to model beyond what those modules show.  Components planned above are listed in
PROJECT.json with their status.
