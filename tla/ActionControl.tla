---------------------------- MODULE ActionControl ----------------------------
(***************************************************************************)
(* The control plane of governed actions: execute and reconcile requests   *)
(* (app/services/action_control_service.py) run the action service and     *)
(* write what they do to a durable event log, one log per proposal         *)
(* (app/repositories/action_control_repository.py), which browsers follow  *)
(* over server-sent events (app/api/action_control_routes.py and           *)
(* frontend/src/app/core/sse/authenticated-sse-client.service.ts).         *)
(*                                                                         *)
(* The action service is its contract, ActionContract: a proposal and its  *)
(* execution move by the contract's steps, and what the service answers is *)
(* read off them.  Every access to the log is an action.                   *)
(***************************************************************************)
EXTENDS Naturals, Sequences, FiniteSets

CONSTANTS
    Proposals,
    Executors, Reconcilers,   \* the requests
    Keys, KeysOf,             \* the idempotency keys each executor may carry
    Viewers,                  \* browsers that follow a proposal
    None,
    MaxTries,                 \* of an append
    Batch,                    \* the limit of list_events
    MaxRequests,              \* bound: requests that come
    Mortal,                   \* bound: the requests whose process may die
    MaxDrops                  \* bound: lost connections

Requests == Executors \cup Reconcilers

ASSUME ArgumentsAssumption ==
    /\ KeysOf \in [Executors -> SUBSET Keys]
    /\ Executors \cap Reconcilers = {}
    /\ None \notin Proposals \cup Keys
    /\ Keys \cap Nat = {}   \* a dedupe key tells an execution from a reconciliation
    /\ Mortal \subseteq Requests
ASSUME LimitsAssumption ==
    /\ {MaxTries, Batch} \subseteq Nat \ {0}
    /\ {MaxRequests, MaxDrops} \subseteq Nat

VARIABLES
    status,     \* of a proposal
    outcome,    \* of its execution
    keyOf,      \* the idempotency key of its execution
    attempts,   \* the attempt_count of its execution
    log,        \* its agent_action_execution_events
    requests,   \* where each request is
    viewers,    \* what each browser has seen
    drops       \* counts toward MaxDrops

service == <<status, outcome, keyOf, attempts>>
vars == <<service, log, requests, viewers, drops>>

Contract == INSTANCE ActionContract

-----------------------------------------------------------------------------
(* Events.  A dedupe key is the kind of an event with the idempotency key  *)
(* of the execution, or the number of the reconciliation, that it is of.   *)

\* Events that follow one another whatever happens are one event: "accepted"
\* stands for the three before "started", "requested" for the two that open a
\* reconciliation, and resource.verifying goes with the terminal event after it.
Opening == <<"accepted", "started">>
Statuses == {"absent", "pending_approval", "approved", "rejected", "expired",
             "cancelled", "stale", "executing", "reconciliation_required", "succeeded"}
Outcomes == {"none", "executing", "succeeded", "failed", "reconciliation_required"}

Terminal == {"succeeded", "failed", "stale",
             "reconciliation-required",   \* the service has raised
             "reconciliation_required",   \* the service has returned
             "unresolved", "error"}       \* of a reconciliation
Kinds == Terminal \cup {"accepted", "started", "requested"}

Event == [n : Nat, by : Keys \cup Nat, kind : Kinds]

Recorded(p, by, kind) == \E e \in log[p] : e.by = by /\ e.kind = kind

\* max(sequence) + 1
NextNumber(p) == IF log[p] = {} THEN {1}
    ELSE {e.n + 1 : e \in {f \in log[p] : \A g \in log[p] : g.n <= f.n}}

-----------------------------------------------------------------------------
(* Requests and viewers.                                                   *)

Phases == {"idle", "check",       \* before the first event
           "look", "insert",      \* append_event
           "serve", "apply",      \* the call of the action service
           "done", "cut"}         \* ended; died or gave up

Request == [at    : Phases,
            on    : Proposals \cup {None},
            by    : Keys \cup Nat,   \* the prefix of its dedupe keys
            todo  : Seq(Kinds),      \* the events it will emit ...
            then  : Phases,          \* ... and what it does afterwards
            n     : Nat,             \* the number it will insert
            tries : Nat]

NoRequest == [at |-> "idle", on |-> None, by |-> 0, todo |-> <<>>, then |-> "done",
              n |-> 0, tries |-> 0]

Admitted == Cardinality({r \in Requests : requests[r].at # "idle"}) < MaxRequests
At(r, phase) == requests[r].at = phase
On(r) == requests[r].on
\* A request that has ended keeps nothing but its proposal.
Become(r, new) == requests' = [requests EXCEPT ![r] =
    IF new.at \in {"done", "cut"}
    THEN [NoRequest EXCEPT !.at = new.at, !.on = new.on] ELSE new]
Goto(r, phase) == Become(r, [requests[r] EXCEPT !.at = phase])
\* Emits these events and goes on.
Emit(r, kinds, then) == Become(r, [requests[r] EXCEPT
    !.todo = kinds, !.then = then, !.at = "look"])

Viewer == [at    : {"away", "watching", "ended", "refreshed"},
           on    : Proposals \cup {None},
           last  : Nat,                 \* lastSequence
           seen  : SUBSET Event,
           batch : SUBSET Event,        \* on the wire
           shown : Statuses]            \* the status it shows

Init ==
    /\ Contract!Init
    /\ keyOf = [p \in Proposals |-> None]
    /\ attempts = [p \in Proposals |-> 0]
    /\ log = [p \in Proposals |-> {}]
    /\ requests = [r \in Requests |-> NoRequest]
    /\ viewers = [v \in Viewers |->
          [at |-> "away", on |-> None, last |-> 0, seen |-> {}, batch |-> {},
           shown |-> "absent"]]
    /\ drops = 0

\* Proposals are made, decided, withdrawn and outdated by others.
Govern(p) ==
    /\ Contract!Propose(p) \/ Contract!Decide(p) \/ Contract!Withdraw(p)
    /\ UNCHANGED <<keyOf, attempts, log, requests, viewers, drops>>

-----------------------------------------------------------------------------
(* append_event.                                                           *)

Advance(r) == LET rest == Tail(requests[r].todo) IN
    Become(r, [requests[r] EXCEPT
        !.todo = rest, !.n = 0, !.tries = 0,
        !.at = IF rest = <<>> THEN requests[r].then ELSE "look"])

\* An event is emitted once; the tries are bounded.  The dedupe key and the
\* greatest number are two reads, but a rival that comes between them takes
\* the dedupe key and Insert finds out.
Look(r) ==
    /\ At(r, "look")
    /\ LET req == requests[r]
           p == On(r)
       IN  IF Recorded(p, req.by, Head(req.todo)) THEN Advance(r)
           ELSE IF req.tries >= MaxTries THEN Goto(r, "cut")
           ELSE \E n \in NextNumber(p) :
                    Become(r, [req EXCEPT !.n = n, !.at = "insert"])
    /\ UNCHANGED <<service, log, viewers, drops>>

\* Mutant: no unique constraint.
InsertBlindly(r) ==
    /\ At(r, "insert")
    /\ log' = [log EXCEPT ![On(r)] = @ \cup
          {[n |-> requests[r].n, by |-> requests[r].by, kind |-> Head(requests[r].todo)]}]
    /\ Advance(r)
    /\ UNCHANGED <<service, viewers, drops>>

\* Mutant: whatever constraint it violates, the event is taken for a repetition.
InsertOrForget(r) ==
    /\ At(r, "insert")
    /\ IF \E e \in log[On(r)] : e.n = requests[r].n
       THEN UNCHANGED log
       ELSE log' = [log EXCEPT ![On(r)] = @ \cup
              {[n |-> requests[r].n, by |-> requests[r].by,
                kind |-> Head(requests[r].todo)]}]
    /\ Advance(r)
    /\ UNCHANGED <<service, viewers, drops>>

\* The number and the dedupe key are unique in the log of a proposal.
Insert(r) ==
    /\ At(r, "insert")
    /\ LET req == requests[r]
           p == On(r)
           e == [n |-> req.n, by |-> req.by, kind |-> Head(req.todo)]
           free == /\ ~Recorded(p, e.by, e.kind)
                   /\ \A f \in log[p] : f.n # e.n
       IN  IF free
           THEN log' = [log EXCEPT ![p] = @ \cup {e}] /\ Advance(r)
           ELSE /\ Become(r, [req EXCEPT !.n = 0, !.tries = @ + 1, !.at = "look"])
                /\ UNCHANGED log
    /\ UNCHANGED <<service, viewers, drops>>

-----------------------------------------------------------------------------
(* execute.                                                                *)

Execute(x, p) ==
    /\ At(x, "idle") /\ Admitted
    /\ status[p] = "approved"
    /\ \E key \in KeysOf[x] :
           Become(x, [requests[x] EXCEPT !.on = p, !.by = key, !.at = "check"])
    /\ UNCHANGED <<service, log, viewers, drops>>

\* An execution with another key is refused before anything is told.
CheckKey(x) ==
    /\ At(x, "check")
    /\ IF keyOf[On(x)] \in {None, requests[x].by} THEN Emit(x, Opening, "serve")
                                            ELSE Goto(x, "done")
    /\ UNCHANGED <<service, log, viewers, drops>>

\* The service starts the execution ...
Start(x) ==
    /\ At(x, "serve") /\ x \in Executors
    /\ Contract!Execute(On(x))
    /\ keyOf' = [keyOf EXCEPT ![On(x)] = requests[x].by]
    /\ attempts' = [attempts EXCEPT ![On(x)] = 1]
    /\ Goto(x, "apply")
    /\ UNCHANGED <<log, viewers, drops>>

\* Mutant: an execution in progress is answered like a finished one.
OptimisticAnswers(x) ==
    IF keyOf[On(x)] = requests[x].by THEN {<<"succeeded">>} ELSE {<<"failed">>}

\* Mutant: an execution in progress is answered with its outcome.
AnswersInProgress(x) ==
    IF keyOf[On(x)] = requests[x].by THEN {<<outcome[On(x)]>>} ELSE {<<"failed">>}

\* ... or answers with the execution of this key, or raises: because the
\* approved change is outdated, or for one of many reasons (it is in progress,
\* has another key, has expired ...) that are all told as a failure.
Answers(x) ==
    LET p == On(x) IN
    {<<"failed">>}
    \cup (IF status[p] # "approved" THEN {<<"stale">>} ELSE {})
    \cup (IF keyOf[p] # requests[x].by THEN {}
          ELSE CASE outcome[p] \in {"succeeded", "failed"} -> {<<outcome[p]>>}
                 [] outcome[p] = "reconciliation_required" ->
                        {<<"reconciliation-required">>, <<outcome[p]>>}
                 [] OTHER -> {})

Answer(x) ==
    /\ At(x, "serve") /\ x \in Executors
    /\ \E kinds \in Answers(x) : Emit(x, kinds, "done")
    /\ UNCHANGED <<service, log, viewers, drops>>

\* The service finds the resource changed and marks the proposal.
Outdate(x) ==
    /\ At(x, "serve") /\ x \in Executors
    /\ Contract!Outdate(On(x))
    /\ Emit(x, <<"stale">>, "done")
    /\ UNCHANGED <<keyOf, attempts, log, viewers, drops>>

Tell(result) ==
    CASE result = "succeeded" -> <<"succeeded">>
      [] result = "reconciliation_required" -> <<"reconciliation-required">>
      [] result = "failed" -> <<"stale">>

\* The effect is over.  When a reconciliation has closed the execution before,
\* the service raises.
Conclude(x) ==
    /\ At(x, "apply")
    /\ LET p == On(x)
       IN  \/ /\ outcome[p] = "executing"
              /\ Contract!Resolve(p)
              /\ \E result \in Outcomes \ {"none", "executing"} :
                     outcome'[p] = result /\ Emit(x, Tell(result), "done")
           \/ /\ outcome[p] # "executing"
              /\ Emit(x, <<"failed">>, "done")
              /\ UNCHANGED <<status, outcome>>
    /\ UNCHANGED <<keyOf, attempts, log, viewers, drops>>

-----------------------------------------------------------------------------
(* reconcile.                                                              *)

\* The number of the attempt is read before the service counts it.
Reconcile(r, p) ==
    /\ At(r, "idle") /\ Admitted
    /\ status[p] # "absent"
    /\ Become(r, [requests[r] EXCEPT
          !.on = p, !.by = attempts[p] + 1,
          !.todo = <<"requested">>, !.then = "serve", !.at = "look"])
    /\ UNCHANGED <<service, log, viewers, drops>>

\* The service counts the attempts of an execution; concurrent reconciliations
\* may lose a count.
Count(p) ==
    \/ UNCHANGED attempts
    \/ outcome[p] # "none" /\ attempts' = [attempts EXCEPT ![p] = @ + 1]

\* The resource shows that the change was made.
Confirm(r) ==
    /\ At(r, "serve") /\ r \in Reconcilers
    /\ Contract!Resolve(On(r)) /\ outcome'[On(r)] = "succeeded"
    /\ Count(On(r))
    /\ Emit(r, <<"succeeded">>, "done")
    /\ UNCHANGED <<keyOf, log, viewers, drops>>

\* It does not, or the service raises, or the execution was closed before.
Findings(p) ==
    {<<"error">>}
    \cup (IF outcome[p] = "succeeded" THEN {<<"succeeded">>} ELSE {})
    \cup (IF outcome[p] \in {"reconciliation_required", "failed"}
          THEN {<<"unresolved">>} ELSE {})

LeaveUnresolved(r) ==
    /\ At(r, "serve") /\ r \in Reconcilers
    /\ Count(On(r))
    /\ \E kinds \in Findings(On(r)) : Emit(r, kinds, "done")
    /\ UNCHANGED <<status, outcome, keyOf, log, viewers, drops>>

\* A request dies with its process.
Crash(r) ==
    /\ r \in Mortal
    /\ requests[r].at \notin {"idle", "done", "cut"}
    /\ Goto(r, "cut")
    /\ UNCHANGED <<service, log, viewers, drops>>

-----------------------------------------------------------------------------
(* The stream and the browser.                                             *)

See(v, new) == viewers' = [viewers EXCEPT ![v] = new]

\* A stream is opened before a request is sent and again after it is lost.
Watch(v, p) ==
    /\ viewers[v].at \in {"away", "refreshed"}
    /\ viewers[v].on \in {None, p} /\ status[p] # "absent"
    /\ See(v, [viewers[v] EXCEPT !.at = "watching", !.on = p])
    /\ UNCHANGED <<service, log, requests, drops>>

\* The first events after the last one, at most Batch of them.
NextEvents(p, last) ==
    LET newer == {e \in log[p] : e.n > last}
    IN  {e \in newer : Cardinality({f \in newer : f.n < e.n}) < Batch}

\* Mutant: nothing is sent of an execution that is closed.
ListWhileOpen(v) ==
    /\ viewers[v].at = "watching" /\ viewers[v].batch = {}
    /\ outcome[viewers[v].on] \notin {"succeeded", "failed"}
    /\ LET new == NextEvents(viewers[v].on, viewers[v].last)
       IN  new # {} /\ See(v, [viewers[v] EXCEPT !.batch = new])
    /\ UNCHANGED <<service, log, requests, drops>>

\* The stream lists again when all of them are sent, so that its cursor is the
\* lastSequence of the browser.
ListEvents(v) ==
    /\ viewers[v].at = "watching" /\ viewers[v].batch = {}
    /\ LET new == NextEvents(viewers[v].on, viewers[v].last)
       IN  new # {} /\ See(v, [viewers[v] EXCEPT !.batch = new])
    /\ UNCHANGED <<service, log, requests, drops>>

\* The browser stops at the first terminal event; the stream ends after a
\* terminal event that is the last of its batch.
Deliver(v) ==
    /\ viewers[v].at = "watching"
    /\ \E e \in viewers[v].batch :
           /\ \A f \in viewers[v].batch : e.n <= f.n
           /\ LET stops == e.kind \in Terminal
              IN  See(v, [viewers[v] EXCEPT
                      !.last = e.n, !.seen = @ \cup {e},
                      !.batch = IF stops THEN {} ELSE @ \ {e},
                      !.at = IF stops THEN "ended" ELSE "watching"])
    /\ UNCHANGED <<service, log, requests, drops>>

\* Mutant: the browser goes on after what was sent, not after what it has read.
DropAndSkip(v) ==
    /\ viewers[v].batch # {}
    /\ drops < MaxDrops
    /\ drops' = drops + 1
    /\ \E e \in viewers[v].batch :
           /\ \A f \in viewers[v].batch : f.n <= e.n
           /\ See(v, [viewers[v] EXCEPT !.batch = {}, !.last = e.n])
    /\ UNCHANGED <<service, log, requests>>

\* A connection is lost with what is on it; the browser reconnects.
Drop(v) ==
    /\ viewers[v].batch # {}
    /\ drops < MaxDrops
    /\ drops' = drops + 1
    /\ See(v, [viewers[v] EXCEPT !.batch = {}])
    /\ UNCHANGED <<service, log, requests>>

\* After the end of a stream the browser reads the proposal again.
Refresh(v) ==
    /\ viewers[v].at = "ended"
    /\ See(v, [viewers[v] EXCEPT !.at = "refreshed", !.shown = status[viewers[v].on]])
    /\ UNCHANGED <<service, log, requests, drops>>

-----------------------------------------------------------------------------

\* What a request does once it is there, and what a browser does by itself.
Proceed(r) ==
    \/ Look(r) \/ Insert(r)
    \/ CheckKey(r) \/ Start(r) \/ Answer(r) \/ Outdate(r) \/ Conclude(r)
    \/ Confirm(r) \/ LeaveUnresolved(r)
Follow(v) == ListEvents(v) \/ Deliver(v) \/ Refresh(v)

Next ==
    \/ \E p \in Proposals :
          \/ Govern(p)
          \/ \E x \in Executors : Execute(x, p)
          \/ \E r \in Reconcilers : Reconcile(r, p)
          \/ \E v \in Viewers : Watch(v, p)
    \/ \E r \in Requests : Proceed(r) \/ Crash(r)
    \/ \E v \in Viewers : Follow(v) \/ Drop(v)

Spec == Init /\ [][Next]_vars

\* A handler runs to its end unless its process dies; streams poll and browsers
\* reconnect for ever.
FairSpec ==
    /\ Spec
    /\ \A r \in Requests : WF_vars(Proceed(r))
    /\ \A v \in Viewers : WF_vars(Follow(v))

-----------------------------------------------------------------------------
(* Properties.                                                             *)

\* Every variable has its type.
TypeOK ==
    /\ status \in [Proposals -> Statuses]
    /\ outcome \in [Proposals -> Outcomes]
    /\ keyOf \in [Proposals -> Keys \cup {None}]
    /\ attempts \in [Proposals -> Nat]
    /\ log \in [Proposals -> SUBSET Event]
    /\ requests \in [Requests -> Request]
    /\ viewers \in [Viewers -> Viewer]
    /\ drops \in Nat

\* The events of a proposal are numbered 1, 2, 3 ... without a gap, a number or
\* an event is used once, whatever requests append at once and wherever they
\* die (append_event), and what executions with one idempotency key tell is in
\* the order of the code, accepted, started, then anything else, although
\* several requests with this key may tell it together
\* (ActionControlService.execute).
LogInOrder == \A p \in Proposals :
    /\ \A e \in log[p] : e.n = 1 \/ \E f \in log[p] : f.n + 1 = e.n
    /\ \A e, f \in log[p] : e.n = f.n => e = f
    /\ \A e, f \in log[p] : e.by = f.by /\ e.kind = f.kind => e = f
    /\ \A e \in log[p] : e.by \in Keys /\ e.kind # "accepted" =>
          \E f \in log[p] :
              /\ f.by = e.by /\ f.n < e.n
              /\ f.kind = IF e.kind = "started" THEN "accepted" ELSE "started"

\* No request tells a success that is not one: the action has succeeded and
\* stays so (ActionControlService.execute and reconcile), and a browser that
\* was told shows it once it has read the proposal again
\* (ApprovalCenterStore.refreshSelected).
SuccessIsTrue ==
    /\ \A p \in Proposals :
          (\E e \in log[p] : e.kind = "succeeded") => outcome[p] = "succeeded"
    /\ \A v \in Viewers :
          viewers[v].at = "refreshed" /\ (\E e \in viewers[v].seen : e.kind = "succeeded")
              => viewers[v].shown = "succeeded"

\* A browser has seen every event up to the last one it has seen, over all its
\* connections and streams (list_events, AuthenticatedSseClient.consume).
NothingSkipped == \A v \in Viewers :
    viewers[v].on # None =>
        viewers[v].seen = {e \in log[viewers[v].on] : e.n <= viewers[v].last}

\* An action that succeeded is told to be, unless the request that should tell
\* it died or gave up appending.
SuccessTold == \A p \in Proposals :
    outcome[p] = "succeeded" ~>
        \/ \E e \in log[p] : e.kind = "succeeded"
        \/ \E r \in Requests : At(r, "cut") /\ On(r) = p

\* A browser that watches a proposal comes to the next terminal event, over
\* lost connections, and stops watching.
WatchEnds == \A v \in Viewers :
    (/\ viewers[v].at = "watching"
     /\ \E e \in log[viewers[v].on] : e.kind \in Terminal /\ e.n > viewers[v].last)
        ~> viewers[v].at # "watching"
=============================================================================
