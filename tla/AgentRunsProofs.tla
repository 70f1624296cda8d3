--------------------------- MODULE AgentRunsProofs ---------------------------
(* Theorems about AgentRuns, for every value of its constants. *)
EXTENDS AgentRuns, TLAPS

\* What a session reads of a row is a snapshot.
LEMMA SeenIsSnapshot ==
    ASSUME NEW row \in Run PROVE Seen(row) \in Snapshot
  BY DEF Run, Seen, Snapshot

LEMMA AbsentRunIsRun == AbsentRun \in Run
  BY DEF AbsentRun, Run

LEMMA IdleIsTyped == IdleWorker \in Worker /\ IdleCancel \in Cancel
<1>1. NoSnapshot \in Snapshot
  BY SeenIsSnapshot, AbsentRunIsRun DEF NoSnapshot
<1>2. 0 \in Turns
  BY BoundsAssumption DEF Turns
<1> QED
  BY <1>1, <1>2 DEF IdleWorker, IdleCancel, Worker, Cancel, Phases, Executing,
     NoConversation, SeenConv, AbsentConversation, ConvSnapshot

-----------------------------------------------------------------------------
(* Types.  TypeOK is not inductive alone: a busy process must know a run,  *)
(* and a completion must have a mode.                                      *)

LocalsOK ==
    /\ \A w \in Workers :
          /\ workers[w].phase # "idle" => workers[w].run \in Calls
          /\ workers[w].phase \in {"complete", "commit"} => workers[w].mode \in Modes
    /\ \A u \in Cancellers : cancels[u].phase # "idle" => cancels[u].run \in Calls

TypeInv == TypeOK /\ LocalsOK

LEMMA TypeInit == Init => TypeInv
<1> SUFFICES ASSUME Init PROVE TypeInv
  OBVIOUS
<1>1. 0 \in Turns
  BY BoundsAssumption DEF Turns
<1>2. calls \in [Calls -> Call]
  BY <1>1 DEF Init, Call, CallPhases, Outcomes, NoConversation, SeenConv,
     AbsentConversation, ConvSnapshot
<1>3. /\ runs \in [Calls -> Run]
      /\ workers \in [Workers -> Worker]
      /\ cancels \in [Cancellers -> Cancel]
  BY IdleIsTyped, AbsentRunIsRun DEF Init
<1>4. /\ events \in [Calls -> SUBSET Event]
      /\ messages \in [Calls -> SUBSET Message]
      /\ convs \in [Calls -> Conversation]
      /\ proposals \in [Calls -> Nat]
      /\ stalls \in 0 .. MaxStalls
      /\ crashes \in 0 .. MaxCrashes
  BY BoundsAssumption DEF Init, AbsentConversation, Conversation
<1>5. LocalsOK
  BY DEF Init, LocalsOK, IdleWorker, IdleCancel
<1> QED
  BY <1>2, <1>3, <1>4, <1>5 DEF TypeInv, TypeOK

\* The calls of create_run.
LEMMA CallTypes ==
    ASSUME TypeInv, NEW k \in Calls, CallStep(k)
    PROVE  TypeInv'
<1> USE DEF TypeInv, TypeOK, LocalsOK, store
<1>a. calls[k] \in Call
  OBVIOUS
<1>b. ASSUME NEW new \in Call, calls' = [calls EXCEPT ![k] = new]
      PROVE  calls' \in [Calls -> Call]
  BY <1>b
<1>1. ASSUME NEW outcome \in Outcomes, NEW r \in Calls \cup {None},
             Answer(k, outcome, r)
      PROVE  calls' \in [Calls -> Call]
  <2> DEFINE new == [calls[k] EXCEPT !.phase = "done", !.outcome = outcome, !.run = r]
  <2>1. new \in Call
    BY <1>a DEF Call, CallPhases
  <2> QED
    BY <1>1, <2>1 DEF Answer
<1>2. ASSUME NEW r \in Calls, AnswerExisting(k, r)
      PROVE  calls' \in [Calls -> Call]
  BY <1>1, <1>2 DEF AnswerExisting, Outcomes
<1>3. ASSUME RetryCreate(k)
      PROVE  calls' \in [Calls -> Call]
  <2>1. CASE calls[k].tries + 1 = MaxTries
    BY <1>1, <1>3, <2>1 DEF RetryCreate, Outcomes
  <2>2. CASE calls[k].tries + 1 # MaxTries
    <3> DEFINE new == [calls[k] EXCEPT !.phase = "reading",
                                        !.tries = calls[k].tries + 1]
    <3>1. calls[k].tries + 1 \in Turns
      <4>1. calls[k].tries \in Turns
        BY <1>a DEF Call
      <4> QED
        BY <2>2, <4>1, BoundsAssumption DEF Turns
    <3>2. new \in Call
      BY <1>a, <3>1 DEF Call, CallPhases
    <3> QED
      BY <1>3, <2>2, <3>2 DEF RetryCreate
  <2> QED
    BY <2>1, <2>2
<1>4. ASSUME NEW c \in Calls, InsertRun(k, c)
      PROVE  /\ runs' \in [Calls -> Run]
             /\ events' \in [Calls -> SUBSET Event]
  <2> DEFINE new == [AbsentRun EXCEPT !.status = "queued", !.slot = TRUE,
                                      !.version = 1, !.conv = c, !.next = 2]
  <2>1. new \in Run
    BY AbsentRunIsRun DEF Run, ActiveStatuses
  <2>2. [seq |-> 1, kind |-> "run.accepted"] \in Event
    BY DEF Event, Kinds
  <2> QED
    BY <1>4, <2>1, <2>2 DEF InsertRun, AddEvent
<1>5. ASSUME NEW c \in Calls, NEW n \in Nat, AddMessage(c, n, "user", k)
      PROVE  messages' \in [Calls -> SUBSET Message]
  BY <1>5 DEF AddMessage, Message
<1>6. CASE ReadForCreate(k)
  <2> DEFINE c == calls[k].target
             seen == IF c = None THEN NoConversation ELSE SeenConv(convs[c])
             new == [calls[k] EXCEPT !.phase = "writing", !.seen = seen]
  <2>1. new \in Call
    <3>1. c \in Calls \cup {None}
      BY <1>a DEF Call
    <3>2. seen \in ConvSnapshot
      BY <3>1 DEF NoConversation, AbsentConversation, SeenConv, ConvSnapshot,
         Conversation
    <3> QED
      BY <1>a, <3>2 DEF Call, CallPhases
  <2>2. calls' = [calls EXCEPT ![k] = new] => calls' \in [Calls -> Call]
    BY <2>1
  <2>3. calls' \in [Calls -> Call]
    BY <1>1, <1>6, <2>2 DEF ReadForCreate, Outcomes
  <2> QED
    BY <1>6, <2>3 DEF ReadForCreate
<1>11. CASE LookUpKey(k)
  <2> DEFINE new == [calls[k] EXCEPT !.phase = "checking"]
  <2>1. new \in Call
    BY <1>a DEF Call, CallPhases
  <2>2. calls' \in [Calls -> Call]
    BY <1>2, <1>11, <2>1 DEF LookUpKey, HolderOf
  <2> QED
    BY <1>11, <2>2 DEF LookUpKey
<1>7. CASE CreateInNewConversation(k)
  <2>1. convs' \in [Calls -> Conversation]
    BY <1>7 DEF CreateInNewConversation, Conversation
  <2>2. calls' \in [Calls -> Call]
    BY <1>1, <1>7 DEF CreateInNewConversation, Outcomes
  <2> QED
    BY <1>4, <1>5, <1>7, <2>1, <2>2 DEF CreateInNewConversation
<1>8. CASE CreateInConversation(k)
  <2> DEFINE c == calls[k].target
             seen == calls[k].seen
  <2>1. c \in Calls /\ seen \in ConvSnapshot
    BY <1>8 DEF CreateInConversation, Call
  <2>2. convs' \in [Calls -> Conversation]
    <3> DEFINE new == [convs[c] EXCEPT !.version = seen.version + 1,
                                       !.next = seen.next + 1]
    <3>1. new \in Conversation
      <4>1. convs[c] \in Conversation /\ seen.version + 1 \in Nat /\ seen.next + 1 \in Nat
        BY <2>1 DEF ConvSnapshot
      <4> QED
        BY <4>1 DEF Conversation
    <3> QED
      BY <1>8, <2>1, <3>1 DEF CreateInConversation
  <2>3. calls' \in [Calls -> Call]
    BY <1>1, <1>8 DEF CreateInConversation, Outcomes
  <2> QED
    BY <1>4, <1>5, <1>8, <2>1, <2>2, <2>3 DEF CreateInConversation, ConvSnapshot
<1>9. CASE CreateLosesRace(k)
  BY <1>3, <1>9 DEF CreateLosesRace
<1>10. CASE CreateConflicts(k)
  <2>1. calls' \in [Calls -> Call]
    BY <1>1, <1>2, <1>3, <1>10 DEF CreateConflicts, Outcomes, HolderOf
  <2> QED
    BY <1>10, <2>1 DEF CreateConflicts
<1> QED
  BY <1>6, <1>7, <1>8, <1>9, <1>10, <1>11 DEF CallStep

\* append_event and the end of a run keep rows and events typed.
LEMMA EventTyped ==
    ASSUME TypeOK, NEW r \in Calls, NEW n \in Nat, NEW kind \in Kinds,
           AddEvent(r, n, kind)
    PROVE  events' \in [Calls -> SUBSET Event]
<1>1. [seq |-> n, kind |-> kind] \in Event
  BY DEF Event
<1> QED
  BY <1>1 DEF AddEvent, TypeOK

LEMMA AppendTyped ==
    ASSUME TypeOK, NEW r \in Calls, NEW seen \in Snapshot, NEW kind \in Kinds,
           AppendEvent(r, seen, kind)
    PROVE  runs' \in [Calls -> Run] /\ events' \in [Calls -> SUBSET Event]
<1> DEFINE new == [runs[r] EXCEPT !.next = seen.next + 1,
                                  !.version = seen.version + 1]
<1>1. seen.next \in Nat /\ seen.version \in Nat
  BY DEF Snapshot
<1>2. runs[r] \in Run /\ seen.next + 1 \in Nat /\ seen.version + 1 \in Nat
  BY <1>1 DEF TypeOK
<1>3. new \in Run
  BY <1>2 DEF Run
<1>4. runs' \in [Calls -> Run]
  BY <1>3 DEF AppendEvent, TypeOK
<1> QED
  BY <1>1, <1>4, EventTyped DEF AppendEvent

LEMMA FinishTyped ==
    ASSUME TypeOK, NEW r \in Calls, NEW seen \in Snapshot,
           NEW status \in TerminalStatuses, NEW proposal \in BOOLEAN,
           Finish(r, seen, status, proposal)
    PROVE  runs' \in [Calls -> Run]
<1> DEFINE new ==
      [runs[r] EXCEPT !.status = status, !.slot = FALSE, !.owner = None,
                      !.lease = "none", !.proposal = proposal,
                      !.next = seen.next + 1, !.version = seen.version + 1]
<1>1. seen.next \in Nat /\ seen.version \in Nat
  BY DEF Snapshot
<1>2. runs[r] \in Run /\ seen.next + 1 \in Nat /\ seen.version + 1 \in Nat
  BY <1>1 DEF TypeOK
<1>3. new \in Run
  BY <1>2 DEF Run
<1> QED
  BY <1>3 DEF Finish, TypeOK

\* The calls of request_cancellation.
LEMMA CancelTypes ==
    ASSUME TypeInv, NEW u \in Cancellers, CancelStep(u)
    PROVE  TypeInv'
<1> USE DEF TypeInv, TypeOK, LocalsOK
<1> DEFINE r == cancels[u].run
           seen == cancels[u].seen
<1>1. cancels[u] \in Cancel /\ seen \in Snapshot
  BY DEF Cancel
<1>2. ASSUME NEW done \in BOOLEAN, cancels[u].phase # "idle", RetryCancel(u, done)
      PROVE  /\ cancels' \in [Cancellers -> Cancel]
             /\ \A v \in Cancellers :
                  cancels'[v].phase # "idle" => cancels'[v].run \in Calls
  <2> DEFINE new == [cancels[u] EXCEPT !.seen = Seen(runs[r]),
                                       !.tries = cancels[u].tries + 1]
  <2>1. CASE done \/ cancels[u].tries + 1 = MaxTries
    <3>1. cancels' = [cancels EXCEPT ![u] = IdleCancel]
      BY <1>2, <2>1 DEF RetryCancel
    <3> QED
      BY <3>1, IdleIsTyped DEF IdleCancel
  <2>2. CASE ~(done \/ cancels[u].tries + 1 = MaxTries)
    <3>1. cancels[u].tries \in Turns
      BY <1>1 DEF Cancel
    <3>2. cancels[u].tries + 1 \in Turns
      BY <2>2, <3>1, BoundsAssumption DEF Turns
    <3>3. r \in Calls /\ Seen(runs[r]) \in Snapshot
      BY <1>2, SeenIsSnapshot
    <3>4. new \in Cancel /\ new.run = r
      BY <1>1, <3>2, <3>3 DEF Cancel
    <3>5. cancels' = [cancels EXCEPT ![u] = new]
      BY <1>2, <2>2 DEF RetryCancel
    <3> QED
      BY <3>3, <3>4, <3>5
  <2> QED
    BY <2>1, <2>2
<1>3. ASSUME NEW s \in Calls, RequestCancellation(u, s)
      PROVE  TypeInv'
  <2> DEFINE new == [phase |-> "writing", run |-> s, seen |-> Seen(runs[s]),
                     tries |-> 0]
  <2>1. Seen(runs[s]) \in Snapshot /\ 0 \in Turns
    BY SeenIsSnapshot, BoundsAssumption DEF Turns
  <2>2. new \in Cancel /\ new.run \in Calls
    BY <2>1 DEF Cancel
  <2>3. cancels' = [cancels EXCEPT ![u] = new]
    BY <1>3 DEF RequestCancellation
  <2> QED
    BY <1>3, <2>2, <2>3 DEF RequestCancellation, store
<1>4. CASE WriteCancellation(u)
  <2> DEFINE row == [runs[r] EXCEPT !.cancel = TRUE, !.status = "cancel_requested",
                                    !.version = seen.version + 1]
             new == [cancels[u] EXCEPT !.phase = "announcing",
                                       !.seen = Seen(row), !.tries = 0]
  <2>1. r \in Calls /\ seen.version + 1 \in Nat
    BY <1>1, <1>4 DEF WriteCancellation, Snapshot
  <2>2. runs[r] \in Run /\ "cancel_requested" \in ActiveStatuses
    BY <2>1 DEF ActiveStatuses
  <2>3. row \in Run
    BY <2>1, <2>2 DEF Run
  <2>4. runs' = [runs EXCEPT ![r] = row]
    BY <1>4 DEF WriteCancellation
  <2>5. runs' \in [Calls -> Run] /\ runs'[r] = row
    BY <2>1, <2>3, <2>4
  <2>6. Seen(row) \in Snapshot /\ 0 \in Turns
    BY <2>3, SeenIsSnapshot, BoundsAssumption DEF Turns
  <2>7. new \in Cancel /\ new.run = r
    BY <1>1, <2>6 DEF Cancel
  <2>8. cancels' = [cancels EXCEPT ![u] = new]
    BY <1>4, <2>5 DEF WriteCancellation
  <2> QED
    BY <1>4, <2>1, <2>5, <2>7, <2>8 DEF WriteCancellation
<1>5. CASE CancellationLosesRace(u)
  BY <1>2, <1>5 DEF CancellationLosesRace, store
<1>6. CASE AnnounceCancellation(u)
  <2>1. r \in Calls
    BY <1>6 DEF AnnounceCancellation
  <2>2. CASE AppendEvent(r, seen, "run.cancel_requested")
                /\ cancels' = [cancels EXCEPT ![u] = IdleCancel]
    <3>1. runs' \in [Calls -> Run] /\ events' \in [Calls -> SUBSET Event]
      BY <1>1, <2>1, <2>2, AppendTyped DEF Kinds
    <3>2. cancels' \in [Cancellers -> Cancel]
      BY <2>2, IdleIsTyped
    <3>3. \A v \in Cancellers : cancels'[v].phase # "idle" => cancels'[v].run \in Calls
      BY <2>2 DEF IdleCancel
    <3> QED
      BY <1>6, <2>2, <3>1, <3>2, <3>3 DEF AnnounceCancellation, AppendEvent
  <2>3. CASE RetryCancel(u, FALSE) /\ UNCHANGED store
    BY <1>2, <1>6, <2>3 DEF AnnounceCancellation, store
  <2> QED
    BY <1>6, <2>2, <2>3 DEF AnnounceCancellation
<1> QED
  BY <1>3, <1>4, <1>5, <1>6 DEF CancelStep

\* The transitions of a worker.
GoodWorker(me) ==
    /\ me \in Worker
    /\ me.phase # "idle" => me.run \in Calls
    /\ me.phase \in {"complete", "commit"} => me.mode \in Modes

GoodWorkers == workers \in [Workers -> Worker] /\ \A w \in Workers : GoodWorker(workers[w])

LEMMA BecomeGood ==
    ASSUME GoodWorkers, NEW w \in Workers, NEW new, GoodWorker(new), Become(w, new)
    PROVE  GoodWorkers'
  BY DEF GoodWorkers, GoodWorker, Become

LEMMA StopGood ==
    ASSUME GoodWorkers, NEW w \in Workers, Stop(w)
    PROVE  GoodWorkers'
<1>1. GoodWorker(IdleWorker)
  BY IdleIsTyped DEF GoodWorker, IdleWorker
<1> QED
  BY <1>1, BecomeGood DEF Stop

LEMMA GoToGood ==
    ASSUME GoodWorkers, NEW w \in Workers, NEW phase \in Phases, NEW row \in Run,
           workers[w].phase # "idle",
           phase \in {"complete", "commit"} => workers[w].mode \in Modes,
           GoTo(w, phase, row)
    PROVE  GoodWorkers'
<1> DEFINE new == [workers[w] EXCEPT !.phase = phase, !.seen = Seen(row), !.tries = 0]
<1>1. Seen(row) \in Snapshot /\ 0 \in Turns
  BY SeenIsSnapshot, BoundsAssumption DEF Turns
<1>2. workers[w] \in Worker /\ workers[w].run \in Calls
  BY DEF GoodWorkers, GoodWorker
<1>3. /\ new \in Worker
      /\ new.phase = phase /\ new.run = workers[w].run /\ new.mode = workers[w].mode
  BY <1>1, <1>2 DEF Worker
<1>4. GoodWorker(new)
  BY <1>2, <1>3 DEF GoodWorker
<1> QED
  BY <1>4, BecomeGood DEF GoTo

\* A change of phase and mode only.
LEMMA MoveGood ==
    ASSUME GoodWorkers, NEW w \in Workers, NEW phase \in Phases,
           NEW mode \in Modes \cup {"none"}, workers[w].phase # "idle",
           phase \in {"complete", "commit"} => mode \in Modes,
           Become(w, [workers[w] EXCEPT !.phase = phase, !.mode = mode])
    PROVE  GoodWorkers'
<1> DEFINE new == [workers[w] EXCEPT !.phase = phase, !.mode = mode]
<1>1. workers[w] \in Worker /\ workers[w].run \in Calls
  BY DEF GoodWorkers, GoodWorker
<1>2. new \in Worker /\ new.phase = phase /\ new.run = workers[w].run /\ new.mode = mode
  BY <1>1 DEF Worker
<1>3. GoodWorker(new)
  BY <1>1, <1>2 DEF GoodWorker
<1> QED
  BY <1>3, BecomeGood

LEMMA RetryGood ==
    ASSUME GoodWorkers, runs \in [Calls -> Run], NEW w \in Workers,
           NEW again \in Phases, NEW raised \in Phases,
           workers[w].phase # "idle",
           raised \notin {"complete", "commit"},
           again \in {"complete", "commit"} => workers[w].mode \in Modes,
           Retry(w, again, raised)
    PROVE  GoodWorkers'
<1> DEFINE row == runs[RunOf(w)]
           new == [workers[w] EXCEPT !.phase = again, !.seen = Seen(row),
                                     !.tries = workers[w].tries + 1]
<1>1. workers[w] \in Worker /\ workers[w].run \in Calls /\ row \in Run
  BY DEF GoodWorkers, GoodWorker, RunOf
<1>2. CASE workers[w].tries + 1 = MaxTries
  BY <1>1, <1>2, GoToGood DEF Retry
<1>3. CASE workers[w].tries + 1 # MaxTries
  <2>1. workers[w].tries \in Turns /\ Seen(row) \in Snapshot
    BY <1>1, SeenIsSnapshot DEF Worker
  <2>2. workers[w].tries + 1 \in Turns
    BY <2>1, <1>3, BoundsAssumption DEF Turns
  <2>3. /\ new \in Worker
        /\ new.phase = again /\ new.run = workers[w].run /\ new.mode = workers[w].mode
    BY <1>1, <2>1, <2>2 DEF Worker
  <2>4. GoodWorker(new)
    BY <1>1, <2>3 DEF GoodWorker
  <2> QED
    BY <1>3, <2>4, BecomeGood DEF Retry
<1> QED
  BY <1>2, <1>3

\* Where the script of an execution leads.
LEMMA FollowsFacts ==
    /\ \A p \in CheckPhases \cup EmitPhases :
          p \in DOMAIN Follows /\ p \in Phases /\ p # "idle"
    /\ \A p \in DOMAIN Follows : \A q \in Follows[p] :
          q \in Phases /\ q \notin {"idle", "claiming", "commit"}
    /\ \A p \in EmitPhases : "complete" \notin Follows[p]
<1>1. DOMAIN Follows =
        {"check_requester", "emit_access", "check_access", "emit_planning",
         "check_plan", "emit_proposal", "check_proposal", "emit_retrieval",
         "check_results", "emit_answer", "check_answer"}
  BY DEF Follows
<1>2. \A p \in DOMAIN Follows : \A q \in Follows[p] :
        q \in {"emit_access", "check_access", "emit_planning", "check_plan",
               "emit_proposal", "check_proposal", "propose", "emit_retrieval",
               "check_results", "emit_answer", "check_answer", "complete", "fail"}
  BY <1>1 DEF Follows
<1>3. \A p \in EmitPhases : p \in DOMAIN Follows /\ "complete" \notin Follows[p]
  BY <1>1 DEF Follows, EmitPhases
<1> QED
  BY <1>1, <1>2, <1>3 DEF Phases, Executing, CheckPhases

StoreOK ==
    /\ runs \in [Calls -> Run]
    /\ events \in [Calls -> SUBSET Event]
    /\ convs \in [Calls -> Conversation]
    /\ messages \in [Calls -> SUBSET Message]
    /\ proposals \in [Calls -> Nat]

\* A worker step that leaves the other processes alone.
LEMMA WorkerStepTyped ==
    ASSUME TypeInv, StoreOK', GoodWorkers',
           UNCHANGED <<calls, cancels, stalls, crashes>>
    PROVE  TypeInv'
  BY DEF TypeInv, TypeOK, LocalsOK, StoreOK, GoodWorkers, GoodWorker

\* Claiming: claim_next up to the start of the execution.
LEMMA ClaimTypes ==
    ASSUME TypeInv, NEW w \in Workers,
           \/ \E r \in Calls : SelectCandidate(w, r)
           \/ Claim(w) \/ ClaimLost(w) \/ AnnounceStart(w) \/ StartExecution(w)
    PROVE  TypeInv'
<1>1. GoodWorkers /\ StoreOK /\ TypeOK
  BY DEF TypeInv, TypeOK, LocalsOK, GoodWorkers, GoodWorker, StoreOK
<1>2. UNCHANGED store => StoreOK'
  BY <1>1 DEF store, StoreOK
<1>3. ASSUME NEW r \in Calls, SelectCandidate(w, r)
      PROVE  TypeInv'
  <2> DEFINE new == [IdleWorker EXCEPT !.phase = "claiming", !.run = r,
                                       !.seen = Seen(runs[r])]
  <2>1. Seen(runs[r]) \in Snapshot
    BY <1>1, SeenIsSnapshot DEF StoreOK
  <2>2. new \in Worker /\ new.phase = "claiming" /\ new.run = r
    BY <2>1, IdleIsTyped DEF Worker, Phases, IdleWorker
  <2>3. GoodWorker(new)
    BY <2>2 DEF GoodWorker
  <2>4. GoodWorkers'
    BY <1>1, <1>3, <2>3, BecomeGood DEF SelectCandidate
  <2> QED
    BY <1>2, <1>3, <2>4, WorkerStepTyped DEF SelectCandidate
<1>4. CASE Claim(w)
  <2> DEFINE r == RunOf(w)
             seen == SeenBy(w)
             row == [runs[r] EXCEPT !.status = "running", !.owner = w,
                                    !.lease = "live",
                                    !.attempts = seen.attempts + 1,
                                    !.version = seen.version + 1]
  <2>1. workers[w].phase # "idle" /\ r \in Calls /\ seen \in Snapshot
    BY <1>1, <1>4 DEF Claim, GoodWorkers, GoodWorker, Worker, RunOf, SeenBy
  <2>2. seen.attempts + 1 \in Nat /\ seen.version + 1 \in Nat /\ runs[r] \in Run
    BY <1>1, <2>1 DEF Snapshot, StoreOK
  <2>3. row \in Run
    BY <2>2 DEF Run, ActiveStatuses
  <2>4. runs' = [runs EXCEPT ![r] = row]
    BY <1>4 DEF Claim
  <2>5. runs' \in [Calls -> Run] /\ runs'[r] = row
    BY <1>1, <2>1, <2>3, <2>4 DEF StoreOK
  <2>6. StoreOK'
    BY <1>1, <1>4, <2>5 DEF Claim, StoreOK
  <2>7. GoTo(w, "announcing", row) \/ GoTo(w, "starting", row)
    BY <1>4, <2>5 DEF Claim, AfterClaim
  <2>8. GoodWorkers'
    BY <1>1, <2>1, <2>3, <2>7, GoToGood DEF Phases
  <2> QED
    BY <1>4, <2>6, <2>8, WorkerStepTyped DEF Claim
<1>5. CASE ClaimLost(w)
  BY <1>1, <1>2, <1>5, StopGood, WorkerStepTyped DEF ClaimLost
<1>6. CASE AnnounceStart(w)
  <2>1. workers[w].phase # "idle" /\ RunOf(w) \in Calls /\ SeenBy(w) \in Snapshot
    BY <1>1, <1>6 DEF AnnounceStart, GoodWorkers, GoodWorker, Worker, RunOf, SeenBy
  <2>2. CASE /\ AppendEvent(RunOf(w), SeenBy(w), "run.started")
             /\ GoTo(w, "starting", runs'[RunOf(w)])
    <3>1. runs' \in [Calls -> Run] /\ events' \in [Calls -> SUBSET Event]
      BY <1>1, <2>1, <2>2, AppendTyped DEF Kinds
    <3>2. StoreOK'
      BY <1>1, <2>2, <3>1 DEF AppendEvent, StoreOK
    <3>3. runs'[RunOf(w)] \in Run
      BY <2>1, <3>1
    <3>4. GoodWorkers'
      BY <1>1, <2>1, <2>2, <3>3, GoToGood DEF Phases
    <3> QED
      BY <1>6, <3>2, <3>4, WorkerStepTyped DEF AnnounceStart
  <2>3. CASE /\ IF workers[w].tries + 1 = MaxTries
                  THEN Stop(w) ELSE Retry(w, "announcing", "idle")
             /\ UNCHANGED store
    <3>1. GoodWorkers'
      <4>1. "announcing" \in Phases /\ "idle" \in Phases
        BY DEF Phases
      <4> QED
        BY <1>1, <2>1, <2>3, <4>1, StopGood, RetryGood DEF StoreOK
    <3> QED
      BY <1>2, <1>6, <2>3, <3>1, WorkerStepTyped DEF AnnounceStart
  <2> QED
    BY <1>6, <2>2, <2>3 DEF AnnounceStart
<1>7. CASE StartExecution(w)
  <2>1. workers[w].phase # "idle" /\ RunOf(w) \in Calls
    BY <1>1, <1>7 DEF StartExecution, GoodWorkers, GoodWorker, RunOf
  <2>2. runs[RunOf(w)] \in Run /\ "find_proposal" \in Phases
    BY <1>1, <2>1 DEF StoreOK, Phases, Executing
  <2>3. GoodWorkers'
    BY <1>1, <1>7, <2>1, <2>2, StopGood, GoToGood DEF StartExecution
  <2> QED
    BY <1>2, <1>7, <2>3, WorkerStepTyped DEF StartExecution
<1> QED
  BY <1>3, <1>4, <1>5, <1>6, <1>7

\* Executing: the checkpoints, the activity events and the proposal.
LEMMA ExecutionTypes ==
    ASSUME TypeInv, NEW w \in Workers,
           FindProposal(w) \/ Checkpoint(w) \/ WorkRaises(w) \/ Emit(w) \/ Propose(w)
    PROVE  TypeInv'
<1>1. GoodWorkers /\ StoreOK /\ TypeOK
  BY DEF TypeInv, TypeOK, LocalsOK, GoodWorkers, GoodWorker, StoreOK
<1>2. UNCHANGED store => StoreOK'
  BY <1>1 DEF store, StoreOK
<1>3. workers[w].phase # "idle"
  BY FollowsFacts DEF FindProposal, Checkpoint, WorkRaises, Emit, Propose
<1>4. /\ RunOf(w) \in Calls /\ SeenBy(w) \in Snapshot
      /\ runs[RunOf(w)] \in Run
      /\ workers[w].mode \in Modes \cup {"none"}
  BY <1>1, <1>3 DEF GoodWorkers, GoodWorker, Worker, RunOf, SeenBy, StoreOK
<1>5. \A phase \in {"complete", "fail", "cancel", "check_requester"} : phase \in Phases
  BY DEF Phases, Executing, Follows
<1>6. Raise(w) => GoodWorkers'
  BY <1>1, <1>3, <1>4, <1>5, GoToGood DEF Raise
<1>7. CASE FindProposal(w)
  <2>1. CASE Become(w, [workers[w] EXCEPT !.phase = "complete",
                                          !.mode = "action_proposal"])
    <3>1. "action_proposal" \in Modes
      BY DEF Modes
    <3>2. GoodWorkers'
      BY <1>1, <1>3, <1>5, <2>1, <3>1, MoveGood
    <3> QED
      BY <1>2, <1>7, <3>2, WorkerStepTyped DEF FindProposal
  <2>2. CASE Become(w, [workers[w] EXCEPT !.phase = "check_requester"])
    <3> DEFINE new == [workers[w] EXCEPT !.phase = "check_requester"]
    <3>1. new \in Worker /\ new.phase = "check_requester" /\ new.run = RunOf(w)
      BY <1>1, <1>5 DEF GoodWorkers, Worker, RunOf
    <3>2. GoodWorker(new)
      BY <1>4, <3>1 DEF GoodWorker
    <3>3. GoodWorkers'
      BY <1>1, <2>2, <3>2, BecomeGood
    <3> QED
      BY <1>2, <1>7, <3>3, WorkerStepTyped DEF FindProposal
  <2> QED
    BY <1>7, <2>1, <2>2 DEF FindProposal
<1>8. CASE Checkpoint(w)
  <2>1. CASE GoTo(w, "cancel", runs[RunOf(w)])
    <3>1. GoodWorkers'
      BY <1>1, <1>3, <1>4, <1>5, <2>1, GoToGood
    <3> QED
      BY <1>2, <1>8, <3>1, WorkerStepTyped DEF Checkpoint
  <2>2. ASSUME NEW next \in Follows[workers[w].phase],
               Become(w, [workers[w] EXCEPT
                   !.phase = next,
                   !.mode = IF next = "complete" THEN ModeOf(workers[w].phase)
                                                 ELSE @])
        PROVE  TypeInv'
    <3> DEFINE mode == IF next = "complete" THEN ModeOf(workers[w].phase)
                                            ELSE workers[w].mode
    <3>1. next \in Phases /\ next # "commit"
      BY <1>8, FollowsFacts DEF Checkpoint
    <3>2. mode \in Modes \cup {"none"} /\ (next = "complete" => mode \in Modes)
      BY <1>4 DEF ModeOf, Modes
    <3>3. GoodWorkers'
      BY <1>1, <1>3, <2>2, <3>1, <3>2, MoveGood
    <3> QED
      BY <1>2, <1>8, <3>3, WorkerStepTyped DEF Checkpoint
  <2> QED
    BY <1>8, <2>1, <2>2 DEF Checkpoint
<1>9. CASE WorkRaises(w)
  BY <1>2, <1>6, <1>9, WorkerStepTyped DEF WorkRaises
<1>10. CASE Emit(w)
  <2>1. /\ workers[w].phase \in EmitPhases
        /\ workers[w].phase \in Phases
        /\ workers[w].phase \notin {"complete", "commit"}
        /\ "complete" \notin Follows[workers[w].phase]
    BY <1>10, FollowsFacts DEF Emit, EmitPhases
  <2>2. ASSUME NEW next \in Follows[workers[w].phase],
               AppendEvent(RunOf(w), SeenBy(w), "activity.updated"),
               GoTo(w, next, runs'[RunOf(w)])
        PROVE  TypeInv'
    <3>1. runs' \in [Calls -> Run] /\ events' \in [Calls -> SUBSET Event]
      BY <1>1, <1>4, <2>2, AppendTyped DEF Kinds
    <3>2. StoreOK'
      BY <1>1, <2>2, <3>1 DEF AppendEvent, StoreOK
    <3>3. /\ runs'[RunOf(w)] \in Run
          /\ next \in Phases /\ next \notin {"complete", "commit"}
      BY <1>4, <2>1, <3>1, FollowsFacts
    <3>4. GoodWorkers'
      BY <1>1, <1>3, <2>2, <3>3, GoToGood
    <3> QED
      BY <1>10, <3>2, <3>4, WorkerStepTyped DEF Emit
  <2>3. CASE Retry(w, workers[w].phase, "fail") /\ UNCHANGED store
    <3>1. GoodWorkers'
      BY <1>1, <1>3, <1>5, <2>1, <2>3, RetryGood DEF StoreOK
    <3> QED
      BY <1>2, <1>10, <2>3, <3>1, WorkerStepTyped DEF Emit
  <2> QED
    BY <1>10, <2>2, <2>3 DEF Emit
<1>11. CASE Propose(w)
  <2>1. proposals' \in [Calls -> Nat]
    BY <1>1, <1>11 DEF Propose, StoreOK
  <2>2. StoreOK'
    BY <1>1, <1>11, <2>1 DEF Propose, StoreOK
  <2>3. Become(w, [workers[w] EXCEPT !.phase = "complete",
                                     !.mode = "action_proposal"])
          => GoodWorkers'
    BY <1>1, <1>3, <1>5, MoveGood DEF Modes
  <2>4. GoodWorkers'
    BY <1>6, <1>11, <2>3 DEF Propose
  <2> QED
    BY <1>11, <2>2, <2>4, WorkerStepTyped DEF Propose
<1> QED
  BY <1>7, <1>8, <1>9, <1>10, <1>11

-----------------------------------------------------------------------------
(* Rows and sessions.  A session keeps a copy of a row across steps of the *)
(* other processes; the copy is of use only because the version grows with *)
(* every change of what it holds, so that a copy with the current version  *)
(* is the row.                                                             *)

RowOK(row) ==
    /\ row.status # "absent" => row.conv \in Calls
    /\ row.slot <=> row.status \in ActiveStatuses
    /\ row.status \in TerminalStatuses => row.owner = None /\ row.lease = "none"

Rows == \A r \in Calls : RowOK(runs[r])

SessionOK(r, seen) ==
    /\ r \in Calls /\ Created(r)
    /\ seen.version <= runs[r].version
    /\ seen.version = runs[r].version => seen = Seen(runs[r])

Sessions ==
    /\ \A w \in Workers :
          /\ workers[w].phase # "idle" => SessionOK(workers[w].run, workers[w].seen)
          /\ workers[w].phase = "claiming" => workers[w].seen.status \in ActiveStatuses
    /\ \A u \in Cancellers :
          cancels[u].phase # "idle" => SessionOK(cancels[u].run, cancels[u].seen)

\* The inductive invariant.
IInv == TypeInv /\ Rows /\ Sessions

\* What a step may do to a row: leave what a snapshot holds alone (a lease
\* lapses or is renewed), insert it, or write it with the next version.
RowKept(old, new) ==
    /\ Seen(new) = Seen(old) /\ new.conv = old.conv
    /\ new.slot = old.slot /\ new.owner = old.owner
    /\ new.cancel = old.cancel /\ new.proposal = old.proposal
    /\ old.status \in TerminalStatuses => new.lease = old.lease

RowInserted(old, new) ==
    /\ old.status = "absent" /\ new.status = "queued"
    /\ new.conv \in Calls /\ new.slot

RowWritten(old, new) ==
    /\ new.version = old.version + 1 /\ new.conv = old.conv
    /\ \/ /\ old.status \in ActiveStatuses
          /\ new.status \in ActiveStatuses /\ new.slot = old.slot
       \/ /\ old.status \in ActiveStatuses
          /\ new.status \in TerminalStatuses
          /\ ~new.slot /\ new.owner = None /\ new.lease = "none"
       \/ /\ old.status # "absent"
          /\ new.status = old.status /\ new.slot = old.slot
          /\ new.owner = old.owner /\ new.lease = old.lease
          /\ new.cancel = old.cancel /\ new.proposal = old.proposal

RowQuiet(r) == RowKept(runs[r], runs'[r]) \/ RowWritten(runs[r], runs'[r])
RowStep(r) == RowQuiet(r) \/ RowInserted(runs[r], runs'[r])

\* The invariant gives what the type lemmas ask for.
LEMMA WorkerFacts ==
    ASSUME IInv, NEW w \in Workers, workers[w].phase # "idle"
    PROVE  /\ RunOf(w) \in Calls /\ SeenBy(w) \in Snapshot
           /\ runs[RunOf(w)] \in Run /\ Created(RunOf(w))
           /\ runs[RunOf(w)].conv \in Calls
           /\ workers[w].conv \in ConvSnapshot
           /\ workers[w].mode \in Modes \cup {"none"}
           /\ workers[w].phase \in {"complete", "commit"} => workers[w].mode \in Modes
  BY DEF IInv, TypeInv, TypeOK, LocalsOK, Rows, RowOK, Sessions, SessionOK, Created,
     Worker, RunOf, SeenBy

\* Ending: complete_run, cancel_run and fail_run.
LEMMA EndTypes ==
    ASSUME IInv, NEW w \in Workers,
           \/ ReadConversation(w) \/ Complete(w) \/ CompletionLosesRace(w)
           \/ FinishWithoutMessage(w)
    PROVE  TypeInv'
<1>1. GoodWorkers /\ StoreOK /\ TypeOK /\ TypeInv
  BY DEF IInv, TypeInv, TypeOK, LocalsOK, GoodWorkers, GoodWorker, StoreOK
<1>2. UNCHANGED store => StoreOK'
  BY <1>1 DEF store, StoreOK
<1>3. workers[w].phase # "idle"
  BY DEF ReadConversation, Complete, CompletionLosesRace, FinishWithoutMessage
<1>4. /\ RunOf(w) \in Calls /\ SeenBy(w) \in Snapshot
      /\ runs[RunOf(w)] \in Run
      /\ runs[RunOf(w)].conv \in Calls
      /\ workers[w].conv \in ConvSnapshot
      /\ workers[w].phase \in {"complete", "commit"} => workers[w].mode \in Modes
  BY <1>3, WorkerFacts
<1>5. \A phase \in {"complete", "commit", "fail", "cancel", "idle"} : phase \in Phases
  BY DEF Phases, Executing
<1> DEFINE r == RunOf(w)
           c == runs[r].conv
           me == workers[w]
<1>6. CASE ReadConversation(w)
  <2> DEFINE new == [workers[w] EXCEPT !.phase = "commit", !.conv = SeenConv(convs[c])]
  <2>1. SeenConv(convs[c]) \in ConvSnapshot
    BY <1>1, <1>4 DEF StoreOK, Conversation, SeenConv, ConvSnapshot
  <2>2. /\ new \in Worker
        /\ new.phase = "commit" /\ new.run = r /\ new.mode = me.mode
    BY <1>1, <1>5, <2>1 DEF GoodWorkers, Worker, RunOf
  <2>3. me.mode \in Modes
    BY <1>4, <1>6 DEF ReadConversation
  <2>4. GoodWorker(new)
    BY <1>4, <2>2, <2>3 DEF GoodWorker
  <2>5. GoodWorkers'
    BY <1>1, <1>6, <2>4, BecomeGood DEF ReadConversation
  <2> QED
    BY <1>1, <1>2, <1>6, <2>5, WorkerStepTyped DEF ReadConversation
<1>7. CASE Complete(w)
  <2>1. StatusOf(me.mode) \in TerminalStatuses
    BY <1>4, <1>7 DEF Complete, StatusOf, Modes, TerminalStatuses, Completed
  <2>2. TerminalKind(StatusOf(me.mode)) \in Kinds
    BY <2>1 DEF TerminalKind, TerminalStatuses, Completed, Kinds, TerminalKinds
  <2>3. me.seen \in Snapshot /\ me.seen.next \in Nat
    BY <1>4 DEF SeenBy, Snapshot
  <2>4. runs' \in [Calls -> Run]
    BY <1>1, <1>4, <1>7, <2>1, <2>3, FinishTyped DEF Complete
  <2>5. events' \in [Calls -> SUBSET Event]
    BY <1>1, <1>4, <1>7, <2>2, <2>3, EventTyped DEF Complete
  <2>6. convs' \in [Calls -> Conversation]
    <3> DEFINE new == [convs[c] EXCEPT !.version = me.conv.version + 1,
                                       !.next = me.conv.next + 1]
    <3>1. /\ convs[c] \in Conversation
          /\ me.conv.version + 1 \in Nat /\ me.conv.next + 1 \in Nat
      BY <1>1, <1>4 DEF StoreOK, ConvSnapshot
    <3>2. new \in Conversation
      BY <3>1 DEF Conversation
    <3> QED
      BY <1>1, <1>7, <3>2 DEF Complete, StoreOK
  <2>7. messages' \in [Calls -> SUBSET Message]
    <3>1. me.conv.next \in Nat
      BY <1>4 DEF ConvSnapshot
    <3>2. [seq |-> me.conv.next, role |-> "assistant", run |-> r] \in Message
      BY <1>4, <3>1 DEF Message
    <3> QED
      BY <1>1, <1>7, <3>2 DEF Complete, AddMessage, StoreOK
  <2>8. StoreOK'
    BY <1>1, <1>7, <2>4, <2>5, <2>6, <2>7 DEF Complete, StoreOK
  <2>9. GoodWorkers'
    BY <1>1, <1>7, StopGood DEF Complete
  <2> QED
    BY <1>1, <1>7, <2>8, <2>9, WorkerStepTyped DEF Complete
<1>8. CASE CompletionLosesRace(w)
  <2>1. GoodWorkers'
    BY <1>1, <1>3, <1>4, <1>5, <1>8, RetryGood DEF CompletionLosesRace, StoreOK
  <2> QED
    BY <1>1, <1>2, <1>8, <2>1, WorkerStepTyped DEF CompletionLosesRace
<1>9. CASE FinishWithoutMessage(w)
  <2>1. CASE Stop(w) /\ UNCHANGED store
    BY <1>1, <1>2, <1>9, <2>1, StopGood, WorkerStepTyped DEF FinishWithoutMessage
  <2>2. ASSUME NEW status \in {"cancelled", "failed"},
               Finish(r, SeenBy(w), status, runs[r].proposal),
               AddEvent(r, SeenBy(w).next, TerminalKind(status)),
               Stop(w), UNCHANGED <<convs, messages, proposals>>
        PROVE  TypeInv'
    <3>1. /\ status \in TerminalStatuses
          /\ TerminalKind(status) \in Kinds
          /\ runs[r].proposal \in BOOLEAN /\ SeenBy(w).next \in Nat
      BY <1>4 DEF TerminalStatuses, TerminalKind, Kinds, TerminalKinds, Run, Snapshot
    <3>2. runs' \in [Calls -> Run]
      BY <1>1, <1>4, <2>2, <3>1, FinishTyped
    <3>3. events' \in [Calls -> SUBSET Event]
      BY <1>1, <1>4, <2>2, <3>1, EventTyped
    <3>4. StoreOK'
      BY <1>1, <2>2, <3>2, <3>3 DEF StoreOK
    <3>5. GoodWorkers'
      BY <1>1, <2>2, StopGood
    <3> QED
      BY <1>1, <1>9, <3>4, <3>5, WorkerStepTyped DEF FinishWithoutMessage
  <2>3. CASE Retry(w, me.phase, "idle") /\ UNCHANGED store
    <3>1. me.phase \in {"cancel", "fail"}
      BY <1>9 DEF FinishWithoutMessage
    <3>2. GoodWorkers'
      BY <1>1, <1>3, <1>5, <2>3, <3>1, RetryGood DEF StoreOK
    <3> QED
      BY <1>1, <1>2, <1>9, <2>3, <3>2, WorkerStepTyped DEF FinishWithoutMessage
  <2> QED
    BY <1>9, <2>1, <2>2, <2>3 DEF FinishWithoutMessage
<1> QED
  BY <1>6, <1>7, <1>8, <1>9

\* Leases, crashes and the archiving of conversations.
LEMMA EnvironmentTypes ==
    ASSUME TypeInv, Environment
    PROVE  TypeInv'
<1>1. GoodWorkers /\ StoreOK /\ TypeOK
  BY DEF TypeInv, TypeOK, LocalsOK, GoodWorkers, GoodWorker, StoreOK
<1>2. ASSUME NEW r \in Calls, NEW lease \in {"live", "expired"},
             runs' = [runs EXCEPT ![r] = [@ EXCEPT !.lease = lease]]
      PROVE  runs' \in [Calls -> Run]
  <2> DEFINE new == [runs[r] EXCEPT !.lease = lease]
  <2>1. new \in Run
    BY <1>1 DEF StoreOK, Run
  <2> QED
    BY <1>1, <1>2, <2>1 DEF StoreOK
<1>3. ASSUME NEW w \in Workers, RenewLease(w)
      PROVE  TypeInv'
  <2>1. RunOf(w) \in Calls
    BY <1>1, <1>3 DEF RenewLease, GoodWorkers, GoodWorker, RunOf, Executing, Follows
  <2>2. runs' \in [Calls -> Run]
    BY <1>2, <1>3, <2>1 DEF RenewLease
  <2> QED
    BY <1>3, <2>2 DEF RenewLease, TypeInv, TypeOK, LocalsOK
<1>4. ASSUME NEW w \in Workers, Crash(w)
      PROVE  TypeInv'
  <2>1. GoodWorkers'
    BY <1>1, <1>4, StopGood DEF Crash
  <2>2. crashes' \in 0 .. MaxCrashes
    BY <1>1, <1>4, BoundsAssumption DEF Crash, TypeOK
  <2> QED
    BY <1>4, <2>1, <2>2
       DEF Crash, store, TypeInv, TypeOK, LocalsOK, GoodWorkers, GoodWorker
<1>5. ASSUME NEW r \in Calls, UnattendedLeaseExpires(r) \/ AttendedLeaseExpires(r)
      PROVE  TypeInv'
  <2>1. runs' \in [Calls -> Run]
    BY <1>2, <1>5 DEF UnattendedLeaseExpires, AttendedLeaseExpires, LeaseExpires
  <2>2. stalls' \in 0 .. MaxStalls
    BY <1>1, <1>5, BoundsAssumption
       DEF UnattendedLeaseExpires, AttendedLeaseExpires, TypeOK
  <2> QED
    BY <1>5, <2>1, <2>2 DEF UnattendedLeaseExpires, AttendedLeaseExpires,
       LeaseExpires, TypeInv, TypeOK, LocalsOK
<1>6. ASSUME NEW c \in Calls, Archive(c)
      PROVE  TypeInv'
  <2> DEFINE new == [convs[c] EXCEPT !.status = "archived"]
  <2>1. new \in Conversation
    BY <1>1 DEF StoreOK, Conversation
  <2>2. convs' \in [Calls -> Conversation]
    BY <1>1, <1>6, <2>1 DEF Archive, StoreOK
  <2> QED
    BY <1>6, <2>2 DEF Archive, TypeInv, TypeOK, LocalsOK
<1> QED
  BY <1>3, <1>4, <1>5, <1>6 DEF Environment

LEMMA TypeStep ==
    ASSUME IInv, [Next]_vars
    PROVE  TypeInv'
<1>1. CASE UNCHANGED vars
  BY <1>1 DEF IInv, TypeInv, TypeOK, LocalsOK, vars, store
<1>2. CASE \E k \in Calls : CallStep(k)
  BY <1>2, CallTypes DEF IInv
<1>3. CASE \E u \in Cancellers : CancelStep(u)
  BY <1>3, CancelTypes DEF IInv
<1>4. CASE \E w \in Workers : WorkerStep(w)
  BY <1>4, ClaimTypes, ExecutionTypes, EndTypes DEF IInv, WorkerStep
<1>5. CASE Environment
  BY <1>5, EnvironmentTypes DEF IInv
<1> QED
  BY <1>1, <1>2, <1>3, <1>4, <1>5 DEF Next

-----------------------------------------------------------------------------
(* Every step is a RowStep of every row.                                   *)

LEMMA RowsUntouched ==
    ASSUME UNCHANGED runs
    PROVE  \A r \in Calls : RowQuiet(r)
  BY DEF RowQuiet, RowKept

\* A write to one row.
LEMMA OneRowWritten ==
    ASSUME IInv, NEW s \in Calls, NEW new, runs' = [runs EXCEPT ![s] = new]
    PROVE  /\ runs'[s] = new
           /\ \A r \in Calls \ {s} : RowQuiet(r)
<1>1. runs'[s] = new
  BY DEF IInv, TypeInv, TypeOK
<1>2. ASSUME NEW r \in Calls \ {s}
      PROVE  RowQuiet(r)
  <2>1. runs'[r] = runs[r]
    BY DEF IInv, TypeInv, TypeOK
  <2> QED
    BY <2>1 DEF RowQuiet, RowKept
<1> QED
  BY <1>1, <1>2

LEMMA AppendRows ==
    ASSUME IInv, NEW s \in Calls, NEW seen, SessionOK(s, seen), NEW kind,
           AppendEvent(s, seen, kind)
    PROVE  \A r \in Calls : RowQuiet(r)
<1> DEFINE new == [runs[s] EXCEPT !.next = seen.next + 1,
                                  !.version = seen.version + 1]
<1>1. seen.version = runs[s].version /\ runs[s] \in Run /\ runs[s].status # "absent"
  BY DEF AppendEvent, CanAppend, Unchanged, SessionOK, Created, IInv, TypeInv, TypeOK
<1>2. /\ new.version = runs[s].version + 1
      /\ new.conv = runs[s].conv /\ new.status = runs[s].status
      /\ new.slot = runs[s].slot /\ new.owner = runs[s].owner
      /\ new.lease = runs[s].lease /\ new.cancel = runs[s].cancel
      /\ new.proposal = runs[s].proposal
  BY <1>1 DEF Run
<1>3. RowWritten(runs[s], new)
  BY <1>1, <1>2 DEF RowWritten
<1>4. runs' = [runs EXCEPT ![s] = new]
  BY DEF AppendEvent
<1> QED
  BY <1>3, <1>4, OneRowWritten DEF RowQuiet

LEMMA FinishRows ==
    ASSUME IInv, NEW s \in Calls, NEW seen, Unchanged(s, seen),
           runs[s].status \in ActiveStatuses,
           NEW status \in TerminalStatuses, NEW proposal,
           Finish(s, seen, status, proposal)
    PROVE  \A r \in Calls : RowQuiet(r)
<1> DEFINE new ==
      [runs[s] EXCEPT !.status = status, !.slot = FALSE, !.owner = None,
                      !.lease = "none", !.proposal = proposal,
                      !.next = seen.next + 1, !.version = seen.version + 1]
<1>1. seen.version = runs[s].version /\ runs[s] \in Run
  BY DEF Unchanged, IInv, TypeInv, TypeOK
<1>2. /\ new.version = runs[s].version + 1
      /\ new.conv = runs[s].conv /\ new.status = status
      /\ new.slot = FALSE /\ new.owner = None /\ new.lease = "none"
  BY <1>1 DEF Run
<1>3. RowWritten(runs[s], new)
  BY <1>2 DEF RowWritten
<1>4. runs' = [runs EXCEPT ![s] = new]
  BY DEF Finish
<1> QED
  BY <1>3, <1>4, OneRowWritten DEF RowQuiet

LEMMA CallRows ==
    ASSUME IInv, NEW k \in Calls, CallStep(k)
    PROVE  \A r \in Calls : RowStep(r)
<1>1. ASSUME NEW c \in Calls, KeyFree(KeyOf[k]), InsertRun(k, c)
      PROVE  \A r \in Calls : RowStep(r)
  <2> DEFINE new == [AbsentRun EXCEPT !.status = "queued", !.slot = TRUE,
                                      !.version = 1, !.conv = c, !.next = 2]
  <2>1. runs[k].status = "absent"
    BY <1>1 DEF KeyFree, HolderOf, Created
  <2>2. new.status = "queued" /\ new.conv = c /\ new.slot = TRUE
    BY DEF AbsentRun
  <2>3. RowInserted(runs[k], new)
    BY <2>1, <2>2 DEF RowInserted
  <2>4. runs' = [runs EXCEPT ![k] = new]
    BY <1>1 DEF InsertRun
  <2> QED
    BY <2>3, <2>4, OneRowWritten DEF RowStep
<1>2. CASE CreateInNewConversation(k)
  BY <1>1, <1>2 DEF CreateInNewConversation
<1>3. CASE CreateInConversation(k)
  <2>1. calls[k].target \in Calls
    BY <1>3 DEF CreateInConversation, IInv, TypeInv, TypeOK, Call
  <2> QED
    BY <1>1, <1>3, <2>1 DEF CreateInConversation
<1>4. CASE \/ LookUpKey(k) \/ ReadForCreate(k)
           \/ CreateLosesRace(k) \/ CreateConflicts(k)
  BY <1>4, RowsUntouched
     DEF RowStep, LookUpKey, ReadForCreate, CreateLosesRace, CreateConflicts, store
<1> QED
  BY <1>2, <1>3, <1>4 DEF CallStep

LEMMA CancelRows ==
    ASSUME IInv, NEW u \in Cancellers, CancelStep(u)
    PROVE  \A r \in Calls : RowQuiet(r)
<1> DEFINE s == cancels[u].run
           seen == cancels[u].seen
<1>1. CASE WriteCancellation(u)
  <2> DEFINE new == [runs[s] EXCEPT !.cancel = TRUE, !.status = "cancel_requested",
                                    !.version = seen.version + 1]
  <2>1. /\ s \in Calls /\ runs[s] \in Run
        /\ seen.version = runs[s].version
        /\ runs[s].status \in ActiveStatuses
    BY <1>1 DEF WriteCancellation, Unchanged, IInv, TypeInv, TypeOK, LocalsOK
  <2>2. /\ new.version = runs[s].version + 1 /\ new.conv = runs[s].conv
        /\ new.status = "cancel_requested" /\ new.slot = runs[s].slot
    BY <2>1 DEF Run
  <2>3. RowWritten(runs[s], new)
    BY <2>1, <2>2 DEF RowWritten, ActiveStatuses
  <2>4. runs' = [runs EXCEPT ![s] = new]
    BY <1>1 DEF WriteCancellation
  <2> QED
    BY <2>1, <2>3, <2>4, OneRowWritten DEF RowQuiet
<1>2. CASE AnnounceCancellation(u)
  <2>1. s \in Calls /\ SessionOK(s, seen)
    BY <1>2 DEF AnnounceCancellation, IInv, Sessions, SessionOK
  <2> QED
    BY <1>2, <2>1, AppendRows, RowsUntouched DEF AnnounceCancellation, store
<1>3. CASE (\E r \in Calls : RequestCancellation(u, r)) \/ CancellationLosesRace(u)
  BY <1>3, RowsUntouched DEF RequestCancellation, CancellationLosesRace, store
<1> QED
  BY <1>1, <1>2, <1>3 DEF CancelStep

LEMMA WorkerRows ==
    ASSUME IInv, NEW w \in Workers, WorkerStep(w)
    PROVE  \A r \in Calls : RowQuiet(r)
<1> DEFINE s == RunOf(w)
           seen == SeenBy(w)
<1>1. workers[w].phase # "idle" =>
        /\ s \in Calls /\ runs[s] \in Run /\ SessionOK(s, seen)
  BY DEF IInv, TypeInv, TypeOK, Sessions, SessionOK, RunOf, SeenBy
<1>2. CASE Claim(w)
  <2> DEFINE new == [runs[s] EXCEPT !.status = "running", !.owner = w,
                                    !.lease = "live",
                                    !.attempts = seen.attempts + 1,
                                    !.version = seen.version + 1]
  <2>1. /\ s \in Calls /\ runs[s] \in Run /\ seen = Seen(runs[s])
        /\ seen.status \in ActiveStatuses
    BY <1>1, <1>2 DEF Claim, Unchanged, IInv, Sessions, SessionOK, SeenBy
  <2>2. runs[s].status \in ActiveStatuses /\ seen.version = runs[s].version
    BY <2>1 DEF Seen
  <2>3. /\ new.version = runs[s].version + 1 /\ new.conv = runs[s].conv
        /\ new.status = "running" /\ new.slot = runs[s].slot
    BY <2>1, <2>2 DEF Run
  <2>4. RowWritten(runs[s], new)
    BY <2>2, <2>3 DEF RowWritten, ActiveStatuses
  <2>5. runs' = [runs EXCEPT ![s] = new]
    BY <1>2 DEF Claim
  <2> QED
    BY <2>1, <2>4, <2>5, OneRowWritten DEF RowQuiet
<1>3. CASE AnnounceStart(w)
  BY <1>1, <1>3, AppendRows, RowsUntouched DEF AnnounceStart, store
<1>4. CASE Emit(w)
  <2>1. workers[w].phase # "idle"
    BY <1>4 DEF Emit, EmitPhases
  <2> QED
    BY <1>1, <1>4, <2>1, AppendRows, RowsUntouched DEF Emit, store
<1>5. CASE Complete(w)
  <2>1. /\ s \in Calls /\ Unchanged(s, seen)
        /\ runs[s].status \in ActiveStatuses
    BY <1>1, <1>5 DEF Complete, CanComplete, ActiveStatuses, SeenBy
  <2>2. StatusOf(workers[w].mode) \in TerminalStatuses
    <3>1. workers[w].mode \in Modes
      BY <1>5 DEF Complete, IInv, TypeInv, LocalsOK
    <3> QED
      BY <3>1 DEF StatusOf, Modes, TerminalStatuses, Completed
  <2> QED
    BY <1>5, <2>1, <2>2, FinishRows DEF Complete, SeenBy
<1>6. CASE FinishWithoutMessage(w)
  <2>1. CASE UNCHANGED store
    BY <2>1, RowsUntouched DEF store
  <2>2. ASSUME NEW status \in {"cancelled", "failed"},
               seen.status \notin TerminalStatuses, CanAppend(s, seen),
               Finish(s, seen, status, runs[s].proposal)
        PROVE  \A r \in Calls : RowQuiet(r)
    <3>1. /\ s \in Calls /\ runs[s] \in Run /\ Unchanged(s, seen)
          /\ Created(s) /\ seen = Seen(runs[s])
      BY <1>1, <1>6, <2>2 DEF FinishWithoutMessage, CanAppend, Unchanged, SessionOK
    <3>2. runs[s].status \in ActiveStatuses
      BY <2>2, <3>1 DEF Seen, Created, Run
    <3>3. status \in TerminalStatuses
      BY DEF TerminalStatuses
    <3> QED
      BY <2>2, <3>1, <3>2, <3>3, FinishRows
  <2> QED
    BY <1>6, <2>1, <2>2 DEF FinishWithoutMessage
<1>7. CASE \/ \E r \in Calls : SelectCandidate(w, r)
           \/ ClaimLost(w) \/ StartExecution(w) \/ FindProposal(w)
           \/ Checkpoint(w) \/ WorkRaises(w) \/ Propose(w)
           \/ ReadConversation(w) \/ CompletionLosesRace(w)
  BY <1>7, RowsUntouched DEF SelectCandidate, ClaimLost, StartExecution, FindProposal,
     Checkpoint, WorkRaises, Propose, ReadConversation, CompletionLosesRace, store
<1> QED
  BY <1>2, <1>3, <1>4, <1>5, <1>6, <1>7 DEF WorkerStep

LEMMA EnvironmentRows ==
    ASSUME IInv, Environment
    PROVE  \A r \in Calls : RowQuiet(r)
<1>1. ASSUME NEW s \in Calls, NEW lease \in {"live", "expired"},
             runs[s].status \notin TerminalStatuses,
             runs' = [runs EXCEPT ![s] = [@ EXCEPT !.lease = lease]]
      PROVE  \A r \in Calls : RowQuiet(r)
  <2> DEFINE new == [runs[s] EXCEPT !.lease = lease]
  <2>1. runs[s] \in Run
    BY DEF IInv, TypeInv, TypeOK
  <2>2. /\ Seen(new) = Seen(runs[s]) /\ new.conv = runs[s].conv
        /\ new.slot = runs[s].slot /\ new.owner = runs[s].owner
        /\ new.cancel = runs[s].cancel /\ new.proposal = runs[s].proposal
    BY <2>1 DEF Run, Seen
  <2>3. RowKept(runs[s], new)
    BY <1>1, <2>2 DEF RowKept
  <2> QED
    BY <1>1, <2>3, OneRowWritten DEF RowQuiet
<1>2. ASSUME NEW w \in Workers, RenewLease(w)
      PROVE  \A r \in Calls : RowQuiet(r)
  <2>1. workers[w].phase # "idle"
    BY <1>2 DEF RenewLease, Executing, Follows
  <2>2. RunOf(w) \in Calls
    BY <2>1 DEF IInv, TypeInv, LocalsOK, RunOf
  <2>3. runs[RunOf(w)].status \notin TerminalStatuses
    BY <1>2 DEF RenewLease, TerminalStatuses, Completed
  <2> QED
    BY <1>1, <1>2, <2>2, <2>3 DEF RenewLease
<1>3. ASSUME NEW s \in Calls, LeaseExpires(s)
      PROVE  \A r \in Calls : RowQuiet(r)
  <2>1. runs[s].status \notin TerminalStatuses
    BY <1>3 DEF LeaseExpires, IInv, Rows, RowOK
  <2> QED
    BY <1>1, <1>3, <2>1 DEF LeaseExpires
<1>4. CASE (\E w \in Workers : Crash(w)) \/ (\E c \in Calls : Archive(c))
  BY <1>4, RowsUntouched DEF Crash, Archive, store
<1> QED
  BY <1>2, <1>3, <1>4 DEF Environment, UnattendedLeaseExpires, AttendedLeaseExpires

LEMMA EveryRowStep ==
    ASSUME IInv, [Next]_vars
    PROVE  \A r \in Calls : RowStep(r)
<1>1. CASE UNCHANGED vars
  BY <1>1, RowsUntouched DEF RowStep, vars, store
<1> QED
  BY <1>1, CallRows, CancelRows, WorkerRows, EnvironmentRows DEF RowStep, Next

LEMMA RowsStep ==
    ASSUME IInv, [Next]_vars
    PROVE  Rows'
<1> SUFFICES ASSUME NEW r \in Calls PROVE RowOK(runs'[r])
  BY DEF Rows, RowOK
<1>1. RowOK(runs[r]) /\ RowStep(r)
  BY EveryRowStep DEF IInv, Rows
<1>2. CASE RowKept(runs[r], runs'[r])
  BY <1>1, <1>2 DEF RowKept, RowOK, Seen
<1>3. CASE RowInserted(runs[r], runs'[r])
  BY <1>3 DEF RowInserted, RowOK, ActiveStatuses, TerminalStatuses, Completed
<1>4. CASE RowWritten(runs[r], runs'[r])
  BY <1>1, <1>4 DEF RowWritten, RowOK, ActiveStatuses, TerminalStatuses, Completed
<1> QED
  BY <1>1, <1>2, <1>3, <1>4 DEF RowStep, RowQuiet

-----------------------------------------------------------------------------
(* Sessions: what a step does to the copy of a row that a process holds.   *)

\* A run that is there stays there.
LEMMA CreatedForever ==
    ASSUME IInv, [Next]_vars, NEW r \in Calls, Created(r)
    PROVE  runs'[r].status # "absent"
<1>1. RowStep(r)
  BY EveryRowStep
<1> QED
  BY <1>1 DEF RowStep, RowQuiet, RowKept, RowInserted, RowWritten, Seen, Created,
     ActiveStatuses, TerminalStatuses, Completed

\* A copy that the step leaves alone stays a version behind or the row.
LEMMA SessionCopyKept ==
    ASSUME IInv, [Next]_vars, NEW r, NEW seen \in Snapshot, SessionOK(r, seen)
    PROVE  /\ r \in Calls /\ runs'[r].status # "absent"
           /\ seen.version <= runs'[r].version
           /\ seen.version = runs'[r].version => seen = Seen(runs'[r])
<1>1. /\ r \in Calls /\ RowStep(r) /\ Created(r)
      /\ seen.version \in Nat /\ runs[r].version \in Nat
  BY EveryRowStep DEF SessionOK, Snapshot, IInv, TypeInv, TypeOK, Run
<1>2. runs'[r].status # "absent"
  BY <1>1, CreatedForever
<1>3. CASE RowKept(runs[r], runs'[r])
  BY <1>1, <1>2, <1>3 DEF RowKept, SessionOK, Seen
<1>4. CASE RowInserted(runs[r], runs'[r])
  BY <1>1, <1>4 DEF RowInserted, Created
<1>5. CASE RowWritten(runs[r], runs'[r])
  <2>1. runs'[r].version = runs[r].version + 1 /\ seen.version <= runs[r].version
    BY <1>5 DEF RowWritten, SessionOK
  <2> QED
    BY <1>1, <1>2, <2>1
<1> QED
  BY <1>1, <1>3, <1>4, <1>5 DEF RowStep, RowQuiet

LEMMA FreshRow ==
    ASSUME IInv, [Next]_vars, NEW r \in Calls, Created(r)
    PROVE  runs'[r].status # "absent" /\ runs'[r].version \in Nat
  BY CreatedForever, TypeStep DEF TypeInv, TypeOK, Run

\* What a step does to the session of a worker: it ends it, reads the row
\* again, or keeps the copy.
WorkerMove(w) ==
    \/ workers'[w] = workers[w]
    \/ workers'[w].phase = "idle"
    \/ /\ workers'[w].run \in Calls /\ Created(workers'[w].run)
       /\ workers'[w].seen = Seen(runs'[workers'[w].run])
       /\ workers'[w].phase = "claiming" =>
             workers'[w].seen.status \in ActiveStatuses
    \/ /\ workers[w].phase # "idle" /\ workers'[w].phase # "claiming"
       /\ workers'[w].run = workers[w].run /\ workers'[w].seen = workers[w].seen

LEMMA BecomeMoves ==
    ASSUME IInv, NEW w \in Workers, NEW new, Become(w, new)
    PROVE  /\ workers'[w] = new
           /\ \A v \in Workers \ {w} : WorkerMove(v)
  BY DEF IInv, TypeInv, TypeOK, Become, WorkerMove

LEMMA StopMoves ==
    ASSUME IInv, NEW w \in Workers, Stop(w)
    PROVE  \A v \in Workers : WorkerMove(v)
<1>1. workers'[w] = IdleWorker /\ \A v \in Workers \ {w} : WorkerMove(v)
  BY BecomeMoves DEF Stop
<1> QED
  BY <1>1 DEF WorkerMove, IdleWorker

LEMMA GoToMoves ==
    ASSUME IInv, NEW w \in Workers, workers[w].phase # "idle",
           NEW phase, phase # "claiming", GoTo(w, phase, runs'[RunOf(w)])
    PROVE  \A v \in Workers : WorkerMove(v)
<1> DEFINE new == [workers[w] EXCEPT !.phase = phase,
                                     !.seen = Seen(runs'[RunOf(w)]), !.tries = 0]
<1>1. workers'[w] = new /\ \A v \in Workers \ {w} : WorkerMove(v)
  BY BecomeMoves DEF GoTo
<1>2. /\ new.phase = phase /\ new.run = RunOf(w)
      /\ new.seen = Seen(runs'[RunOf(w)])
  BY DEF IInv, TypeInv, TypeOK, Worker, RunOf
<1>3. RunOf(w) \in Calls /\ Created(RunOf(w))
  BY WorkerFacts
<1>4. WorkerMove(w)
  BY <1>1, <1>2, <1>3 DEF WorkerMove
<1> QED
  BY <1>1, <1>4

LEMMA RetryMoves ==
    ASSUME IInv, NEW w \in Workers, workers[w].phase # "idle", UNCHANGED runs,
           NEW again, NEW raised, again # "claiming", raised # "claiming",
           Retry(w, again, raised)
    PROVE  \A v \in Workers : WorkerMove(v)
<1> DEFINE new == [workers[w] EXCEPT !.phase = again, !.seen = Seen(runs[RunOf(w)]),
                                     !.tries = workers[w].tries + 1]
<1>1. CASE GoTo(w, raised, runs[RunOf(w)])
  BY <1>1, GoToMoves
<1>2. CASE Become(w, new)
  <2>1. workers'[w] = new /\ \A v \in Workers \ {w} : WorkerMove(v)
    BY <1>2, BecomeMoves
  <2>2. /\ new.phase = again /\ new.run = RunOf(w)
        /\ new.seen = Seen(runs'[RunOf(w)])
    BY DEF IInv, TypeInv, TypeOK, Worker, RunOf
  <2>3. RunOf(w) \in Calls /\ Created(RunOf(w))
    BY WorkerFacts
  <2>4. WorkerMove(w)
    BY <2>1, <2>2, <2>3 DEF WorkerMove
  <2> QED
    BY <2>1, <2>4
<1> QED
  BY <1>1, <1>2 DEF Retry

LEMMA KeepMoves ==
    ASSUME IInv, NEW w \in Workers, workers[w].phase # "idle",
           NEW new, new.phase # "claiming", new.run = workers[w].run,
           new.seen = workers[w].seen, Become(w, new)
    PROVE  \A v \in Workers : WorkerMove(v)
<1>1. workers'[w] = new /\ \A v \in Workers \ {w} : WorkerMove(v)
  BY BecomeMoves
<1> QED
  BY <1>1 DEF WorkerMove

LEMMA WorkerMoves ==
    ASSUME IInv, NEW w \in Workers, WorkerStep(w)
    PROVE  \A v \in Workers : WorkerMove(v)
<1> DEFINE me == workers[w]
<1>1. me \in Worker /\ runs \in [Calls -> Run]
  BY DEF IInv, TypeInv, TypeOK
<1>2. ASSUME NEW r \in Calls, SelectCandidate(w, r)
      PROVE  \A v \in Workers : WorkerMove(v)
  <2> DEFINE new == [IdleWorker EXCEPT !.phase = "claiming", !.run = r,
                                       !.seen = Seen(runs[r])]
  <2>1. workers'[w] = new /\ \A v \in Workers \ {w} : WorkerMove(v)
    BY <1>2, BecomeMoves DEF SelectCandidate
  <2>2. new.phase = "claiming" /\ new.run = r /\ new.seen = Seen(runs'[r])
    BY <1>2 DEF SelectCandidate, IdleWorker, store
  <2>3. runs[r].status \in ActiveStatuses /\ runs' = runs
    BY <1>2 DEF SelectCandidate, Claimable, ActiveStatuses, store
  <2>4. WorkerMove(w)
    BY <2>1, <2>2, <2>3 DEF WorkerMove, Created, Seen, ActiveStatuses
  <2> QED
    BY <2>1, <2>4
<1>3. CASE Claim(w)
  <2>1. \/ GoTo(w, "announcing", runs'[RunOf(w)])
        \/ GoTo(w, "starting", runs'[RunOf(w)])
    BY <1>3 DEF Claim, AfterClaim
  <2> QED
    BY <1>3, <2>1, GoToMoves DEF Claim
<1>4. CASE ClaimLost(w)
  BY <1>4, StopMoves DEF ClaimLost
<1>5. CASE AnnounceStart(w)
  <2>1. me.phase # "idle"
    BY <1>5 DEF AnnounceStart
  <2>2. \/ GoTo(w, "starting", runs'[RunOf(w)])
        \/ Stop(w)
        \/ Retry(w, "announcing", "idle") /\ UNCHANGED runs
    BY <1>5 DEF AnnounceStart, store
  <2> QED
    BY <2>1, <2>2, GoToMoves, StopMoves, RetryMoves
<1>6. CASE StartExecution(w)
  <2>1. /\ me.phase # "idle"
        /\ Stop(w) \/ GoTo(w, "find_proposal", runs'[RunOf(w)])
    BY <1>6 DEF StartExecution, store
  <2> QED
    BY <2>1, GoToMoves, StopMoves
<1>7. CASE FindProposal(w)
  <2>1. me.phase # "idle"
    BY <1>7 DEF FindProposal
  <2>2. CASE Become(w, [me EXCEPT !.phase = "complete", !.mode = "action_proposal"])
    <3> DEFINE new == [me EXCEPT !.phase = "complete", !.mode = "action_proposal"]
    <3>1. new.phase # "claiming" /\ new.run = me.run /\ new.seen = me.seen
      BY <1>1 DEF Worker
    <3> QED
      BY <2>1, <2>2, <3>1, KeepMoves
  <2>3. CASE Become(w, [me EXCEPT !.phase = "check_requester"])
    <3> DEFINE new == [me EXCEPT !.phase = "check_requester"]
    <3>1. new.phase # "claiming" /\ new.run = me.run /\ new.seen = me.seen
      BY <1>1 DEF Worker
    <3> QED
      BY <2>1, <2>3, <3>1, KeepMoves
  <2> QED
    BY <1>7, <2>2, <2>3 DEF FindProposal
<1>8. CASE Checkpoint(w)
  <2>1. me.phase # "idle" /\ runs' = runs
    BY <1>8, FollowsFacts DEF Checkpoint, store
  <2>2. ASSUME NEW next \in Follows[me.phase],
               Become(w, [me EXCEPT
                   !.phase = next,
                   !.mode = IF next = "complete" THEN ModeOf(me.phase) ELSE @])
        PROVE  \A v \in Workers : WorkerMove(v)
    <3> DEFINE mode == IF next = "complete" THEN ModeOf(me.phase) ELSE me.mode
               new == [me EXCEPT !.phase = next, !.mode = mode]
    <3>1. next # "claiming"
      BY <1>8, FollowsFacts DEF Checkpoint
    <3>2. new.phase # "claiming" /\ new.run = me.run /\ new.seen = me.seen
      BY <1>1, <3>1 DEF Worker
    <3> QED
      BY <2>1, <2>2, <3>2, KeepMoves
  <2> QED
    BY <1>8, <2>1, <2>2, GoToMoves DEF Checkpoint
<1>9. CASE WorkRaises(w)
  <2>1. me.phase # "idle" /\ GoTo(w, "fail", runs'[RunOf(w)])
    BY <1>9, FollowsFacts DEF WorkRaises, Raise, store
  <2> QED
    BY <2>1, GoToMoves
<1>10. CASE Emit(w)
  <2>1. me.phase # "idle" /\ me.phase # "claiming"
    BY <1>10 DEF Emit, EmitPhases
  <2>2. \/ \E next \in Follows[me.phase] : GoTo(w, next, runs'[RunOf(w)])
        \/ Retry(w, me.phase, "fail") /\ UNCHANGED runs
    BY <1>10 DEF Emit, store
  <2>3. \A next \in Follows[me.phase] : next # "claiming"
    BY <1>10, FollowsFacts DEF Emit
  <2> QED
    BY <2>1, <2>2, <2>3, GoToMoves, RetryMoves
<1>11. CASE Propose(w)
  <2>1. me.phase # "idle"
    BY <1>11 DEF Propose
  <2>2. CASE Become(w, [me EXCEPT !.phase = "complete", !.mode = "action_proposal"])
    <3> DEFINE new == [me EXCEPT !.phase = "complete", !.mode = "action_proposal"]
    <3>1. new.phase # "claiming" /\ new.run = me.run /\ new.seen = me.seen
      BY <1>1 DEF Worker
    <3> QED
      BY <2>1, <2>2, <3>1, KeepMoves
  <2>3. CASE Raise(w)
    <3>1. GoTo(w, "fail", runs'[RunOf(w)])
      BY <1>11, <2>3 DEF Propose, Raise
    <3> QED
      BY <2>1, <3>1, GoToMoves
  <2> QED
    BY <1>11, <2>2, <2>3 DEF Propose
<1>12. CASE ReadConversation(w)
  <2> DEFINE conv == SeenConv(convs[runs[RunOf(w)].conv])
             new == [me EXCEPT !.phase = "commit", !.conv = conv]
  <2>1. new.phase # "claiming" /\ new.run = me.run /\ new.seen = me.seen
    BY <1>1 DEF Worker
  <2>2. me.phase # "idle" /\ Become(w, new)
    BY <1>12 DEF ReadConversation
  <2> QED
    BY <2>1, <2>2, KeepMoves
<1>13. CASE Complete(w)
  BY <1>13, StopMoves DEF Complete
<1>14. CASE CompletionLosesRace(w)
  <2>1. me.phase # "idle" /\ Retry(w, "complete", "fail") /\ UNCHANGED runs
    BY <1>14 DEF CompletionLosesRace, store
  <2> QED
    BY <2>1, RetryMoves
<1>15. CASE FinishWithoutMessage(w)
  <2>1. me.phase # "idle" /\ me.phase # "claiming"
    BY <1>15 DEF FinishWithoutMessage
  <2>2. \/ Stop(w)
        \/ Retry(w, me.phase, "idle") /\ UNCHANGED runs
    BY <1>15 DEF FinishWithoutMessage, store
  <2> QED
    BY <2>1, <2>2, StopMoves, RetryMoves
<1> QED
  BY <1>2, <1>3, <1>4, <1>5, <1>6, <1>7, <1>8, <1>9, <1>10, <1>11, <1>12, <1>13,
     <1>14, <1>15 DEF WorkerStep

LEMMA OtherWorkerMoves ==
    ASSUME IInv, [Next]_vars
    PROVE  \A w \in Workers : WorkerMove(w)
<1>1. CASE UNCHANGED workers
  BY <1>1 DEF WorkerMove
<1>2. CASE \E w \in Workers : WorkerStep(w)
  BY <1>2, WorkerMoves
<1>3. CASE \E w \in Workers : Crash(w)
  BY <1>3, StopMoves DEF Crash
<1>4. ASSUME NEW k \in Calls, CallStep(k) PROVE UNCHANGED workers
  BY <1>4 DEF CallStep, LookUpKey, ReadForCreate, CreateInNewConversation,
     CreateInConversation, CreateLosesRace, CreateConflicts
<1>5. ASSUME NEW u \in Cancellers, CancelStep(u) PROVE UNCHANGED workers
  BY <1>5 DEF CancelStep, RequestCancellation, WriteCancellation,
     CancellationLosesRace, AnnounceCancellation
<1>6. CASE Environment
  BY <1>1, <1>3, <1>6 DEF Environment, RenewLease, UnattendedLeaseExpires,
     AttendedLeaseExpires, LeaseExpires, Archive
<1> QED
  BY <1>1, <1>2, <1>4, <1>5, <1>6 DEF Next, vars

\* The same for the handlers of cancellations.
CancelMove(u) ==
    \/ cancels'[u] = cancels[u]
    \/ cancels'[u].phase = "idle"
    \/ /\ cancels'[u].run \in Calls /\ Created(cancels'[u].run)
       /\ cancels'[u].seen = Seen(runs'[cancels'[u].run])

LEMMA CancelMoves ==
    ASSUME IInv, NEW u \in Cancellers, CancelStep(u)
    PROVE  \A v \in Cancellers : CancelMove(v)
<1> DEFINE me == cancels[u]
           r == me.run
<1>1. me \in Cancel /\ cancels \in [Cancellers -> Cancel] /\ runs \in [Calls -> Run]
  BY DEF IInv, TypeInv, TypeOK
<1>2. me.phase # "idle" => r \in Calls /\ Created(r)
  BY DEF IInv, Sessions, SessionOK
<1>3. ASSUME NEW new, cancels' = [cancels EXCEPT ![u] = new],
             \/ new.phase = "idle"
             \/ /\ new.run \in Calls /\ Created(new.run)
                /\ new.seen = Seen(runs'[new.run])
      PROVE  \A v \in Cancellers : CancelMove(v)
  <2>1. cancels'[u] = new /\ \A v \in Cancellers \ {u} : cancels'[v] = cancels[v]
    BY <1>1, <1>3
  <2> QED
    BY <1>3, <2>1 DEF CancelMove
<1>4. ASSUME NEW done, me.phase # "idle", RetryCancel(u, done), UNCHANGED runs
      PROVE  \A v \in Cancellers : CancelMove(v)
  <2> DEFINE new == [me EXCEPT !.seen = Seen(runs[r]), !.tries = me.tries + 1]
  <2>1. CASE cancels' = [cancels EXCEPT ![u] = IdleCancel]
    BY <1>3, <2>1 DEF IdleCancel
  <2>2. CASE cancels' = [cancels EXCEPT ![u] = new]
    <3>1. new.run = r /\ new.seen = Seen(runs'[r])
      BY <1>1, <1>4 DEF Cancel
    <3> QED
      BY <1>2, <1>3, <1>4, <2>2, <3>1
  <2> QED
    BY <1>4, <2>1, <2>2 DEF RetryCancel
<1>5. ASSUME NEW s \in Calls, RequestCancellation(u, s)
      PROVE  \A v \in Cancellers : CancelMove(v)
  <2> DEFINE new == [phase |-> "writing", run |-> s, seen |-> Seen(runs[s]),
                     tries |-> 0]
  <2>1. runs' = runs /\ Created(s) /\ cancels' = [cancels EXCEPT ![u] = new]
    BY <1>5 DEF RequestCancellation, store, Created, ActiveStatuses
  <2>2. new.run = s /\ new.seen = Seen(runs'[s])
    BY <2>1
  <2> QED
    BY <1>3, <2>1, <2>2
<1>6. CASE WriteCancellation(u)
  <2> DEFINE new == [me EXCEPT !.phase = "announcing", !.seen = Seen(runs'[r]),
                               !.tries = 0]
  <2>1. new.run = r /\ new.seen = Seen(runs'[r])
    BY <1>1 DEF Cancel
  <2>2. r \in Calls /\ Created(r) /\ cancels' = [cancels EXCEPT ![u] = new]
    BY <1>2, <1>6 DEF WriteCancellation
  <2> QED
    BY <1>3, <2>1, <2>2
<1>7. CASE CancellationLosesRace(u)
  <2>1. me.phase # "idle" /\ UNCHANGED runs
    BY <1>7 DEF CancellationLosesRace, store
  <2> QED
    BY <1>4, <1>7, <2>1 DEF CancellationLosesRace
<1>8. CASE AnnounceCancellation(u)
  <2>1. me.phase # "idle"
    BY <1>8 DEF AnnounceCancellation
  <2>2. CASE cancels' = [cancels EXCEPT ![u] = IdleCancel]
    BY <1>3, <2>2 DEF IdleCancel
  <2>3. CASE RetryCancel(u, FALSE) /\ UNCHANGED store
    BY <1>4, <2>1, <2>3 DEF store
  <2> QED
    BY <1>8, <2>2, <2>3 DEF AnnounceCancellation
<1> QED
  BY <1>5, <1>6, <1>7, <1>8 DEF CancelStep

LEMMA OtherCancelMoves ==
    ASSUME IInv, [Next]_vars
    PROVE  \A u \in Cancellers : CancelMove(u)
<1>1. CASE UNCHANGED cancels
  BY <1>1 DEF CancelMove
<1>2. ASSUME NEW k \in Calls, CallStep(k) PROVE UNCHANGED cancels
  BY <1>2 DEF CallStep, LookUpKey, ReadForCreate, CreateInNewConversation,
     CreateInConversation, CreateLosesRace, CreateConflicts
<1>3. ASSUME NEW w \in Workers, WorkerStep(w) PROVE UNCHANGED cancels
  BY <1>3 DEF WorkerStep, SelectCandidate, Claim, ClaimLost, AnnounceStart,
     StartExecution, FindProposal, Checkpoint, WorkRaises, Emit, Propose,
     ReadConversation, Complete, CompletionLosesRace, FinishWithoutMessage
<1>4. CASE Environment
  BY <1>1, <1>4 DEF Environment, RenewLease, Crash, UnattendedLeaseExpires,
     AttendedLeaseExpires, LeaseExpires, Archive
<1> QED
  BY <1>1, <1>2, <1>3, <1>4, CancelMoves DEF Next, vars

LEMMA SessionsStep ==
    ASSUME IInv, [Next]_vars
    PROVE  Sessions'
<1>1. ASSUME NEW w \in Workers
      PROVE  /\ workers'[w].phase # "idle" =>
                   SessionOK(workers[w].run, workers[w].seen)'
             /\ workers'[w].phase = "claiming" =>
                   workers'[w].seen.status \in ActiveStatuses
  <2>1. /\ workers[w].seen \in Snapshot
        /\ workers[w].phase # "idle" => SessionOK(workers[w].run, workers[w].seen)
        /\ workers[w].phase = "claiming" => workers[w].seen.status \in ActiveStatuses
    BY DEF IInv, TypeInv, TypeOK, Worker, Sessions
  <2>2. ASSUME workers[w].phase # "idle",
               workers'[w].run = workers[w].run, workers'[w].seen = workers[w].seen
        PROVE  SessionOK(workers[w].run, workers[w].seen)'
    <3> DEFINE r == workers[w].run
               seen == workers[w].seen
    <3>1. SessionOK(r, seen) /\ seen \in Snapshot
      BY <2>1, <2>2
    <3>2. /\ r \in Calls /\ runs'[r].status # "absent"
          /\ seen.version <= runs'[r].version
          /\ seen.version = runs'[r].version => seen = Seen(runs'[r])
      BY <3>1, SessionCopyKept
    <3> QED
      BY <2>2, <3>2 DEF SessionOK, Created
  <2>3. ASSUME workers'[w].run \in Calls, Created(workers'[w].run),
               workers'[w].seen = Seen(runs'[workers'[w].run])
        PROVE  SessionOK(workers[w].run, workers[w].seen)'
    <3>1. /\ runs'[workers'[w].run].status # "absent"
          /\ runs'[workers'[w].run].version \in Nat
      BY <2>3, FreshRow
    <3> QED
      BY <2>3, <3>1 DEF SessionOK, Created, Seen
  <2> QED
    BY <2>1, <2>2, <2>3, OtherWorkerMoves DEF WorkerMove
<1>2. ASSUME NEW u \in Cancellers
      PROVE  cancels'[u].phase # "idle" => SessionOK(cancels[u].run, cancels[u].seen)'
  <2>1. /\ cancels[u].seen \in Snapshot
        /\ cancels[u].phase # "idle" => SessionOK(cancels[u].run, cancels[u].seen)
    BY DEF IInv, TypeInv, TypeOK, Cancel, Sessions
  <2>2. ASSUME cancels[u].phase # "idle", cancels'[u] = cancels[u]
        PROVE  SessionOK(cancels[u].run, cancels[u].seen)'
    <3> DEFINE r == cancels[u].run
               seen == cancels[u].seen
    <3>1. SessionOK(r, seen) /\ seen \in Snapshot
      BY <2>1, <2>2
    <3>2. /\ r \in Calls /\ runs'[r].status # "absent"
          /\ seen.version <= runs'[r].version
          /\ seen.version = runs'[r].version => seen = Seen(runs'[r])
      BY <3>1, SessionCopyKept
    <3> QED
      BY <2>2, <3>2 DEF SessionOK, Created
  <2>3. ASSUME cancels'[u].run \in Calls, Created(cancels'[u].run),
               cancels'[u].seen = Seen(runs'[cancels'[u].run])
        PROVE  SessionOK(cancels[u].run, cancels[u].seen)'
    <3>1. /\ runs'[cancels'[u].run].status # "absent"
          /\ runs'[cancels'[u].run].version \in Nat
      BY <2>3, FreshRow
    <3> QED
      BY <2>3, <3>1 DEF SessionOK, Created, Seen
  <2> QED
    BY <2>1, <2>2, <2>3, OtherCancelMoves DEF CancelMove
<1> QED
  BY <1>1, <1>2 DEF Sessions

-----------------------------------------------------------------------------
(* The invariant, and what follows from it at once.                        *)

LEMMA InvariantHolds == Spec => []IInv
<1>1. Init => IInv
  <2>1. ASSUME Init PROVE Rows /\ Sessions
    BY <2>1 DEF Init, Rows, RowOK, AbsentRun, ActiveStatuses, TerminalStatuses,
       Completed, Sessions, IdleWorker, IdleCancel
  <2> QED
    BY <2>1, TypeInit DEF IInv
<1>2. IInv /\ [Next]_vars => IInv'
  BY TypeStep, RowsStep, SessionsStep DEF IInv
<1> QED
  BY <1>1, <1>2, PTL DEF Spec

\* Every row, event, message and process of agent runs keeps its type, for
\* any number of calls, workers, retries, stalls and crashes.
THEOREM TypeCorrect == Spec => []TypeOK
<1>1. IInv => TypeOK
  BY DEF IInv, TypeInv
<1> QED
  BY <1>1, InvariantHolds, PTL

\* No step of any process changes a finished run: a worker that lost its
\* lease, a late cancellation and a second completion all fail on its version
\* or its status, because the copy they hold is older than the finish.
THEOREM FinishedStays == Spec => FinishedForever
<1>1. ASSUME IInv, [Next]_vars, NEW r \in Calls, Finished(r)
      PROVE  /\ runs'[r].status = runs[r].status
             /\ runs'[r].proposal = runs[r].proposal
             /\ ~runs'[r].slot /\ runs'[r].owner = None /\ runs'[r].lease = "none"
             /\ runs'[r].cancel = runs[r].cancel
  <2>1. RowStep(r) /\ RowOK(runs[r])
    BY <1>1, EveryRowStep DEF IInv, Rows
  <2>2. /\ runs[r].status \in TerminalStatuses
        /\ runs[r].status \notin ActiveStatuses /\ runs[r].status # "absent"
    BY <1>1 DEF Finished, TerminalStatuses, Completed, ActiveStatuses
  <2>3. /\ runs[r].owner = None /\ runs[r].lease = "none"
        /\ runs[r].slot \in BOOLEAN /\ ~runs[r].slot
    BY <1>1, <2>1, <2>2 DEF RowOK, IInv, TypeInv, TypeOK, Run
  <2>4. CASE RowKept(runs[r], runs'[r])
    BY <2>2, <2>3, <2>4 DEF RowKept, Seen
  <2>5. CASE RowWritten(runs[r], runs'[r])
    BY <2>2, <2>3, <2>5 DEF RowWritten
  <2> QED
    BY <2>1, <2>2, <2>4, <2>5 DEF RowStep, RowQuiet, RowInserted
<1>2. IInv /\ [Next]_vars =>
        [\A r \in Calls : Finished(r) =>
          /\ runs'[r].status = runs[r].status
          /\ runs'[r].proposal = runs[r].proposal
          /\ ~runs'[r].slot /\ runs'[r].owner = None /\ runs'[r].lease = "none"
          /\ runs'[r].cancel = runs[r].cancel]_vars
  BY <1>1
<1> QED
  BY <1>2, InvariantHolds, PTL DEF Spec, FinishedForever

-----------------------------------------------------------------------------
(* The constraints of the tables, and the calls of create_run.             *)

\* At most one row of a conversation holds its slot.
Slots ==
    \A r, s \in Calls :
        runs[r].slot /\ runs[s].slot /\ runs[r].conv = runs[s].conv => r = s

\* Conversations exist before the runs in them, and a call that found its
\* conversation still finds it when it writes.
Convs ==
    /\ \A r \in Calls : Created(r) => convs[runs[r].conv].status # "absent"
    /\ \A k \in Calls :
          /\ convs[k].status # "absent" => calls[k].phase = "done"
          /\ calls[k].phase = "writing" /\ calls[k].target # None =>
                convs[calls[k].target].status # "absent"

\* A client_request_id has one run, and answers name it.
Keyed ==
    /\ \A j, k \in Calls : Created(j) /\ Created(k) /\ KeyOf[j] = KeyOf[k] => j = k
    /\ \A k \in Calls : calls[k].run # None =>
          Created(calls[k].run) /\ KeyOf[calls[k].run] = KeyOf[k]

CInv == IInv /\ Slots /\ Convs /\ Keyed

\* A step of anyone else creates no run, no conversation and no answer.
Bystander ==
    /\ UNCHANGED calls
    /\ \A c \in Calls : convs'[c].status = "absent" <=> convs[c].status = "absent"
    /\ \A r \in Calls : RowQuiet(r)

LEMMA Bystanders ==
    ASSUME IInv, [Next]_vars, ~ \E k \in Calls : CallStep(k)
    PROVE  Bystander
<1>0. convs \in [Calls -> Conversation]
  BY DEF IInv, TypeInv, TypeOK
<1>1. CASE UNCHANGED vars
  BY <1>1, RowsUntouched DEF vars, store, Bystander
<1>2. ASSUME NEW u \in Cancellers, CancelStep(u)
      PROVE  Bystander
  <2>1. UNCHANGED <<calls, convs>>
    BY <1>2 DEF CancelStep, RequestCancellation, WriteCancellation,
       CancellationLosesRace, AnnounceCancellation, AppendEvent, store
  <2> QED
    BY <1>2, <2>1, CancelRows DEF Bystander
<1>3. ASSUME NEW w \in Workers, WorkerStep(w)
      PROVE  Bystander
  <2>1. UNCHANGED calls
    BY <1>3 DEF WorkerStep, SelectCandidate, Claim, ClaimLost, AnnounceStart,
       StartExecution, FindProposal, Checkpoint, WorkRaises, Emit, Propose,
       ReadConversation, Complete, CompletionLosesRace, FinishWithoutMessage
  <2>2. Complete(w) \/ UNCHANGED convs
    BY <1>3 DEF WorkerStep, SelectCandidate, Claim, ClaimLost, AnnounceStart,
       StartExecution, FindProposal, Checkpoint, WorkRaises, Emit, Propose,
       ReadConversation, CompletionLosesRace, FinishWithoutMessage, AppendEvent, store
  <2>3. ASSUME Complete(w), NEW c \in Calls
        PROVE  convs'[c].status = convs[c].status
    <3> DEFINE d == runs[RunOf(w)].conv
               new == [convs[d] EXCEPT !.version = workers[w].conv.version + 1,
                                       !.next = workers[w].conv.next + 1]
    <3>1. convs' = [convs EXCEPT ![d] = new]
      BY <2>3 DEF Complete
    <3>2. CASE c = d
      BY <1>0, <3>1, <3>2 DEF Conversation
    <3>3. CASE c # d
      BY <1>0, <3>1, <3>3
    <3> QED
      BY <3>2, <3>3
  <2> QED
    BY <1>3, <2>1, <2>2, <2>3, WorkerRows DEF Bystander
<1>4. CASE Environment
  <2>1. UNCHANGED calls
    BY <1>4 DEF Environment, RenewLease, Crash, UnattendedLeaseExpires,
       AttendedLeaseExpires, LeaseExpires, Archive
  <2>2. (\E c \in Calls : Archive(c)) \/ UNCHANGED convs
    BY <1>4 DEF Environment, RenewLease, Crash, UnattendedLeaseExpires,
       AttendedLeaseExpires, LeaseExpires, store
  <2>3. ASSUME NEW d \in Calls, Archive(d), NEW c \in Calls
        PROVE  convs'[c].status = "absent" <=> convs[c].status = "absent"
    <3> DEFINE new == [convs[d] EXCEPT !.status = "archived"]
    <3>1. /\ convs' = [convs EXCEPT ![d] = new]
          /\ convs[d].status # "absent" /\ new.status # "absent"
      BY <1>0, <2>3 DEF Archive, Conversation
    <3>2. CASE c = d
      BY <1>0, <3>1, <3>2
    <3>3. CASE c # d
      BY <1>0, <3>1, <3>3
    <3> QED
      BY <3>2, <3>3
  <2> QED
    BY <1>4, <2>1, <2>2, <2>3, EnvironmentRows DEF Bystander
<1> QED
  BY <1>1, <1>2, <1>3, <1>4 DEF Next

LEMMA QuietRow ==
    ASSUME NEW r \in Calls, RowQuiet(r)
    PROVE  /\ runs'[r].status = "absent" <=> runs[r].status = "absent"
           /\ runs'[r].conv = runs[r].conv
           /\ runs'[r].slot => runs[r].slot
  BY DEF RowQuiet, RowKept, RowWritten, Seen, ActiveStatuses, TerminalStatuses, Completed

LEMMA BystanderStep ==
    ASSUME CInv, TypeInv', Bystander
    PROVE  (Slots /\ Convs /\ Keyed)'
<1>1. \A r \in Calls :
         /\ runs'[r].status = "absent" <=> runs[r].status = "absent"
         /\ runs'[r].conv = runs[r].conv
         /\ runs'[r].slot => runs[r].slot
  BY QuietRow DEF Bystander
<1>2. /\ calls' = calls
      /\ \A c \in Calls : convs'[c].status = "absent" <=> convs[c].status = "absent"
  BY DEF Bystander
<1>3. /\ \A r \in Calls : Created(r) => runs[r].conv \in Calls
      /\ \A k \in Calls : calls[k].target \in Calls \cup {None}
      /\ \A k \in Calls : calls[k].run \in Calls \cup {None}
  BY DEF CInv, IInv, TypeInv, TypeOK, Rows, RowOK, Created, Call
<1>4. Slots'
  BY <1>1 DEF CInv, Slots
<1>5. Convs'
  BY <1>1, <1>2, <1>3 DEF CInv, Convs, Created
<1>6. Keyed'
  BY <1>1, <1>2, <1>3 DEF CInv, Keyed, Created
<1> QED
  BY <1>4, <1>5, <1>6

\* The insertion of run k into conversation c, which has no active run yet.
LEMMA InsertionStep ==
    ASSUME CInv, [Next]_vars, NEW k \in Calls, NEW c \in Calls,
           InsertRun(k, c), KeyFree(KeyOf[k]),
           \A r \in Calls : runs[r].conv = c => ~runs[r].slot,
           Answer(k, "created", k),
           convs'[c].status # "absent",
           convs[c].status # "absent" \/ c = k,
           \A d \in Calls \ {c} : convs'[d] = convs[d]
    PROVE  (Slots /\ Convs /\ Keyed)'
<1>1. /\ runs \in [Calls -> Run] /\ calls \in [Calls -> Call]
      /\ convs \in [Calls -> Conversation]
  BY DEF CInv, IInv, TypeInv, TypeOK
<1>2. /\ runs'[k].status # "absent" /\ runs'[k].conv = c /\ runs'[k].slot
      /\ \A r \in Calls \ {k} : runs'[r] = runs[r]
  <2> DEFINE new == [AbsentRun EXCEPT !.status = "queued", !.slot = TRUE,
                                      !.version = 1, !.conv = c, !.next = 2]
  <2>1. runs' = [runs EXCEPT ![k] = new]
    BY DEF InsertRun
  <2>2. new.status = "queued" /\ new.conv = c /\ new.slot
    BY DEF AbsentRun
  <2> QED
    BY <1>1, <2>1, <2>2
<1>3. /\ calls'[k].phase = "done" /\ calls'[k].run = k
      /\ \A j \in Calls \ {k} : calls'[j] = calls[j]
  <2> DEFINE new == [calls[k] EXCEPT !.phase = "done", !.outcome = "created", !.run = k]
  <2>1. calls' = [calls EXCEPT ![k] = new]
    BY DEF Answer
  <2>2. new.phase = "done" /\ new.run = k
    BY <1>1 DEF Call
  <2> QED
    BY <1>1, <2>1, <2>2
<1>4. \A j \in Calls : Created(j) => KeyOf[j] # KeyOf[k]
  BY DEF KeyFree, HolderOf
<1>5. /\ \A r \in Calls : Created(r) => runs[r].conv \in Calls
      /\ \A j \in Calls : calls[j].target \in Calls \cup {None}
      /\ \A j \in Calls : calls[j].run \in Calls \cup {None}
  BY <1>1 DEF CInv, IInv, Rows, RowOK, Created, Call
<1>6. Slots'
  <2> SUFFICES ASSUME NEW r \in Calls, NEW s \in Calls,
                      runs'[r].slot, runs'[s].slot, runs'[r].conv = runs'[s].conv
               PROVE  r = s
    BY DEF Slots
  <2>1. CASE r = k \/ s = k
    BY <1>2, <2>1
  <2>2. CASE r # k /\ s # k
    BY <1>2, <2>2 DEF CInv, Slots
  <2> QED
    BY <2>1, <2>2
<1>7. Convs'
  <2>1. ASSUME NEW r \in Calls, runs'[r].status # "absent"
        PROVE  convs'[runs'[r].conv].status # "absent"
    <3>1. CASE r = k
      BY <1>2, <3>1
    <3>2. CASE r # k
      <4>1. /\ runs'[r] = runs[r] /\ Created(r)
            /\ runs[r].conv \in Calls /\ convs[runs[r].conv].status # "absent"
        BY <1>2, <1>5, <2>1, <3>2 DEF CInv, Convs, Created
      <4> QED
        BY <4>1
    <3> QED
      BY <3>1, <3>2
  <2>2. ASSUME NEW j \in Calls, convs'[j].status # "absent"
        PROVE  calls'[j].phase = "done"
    BY <1>3, <2>2 DEF CInv, Convs
  <2>3. ASSUME NEW j \in Calls, calls'[j].phase = "writing", calls'[j].target # None
        PROVE  convs'[calls'[j].target].status # "absent"
    <3>1. j # k /\ calls'[j] = calls[j]
      BY <1>3, <2>3
    <3>2. calls[j].target \in Calls /\ convs[calls[j].target].status # "absent"
      BY <1>5, <2>3, <3>1 DEF CInv, Convs
    <3> QED
      BY <3>1, <3>2
  <2> QED
    BY <2>1, <2>2, <2>3 DEF Convs, Created
<1>8. Keyed'
  <2>1. ASSUME NEW i \in Calls, NEW j \in Calls, KeyOf[i] = KeyOf[j],
               runs'[i].status # "absent", runs'[j].status # "absent"
        PROVE  i = j
    BY <1>2, <1>4, <2>1 DEF CInv, Keyed, Created
  <2>2. ASSUME NEW j \in Calls, calls'[j].run # None
        PROVE  /\ runs'[calls'[j].run].status # "absent"
               /\ KeyOf[calls'[j].run] = KeyOf[j]
    <3>1. CASE j = k
      BY <1>2, <1>3, <3>1
    <3>2. CASE j # k
      <4>1. /\ calls'[j] = calls[j] /\ calls[j].run \in Calls
            /\ Created(calls[j].run) /\ KeyOf[calls[j].run] = KeyOf[j]
        BY <1>3, <1>5, <2>2, <3>2 DEF CInv, Keyed
      <4> QED
        BY <4>1, CreatedForever DEF CInv
    <3> QED
      BY <3>1, <3>2
  <2> QED
    BY <2>1, <2>2 DEF Keyed, Created
<1> QED
  BY <1>6, <1>7, <1>8

\* A read, an answer or a retry of call k.
LEMMA QuietCallStep ==
    ASSUME CInv, NEW k \in Calls, NEW new \in Call,
           UNCHANGED store, calls' = [calls EXCEPT ![k] = new],
           \/ new.phase = "done" /\ new.target = calls[k].target
           \/ calls[k].phase # "done" /\ new.phase \in {"reading", "checking"}
           \/ /\ calls[k].phase # "done"
              /\ new.target # None => convs[new.target].status # "absent",
           new.run # None => Created(new.run) /\ KeyOf[new.run] = KeyOf[k]
    PROVE  (Slots /\ Convs /\ Keyed)'
<1>1. /\ calls'[k] = new
      /\ \A j \in Calls \ {k} : calls'[j] = calls[j]
      /\ runs' = runs /\ convs' = convs
  BY DEF CInv, IInv, TypeInv, TypeOK, store
<1>2. Slots'
  BY <1>1 DEF CInv, Slots
<1>3. Convs'
  <2>1. \A j \in Calls : convs[j].status # "absent" => calls'[j].phase = "done"
    BY <1>1 DEF CInv, Convs
  <2>2. \A j \in Calls : calls'[j].phase = "writing" /\ calls'[j].target # None =>
          convs[calls'[j].target].status # "absent"
    BY <1>1 DEF CInv, Convs
  <2> QED
    BY <1>1, <2>1, <2>2 DEF CInv, Convs, Created
<1>4. Keyed'
  BY <1>1 DEF CInv, Keyed, Created
<1> QED
  BY <1>2, <1>3, <1>4

LEMMA CallStepKeeps ==
    ASSUME CInv, [Next]_vars, NEW k \in Calls, CallStep(k)
    PROVE  (Slots /\ Convs /\ Keyed)'
<1> DEFINE me == calls[k]
<1>1. /\ me \in Call /\ convs \in [Calls -> Conversation]
      /\ calls' \in [Calls -> Call]
      /\ calls \in [Calls -> Call]
  BY TypeStep DEF CInv, IInv, TypeInv, TypeOK
<1>2. calls'[k] \in Call
  BY <1>1
<1>3. ASSUME me.phase # "done", NEW outcome, NEW r \in HolderOf(KeyOf[k]) \cup {None},
             Answer(k, outcome, r), UNCHANGED store
      PROVE  (Slots /\ Convs /\ Keyed)'
  <2> DEFINE new == [me EXCEPT !.phase = "done", !.outcome = outcome, !.run = r]
  <2>1. calls' = [calls EXCEPT ![k] = new]
    BY <1>3 DEF Answer
  <2>2. new \in Call
    BY <1>1, <1>2, <2>1
  <2>3. new.phase = "done" /\ new.target = me.target /\ new.run = r
    BY <1>1 DEF Call
  <2>4. r # None => Created(r) /\ KeyOf[r] = KeyOf[k]
    BY DEF HolderOf
  <2> QED
    BY <1>3, <2>1, <2>2, <2>3, <2>4, QuietCallStep
<1>4. ASSUME me.phase # "done", RetryCreate(k), UNCHANGED store
      PROVE  (Slots /\ Convs /\ Keyed)'
  <2> DEFINE new == [me EXCEPT !.phase = "reading", !.tries = me.tries + 1]
  <2>1. CASE Answer(k, "error", None)
    BY <1>3, <1>4, <2>1
  <2>2. CASE calls' = [calls EXCEPT ![k] = new]
    <3>1. new \in Call
      BY <1>1, <1>2, <2>2
    <3>2. new.phase = "reading" /\ new.run = me.run
      BY <1>1 DEF Call
    <3>3. me.run # None => Created(me.run) /\ KeyOf[me.run] = KeyOf[k]
      BY DEF CInv, Keyed
    <3> QED
      BY <1>4, <2>2, <3>1, <3>2, <3>3, QuietCallStep
  <2> QED
    BY <1>4, <2>1, <2>2 DEF RetryCreate
<1>5. ASSUME NEW r \in HolderOf(KeyOf[k]), AnswerExisting(k, r)
      PROVE  \E outcome : Answer(k, outcome, r)
  BY <1>5 DEF AnswerExisting
<1>6. CASE ReadForCreate(k)
  <2>1. me.phase # "done" /\ UNCHANGED store
    BY <1>6 DEF ReadForCreate
  <2>2. CASE Answer(k, "not_found", None) \/ Answer(k, "busy", None)
    BY <1>3, <2>1, <2>2
  <2>4. ASSUME me.target # None => convs[me.target].status = "active",
               calls' = [calls EXCEPT
                    ![k] = [@ EXCEPT !.phase = "writing",
                                     !.seen = IF me.target = None THEN NoConversation
                                              ELSE SeenConv(convs[me.target])]]
        PROVE  (Slots /\ Convs /\ Keyed)'
    <3> DEFINE seen == IF me.target = None THEN NoConversation
                       ELSE SeenConv(convs[me.target])
               new == [me EXCEPT !.phase = "writing", !.seen = seen]
    <3>1. calls' = [calls EXCEPT ![k] = new]
      BY <2>4
    <3>2. new \in Call
      BY <1>1, <1>2, <3>1
    <3>3. new.phase = "writing" /\ new.run = me.run /\ new.target = me.target
      BY <1>1 DEF Call
    <3>4. me.run # None => Created(me.run) /\ KeyOf[me.run] = KeyOf[k]
      BY DEF CInv, Keyed
    <3>5. new.target # None => convs[new.target].status # "absent"
      BY <2>4, <3>3
    <3>6. new.run # None => Created(new.run) /\ KeyOf[new.run] = KeyOf[k]
      BY <3>3, <3>4
    <3> HIDE DEF new
    <3> QED
      BY <2>1, <3>1, <3>2, <3>5, <3>6, QuietCallStep
  <2> QED
    BY <1>6, <2>2, <2>4 DEF ReadForCreate
<1>11. CASE LookUpKey(k)
  <2> DEFINE new == [me EXCEPT !.phase = "checking"]
  <2>1. me.phase # "done" /\ UNCHANGED store
    BY <1>11 DEF LookUpKey
  <2>2. CASE \E r \in HolderOf(KeyOf[k]) : AnswerExisting(k, r)
    BY <1>3, <1>5, <2>1, <2>2
  <2>3. CASE calls' = [calls EXCEPT ![k] = new]
    <3>1. new \in Call
      BY <1>1, <1>2, <2>3
    <3>2. new.phase = "checking" /\ new.run = me.run
      BY <1>1 DEF Call
    <3>3. me.run # None => Created(me.run) /\ KeyOf[me.run] = KeyOf[k]
      BY DEF CInv, Keyed
    <3> QED
      BY <2>1, <2>3, <3>1, <3>2, <3>3, QuietCallStep
  <2> QED
    BY <1>11, <2>2, <2>3 DEF LookUpKey
<1>7. CASE CreateInNewConversation(k)
  <2>1. /\ convs[k].status = "absent"
        /\ \A r \in Calls : runs[r].conv = k => ~runs[r].slot
    <3>1. convs[k].status = "absent"
      BY <1>7 DEF CreateInNewConversation, CInv, Convs
    <3>2. ASSUME NEW r \in Calls, runs[r].conv = k
          PROVE  ~runs[r].slot
      <4>1. ~Created(r)
        BY <3>1, <3>2 DEF CInv, Convs
      <4> QED
        BY <4>1 DEF Created, CInv, IInv, Rows, RowOK, ActiveStatuses
    <3> QED
      BY <3>1, <3>2
  <2>2. /\ convs'[k].status # "absent"
        /\ \A d \in Calls \ {k} : convs'[d] = convs[d]
    BY <1>1, <1>7 DEF CreateInNewConversation
  <2> QED
    BY <1>7, <2>1, <2>2, InsertionStep DEF CreateInNewConversation
<1>8. CASE CreateInConversation(k)
  <2> DEFINE c == me.target
             new == [convs[c] EXCEPT !.version = me.seen.version + 1,
                                     !.next = me.seen.next + 1]
  <2>1. c \in Calls /\ convs[c].status # "absent"
    BY <1>1, <1>8 DEF CreateInConversation, Call, CInv, Convs
  <2>2. convs' = [convs EXCEPT ![c] = new] /\ new.status = convs[c].status
    BY <1>1, <1>8, <2>1 DEF CreateInConversation, Conversation
  <2>3. /\ convs'[c].status # "absent"
        /\ \A d \in Calls \ {c} : convs'[d] = convs[d]
    BY <1>1, <2>1, <2>2
  <2>4. \A r \in Calls : runs[r].conv = c => ~runs[r].slot
    BY <1>8 DEF CreateInConversation, SlotFree
  <2> QED
    BY <1>8, <2>1, <2>3, <2>4, InsertionStep DEF CreateInConversation
<1>9. CASE CreateLosesRace(k)
  BY <1>4, <1>9 DEF CreateLosesRace
<1>10. CASE CreateConflicts(k)
  BY <1>3, <1>4, <1>5, <1>10 DEF CreateConflicts
<1> QED
  BY <1>6, <1>7, <1>8, <1>9, <1>10, <1>11 DEF CallStep

LEMMA ConstraintsHold == Spec => []CInv
<1>1. Init => CInv
  <2>1. ASSUME Init PROVE Slots /\ Convs /\ Keyed
    BY <2>1 DEF Init, Slots, Convs, Keyed, Created, AbsentRun, AbsentConversation
  <2>2. ASSUME Init PROVE IInv
    <3>1. Rows /\ Sessions
      BY <2>2 DEF Init, Rows, RowOK, AbsentRun, ActiveStatuses, TerminalStatuses,
         Completed, Sessions, IdleWorker, IdleCancel
    <3> QED
      BY <2>2, <3>1, TypeInit DEF IInv
  <2> QED
    BY <2>1, <2>2 DEF CInv
<1>2. CInv /\ [Next]_vars => CInv'
  <2> SUFFICES ASSUME CInv, [Next]_vars PROVE CInv'
    OBVIOUS
  <2>1. IInv'
    BY TypeStep, RowsStep, SessionsStep DEF CInv, IInv
  <2>2. CASE \E k \in Calls : CallStep(k)
    BY <2>1, <2>2, CallStepKeeps DEF CInv
  <2>3. CASE ~ \E k \in Calls : CallStep(k)
    <3>1. Bystander
      BY <2>3, Bystanders DEF CInv
    <3> QED
      BY <2>1, <3>1, BystanderStep DEF CInv, IInv
  <2> QED
    BY <2>2, <2>3
<1> QED
  BY <1>1, <1>2, PTL DEF Spec

\* One conversation never has two active runs, for any number of requests,
\* workers and cancellations.
THEOREM OneRunAtATime == Spec => []OneActiveRun
<1>1. CInv => OneActiveRun
  BY DEF CInv, IInv, Rows, RowOK, Slots, OneActiveRun
<1> QED
  BY <1>1, ConstraintsHold, PTL

\* All calls with one client_request_id that are answered with a run are
\* answered with the same run, the only one that holds the key.
THEOREM CreationIsIdempotent == Spec => []IdempotentCreate
<1>1. ASSUME CInv PROVE IdempotentCreate
  <2>1. \A k \in Calls : calls[k].run \in Calls \cup {None}
    BY <1>1 DEF CInv, IInv, TypeInv, TypeOK, Call
  <2> QED
    BY <1>1, <2>1 DEF CInv, Keyed, IdempotentCreate
<1>2. CInv => IdempotentCreate
  BY <1>1
<1> QED
  BY <1>2, ConstraintsHold, PTL

=============================================================================
