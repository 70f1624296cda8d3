----------------------- MODULE AgentRunsCancelProofs -----------------------
(***************************************************************************)
(* Cancellations of AgentRuns: what a run does that is cancelled before a  *)
(* worker claims it, and whether a cancelled run leaves a proposal behind. *)
(***************************************************************************)
EXTENDS AgentRunsLogProofs

-----------------------------------------------------------------------------
(* What a step may do to a row.                                            *)

\* The worker is beyond its claim.
Attends(w) == workers[w].phase \notin {"idle", "claiming"}

ClaimedBy(w, r) ==
    /\ workers[w].phase = "claiming" /\ RunOf(w) = r
    /\ Unchanged(r, SeenBy(w)) /\ runs'[r].version = runs[r].version + 1

StoppedBy(w, r) ==
    Attends(w) /\ RunOf(w) = r /\ workers'[w].phase = "idle"

LeaseMove(r) ==
    \/ runs'[r].owner = runs[r].owner /\ runs'[r].lease \in {runs[r].lease, "live"}
    \/ ~Attended(r)
    \/ stalls' > 0
    \/ \E w \in Workers : ClaimedBy(w, r) \/ StoppedBy(w, r)

RowMove(r) ==
    /\ runs[r].attempts > 0 => runs'[r].attempts > 0
    /\ runs[r].cancel => runs'[r].cancel
    /\ runs'[r].status \in Completed =>
          \/ runs[r].status \in Completed
          \/ \E w \in Workers : RunOf(w) = r /\ workers[w].phase = "commit"
    /\ runs'[r].status = "cancelled" =>
          \/ runs[r].status = "cancelled"
          \/ \E w \in Workers : RunOf(w) = r /\ workers[w].phase = "cancel"
    /\ LeaseMove(r)

LEMMA SameRow ==
    ASSUME NEW r \in Calls, runs'[r] = runs[r]
    PROVE  RowMove(r)
  BY DEF RowMove, LeaseMove

LEMMA SameRows ==
    ASSUME UNCHANGED runs
    PROVE  \A r \in Calls : RowMove(r)
  BY SameRow

\* A write to one row.
LEMMA OneRowMove ==
    ASSUME IInv, NEW s \in Calls, NEW new, runs' = [runs EXCEPT ![s] = new],
           runs'[s] = new => RowMove(s)
    PROVE  \A r \in Calls : RowMove(r)
  BY RowSet, SameRow

LEMMA AppendMove ==
    ASSUME IInv, NEW s \in Calls, NEW seen, NEW kind, AppendEvent(s, seen, kind)
    PROVE  \A r \in Calls : RowMove(r)
<1> DEFINE new == [runs[s] EXCEPT !.next = seen.next + 1,
                                  !.version = seen.version + 1]
<1>1. runs' = [runs EXCEPT ![s] = new]
  BY DEF AppendEvent
<1>2. /\ new.attempts = runs[s].attempts /\ new.cancel = runs[s].cancel
      /\ new.status = runs[s].status /\ new.owner = runs[s].owner
      /\ new.lease = runs[s].lease
  BY DEF IInv, TypeInv, TypeOK, Run
<1> HIDE DEF new
<1>3. runs'[s] = new => RowMove(s)
  BY <1>2 DEF RowMove, LeaseMove
<1> QED
  BY <1>1, <1>3, OneRowMove

LEMMA FinishMove ==
    ASSUME IInv, NEW w \in Workers, Attends(w), NEW seen, NEW status, NEW proposal,
           Finish(RunOf(w), seen, status, proposal), Stop(w),
           status \in Completed => workers[w].phase = "commit",
           status = "cancelled" => workers[w].phase = "cancel"
    PROVE  \A r \in Calls : RowMove(r)
<1> DEFINE s == RunOf(w)
           new == [runs[s] EXCEPT !.status = status, !.slot = FALSE,
                                  !.owner = None, !.lease = "none",
                                  !.proposal = proposal, !.next = seen.next + 1,
                                  !.version = seen.version + 1]
<1>1. runs' = [runs EXCEPT ![s] = new]
  BY DEF Finish
<1>2. /\ s \in Calls /\ runs[s] \in Run
  BY WorkerFacts DEF Attends
<1>3. /\ new.attempts = runs[s].attempts /\ new.cancel = runs[s].cancel
      /\ new.status = status
  BY <1>2 DEF Run
<1> HIDE DEF new
<1>4. workers'[w].phase = "idle"
  BY BecomeOnly DEF Stop, IdleWorker
<1>5. runs'[s] = new => RowMove(s)
  BY <1>3, <1>4 DEF RowMove, LeaseMove, StoppedBy
<1> QED
  BY <1>1, <1>2, <1>5, OneRowMove

LEMMA WorkerRowMoves ==
    ASSUME IInv, NEW w \in Workers, WorkerStep(w)
    PROVE  \A r \in Calls : RowMove(r)
<1> DEFINE s == RunOf(w)
           seen == SeenBy(w)
<1>1. workers[w].phase # "idle" =>
        s \in Calls /\ runs[s] \in Run /\ seen \in Snapshot
  BY WorkerFacts
<1>2. CASE Claim(w)
  <2> DEFINE new == [runs[s] EXCEPT !.status = "running", !.owner = w,
                                    !.lease = "live",
                                    !.attempts = seen.attempts + 1,
                                    !.version = seen.version + 1]
  <2>1. /\ runs' = [runs EXCEPT ![s] = new] /\ workers[w].phase = "claiming"
        /\ Unchanged(s, seen)
    BY <1>2 DEF Claim
  <2>2. /\ new.attempts > 0 /\ new.cancel = runs[s].cancel
        /\ new.status = "running" /\ new.version = runs[s].version + 1
    BY <1>1, <2>1 DEF Run, Snapshot, Unchanged
  <2> HIDE DEF new
  <2>3. runs'[s] = new => LeaseMove(s)
    BY <2>1, <2>2 DEF LeaseMove, ClaimedBy
  <2>4. runs'[s] = new => RowMove(s)
    BY <2>2, <2>3 DEF RowMove, Completed
  <2> QED
    BY <1>1, <2>1, <2>4, OneRowMove
<1>3. CASE AnnounceStart(w) \/ Emit(w)
  <2>1. workers[w].phase # "idle"
    BY <1>3 DEF AnnounceStart, Emit, EmitPhases
  <2>2. \/ \E kind \in Kinds : AppendEvent(s, seen, kind)
        \/ UNCHANGED runs
    BY <1>3 DEF AnnounceStart, Emit, store, Kinds
  <2> QED
    BY <1>1, <2>1, <2>2, AppendMove, SameRows
<1>4. CASE Complete(w)
  <2>1. /\ Finish(s, seen, StatusOf(workers[w].mode),
                  workers[w].mode = "action_proposal")
        /\ Stop(w) /\ workers[w].phase = "commit"
    BY <1>4 DEF Complete, SeenBy
  <2>2. workers[w].mode \in Modes
    BY <2>1, WorkerFacts
  <2>3. StatusOf(workers[w].mode) # "cancelled"
    BY <2>2 DEF StatusOf, Modes
  <2> QED
    BY <2>1, <2>3, FinishMove DEF Attends
<1>5. CASE FinishWithoutMessage(w)
  <2>1. workers[w].phase \in {"cancel", "fail"}
    BY <1>5 DEF FinishWithoutMessage
  <2> DEFINE status == IF workers[w].phase = "cancel" THEN "cancelled" ELSE "failed"
  <2>2. \/ UNCHANGED runs
        \/ Finish(s, seen, status, runs[s].proposal) /\ Stop(w)
    BY <1>5 DEF FinishWithoutMessage, store
  <2>3. status \notin Completed /\ (status = "cancelled" => workers[w].phase = "cancel")
    BY DEF Completed
  <2> HIDE DEF status
  <2> QED
    BY <2>1, <2>2, <2>3, FinishMove, SameRows DEF Attends
<1>6. CASE \/ \E r \in Calls : SelectCandidate(w, r)
           \/ ClaimLost(w) \/ StartExecution(w) \/ FindProposal(w)
           \/ Checkpoint(w) \/ WorkRaises(w) \/ Propose(w)
           \/ ReadConversation(w) \/ CompletionLosesRace(w)
  BY <1>6, SameRows DEF SelectCandidate, ClaimLost, StartExecution, FindProposal,
     Checkpoint, WorkRaises, Propose, ReadConversation, CompletionLosesRace, store
<1> QED
  BY <1>2, <1>3, <1>4, <1>5, <1>6 DEF WorkerStep

LEMMA CancelRowMoves ==
    ASSUME IInv, NEW u \in Cancellers, CancelStep(u)
    PROVE  \A r \in Calls : RowMove(r)
<1> DEFINE s == cancels[u].run
           seen == cancels[u].seen
<1>1. CASE WriteCancellation(u)
  <2> DEFINE new == [runs[s] EXCEPT !.cancel = TRUE, !.status = "cancel_requested",
                                    !.version = seen.version + 1]
  <2>1. runs' = [runs EXCEPT ![s] = new]
    BY <1>1 DEF WriteCancellation
  <2>2. s \in Calls /\ runs[s] \in Run
    BY <1>1 DEF WriteCancellation, IInv, TypeInv, TypeOK, LocalsOK
  <2>3. /\ new.attempts = runs[s].attempts /\ new.cancel = TRUE
        /\ new.status = "cancel_requested"
        /\ new.owner = runs[s].owner /\ new.lease = runs[s].lease
    BY <2>2 DEF Run
  <2> HIDE DEF new
  <2>4. runs'[s] = new => RowMove(s)
    BY <2>3 DEF RowMove, LeaseMove, Completed
  <2> QED
    BY <2>1, <2>2, <2>4, OneRowMove
<1>2. CASE AnnounceCancellation(u)
  <2>1. s \in Calls
    BY <1>2 DEF AnnounceCancellation, IInv, Sessions, SessionOK
  <2>2. AppendEvent(s, seen, "run.cancel_requested") \/ UNCHANGED runs
    BY <1>2 DEF AnnounceCancellation, store
  <2> QED
    BY <2>1, <2>2, AppendMove, SameRows
<1>3. CASE (\E r \in Calls : RequestCancellation(u, r)) \/ CancellationLosesRace(u)
  BY <1>3, SameRows DEF RequestCancellation, CancellationLosesRace, store
<1> QED
  BY <1>1, <1>2, <1>3 DEF CancelStep

LEMMA EnvironmentRowMoves ==
    ASSUME IInv, Environment
    PROVE  \A r \in Calls : RowMove(r)
<1>1. ASSUME NEW s \in Calls, NEW lease,
             runs' = [runs EXCEPT ![s] = [@ EXCEPT !.lease = lease]],
             lease = "live" \/ ~Attended(s) \/ stalls' > 0
      PROVE  \A r \in Calls : RowMove(r)
  <2> DEFINE new == [runs[s] EXCEPT !.lease = lease]
  <2>1. /\ new.attempts = runs[s].attempts /\ new.cancel = runs[s].cancel
        /\ new.status = runs[s].status /\ new.owner = runs[s].owner
        /\ new.lease = lease
    BY DEF IInv, TypeInv, TypeOK, Run
  <2>2. runs' = [runs EXCEPT ![s] = new]
    BY <1>1
  <2> HIDE DEF new
  <2>3. runs'[s] = new => RowMove(s)
    BY <1>1, <2>1 DEF RowMove, LeaseMove
  <2> QED
    BY <2>2, <2>3, OneRowMove
<1>2. ASSUME NEW w \in Workers, RenewLease(w)
      PROVE  \A r \in Calls : RowMove(r)
  <2>1. workers[w].phase # "idle"
    BY <1>2 DEF RenewLease, Executing, Follows
  <2>2. RunOf(w) \in Calls
    BY <2>1, WorkerFacts
  <2> QED
    BY <1>1, <1>2, <2>2 DEF RenewLease
<1>3. ASSUME NEW s \in Calls, UnattendedLeaseExpires(s) \/ AttendedLeaseExpires(s)
      PROVE  \A r \in Calls : RowMove(r)
  <2>1. ~Attended(s) \/ stalls' > 0
    BY <1>3 DEF UnattendedLeaseExpires, AttendedLeaseExpires, IInv, TypeInv, TypeOK
  <2>2. runs' = [runs EXCEPT ![s] = [@ EXCEPT !.lease = "expired"]]
    BY <1>3 DEF UnattendedLeaseExpires, AttendedLeaseExpires, LeaseExpires
  <2> QED
    BY <1>1, <2>1, <2>2
<1>4. CASE (\E c \in Calls : Archive(c)) \/ (\E w \in Workers : Crash(w))
  BY <1>4, SameRows DEF Archive, Crash, store
<1> QED
  BY <1>2, <1>3, <1>4 DEF Environment

\* A run that is there is moved by every step as RowMove says.
LEMMA EveryRowMove ==
    ASSUME IInv, [Next]_vars, NEW r \in Calls, Created(r)
    PROVE  RowMove(r)
<1>1. CASE UNCHANGED vars
  BY <1>1, SameRows DEF vars, store
<1>2. ASSUME NEW k \in Calls, CallStep(k)
      PROVE  RowMove(r)
  <2>1. ASSUME NEW c, InsertRun(k, c), KeyFree(KeyOf[k])
        PROVE  RowMove(r)
    <3>1. r # k
      BY <2>1 DEF KeyFree, HolderOf
    <3>2. runs'[r] = runs[r]
      BY <2>1, <3>1, RowSet DEF InsertRun
    <3> QED
      BY <3>2, SameRow
  <2>2. \/ \E c \in Calls \cup {None} : InsertRun(k, c) /\ KeyFree(KeyOf[k])
        \/ UNCHANGED runs
    BY <1>2 DEF CallStep, LookUpKey, ReadForCreate, CreateInNewConversation,
       CreateInConversation, CreateLosesRace, CreateConflicts, store, IInv, TypeInv,
       TypeOK, Call
  <2> QED
    BY <2>1, <2>2, SameRows
<1> QED
  BY <1>1, <1>2, CancelRowMoves, WorkerRowMoves, EnvironmentRowMoves DEF Next

-----------------------------------------------------------------------------
(* What a step does to the phase of a worker.                              *)

\* The phases that a worker goes through while its run is cancelled and has no
\* proposal: at the first checkpoint it turns to the cancellation.
Harmless ==
    {"claiming", "announcing", "starting", "find_proposal", "check_requester",
     "cancel", "fail"}

\* The phases that follow a look for a proposal that found none.
Unproposed == DOMAIN Follows \cup {"propose", "cancel"}

SelectionMove(w) ==
    /\ workers'[w].phase = "claiming" /\ workers'[w].run \in Calls
    /\ Claimable(runs[workers'[w].run])
    /\ UNCHANGED <<runs, proposals>>

ClaimMove(w) ==
    /\ ClaimedBy(w, RunOf(w)) /\ workers'[w].run = RunOf(w)
    /\ workers'[w].phase \in {"announcing", "starting"}
    /\ runs'[RunOf(w)].owner = w /\ runs'[RunOf(w)].lease = "live"

AttendedMove(w) ==
    /\ Attends(w) /\ workers'[w].run = RunOf(w)
    /\ workers'[w].phase \notin {"idle", "claiming"}
    /\ workers[w].phase \in Harmless /\ runs[RunOf(w)].cancel
          /\ proposals[RunOf(w)] = 0 => workers'[w].phase \in Harmless
    /\ workers'[w].phase \in Unproposed =>
          \/ workers[w].phase \in Unproposed \ {"propose"}
          \/ workers[w].phase = "find_proposal" /\ proposals[RunOf(w)] = 0

PhaseMove(w) ==
    \/ workers'[w] = workers[w]
    \/ workers'[w].phase = "idle"
    \/ SelectionMove(w) \/ ClaimMove(w) \/ AttendedMove(w)

LEMMA FollowsPhases ==
    /\ DOMAIN Follows =
         {"check_requester", "emit_access", "check_access", "emit_planning",
          "check_plan", "emit_proposal", "check_proposal", "emit_retrieval",
          "check_results", "emit_answer", "check_answer"}
    /\ CheckPhases \subseteq DOMAIN Follows /\ EmitPhases \subseteq DOMAIN Follows
    /\ EmitPhases \cap Harmless = {}
    /\ CheckPhases \cap Harmless = {"check_requester"}
    /\ \A p \in DOMAIN Follows : \A q \in Follows[p] :
          q \notin {"idle", "claiming"}
<1>1. DOMAIN Follows =
         {"check_requester", "emit_access", "check_access", "emit_planning",
          "check_plan", "emit_proposal", "check_proposal", "emit_retrieval",
          "check_results", "emit_answer", "check_answer"}
  BY DEF Follows
<1>2. /\ CheckPhases \subseteq DOMAIN Follows /\ EmitPhases \subseteq DOMAIN Follows
      /\ EmitPhases \cap Harmless = {}
      /\ CheckPhases \cap Harmless = {"check_requester"}
  BY <1>1 DEF CheckPhases, EmitPhases, Harmless
<1> QED
  BY <1>1, <1>2, FollowsFacts

\* A worker that attends its run and stays with it.
LEMMA OneAttendedMove ==
    ASSUME IInv, NEW w \in Workers, Attends(w), NEW new, Become(w, new),
           new.run = workers[w].run, new.phase \notin {"idle", "claiming"},
           workers[w].phase \in Harmless /\ runs[RunOf(w)].cancel
               /\ proposals[RunOf(w)] = 0 => new.phase \in Harmless,
           new.phase \in Unproposed =>
               \/ workers[w].phase \in Unproposed \ {"propose"}
               \/ workers[w].phase = "find_proposal" /\ proposals[RunOf(w)] = 0
    PROVE  PhaseMove(w)
<1>1. workers'[w] = new
  BY BecomeOnly
<1> QED
  BY <1>1 DEF PhaseMove, AttendedMove, RunOf

LEMMA GoToPhase ==
    ASSUME IInv, NEW w \in Workers, Attends(w), NEW phase, NEW row,
           GoTo(w, phase, row), phase \notin {"idle", "claiming"},
           workers[w].phase \in Harmless /\ runs[RunOf(w)].cancel
               /\ proposals[RunOf(w)] = 0 => phase \in Harmless,
           phase \in Unproposed => workers[w].phase \in Unproposed \ {"propose"}
    PROVE  PhaseMove(w)
<1> DEFINE new == [workers[w] EXCEPT !.phase = phase, !.seen = Seen(row), !.tries = 0]
<1>1. new.phase = phase /\ new.run = workers[w].run /\ Become(w, new)
  BY DEF GoTo, IInv, TypeInv, TypeOK, Worker
<1> HIDE DEF new
<1> QED
  BY <1>1, OneAttendedMove

LEMMA StopPhase ==
    ASSUME IInv, NEW w \in Workers, Stop(w)
    PROVE  PhaseMove(w)
<1>1. workers'[w] = IdleWorker
  BY BecomeOnly DEF Stop
<1> QED
  BY <1>1 DEF PhaseMove, IdleWorker

\* Another turn in the same phase, or in one that is no different here.
LEMMA RetryPhase ==
    ASSUME IInv, NEW w \in Workers, Attends(w), workers[w].phase # "propose",
           NEW again, NEW raised, again \notin {"idle", "claiming"},
           raised \in {"idle", "fail"}, Retry(w, again, raised),
           \/ again = workers[w].phase
           \/ again \notin Unproposed /\ workers[w].phase \notin Harmless
    PROVE  PhaseMove(w)
<1> DEFINE new == [workers[w] EXCEPT !.phase = again, !.seen = Seen(runs[RunOf(w)]),
                                     !.tries = workers[w].tries + 1]
<1>1. new.phase = again /\ new.run = workers[w].run
  BY DEF IInv, TypeInv, TypeOK, Worker
<1>2. GoTo(w, raised, runs[RunOf(w)]) \/ Become(w, new)
  BY DEF Retry
<1> HIDE DEF new
<1>3. CASE Become(w, new)
  BY <1>1, <1>3, OneAttendedMove
<1>4. CASE GoTo(w, raised, runs[RunOf(w)]) /\ raised = "fail"
  BY <1>4, GoToPhase, FollowsPhases DEF Harmless, Unproposed
<1>5. CASE GoTo(w, raised, runs[RunOf(w)]) /\ raised = "idle"
  <2> DEFINE gone == [workers[w] EXCEPT !.phase = raised,
                                        !.seen = Seen(runs[RunOf(w)]), !.tries = 0]
  <2>1. Become(w, gone) /\ gone.phase = "idle"
    BY <1>5 DEF GoTo, IInv, TypeInv, TypeOK, Worker
  <2> HIDE DEF gone
  <2> QED
    BY <2>1, BecomeOnly DEF PhaseMove
<1> QED
  BY <1>2, <1>3, <1>4, <1>5

LEMMA OwnPhase ==
    ASSUME IInv, NEW w \in Workers, WorkerStep(w)
    PROVE  PhaseMove(w)
<1> DEFINE me == workers[w]
           s == RunOf(w)
<1>0. me \in Worker
  BY DEF IInv, TypeInv, TypeOK
<1>1. ASSUME NEW r \in Calls, SelectCandidate(w, r)
      PROVE  PhaseMove(w)
  <2> DEFINE new == [IdleWorker EXCEPT !.phase = "claiming", !.run = r,
                                       !.seen = Seen(runs[r])]
  <2>1. /\ Become(w, new) /\ new.phase = "claiming" /\ new.run = r
        /\ Claimable(runs[r]) /\ UNCHANGED <<runs, proposals>>
    BY <1>1 DEF SelectCandidate, IdleWorker, store
  <2> HIDE DEF new
  <2>2. workers'[w] = new
    BY <2>1, BecomeOnly
  <2> QED
    BY <2>1, <2>2 DEF PhaseMove, SelectionMove
<1>2. CASE Claim(w)
  <2> DEFINE row == [runs[s] EXCEPT !.status = "running", !.owner = w,
                                    !.lease = "live",
                                    !.attempts = SeenBy(w).attempts + 1,
                                    !.version = SeenBy(w).version + 1]
  <2>1. /\ me.phase = "claiming" /\ Unchanged(s, SeenBy(w))
        /\ runs' = [runs EXCEPT ![s] = row]
    BY <1>2 DEF Claim
  <2>2. s \in Calls /\ runs[s] \in Run
    BY <2>1, WorkerFacts
  <2>3. /\ row.owner = w /\ row.lease = "live"
        /\ row.version = runs[s].version + 1
    BY <2>1, <2>2 DEF Run, Unchanged
  <2> HIDE DEF row
  <2>4. runs'[s] = row
    BY <2>1, <2>2, RowSet
  <2>5. PICK phase \in {"announcing", "starting"} : GoTo(w, phase, runs'[s])
    BY <1>2 DEF Claim, AfterClaim
  <2> DEFINE new == [me EXCEPT !.phase = phase, !.seen = Seen(row), !.tries = 0]
  <2>6. Become(w, new) /\ new.phase = phase /\ new.run = s
    BY <1>0, <2>4, <2>5 DEF GoTo, Worker, RunOf
  <2> HIDE DEF new
  <2>7. workers'[w] = new
    BY <2>6, BecomeOnly
  <2> QED
    BY <2>1, <2>3, <2>4, <2>6, <2>7 DEF PhaseMove, ClaimMove, ClaimedBy
<1>3. CASE AnnounceStart(w)
  <2>1. me.phase = "announcing"
    BY <1>3 DEF AnnounceStart
  <2>2. \/ GoTo(w, "starting", runs'[s])
        \/ Stop(w) \/ Retry(w, "announcing", "idle")
    BY <1>3 DEF AnnounceStart
  <2> QED
    BY <2>1, <2>2, RetryPhase, GoToPhase, StopPhase, FollowsPhases
       DEF Attends, Harmless, Unproposed
<1>4. CASE StartExecution(w)
  <2>1. /\ me.phase = "starting"
        /\ Stop(w) \/ GoTo(w, "find_proposal", runs[s])
    BY <1>4 DEF StartExecution
  <2> QED
    BY <2>1, GoToPhase, StopPhase, FollowsPhases DEF Attends, Harmless, Unproposed
<1>5. CASE FindProposal(w)
  <2> DEFINE one == [me EXCEPT !.phase = "complete", !.mode = "action_proposal"]
             two == [me EXCEPT !.phase = "check_requester"]
  <2>1. /\ one.phase = "complete" /\ one.run = me.run
        /\ two.phase = "check_requester" /\ two.run = me.run
    BY <1>0 DEF Worker
  <2>2. /\ me.phase = "find_proposal" /\ proposals[s] \in Nat
        /\ \/ proposals[s] > 0 /\ Become(w, one)
           \/ ~(proposals[s] > 0) /\ Become(w, two)
    <3>1. me.phase = "find_proposal"
      BY <1>5 DEF FindProposal
    <3>2. proposals[s] \in Nat
      BY <3>1, WorkerFacts DEF IInv, TypeInv, TypeOK
    <3> QED
      BY <1>5, <3>1, <3>2 DEF FindProposal
  <2> HIDE DEF one, two
  <2>3. CASE proposals[s] > 0 /\ Become(w, one)
    BY <2>1, <2>2, <2>3, OneAttendedMove, FollowsPhases DEF Attends, Unproposed
  <2>4. CASE ~(proposals[s] > 0) /\ Become(w, two)
    <3>1. proposals[s] = 0
      BY <2>2, <2>4
    <3> QED
      BY <2>1, <2>2, <2>4, <3>1, OneAttendedMove DEF Attends, Harmless
  <2> QED
    BY <2>2, <2>3, <2>4
<1>6. CASE Checkpoint(w)
  <2>1. me.phase \in CheckPhases
    BY <1>6 DEF Checkpoint
  <2>2. /\ me.phase \in Unproposed \ {"propose"} /\ Attends(w)
        /\ me.phase \in Harmless => me.phase = "check_requester"
    BY <2>1, FollowsPhases DEF Attends, Unproposed
  <2>3. CASE GoTo(w, "cancel", runs[s])
    BY <2>2, <2>3, GoToPhase DEF Harmless
  <2>4. ASSUME ~runs[s].cancel, NEW next \in Follows[me.phase],
               Become(w, [me EXCEPT
                   !.phase = next,
                   !.mode = IF next = "complete" THEN ModeOf(me.phase) ELSE @])
        PROVE  PhaseMove(w)
    <3> DEFINE mode == IF next = "complete" THEN ModeOf(me.phase) ELSE me.mode
               new == [me EXCEPT !.phase = next, !.mode = mode]
    <3>1. next \notin {"idle", "claiming"}
      BY <2>1, FollowsPhases
    <3>2. Become(w, new) /\ new.phase = next /\ new.run = me.run
      BY <1>0, <2>4 DEF Worker
    <3> HIDE DEF new
    <3> QED
      BY <2>2, <2>4, <3>1, <3>2, OneAttendedMove
  <2> QED
    BY <1>6, <2>3, <2>4 DEF Checkpoint
<1>7. CASE WorkRaises(w)
  <2>1. /\ me.phase \in CheckPhases \cup {"propose"}
        /\ GoTo(w, "fail", runs[s])
    BY <1>7 DEF WorkRaises, Raise
  <2> QED
    BY <2>1, GoToPhase, FollowsPhases DEF Attends, Harmless, Unproposed
<1>8. CASE Emit(w)
  <2>1. me.phase \in EmitPhases
    BY <1>8 DEF Emit
  <2>2. me.phase \in Unproposed \ {"propose"} /\ Attends(w) /\ me.phase \notin Harmless
    BY <2>1, FollowsPhases DEF Attends, Unproposed
  <2>3. CASE Retry(w, me.phase, "fail")
    BY <2>2, <2>3, RetryPhase DEF Attends
  <2>4. ASSUME NEW next \in Follows[me.phase], GoTo(w, next, runs'[s])
        PROVE  PhaseMove(w)
    BY <2>1, <2>2, <2>4, GoToPhase, FollowsPhases
  <2> QED
    BY <1>8, <2>3, <2>4 DEF Emit
<1>9. CASE Propose(w)
  <2> DEFINE new == [me EXCEPT !.phase = "complete", !.mode = "action_proposal"]
  <2>1. new.phase = "complete" /\ new.run = me.run
    BY <1>0 DEF Worker
  <2>2. me.phase = "propose" /\ (Become(w, new) \/ GoTo(w, "fail", runs[s]))
    BY <1>9 DEF Propose, Raise
  <2> HIDE DEF new
  <2> QED
    BY <2>1, <2>2, OneAttendedMove, GoToPhase, FollowsPhases
       DEF Attends, Harmless, Unproposed
<1>10. CASE ReadConversation(w)
  <2> DEFINE new == [me EXCEPT !.phase = "commit",
                               !.conv = SeenConv(convs[runs[s].conv])]
  <2>1. /\ Become(w, new) /\ me.phase = "complete"
        /\ new.phase = "commit" /\ new.run = me.run
    BY <1>0, <1>10 DEF ReadConversation, Worker
  <2> HIDE DEF new
  <2> QED
    BY <2>1, OneAttendedMove, FollowsPhases DEF Attends, Harmless, Unproposed
<1>11. CASE CompletionLosesRace(w)
  <2>1. me.phase = "commit" /\ Retry(w, "complete", "fail")
    BY <1>11 DEF CompletionLosesRace
  <2> QED
    BY <2>1, RetryPhase, FollowsPhases DEF Attends, Harmless, Unproposed
<1>12. CASE FinishWithoutMessage(w)
  <2>1. /\ me.phase \in {"cancel", "fail"}
        /\ Stop(w) \/ Retry(w, me.phase, "idle")
    BY <1>12 DEF FinishWithoutMessage
  <2> QED
    BY <2>1, RetryPhase, StopPhase DEF Attends
<1>13. CASE ClaimLost(w) \/ Complete(w)
  BY <1>13, StopPhase DEF ClaimLost, Complete
<1> QED
  BY <1>1, <1>2, <1>3, <1>4, <1>5, <1>6, <1>7, <1>8, <1>9, <1>10, <1>11, <1>12,
     <1>13 DEF WorkerStep


LEMMA EveryPhaseMove ==
    ASSUME IInv, [Next]_vars
    PROVE  \A w \in Workers : PhaseMove(w)
<1>1. CASE UNCHANGED workers
  BY <1>1 DEF PhaseMove
<1>2. ASSUME NEW v \in Workers, WorkerStep(v) \/ Crash(v), NEW w \in Workers
      PROVE  PhaseMove(w)
  <2>1. PhaseMove(v)
    BY <1>2, OwnPhase, StopPhase DEF Crash
  <2>2. \E new : Become(v, new)
    BY <1>2 DEF Crash, Stop, WorkerStep, SelectCandidate, Claim, ClaimLost,
       AnnounceStart, StartExecution, FindProposal, Checkpoint, WorkRaises, Raise,
       Emit, Propose, ReadConversation, Complete, CompletionLosesRace,
       FinishWithoutMessage, GoTo, Retry
  <2>3. w # v => workers'[w] = workers[w]
    BY <2>2, BecomeOnly
  <2> QED
    BY <2>1, <2>3 DEF PhaseMove
<1>3. ASSUME NEW k \in Calls, CallStep(k) PROVE UNCHANGED workers
  BY <1>3 DEF CallStep, LookUpKey, ReadForCreate, CreateInNewConversation,
     CreateInConversation, CreateLosesRace, CreateConflicts
<1>4. ASSUME NEW u \in Cancellers, CancelStep(u) PROVE UNCHANGED workers
  BY <1>4 DEF CancelStep, RequestCancellation, WriteCancellation,
     CancellationLosesRace, AnnounceCancellation
<1>5. CASE Environment
  BY <1>1, <1>2, <1>5 DEF Environment, RenewLease, UnattendedLeaseExpires,
     AttendedLeaseExpires, LeaseExpires, Archive
<1> QED
  BY <1>1, <1>2, <1>3, <1>4, <1>5 DEF Next, vars

\* A proposal is committed by a worker that attends the run, and leads it on.
LEMMA ProposerMoves ==
    ASSUME IInv, NEW w \in Workers, Propose(w)
    PROVE  /\ workers[w].phase = "propose"
           /\ workers'[w].phase \in {"complete", "fail"}
<1> DEFINE one == [workers[w] EXCEPT !.phase = "complete", !.mode = "action_proposal"]
           two == [workers[w] EXCEPT !.phase = "fail", !.seen = Seen(runs[RunOf(w)]),
                                     !.tries = 0]
<1>1. one.phase = "complete" /\ two.phase = "fail"
  BY DEF IInv, TypeInv, TypeOK, Worker
<1>2. workers[w].phase = "propose" /\ (Become(w, one) \/ Become(w, two))
  BY DEF Propose, Raise, GoTo
<1> HIDE DEF one, two
<1> QED
  BY <1>1, <1>2, BecomeOnly

-----------------------------------------------------------------------------
(* A run that is cancelled before it is claimed.                           *)

\* Whoever has done anything for a run was counted as an attempt.
Attempted ==
    /\ \A w \in Workers : Attends(w) => runs[RunOf(w)].attempts > 0
    /\ \A r \in Calls :
          proposals[r] > 0 \/ runs[r].status \in Completed =>
              Created(r) /\ runs[r].attempts > 0
    /\ \A r \in Calls : runs[r].cancel => Created(r)

\* The run has done nothing, and no worker is where it could do anything.
Quiet(r) ==
    /\ runs[r].cancel /\ Created(r)
    /\ proposals[r] = 0 /\ runs[r].status \notin Completed
    /\ \A w \in Workers :
          workers[w].phase # "idle" /\ RunOf(w) = r => workers[w].phase \in Harmless

AInv == TablesInv /\ Attempted

LEMMA AttemptedStep ==
    ASSUME AInv, [Next]_vars
    PROVE  Attempted'
<1>0. IInv /\ RunsStep /\ proposals \in [Calls -> Nat]
  BY EveryTablesStep DEF AInv, TablesInv, CInv, TablesStep, IInv, TypeInv, TypeOK
<1>1. ASSUME NEW w \in Workers, workers'[w].phase \notin {"idle", "claiming"}
      PROVE  runs'[workers'[w].run].attempts > 0
  <2> DEFINE r == workers[w].run
  <2>1. ExecutionMove(w)
    BY <1>0, EveryExecutionMove
  <2>2. workers'[w].run = r /\ workers[w].phase # "idle"
    BY <1>1, <2>1 DEF ExecutionMove
  <2>3. r \in Calls /\ RowMove(r)
    BY <1>0, <2>2, WorkerFacts, EveryRowMove DEF RunOf
  <2>4. CASE workers[w].phase = "claiming"
    BY <1>1, <2>1, <2>2, <2>4 DEF ExecutionMove
  <2>5. CASE workers[w].phase # "claiming"
    BY <2>2, <2>3, <2>5 DEF AInv, Attempted, Attends, RunOf, RowMove
  <2> QED
    BY <2>4, <2>5
<1>2. ASSUME NEW r \in Calls, proposals'[r] > 0 \/ runs'[r].status \in Completed
      PROVE  runs'[r].status # "absent" /\ runs'[r].attempts > 0
  <2>1. CASE Created(r) /\ runs[r].attempts > 0
    BY <1>0, <2>1, CreatedForever, EveryRowMove DEF RowMove
  <2>2. ASSUME NEW w \in Workers, Attends(w), RunOf(w) = r
        PROVE  Created(r) /\ runs[r].attempts > 0
    BY <1>0, <2>2, WorkerFacts DEF AInv, Attempted, Attends
  <2>3. CASE proposals'[r] > 0
    <3>1. proposals[r] > 0 \/ \E w \in Workers : RunOf(w) = r /\ Attends(w)
      BY <1>0, <2>3, ProposalMove, ProposerMoves DEF Attends
    <3> QED
      BY <2>1, <2>2, <3>1 DEF AInv, Attempted
  <2>4. CASE runs'[r].status \in Completed
    <3>1. Created(r)
      BY <1>0, <2>4, EveryRunStep DEF RunStep, RunChanged, Shown, RunAccepted,
         RunRestated, RunReported, RunClosed, Created, Claimed, Completed,
         ActiveStatuses
    <3>2. \/ runs[r].status \in Completed
          \/ \E w \in Workers : RunOf(w) = r /\ Attends(w)
      BY <1>0, <2>4, <3>1, EveryRowMove DEF RowMove, Attends
    <3> QED
      BY <2>1, <2>2, <3>2 DEF AInv, Attempted
  <2> QED
    BY <1>2, <2>3, <2>4
<1>3. ASSUME NEW r \in Calls, runs'[r].cancel
      PROVE  runs'[r].status # "absent"
  <2>1. CASE Created(r)
    BY <1>0, <2>1, CreatedForever
  <2>2. CASE ~Created(r)
    <3>1. RowStep(r) /\ ~runs[r].cancel /\ runs[r].status = "absent"
      BY <1>0, <2>2, EveryRowStep DEF AInv, Attempted, Created
    <3> QED
      BY <1>3, <3>1 DEF RowStep, RowQuiet, RowKept, RowWritten, RowInserted,
         ActiveStatuses
  <2> QED
    BY <2>1, <2>2
<1> QED
  BY <1>1, <1>2, <1>3 DEF Attempted, Attends, RunOf, Created

LEMMA QuietStep ==
    ASSUME AInv, [Next]_vars, NEW r \in Calls, Quiet(r)
    PROVE  Quiet(r)'
<1>0. IInv /\ RowMove(r)
  BY EveryRowMove DEF AInv, TablesInv, CInv, Quiet
<1>1. runs'[r].cancel /\ runs'[r].status # "absent"
  BY <1>0, CreatedForever DEF Quiet, RowMove
<1>2. ASSUME NEW w \in Workers, RunOf(w) = r,
             workers[w].phase \in {"propose", "commit"}
      PROVE  FALSE
  BY <1>2 DEF Quiet, Harmless
<1>3. proposals'[r] = 0
  BY <1>0, <1>2, ProposalMove, ProposerMoves DEF Quiet
<1>4. runs'[r].status \notin Completed
  BY <1>0, <1>2 DEF Quiet, RowMove
<1>5. ASSUME NEW w \in Workers, workers'[w].phase # "idle", workers'[w].run = r
      PROVE  workers'[w].phase \in Harmless
  <2>1. PhaseMove(w)
    BY <1>0, EveryPhaseMove
  <2>2. CASE workers'[w] = workers[w]
    BY <1>5, <2>2 DEF Quiet, RunOf
  <2>3. CASE SelectionMove(w) \/ ClaimMove(w)
    BY <2>3 DEF SelectionMove, ClaimMove, Harmless
  <2>4. CASE AttendedMove(w)
    BY <1>5, <2>4 DEF AttendedMove, Attends, Quiet, RunOf
  <2> QED
    BY <1>5, <2>1, <2>2, <2>3, <2>4 DEF PhaseMove
<1> QED
  BY <1>1, <1>3, <1>4, <1>5 DEF Quiet, Created, RunOf

LEMMA AttemptsHold == Spec => []AInv
<1>1. Init => Attempted
  BY DEF Init, Attempted, Attends, IdleWorker, AbsentRun, Completed
<1>2. TablesInv /\ Attempted /\ [Next]_vars => Attempted'
  BY AttemptedStep DEF AInv
<1>3. AInv <=> TablesInv /\ Attempted
  BY DEF AInv
<1> QED
  BY <1>1, <1>2, <1>3, TablesHold, PTL DEF Spec

\* A run that is cancelled before any worker has claimed it never proposes or
\* completes anything: a claim overwrites the status but not the time of the
\* request, and the first checkpoint, which every execution reaches with no
\* proposal found, reads that column.
THEOREM CancelledInTime == Spec => CancelledBeforeClaim
<1> SUFFICES ASSUME NEW r \in Calls
             PROVE  Spec => [](runs[r].cancel /\ runs[r].attempts = 0
                       => [](proposals[r] = 0 /\ runs[r].status \notin Completed))
  BY DEF CancelledBeforeClaim
<1>1. AInv /\ runs[r].cancel /\ runs[r].attempts = 0 => Quiet(r)
  <2> SUFFICES ASSUME AInv, runs[r].cancel, runs[r].attempts = 0
               PROVE  Quiet(r)
    OBVIOUS
  <2>1. proposals[r] = 0 /\ runs[r].status \notin Completed
    BY DEF AInv, Attempted, TablesInv, CInv, IInv, TypeInv, TypeOK
  <2>2. Created(r)
    BY DEF AInv, Attempted
  <2>3. \A w \in Workers :
          workers[w].phase # "idle" /\ RunOf(w) = r => workers[w].phase = "claiming"
    BY DEF AInv, Attempted, Attends
  <2> QED
    BY <2>1, <2>2, <2>3 DEF Quiet, Harmless
<1>2. AInv /\ Quiet(r) /\ [Next]_vars => Quiet(r)'
  BY QuietStep
<1>3. Quiet(r) => proposals[r] = 0 /\ runs[r].status \notin Completed
  BY DEF Quiet
<1> QED
  BY <1>1, <1>2, <1>3, AttemptsHold, PTL DEF Spec


-----------------------------------------------------------------------------
(* Cancelled runs without a proposal.                                      *)

\* A run is executed by the worker that holds its lease, and a candidate whose
\* version is still the one read is executed by nobody.
Alone ==
    /\ \A w \in Workers : Attends(w) =>
          runs[RunOf(w)].owner = w /\ runs[RunOf(w)].lease = "live"
    /\ \A v, w \in Workers :
          workers[v].phase = "claiming" /\ Unchanged(RunOf(v), SeenBy(v)) /\ Attends(w)
              => RunOf(w) # RunOf(v)

\* Nothing was proposed for a run on its way to a proposal or a cancellation.
Bare ==
    /\ \A w \in Workers :
          workers[w].phase \in Unproposed => proposals[RunOf(w)] = 0
    /\ \A r \in Calls : runs[r].status = "cancelled" => proposals[r] = 0

\* Once a lease has lapsed under its owner, two workers may execute one run.
LeasesHold == stalls = 0 => Alone /\ Bare

LEMMA StallsGrow ==
    ASSUME [Next]_vars
    PROVE  stalls' = stalls \/ stalls' = stalls + 1
<1>1. ASSUME NEW k \in Calls, CallStep(k) PROVE UNCHANGED stalls
  BY <1>1 DEF CallStep, LookUpKey, ReadForCreate, CreateInNewConversation,
     CreateInConversation, CreateLosesRace, CreateConflicts
<1>2. ASSUME NEW u \in Cancellers, CancelStep(u) PROVE UNCHANGED stalls
  BY <1>2 DEF CancelStep, RequestCancellation, WriteCancellation,
     CancellationLosesRace, AnnounceCancellation
<1>3. ASSUME NEW w \in Workers, WorkerStep(w) PROVE UNCHANGED stalls
  BY <1>3 DEF WorkerStep, SelectCandidate, Claim, ClaimLost, AnnounceStart,
     StartExecution, FindProposal, Checkpoint, WorkRaises, Emit, Propose,
     ReadConversation, Complete, CompletionLosesRace, FinishWithoutMessage
<1>4. CASE Environment
  BY <1>4 DEF Environment, RenewLease, UnattendedLeaseExpires,
     AttendedLeaseExpires, Archive, Crash
<1> QED
  BY <1>1, <1>2, <1>3, <1>4 DEF Next, vars

LEMMA AloneStep ==
    ASSUME IInv, Claims, [Next]_vars, Alone, stalls' = 0
    PROVE  Alone'
<1>1. ASSUME NEW w \in Workers, Attends(w), workers'[w].phase # "idle"
      PROVE  runs'[RunOf(w)].owner = w /\ runs'[RunOf(w)].lease = "live"
  <2> DEFINE r == RunOf(w)
  <2>1. r \in Calls /\ RowMove(r)
    BY <1>1, WorkerFacts, EveryRowMove DEF Attends
  <2>2. runs[r].owner = w /\ runs[r].lease = "live"
    BY <1>1 DEF Alone
  <2>3. Attended(r)
    BY <1>1, <2>2 DEF Attended, Attends, RunOf
  <2>4. ~ \E v \in Workers : ClaimedBy(v, r)
    BY <1>1 DEF Alone, ClaimedBy
  <2>5. ~ \E v \in Workers : StoppedBy(v, r)
    BY <1>1, <2>2 DEF Alone, StoppedBy
  <2> QED
    BY <2>1, <2>2, <2>3, <2>4, <2>5 DEF RowMove, LeaseMove
<1>2. ASSUME NEW w \in Workers, workers'[w].phase \notin {"idle", "claiming"}
      PROVE  \/ Attends(w) /\ workers'[w].run = RunOf(w)
             \/ ClaimMove(w)
  BY <1>2, EveryPhaseMove DEF PhaseMove, SelectionMove, AttendedMove, Attends, RunOf
<1>3. ASSUME NEW w \in Workers, workers'[w].phase \notin {"idle", "claiming"}
      PROVE  /\ runs'[workers'[w].run].owner = w
             /\ runs'[workers'[w].run].lease = "live"
  BY <1>1, <1>2, <1>3 DEF ClaimMove
<1>4. ASSUME NEW v \in Workers, NEW w \in Workers,
             workers'[v].phase = "claiming",
             runs'[workers'[v].run].version = workers'[v].seen.version,
             workers'[w].phase \notin {"idle", "claiming"},
             workers'[w].run = workers'[v].run
      PROVE  FALSE
  <2> DEFINE r == workers'[w].run
  <2>0. r \in Calls /\ Created(r) /\ RowStep(r) /\ runs[r].version \in Nat
    BY <1>2, <1>4, WorkerFacts, EveryRowStep
       DEF ClaimMove, ClaimedBy, Attends, Run, RunOf
  <2>1. CASE SelectionMove(v)
    <3>1. Attends(w) /\ RunOf(w) = r
      BY <1>2, <1>4, <2>0, <2>1 DEF ClaimMove, ClaimedBy, SelectionMove
    <3>2. runs[r].owner = w /\ runs[r].lease = "live" /\ runs[r].status # "queued"
      BY <3>1 DEF Alone, Claims, Attends, RunOf
    <3>3. Claimable(runs[r])
      BY <1>4, <2>1 DEF SelectionMove
    <3> QED
      BY <3>2, <3>3, CallsAssumption DEF Claimable
  <2>2. CASE workers'[v] = workers[v]
    <3>1. SessionOK(r, workers[v].seen) /\ workers[v].seen.version \in Nat
      BY <1>4, <2>2, WorkerFacts DEF IInv, Sessions, SeenBy, Snapshot
    <3>2. runs'[r].version = runs[r].version /\ Unchanged(r, SeenBy(v))
      BY <1>4, <2>0, <2>2, <3>1 DEF SessionOK, RowStep, RowQuiet, RowKept, RowWritten,
         RowInserted, Created, Seen, Unchanged, SeenBy
    <3>3. Attends(w) /\ RunOf(w) = r
      BY <1>2, <1>4, <2>0, <3>2 DEF ClaimMove, ClaimedBy
    <3> QED
      BY <1>4, <2>2, <3>2, <3>3 DEF Alone, RunOf
  <2> QED
    BY <1>4, <2>1, <2>2, EveryPhaseMove
       DEF PhaseMove, ClaimMove, AttendedMove
<1> QED
  BY <1>3, <1>4 DEF Alone, Attends, Unchanged, RunOf, SeenBy

LEMMA BareStep ==
    ASSUME TablesInv, [Next]_vars, Alone, Bare
    PROVE  Bare'
<1>0. IInv /\ RunsStep
  BY EveryTablesStep DEF TablesInv, CInv, TablesStep
<1>1. ASSUME NEW r \in Calls, NEW v \in Workers, NEW w \in Workers,
             RunOf(v) = r, Propose(v), RunOf(w) = r, Attends(w)
      PROVE  v = w
  BY <1>1, <1>0, ProposerMoves DEF Alone, Attends
<1>2. ASSUME NEW w \in Workers, workers'[w].phase \in Unproposed
      PROVE  proposals'[workers'[w].run] = 0
  <2> DEFINE r == RunOf(w)
  <2>1. workers'[w].phase \notin {"idle", "claiming", "announcing", "starting"}
    BY <1>2, FollowsPhases DEF Unproposed
  <2>2. \/ workers'[w] = workers[w]
        \/ AttendedMove(w)
    BY <1>0, <2>1, EveryPhaseMove DEF PhaseMove, SelectionMove, ClaimMove
  <2>3. /\ Attends(w) /\ workers'[w].run = r /\ proposals[r] = 0
    BY <1>2, <2>1, <2>2 DEF AttendedMove, Attends, Bare, RunOf
  <2>4. r \in Calls
    BY <1>0, <2>3, WorkerFacts DEF Attends
  <2>5. ~ \E v \in Workers : RunOf(v) = r /\ Propose(v)
    BY <1>0, <1>1, <1>2, <2>3, <2>4, ProposerMoves, FollowsPhases DEF Unproposed
  <2> QED
    BY <1>0, <2>3, <2>4, <2>5, ProposalMove
<1>3. ASSUME NEW r \in Calls, runs'[r].status = "cancelled"
      PROVE  proposals'[r] = 0
  <2>1. Created(r)
    BY <1>0, <1>3, EveryRunStep DEF RunStep, RunChanged, Shown, RunAccepted,
       RunRestated, RunReported, RunClosed, Created, Claimed
  <2>2. CASE runs[r].status = "cancelled"
    <3>1. runs[r].owner = None
      BY <1>0, <2>2 DEF IInv, Rows, RowOK, TerminalStatuses
    <3>2. ~ \E v \in Workers : RunOf(v) = r /\ Propose(v)
      BY <1>0, <3>1, ProposerMoves, CallsAssumption DEF Alone, Attends
    <3> QED
      BY <1>0, <2>2, <3>2, ProposalMove DEF Bare
  <2>3. ASSUME NEW w \in Workers, RunOf(w) = r, workers[w].phase = "cancel"
        PROVE  proposals'[r] = 0
    <3>1. proposals[r] = 0 /\ Attends(w)
      BY <2>3 DEF Bare, Unproposed, Attends
    <3>2. ~ \E v \in Workers : RunOf(v) = r /\ Propose(v)
      BY <1>0, <1>1, <2>3, <3>1, ProposerMoves
    <3> QED
      BY <1>0, <3>1, <3>2, ProposalMove
  <2> QED
    BY <1>0, <1>3, <2>1, <2>2, <2>3, EveryRowMove DEF RowMove
<1> QED
  BY <1>2, <1>3 DEF Bare, RunOf

\* While no lease lapses under a worker that still executes, no cancelled run
\* has a proposal: one worker at a time executes a run, and between its look
\* for a proposal and its last checkpoint nobody else commits one.
THEOREM NothingIsLeftBehind == Spec => []CancelledWithoutProposal
<1>1. Init => LeasesHold
  BY DEF Init, LeasesHold, Alone, Bare, Attends, Unproposed, Follows, IdleWorker,
     AbsentRun
<1>2. ASSUME TablesInv, LeasesHold, [Next]_vars
      PROVE  LeasesHold'
  <2> SUFFICES ASSUME stalls' = 0 PROVE (Alone /\ Bare)'
    BY DEF LeasesHold
  <2>1. IInv /\ Claims /\ stalls \in Nat
    BY <1>2, BoundsAssumption DEF TablesInv, CInv, IInv, TypeInv, TypeOK
  <2>2. stalls = 0
    BY <1>2, <2>1, StallsGrow
  <2> QED
    BY <1>2, <2>1, <2>2, AloneStep, BareStep DEF LeasesHold
<1>3. LeasesHold => CancelledWithoutProposal
  BY DEF LeasesHold, Bare, CancelledWithoutProposal
<1>4. TablesInv /\ LeasesHold /\ [Next]_vars => LeasesHold'
  BY <1>2
<1> QED
  BY <1>1, <1>3, <1>4, TablesHold, PTL DEF Spec

=============================================================================
