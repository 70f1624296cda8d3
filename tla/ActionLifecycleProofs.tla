------------------------ MODULE ActionLifecycleProofs ------------------------
(* Theorems about ActionLifecycle, for every value of its constants: with   *)
(* and without row locks, for any requests, drifts and crashes.             *)
EXTENDS ActionLifecycle, FiniteSetTheorems, TLAPS

-----------------------------------------------------------------------------
(* Types.  TypeOK is not inductive alone: a request that has arrived knows  *)
(* its proposal, and only a request of the right kind reaches each phase.   *)

Verdicts == {"approved", "rejected"}
Endings == {"succeeded", "reconciliation_required"}
ExecutePhases == {"check", "consent", "prepare", "drift", "outdate", "excuse",
                  "begin", "start", "rival", "announce", "apply", "mark"}

Post(c, s) ==
    /\ s.at \notin {"idle", "done"} => s.on \in Proposals
    /\ s.at = "look" => c \in Reconcilers
    /\ s.at \in {"expire", "reread"} =>
          /\ c \notin Replayers
          /\ c \in Deciders => s.aim \in Verdicts
    /\ s.at \in {"decide", "write"} =>
          c \in Deciders /\ MayDecide(c) /\ s.aim \in Verdicts
    /\ s.at \in ExecutePhases => c \in Executors
    /\ s.at \in {"tally", "save", "conclude"} => s.aim \in Endings
    /\ s.at \in {"replay", "record"} => c \in Replayers

SessionsOK ==
    /\ sessions \in [Sessions -> Session]
    /\ \A c \in Sessions : Post(c, sessions[c])

TypeInv == TypeOK /\ SessionsOK

LEMMA IdleTyped == Idle \in Session
  BY DEF Idle, Session, Phases, Statuses, Open, Closed

LEMMA BecomeTyped ==
    ASSUME SessionsOK, NEW c \in Sessions, NEW new \in Session,
           Post(c, new), Become(c, new)
    PROVE  SessionsOK'
<1>1. CASE new.at = "done"
  <2> DEFINE ended == [Idle EXCEPT !.at = "done", !.on = new.on, !.reply = new.reply]
  <2>1. ended \in Session /\ ended.at = "done"
    BY IdleTyped, ZenonT(40) DEF Session, Phases, Idle
  <2>2. sessions' = [sessions EXCEPT ![c] = ended]
    BY <1>1 DEF Become
  <2>3. Post(c, ended)
    BY <2>1 DEF Post, ExecutePhases
  <2> HIDE DEF ended
  <2> QED
    BY <2>1, <2>2, <2>3 DEF SessionsOK
<1>2. CASE new.at # "done"
  <2>1. sessions' = [sessions EXCEPT ![c] = new]
    BY <1>2 DEF Become
  <2> QED
    BY <2>1 DEF SessionsOK
<1> QED
  BY <1>1, <1>2

LEMMA GotoTyped ==
    ASSUME SessionsOK, NEW c \in Sessions, NEW phase \in Phases,
           Post(c, [sessions[c] EXCEPT !.at = phase]), Goto(c, phase)
    PROVE  SessionsOK'
<1> DEFINE new == [sessions[c] EXCEPT !.at = phase]
<1>1. new \in Session
  BY DEF SessionsOK, Session
<1> QED
  BY <1>1, BecomeTyped DEF Goto

LEMMA FinishTyped ==
    ASSUME SessionsOK, NEW c \in Sessions, NEW reply \in Outcomes \cup {"none"},
           Finish(c, reply)
    PROVE  SessionsOK'
<1> DEFINE new == [sessions[c] EXCEPT !.at = "done", !.reply = reply]
<1>1. new \in Session /\ new.at = "done"
  BY ZenonT(40) DEF SessionsOK, Session, Phases
<1>2. Post(c, new)
  BY <1>1 DEF Post, ExecutePhases
<1> QED
  BY <1>1, <1>2, BecomeTyped DEF Finish

LEMMA AimTyped ==
    ASSUME SessionsOK, NEW c \in Sessions, NEW outcome \in Endings,
           On(c) \in Proposals, Aim(c, outcome)
    PROVE  SessionsOK'
<1> DEFINE new == [sessions[c] EXCEPT !.aim = outcome, !.at = "tally"]
<1>1. new \in Session
  <2>1. sessions[c] \in Session
    BY DEF SessionsOK
  <2>2. outcome \in Statuses /\ "tally" \in Phases
    BY DEF Endings, Statuses, Closed, Phases
  <2> QED
    BY <2>1, <2>2 DEF Session
<1>2. Post(c, new)
  BY DEF Post, ExecutePhases, SessionsOK, Session, On
<1> QED
  BY <1>1, <1>2, BecomeTyped DEF Aim

\* What a request does after it has read its proposal.
LEMMA JudgeTyped ==
    ASSUME SessionsOK, NEW c \in Sessions \ Replayers, NEW p \in Proposals,
           NEW status, NEW s \in Session, s.on = p,
           c \in Deciders => s.aim \in Verdicts, s.at = Judge(c, status)
    PROVE  Post(c, s)
<1>1. CASE c \in Deciders
  BY <1>1 DEF Judge, Post, ExecutePhases
<1>2. CASE c \in Cancellers
  BY <1>2, RolesAssumption DEF Judge, Post, ExecutePhases
<1>3. CASE c \in Executors
  BY <1>3, RolesAssumption DEF Judge, Post, ExecutePhases
<1>4. CASE c \in Reconcilers
  BY <1>4, RolesAssumption DEF Judge, Post, ExecutePhases
<1> QED
  BY <1>1, <1>2, <1>3, <1>4 DEF Sessions

LEMMA JudgeIsPhase ==
    ASSUME NEW c \in Sessions \ Replayers, NEW status
    PROVE  Judge(c, status) \in Phases
<1>1. CASE c \in Deciders
  BY <1>1 DEF Judge, Phases
<1>2. CASE c \in Cancellers
  BY <1>2, RolesAssumption DEF Judge, Phases
<1>3. CASE c \in Executors
  BY <1>3, RolesAssumption DEF Judge, Phases
<1>4. CASE c \in Reconcilers
  BY <1>4, RolesAssumption DEF Judge, Phases
<1> QED
  BY <1>1, <1>2, <1>3, <1>4 DEF Sessions

LEMMA LookSessions ==
    ASSUME TypeInv, NEW c \in Sessions, NEW p \in Proposals, Look(c, p)
    PROVE  SessionsOK'
<1> DEFINE status == proposals[p].status
           late == status \in Open /\ proposals[p].overdue
           phase == IF late THEN "expire" ELSE Judge(c, status)
<1>1. sessions[c] \in Session /\ Post(c, sessions[c])
  BY DEF TypeInv, SessionsOK
<1>2. status \in Statuses
  BY DEF TypeInv, TypeOK, Proposal, Look
<1>3. c \notin Replayers
  BY <1>1, RolesAssumption DEF Look, At, Post
<1>4. PICK aim \in Aims(c) : Become(c, [sessions[c] EXCEPT
          !.on = p, !.seen = status, !.aim = aim, !.at = phase])
  BY DEF Look
<1> DEFINE new == [sessions[c] EXCEPT
          !.on = p, !.seen = status, !.aim = aim, !.at = phase]
<1>5. aim \in Statuses /\ (c \in Deciders => aim \in Verdicts)
  BY DEF Aims, Statuses, Open, Closed, Verdicts
<1>6. phase \in Phases
  BY <1>2, <1>3, JudgeIsPhase DEF Phases
<1>7. new \in Session /\ new.on = p /\ new.aim = aim /\ new.at = phase
  BY <1>1, <1>2, <1>5, <1>6 DEF Session
<1>8. Post(c, new)
  <2>1. CASE late
    BY <1>3, <1>5, <1>7, <2>1 DEF Post, ExecutePhases
  <2>2. CASE ~late
    BY <1>2, <1>3, <1>5, <1>7, <2>2, JudgeTyped DEF TypeInv
  <2> QED
    BY <2>1, <2>2
<1> QED
  BY <1>4, <1>7, <1>8, BecomeTyped DEF TypeInv

LEMMA RereadSessions ==
    ASSUME TypeInv, NEW c \in Sessions, Reread(c)
    PROVE  SessionsOK'
<1> DEFINE status == proposals[On(c)].status
           new == [sessions[c] EXCEPT !.seen = status, !.at = Judge(c, status)]
<1>1. sessions[c] \in Session /\ Post(c, sessions[c])
  BY DEF TypeInv, SessionsOK
<1>2. /\ sessions[c].on \in Proposals /\ c \notin Replayers
      /\ c \in Deciders => sessions[c].aim \in Verdicts
  BY <1>1 DEF Reread, At, Post
<1>3. status \in Statuses \cup {"absent"}
  BY <1>2 DEF TypeInv, TypeOK, Proposal, On
<1>4. new \in Session /\ new.on = On(c) /\ new.at = Judge(c, status)
                      /\ new.aim = sessions[c].aim
  BY <1>1, <1>2, <1>3, JudgeIsPhase DEF Session, On
<1>5. Post(c, new)
  BY <1>2, <1>4, JudgeTyped DEF TypeInv, On
<1> QED
  BY <1>4, <1>5, BecomeTyped DEF Reread, TypeInv

\* Where a request is says what it is and that it knows its proposal.
LEMMA Known ==
    ASSUME SessionsOK, NEW c \in Sessions
    PROVE  /\ sessions[c] \in Session
           /\ ~At(c, "idle") /\ ~At(c, "done") => On(c) \in Proposals
           /\ sessions[c].at \in ExecutePhases => c \in Executors
           /\ sessions[c].at \in {"decide", "write"} =>
                 c \in Deciders /\ MayDecide(c) /\ sessions[c].aim \in Verdicts
           /\ sessions[c].at \in {"tally", "save", "conclude"} =>
                 sessions[c].aim \in Endings
  BY DEF SessionsOK, Post, At, On

LEMMA DecideSessions ==
    ASSUME TypeInv, NEW c \in Sessions,
           Expire(c) \/ ReadToDecide(c) \/ WriteDecision(c) \/ Cancel(c)
    PROVE  SessionsOK'
<1>1. SessionsOK /\ sessions[c] \in Session /\ Post(c, sessions[c])
  BY DEF TypeInv, SessionsOK
<1>2. CASE Expire(c)
  <2>1. Post(c, [sessions[c] EXCEPT !.at = "reread"])
    BY <1>1, <1>2 DEF Expire, At, Post, ExecutePhases, Session
  <2> QED
    BY <1>1, <1>2, <2>1, GotoTyped DEF Expire, Phases
<1>3. CASE ReadToDecide(c)
  <2>1. Post(c, [sessions[c] EXCEPT !.at = "write"])
    BY <1>1, <1>3 DEF ReadToDecide, At, Post, ExecutePhases, Session
  <2>2. Goto(c, "write") \/ Finish(c, "none")
    BY <1>3 DEF ReadToDecide
  <2> QED
    BY <1>1, <2>1, <2>2, GotoTyped, FinishTyped DEF Phases
<1>4. CASE WriteDecision(c)
  BY <1>1, <1>4, FinishTyped DEF WriteDecision
<1>5. CASE Cancel(c)
  BY <1>1, <1>5, FinishTyped DEF Cancel
<1> QED
  BY <1>2, <1>3, <1>4, <1>5

LEMMA AnswerTyped ==
    ASSUME TypeInv, NEW e \in Executors, On(e) \in Proposals, NEW returned
    PROVE  Answer(e, returned) \in Outcomes \cup {"none"}
  BY DEF Answer, TypeInv, TypeOK, Execution

\* A request that executes moves to another phase of execute.
LEMMA GoOn ==
    ASSUME SessionsOK, NEW e \in Executors, On(e) \in Proposals,
           NEW phase \in ExecutePhases, Goto(e, phase)
    PROVE  SessionsOK'
<1>1. sessions[e] \in Session /\ e \in Sessions
  BY DEF SessionsOK, Sessions
<1>2. Post(e, [sessions[e] EXCEPT !.at = phase])
  BY <1>1 DEF Post, ExecutePhases, Session, On
<1>3. phase \in Phases
  BY DEF ExecutePhases, Phases
<1> QED
  BY <1>1, <1>2, <1>3, GotoTyped

ToEffect(e) ==
    \/ Check(e) \/ Consent(e) \/ Prepare(e) \/ Drift(e) \/ Outdate(e)
    \/ Excuse(e) \/ ReadToStart(e) \/ StartExecution(e) \/ Rival(e)

LEMMA ToEffectSessions ==
    ASSUME TypeInv, NEW c \in Sessions, ToEffect(c)
    PROVE  SessionsOK'
<1>1. sessions[c].at \in ExecutePhases /\ ~At(c, "idle") /\ ~At(c, "done")
  BY DEF ToEffect, Check, Consent, Prepare, Drift, Outdate, Excuse, ReadToStart,
     StartExecution, Rival, At, ExecutePhases
<1>2. SessionsOK /\ c \in Executors /\ On(c) \in Proposals
  BY <1>1, Known DEF TypeInv
<1>3. ASSUME \E returned : Finish(c, Answer(c, returned)) PROVE SessionsOK'
  BY <1>2, <1>3, AnswerTyped, FinishTyped
<1>4. ASSUME \E phase \in ExecutePhases : Goto(c, phase) PROVE SessionsOK'
  BY <1>2, <1>4, GoOn
<1>5. ASSUME Finish(c, "none") PROVE SessionsOK'
  BY <1>2, <1>5, FinishTyped
<1>6. ASSUME Goto(c, "done") PROVE SessionsOK'
  <2>1. Post(c, [sessions[c] EXCEPT !.at = "done"])
    BY <1>2 DEF Post, ExecutePhases, SessionsOK, Session
  <2> QED
    BY <1>2, <1>6, <2>1, GotoTyped DEF Phases
<1>7. CASE Check(c)
  <2>1. \/ Goto(c, "consent") \/ Goto(c, "excuse") \/ Goto(c, "done")
        \/ Finish(c, Answer(c, {"succeeded", "failed"}))
    BY <1>7 DEF Check
  <2> QED
    BY <1>3, <1>4, <1>6, <2>1 DEF ExecutePhases
<1>8. CASE Consent(c)
  BY <1>4, <1>5, <1>8 DEF Consent, ExecutePhases
<1>9. CASE Prepare(c)
  BY <1>4, <1>9 DEF Prepare, ExecutePhases
<1>10. CASE Drift(c)
  BY <1>4, <1>5, <1>10 DEF Drift, ExecutePhases
<1>11. CASE Outdate(c)
  BY <1>4, <1>11 DEF Outdate, ExecutePhases
<1>12. CASE Excuse(c)
  BY <1>3, <1>12 DEF Excuse
<1>13. CASE ReadToStart(c)
  BY <1>4, <1>13 DEF ReadToStart, ExecutePhases
<1>14. CASE StartExecution(c)
  <2>1. Goto(c, "announce") \/ Goto(c, "rival")
    BY <1>14 DEF StartExecution
  <2> QED
    BY <1>4, <2>1 DEF ExecutePhases
<1>15. CASE Rival(c)
  BY <1>3, <1>15 DEF Rival
<1> QED
  BY <1>7, <1>8, <1>9, <1>10, <1>11, <1>12, <1>13, <1>14, <1>15 DEF ToEffect

FromEffect(c) ==
    Announce(c) \/ Apply(c) \/ Tally(c) \/ Save(c) \/ Conclude(c) \/ MarkStale(c)

LEMMA FromEffectSessions ==
    ASSUME TypeInv, NEW c \in Sessions, FromEffect(c)
    PROVE  SessionsOK'
<1>1. SessionsOK /\ sessions[c] \in Session /\ Post(c, sessions[c])
  BY DEF TypeInv, SessionsOK
<1>2. On(c) \in Proposals
  BY <1>1 DEF FromEffect, Announce, Apply, Tally, Save, Conclude, MarkStale, At, Post, On
<1>3. CASE Announce(c)
  <2>1. c \in Executors
    BY <1>1, <1>3 DEF Announce, At, Post, ExecutePhases
  <2> QED
    BY <1>1, <1>2, <1>3, <2>1, GoOn DEF Announce, ExecutePhases
<1>4. CASE Apply(c)
  <2>1. c \in Executors
    BY <1>1, <1>4 DEF Apply, At, Post, ExecutePhases
  <2>2. (\E outcome \in Endings : Aim(c, outcome)) \/ Goto(c, "mark")
    BY <1>4 DEF Apply, Endings
  <2> QED
    BY <1>1, <1>2, <2>1, <2>2, GoOn, AimTyped DEF ExecutePhases
<1>5. CASE Tally(c)
  <2> DEFINE new == [sessions[c] EXCEPT
             !.owed = @ \/ executions[On(c)].owed, !.at = "save"]
  <2>1. (sessions[c].owed \/ executions[On(c)].owed) \in BOOLEAN
    OBVIOUS
  <2>2. new \in Session
    BY <1>1, <2>1, ZenonT(40) DEF Session, Phases
  <2>3. Post(c, new)
    BY <1>1, <1>2, <1>5 DEF Tally, At, Post, ExecutePhases, Session, On
  <2> QED
    BY <1>1, <1>5, <2>2, <2>3, BecomeTyped DEF Tally
<1>6. CASE Save(c)
  <2>1. Post(c, [sessions[c] EXCEPT !.at = "conclude"])
    BY <1>1, <1>2, <1>6 DEF Save, At, Post, ExecutePhases, Session, On
  <2>2. Goto(c, "conclude") \/ Finish(c, "none")
    BY <1>6 DEF Save
  <2> QED
    BY <1>1, <2>1, <2>2, GotoTyped, FinishTyped DEF Phases
<1>7. CASE Conclude(c)
  <2>1. Finish(c, "succeeded") \/ Finish(c, "none")
    BY <1>7 DEF Conclude
  <2> QED
    BY <1>1, <2>1, FinishTyped DEF Outcomes
<1>8. CASE MarkStale(c)
  <2>1. c \in Executors
    BY <1>1, <1>8 DEF MarkStale, At, Post, ExecutePhases
  <2>2. Goto(c, "excuse") \/ Finish(c, "none")
    BY <1>8 DEF MarkStale
  <2> QED
    BY <1>1, <1>2, <2>1, <2>2, GoOn, FinishTyped DEF ExecutePhases
<1> QED
  BY <1>3, <1>4, <1>5, <1>6, <1>7, <1>8 DEF FromEffect

\* The phases of a reconciliation say no more than that it knows its proposal.
FreePhases == {"open", "count", "bump", "ask", "keep"}

LEMMA FreeTyped ==
    ASSUME NEW c, NEW s \in Session, s.at \in FreePhases, s.on \in Proposals
    PROVE  Post(c, s)
  BY DEF Post, FreePhases, ExecutePhases

Reconciling(r) ==
    ReadExecution(r) \/ CountAttempts(r) \/ BumpAttempts(r) \/ Ask(r) \/ Keep(r)

LEMMA ReconcilingSessions ==
    ASSUME TypeInv, NEW c \in Sessions, Reconciling(c)
    PROVE  SessionsOK'
<1>1. SessionsOK /\ sessions[c] \in Session /\ Post(c, sessions[c])
  BY DEF TypeInv, SessionsOK
<1>2. On(c) \in Proposals
  BY <1>1 DEF Reconciling, ReadExecution, CountAttempts, BumpAttempts, Ask, Keep,
     At, Post, On
<1>3. executions[On(c)] \in Execution
  BY <1>2 DEF TypeInv, TypeOK
<1>4. ASSUME NEW phase \in FreePhases, Goto(c, phase)
      PROVE  SessionsOK'
  <2> DEFINE new == [sessions[c] EXCEPT !.at = phase]
  <2>1. phase \in Phases
    BY DEF FreePhases, Phases
  <2>2. new \in Session /\ new.at = phase /\ new.on = On(c)
    BY <1>1, <2>1 DEF Session, On
  <2>3. Post(c, new)
    BY <1>2, <2>2, FreeTyped
  <2> QED
    BY <1>1, <1>4, <2>1, <2>3, GotoTyped
<1>5. CASE ReadExecution(c)
  <2> DEFINE x == executions[On(c)]
             new == [sessions[c] EXCEPT !.owed = x.owed, !.at = "count"]
  <2>1. CASE x.outcome \in Unresolved
    <3>1. new \in Session /\ new.at = "count" /\ new.on = On(c)
      BY <1>1, <1>3 DEF Session, Execution, Phases, On
    <3>2. Post(c, new)
      BY <1>2, <3>1, FreeTyped DEF FreePhases
    <3> QED
      BY <1>1, <1>5, <2>1, <3>1, <3>2, BecomeTyped DEF ReadExecution
  <2>2. CASE x.outcome \notin Unresolved
    <3>1. Finish(c, x.outcome) /\ x.outcome \in Outcomes \cup {"none"}
      BY <1>3, <1>5, <2>2 DEF ReadExecution, Execution
    <3> QED
      BY <1>1, <3>1, FinishTyped
  <2> QED
    BY <2>1, <2>2
<1>6. CASE CountAttempts(c)
  <2> DEFINE new == [sessions[c] EXCEPT
             !.tries = executions[On(c)].attempts, !.at = "bump"]
  <2>1. new \in Session /\ new.at = "bump" /\ new.on = On(c)
    BY <1>1, <1>3 DEF Session, Execution, Phases, On
  <2>2. Post(c, new)
    BY <1>2, <2>1, FreeTyped DEF FreePhases
  <2> QED
    BY <1>1, <1>6, <2>1, <2>2, BecomeTyped DEF CountAttempts
<1>7. CASE BumpAttempts(c)
  BY <1>4, <1>7 DEF BumpAttempts, FreePhases
<1>8. CASE Ask(c)
  <2>1. Aim(c, "succeeded") \/ Goto(c, "keep") \/ Finish(c, "none")
    BY <1>8 DEF Ask
  <2> QED
    BY <1>1, <1>2, <1>4, <2>1, AimTyped, FinishTyped DEF Endings, FreePhases
<1>9. CASE Keep(c)
  <2>1. Finish(c, "reconciliation_required") \/ Finish(c, "none")
    BY <1>9 DEF Keep
  <2> QED
    BY <1>1, <2>1, FinishTyped DEF Outcomes
<1> QED
  BY <1>5, <1>6, <1>7, <1>8, <1>9 DEF Reconciling

Replaying(y) == Replay(y) \/ RecordReplay(y)

LEMMA ReplayingSessions ==
    ASSUME TypeInv, NEW c \in Sessions, Replaying(c)
    PROVE  SessionsOK'
<1>1. SessionsOK /\ sessions[c] \in Session /\ Post(c, sessions[c])
  BY DEF TypeInv, SessionsOK
<1>2. CASE Replay(c)
  <2>1. PICK stored \in BOOLEAN : Become(c, [sessions[c] EXCEPT
               !.owed = stored, !.at = "record"])
    BY <1>2 DEF Replay
  <2> DEFINE new == [sessions[c] EXCEPT !.owed = stored, !.at = "record"]
  <2>2. new \in Session /\ new.at = "record" /\ new.on \in Proposals
    BY <1>1, <1>2 DEF Session, Phases, Replay, At, Post
  <2>3. Post(c, new)
    BY <1>1, <1>2, <2>2 DEF Post, ExecutePhases, Replay, At
  <2> QED
    BY <1>1, <2>1, <2>2, <2>3, BecomeTyped
<1>3. CASE RecordReplay(c)
  BY <1>1, <1>3, FinishTyped DEF RecordReplay
<1> QED
  BY <1>2, <1>3 DEF Replaying

LEMMA ArriveSessions ==
    ASSUME TypeInv, NEW c \in Sessions, Arrive(c)
    PROVE  SessionsOK'
<1>1. SessionsOK /\ sessions[c] \in Session /\ Post(c, sessions[c])
  BY DEF TypeInv, SessionsOK
<1>2. ASSUME NEW p \in Proposals, c \in Reconcilers, CheckLimit(c, p)
      PROVE  SessionsOK'
  <2>1. PICK phase \in {"done", "look"} : Become(c, [sessions[c] EXCEPT
               !.on = p, !.at = phase])
    BY <1>2 DEF CheckLimit
  <2> DEFINE new == [sessions[c] EXCEPT !.on = p, !.at = phase]
  <2>2. new \in Session /\ new.on = p /\ new.at = phase
    BY <1>1 DEF Session, Phases
  <2>3. Post(c, new)
    BY <1>2, <2>2 DEF Post, ExecutePhases
  <2> QED
    BY <1>1, <2>1, <2>2, <2>3, BecomeTyped
<1>3. ASSUME NEW p \in Proposals, c \in Replayers, ReadOwed(c, p)
      PROVE  SessionsOK'
  <2>1. executions[p].outcome \in Statuses
    BY <1>3 DEF ReadOwed, Executed, TypeInv, TypeOK, Execution, Outcomes, Statuses,
       Closed
  <2>2. PICK phase \in {"done", "replay"} : Become(c, [sessions[c] EXCEPT
               !.on = p, !.seen = executions[p].outcome, !.at = phase])
    BY <1>3 DEF ReadOwed
  <2> DEFINE new == [sessions[c] EXCEPT
               !.on = p, !.seen = executions[p].outcome, !.at = phase]
  <2>3. new \in Session /\ new.on = p /\ new.at = phase
    BY <1>1, <2>1 DEF Session, Phases
  <2>4. Post(c, new)
    BY <1>3, <2>3 DEF Post, ExecutePhases
  <2> QED
    BY <1>1, <2>2, <2>3, <2>4, BecomeTyped
<1> QED
  BY <1>2, <1>3, LookSessions DEF Arrive

\* Every step keeps every request where it belongs.
LEMMA SessionsStep ==
    ASSUME TypeInv, Next
    PROVE  SessionsOK'
<1>1. ASSUME sessions' = sessions PROVE SessionsOK'
  BY <1>1 DEF TypeInv, SessionsOK
<1>2. CASE \E p \in Proposals : Propose(p) \/ TimePasses(p) \/ ReadProposals(p)
  BY <1>1, <1>2 DEF Propose, TimePasses, ReadProposals
<1>3. CASE OthersChange
  BY <1>1, <1>3 DEF OthersChange
<1>4. ASSUME NEW c \in Sessions, Arrive(c) PROVE SessionsOK'
  BY <1>4, ArriveSessions
<1>5. ASSUME NEW c \in Sessions, Crash(c) PROVE SessionsOK'
  BY <1>5, FinishTyped DEF Crash, TypeInv
<1>6. ASSUME NEW c \in Sessions, Proceed(c) PROVE SessionsOK'
  BY <1>6, LookSessions, DecideSessions, RereadSessions, ToEffectSessions,
     FromEffectSessions, ReconcilingSessions, ReplayingSessions
  DEF Proceed, ToEffect, FromEffect, Reconciling, Replaying
<1> QED
  BY <1>2, <1>3, <1>4, <1>5, <1>6 DEF Next

-----------------------------------------------------------------------------
(* The rows.  What any step may do to a proposal's approvals and execution. *)

\* An approver adds a row ...
Votes(p) == \E a \in Approval :
    /\ approvals'[p] = approvals[p] \cup {a}
    /\ ~a.consumed
    /\ \A b \in approvals[p] : b.by # a.by
    /\ SelfApproval \/ a.by # Requester

\* ... and a request that starts an execution consumes the approvals.
Used(a) == IF a.decision = "approved" THEN [a EXCEPT !.consumed = TRUE] ELSE a
Consume(rows) == {Used(a) : a \in rows}

Starts(p) ==
    /\ ~Executed(p) /\ Enough(Unconsumed(p))
    /\ approvals'[p] = Consume(approvals[p])
    /\ executions'[p].outcome = "executing"

\* Afterwards its key stays and its outcome only closes.
Closes(p) ==
    /\ executions'[p].key = executions[p].key
    /\ \/ executions'[p].outcome = executions[p].outcome
       \/ Executed(p) /\ executions'[p].outcome \in Allowed(executions[p].outcome)

RowStep(p) ==
    \/ Starts(p)
    \/ Closes(p) /\ (approvals'[p] = approvals[p] \/ Votes(p))

RowSteps == \A p \in Proposals : RowStep(p)

TablesOK ==
    /\ proposals \in [Proposals -> Proposal]
    /\ approvals \in [Proposals -> SUBSET Approval]
    /\ executions \in [Proposals -> Execution]
    /\ resource \in Resource
    /\ effects \in [Proposals -> Nat]
    /\ audited \in [Proposals -> BOOLEAN]
    /\ drifts \in 0 .. MaxDrifts
    /\ crashes \in 0 .. MaxCrashes

LEMMA Quiet ==
    ASSUME UNCHANGED <<approvals, executions>>
    PROVE  RowSteps
  BY DEF RowSteps, RowStep, Closes

LEMMA StatusTyped ==
    ASSUME TypeInv, NEW p, NEW status \in Statuses \cup {"absent"},
           SetStatus(p, status)
    PROVE  proposals' \in [Proposals -> Proposal]
  BY DEF SetStatus, TypeInv, TypeOK, Proposal

\* A write to an execution that leaves its key and outcome alone.
LEMMA TouchStep ==
    ASSUME TypeInv, NEW p \in Proposals, NEW new \in Execution,
           new.key = executions[p].key, new.outcome = executions[p].outcome,
           executions' = [executions EXCEPT ![p] = new], UNCHANGED approvals
    PROVE  executions' \in [Proposals -> Execution] /\ RowSteps
<1>1. executions' \in [Proposals -> Execution]
  BY DEF TypeInv, TypeOK
<1>2. ASSUME NEW q \in Proposals PROVE Closes(q)
  BY DEF Closes, TypeInv, TypeOK
<1> QED
  BY <1>1, <1>2 DEF RowSteps, RowStep

LEMMA OwedStep ==
    ASSUME TypeInv, NEW p \in Proposals, NEW owed \in BOOLEAN, SetOwed(p, owed),
           UNCHANGED approvals
    PROVE  executions' \in [Proposals -> Execution] /\ RowSteps
<1> DEFINE new == [executions[p] EXCEPT !.owed = owed]
<1>1. executions[p] \in Execution
  BY DEF TypeInv, TypeOK
<1>2. new \in Execution /\ new.key = executions[p].key
                        /\ new.outcome = executions[p].outcome
  BY <1>1 DEF Execution
<1>3. executions' = [executions EXCEPT ![p] = new]
  BY DEF SetOwed
<1> HIDE DEF new
<1> QED
  BY <1>2, <1>3, TouchStep

\* A write that closes an execution.
LEMMA CloseStep ==
    ASSUME TypeInv, NEW p \in Proposals, NEW new \in Execution,
           Executed(p), new.key = executions[p].key,
           new.outcome \in Allowed(executions[p].outcome),
           executions' = [executions EXCEPT ![p] = new], UNCHANGED approvals
    PROVE  executions' \in [Proposals -> Execution] /\ RowSteps
<1>1. executions' \in [Proposals -> Execution]
  BY DEF TypeInv, TypeOK
<1>2. ASSUME NEW q \in Proposals PROVE Closes(q)
  BY DEF Closes, TypeInv, TypeOK
<1> QED
  BY <1>1, <1>2 DEF RowSteps, RowStep

LEMMA ProposalRows ==
    ASSUME TypeInv, NEW p \in Proposals,
           Propose(p) \/ TimePasses(p) \/ ReadProposals(p)
    PROVE  TablesOK' /\ RowSteps
<1>1. UNCHANGED <<approvals, executions, resource, effects, audited, drifts, crashes>>
  BY DEF Propose, TimePasses, ReadProposals
<1>2. proposals' \in [Proposals -> Proposal]
  <2>1. CASE Propose(p)
    BY <2>1 DEF Propose, TypeInv, TypeOK, Proposal, Resource, Statuses, Open
  <2>2. CASE TimePasses(p)
    BY <2>2 DEF TimePasses, TypeInv, TypeOK, Proposal
  <2>3. CASE ReadProposals(p)
    BY <2>3, StatusTyped DEF ReadProposals, Statuses, Closed
  <2> QED
    BY <2>1, <2>2, <2>3
<1> QED
  BY <1>1, <1>2, Quiet DEF TablesOK, TypeInv, TypeOK

LEMMA DecideRows ==
    ASSUME TypeInv, NEW c \in Sessions,
           Expire(c) \/ ReadToDecide(c) \/ WriteDecision(c) \/ Cancel(c)
    PROVE  TablesOK' /\ RowSteps
<1>0. SessionsOK /\ sessions[c] \in Session
  BY DEF TypeInv, SessionsOK
<1>1. On(c) \in Proposals
  BY <1>0, Known DEF Expire, ReadToDecide, WriteDecision, Cancel, At
<1>2. proposals[On(c)].status \in Statuses \cup {"absent"}
  BY <1>1 DEF TypeInv, TypeOK, Proposal
<1>3. CASE Expire(c)
  <2>1. proposals' \in [Proposals -> Proposal]
    BY <1>2, <1>3, StatusTyped DEF Expire, Statuses, Closed
  <2> QED
    BY <1>3, <2>1, Quiet DEF Expire, TablesOK, TypeInv, TypeOK
<1>4. CASE Cancel(c)
  <2>1. proposals' \in [Proposals -> Proposal]
    BY <1>2, <1>4, StatusTyped DEF Cancel, Statuses, Closed
  <2> QED
    BY <1>4, <2>1, Quiet DEF Cancel, TablesOK, TypeInv, TypeOK
<1>5. CASE ReadToDecide(c)
  BY <1>5, Quiet DEF ReadToDecide, TablesOK, TypeInv, TypeOK, tables
<1>6. CASE WriteDecision(c)
  <2> DEFINE p == On(c)
             verdict == sessions[c].aim
             row == [by |-> UserOf[c], decision |-> verdict, consumed |-> FALSE]
  <2>1. c \in Deciders /\ MayDecide(c) /\ verdict \in Verdicts
    BY <1>0, <1>6, Known DEF WriteDecision, At
  <2>2. row \in Approval /\ row.by = UserOf[c] /\ ~row.consumed
    BY <2>1, ArgumentsAssumption DEF Approval, Verdicts
  <2>3. proposals' \in [Proposals -> Proposal]
    <3>1. verdict \in Statuses
      BY <2>1 DEF Verdicts, Statuses, Open, Closed
    <3>2. UNCHANGED proposals \/ SetStatus(p, verdict)
      BY <1>6 DEF WriteDecision
    <3> QED
      BY <3>1, <3>2, StatusTyped DEF TypeInv, TypeOK
  <2>4. UNCHANGED <<executions, resource, effects, audited, drifts, crashes>>
    BY <1>6 DEF WriteDecision
  <2>5. CASE \E a \in approvals[p] : a.by = row.by
    <3>1. UNCHANGED approvals
      BY <1>6, <2>5 DEF WriteDecision
    <3> QED
      BY <2>3, <2>4, <3>1, Quiet DEF TablesOK, TypeInv, TypeOK
  <2>6. CASE \A a \in approvals[p] : a.by # row.by
    <3>1. approvals' = [approvals EXCEPT ![p] = approvals[p] \cup {row}]
      BY <1>6, <2>6 DEF WriteDecision
    <3> HIDE DEF row
    <3>2. approvals' \in [Proposals -> SUBSET Approval]
      BY <2>2, <3>1 DEF TypeInv, TypeOK
    <3>3. Votes(p)
      BY <1>1, <2>1, <2>2, <2>6, <3>1 DEF Votes, MayDecide, TypeInv, TypeOK
    <3>4. ASSUME NEW q \in Proposals PROVE RowStep(q)
      BY <2>4, <3>1, <3>3 DEF RowStep, Closes, TypeInv, TypeOK
    <3> QED
      BY <2>3, <2>4, <3>2, <3>4 DEF TablesOK, RowSteps, TypeInv, TypeOK
  <2> QED
    BY <2>5, <2>6
<1> QED
  BY <1>3, <1>4, <1>5, <1>6

LEMMA ConsumeTyped ==
    ASSUME NEW rows \in SUBSET Approval PROVE Consume(rows) \in SUBSET Approval
<1> SUFFICES ASSUME NEW a \in rows
             PROVE  Used(a) \in Approval
  BY DEF Consume
<1>1. a \in Approval
  OBVIOUS
<1>2. [a EXCEPT !.consumed = TRUE] \in Approval
  BY <1>1 DEF Approval
<1> QED
  BY <1>1, <1>2 DEF Used

LEMMA StartRows ==
    ASSUME TypeInv, NEW c \in Sessions, StartExecution(c)
    PROVE  TablesOK' /\ RowSteps
<1> DEFINE p == On(c)
           new == [outcome |-> "executing", key |-> KeyOf[c], attempts |-> 1,
                   owed |-> FALSE, replays |-> 0]
<1>1. p \in Proposals /\ c \in Executors
  BY Known DEF StartExecution, At, ExecutePhases, TypeInv
<1>2. UNCHANGED <<resource, effects, audited, drifts, crashes>>
  BY DEF StartExecution
<1>3. CASE CanStart(c)
  <2>1. /\ SetStatus(p, "executing")
        /\ approvals' = [approvals EXCEPT ![p] = Consume(approvals[p])]
        /\ executions' = [executions EXCEPT ![p] = new]
    BY <1>3 DEF StartExecution, Consume, Used
  <2>2. proposals' \in [Proposals -> Proposal]
    BY <2>1, StatusTyped DEF Statuses
  <2>3. approvals' \in [Proposals -> SUBSET Approval]
    BY <1>1, <2>1, ConsumeTyped DEF TypeInv, TypeOK
  <2>4. new \in Execution /\ new.outcome = "executing"
    BY <1>1, ArgumentsAssumption DEF Execution, Outcomes
  <2> HIDE DEF new
  <2>5. executions' \in [Proposals -> Execution]
    BY <1>1, <2>1, <2>4 DEF TypeInv, TypeOK
  <2>6. Starts(p)
    BY <1>1, <1>3, <2>1, <2>4 DEF Starts, CanStart, TypeInv, TypeOK
  <2>7. ASSUME NEW q \in Proposals PROVE RowStep(q)
    BY <2>1, <2>6, <2>7 DEF RowStep, Closes, TypeInv, TypeOK
  <2> QED
    BY <1>2, <2>2, <2>3, <2>5, <2>7 DEF TablesOK, RowSteps, TypeInv, TypeOK
<1>4. CASE ~CanStart(c)
  <2>1. UNCHANGED <<proposals, approvals, executions>>
    BY <1>4 DEF StartExecution
  <2> QED
    BY <1>2, <2>1, Quiet DEF TablesOK, TypeInv, TypeOK
<1> QED
  BY <1>3, <1>4

LEMMA ToEffectRows ==
    ASSUME TypeInv, NEW c \in Sessions, ToEffect(c)
    PROVE  TablesOK' /\ RowSteps
<1>1. CASE StartExecution(c)
  BY <1>1, StartRows
<1>2. CASE Outdate(c)
  <2>1. On(c) \in Proposals
    BY <1>2, Known DEF Outdate, At, TypeInv
  <2>2. proposals' \in [Proposals -> Proposal]
    BY <1>2, <2>1, StatusTyped DEF Outdate, Statuses, Closed, TypeInv, TypeOK, Proposal
  <2> QED
    BY <1>2, <2>2, Quiet DEF Outdate, TablesOK, TypeInv, TypeOK
<1>3. CASE UNCHANGED <<tables, drifts, crashes>>
  BY <1>3, Quiet DEF TablesOK, TypeInv, TypeOK, tables
<1> QED
  BY <1>1, <1>2, <1>3 DEF ToEffect, Check, Consent, Prepare, Drift, Excuse,
     ReadToStart, Rival

LEMMA ApplyRows ==
    ASSUME TypeInv, NEW c \in Sessions, Apply(c)
    PROVE  TablesOK' /\ RowSteps
<1>1. On(c) \in Proposals
  BY Known DEF Apply, At, TypeInv
<1>2. UNCHANGED <<proposals, approvals, executions, audited, drifts, crashes>>
  BY DEF Apply
<1>3. CASE UNCHANGED <<resource, effects>>
  BY <1>2, <1>3, Quiet DEF TablesOK, TypeInv, TypeOK
<1>4. CASE /\ resource' = [version |-> resource.version + 1, value |-> TargetOf[On(c)]]
           /\ effects' = [effects EXCEPT ![On(c)] = @ + 1]
  <2>1. resource' \in Resource
    <3>1. resource.version + 1 \in Nat
      BY DEF Resource, TypeInv, TypeOK
    <3>2. TargetOf[On(c)] \in Values
      BY <1>1, ArgumentsAssumption
    <3> QED
      BY <1>4, <3>1, <3>2 DEF Resource
  <2>2. effects' \in [Proposals -> Nat]
    BY <1>1, <1>4 DEF TypeInv, TypeOK
  <2> QED
    BY <1>2, <2>1, <2>2, Quiet DEF TablesOK, TypeInv, TypeOK
<1> QED
  BY <1>3, <1>4 DEF Apply

LEMMA SaveRows ==
    ASSUME TypeInv, NEW c \in Sessions, Save(c)
    PROVE  TablesOK' /\ RowSteps
<1> DEFINE p == On(c)
           aim == sessions[c].aim
           new == [executions[p] EXCEPT !.outcome = aim, !.owed = sessions[c].owed]
<1>1. p \in Proposals /\ aim \in Endings /\ sessions[c] \in Session
  BY Known DEF Save, At, TypeInv
<1>2. UNCHANGED <<approvals, resource, effects, audited, drifts, crashes>>
  BY DEF Save
<1>3. CASE CanClose(p, From(aim))
  <2>1. SetStatus(p, aim) /\ executions' = [executions EXCEPT ![p] = new]
    BY <1>3 DEF Save
  <2>2. executions[p] \in Execution
    BY <1>1 DEF TypeInv, TypeOK
  <2>3. new \in Execution /\ new.key = executions[p].key /\ new.outcome = aim
    <3>1. aim \in Outcomes /\ sessions[c].owed \in BOOLEAN
      BY <1>1 DEF Endings, Outcomes, Session
    <3> QED
      BY <2>2, <3>1 DEF Execution
  <2>4. Executed(p) /\ aim \in Allowed(executions[p].outcome)
    BY <1>1, <1>3 DEF CanClose, From, Unresolved, Endings, Executed, Allowed, Closed
  <2> HIDE DEF new
  <2>5. executions' \in [Proposals -> Execution] /\ RowSteps
    BY <1>1, <1>2, <2>1, <2>3, <2>4, CloseStep
  <2>6. proposals' \in [Proposals -> Proposal]
    BY <1>1, <2>1, StatusTyped DEF Endings, Statuses, Closed
  <2> QED
    BY <1>2, <2>5, <2>6 DEF TablesOK, TypeInv, TypeOK
<1>4. CASE ~CanClose(p, From(aim))
  <2>1. UNCHANGED <<proposals, executions>>
    BY <1>4 DEF Save
  <2> QED
    BY <1>2, <2>1, Quiet DEF TablesOK, TypeInv, TypeOK
<1> QED
  BY <1>3, <1>4

LEMMA MarkStaleRows ==
    ASSUME TypeInv, NEW c \in Sessions, MarkStale(c)
    PROVE  TablesOK' /\ RowSteps
<1> DEFINE p == On(c)
           new == [executions[p] EXCEPT !.outcome = "failed"]
<1>1. p \in Proposals
  BY Known DEF MarkStale, At, TypeInv
<1>2. UNCHANGED <<approvals, resource, effects, audited, drifts, crashes>>
  BY DEF MarkStale
<1>3. CASE CanClose(p, {"executing"})
  <2>1. SetStatus(p, "stale") /\ executions' = [executions EXCEPT ![p] = new]
    BY <1>3 DEF MarkStale
  <2>2. executions[p] \in Execution
    BY <1>1 DEF TypeInv, TypeOK
  <2>3. new \in Execution /\ new.key = executions[p].key /\ new.outcome = "failed"
    BY <2>2 DEF Execution, Outcomes
  <2>4. Executed(p) /\ "failed" \in Allowed(executions[p].outcome)
    BY <1>3 DEF CanClose, Executed, Allowed, Closed
  <2> HIDE DEF new
  <2>5. executions' \in [Proposals -> Execution] /\ RowSteps
    BY <1>1, <1>2, <2>1, <2>3, <2>4, CloseStep
  <2>6. proposals' \in [Proposals -> Proposal]
    BY <2>1, StatusTyped DEF Statuses, Closed
  <2> QED
    BY <1>2, <2>5, <2>6 DEF TablesOK, TypeInv, TypeOK
<1>4. CASE ~CanClose(p, {"executing"})
  <2>1. UNCHANGED <<proposals, executions>>
    BY <1>4 DEF MarkStale
  <2> QED
    BY <1>2, <2>1, Quiet DEF TablesOK, TypeInv, TypeOK
<1> QED
  BY <1>3, <1>4

LEMMA FromEffectRows ==
    ASSUME TypeInv, NEW c \in Sessions, FromEffect(c)
    PROVE  TablesOK' /\ RowSteps
<1>1. CASE Announce(c)
  <2>1. On(c) \in Proposals
    BY <1>1, Known DEF Announce, At, TypeInv
  <2>2. PICK failed \in BOOLEAN : SetOwed(On(c), executions[On(c)].owed \/ failed)
    BY <1>1 DEF Announce
  <2>3. (executions[On(c)].owed \/ failed) \in BOOLEAN
    OBVIOUS
  <2>4. executions' \in [Proposals -> Execution] /\ RowSteps
    BY <1>1, <2>1, <2>2, <2>3, OwedStep DEF Announce
  <2> QED
    BY <1>1, <2>4 DEF Announce, TablesOK, TypeInv, TypeOK
<1>2. CASE Tally(c)
  BY <1>2, Quiet DEF Tally, TablesOK, TypeInv, TypeOK, tables
<1>3. CASE Conclude(c)
  <2> DEFINE p == On(c)
             success == sessions[c].aim = "succeeded"
  <2>1. p \in Proposals
    BY <1>3, Known DEF Conclude, At, TypeInv
  <2>2. UNCHANGED <<proposals, approvals, resource, effects, drifts, crashes>>
    BY <1>3 DEF Conclude
  <2>3. CASE /\ audited' = [audited EXCEPT ![p] = @ \/ success]
             /\ UNCHANGED executions
    <3>1. (audited[p] \/ success) \in BOOLEAN
      OBVIOUS
    <3>2. audited' \in [Proposals -> BOOLEAN]
      BY <2>3, <3>1 DEF TypeInv, TypeOK
    <3> QED
      BY <2>2, <2>3, <3>2, Quiet DEF TablesOK, TypeInv, TypeOK
  <2>4. CASE SetOwed(p, TRUE) /\ UNCHANGED audited
    <3>1. executions' \in [Proposals -> Execution] /\ RowSteps
      BY <2>1, <2>2, <2>4, OwedStep
    <3> QED
      BY <2>2, <2>4, <3>1 DEF TablesOK, TypeInv, TypeOK
  <2> QED
    BY <1>3, <2>3, <2>4 DEF Conclude
<1> QED
  BY <1>1, <1>2, <1>3, ApplyRows, SaveRows, MarkStaleRows DEF FromEffect

LEMMA ReconcilingRows ==
    ASSUME TypeInv, NEW c \in Sessions, Reconciling(c)
    PROVE  TablesOK' /\ RowSteps
<1>1. CASE UNCHANGED <<tables, drifts, crashes>>
  BY <1>1, Quiet DEF TablesOK, TypeInv, TypeOK, tables
<1>2. CASE BumpAttempts(c)
  <2> DEFINE p == On(c)
             new == [executions[p] EXCEPT !.attempts = sessions[c].tries + 1]
  <2>1. p \in Proposals /\ sessions[c] \in Session
    BY <1>2, Known DEF BumpAttempts, At, TypeInv
  <2>2. executions[p] \in Execution /\ sessions[c].tries + 1 \in Nat
    BY <2>1 DEF TypeInv, TypeOK, Session
  <2>3. /\ new \in Execution /\ new.key = executions[p].key
        /\ new.outcome = executions[p].outcome
    BY <2>2 DEF Execution
  <2>4. executions' = [executions EXCEPT ![p] = new]
    BY <1>2 DEF BumpAttempts
  <2> HIDE DEF new
  <2>5. executions' \in [Proposals -> Execution] /\ RowSteps
    BY <1>2, <2>1, <2>3, <2>4, TouchStep DEF BumpAttempts
  <2> QED
    BY <1>2, <2>5 DEF BumpAttempts, TablesOK, TypeInv, TypeOK
<1>3. CASE Keep(c)
  <2>1. On(c) \in Proposals /\ sessions[c].owed \in BOOLEAN
    BY <1>3, Known DEF Keep, At, TypeInv, Session
  <2>2. CASE UNCHANGED executions
    BY <1>3, <2>2, Quiet DEF Keep, TablesOK, TypeInv, TypeOK
  <2>3. CASE SetOwed(On(c), sessions[c].owed)
    <3>1. executions' \in [Proposals -> Execution] /\ RowSteps
      BY <1>3, <2>1, <2>3, OwedStep DEF Keep
    <3> QED
      BY <1>3, <3>1 DEF Keep, TablesOK, TypeInv, TypeOK
  <2> QED
    BY <1>3, <2>2, <2>3 DEF Keep
<1> QED
  BY <1>1, <1>2, <1>3 DEF Reconciling, ReadExecution, CountAttempts, Ask

LEMMA ReplayingRows ==
    ASSUME TypeInv, NEW c \in Sessions, Replaying(c)
    PROVE  TablesOK' /\ RowSteps
<1>1. On(c) \in Proposals /\ sessions[c] \in Session
  BY Known DEF Replaying, Replay, RecordReplay, At, TypeInv
<1>2. CASE Replay(c)
  <2> DEFINE told == sessions[c].seen = "succeeded"
  <2>1. PICK stored \in BOOLEAN :
            audited' = [audited EXCEPT ![On(c)] = @ \/ (stored /\ told)]
    BY <1>2 DEF Replay
  <2>2. (audited[On(c)] \/ (stored /\ told)) \in BOOLEAN
    OBVIOUS
  <2>3. audited' \in [Proposals -> BOOLEAN]
    BY <2>1, <2>2 DEF TypeInv, TypeOK
  <2>4. UNCHANGED <<proposals, approvals, executions, resource, effects, drifts, crashes>>
    BY <1>2 DEF Replay
  <2> QED
    BY <2>3, <2>4, Quiet DEF TablesOK, TypeInv, TypeOK
<1>3. CASE RecordReplay(c)
  <2> DEFINE p == On(c)
             kept == executions[p].owed /\ ~sessions[c].owed
             count == executions[p].replays + 1
             new == [executions[p] EXCEPT !.replays = count, !.owed = kept]
  <2>1. executions[p] \in Execution /\ kept \in BOOLEAN /\ count \in Nat
    <3>1. executions[p] \in Execution
      BY <1>1 DEF TypeInv, TypeOK
    <3> QED
      BY <3>1 DEF Execution
  <2> HIDE DEF kept, count
  <2>2. /\ new \in Execution /\ new.key = executions[p].key
        /\ new.outcome = executions[p].outcome
    BY <2>1 DEF Execution
  <2>3. executions' = [executions EXCEPT ![p] = new]
    BY <1>3 DEF RecordReplay, kept, count
  <2> HIDE DEF new
  <2>4. executions' \in [Proposals -> Execution] /\ RowSteps
    BY <1>1, <1>3, <2>2, <2>3, TouchStep DEF RecordReplay
  <2> QED
    BY <1>3, <2>4 DEF RecordReplay, TablesOK, TypeInv, TypeOK
<1> QED
  BY <1>2, <1>3 DEF Replaying

LEMMA WorldRows ==
    ASSUME TypeInv, OthersChange \/ (\E c \in Sessions : Arrive(c) \/ Crash(c))
    PROVE  TablesOK' /\ RowSteps
<1>1. CASE OthersChange
  <2>1. PICK v \in Values :
            resource' = [version |-> resource.version + 1, value |-> v]
    BY <1>1 DEF OthersChange
  <2>2. resource.version + 1 \in Nat
    BY DEF Resource, TypeInv, TypeOK
  <2>3. resource' \in Resource
    BY <2>1, <2>2 DEF Resource
  <2>4. drifts' \in 0 .. MaxDrifts
    <3>1. MaxDrifts \in Nat /\ drifts \in 0 .. MaxDrifts
      BY PolicyAssumption DEF TypeInv, TypeOK
    <3>2. drifts < MaxDrifts /\ drifts' = drifts + 1
      BY <1>1 DEF OthersChange
    <3> QED
      BY <3>1, <3>2
  <2>5. UNCHANGED <<proposals, approvals, executions, effects, audited, crashes>>
    BY <1>1 DEF OthersChange
  <2> QED
    BY <2>3, <2>4, <2>5, Quiet DEF TablesOK, TypeInv, TypeOK
<1>2. ASSUME NEW c \in Sessions, Crash(c) PROVE TablesOK' /\ RowSteps
  <2>1. crashes' \in 0 .. MaxCrashes
    BY <1>2, PolicyAssumption DEF Crash, TypeInv, TypeOK
  <2> QED
    BY <1>2, <2>1, Quiet DEF Crash, TablesOK, TypeInv, TypeOK, tables
<1>3. ASSUME NEW c \in Sessions, Arrive(c) PROVE TablesOK' /\ RowSteps
  BY <1>3, Quiet DEF Arrive, Look, CheckLimit, ReadOwed, TablesOK, TypeInv, TypeOK,
     tables
<1> QED
  BY <1>1, <1>2, <1>3

\* Every step keeps the rows typed and is one of the four kinds of step.
LEMMA RowsStep ==
    ASSUME TypeInv, Next
    PROVE  TablesOK' /\ RowSteps
<1>1. ASSUME NEW c \in Sessions, Proceed(c) PROVE TablesOK' /\ RowSteps
  <2>1. CASE Reread(c) \/ (\E p \in Proposals : Look(c, p))
    BY <2>1, Quiet DEF Reread, Look, TablesOK, TypeInv, TypeOK, tables
  <2> QED
    BY <1>1, <2>1, DecideRows, ToEffectRows, FromEffectRows, ReconcilingRows,
       ReplayingRows
    DEF Proceed, ToEffect, FromEffect, Reconciling, Replaying
<1> QED
  BY <1>1, ProposalRows, WorldRows DEF Next

LEMMA TypeInit == Init => TypeInv
<1> SUFFICES ASSUME Init PROVE TypeInv
  OBVIOUS
<1>1. AbsentProposal \in Proposal
  BY DEF AbsentProposal, Proposal
<1>2. NoExecution \in Execution
  BY DEF NoExecution, Execution
<1>3. resource \in Resource
  BY DEF Init, Resource
<1>4. SessionsOK
  BY IdleTyped DEF Init, SessionsOK, Post, Idle, ExecutePhases
<1> QED
  BY <1>1, <1>2, <1>3, <1>4, IdleTyped, PolicyAssumption DEF Init, TypeInv, TypeOK

LEMMA TypeStep == TypeInv /\ [Next]_vars => TypeInv'
<1> SUFFICES ASSUME TypeInv, [Next]_vars PROVE TypeInv'
  OBVIOUS
<1>1. CASE Next
  BY <1>1, SessionsStep, RowsStep DEF TypeInv, TypeOK, TablesOK, SessionsOK
<1>2. CASE UNCHANGED vars
  BY <1>2 DEF vars, tables, TypeInv, TypeOK, SessionsOK
<1> QED
  BY <1>1, <1>2

\* The rows of all tables and the sessions of all requests are well typed.
THEOREM TypeCorrect == Spec => []TypeOK
<1>1. TypeInv => TypeOK
  BY DEF TypeInv
<1> QED
  BY <1>1, TypeInit, TypeStep, PTL DEF Spec

-----------------------------------------------------------------------------
(* Executions only close.                                                   *)

\* An execution keeps its key and outcome, but for the transitions of the table.
THEOREM ExecutionsClose == Spec => ExecutionsOnlyClose
<1> DEFINE Kept == \A p \in Proposals : Executed(p) =>
             /\ executions'[p].key = executions[p].key
             /\ \/ executions'[p].outcome = executions[p].outcome
                \/ executions'[p].outcome \in Allowed(executions[p].outcome)
<1>1. TypeInv /\ [Next]_vars => [Kept]_vars
  BY RowsStep DEF RowSteps, RowStep, Starts, Closes
<1> QED
  BY <1>1, TypeInit, TypeStep, PTL DEF Spec, ExecutionsOnlyClose

\* In particular, what is executed stays executed.
LEMMA ExecutedStays ==
    ASSUME TypeInv, Next, NEW p \in Proposals, Executed(p)
    PROVE  Executed(p)'
<1>1. Closes(p)
  BY RowsStep DEF RowSteps, RowStep, Starts
<1>2. executions[p].outcome \in Outcomes
  BY DEF TypeInv, TypeOK, Execution, Executed
<1>3. "none" \notin Allowed(executions[p].outcome)
  BY <1>2 DEF Allowed, Outcomes, Closed
<1> QED
  BY <1>1, <1>3 DEF Closes, Executed

-----------------------------------------------------------------------------
(* Consent.  The approvals of a proposal are finitely many, by different    *)
(* users who may decide; an execution has consumed enough of them.          *)

VotersOf(rows) == {a.by : a \in {b \in rows : b.decision = "approved" /\ b.consumed}}

Ballot(p) ==
    /\ IsFiniteSet(approvals[p])
    /\ \A a, b \in approvals[p] : a.by = b.by => a = b
    /\ \A a \in approvals[p] : SelfApproval \/ a.by # Requester
    /\ Executed(p) => Cardinality(VotersOf(approvals[p])) >= MinimumApprovals

Ballots == \A p \in Proposals : Ballot(p)

LEMMA VotersFinite ==
    ASSUME NEW rows, IsFiniteSet(rows) PROVE IsFiniteSet(VotersOf(rows))
<1> DEFINE consumed == {b \in rows : b.decision = "approved" /\ b.consumed}
           f == [a \in consumed |-> a.by]
<1>1. IsFiniteSet(consumed)
  BY FS_Subset
<1>2. f \in Surjection(consumed, VotersOf(rows))
  BY DEF Surjection, VotersOf
<1> QED
  BY <1>1, <1>2, FS_Surjection

LEMMA ConsumeFinite ==
    ASSUME NEW rows, IsFiniteSet(rows) PROVE IsFiniteSet(Consume(rows))
<1> DEFINE f == [a \in rows |-> Used(a)]
<1>1. f \in Surjection(rows, Consume(rows))
  BY DEF Surjection, Consume
<1> QED
  BY <1>1, FS_Surjection

\* Consuming an approval leaves its author and its decision.
LEMMA UsedKeeps ==
    ASSUME NEW a \in Approval
    PROVE  /\ Used(a).by = a.by
           /\ a.decision = "approved" =>
                 Used(a).decision = "approved" /\ Used(a).consumed
  BY DEF Used, Approval

LEMMA BallotStarts ==
    ASSUME NEW p \in Proposals, TypeInv, Ballot(p), Starts(p)
    PROVE  Ballot(p)'
<1> DEFINE rows == approvals[p]
           fresh == Unconsumed(p)
           authors == {a.by : a \in fresh}
           f == [a \in fresh |-> a.by]
<1>1. rows \in SUBSET Approval /\ approvals'[p] = Consume(rows)
  BY DEF TypeInv, TypeOK, Starts
<1>2. IsFiniteSet(rows) /\ IsFiniteSet(Consume(rows))
  BY ConsumeFinite DEF Ballot
<1>3. \A a, b \in Consume(rows) : a.by = b.by => a = b
  <2> SUFFICES ASSUME NEW a \in rows, NEW b \in rows, Used(a).by = Used(b).by
               PROVE  Used(a) = Used(b)
    BY DEF Consume
  <2>1. a.by = b.by
    BY <1>1, UsedKeeps
  <2> QED
    BY <2>1 DEF Ballot
<1>4. \A a \in Consume(rows) : SelfApproval \/ a.by # Requester
  BY <1>1, UsedKeeps DEF Ballot, Consume
<1>5. fresh \in SUBSET rows /\ (\A a \in fresh : a.decision = "approved")
  BY DEF Unconsumed, Approved
<1>6. IsFiniteSet(fresh)
  BY <1>2, <1>5, FS_Subset
<1>7. f \in Bijection(fresh, authors)
  BY <1>5 DEF Ballot, Bijection, Injection, Surjection, IsInjective
<1>8. IsFiniteSet(authors) /\ Cardinality(authors) = Cardinality(fresh)
  BY <1>6, <1>7, FS_Bijection DEF ExistsBijection
<1>9. authors \in SUBSET VotersOf(Consume(rows))
  BY <1>1, <1>5, UsedKeeps DEF VotersOf, Consume
<1>10. Cardinality(authors) <= Cardinality(VotersOf(Consume(rows)))
  BY <1>2, <1>9, VotersFinite, FS_Subset
<1>11. Cardinality(VotersOf(Consume(rows))) >= MinimumApprovals
  <2>1. Cardinality(authors) \in Nat /\ Cardinality(VotersOf(Consume(rows))) \in Nat
    BY <1>2, <1>8, VotersFinite, FS_CardinalityType
  <2>2. Cardinality(fresh) >= MinimumApprovals /\ MinimumApprovals \in Nat
    BY PolicyAssumption DEF Starts, Enough
  <2> QED
    BY <1>8, <1>10, <2>1, <2>2
<1> QED
  BY <1>1, <1>2, <1>3, <1>4, <1>11 DEF Ballot

LEMMA BallotVotes ==
    ASSUME NEW p \in Proposals, Ballot(p), Votes(p), Closes(p)
    PROVE  Ballot(p)'
<1>1. PICK a \in Approval :
         /\ approvals'[p] = approvals[p] \cup {a}
         /\ ~a.consumed
         /\ \A b \in approvals[p] : b.by # a.by
         /\ SelfApproval \/ a.by # Requester
  BY DEF Votes
<1>2. IsFiniteSet(approvals'[p])
  BY <1>1, FS_AddElement DEF Ballot
<1>3. VotersOf(approvals'[p]) = VotersOf(approvals[p])
  BY <1>1 DEF VotersOf
<1>4. Executed(p)' => Executed(p)
  BY DEF Closes, Executed
<1> QED
  BY <1>1, <1>2, <1>3, <1>4 DEF Ballot

LEMMA BallotsStep == TypeInv /\ Ballots /\ [Next]_vars => Ballots'
<1> SUFFICES ASSUME TypeInv, Ballots, [Next]_vars PROVE Ballots'
  OBVIOUS
<1>1. CASE UNCHANGED vars
  BY <1>1 DEF vars, tables, Ballots, Ballot, Executed
<1>2. CASE Next
  <2> SUFFICES ASSUME NEW p \in Proposals PROVE Ballot(p)'
    BY DEF Ballots
  <2>1. Ballot(p) /\ RowStep(p)
    BY <1>2, RowsStep DEF Ballots, RowSteps
  <2>2. CASE Starts(p)
    BY <2>1, <2>2, BallotStarts
  <2>3. CASE Closes(p) /\ Votes(p)
    BY <2>1, <2>3, BallotVotes
  <2>4. CASE Closes(p) /\ approvals'[p] = approvals[p]
    BY <2>1, <2>4 DEF Ballot, Closes, Executed
  <2> QED
    BY <2>1, <2>2, <2>3, <2>4 DEF RowStep
<1> QED
  BY <1>1, <1>2

\* Nothing is executed without enough approvals by different users who may
\* give them, whatever requests race and whether or not rows are locked.
THEOREM ConsentIsGiven == Spec => []ConsentGiven
<1>1. Init => Ballots
  BY FS_EmptySet DEF Init, Ballots, Ballot, Executed, NoExecution
<1>2. Ballots => ConsentGiven
  <2> SUFFICES ASSUME Ballots PROVE ConsentGiven
    OBVIOUS
  <2>1. \A p \in Proposals :
            VotersOf(approvals[p]) = {a.by : a \in {b \in Approved(p) : b.consumed}}
    BY DEF VotersOf, Approved
  <2>2. \A p \in Proposals : Executed(p) =>
            /\ Cardinality(VotersOf(approvals[p])) >= MinimumApprovals
            /\ SelfApproval \/ Requester \notin VotersOf(approvals[p])
    BY DEF Ballots, Ballot, VotersOf
  <2> QED
    BY <2>1, <2>2 DEF ConsentGiven
<1> QED
  BY <1>1, <1>2, TypeInit, TypeStep, BallotsStep, PTL DEF Spec

-----------------------------------------------------------------------------
(* One executor.  A request has a proposal in hand only from the moment it  *)
(* has started its execution.                                               *)

Handled == \A c \in Sessions : sessions[c].at \in InHand => Executed(On(c))

\* Request e has its proposal in hand already, or it gets hold of it by a step
\* that moves nobody else.
Keeps(e) == sessions[e].at \in InHand /\ sessions'[e].on = sessions[e].on
Grasps(e) ==
    /\ StartExecution(e) /\ CanStart(e) /\ sessions'[e].on = sessions[e].on
    /\ \A d \in Sessions \ {e} : sessions'[d] = sessions[d]
HandStep == \A e \in Sessions : sessions'[e].at \in InHand => Keeps(e) \/ Grasps(e)

LEMMA IdleHands ==
    ASSUME SessionsOK, NEW c \in Sessions, NEW new,
           new.at \notin InHand, Become(c, new)
    PROVE  HandStep
<1>1. CASE new.at = "done"
  <2> DEFINE ended == [Idle EXCEPT !.at = "done", !.on = new.on, !.reply = new.reply]
  <2>1. ended.at = "done"
    BY DEF Idle
  <2>2. ended.at \notin InHand
    BY <2>1 DEF InHand
  <2>3. sessions' = [sessions EXCEPT ![c] = ended]
    BY <1>1 DEF Become
  <2> HIDE DEF ended
  <2> QED
    BY <2>2, <2>3 DEF HandStep, Keeps, SessionsOK
<1>2. CASE new.at # "done"
  <2>1. sessions' = [sessions EXCEPT ![c] = new]
    BY <1>2 DEF Become
  <2> QED
    BY <2>1 DEF HandStep, Keeps, SessionsOK
<1> QED
  BY <1>1, <1>2

LEMMA IdleGoto ==
    ASSUME SessionsOK, NEW c \in Sessions, NEW phase, phase \notin InHand, Goto(c, phase)
    PROVE  HandStep
<1>1. [sessions[c] EXCEPT !.at = phase].at = phase
  BY DEF SessionsOK, Session
<1> QED
  BY <1>1, IdleHands DEF Goto

LEMMA IdleFinish ==
    ASSUME SessionsOK, NEW c \in Sessions, NEW reply, Finish(c, reply)
    PROVE  HandStep
<1>1. [sessions[c] EXCEPT !.at = "done", !.reply = reply].at = "done"
  BY DEF SessionsOK, Session
<1> QED
  BY <1>1, IdleHands DEF Finish, InHand

LEMMA IdleAim ==
    ASSUME SessionsOK, NEW c \in Sessions, NEW outcome, Aim(c, outcome)
    PROVE  HandStep
<1>1. [sessions[c] EXCEPT !.aim = outcome, !.at = "tally"].at = "tally"
  BY DEF SessionsOK, Session
<1> QED
  BY <1>1, IdleHands DEF Aim, InHand

\* A request that goes from hand to hand.
LEMMA HandGoto ==
    ASSUME SessionsOK, NEW c \in Sessions, sessions[c].at \in InHand,
           NEW phase \in InHand, Goto(c, phase)
    PROVE  HandStep
<1> DEFINE new == [sessions[c] EXCEPT !.at = phase]
<1>1. sessions' = [sessions EXCEPT ![c] = new]
  BY DEF Goto, Become, InHand, SessionsOK, Session
<1>2. new.on = sessions[c].on
  BY DEF SessionsOK, Session
<1> HIDE DEF new
<1> QED
  BY <1>1, <1>2 DEF HandStep, Keeps, SessionsOK

LEMMA StartHands ==
    ASSUME TypeInv, NEW c \in Sessions, StartExecution(c)
    PROVE  HandStep
<1>1. SessionsOK /\ sessions[c] \in Session
  BY DEF TypeInv, SessionsOK
<1>2. CASE CanStart(c)
  <2> DEFINE new == [sessions[c] EXCEPT !.at = "announce"]
  <2>1. new.on = sessions[c].on /\ new.at = "announce"
    BY <1>1 DEF Session
  <2>2. sessions' = [sessions EXCEPT ![c] = new]
    BY <1>2, <2>1 DEF StartExecution, Goto, Become
  <2> HIDE DEF new
  <2>3. Grasps(c)
    BY <1>1, <1>2, <2>1, <2>2 DEF Grasps, SessionsOK
  <2>4. \A d \in Sessions \ {c} : sessions'[d] = sessions[d]
    BY <1>1, <2>2 DEF SessionsOK
  <2> QED
    BY <2>3, <2>4 DEF HandStep, Keeps
<1>3. CASE ~CanStart(c)
  <2>1. Goto(c, "rival") /\ "rival" \notin InHand
    BY <1>3 DEF StartExecution, InHand
  <2> QED
    BY <1>1, <2>1, IdleGoto
<1> QED
  BY <1>2, <1>3

LEMMA JudgeIsIdle ==
    ASSUME NEW c \in Sessions \ Replayers, NEW status
    PROVE  Judge(c, status) \notin InHand
<1>1. CASE c \in Deciders
  BY <1>1 DEF Judge, InHand
<1>2. CASE c \in Cancellers
  BY <1>2, RolesAssumption DEF Judge, InHand
<1>3. CASE c \in Executors
  BY <1>3, RolesAssumption DEF Judge, InHand
<1>4. CASE c \in Reconcilers
  BY <1>4, RolesAssumption DEF Judge, InHand
<1> QED
  BY <1>1, <1>2, <1>3, <1>4 DEF Sessions

LEMMA LookHands ==
    ASSUME TypeInv, NEW c \in Sessions,
           Reread(c) \/ (\E p \in Proposals : Look(c, p))
    PROVE  HandStep
<1>1. SessionsOK /\ sessions[c] \in Session /\ Post(c, sessions[c])
  BY DEF TypeInv, SessionsOK
<1>2. c \notin Replayers
  BY <1>1, RolesAssumption DEF Look, Reread, At, Post
<1>3. CASE Reread(c)
  <2> DEFINE status == proposals[On(c)].status
             new == [sessions[c] EXCEPT !.seen = status, !.at = Judge(c, status)]
  <2>1. new.at = Judge(c, status)
    BY <1>1 DEF Session
  <2> QED
    BY <1>1, <1>2, <1>3, <2>1, JudgeIsIdle, IdleHands DEF Reread
<1>4. ASSUME NEW p \in Proposals, Look(c, p) PROVE HandStep
  <2> DEFINE status == proposals[p].status
             late == status \in Open /\ proposals[p].overdue
             phase == IF late THEN "expire" ELSE Judge(c, status)
  <2>1. PICK aim \in Aims(c) : Become(c, [sessions[c] EXCEPT
            !.on = p, !.seen = status, !.aim = aim, !.at = phase])
    BY <1>4 DEF Look
  <2>2. phase \notin InHand
    BY <1>2, JudgeIsIdle DEF InHand
  <2> HIDE DEF phase
  <2>3. [sessions[c] EXCEPT !.on = p, !.seen = status, !.aim = aim,
                            !.at = phase].at = phase
    BY <1>1 DEF Session
  <2> QED
    BY <1>1, <2>1, <2>2, <2>3, IdleHands
<1> QED
  BY <1>3, <1>4

LEMMA DecideHands ==
    ASSUME TypeInv, NEW c \in Sessions,
           Expire(c) \/ ReadToDecide(c) \/ WriteDecision(c) \/ Cancel(c)
    PROVE  HandStep
<1>1. Goto(c, "reread") \/ Goto(c, "write") \/ Finish(c, "none")
  BY DEF Expire, ReadToDecide, WriteDecision, Cancel
<1> QED
  BY <1>1, IdleGoto, IdleFinish DEF TypeInv, InHand

LEMMA ToEffectHands ==
    ASSUME TypeInv, NEW c \in Sessions, ToEffect(c)
    PROVE  HandStep
<1>1. CASE StartExecution(c)
  BY <1>1, StartHands
<1>2. ASSUME \E phase : phase \notin InHand /\ Goto(c, phase) PROVE HandStep
  BY <1>2, IdleGoto DEF TypeInv
<1>3. ASSUME \E reply : Finish(c, reply) PROVE HandStep
  BY <1>3, IdleFinish DEF TypeInv
<1>4. CASE Check(c)
  BY <1>2, <1>3, <1>4 DEF Check, InHand
<1>5. CASE Consent(c)
  BY <1>2, <1>3, <1>5 DEF Consent, InHand
<1>6. CASE Prepare(c)
  BY <1>2, <1>6 DEF Prepare, InHand
<1>7. CASE Drift(c)
  BY <1>2, <1>3, <1>7 DEF Drift, InHand
<1>8. CASE Outdate(c)
  BY <1>2, <1>8 DEF Outdate, InHand
<1>9. CASE Excuse(c) \/ Rival(c)
  BY <1>3, <1>9 DEF Excuse, Rival
<1>10. CASE ReadToStart(c)
  BY <1>2, <1>10 DEF ReadToStart, InHand
<1> QED
  BY <1>1, <1>4, <1>5, <1>6, <1>7, <1>8, <1>9, <1>10 DEF ToEffect

LEMMA FromEffectHands ==
    ASSUME TypeInv, NEW c \in Sessions, FromEffect(c)
    PROVE  HandStep
<1>1. SessionsOK /\ sessions[c] \in Session
  BY DEF TypeInv, SessionsOK
<1>2. CASE Announce(c)
  BY <1>1, <1>2, HandGoto DEF Announce, At, InHand
<1>3. CASE Apply(c)
  <2>1. (\E outcome : Aim(c, outcome)) \/ Goto(c, "mark")
    BY <1>3 DEF Apply
  <2> QED
    BY <1>1, <1>3, <2>1, IdleAim, HandGoto DEF Apply, At, InHand
<1>4. CASE Tally(c)
  <2> DEFINE owed == sessions[c].owed \/ executions[On(c)].owed
  <2>1. Become(c, [sessions[c] EXCEPT !.owed = owed, !.at = "save"])
    BY <1>4 DEF Tally
  <2> HIDE DEF owed
  <2>2. [sessions[c] EXCEPT !.owed = owed, !.at = "save"].at = "save"
    BY <1>1 DEF Session
  <2> QED
    BY <1>1, <2>1, <2>2, IdleHands DEF InHand
<1>5. CASE Save(c)
  <2>1. Goto(c, "conclude") \/ Finish(c, "none")
    BY <1>5 DEF Save
  <2> QED
    BY <1>1, <2>1, IdleGoto, IdleFinish DEF InHand
<1>6. CASE Conclude(c)
  <2>1. \E reply : Finish(c, reply)
    BY <1>6 DEF Conclude
  <2> QED
    BY <1>1, <2>1, IdleFinish
<1>7. CASE MarkStale(c)
  <2>1. Goto(c, "excuse") \/ Finish(c, "none")
    BY <1>7 DEF MarkStale
  <2> QED
    BY <1>1, <2>1, IdleGoto, IdleFinish DEF InHand
<1> QED
  BY <1>2, <1>3, <1>4, <1>5, <1>6, <1>7 DEF FromEffect

LEMMA ReconcilingHands ==
    ASSUME TypeInv, NEW c \in Sessions, Reconciling(c)
    PROVE  HandStep
<1>1. SessionsOK /\ sessions[c] \in Session
  BY DEF TypeInv, SessionsOK
<1>2. ASSUME \E reply : Finish(c, reply) PROVE HandStep
  BY <1>1, <1>2, IdleFinish
<1>3. CASE ReadExecution(c)
  <2> DEFINE x == executions[On(c)]
             new == [sessions[c] EXCEPT !.owed = x.owed, !.at = "count"]
  <2>1. new.at = "count"
    BY <1>1 DEF Session
  <2>2. Become(c, new) \/ Finish(c, x.outcome)
    BY <1>3 DEF ReadExecution
  <2> QED
    BY <1>1, <1>2, <2>1, <2>2, IdleHands DEF InHand
<1>4. CASE CountAttempts(c)
  <2> DEFINE new == [sessions[c] EXCEPT
             !.tries = executions[On(c)].attempts, !.at = "bump"]
  <2>1. new.at = "bump"
    BY <1>1 DEF Session
  <2> QED
    BY <1>1, <1>4, <2>1, IdleHands DEF CountAttempts, InHand
<1>5. CASE BumpAttempts(c)
  BY <1>1, <1>5, IdleGoto DEF BumpAttempts, InHand
<1>6. CASE Ask(c)
  <2>1. Aim(c, "succeeded") \/ Goto(c, "keep") \/ Finish(c, "none")
    BY <1>6 DEF Ask
  <2> QED
    BY <1>1, <1>2, <2>1, IdleAim, IdleGoto DEF InHand
<1>7. CASE Keep(c)
  BY <1>2, <1>7 DEF Keep
<1> QED
  BY <1>3, <1>4, <1>5, <1>6, <1>7 DEF Reconciling

LEMMA OtherHands ==
    ASSUME TypeInv, NEW c \in Sessions, Replaying(c) \/ Arrive(c) \/ Crash(c)
    PROVE  HandStep
<1>1. SessionsOK /\ sessions[c] \in Session
  BY DEF TypeInv, SessionsOK
<1>2. CASE Replay(c)
  <2>1. PICK stored \in BOOLEAN : Become(c, [sessions[c] EXCEPT
               !.owed = stored, !.at = "record"])
    BY <1>2 DEF Replay
  <2>2. [sessions[c] EXCEPT !.owed = stored, !.at = "record"].at = "record"
    BY <1>1 DEF Session
  <2> QED
    BY <1>1, <2>1, <2>2, IdleHands DEF InHand
<1>3. CASE RecordReplay(c) \/ Crash(c)
  BY <1>1, <1>3, IdleFinish DEF RecordReplay, Crash
<1>4. ASSUME NEW p \in Proposals, CheckLimit(c, p) PROVE HandStep
  <2>1. PICK phase \in {"done", "look"} : Become(c, [sessions[c] EXCEPT
               !.on = p, !.at = phase])
    BY <1>4 DEF CheckLimit
  <2>2. [sessions[c] EXCEPT !.on = p, !.at = phase].at = phase
    BY <1>1 DEF Session
  <2> QED
    BY <1>1, <2>1, <2>2, IdleHands DEF InHand
<1>5. ASSUME NEW p \in Proposals, ReadOwed(c, p) PROVE HandStep
  <2>1. PICK phase \in {"done", "replay"} : Become(c, [sessions[c] EXCEPT
               !.on = p, !.seen = executions[p].outcome, !.at = phase])
    BY <1>5 DEF ReadOwed
  <2>2. [sessions[c] EXCEPT !.on = p, !.seen = executions[p].outcome,
                            !.at = phase].at = phase
    BY <1>1 DEF Session
  <2> QED
    BY <1>1, <2>1, <2>2, IdleHands DEF InHand
<1> QED
  BY <1>2, <1>3, <1>4, <1>5, LookHands DEF Replaying, Arrive

LEMMA HandsStep ==
    ASSUME TypeInv, Next
    PROVE  HandStep
<1>1. ASSUME sessions' = sessions PROVE HandStep
  BY <1>1 DEF HandStep, Keeps
<1>2. CASE OthersChange \/ (\E p \in Proposals :
              Propose(p) \/ TimePasses(p) \/ ReadProposals(p))
  BY <1>1, <1>2 DEF Propose, TimePasses, ReadProposals, OthersChange
<1>3. ASSUME NEW c \in Sessions, Proceed(c) PROVE HandStep
  BY <1>3, LookHands, DecideHands, ToEffectHands, FromEffectHands,
     ReconcilingHands, OtherHands
  DEF Proceed, ToEffect, FromEffect, Reconciling, Replaying
<1> QED
  BY <1>2, <1>3, OtherHands DEF Next

LEMMA HandledStep == TypeInv /\ Handled /\ OneExecutor /\ [Next]_vars
                     => Handled' /\ OneExecutor'
<1> SUFFICES ASSUME TypeInv, Handled, OneExecutor, [Next]_vars
             PROVE  Handled' /\ OneExecutor'
  OBVIOUS
<1>1. CASE UNCHANGED vars
  BY <1>1 DEF vars, tables, Handled, OneExecutor, Executed, On
<1>2. CASE Next
  <2>1. HandStep
    BY <1>2, HandsStep
  <2>2. ASSUME NEW c \in Sessions, sessions'[c].at \in InHand
        PROVE  Executed(On(c))'
    <3>1. CASE Keeps(c)
      <4>1. On(c) \in Proposals /\ Executed(On(c)) /\ On(c)' = On(c)
        BY <3>1, Known DEF Keeps, Handled, At, InHand, TypeInv, On
      <4> QED
        BY <1>2, <4>1, ExecutedStays DEF Executed
    <3>2. CASE Grasps(c)
      <4>1. On(c) \in Proposals
        BY <3>2, Known DEF Grasps, StartExecution, At, TypeInv
      <4>2. executions'[On(c)].outcome = "executing" /\ On(c)' = On(c)
        BY <3>2, <4>1 DEF Grasps, StartExecution, TypeInv, TypeOK, On
      <4> QED
        BY <4>2 DEF Executed
    <3> QED
      BY <2>1, <2>2, <3>1, <3>2 DEF HandStep
  <2>3. ASSUME NEW d \in Executors, NEW e \in Executors, d # e,
               sessions'[d].at \in InHand, sessions'[e].at \in InHand,
               sessions'[d].on = sessions'[e].on
        PROVE  FALSE
    <3>1. d \in Sessions /\ e \in Sessions
      BY DEF Sessions
    <3>2. CASE Keeps(d) /\ Keeps(e)
      BY <2>3, <3>2 DEF Keeps, OneExecutor, On
    <3>3. CASE Grasps(d) \/ Grasps(e)
      <4>1. PICK g \in {d, e}, h \in {d, e} : g # h /\ Grasps(g)
        BY <2>3, <3>3
      <4>2. sessions'[h] = sessions[h] /\ sessions[h].at \in InHand
        BY <2>3, <3>1, <4>1 DEF Grasps
      <4>3. Executed(On(h)) /\ On(h) = On(g)
        BY <2>3, <3>1, <4>1, <4>2 DEF Handled, Grasps, On
      <4> QED
        BY <4>1, <4>3 DEF Grasps, CanStart
    <3> QED
      BY <2>1, <2>3, <3>1, <3>2, <3>3 DEF HandStep
  <2> QED
    BY <2>2, <2>3 DEF Handled, OneExecutor, On
<1> QED
  BY <1>1, <1>2

\* Two requests never have one proposal in hand, though start_execution and
\* cancel, expiry and decide overwrite each other's status.
THEOREM OneExecutorOnly == Spec => []OneExecutor
<1>1. Init => Handled /\ OneExecutor
  BY DEF Init, Handled, OneExecutor, Idle, InHand, Sessions
<1> QED
  BY <1>1, TypeInit, TypeStep, HandledStep, PTL DEF Spec

-----------------------------------------------------------------------------
(* Duties.  What each request may rely on in its phase, given the rows of   *)
(* the proposals (pr) and executions (ex), the effects (ef) and the drifts. *)

\* The change that p asks for was made, by it or by another proposal.
Shown(p, ef, dr) ==
    dr = 0 => \E q \in Proposals : TargetOf[q] = TargetOf[p] /\ ef[q] > 0

\* Request c may answer with this execution.
Answers(c, reply, x) == c \in Executors /\ reply # "none" =>
    /\ x.key = KeyOf[c] /\ x.outcome # "none"
    /\ reply = "succeeded" => x.outcome = "succeeded"

Closing == {"tally", "save", "conclude"}
Counting == {"count", "bump", "ask"}
ReconcilePhases == Counting \cup {"open", "keep"}
Dutiful ==
    {"expire", "cancel", "write", "start"} \cup InHand \cup Closing \cup ReconcilePhases

Duty(c, s, pr, ex, ef, dr) ==
    /\ s.at # "done" => s.reply = "none"
    /\ s.reply # "none" => s.on \in Proposals
    /\ s.at \in {"expire", "cancel"} => s.seen \in Open
    /\ s.at \in {"write", "start"} => pr[s.on].status # "absent"
    /\ RowLocks =>
          /\ s.at = "write" => pr[s.on].status = "pending_approval"
          /\ s.at = "start" => pr[s.on].status = "approved"
    /\ s.at \in Counting \cup Closing \cup InHand => ex[s.on].outcome # "none"
    /\ s.at \in ReconcilePhases => c \notin Executors
    /\ s.at \in InHand => ex[s.on].outcome # "failed" /\ ef[s.on] = 0
    /\ s.at \in Closing \cup InHand /\ c \in Executors => ex[s.on].key = KeyOf[c]
    /\ s.at \in {"tally", "save"} /\ s.aim = "succeeded" => Shown(s.on, ef, dr)
    /\ s.at = "conclude" /\ s.aim = "succeeded" => ex[s.on].outcome = "succeeded"
    /\ Answers(c, s.reply, ex[s.on])

OnDuty(c) == Duty(c, sessions[c], proposals, executions, effects, drifts)
Duties == \A c \in Sessions : OnDuty(c)

\* Only request c moves, it does its duty afterwards, and takes no locked row.
Turn(c) ==
    /\ \A d \in Sessions \ {c} : sessions'[d] = sessions[d]
    /\ Duty(c, sessions'[c], proposals', executions', effects', drifts')
    /\ sessions'[c].at \in {"write", "start"} => Unlocked(c, sessions'[c].on)

\* Most phases come without a duty.
LEMMA NoDuty ==
    ASSUME NEW c, NEW s, NEW pr, NEW ex, NEW ef, NEW dr,
           s.at \notin Dutiful, s.reply = "none"
    PROVE  Duty(c, s, pr, ex, ef, dr)
  BY DEF Duty, Dutiful, InHand, Closing, Counting, ReconcilePhases, Answers

LEMMA BecomeTurn ==
    ASSUME SessionsOK, NEW c \in Sessions, NEW new \in Session, Become(c, new),
           Duty(c, new, proposals', executions', effects', drifts'),
           new.at \in {"write", "start"} => Unlocked(c, new.on)
    PROVE  Turn(c)
<1>1. CASE new.at = "done"
  <2> DEFINE ended == [Idle EXCEPT !.at = "done", !.on = new.on, !.reply = new.reply]
  <2>1. ended.at = "done" /\ ended.on = new.on /\ ended.reply = new.reply
    BY DEF Idle
  <2>2. sessions' = [sessions EXCEPT ![c] = ended]
    BY <1>1 DEF Become
  <2> HIDE DEF ended
  <2>3. sessions'[c] = ended /\ (\A d \in Sessions \ {c} : sessions'[d] = sessions[d])
    BY <2>2 DEF SessionsOK
  <2>4. Duty(c, ended, proposals', executions', effects', drifts')
    BY <2>1 DEF Duty, InHand, Closing, Counting, ReconcilePhases
  <2> QED
    BY <2>1, <2>3, <2>4 DEF Turn
<1>2. CASE new.at # "done"
  <2>1. sessions' = [sessions EXCEPT ![c] = new]
    BY <1>2 DEF Become
  <2>2. sessions'[c] = new /\ (\A d \in Sessions \ {c} : sessions'[d] = sessions[d])
    BY <2>1 DEF SessionsOK
  <2> QED
    BY <2>2 DEF Turn
<1> QED
  BY <1>1, <1>2

\* A request that still works has not answered yet.
LEMMA GotoTurn ==
    ASSUME SessionsOK, NEW c \in Sessions, OnDuty(c), ~At(c, "done"),
           NEW phase \in Phases \ Dutiful, Goto(c, phase)
    PROVE  Turn(c)
<1> DEFINE new == [sessions[c] EXCEPT !.at = phase]
<1>1. new \in Session /\ new.at = phase /\ new.reply = sessions[c].reply
  BY DEF SessionsOK, Session
<1>2. Become(c, new)
  BY DEF Goto
<1>3. new.reply = "none"
  BY <1>1 DEF OnDuty, Duty, At
<1> HIDE DEF new
<1>4. Duty(c, new, proposals', executions', effects', drifts')
  BY <1>1, <1>3, NoDuty
<1> QED
  BY <1>1, <1>2, <1>4, BecomeTurn DEF Dutiful

LEMMA FinishTurn ==
    ASSUME SessionsOK, NEW c \in Sessions, NEW reply \in Outcomes \cup {"none"},
           Finish(c, reply), reply # "none" => On(c) \in Proposals,
           Answers(c, reply, executions'[On(c)])
    PROVE  Turn(c)
<1> DEFINE new == [sessions[c] EXCEPT !.at = "done", !.reply = reply]
<1>1. /\ new \in Session /\ new.at = "done" /\ new.reply = reply
      /\ new.on = On(c)
  BY ZenonT(40) DEF SessionsOK, Session, Phases, On
<1>2. Become(c, new)
  BY DEF Finish
<1> HIDE DEF new
<1>3. Duty(c, new, proposals', executions', effects', drifts')
  BY <1>1 DEF Duty, InHand, Closing, Counting, ReconcilePhases
<1> QED
  BY <1>1, <1>2, <1>3, BecomeTurn

LEMMA QuitTurn ==
    ASSUME SessionsOK, NEW c \in Sessions, Finish(c, "none")
    PROVE  Turn(c)
  BY FinishTurn DEF Answers

\* A request learns the result of the effect.
LEMMA AimTurn ==
    ASSUME SessionsOK, NEW c \in Sessions, OnDuty(c), NEW outcome \in Endings,
           sessions[c].at \in {"apply", "ask"},
           UNCHANGED executions, Aim(c, outcome),
           outcome = "succeeded" => Shown(On(c), effects', drifts')
    PROVE  Turn(c)
<1> DEFINE new == [sessions[c] EXCEPT !.aim = outcome, !.at = "tally"]
<1>1. /\ new \in Session /\ new.at = "tally" /\ new.aim = outcome
      /\ new.on = On(c) /\ new.reply = sessions[c].reply
  <2>1. outcome \in Statuses /\ "tally" \in Phases
    BY DEF Endings, Statuses, Closed, Phases
  <2> QED
    BY <2>1 DEF SessionsOK, Session, On
<1>2. Become(c, new)
  BY DEF Aim
<1>3. /\ sessions[c].reply = "none" /\ executions[On(c)].outcome # "none"
      /\ c \in Executors => executions[On(c)].key = KeyOf[c]
  BY DEF OnDuty, Duty, InHand, Closing, Counting, ReconcilePhases, On, At
<1> HIDE DEF new
<1>4. Duty(c, new, proposals', executions', effects', drifts')
  BY <1>1, <1>3 DEF Duty, InHand, Closing, Counting, ReconcilePhases, Answers
<1> QED
  BY <1>1, <1>2, <1>4, BecomeTurn

\* What request c finds when it has read the status of its proposal.
LEMMA JudgeTurn ==
    ASSUME TypeInv, NEW c \in Sessions \ Replayers, NEW status, NEW new \in Session,
           new.seen = status, new.at = Judge(c, status), new.reply = "none",
           Become(c, new)
    PROVE  Turn(c)
<1>1. SessionsOK /\ c \in Sessions
  BY DEF TypeInv
<1>2. \/ new.at \in {"decide", "check", "done"}
      \/ new.at = "cancel" /\ status \in Open
      \/ new.at = "open" /\ c \notin Executors
  <2>1. CASE c \in Deciders
    <3>1. \/ Judge(c, status) = "decide"
          \/ Judge(c, status) = "done"
      BY <2>1, RolesAssumption DEF Judge
    <3> QED
      BY <3>1
  <2>2. CASE c \in Cancellers
    BY <2>2, RolesAssumption DEF Judge
  <2>3. CASE c \in Executors
    BY <2>3, RolesAssumption DEF Judge
  <2>4. CASE c \in Reconcilers
    BY <2>4, RolesAssumption DEF Judge
  <2> QED
    BY <2>1, <2>2, <2>3, <2>4 DEF Sessions
<1>3. Duty(c, new, proposals', executions', effects', drifts')
  BY <1>2 DEF Duty, InHand, Closing, Counting, ReconcilePhases, Answers
<1> QED
  BY <1>1, <1>2, <1>3, BecomeTurn

LEMMA LookTurn ==
    ASSUME TypeInv, NEW c \in Sessions, OnDuty(c), NEW p \in Proposals, Look(c, p)
    PROVE  Turn(c)
<1> DEFINE status == proposals[p].status
           late == status \in Open /\ proposals[p].overdue
           phase == IF late THEN "expire" ELSE Judge(c, status)
<1>1. SessionsOK /\ sessions[c] \in Session /\ Post(c, sessions[c])
  BY DEF TypeInv, SessionsOK
<1>2. status \in Statuses
  BY DEF TypeInv, TypeOK, Proposal, Look
<1>3. c \notin Replayers
  BY <1>1, RolesAssumption DEF Look, At, Post
<1>4. PICK aim \in Aims(c) : Become(c, [sessions[c] EXCEPT
          !.on = p, !.seen = status, !.aim = aim, !.at = phase])
  BY DEF Look
<1> DEFINE new == [sessions[c] EXCEPT
          !.on = p, !.seen = status, !.aim = aim, !.at = phase]
<1>5. aim \in Statuses
  BY DEF Aims, Statuses, Open, Closed
<1>6. phase \in Phases
  BY <1>2, <1>3, JudgeIsPhase DEF Phases
<1>7. /\ new \in Session /\ new.seen = status /\ new.at = phase
      /\ new.reply = sessions[c].reply
  BY <1>1, <1>2, <1>5, <1>6 DEF Session
<1>8. new.reply = "none"
  BY <1>7 DEF Look, At, OnDuty, Duty
<1>9. Become(c, new)
  BY <1>4
<1> HIDE DEF new
<1>10. CASE late
  <2>1. Duty(c, new, proposals', executions', effects', drifts')
    BY <1>7, <1>8, <1>10 DEF Duty, InHand, Closing, Counting, ReconcilePhases, Answers
  <2> QED
    BY <1>1, <1>7, <1>9, <1>10, <2>1, BecomeTurn
<1>11. CASE ~late
  BY <1>3, <1>7, <1>8, <1>9, <1>11, JudgeTurn
<1> QED
  BY <1>10, <1>11

LEMMA RereadTurn ==
    ASSUME TypeInv, NEW c \in Sessions, OnDuty(c), Reread(c)
    PROVE  Turn(c)
<1> DEFINE status == proposals[On(c)].status
           new == [sessions[c] EXCEPT !.seen = status, !.at = Judge(c, status)]
<1>1. sessions[c] \in Session /\ Post(c, sessions[c])
  BY DEF TypeInv, SessionsOK
<1>2. sessions[c].on \in Proposals /\ c \notin Replayers
  BY <1>1 DEF Reread, At, Post
<1>3. status \in Statuses \cup {"absent"}
  BY <1>2 DEF TypeInv, TypeOK, Proposal, On
<1>4. /\ new \in Session /\ new.seen = status /\ new.at = Judge(c, status)
      /\ new.reply = sessions[c].reply
  BY <1>1, <1>2, <1>3, JudgeIsPhase DEF Session
<1>5. new.reply = "none"
  BY <1>4 DEF Reread, At, OnDuty, Duty
<1>6. Become(c, new)
  BY DEF Reread
<1> HIDE DEF new
<1> QED
  BY <1>2, <1>4, <1>5, <1>6, JudgeTurn

LEMMA DecideTurn ==
    ASSUME TypeInv, NEW c \in Sessions, OnDuty(c),
           Expire(c) \/ ReadToDecide(c) \/ WriteDecision(c) \/ Cancel(c)
    PROVE  Turn(c)
<1>1. SessionsOK /\ sessions[c] \in Session
  BY DEF TypeInv, SessionsOK
<1>2. CASE Expire(c)
  <2>1. Goto(c, "reread") /\ ~At(c, "done") /\ "reread" \in Phases \ Dutiful
    BY <1>2 DEF Expire, At, Phases, Dutiful, InHand, Closing, Counting, ReconcilePhases
  <2> QED
    BY <1>1, <2>1, GotoTurn
<1>3. CASE ReadToDecide(c)
  <2>1. CASE Finish(c, "none")
    BY <1>1, <2>1, QuitTurn
  <2>2. CASE Goto(c, "write")
    <3> DEFINE new == [sessions[c] EXCEPT !.at = "write"]
    <3>1. /\ new \in Session /\ new.at = "write" /\ new.on = On(c)
          /\ new.reply = sessions[c].reply
      BY <1>1 DEF Session, Phases, On
    <3>2. Become(c, new) /\ sessions[c].reply = "none" /\ Unlocked(c, On(c))
      BY <1>3, <2>2 DEF Goto, ReadToDecide, OnDuty, Duty, At
    <3>3. proposals'[On(c)].status = "pending_approval"
      <4>1. CASE proposals[On(c)].status = "pending_approval"
        BY <1>3, <4>1 DEF ReadToDecide, tables
      <4>2. CASE proposals[On(c)].status # "pending_approval"
        <5>1. Finish(c, "none")
          BY <1>3, <4>2 DEF ReadToDecide
        <5>2. sessions'[c].at = "done"
          BY <1>1, <5>1 DEF Finish, Become, Session, SessionsOK, Idle
        <5>3. sessions'[c].at = "write"
          BY <1>1, <2>2 DEF Goto, Become, Session, SessionsOK
        <5> QED
          BY <5>2, <5>3
      <4> QED
        BY <4>1, <4>2
    <3> HIDE DEF new
    <3>4. Duty(c, new, proposals', executions', effects', drifts')
      BY <3>1, <3>2, <3>3 DEF Duty, InHand, Closing, Counting, ReconcilePhases, Answers
    <3> QED
      BY <1>1, <3>1, <3>2, <3>4, BecomeTurn
  <2> QED
    BY <1>3, <2>1, <2>2 DEF ReadToDecide
<1>4. CASE WriteDecision(c) \/ Cancel(c)
  BY <1>1, <1>4, QuitTurn DEF WriteDecision, Cancel
<1> QED
  BY <1>2, <1>3, <1>4

\* The rows of proposal p: no effect but that of its one execution, whose
\* success the resource shows, or has shown.
Effect(p, pr, ex, ef, dr, res) ==
    /\ ef[p] <= 1
    /\ ex[p].outcome \in {"none", "failed"} => ef[p] = 0
    /\ ex[p].outcome # "none" => pr[p].status # "absent"
    /\ ex[p].outcome = "succeeded" => Shown(p, ef, dr)
    /\ pr[p].status # "absent" /\ res.value = TargetOf[p] => Shown(p, ef, dr)

Effects == \A p \in Proposals :
    Effect(p, proposals, executions, effects, drifts, resource)

LEMMA AnswerHolds ==
    ASSUME NEW c \in Sessions, NEW returned \in SUBSET Outcomes
    PROVE  Answers(c, Answer(c, returned), executions[On(c)])
  BY DEF Answers, Answer, Outcomes

LEMMA StartTurn ==
    ASSUME TypeInv, Effects, NEW c \in Sessions, OnDuty(c), StartExecution(c)
    PROVE  Turn(c)
<1>1. SessionsOK /\ sessions[c] \in Session /\ On(c) \in Proposals
  BY Known DEF TypeInv, SessionsOK, StartExecution, At
<1>2. CASE CanStart(c)
  <2> DEFINE new == [sessions[c] EXCEPT !.at = "announce"]
  <2>1. /\ new \in Session /\ new.at = "announce" /\ new.on = On(c)
        /\ new.reply = sessions[c].reply
    BY <1>1 DEF Session, Phases, On
  <2>2. Become(c, new) /\ sessions[c].reply = "none"
    BY <1>2 DEF Goto, StartExecution, OnDuty, Duty, At
  <2>3. executions'[On(c)].outcome = "executing" /\ executions'[On(c)].key = KeyOf[c]
    BY <1>1, <1>2 DEF StartExecution, TypeInv, TypeOK
  <2>4. effects'[On(c)] = 0
    BY <1>1, <1>2 DEF StartExecution, CanStart, Executed, Effects, Effect
  <2> HIDE DEF new
  <2>5. Duty(c, new, proposals', executions', effects', drifts')
    BY <2>1, <2>2, <2>3, <2>4
    DEF Duty, InHand, Closing, Counting, ReconcilePhases, Answers
  <2> QED
    BY <1>1, <2>1, <2>2, <2>5, BecomeTurn
<1>3. CASE ~CanStart(c)
  <2>1. Goto(c, "rival") /\ ~At(c, "done") /\ "rival" \in Phases \ Dutiful
    BY <1>3 DEF StartExecution, At, Phases, Dutiful, InHand, Closing, Counting,
       ReconcilePhases
  <2> QED
    BY <1>1, <2>1, GotoTurn
<1> QED
  BY <1>2, <1>3

LEMMA ReadToStartTurn ==
    ASSUME TypeInv, NEW c \in Sessions, OnDuty(c), ReadToStart(c)
    PROVE  Turn(c)
<1>1. SessionsOK /\ sessions[c] \in Session
  BY DEF TypeInv, SessionsOK
<1>2. CASE Goto(c, "rival")
  <2>1. ~At(c, "done") /\ "rival" \in Phases \ Dutiful
    BY DEF ReadToStart, At, Phases, Dutiful, InHand, Closing, Counting, ReconcilePhases
  <2> QED
    BY <1>1, <1>2, <2>1, GotoTurn
<1>3. CASE Goto(c, "start") /\ proposals[On(c)].status = "approved"
  <2> DEFINE new == [sessions[c] EXCEPT !.at = "start"]
  <2>1. /\ new \in Session /\ new.at = "start" /\ new.on = On(c)
        /\ new.reply = sessions[c].reply
    BY <1>1 DEF Session, Phases, On
  <2>2. Become(c, new) /\ sessions[c].reply = "none" /\ Unlocked(c, On(c))
    BY <1>3 DEF Goto, ReadToStart, OnDuty, Duty, At
  <2>3. proposals'[On(c)].status = "approved"
    BY <1>3 DEF ReadToStart, tables
  <2> HIDE DEF new
  <2>4. Duty(c, new, proposals', executions', effects', drifts')
    BY <2>1, <2>2, <2>3 DEF Duty, InHand, Closing, Counting, ReconcilePhases, Answers
  <2> QED
    BY <1>1, <2>1, <2>2, <2>4, BecomeTurn
<1> QED
  BY <1>2, <1>3 DEF ReadToStart

LEMMA ToEffectTurn ==
    ASSUME TypeInv, Effects, NEW c \in Sessions, OnDuty(c), ToEffect(c)
    PROVE  Turn(c)
<1>1. SessionsOK /\ sessions[c].at \in ExecutePhases
  BY DEF TypeInv, ToEffect, Check, Consent, Prepare, Drift, Outdate, Excuse,
     ReadToStart, StartExecution, Rival, At, ExecutePhases
<1>2. c \in Executors /\ On(c) \in Proposals /\ ~At(c, "done")
  BY <1>1, Known DEF At, ExecutePhases
<1>3. ASSUME \E returned \in SUBSET Outcomes : Finish(c, Answer(c, returned)),
             UNCHANGED executions
      PROVE  Turn(c)
  <2>1. PICK returned \in SUBSET Outcomes : Finish(c, Answer(c, returned))
    BY <1>3
  <2>2. Answer(c, returned) \in Outcomes \cup {"none"}
    BY <1>2, AnswerTyped
  <2>3. Answers(c, Answer(c, returned), executions'[On(c)])
    BY <1>3, AnswerHolds
  <2> QED
    BY <1>1, <1>2, <2>1, <2>2, <2>3, FinishTurn
<1>4. ASSUME \E phase \in Phases \ Dutiful : Goto(c, phase) PROVE Turn(c)
  BY <1>1, <1>2, <1>4, GotoTurn
<1>5. ASSUME Finish(c, "none") PROVE Turn(c)
  BY <1>1, <1>5, QuitTurn
<1>6. {"consent", "prepare", "drift", "outdate", "excuse", "begin", "rival", "done"}
          \subseteq Phases \ Dutiful
  BY DEF Phases, Dutiful, InHand, Closing, Counting, ReconcilePhases
<1>7. CASE Check(c)
  <2>1. \/ Goto(c, "consent") \/ Goto(c, "excuse") \/ Goto(c, "done")
        \/ Finish(c, Answer(c, {"succeeded", "failed"}))
    BY <1>7 DEF Check
  <2>2. UNCHANGED executions /\ {"succeeded", "failed"} \in SUBSET Outcomes
    BY <1>7 DEF Check, tables, Outcomes
  <2> QED
    BY <1>3, <1>4, <1>6, <2>1, <2>2
<1>8. CASE Consent(c)
  BY <1>4, <1>5, <1>6, <1>8 DEF Consent
<1>9. CASE Prepare(c)
  BY <1>4, <1>6, <1>9 DEF Prepare
<1>10. CASE Drift(c)
  BY <1>4, <1>5, <1>6, <1>10 DEF Drift
<1>11. CASE Outdate(c)
  BY <1>4, <1>6, <1>11 DEF Outdate
<1>12. CASE Excuse(c)
  <2>1. UNCHANGED executions /\ {"succeeded"} \in SUBSET Outcomes
    BY <1>12 DEF Excuse, tables, Outcomes
  <2> QED
    BY <1>3, <1>12, <2>1 DEF Excuse
<1>13. CASE Rival(c)
  <2>1. UNCHANGED executions /\ Outcomes \ {"executing"} \in SUBSET Outcomes
    BY <1>13 DEF Rival, tables
  <2> QED
    BY <1>3, <1>13, <2>1 DEF Rival
<1> QED
  BY <1>7, <1>8, <1>9, <1>10, <1>11, <1>12, <1>13, StartTurn, ReadToStartTurn
  DEF ToEffect

\* A request on its way from the effect to the end of its execution: its row
\* keeps key and outcome.
LEMMA HandOver ==
    ASSUME TypeInv, NEW c \in Sessions, OnDuty(c), NEW phase \in InHand,
           sessions[c].at \in InHand, UNCHANGED effects, Goto(c, phase),
           executions'[On(c)].key = executions[On(c)].key,
           executions'[On(c)].outcome = executions[On(c)].outcome
    PROVE  Turn(c)
<1> DEFINE new == [sessions[c] EXCEPT !.at = phase]
<1>1. SessionsOK /\ sessions[c] \in Session
  BY DEF TypeInv, SessionsOK
<1>2. /\ new \in Session /\ new.at = phase /\ new.on = On(c)
      /\ new.reply = sessions[c].reply
  BY <1>1 DEF Session, Phases, InHand, On
<1>3. Become(c, new)
  BY DEF Goto
<1>4. /\ sessions[c].reply = "none"
      /\ executions[On(c)].outcome \notin {"none", "failed"}
      /\ effects[On(c)] = 0
      /\ c \in Executors => executions[On(c)].key = KeyOf[c]
  BY DEF OnDuty, Duty, On, InHand
<1> HIDE DEF new
<1>5. Duty(c, new, proposals', executions', effects', drifts')
  BY <1>2, <1>4 DEF Duty, InHand, Closing, Counting, ReconcilePhases, Answers
<1> QED
  BY <1>1, <1>2, <1>3, <1>5, BecomeTurn DEF InHand

LEMMA OwedKeeps ==
    ASSUME TypeInv, NEW p \in Proposals, NEW owed, SetOwed(p, owed)
    PROVE  /\ executions'[p].key = executions[p].key
           /\ executions'[p].outcome = executions[p].outcome
  BY DEF SetOwed, TypeInv, TypeOK, Execution

LEMMA ApplyTurn ==
    ASSUME TypeInv, NEW c \in Sessions, OnDuty(c), Apply(c)
    PROVE  Turn(c)
<1> DEFINE p == On(c)
<1>1. p \in Proposals /\ UNCHANGED <<proposals, executions, drifts>> /\ SessionsOK
  BY Known DEF Apply, At, TypeInv
<1>2. CASE Aim(c, "reconciliation_required")
  BY <1>1, <1>2, AimTurn DEF Apply, At, Endings
<1>3. CASE Aim(c, "succeeded") /\ effects' = [effects EXCEPT ![p] = @ + 1]
  <2>1. effects'[p] > 0
    BY <1>1, <1>3 DEF TypeInv, TypeOK
  <2>2. Shown(p, effects', drifts')
    BY <1>1, <2>1 DEF Shown
  <2> QED
    BY <1>1, <1>3, <2>2, AimTurn DEF Apply, At, Endings
<1>4. CASE Goto(c, "mark") /\ UNCHANGED effects
  BY <1>1, <1>4, HandOver DEF Apply, At, InHand
<1> QED
  BY <1>2, <1>3, <1>4 DEF Apply

LEMMA SaveTurn ==
    ASSUME TypeInv, NEW c \in Sessions, OnDuty(c), Save(c)
    PROVE  Turn(c)
<1> DEFINE p == On(c)
           aim == sessions[c].aim
           new == [sessions[c] EXCEPT !.at = "conclude"]
<1>1. p \in Proposals /\ SessionsOK /\ sessions[c] \in Session /\ aim \in Endings
  BY Known DEF Save, At, TypeInv
<1>2. CASE Finish(c, "none")
  BY <1>1, <1>2, QuitTurn
<1>3. CASE /\ Goto(c, "conclude")
           /\ executions' = [executions EXCEPT ![p].outcome = aim,
                                               ![p].owed = sessions[c].owed]
  <2>1. /\ new \in Session /\ new.at = "conclude" /\ new.on = p /\ new.aim = aim
        /\ new.reply = sessions[c].reply
    BY <1>1 DEF Session, Phases, On
  <2>2. Become(c, new)
    BY <1>3 DEF Goto
  <2>3. /\ sessions[c].reply = "none"
        /\ c \in Executors => executions[p].key = KeyOf[c]
    BY DEF Save, At, OnDuty, Duty, Closing, On
  <2>4. executions'[p].outcome = aim /\ executions'[p].key = executions[p].key
    BY <1>1, <1>3 DEF TypeInv, TypeOK, Execution
  <2> HIDE DEF new
  <2>5. Duty(c, new, proposals', executions', effects', drifts')
    BY <1>1, <2>1, <2>3, <2>4
    DEF Duty, InHand, Closing, Counting, ReconcilePhases, Answers, Endings
  <2> QED
    BY <1>1, <2>1, <2>2, <2>5, BecomeTurn
<1> QED
  BY <1>2, <1>3 DEF Save

LEMMA FromEffectTurn ==
    ASSUME TypeInv, NEW c \in Sessions, OnDuty(c), FromEffect(c)
    PROVE  Turn(c)
<1>1. SessionsOK /\ sessions[c] \in Session /\ On(c) \in Proposals
  BY Known DEF TypeInv, FromEffect, Announce, Apply, Tally, Save, Conclude, MarkStale, At
<1>2. CASE Announce(c)
  <2>1. PICK owed : SetOwed(On(c), owed)
    BY <1>2 DEF Announce
  <2> QED
    BY <1>1, <1>2, <2>1, OwedKeeps, HandOver DEF Announce, At, InHand
<1>3. CASE Tally(c)
  <2> DEFINE owed == sessions[c].owed \/ executions[On(c)].owed
             new == [sessions[c] EXCEPT !.owed = owed, !.at = "save"]
  <2>1. owed \in BOOLEAN
    BY <1>1 DEF Session, TypeInv, TypeOK, Execution
  <2>2. Become(c, new)
    BY <1>3 DEF Tally
  <2> HIDE DEF owed
  <2>3. /\ new \in Session /\ new.at = "save" /\ new.on = On(c)
        /\ new.aim = sessions[c].aim /\ new.reply = sessions[c].reply
    BY <1>1, <2>1 DEF Session, Phases, On
  <2>4. UNCHANGED <<proposals, executions, effects, drifts>>
    BY <1>3 DEF Tally, tables
  <2> HIDE DEF new
  <2>5. Duty(c, new, proposals', executions', effects', drifts')
    BY <1>3, <2>3, <2>4
    DEF Tally, At, OnDuty, Duty, InHand, Closing, Counting, ReconcilePhases, Answers, On
  <2> QED
    BY <1>1, <2>2, <2>3, <2>5, BecomeTurn
<1>4. CASE Conclude(c)
  <2> DEFINE p == On(c)
             reply == IF sessions[c].aim = "succeeded" THEN "succeeded" ELSE "none"
  <2>1. /\ executions'[p].key = executions[p].key
        /\ executions'[p].outcome = executions[p].outcome
    BY <1>1, <1>4, OwedKeeps DEF Conclude
  <2>2. Answers(c, reply, executions'[p])
    BY <1>4, <2>1 DEF Conclude, At, OnDuty, Duty, Closing, Answers, On
  <2>3. Finish(c, reply) /\ reply \in Outcomes \cup {"none"}
    BY <1>4 DEF Conclude, Outcomes
  <2> HIDE DEF reply
  <2> QED
    BY <1>1, <2>2, <2>3, FinishTurn
<1>5. CASE MarkStale(c)
  <2>1. ~At(c, "done") /\ "excuse" \in Phases \ Dutiful
    BY <1>5 DEF MarkStale, At, Phases, Dutiful, InHand, Closing, Counting,
       ReconcilePhases
  <2>2. Goto(c, "excuse") \/ Finish(c, "none")
    BY <1>5 DEF MarkStale
  <2> QED
    BY <1>1, <2>1, <2>2, GotoTurn, QuitTurn
<1> QED
  BY <1>2, <1>3, <1>4, <1>5, ApplyTurn, SaveTurn DEF FromEffect

\* A reconciliation goes on with an execution that keeps its outcome.
LEMMA CountingTurn ==
    ASSUME TypeInv, NEW c \in Sessions, OnDuty(c), sessions[c].at \in ReconcilePhases,
           NEW new \in Session, new.at \in Counting, new.on = On(c),
           new.reply = sessions[c].reply, Become(c, new),
           executions'[On(c)].outcome # "none"
    PROVE  Turn(c)
<1>1. SessionsOK /\ sessions[c].reply = "none" /\ c \notin Executors
  BY DEF TypeInv, OnDuty, Duty, ReconcilePhases, Counting
<1>2. Duty(c, new, proposals', executions', effects', drifts')
  BY <1>1 DEF Duty, InHand, Closing, Counting, ReconcilePhases, Answers, On
<1> QED
  BY <1>1, <1>2, BecomeTurn DEF Counting

LEMMA AskTurn ==
    ASSUME TypeInv, Effects, NEW c \in Sessions, OnDuty(c), Ask(c)
    PROVE  Turn(c)
<1>1. /\ SessionsOK /\ On(c) \in Proposals
      /\ UNCHANGED <<proposals, executions, effects, drifts>>
  BY Known DEF Ask, At, TypeInv, tables
<1>2. CASE Finish(c, "none")
  BY <1>1, <1>2, QuitTurn
<1>3. CASE ShowsEffect(On(c)) /\ Aim(c, "succeeded")
  <2>1. executions[On(c)].outcome # "none"
    BY DEF Ask, At, OnDuty, Duty, Counting, On
  <2>2. Shown(On(c), effects, drifts)
    BY <1>1, <1>3, <2>1 DEF Effects, Effect, ShowsEffect
  <2> QED
    BY <1>1, <1>3, <2>2, AimTurn
    DEF Ask, At, OnDuty, Duty, ReconcilePhases, Counting, Endings
<1>4. CASE Goto(c, "keep")
  <2> DEFINE new == [sessions[c] EXCEPT !.at = "keep"]
  <2>1. /\ new \in Session /\ new.at = "keep" /\ new.on = On(c)
        /\ new.reply = sessions[c].reply
    BY <1>1 DEF SessionsOK, Session, Phases, On
  <2>2. Become(c, new) /\ sessions[c].reply = "none" /\ c \notin Executors
    BY <1>4 DEF Goto, Ask, At, OnDuty, Duty, ReconcilePhases, Counting
  <2> HIDE DEF new
  <2>3. Duty(c, new, proposals', executions', effects', drifts')
    BY <2>1, <2>2 DEF Duty, InHand, Closing, Counting, ReconcilePhases, Answers
  <2> QED
    BY <1>1, <2>1, <2>2, <2>3, BecomeTurn
<1> QED
  BY <1>2, <1>3, <1>4 DEF Ask

LEMMA ReconcilingTurn ==
    ASSUME TypeInv, Effects, NEW c \in Sessions, OnDuty(c), Reconciling(c)
    PROVE  Turn(c)
<1>1. SessionsOK /\ sessions[c] \in Session /\ On(c) \in Proposals
  BY Known DEF TypeInv, Reconciling, ReadExecution, CountAttempts, BumpAttempts, Ask,
     Keep, At
<1>2. /\ sessions[c].at \in ReconcilePhases /\ c \notin Executors
      /\ executions[On(c)] \in Execution
  BY <1>1 DEF Reconciling, ReadExecution, CountAttempts, BumpAttempts, Ask, Keep, At,
     ReconcilePhases, Counting, OnDuty, Duty, TypeInv, TypeOK
<1>3. ASSUME NEW reply \in Outcomes \cup {"none"}, Finish(c, reply) PROVE Turn(c)
  BY <1>1, <1>2, <1>3, FinishTurn DEF Answers
<1>4. CASE ReadExecution(c)
  <2> DEFINE x == executions[On(c)]
             new == [sessions[c] EXCEPT !.owed = x.owed, !.at = "count"]
  <2>1. CASE x.outcome \in Unresolved
    <3>1. /\ new \in Session /\ new.at = "count" /\ new.on = On(c)
          /\ new.reply = sessions[c].reply
      BY <1>1, <1>2 DEF Session, Phases, On, Execution
    <3>2. Become(c, new) /\ executions'[On(c)].outcome # "none"
      BY <1>4, <2>1 DEF ReadExecution, Unresolved, tables
    <3> HIDE DEF new
    <3> QED
      BY <1>2, <3>1, <3>2, CountingTurn DEF Counting
  <2>2. CASE x.outcome \notin Unresolved
    <3>1. x.outcome \in Outcomes \cup {"none"} /\ Finish(c, x.outcome)
      BY <1>2, <1>4, <2>2 DEF ReadExecution, Execution
    <3> QED
      BY <1>3, <3>1
  <2> QED
    BY <2>1, <2>2
<1>5. CASE CountAttempts(c)
  <2> DEFINE new == [sessions[c] EXCEPT
                 !.tries = executions[On(c)].attempts, !.at = "bump"]
  <2>1. /\ new \in Session /\ new.at = "bump" /\ new.on = On(c)
        /\ new.reply = sessions[c].reply
    BY <1>1, <1>2 DEF Session, Phases, On, Execution
  <2>2. Become(c, new) /\ executions'[On(c)].outcome # "none"
    BY <1>5 DEF CountAttempts, At, OnDuty, Duty, Counting, On, tables
  <2> HIDE DEF new
  <2> QED
    BY <1>2, <2>1, <2>2, CountingTurn DEF Counting
<1>6. CASE BumpAttempts(c)
  <2> DEFINE new == [sessions[c] EXCEPT !.at = "ask"]
  <2>1. /\ new \in Session /\ new.at = "ask" /\ new.on = On(c)
        /\ new.reply = sessions[c].reply
    BY <1>1 DEF Session, Phases, On
  <2>2. Become(c, new) /\ executions[On(c)].outcome # "none"
    BY <1>6 DEF BumpAttempts, Goto, At, OnDuty, Duty, Counting, On
  <2>3. executions'[On(c)].outcome # "none"
    BY <1>1, <1>6, <2>2 DEF BumpAttempts, TypeInv, TypeOK, Execution
  <2> HIDE DEF new
  <2> QED
    BY <1>2, <2>1, <2>2, <2>3, CountingTurn DEF Counting
<1>7. CASE Keep(c)
  BY <1>3, <1>7 DEF Keep, Outcomes
<1> QED
  BY <1>4, <1>5, <1>6, <1>7, AskTurn DEF Reconciling

LEMMA OtherTurn ==
    ASSUME TypeInv, NEW c \in Sessions, OnDuty(c),
           Replaying(c) \/ Arrive(c) \/ Crash(c)
    PROVE  Turn(c)
<1>1. SessionsOK /\ sessions[c] \in Session
  BY DEF TypeInv, SessionsOK
<1>2. ASSUME NEW new \in Session, Become(c, new), new.at \in Phases \ Dutiful,
             new.reply = sessions[c].reply, ~At(c, "done")
      PROVE  Turn(c)
  <2>1. Duty(c, new, proposals', executions', effects', drifts')
    BY <1>2, NoDuty DEF OnDuty, Duty, At
  <2> QED
    BY <1>1, <1>2, <2>1, BecomeTurn DEF Dutiful
<1>3. {"record", "done", "look", "replay"} \subseteq Phases \ Dutiful
  BY DEF Phases, Dutiful, InHand, Closing, Counting, ReconcilePhases
<1>4. CASE Replay(c)
  <2>1. PICK stored \in BOOLEAN : Become(c, [sessions[c] EXCEPT
               !.owed = stored, !.at = "record"])
    BY <1>4 DEF Replay
  <2> DEFINE new == [sessions[c] EXCEPT !.owed = stored, !.at = "record"]
  <2>2. new \in Session /\ new.at = "record" /\ new.reply = sessions[c].reply
    BY <1>1, <1>3 DEF Session
  <2> QED
    BY <1>2, <1>3, <1>4, <2>1, <2>2 DEF Replay, At
<1>5. CASE RecordReplay(c) \/ Crash(c)
  BY <1>1, <1>5, QuitTurn DEF RecordReplay, Crash
<1>6. ASSUME NEW p \in Proposals, CheckLimit(c, p) PROVE Turn(c)
  <2>1. PICK phase \in {"done", "look"} : Become(c, [sessions[c] EXCEPT
               !.on = p, !.at = phase])
    BY <1>6 DEF CheckLimit
  <2> DEFINE new == [sessions[c] EXCEPT !.on = p, !.at = phase]
  <2>2. new \in Session /\ new.at = phase /\ new.reply = sessions[c].reply
    BY <1>1, <1>3 DEF Session
  <2> QED
    BY <1>2, <1>3, <1>6, <2>1, <2>2 DEF CheckLimit, At
<1>7. ASSUME NEW p \in Proposals, ReadOwed(c, p) PROVE Turn(c)
  <2>1. PICK phase \in {"done", "replay"} : Become(c, [sessions[c] EXCEPT
               !.on = p, !.seen = executions[p].outcome, !.at = phase])
    BY <1>7 DEF ReadOwed
  <2> DEFINE new == [sessions[c] EXCEPT
                 !.on = p, !.seen = executions[p].outcome, !.at = phase]
  <2>2. executions[p].outcome \in Statuses
    BY <1>7 DEF ReadOwed, Executed, TypeInv, TypeOK, Execution, Outcomes, Statuses, Closed
  <2>3. new \in Session /\ new.at = phase /\ new.reply = sessions[c].reply
    BY <1>1, <1>3, <2>2 DEF Session
  <2> QED
    BY <1>2, <1>3, <1>7, <2>1, <2>3 DEF ReadOwed, At
<1> QED
  BY <1>4, <1>5, <1>6, <1>7, LookTurn DEF Replaying, Arrive

LEMMA EveryTurn ==
    ASSUME TypeInv, Effects, Duties, NEW c \in Sessions,
           Proceed(c) \/ Arrive(c) \/ Crash(c)
    PROVE  Turn(c)
<1>1. OnDuty(c)
  BY DEF Duties
<1> QED
  BY <1>1, LookTurn, RereadTurn, DecideTurn, ToEffectTurn, FromEffectTurn,
     ReconcilingTurn, OtherTurn
  DEF Proceed, ToEffect, FromEffect, Reconciling, Replaying

\* A step is the turn of one request, or moves none.
LEMMA TurnStep ==
    ASSUME TypeInv, Effects, Duties, Next
    PROVE  sessions' = sessions \/ (\E c \in Sessions : Turn(c))
<1>1. CASE OthersChange \/ (\E p \in Proposals :
              Propose(p) \/ TimePasses(p) \/ ReadProposals(p))
  BY <1>1 DEF Propose, TimePasses, ReadProposals, OthersChange
<1> QED
  BY <1>1, EveryTurn DEF Next

-----------------------------------------------------------------------------
(* Changes.  What a step may do to the status of a proposal and the outcome *)
(* of its execution, and to what the effects depend on.                     *)

\* With row locks, a session that holds p lets go of it.
Freed(p) == RowLocks =>
    \A d \in Sessions : Holds(d, p) => sessions'[d].at \notin {"write", "start"}

\* No two sessions hold one proposal.
Exclusive == RowLocks =>
    \A p \in Proposals : \A c, d \in Sessions : Holds(c, p) /\ Holds(d, p) => c = d

Same(q) == /\ proposals'[q].status = proposals[q].status
           /\ executions'[q].outcome = executions[q].outcome

Sets(p, status, outcome) ==
    /\ proposals'[p].status = status
    /\ executions'[p].outcome = outcome
    /\ \A q \in Proposals \ {p} : Same(q)

Proposes(p) ==
    /\ proposals[p].status = "absent" /\ resource.value # TargetOf[p]
    /\ Sets(p, "pending_approval", executions[p].outcome)
Decides(p) ==
    /\ proposals[p].status # "absent"
    /\ RowLocks => proposals[p].status = "pending_approval"
    /\ \E verdict \in Verdicts : Sets(p, verdict, executions[p].outcome)
Withdraws(p) ==
    /\ proposals[p].status \in Open
    /\ \E end \in {"cancelled", "expired"} : Sets(p, end, executions[p].outcome)
Outdates(p) ==
    proposals[p].status = "approved" /\ Sets(p, "stale", executions[p].outcome)
Begins(p) ==
    /\ proposals[p].status # "absent"
    /\ RowLocks => proposals[p].status = "approved"
    /\ executions[p].outcome = "none"
    /\ Sets(p, "executing", "executing")
Succeeds(p) ==
    /\ proposals[p].status \in Unresolved /\ executions[p].outcome \in Unresolved
    /\ Shown(p, effects, drifts)
    /\ Sets(p, "succeeded", "succeeded")
Loses(p) ==
    /\ proposals[p].status = "executing" /\ executions[p].outcome = "executing"
    /\ Sets(p, "reconciliation_required", "reconciliation_required")
Fails(p) ==
    /\ proposals[p].status = "executing" /\ executions[p].outcome = "executing"
    /\ \E e \in Sessions : At(e, "mark") /\ On(e) = p /\ sessions'[e].at \notin InHand
    /\ Sets(p, "stale", "failed")

Change(p) ==
    /\ \/ Proposes(p)
       \/ /\ Freed(p)
          /\ \/ Decides(p) \/ Withdraws(p) \/ Outdates(p)
             \/ Begins(p) \/ Succeeds(p) \/ Loses(p) \/ Fails(p)
    /\ UNCHANGED <<resource, effects, drifts>>

\* The resource is changed by the executor of a proposal, or by others.
Affects(p) ==
    /\ \E e \in Sessions : At(e, "apply") /\ On(e) = p /\ sessions'[e].at \notin InHand
    /\ effects' = [effects EXCEPT ![p] = @ + 1]
    /\ resource'.value = TargetOf[p]
    /\ UNCHANGED drifts
Drifts == drifts' > 0 /\ UNCHANGED effects

Still ==
    /\ \A q \in Proposals : Same(q)
    /\ \/ UNCHANGED <<resource, effects, drifts>>
       \/ Drifts
       \/ \E p \in Proposals : Affects(p)

Changes == Still \/ (\E p \in Proposals : Change(p))

\* Where a request is after its step.
LEMMA GotoAt ==
    ASSUME SessionsOK, NEW c \in Sessions, NEW phase, Goto(c, phase)
    PROVE  sessions'[c].at = phase
<1> DEFINE new == [sessions[c] EXCEPT !.at = phase]
<1>1. new.at = phase
  BY DEF SessionsOK, Session
<1>2. CASE phase = "done"
  BY <1>1, <1>2 DEF Goto, Become, Idle, SessionsOK
<1>3. CASE phase # "done"
  <2>1. sessions' = [sessions EXCEPT ![c] = new]
    BY <1>1, <1>3 DEF Goto, Become
  <2> HIDE DEF new
  <2> QED
    BY <1>1, <2>1 DEF SessionsOK
<1> QED
  BY <1>2, <1>3

LEMMA FinishAt ==
    ASSUME SessionsOK, NEW c \in Sessions, NEW reply, Finish(c, reply)
    PROVE  sessions'[c].at = "done"
<1>1. [sessions[c] EXCEPT !.at = "done", !.reply = reply].at = "done"
  BY DEF SessionsOK, Session
<1> QED
  BY <1>1 DEF Finish, Become, Idle, SessionsOK

LEMMA AimAt ==
    ASSUME SessionsOK, NEW c \in Sessions, NEW outcome, Aim(c, outcome)
    PROVE  sessions'[c].at = "tally"
<1> DEFINE new == [sessions[c] EXCEPT !.aim = outcome, !.at = "tally"]
<1>1. new.at = "tally"
  BY DEF SessionsOK, Session
<1>2. sessions' = [sessions EXCEPT ![c] = new]
  BY <1>1 DEF Aim, Become
<1> HIDE DEF new
<1> QED
  BY <1>1, <1>2 DEF SessionsOK

\* A session that takes no row frees the one it holds, and one that is not
\* locked out finds no other holder.
LEMMA ReleaseFrees ==
    ASSUME Exclusive, NEW c \in Sessions, NEW p \in Proposals,
           Holds(c, p) \/ Unlocked(c, p), sessions'[c].at \notin {"write", "start"}
    PROVE  Freed(p)
  BY DEF Exclusive, Unlocked, Freed

LEMMA StatusSet ==
    ASSUME TypeInv, NEW p \in Proposals, NEW status, SetStatus(p, status),
           UNCHANGED executions
    PROVE  Sets(p, status, executions[p].outcome)
  BY DEF SetStatus, Sets, Same, TypeInv, TypeOK, Proposal

\* A compared write changes the proposal from the status it expects, or nothing.
LEMMA ComparedSet ==
    ASSUME TypeInv, NEW p \in Proposals, NEW status, NEW seen,
           SetStatus(p, IF proposals[p].status = seen THEN status ELSE proposals[p].status),
           UNCHANGED executions
    PROVE  \/ proposals[p].status = seen /\ Sets(p, status, executions[p].outcome)
           \/ \A q \in Proposals : Same(q)
<1>1. CASE proposals[p].status = seen
  BY <1>1, StatusSet
<1>2. CASE proposals[p].status # seen
  BY <1>2, StatusSet DEF Sets, Same
<1> QED
  BY <1>1, <1>2

LEMMA SameRows ==
    ASSUME proposals' = proposals, executions' = executions
    PROVE  \A q \in Proposals : Same(q)
  BY DEF Same

LEMMA WithdrawChange ==
    ASSUME TypeInv, Exclusive, NEW c \in Sessions, OnDuty(c),
           Expire(c) \/ Cancel(c) \/ Outdate(c)
    PROVE  Changes
<1> DEFINE p == On(c)
<1>1. p \in Proposals /\ SessionsOK
  BY Known DEF Expire, Cancel, Outdate, At, TypeInv
<1>2. sessions'[c].at \notin {"write", "start"}
  BY <1>1, GotoAt, FinishAt DEF Expire, Cancel, Outdate
<1>3. Freed(p)
  BY <1>1, <1>2, ReleaseFrees DEF Expire, Cancel, Outdate
<1>4. UNCHANGED <<executions, resource, effects, drifts>>
  BY DEF Expire, Cancel, Outdate
<1>5. CASE Expire(c)
  <2>1. \/ proposals[p].status = sessions[c].seen
           /\ Sets(p, "expired", executions[p].outcome)
        \/ \A q \in Proposals : Same(q)
    BY <1>1, <1>4, <1>5, ComparedSet DEF Expire
  <2>2. sessions[c].seen \in Open
    BY <1>5 DEF Expire, At, OnDuty, Duty
  <2> QED
    BY <1>1, <1>3, <1>4, <2>1, <2>2 DEF Changes, Change, Still, Withdraws
<1>6. CASE Cancel(c)
  <2>1. \/ proposals[p].status = sessions[c].seen
           /\ Sets(p, "cancelled", executions[p].outcome)
        \/ \A q \in Proposals : Same(q)
    BY <1>1, <1>4, <1>6, ComparedSet DEF Cancel
  <2>2. sessions[c].seen \in Open
    BY <1>6 DEF Cancel, At, OnDuty, Duty
  <2> QED
    BY <1>1, <1>3, <1>4, <2>1, <2>2 DEF Changes, Change, Still, Withdraws
<1>7. CASE Outdate(c)
  <2>1. \/ proposals[p].status = "approved"
           /\ Sets(p, "stale", executions[p].outcome)
        \/ \A q \in Proposals : Same(q)
    BY <1>1, <1>4, <1>7, ComparedSet DEF Outdate
  <2> QED
    BY <1>1, <1>3, <1>4, <2>1 DEF Changes, Change, Still, Outdates
<1> QED
  BY <1>5, <1>6, <1>7

LEMMA DecideChange ==
    ASSUME TypeInv, Exclusive, NEW c \in Sessions, OnDuty(c), WriteDecision(c)
    PROVE  Changes
<1> DEFINE p == On(c)
           verdict == sessions[c].aim
<1>1. p \in Proposals /\ SessionsOK /\ verdict \in Verdicts
  BY Known DEF WriteDecision, At, TypeInv
<1>2. UNCHANGED <<executions, resource, effects, drifts>>
  BY DEF WriteDecision
<1>3. SetStatus(p, verdict) \/ UNCHANGED proposals
  BY DEF WriteDecision
<1>4. CASE SetStatus(p, verdict)
  <2>1. Sets(p, verdict, executions[p].outcome)
    BY <1>1, <1>2, <1>4, StatusSet
  <2>2. Freed(p)
    BY <1>1, FinishAt, ReleaseFrees DEF WriteDecision, Holds, At
  <2>3. /\ proposals[p].status # "absent"
        /\ RowLocks => proposals[p].status = "pending_approval"
    BY DEF WriteDecision, At, OnDuty, Duty, On
  <2> HIDE DEF verdict
  <2> QED
    BY <1>1, <1>2, <2>1, <2>2, <2>3 DEF Changes, Change, Decides
<1>5. CASE UNCHANGED proposals
  BY <1>2, <1>5, SameRows DEF Changes, Still
<1> QED
  BY <1>3, <1>4, <1>5

LEMMA StartChange ==
    ASSUME TypeInv, Exclusive, NEW c \in Sessions, OnDuty(c), StartExecution(c)
    PROVE  Changes
<1> DEFINE p == On(c)
<1>1. p \in Proposals /\ SessionsOK
  BY Known DEF StartExecution, At, TypeInv
<1>2. UNCHANGED <<resource, effects, drifts>>
  BY DEF StartExecution
<1>3. CASE CanStart(c)
  <2>1. Sets(p, "executing", "executing")
    <3>1. SetStatus(p, "executing")
      BY <1>3 DEF StartExecution
    <3>2. executions' = [executions EXCEPT ![p] =
              [outcome |-> "executing", key |-> KeyOf[c], attempts |-> 1,
               owed |-> FALSE, replays |-> 0]]
      BY <1>3 DEF StartExecution
    <3> QED
      BY <1>1, <3>1, <3>2 DEF SetStatus, Sets, Same, TypeInv, TypeOK, Proposal
  <2>2. sessions'[c].at = "announce"
    BY <1>1, <1>3, GotoAt DEF StartExecution
  <2>3. Freed(p)
    BY <1>1, <2>2, ReleaseFrees DEF StartExecution, Holds, At
  <2>4. /\ proposals[p].status # "absent"
        /\ RowLocks => proposals[p].status = "approved"
        /\ executions[p].outcome = "none"
    BY <1>3 DEF StartExecution, CanStart, Executed, At, OnDuty, Duty, On
  <2> QED
    BY <1>1, <1>2, <2>1, <2>3, <2>4 DEF Changes, Change, Begins
<1>4. CASE ~CanStart(c)
  <2>1. UNCHANGED <<proposals, executions>>
    BY <1>4 DEF StartExecution
  <2> QED
    BY <1>2, <2>1, SameRows DEF Changes, Still
<1> QED
  BY <1>3, <1>4

LEMMA SaveChange ==
    ASSUME TypeInv, Exclusive, NEW c \in Sessions, OnDuty(c), Save(c)
    PROVE  Changes
<1> DEFINE p == On(c)
           aim == sessions[c].aim
<1>1. p \in Proposals /\ SessionsOK /\ aim \in Endings
  BY Known DEF Save, At, TypeInv
<1>2. UNCHANGED <<resource, effects, drifts>> /\ Unlocked(c, p)
  BY DEF Save
<1>3. CASE CanClose(p, From(aim))
  <2>1. Sets(p, aim, aim)
    <3>1. /\ SetStatus(p, aim)
          /\ executions' = [executions EXCEPT ![p].outcome = aim,
                                              ![p].owed = sessions[c].owed]
      BY <1>3 DEF Save
    <3> QED
      BY <1>1, <3>1 DEF SetStatus, Sets, Same, TypeInv, TypeOK, Proposal, Execution
  <2>2. sessions'[c].at = "conclude"
    BY <1>1, <1>3, GotoAt DEF Save
  <2>3. Freed(p)
    BY <1>1, <1>2, <2>2, ReleaseFrees
  <2>4. CASE aim = "succeeded"
    <3>1. Shown(p, effects, drifts)
      BY <2>4 DEF Save, At, OnDuty, Duty, On
    <3>2. Succeeds(p)
      BY <1>3, <2>1, <2>4, <3>1 DEF Succeeds, CanClose, From
    <3> QED
      BY <1>1, <1>2, <2>3, <3>2 DEF Changes, Change
  <2>5. CASE aim = "reconciliation_required"
    <3>1. Loses(p)
      BY <1>3, <2>1, <2>5 DEF Loses, CanClose, From
    <3> QED
      BY <1>1, <1>2, <2>3, <3>1 DEF Changes, Change
  <2> QED
    BY <1>1, <2>4, <2>5 DEF Endings
<1>4. CASE ~CanClose(p, From(aim))
  <2>1. UNCHANGED <<proposals, executions>>
    BY <1>4 DEF Save
  <2> QED
    BY <1>2, <2>1, SameRows DEF Changes, Still
<1> QED
  BY <1>3, <1>4

LEMMA MarkStaleChange ==
    ASSUME TypeInv, Exclusive, NEW c \in Sessions, MarkStale(c)
    PROVE  Changes
<1> DEFINE p == On(c)
<1>1. p \in Proposals /\ SessionsOK
  BY Known DEF MarkStale, At, TypeInv
<1>2. UNCHANGED <<resource, effects, drifts>> /\ Unlocked(c, p)
  BY DEF MarkStale
<1>3. CASE CanClose(p, {"executing"})
  <2>1. Sets(p, "stale", "failed")
    <3>1. /\ SetStatus(p, "stale")
          /\ executions' = [executions EXCEPT ![p].outcome = "failed"]
      BY <1>3 DEF MarkStale
    <3> QED
      BY <1>1, <3>1 DEF SetStatus, Sets, Same, TypeInv, TypeOK, Proposal, Execution
  <2>2. sessions'[c].at = "excuse"
    BY <1>1, <1>3, GotoAt DEF MarkStale
  <2>3. Freed(p)
    BY <1>1, <1>2, <2>2, ReleaseFrees
  <2>4. Fails(p)
    BY <1>3, <2>1, <2>2 DEF Fails, CanClose, MarkStale, InHand
  <2> QED
    BY <1>1, <1>2, <2>3, <2>4 DEF Changes, Change
<1>4. CASE ~CanClose(p, {"executing"})
  <2>1. UNCHANGED <<proposals, executions>>
    BY <1>4 DEF MarkStale
  <2> QED
    BY <1>2, <2>1, SameRows DEF Changes, Still
<1> QED
  BY <1>3, <1>4

LEMMA ApplyChange ==
    ASSUME TypeInv, NEW c \in Sessions, Apply(c)
    PROVE  Changes
<1> DEFINE p == On(c)
<1>1. p \in Proposals /\ SessionsOK
  BY Known DEF Apply, At, TypeInv
<1>2. UNCHANGED <<proposals, executions, drifts>>
  BY DEF Apply
<1>3. \A q \in Proposals : Same(q)
  BY <1>2, SameRows
<1>4. CASE UNCHANGED <<resource, effects>>
  BY <1>2, <1>3, <1>4 DEF Changes, Still
<1>5. CASE /\ resource' = [version |-> resource.version + 1, value |-> TargetOf[p]]
           /\ effects' = [effects EXCEPT ![p] = @ + 1]
           /\ \E outcome : Aim(c, outcome)
  <2>1. sessions'[c].at = "tally"
    BY <1>1, <1>5, AimAt
  <2>2. Affects(p)
    BY <1>2, <1>5, <2>1 DEF Affects, Apply, InHand
  <2> QED
    BY <1>1, <1>3, <2>2 DEF Changes, Still
<1> QED
  BY <1>4, <1>5 DEF Apply

LEMMA ProposalChange ==
    ASSUME TypeInv, NEW p \in Proposals, Propose(p) \/ TimePasses(p) \/ ReadProposals(p)
    PROVE  Changes
<1>1. UNCHANGED <<executions, resource, effects, drifts>>
  BY DEF Propose, TimePasses, ReadProposals
<1>2. CASE Propose(p)
  <2>1. Sets(p, "pending_approval", executions[p].outcome)
    BY <1>2 DEF Propose, Sets, Same, TypeInv, TypeOK
  <2> QED
    BY <1>1, <1>2, <2>1 DEF Changes, Change, Proposes, Propose
<1>3. CASE TimePasses(p)
  <2>1. \A q \in Proposals : Same(q)
    BY <1>3 DEF TimePasses, Same, TypeInv, TypeOK, Proposal
  <2> QED
    BY <1>1, <2>1 DEF Changes, Still
<1>4. CASE ReadProposals(p)
  <2>1. Sets(p, "expired", executions[p].outcome)
    BY <1>1, <1>4, StatusSet DEF ReadProposals
  <2>2. Freed(p) /\ proposals[p].status \in Open
    BY <1>4 DEF ReadProposals, Freed
  <2> QED
    BY <1>1, <2>1, <2>2 DEF Changes, Change, Withdraws
<1> QED
  BY <1>2, <1>3, <1>4

\* The other steps write at most the marks and the counts of an execution.
LEMMA MarkChange ==
    ASSUME TypeInv, NEW p \in Proposals, NEW new, UNCHANGED proposals,
           executions' = [executions EXCEPT ![p] = new],
           new.outcome = executions[p].outcome, UNCHANGED <<resource, effects, drifts>>
    PROVE  Changes
<1>1. \A q \in Proposals : Same(q)
  BY DEF Same, TypeInv, TypeOK
<1> QED
  BY <1>1 DEF Changes, Still

LEMMA OwedChange ==
    ASSUME TypeInv, NEW p \in Proposals, NEW owed, SetOwed(p, owed),
           UNCHANGED <<proposals, resource, effects, drifts>>
    PROVE  Changes
<1> DEFINE new == [executions[p] EXCEPT !.owed = owed]
<1>1. new.outcome = executions[p].outcome
  BY DEF TypeInv, TypeOK, Execution
<1>2. executions' = [executions EXCEPT ![p] = new]
  BY DEF SetOwed
<1> HIDE DEF new
<1> QED
  BY <1>1, <1>2, MarkChange

LEMMA CountChange ==
    ASSUME TypeInv, NEW c \in Sessions, BumpAttempts(c) \/ RecordReplay(c)
    PROVE  Changes
<1> DEFINE p == On(c)
<1>1. p \in Proposals
  BY Known DEF BumpAttempts, RecordReplay, At, TypeInv
<1>2. UNCHANGED <<proposals, resource, effects, drifts>>
  BY DEF BumpAttempts, RecordReplay
<1>3. CASE BumpAttempts(c)
  <2> DEFINE new == [executions[p] EXCEPT !.attempts = sessions[c].tries + 1]
  <2>1. new.outcome = executions[p].outcome
    BY <1>1 DEF TypeInv, TypeOK, Execution
  <2>2. executions' = [executions EXCEPT ![p] = new]
    BY <1>3 DEF BumpAttempts
  <2> HIDE DEF new
  <2> QED
    BY <1>1, <1>2, <2>1, <2>2, MarkChange
<1>4. CASE RecordReplay(c)
  <2> DEFINE kept == executions[p].owed /\ ~sessions[c].owed
             count == executions[p].replays + 1
             new == [executions[p] EXCEPT !.replays = count, !.owed = kept]
  <2>1. new.outcome = executions[p].outcome
    BY <1>1 DEF TypeInv, TypeOK, Execution
  <2>2. executions' = [executions EXCEPT ![p] = new]
    BY <1>4 DEF RecordReplay
  <2> HIDE DEF new
  <2> QED
    BY <1>1, <1>2, <2>1, <2>2, MarkChange
<1> QED
  BY <1>3, <1>4

LEMMA ChangeStep ==
    ASSUME TypeInv, Exclusive, Duties, Next
    PROVE  Changes
<1>1. ASSUME UNCHANGED tables, UNCHANGED drifts PROVE Changes
  BY <1>1, SameRows DEF tables, Changes, Still
<1>2. CASE OthersChange
  <2>1. drifts' > 0
    BY <1>2 DEF OthersChange, TypeInv, TypeOK
  <2>2. UNCHANGED <<proposals, executions, effects>>
    BY <1>2 DEF OthersChange
  <2> QED
    BY <2>1, <2>2, SameRows DEF Changes, Still, Drifts
<1>3. ASSUME NEW c \in Sessions, Arrive(c) \/ Crash(c) PROVE Changes
  BY <1>1, <1>3 DEF Arrive, Look, CheckLimit, ReadOwed, Crash
<1>4. ASSUME NEW c \in Sessions, Announce(c) \/ Conclude(c) \/ Keep(c)
      PROVE  Changes
  <2>1. /\ UNCHANGED <<proposals, resource, effects, drifts>>
        /\ UNCHANGED executions \/ (\E owed : SetOwed(On(c), owed))
    BY <1>4 DEF Announce, Conclude, Keep
  <2>2. On(c) \in Proposals
    BY <1>4, Known DEF Announce, Conclude, Keep, At, TypeInv
  <2> QED
    BY <2>1, <2>2, SameRows, OwedChange DEF Changes, Still
<1>5. ASSUME NEW c \in Sessions, Replay(c) PROVE Changes
  BY <1>5, SameRows DEF Replay, Changes, Still
<1>6. ASSUME NEW c \in Sessions, Proceed(c) PROVE Changes
  <2>1. OnDuty(c)
    BY DEF Duties
  <2>2. \/ UNCHANGED tables /\ UNCHANGED drifts
        \/ Expire(c) \/ Cancel(c) \/ Outdate(c) \/ WriteDecision(c)
        \/ StartExecution(c) \/ Save(c) \/ MarkStale(c) \/ Apply(c)
        \/ Announce(c) \/ Conclude(c) \/ Keep(c) \/ Replay(c)
        \/ BumpAttempts(c) \/ RecordReplay(c)
    BY <1>6 DEF Proceed, Look, Reread, ReadToDecide, Check, Consent, Prepare, Drift,
       Excuse, ReadToStart, Rival, Tally, ReadExecution, CountAttempts, Ask
  <2> QED
    BY <1>1, <1>4, <1>5, <2>1, <2>2, WithdrawChange, DecideChange, StartChange,
       SaveChange, MarkStaleChange, ApplyChange, CountChange
<1> QED
  BY <1>2, <1>3, <1>6, ProposalChange DEF Next

-----------------------------------------------------------------------------
(* The invariant.                                                           *)

\* What was shown remains shown.
LEMMA ShownStays ==
    ASSUME TypeInv, Changes, NEW p \in Proposals, Shown(p, effects, drifts)
    PROVE  Shown(p, effects', drifts')
<1>1. /\ \A q \in Proposals : effects[q] > 0 => effects'[q] > 0
      /\ drifts' = 0 => drifts = 0
  <2>1. CASE UNCHANGED <<effects, drifts>>
    BY <2>1 DEF TypeInv, TypeOK
  <2>2. CASE Drifts
    BY <2>2 DEF Drifts, TypeInv, TypeOK
  <2>3. ASSUME NEW q \in Proposals, Affects(q)
        PROVE  /\ \A r \in Proposals : effects[r] > 0 => effects'[r] > 0
               /\ drifts' = 0 => drifts = 0
    BY <2>3 DEF Affects, TypeInv, TypeOK
  <2> QED
    BY <2>1, <2>2, <2>3 DEF Changes, Still, Change
<1> QED
  BY <1>1 DEF Shown, TypeInv, TypeOK

\* Only the executor of p adds an effect, or fails.
LEMMA EffectsStep ==
    ASSUME TypeInv, Effects, Duties, Changes, NEW p \in Proposals
    PROVE  Effect(p, proposals', executions', effects', drifts', resource')
<1>1. Effect(p, proposals, executions, effects, drifts, resource)
  BY DEF Effects
<1>2. effects[p] \in Nat
  BY DEF TypeInv, TypeOK
<1>3. ASSUME Shown(p, effects, drifts) PROVE Shown(p, effects', drifts')
  BY <1>3, ShownStays
<1>4. CASE Still
  <2>1. Same(p)
    BY <1>4 DEF Still
  <2>2. CASE UNCHANGED <<resource, effects, drifts>>
    BY <1>1, <2>1, <2>2 DEF Effect, Same
  <2>3. CASE Drifts
    <3>1. Shown(p, effects', drifts')
      BY <2>3 DEF Drifts, Shown, TypeInv, TypeOK
    <3> QED
      BY <1>1, <2>1, <2>3, <3>1 DEF Effect, Same, Drifts
  <2>4. ASSUME NEW q \in Proposals, Affects(q)
        PROVE  Effect(p, proposals', executions', effects', drifts', resource')
    <3>1. PICK e \in Sessions : At(e, "apply") /\ On(e) = q
      BY <2>4 DEF Affects
    <3>2. executions[q].outcome \notin {"none", "failed"} /\ effects[q] = 0
      BY <3>1 DEF Duties, OnDuty, Duty, At, On, InHand
    <3>3. effects'[q] = 1 /\ (p # q => effects'[p] = effects[p])
      BY <2>4, <3>2 DEF Affects, TypeInv, TypeOK
    <3>4. resource'.value = TargetOf[p] => Shown(p, effects', drifts')
      <4>1. resource'.value = TargetOf[q] /\ effects'[q] > 0
        BY <2>4, <3>3 DEF Affects
      <4> QED
        BY <4>1 DEF Shown
    <3>5. CASE p = q
      BY <1>1, <1>3, <2>1, <3>2, <3>3, <3>4, <3>5 DEF Effect, Same
    <3>6. CASE p # q
      BY <1>1, <1>3, <2>1, <3>3, <3>4, <3>6 DEF Effect, Same
    <3> QED
      BY <3>5, <3>6
  <2> QED
    BY <1>4, <2>2, <2>3, <2>4 DEF Still
<1>5. ASSUME NEW q \in Proposals, Change(q)
      PROVE  Effect(p, proposals', executions', effects', drifts', resource')
  <2>1. UNCHANGED <<resource, effects, drifts>>
    BY <1>5 DEF Change
  <2>2. CASE p # q
    <3>1. Same(p)
      BY <1>5, <2>2 DEF Change, Proposes, Decides, Withdraws, Outdates, Begins,
         Succeeds, Loses, Fails, Sets
    <3> QED
      BY <1>1, <2>1, <3>1 DEF Effect, Same
  <2>3. CASE Proposes(p)
    BY <1>1, <2>1, <2>3 DEF Effect, Proposes, Sets
  <2>4. CASE Decides(p) \/ Withdraws(p) \/ Outdates(p)
    <3>1. proposals[p].status # "absent"
      BY <2>4 DEF Decides, Withdraws, Outdates, Open
    <3>2. PICK status \in Statuses : Sets(p, status, executions[p].outcome)
      BY <2>4 DEF Decides, Withdraws, Outdates, Verdicts, Statuses, Open, Closed
    <3>3. status # "absent"
      BY DEF Statuses, Open, Closed
    <3> QED
      BY <1>1, <2>1, <3>1, <3>2, <3>3 DEF Effect, Sets
  <2>5. CASE Begins(p)
    BY <1>1, <2>1, <2>5 DEF Effect, Begins, Sets
  <2>6. CASE Succeeds(p)
    BY <1>1, <2>1, <2>6 DEF Effect, Succeeds, Sets, Unresolved
  <2>7. CASE Loses(p)
    BY <1>1, <2>1, <2>7 DEF Effect, Loses, Sets
  <2>8. CASE Fails(p)
    <3>1. effects[p] = 0
      BY <2>8 DEF Fails, Duties, OnDuty, Duty, At, On, InHand
    <3> QED
      BY <1>1, <2>1, <2>8, <3>1 DEF Effect, Fails, Sets
  <2> QED
    BY <1>5, <2>2, <2>3, <2>4, <2>5, <2>6, <2>7, <2>8 DEF Change
<1> QED
  BY <1>4, <1>5 DEF Changes

\* An execution keeps its key, and its success.
LEMMA RowStays ==
    ASSUME TypeInv, Next, NEW p \in Proposals, Executed(p)
    PROVE  /\ executions'[p].key = executions[p].key
           /\ executions'[p].outcome # "none"
           /\ executions[p].outcome = "succeeded" => executions'[p].outcome = "succeeded"
<1>1. Closes(p)
  BY RowsStep DEF RowSteps, RowStep, Starts
<1>2. Executed(p)'
  BY ExecutedStays
<1> QED
  BY <1>1, <1>2 DEF Closes, Executed, Allowed, Closed

\* What a change of one proposal leaves of another one.
LEMMA ChangeSame ==
    ASSUME NEW p \in Proposals, NEW q \in Proposals, p # q, Change(q)
    PROVE  Same(p)
  BY DEF Change, Proposes, Decides, Withdraws, Outdates, Begins, Succeeds, Loses,
     Fails, Sets

LEMMA ProposedStays ==
    ASSUME Changes, NEW p \in Proposals, proposals[p].status # "absent"
    PROVE  proposals'[p].status # "absent"
<1>1. ASSUME Change(p) PROVE proposals'[p].status # "absent"
  BY <1>1 DEF Change, Proposes, Decides, Withdraws, Outdates, Begins, Succeeds,
     Loses, Fails, Sets, Verdicts
<1> QED
  BY <1>1, ChangeSame DEF Changes, Still, Same

\* A row that is held and not let go keeps its status.
LEMMA HeldStays ==
    ASSUME Changes, RowLocks, NEW d \in Sessions, NEW p \in Proposals, Holds(d, p),
           sessions'[d] = sessions[d], proposals[p].status # "absent"
    PROVE  proposals'[p].status = proposals[p].status
<1>1. ~Freed(p)
  BY DEF Freed, Holds
<1>2. ~Change(p)
  BY <1>1 DEF Change, Proposes
<1> QED
  BY <1>2, ChangeSame DEF Changes, Still, Same

\* Nobody else makes the effect of a proposal that is in hand, or fails it.
LEMMA InHandStays ==
    ASSUME TypeInv, OneExecutor, Changes, NEW d \in Sessions, NEW p \in Proposals,
           On(d) = p, sessions[d].at \in InHand, sessions'[d] = sessions[d],
           executions[p].outcome # "failed"
    PROVE  executions'[p].outcome # "failed" /\ effects'[p] = effects[p]
<1>1. ASSUME NEW e \in Sessions, sessions[e].at \in InHand, On(e) = p,
             sessions'[e].at \notin InHand
      PROVE  FALSE
  <2>1. d # e
    BY <1>1
  <2>2. d \in Executors /\ e \in Executors
    BY <1>1, Known DEF TypeInv, InHand, ExecutePhases
  <2> QED
    BY <1>1, <2>1, <2>2 DEF OneExecutor
<1>2. ~Affects(p) /\ ~Fails(p)
  BY <1>1 DEF Affects, Fails, At, InHand
<1>3. CASE Still
  BY <1>2, <1>3 DEF Still, Same, Drifts, Affects, TypeInv, TypeOK
<1>4. ASSUME NEW q \in Proposals, Change(q)
      PROVE  executions'[p].outcome # "failed" /\ effects'[p] = effects[p]
  <2>1. CASE p = q
    BY <1>2, <1>4, <2>1 DEF Change, Proposes, Decides, Withdraws, Outdates, Begins,
       Succeeds, Loses, Sets
  <2>2. CASE p # q
    BY <1>4, <2>2, ChangeSame DEF Change, Same
  <2> QED
    BY <2>1, <2>2
<1> QED
  BY <1>3, <1>4 DEF Changes

\* A request that does not move can still do its duty.
LEMMA DutyStays ==
    ASSUME TypeInv, OneExecutor, Changes, Next, NEW d \in Sessions, OnDuty(d),
           sessions'[d] = sessions[d]
    PROVE  Duty(d, sessions'[d], proposals', executions', effects', drifts')
<1> DEFINE s == sessions[d]
           p == On(d)
<1>1. CASE p \notin Proposals
  <2>1. s.at \in {"idle", "done"} /\ s.reply = "none"
    BY <1>1, Known DEF TypeInv, At, OnDuty, Duty, On
  <2>2. s.at \notin Dutiful
    BY <2>1 DEF Dutiful, InHand, Closing, Counting, ReconcilePhases
  <2> QED
    BY <2>1, <2>2, NoDuty
<1>2. CASE p \in Proposals
  <2>1. /\ s.at \in {"write", "start"} => proposals'[p].status # "absent"
        /\ RowLocks =>
             /\ s.at = "write" => proposals'[p].status = "pending_approval"
             /\ s.at = "start" => proposals'[p].status = "approved"
    BY <1>2, HeldStays, ProposedStays DEF OnDuty, Duty, Holds, On
  <2>2. ASSUME s.at \in Counting \cup Closing \cup InHand
        PROVE  /\ executions'[p].outcome # "none"
               /\ executions'[p].key = executions[p].key
               /\ executions[p].outcome = "succeeded"
                     => executions'[p].outcome = "succeeded"
    <3>1. Executed(p)
      BY <2>2 DEF OnDuty, Duty, Executed, On
    <3> QED
      BY <1>2, <3>1, RowStays
  <2>3. ASSUME s.at \in InHand
        PROVE  executions'[p].outcome # "failed" /\ effects'[p] = 0
    BY <1>2, <2>3, InHandStays DEF OnDuty, Duty, On
  <2>4. ASSUME s.at \in {"tally", "save"}, s.aim = "succeeded"
        PROVE  Shown(p, effects', drifts')
    <3>1. Shown(p, effects, drifts)
      BY <2>4 DEF OnDuty, Duty, On
    <3> QED
      BY <1>2, <3>1, ShownStays
  <2>5. Answers(d, s.reply, executions'[p])
    <3>1. Answers(d, s.reply, executions[p])
      BY DEF OnDuty, Duty, On
    <3>2. CASE d \in Executors /\ s.reply # "none"
      <4>1. Executed(p)
        BY <3>1, <3>2 DEF Answers, Executed
      <4> QED
        BY <1>2, <3>1, <4>1, RowStays DEF Answers
    <3>3. CASE ~(d \in Executors /\ s.reply # "none")
      BY <3>3 DEF Answers
    <3> QED
      BY <3>2, <3>3
  <2>6. /\ s.at \in Closing \cup InHand /\ d \in Executors
              => executions'[p].key = KeyOf[d]
        /\ s.at = "conclude" /\ s.aim = "succeeded"
              => executions'[p].outcome = "succeeded"
    BY <2>2 DEF OnDuty, Duty, On, Closing
  <2> QED
    BY <1>2, <2>1, <2>2, <2>3, <2>4, <2>5, <2>6 DEF OnDuty, Duty, On
<1> QED
  BY <1>1, <1>2

LifeInv == TypeInv /\ Handled /\ OneExecutor /\ Exclusive /\ Duties /\ Effects

LEMMA LifeInit == Init => LifeInv
<1> SUFFICES ASSUME Init PROVE LifeInv
  OBVIOUS
<1>1. \A c \in Sessions : sessions[c] = Idle
  BY DEF Init
<1>2. Handled /\ OneExecutor /\ Exclusive
  BY <1>1 DEF Handled, OneExecutor, Exclusive, Holds, Idle, InHand, Sessions
<1>3. Duties
  <2> SUFFICES ASSUME NEW c \in Sessions PROVE OnDuty(c)
    BY DEF Duties
  <2>1. sessions[c].at \notin Dutiful /\ sessions[c].reply = "none"
    BY <1>1 DEF Idle, Dutiful, InHand, Closing, Counting, ReconcilePhases
  <2> QED
    BY <2>1, NoDuty DEF OnDuty
<1>4. Effects
  BY DEF Init, Effects, Effect, NoExecution, AbsentProposal
<1> QED
  BY <1>2, <1>3, <1>4, TypeInit DEF LifeInv

LEMMA ExclusiveStep ==
    ASSUME Exclusive, NEW c \in Sessions, Turn(c)
    PROVE  Exclusive'
<1> SUFFICES ASSUME RowLocks, NEW p \in Proposals, NEW d \in Sessions, NEW e \in Sessions,
                    Holds(d, p)', Holds(e, p)', d # e
             PROVE  FALSE
  BY DEF Exclusive
<1>1. \A f \in Sessions \ {c} : Holds(f, p)' => Holds(f, p)
  BY DEF Turn, Holds, On
<1>2. CASE d # c /\ e # c
  BY <1>1, <1>2 DEF Exclusive
<1>3. CASE d = c \/ e = c
  <2>1. Unlocked(c, p)
    BY <1>3 DEF Turn, Holds, On
  <2> QED
    BY <1>1, <1>3, <2>1 DEF Unlocked
<1> QED
  BY <1>2, <1>3

LEMMA LifeStep == LifeInv /\ [Next]_vars => LifeInv'
<1> SUFFICES ASSUME LifeInv, [Next]_vars PROVE LifeInv'
  OBVIOUS
<1>1. (TypeInv /\ Handled /\ OneExecutor)'
  BY TypeStep, HandledStep DEF LifeInv
<1>2. CASE UNCHANGED vars
  <2>1. Exclusive' /\ Duties' /\ Effects'
    BY <1>2 DEF LifeInv, vars, tables, Exclusive, Holds, On, Duties, OnDuty, Effects
  <2> QED
    BY <1>1, <2>1 DEF LifeInv
<1>3. CASE Next
  <2>1. Changes
    BY <1>3, ChangeStep DEF LifeInv
  <2>2. \A d \in Sessions : sessions'[d] = sessions[d] =>
            Duty(d, sessions'[d], proposals', executions', effects', drifts')
    BY <1>3, <2>1, DutyStays DEF LifeInv, Duties
  <2>3. Effects'
    BY <2>1, EffectsStep DEF LifeInv, Effects
  <2>4. CASE sessions' = sessions
    BY <1>1, <2>2, <2>3, <2>4 DEF LifeInv, Exclusive, Holds, On, Duties, OnDuty
  <2>5. ASSUME NEW c \in Sessions, Turn(c) PROVE Exclusive' /\ Duties'
    <3>1. \A d \in Sessions : OnDuty(d)'
      BY <2>2, <2>5 DEF Turn, OnDuty
    <3> QED
      BY <2>5, <3>1, ExclusiveStep DEF LifeInv, Duties
  <2> QED
    BY <1>1, <1>3, <2>3, <2>4, <2>5, TurnStep DEF LifeInv
<1> QED
  BY <1>2, <1>3

-----------------------------------------------------------------------------
(* What follows.                                                            *)

\* A request is answered with an execution only if it carries its key, and a
\* success that was reported remains one, whoever else executes or reconciles.
THEOREM AnswersAreKept == Spec => []AnswersHold
<1>1. LifeInv => AnswersHold
  BY DEF LifeInv, Duties, OnDuty, Duty, Answers, AnswersHold, On, Sessions
<1> QED
  BY <1>1, LifeInit, LifeStep, PTL DEF Spec

\* A failed execution has changed nothing and a succeeded one has changed the
\* resource once, across lost answers, crashes and reconciliations.
THEOREM OutcomesAreTrue == Spec => []OutcomeIsTrue
<1>1. LifeInv => OutcomeIsTrue
  <2> SUFFICES ASSUME LifeInv, NEW p \in Proposals
               PROVE  /\ effects[p] <= 1
                      /\ executions[p].outcome = "failed" => effects[p] = 0
                      /\ executions[p].outcome = "succeeded" /\ ~MadeByOthers(p)
                            => effects[p] = 1
    BY DEF OutcomeIsTrue
  <2>1. Effect(p, proposals, executions, effects, drifts, resource)
    BY DEF LifeInv, Effects
  <2>2. effects[p] \in Nat /\ drifts \in Nat
    BY DEF LifeInv, TypeInv, TypeOK
  <2>3. ASSUME executions[p].outcome = "succeeded", ~MadeByOthers(p)
        PROVE  effects[p] > 0
    <3>1. drifts = 0
      BY <2>2, <2>3 DEF MadeByOthers
    <3> QED
      BY <2>1, <2>3, <3>1 DEF Effect, Shown, MadeByOthers
  <2> QED
    BY <2>1, <2>2, <2>3 DEF Effect
<1> QED
  BY <1>1, LifeInit, LifeStep, PTL DEF Spec

\* With row locks, a change is a step of the contract.
LEMMA ChangeIsLegal ==
    ASSUME TypeInv, RowLocks, NEW p \in Proposals, Change(p)
    PROVE  Contract!Next
<1> DEFINE st == [q \in Proposals |-> proposals[q].status]
           out == [q \in Proposals |-> executions[q].outcome]
<1>1. ASSUME NEW status, NEW outcome, Sets(p, status, outcome)
      PROVE  /\ st' = [st EXCEPT ![p] = status]
             /\ out' = [out EXCEPT ![p] = outcome]
  BY <1>1 DEF Sets, Same
<1>2. out = [out EXCEPT ![p] = executions[p].outcome]
  OBVIOUS
<1>3. CASE Proposes(p)
  <2>1. Contract!Propose(p)
    BY <1>1, <1>2, <1>3 DEF Proposes, Contract!Propose, Contract!Move
  <2> QED
    BY <2>1 DEF Contract!Next
<1>4. CASE Decides(p)
  <2>1. Contract!Decide(p)
    BY <1>1, <1>2, <1>4 DEF Decides, Verdicts, Contract!Decide, Contract!Move
  <2> QED
    BY <2>1 DEF Contract!Next
<1>5. CASE Withdraws(p)
  <2>1. Contract!Withdraw(p)
    BY <1>1, <1>2, <1>5 DEF Withdraws, Open, Contract!Withdraw, Contract!Move
  <2> QED
    BY <2>1 DEF Contract!Next
<1>6. CASE Outdates(p)
  <2>1. Contract!Outdate(p)
    BY <1>1, <1>2, <1>6 DEF Outdates, Contract!Outdate, Contract!Move
  <2> QED
    BY <2>1 DEF Contract!Next
<1>7. CASE Begins(p)
  <2>1. Contract!Execute(p)
    BY <1>1, <1>7 DEF Begins, Contract!Execute, Contract!Move
  <2> QED
    BY <2>1 DEF Contract!Next
<1>8. CASE Succeeds(p) \/ Loses(p) \/ Fails(p)
  <2>1. Contract!Resolve(p)
    BY <1>1, <1>8 DEF Succeeds, Loses, Fails, Unresolved, Contract!Resolve, Contract!Move
  <2> QED
    BY <2>1 DEF Contract!Next
<1> QED
  BY <1>3, <1>4, <1>5, <1>6, <1>7, <1>8 DEF Change

\* With row locks, every step of any request is a step of the contract, or
\* changes nothing that the contract shows.
THEOREM LocksKeepTheContract ==
    ASSUME RowLocks
    PROVE  Spec => ImplementsContract
<1>1. Init => Contract!Init
  BY DEF Init, AbsentProposal, NoExecution, Contract!Init
<1>2. LifeInv /\ [Next]_vars => [Contract!Next]_Contract!vars
  <2> SUFFICES ASSUME LifeInv, [Next]_vars PROVE [Contract!Next]_Contract!vars
    OBVIOUS
  <2>1. CASE UNCHANGED vars
    BY <2>1 DEF vars, tables, Contract!vars
  <2>2. CASE Next
    <3>1. Changes
      BY <2>2, ChangeStep DEF LifeInv
    <3>2. CASE Still
      BY <3>2 DEF Still, Same, Contract!vars
    <3>3. ASSUME NEW q \in Proposals, Change(q) PROVE Contract!Next
      BY <3>3, ChangeIsLegal DEF LifeInv
    <3> QED
      BY <3>1, <3>2, <3>3 DEF Changes
  <2> QED
    BY <2>1, <2>2
<1> QED
  BY <1>1, <1>2, LifeInit, LifeStep, PTL DEF Spec, ImplementsContract, Contract!Spec

\* With row locks, the proposals obey the table of agent/action_state.py.
THEOREM LocksObeyTheTable ==
    ASSUME RowLocks
    PROVE  Spec => ObeysTable
<1> DEFINE Kept == \A p \in Proposals : proposals[p].status # "absent" =>
             \/ proposals'[p].status = proposals[p].status
             \/ proposals'[p].status \in Allowed(proposals[p].status)
<1>1. LifeInv /\ [Next]_vars => [Kept]_vars
  <2> SUFFICES ASSUME LifeInv, Next, NEW p \in Proposals,
                      proposals[p].status # "absent",
                      proposals'[p].status # proposals[p].status
               PROVE  proposals'[p].status \in Allowed(proposals[p].status)
    OBVIOUS
  <2>1. Change(p)
    BY ChangeStep, ChangeSame DEF LifeInv, Changes, Still, Same
  <2>2. CASE Decides(p)
    BY <2>2 DEF Decides, Sets, Allowed, Closed, Verdicts
  <2>3. CASE Withdraws(p)
    BY <2>3 DEF Withdraws, Sets, Allowed, Open, Closed
  <2>4. CASE Outdates(p)
    BY <2>4 DEF Outdates, Sets, Allowed, Closed
  <2>5. CASE Begins(p)
    BY <2>5 DEF Begins, Sets, Allowed, Closed
  <2>6. CASE Succeeds(p)
    BY <2>6 DEF Succeeds, Sets, Allowed, Closed, Unresolved
  <2>7. CASE Loses(p) \/ Fails(p)
    BY <2>7 DEF Loses, Fails, Sets, Allowed, Closed
  <2> QED
    BY <2>1, <2>2, <2>3, <2>4, <2>5, <2>6, <2>7 DEF Change, Proposes
<1> QED
  BY <1>1, LifeInit, LifeStep, PTL DEF Spec, ObeysTable

-----------------------------------------------------------------------------
(* The audit.  What the run action_audit finds needs a replay, and no other  *)
(* interleaving loses the record of a success.                               *)

\* The request that is about to record the success of p.
Recording(c, p) == At(c, "conclude") /\ On(c) = p /\ sessions[c].aim = "succeeded"

\* A record or a mark of p stays, and p does not succeed in this step.
Remembers(p) ==
    /\ audited[p] => audited'[p]
    /\ executions'[p].outcome = "succeeded" =>
          /\ executions[p].outcome = "succeeded"
          /\ executions[p].owed => executions'[p].owed

LEMMA RememberedStays ==
    ASSUME WritesAudited, \A p \in Proposals : Remembers(p), NEW c \in Sessions,
           ~At(c, "conclude"), \A d \in Sessions \ {c} : sessions'[d] = sessions[d]
    PROVE  WritesAudited'
<1> SUFFICES ASSUME NEW p \in Proposals, executions'[p].outcome = "succeeded",
                    ~audited'[p], ~executions'[p].owed
             PROVE  \E d \in Sessions : Recording(d, p)'
  BY DEF WritesAudited, Recording, At, On
<1>1. executions[p].outcome = "succeeded" /\ ~audited[p] /\ ~executions[p].owed
  BY DEF Remembers
<1>2. PICK d \in Sessions : Recording(d, p)
  BY <1>1 DEF WritesAudited, Recording
<1>3. sessions'[d] = sessions[d]
  BY <1>2 DEF Recording, At
<1> QED
  BY <1>2, <1>3 DEF Recording, At, On

LEMMA SameRemembers ==
    ASSUME UNCHANGED <<executions, audited>>
    PROVE  \A p \in Proposals : Remembers(p)
  BY DEF Remembers

\* One execution is written: it has not succeeded, or keeps its mark.
LEMMA OneRemembers ==
    ASSUME TypeInv, NEW p \in Proposals, NEW new,
           executions' = [executions EXCEPT ![p] = new], UNCHANGED audited,
           new.outcome = "succeeded" =>
               executions[p].outcome = "succeeded" /\ (executions[p].owed => new.owed)
    PROVE  \A q \in Proposals : Remembers(q)
  BY DEF Remembers, TypeInv, TypeOK

LEMMA ProceedRemembers ==
    ASSUME TypeInv, NEW c \in Sessions \ Replayers, Proceed(c), ~Save(c), ~Conclude(c)
    PROVE  \A p \in Proposals : Remembers(p)
<1> DEFINE p == On(c)
           x == executions[p]
<1>1. sessions[c] \in Session /\ Post(c, sessions[c])
  BY DEF TypeInv, SessionsOK
<1>2. CASE ~(StartExecution(c) \/ Announce(c) \/ MarkStale(c) \/ BumpAttempts(c) \/ Keep(c))
  <2>1. ~Replay(c) /\ ~RecordReplay(c)
    BY <1>1 DEF Replay, RecordReplay, At, Post
  <2>2. UNCHANGED <<executions, audited>>
    BY <1>2, <2>1 DEF Proceed, Look, Expire, Reread, ReadToDecide, WriteDecision, Cancel,
       Check, Consent, Prepare, Drift, Outdate, Excuse, ReadToStart, Rival, Apply, Tally,
       ReadExecution, CountAttempts, Ask, tables
  <2> QED
    BY <2>2, SameRemembers
<1>3. ASSUME StartExecution(c) \/ Announce(c) \/ MarkStale(c) \/ BumpAttempts(c) \/ Keep(c)
      PROVE  p \in Proposals /\ x \in Execution
  <2>1. p \in Proposals
    BY <1>1, <1>3 DEF StartExecution, Announce, MarkStale, BumpAttempts, Keep, At, Post, On
  <2> QED
    BY <2>1 DEF TypeInv, TypeOK
<1>4. CASE StartExecution(c)
  <2>1. CASE CanStart(c)
    <3> DEFINE new == [outcome |-> "executing", key |-> KeyOf[c], attempts |-> 1,
                       owed |-> FALSE, replays |-> 0]
    <3>1. executions' = [executions EXCEPT ![p] = new] /\ UNCHANGED audited
      BY <1>4, <2>1 DEF StartExecution
    <3> QED
      BY <1>3, <1>4, <3>1, OneRemembers
  <2>2. CASE ~CanStart(c)
    BY <1>4, <2>2, SameRemembers DEF StartExecution
  <2> QED
    BY <2>1, <2>2
<1>5. CASE Announce(c)
  <2>1. PICK failed \in BOOLEAN : SetOwed(p, x.owed \/ failed)
    BY <1>5 DEF Announce
  <2> DEFINE new == [x EXCEPT !.owed = x.owed \/ failed]
  <2>2. executions' = [executions EXCEPT ![p] = new] /\ UNCHANGED audited
    BY <1>5, <2>1 DEF SetOwed, Announce
  <2>3. new.outcome = x.outcome /\ (x.owed => new.owed)
    BY <1>3, <1>5 DEF Execution
  <2> HIDE DEF new
  <2> QED
    BY <1>3, <1>5, <2>2, <2>3, OneRemembers
<1>6. CASE MarkStale(c)
  <2>1. CASE CanClose(p, {"executing"})
    <3> DEFINE new == [x EXCEPT !.outcome = "failed"]
    <3>1. executions' = [executions EXCEPT ![p] = new] /\ UNCHANGED audited
      BY <1>6, <2>1 DEF MarkStale
    <3>2. new.outcome = "failed"
      BY <1>3, <1>6 DEF Execution
    <3> HIDE DEF new
    <3> QED
      BY <1>3, <1>6, <3>1, <3>2, OneRemembers
  <2>2. CASE ~CanClose(p, {"executing"})
    BY <1>6, <2>2, SameRemembers DEF MarkStale
  <2> QED
    BY <2>1, <2>2
<1>7. CASE BumpAttempts(c)
  <2> DEFINE new == [x EXCEPT !.attempts = sessions[c].tries + 1]
  <2>1. executions' = [executions EXCEPT ![p] = new] /\ UNCHANGED audited
    BY <1>7 DEF BumpAttempts
  <2>2. new.outcome = x.outcome /\ new.owed = x.owed
    BY <1>3, <1>7 DEF Execution
  <2> HIDE DEF new
  <2> QED
    BY <1>3, <1>7, <2>1, <2>2, OneRemembers
<1>8. CASE Keep(c)
  <2>1. CASE x.outcome = "reconciliation_required"
    <3> DEFINE new == [x EXCEPT !.owed = sessions[c].owed]
    <3>1. executions' = [executions EXCEPT ![p] = new] /\ UNCHANGED audited
      BY <1>8, <2>1 DEF Keep, SetOwed
    <3>2. new.outcome = "reconciliation_required"
      BY <1>3, <1>8, <2>1 DEF Execution
    <3> HIDE DEF new
    <3> QED
      BY <1>3, <1>8, <3>1, <3>2, OneRemembers
  <2>2. CASE x.outcome # "reconciliation_required"
    BY <1>8, <2>2, SameRemembers DEF Keep
  <2> QED
    BY <2>1, <2>2
<1> QED
  BY <1>2, <1>4, <1>5, <1>6, <1>7, <1>8

\* A success is committed by a request that goes on to record it.
LEMMA SaveRemembers ==
    ASSUME TypeInv, WritesAudited, NEW c \in Sessions, Save(c), Turn(c)
    PROVE  WritesAudited'
<1> DEFINE p == On(c)
           x == executions[p]
           aim == sessions[c].aim
<1>1. sessions[c] \in Session /\ Post(c, sessions[c]) /\ sessions[c].at = "save"
  BY DEF TypeInv, SessionsOK, Save, At
<1>2. p \in Proposals /\ x \in Execution
  BY <1>1 DEF Post, On, TypeInv, TypeOK
<1>3. ~At(c, "conclude") /\ (\A d \in Sessions \ {c} : sessions'[d] = sessions[d])
  BY <1>1 DEF At, Turn
<1>4. CASE CanClose(p, From(aim))
  <2> DEFINE new == [x EXCEPT !.outcome = aim, !.owed = sessions[c].owed]
             next == [sessions[c] EXCEPT !.at = "conclude"]
  <2>1. /\ executions' = [executions EXCEPT ![p] = new] /\ UNCHANGED audited
        /\ Goto(c, "conclude")
    BY <1>4 DEF Save
  <2>2. new.outcome = aim
    BY <1>2 DEF Execution
  <2>3. next.at = "conclude" /\ next.on = p /\ next.aim = aim
    BY <1>1 DEF Session, On
  <2>4. sessions' = [sessions EXCEPT ![c] = next]
    BY <2>1, <2>3 DEF Goto, Become
  <2> HIDE DEF new, next
  <2>5. CASE aim = "succeeded"
    <3>1. sessions'[c] = next
      BY <2>4 DEF TypeInv, SessionsOK
    <3>2. /\ sessions'[c].at = "conclude" /\ sessions'[c].aim = "succeeded"
          /\ sessions'[c].on = p
      BY <2>3, <2>5, <3>1
    <3> SUFFICES ASSUME NEW q \in Proposals, executions'[q].outcome = "succeeded",
                        ~audited'[q], ~executions'[q].owed
                 PROVE  \E d \in Sessions : Recording(d, q)'
      BY DEF WritesAudited, Recording, At, On
    <3>3. CASE q = p
      <4>1. Recording(c, q)'
        BY <3>2, <3>3 DEF Recording, At, On
      <4> QED
        BY <4>1
    <3>4. CASE q # p
      <4>1. executions'[q] = executions[q] /\ audited'[q] = audited[q]
        BY <2>1, <3>4 DEF TypeInv, TypeOK
      <4>2. PICK d \in Sessions : Recording(d, q)
        BY <4>1 DEF WritesAudited, Recording
      <4>3. sessions'[d] = sessions[d]
        BY <1>3, <4>2 DEF Recording
      <4> QED
        BY <4>2, <4>3 DEF Recording, At, On
    <3> QED
      BY <3>3, <3>4
  <2>6. CASE aim # "succeeded"
    <3>1. \A q \in Proposals : Remembers(q)
      BY <1>2, <2>1, <2>2, <2>6, OneRemembers
    <3> QED
      BY <1>3, <3>1, RememberedStays
  <2> QED
    BY <2>5, <2>6
<1>5. CASE ~CanClose(p, From(aim))
  <2>1. UNCHANGED <<executions, audited>>
    BY <1>5 DEF Save
  <2> QED
    BY <1>3, <2>1, SameRemembers, RememberedStays
<1> QED
  BY <1>4, <1>5

\* The record is appended, or the execution is marked.
LEMMA ConcludeRemembers ==
    ASSUME TypeInv, WritesAudited, NEW c \in Sessions, Conclude(c), Turn(c)
    PROVE  WritesAudited'
<1> DEFINE p == On(c)
           success == sessions[c].aim = "succeeded"
<1>1. p \in Proposals /\ (\A d \in Sessions \ {c} : sessions'[d] = sessions[d])
  BY DEF TypeInv, SessionsOK, Conclude, At, Post, On, Turn
<1> SUFFICES ASSUME NEW q \in Proposals, executions'[q].outcome = "succeeded",
                    ~audited'[q], ~executions'[q].owed
             PROVE  \E d \in Sessions : Recording(d, q)'
  BY DEF WritesAudited, Recording, At, On
<1>2. /\ executions[q].outcome = "succeeded" /\ ~audited[q] /\ ~executions[q].owed
      /\ ~Recording(c, q)
  <2>1. CASE audited' = [audited EXCEPT ![p] = audited[p] \/ success] /\ UNCHANGED executions
    <3>1. audited[q] => audited'[q]
      BY <2>1 DEF TypeInv, TypeOK
    <3>2. q = p /\ success => audited'[q]
      BY <1>1, <2>1 DEF TypeInv, TypeOK
    <3> QED
      BY <2>1, <3>1, <3>2 DEF Recording
  <2>2. CASE SetOwed(p, TRUE) /\ UNCHANGED audited
    <3>1. executions'[p].owed
      BY <1>1, <2>2 DEF SetOwed, TypeInv, TypeOK, Execution
    <3>2. q # p
      BY <3>1
    <3>3. executions'[q] = executions[q]
      BY <2>2, <3>2 DEF SetOwed, TypeInv, TypeOK
    <3> QED
      BY <2>2, <3>2, <3>3 DEF Recording
  <2> QED
    BY <2>1, <2>2 DEF Conclude
<1>3. PICK d \in Sessions : Recording(d, q)
  BY <1>2 DEF WritesAudited, Recording
<1>4. sessions'[d] = sessions[d]
  BY <1>1, <1>2, <1>3
<1> QED
  BY <1>3, <1>4 DEF Recording, At, On

\* Without audit replays and crashes every success is recorded, or marked for
\* a replay: neither reconciliations nor executions that write back a mark they
\* read earlier (complete_execution) lose one.
THEOREM OnlyReplaysForget ==
    ASSUME Replayers = {}, MaxCrashes = 0
    PROVE  Spec => []WritesAudited
<1>1. Init => WritesAudited
  BY DEF Init, NoExecution, WritesAudited
<1>2. LifeInv /\ WritesAudited /\ [Next]_vars => WritesAudited'
  <2> SUFFICES ASSUME LifeInv, WritesAudited, [Next]_vars PROVE WritesAudited'
    OBVIOUS
  <2>1. CASE UNCHANGED <<executions, audited, sessions>>
    BY <2>1 DEF WritesAudited, At, On
  <2>2. CASE UNCHANGED vars
    BY <2>1, <2>2 DEF vars, tables
  <2>3. CASE OthersChange \/ (\E p \in Proposals :
                Propose(p) \/ TimePasses(p) \/ ReadProposals(p))
    BY <2>1, <2>3 DEF Propose, TimePasses, ReadProposals, OthersChange
  <2>4. ASSUME NEW c \in Sessions, Arrive(c) \/ Proceed(c) \/ Crash(c)
        PROVE  WritesAudited'
    <3>1. TypeInv /\ Turn(c)
      BY <2>4, EveryTurn DEF LifeInv
    <3>2. ~Crash(c)
      BY <3>1 DEF Crash, TypeInv, TypeOK
    <3>3. CASE Arrive(c)
      <4>1. UNCHANGED <<executions, audited>> /\ ~At(c, "conclude")
        BY <3>3 DEF Arrive, Look, CheckLimit, ReadOwed, At, tables
      <4> QED
        BY <3>1, <4>1, SameRemembers, RememberedStays DEF Turn
    <3>4. CASE Save(c)
      BY <3>1, <3>4, SaveRemembers
    <3>5. CASE Conclude(c)
      BY <3>1, <3>5, ConcludeRemembers
    <3>6. CASE Proceed(c) /\ ~Save(c) /\ ~Conclude(c)
      <4>1. ~At(c, "conclude")
        BY <3>6 DEF Proceed, Look, Expire, Reread, ReadToDecide, WriteDecision, Cancel,
           Check, Consent, Prepare, Drift, Outdate, Excuse, ReadToStart, StartExecution,
           Rival, Announce, Apply, Tally, MarkStale, ReadExecution, CountAttempts,
           BumpAttempts, Ask, Keep, Replay, RecordReplay, At
      <4>2. \A p \in Proposals : Remembers(p)
        BY <3>1, <3>6, ProceedRemembers
      <4> QED
        BY <3>1, <4>1, <4>2, RememberedStays DEF Turn
    <3> QED
      BY <2>4, <3>2, <3>3, <3>4, <3>5, <3>6
  <2> QED
    BY <2>2, <2>3, <2>4 DEF Next
<1> QED
  BY <1>1, <1>2, LifeInit, LifeStep, PTL DEF Spec

=============================================================================
