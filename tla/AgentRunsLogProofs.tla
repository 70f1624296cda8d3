------------------------- MODULE AgentRunsLogProofs -------------------------
(***************************************************************************)
(* The numbered tables of AgentRuns: the events of a run and the messages  *)
(* of a conversation are dense, a run has one ending, and the tables do    *)
(* what RunContract says.                                                  *)
(***************************************************************************)
EXTENDS AgentRunsProofs, Sequences

-----------------------------------------------------------------------------
(* Rows numbered 1, 2, ... below a counter.                                *)

Dense(rows, next) ==
    /\ \A e \in rows : e.seq \in 1 .. (next - 1)
    /\ \A n \in 1 .. (next - 1) : \E e \in rows : e.seq = n
    /\ \A e, f \in rows : e.seq = f.seq => e = f

LEMMA DenseNumbers ==
    ASSUME NEW rows, NEW next \in Nat, Dense(rows, next)
    PROVE  {e.seq : e \in rows} = 1 .. (next - 1)
  BY DEF Dense

LEMMA AppendKeepsDense ==
    ASSUME NEW rows, NEW next \in Nat, next >= 1, Dense(rows, next),
           NEW row, row.seq = next
    PROVE  Dense(rows \cup {row}, next + 1)
<1>1. \A e \in rows \cup {row} : e.seq \in 1 .. next
  BY DEF Dense
<1>2. ASSUME NEW n \in 1 .. next
      PROVE  \E e \in rows \cup {row} : e.seq = n
  <2>1. CASE n = next
    BY <2>1
  <2>2. CASE n # next
    <3>1. n \in 1 .. (next - 1)
      BY <2>2
    <3> QED
      BY <3>1 DEF Dense
  <2> QED
    BY <2>1, <2>2
<1>3. \A e, f \in rows \cup {row} : e.seq = f.seq => e = f
  BY DEF Dense
<1>4. (next + 1) - 1 = next
  OBVIOUS
<1> QED
  BY <1>1, <1>2, <1>3, <1>4 DEF Dense

LEMMA FirstIsDense ==
    ASSUME NEW rows, Dense(rows, 0), NEW row, row.seq = 1
    PROVE  Dense(rows \cup {row}, 2)
<1>1. rows = {}
  BY DEF Dense
<1> QED
  BY <1>1 DEF Dense

-----------------------------------------------------------------------------
(* What a step may do to the tables.                                       *)

\* What the requester sees of a run: its status, conversation and events.
Shown(r) ==
    /\ runs'[r].status = runs[r].status /\ runs'[r].conv = runs[r].conv
    /\ runs'[r].next = runs[r].next /\ events'[r] = events[r]

RunAccepted(r) ==
    /\ runs[r].status = "absent" /\ runs'[r].status = "queued"
    /\ runs'[r].conv \in Calls
    /\ \A s \in Calls :
          runs[s].conv = runs'[r].conv => runs[s].status \notin ActiveStatuses
    /\ runs'[r].next = 2
    /\ events'[r] = events[r] \cup {[seq |-> 1, kind |-> "run.accepted"]}

\* The statuses of a run that some worker has claimed.
Claimed == {"running", "cancel_requested"}

RunRestated(r) ==
    /\ runs[r].status \in ActiveStatuses /\ runs'[r].status \in Claimed
    /\ runs'[r].conv = runs[r].conv
    /\ runs'[r].next = runs[r].next /\ events'[r] = events[r]

Reports == {"run.started", "activity.updated", "run.cancel_requested"}

RunReported(r) ==
    /\ runs[r].status # "absent" /\ runs'[r].status = runs[r].status
    /\ runs'[r].conv = runs[r].conv /\ runs'[r].next = runs[r].next + 1
    /\ \E kind \in Reports :
          events'[r] = events[r] \cup {[seq |-> runs[r].next, kind |-> kind]}

RunClosed(r) ==
    /\ runs[r].status \in Claimed /\ runs'[r].status \in TerminalStatuses
    /\ runs'[r].status = "proposal_ready" => runs'[r].proposal /\ proposals'[r] = 1
    /\ runs'[r].conv = runs[r].conv /\ runs'[r].next = runs[r].next + 1
    /\ events'[r] = events[r] \cup
          {[seq |-> runs[r].next, kind |-> TerminalKind(runs'[r].status)]}

RunChanged(r) == RunAccepted(r) \/ RunRestated(r) \/ RunReported(r) \/ RunClosed(r)

\* A step changes at most one run.
RunsStep ==
    \/ \A r \in Calls : Shown(r)
    \/ \E r \in Calls : RunChanged(r) /\ \A s \in Calls \ {r} : Shown(s)

RunStep(r) == Shown(r) \/ RunChanged(r)

\* The answers of a run in a conversation stay, or the first one is given by
\* its completion there.
Answers(r, c) == {m \in messages[c] : m.run = r /\ m.role = "assistant"}
Answered(r, c) == runs[r].status \in Completed /\ runs[r].conv = c

AnswersKept(r, c) ==
    /\ Answers(r, c)' = Answers(r, c)
    /\ Answered(r, c)' <=> Answered(r, c)

AnswersGiven(r, c) ==
    /\ ~Answered(r, c) /\ Answered(r, c)'
    /\ \E m : Answers(r, c)' = Answers(r, c) \cup {m}

\* The messages of a conversation are left alone (it may be archived),
\* started or continued.
ConvKept(c) ==
    /\ messages'[c] = messages[c]
    /\ convs'[c].version = convs[c].version /\ convs'[c].next = convs[c].next
    /\ convs'[c].status = "absent" <=> convs[c].status = "absent"

ConvStarted(c) ==
    /\ convs[c].status = "absent" /\ convs'[c].status # "absent"
    /\ convs'[c].next = 2
    /\ \E m : m.seq = 1 /\ messages'[c] = messages[c] \cup {m}

ConvAppended(c) ==
    /\ convs[c].status # "absent" /\ convs'[c].status # "absent"
    /\ convs'[c].version = convs[c].version + 1
    /\ convs'[c].next = convs[c].next + 1
    /\ \E m : m.seq = convs[c].next /\ messages'[c] = messages[c] \cup {m}

ConvStep(c) == ConvKept(c) \/ ConvStarted(c) \/ ConvAppended(c)

TablesStep ==
    /\ RunsStep
    /\ \A r, c \in Calls : AnswersKept(r, c) \/ AnswersGiven(r, c)
    /\ \A c \in Calls : ConvStep(c)

-----------------------------------------------------------------------------
(* What the tables keep.                                                   *)

TerminalEvents(r) == {e \in events[r] : e.kind \in TerminalKinds}

Logs ==
    \A r \in Calls :
        /\ Dense(events[r], runs[r].next)
        /\ IF runs[r].status = "absent" THEN runs[r].next = 0 ELSE runs[r].next >= 1

Endings ==
    \A r \in Calls :
        IF Finished(r)
          THEN \E e \in TerminalEvents(r) : /\ TerminalEvents(r) = {e}
                                            /\ e.kind = TerminalKind(runs[r].status)
          ELSE TerminalEvents(r) = {}

AnswersOnce ==
    \A r, c \in Calls :
        IF Answered(r, c)
          THEN \E m \in Answers(r, c) : Answers(r, c) = {m}
          ELSE Answers(r, c) = {}

Dialogues ==
    \A c \in Calls :
        /\ Dense(messages[c], convs[c].next)
        /\ IF convs[c].status = "absent" THEN convs[c].next = 0 ELSE convs[c].next >= 1

LEMMA TerminalKindIsTerminal ==
    \A status \in TerminalStatuses : TerminalKind(status) \in TerminalKinds
  BY DEF TerminalKind, TerminalKinds, TerminalStatuses, Completed

LEMMA EveryRunStep ==
    ASSUME RunsStep PROVE \A r \in Calls : RunStep(r)
  BY DEF RunsStep, RunStep

LEMMA LogsStep ==
    ASSUME TypeOK, Logs, RunsStep
    PROVE  Logs'
<1> SUFFICES ASSUME NEW r \in Calls
             PROVE  /\ Dense(events'[r], runs'[r].next)
                    /\ IF runs'[r].status = "absent"
                         THEN runs'[r].next = 0 ELSE runs'[r].next >= 1
  BY DEF Logs, Dense
<1>1. /\ RunStep(r) /\ Dense(events[r], runs[r].next) /\ runs[r].next \in Nat
      /\ IF runs[r].status = "absent" THEN runs[r].next = 0 ELSE runs[r].next >= 1
  BY EveryRunStep DEF Logs, TypeOK, Run
<1>2. CASE Shown(r) \/ RunRestated(r)
  BY <1>1, <1>2 DEF Shown, RunRestated, ActiveStatuses, Claimed
<1>3. CASE RunAccepted(r)
  <2> DEFINE row == [seq |-> 1, kind |-> "run.accepted"]
  <2>1. row.seq = 1 /\ events'[r] = events[r] \cup {row} /\ Dense(events[r], 0)
    BY <1>1, <1>3 DEF RunAccepted
  <2> HIDE DEF row
  <2>2. Dense(events'[r], 2)
    BY <2>1, FirstIsDense
  <2> QED
    BY <1>3, <2>2 DEF RunAccepted
<1>4. CASE RunReported(r)
  <2>1. PICK row : row.seq = runs[r].next /\ events'[r] = events[r] \cup {row}
    BY <1>4 DEF RunReported
  <2>2. Dense(events'[r], runs[r].next + 1)
    BY <1>1, <1>4, <2>1, AppendKeepsDense DEF RunReported
  <2> QED
    BY <1>1, <1>4, <2>2 DEF RunReported
<1>5. CASE RunClosed(r)
  <2> DEFINE row == [seq |-> runs[r].next, kind |-> TerminalKind(runs'[r].status)]
  <2>1. row.seq = runs[r].next /\ events'[r] = events[r] \cup {row}
    BY <1>5 DEF RunClosed
  <2>2. runs[r].status # "absent" /\ runs'[r].status # "absent"
    BY <1>5 DEF RunClosed, Claimed, TerminalStatuses, Completed
  <2> HIDE DEF row
  <2>3. Dense(events'[r], runs[r].next + 1)
    BY <1>1, <2>1, <2>2, AppendKeepsDense
  <2> QED
    BY <1>1, <1>5, <2>2, <2>3 DEF RunClosed
<1> QED
  BY <1>1, <1>2, <1>3, <1>4, <1>5 DEF RunStep, RunChanged

LEMMA EndingsStep ==
    ASSUME Endings, RunsStep
    PROVE  Endings'
<1> SUFFICES ASSUME NEW r \in Calls
             PROVE  IF Finished(r)'
                      THEN \E e \in TerminalEvents(r)' :
                              /\ TerminalEvents(r)' = {e}
                              /\ e.kind = TerminalKind(runs'[r].status)
                      ELSE TerminalEvents(r)' = {}
  BY DEF Endings
<1>1. /\ RunStep(r)
      /\ IF Finished(r)
           THEN \E e \in TerminalEvents(r) : /\ TerminalEvents(r) = {e}
                                             /\ e.kind = TerminalKind(runs[r].status)
           ELSE TerminalEvents(r) = {}
  BY EveryRunStep DEF Endings
<1>2. /\ "absent" \notin TerminalStatuses
      /\ \A status \in ActiveStatuses : status \notin TerminalStatuses
      /\ "run.accepted" \notin TerminalKinds
  BY DEF ActiveStatuses, TerminalStatuses, Completed, TerminalKinds
<1>3. CASE Shown(r) \/ RunRestated(r)
  BY <1>1, <1>2, <1>3 DEF Shown, RunRestated, Claimed, ActiveStatuses, Finished, TerminalEvents
<1>4. CASE RunAccepted(r)
  BY <1>1, <1>2, <1>4 DEF RunAccepted, Finished, TerminalEvents, ActiveStatuses
<1>5. CASE RunReported(r)
  <2>1. TerminalEvents(r)' = TerminalEvents(r)
    BY <1>5 DEF RunReported, TerminalEvents, Reports, TerminalKinds
  <2> QED
    BY <1>1, <1>5, <2>1 DEF RunReported, Finished
<1>6. CASE RunClosed(r)
  <2> DEFINE row == [seq |-> runs[r].next, kind |-> TerminalKind(runs'[r].status)]
  <2>1. /\ TerminalEvents(r) = {} /\ Finished(r)'
        /\ row.kind = TerminalKind(runs'[r].status) /\ row.kind \in TerminalKinds
        /\ events'[r] = events[r] \cup {row}
    BY <1>1, <1>2, <1>6, TerminalKindIsTerminal DEF RunClosed, Finished, Claimed, ActiveStatuses
  <2> HIDE DEF row
  <2>2. TerminalEvents(r)' = {row}
    BY <2>1 DEF TerminalEvents
  <2> QED
    BY <2>1, <2>2
<1> QED
  BY <1>1, <1>3, <1>4, <1>5, <1>6 DEF RunStep, RunChanged

LEMMA AnswersStep ==
    ASSUME AnswersOnce, \A r, c \in Calls : AnswersKept(r, c) \/ AnswersGiven(r, c)
    PROVE  AnswersOnce'
<1> SUFFICES ASSUME NEW r \in Calls, NEW c \in Calls
             PROVE  IF Answered(r, c)'
                      THEN \E m \in Answers(r, c)' : Answers(r, c)' = {m}
                      ELSE Answers(r, c)' = {}
  BY DEF AnswersOnce
<1>1. /\ AnswersKept(r, c) \/ AnswersGiven(r, c)
      /\ IF Answered(r, c)
           THEN \E m \in Answers(r, c) : Answers(r, c) = {m}
           ELSE Answers(r, c) = {}
  BY DEF AnswersOnce
<1> QED
  BY <1>1 DEF AnswersKept, AnswersGiven

LEMMA DialoguesStep ==
    ASSUME TypeOK, Dialogues, \A c \in Calls : ConvStep(c)
    PROVE  Dialogues'
<1> SUFFICES ASSUME NEW c \in Calls
             PROVE  /\ Dense(messages'[c], convs'[c].next)
                    /\ IF convs'[c].status = "absent"
                         THEN convs'[c].next = 0 ELSE convs'[c].next >= 1
  BY DEF Dialogues, Dense
<1>1. /\ ConvStep(c) /\ Dense(messages[c], convs[c].next) /\ convs[c].next \in Nat
      /\ IF convs[c].status = "absent" THEN convs[c].next = 0 ELSE convs[c].next >= 1
  BY DEF Dialogues, TypeOK, Conversation
<1>2. CASE ConvKept(c)
  BY <1>1, <1>2 DEF ConvKept
<1>3. CASE ConvStarted(c)
  BY <1>1, <1>3, FirstIsDense DEF ConvStarted
<1>4. CASE ConvAppended(c)
  <2>1. Dense(messages'[c], convs[c].next + 1)
    BY <1>1, <1>4, AppendKeepsDense DEF ConvAppended
  <2> QED
    BY <1>1, <1>4, <2>1 DEF ConvAppended
<1> QED
  BY <1>1, <1>2, <1>3, <1>4 DEF ConvStep

-----------------------------------------------------------------------------
(* The writes.                                                             *)

LEMMA RowSet ==
    ASSUME IInv, NEW s \in Calls, NEW new, runs' = [runs EXCEPT ![s] = new]
    PROVE  runs'[s] = new /\ \A r \in Calls \ {s} : runs'[r] = runs[r]
  BY DEF IInv, TypeInv, TypeOK

LEMMA EventAdded ==
    ASSUME IInv, NEW s \in Calls, NEW n, NEW kind, AddEvent(s, n, kind)
    PROVE  /\ events'[s] = events[s] \cup {[seq |-> n, kind |-> kind]}
           /\ \A r \in Calls \ {s} : events'[r] = events[r]
  BY DEF AddEvent, IInv, TypeInv, TypeOK

LEMMA MessageAdded ==
    ASSUME IInv, NEW c \in Calls, NEW n, NEW role, NEW s, AddMessage(c, n, role, s)
    PROVE  /\ messages'[c] = messages[c] \cup {[seq |-> n, role |-> role, run |-> s]}
           /\ \A d \in Calls \ {c} : messages'[d] = messages[d]
  BY DEF AddMessage, IInv, TypeInv, TypeOK

LEMMA ConvsUntouched ==
    ASSUME UNCHANGED <<convs, messages>>
    PROVE  \A c \in Calls : ConvStep(c)
  BY DEF ConvStep, ConvKept

\* A step that gives no answer and completes no run.
LEMMA NoAnswers ==
    ASSUME \A r \in Calls :
               /\ runs'[r].status \in Completed <=> runs[r].status \in Completed
               /\ runs[r].status \in Completed => runs'[r].conv = runs[r].conv,
           \A r, c \in Calls : Answers(r, c)' = Answers(r, c)
    PROVE  \A r, c \in Calls : AnswersKept(r, c) \/ AnswersGiven(r, c)
  BY DEF AnswersKept, Answered

LEMMA TablesUntouched ==
    ASSUME UNCHANGED <<runs, events, convs, messages>>
    PROVE  TablesStep
<1>1. RunsStep
  BY DEF RunsStep, Shown
<1>2. \A r, c \in Calls : AnswersKept(r, c)
  BY DEF AnswersKept, Answers, Answered
<1> QED
  BY <1>1, <1>2, ConvsUntouched DEF TablesStep

\* A write to one run that leaves its log alone.
LEMMA RowTables ==
    ASSUME IInv, NEW s \in Calls, NEW new,
           runs' = [runs EXCEPT ![s] = new],
           new.next = runs[s].next, new.conv = runs[s].conv,
           \/ new.status = runs[s].status
           \/ runs[s].status \in ActiveStatuses /\ new.status \in Claimed,
           UNCHANGED <<events, convs, messages>>
    PROVE  TablesStep
<1>1. runs'[s] = new /\ \A r \in Calls \ {s} : runs'[r] = runs[r]
  BY RowSet
<1>2. RunsStep
  BY <1>1 DEF RunsStep, RunChanged, RunRestated, Shown
<1>3. \A r \in Calls :
        /\ runs'[r].status \in Completed <=> runs[r].status \in Completed
        /\ runs'[r].conv = runs[r].conv
  BY <1>1 DEF Completed, ActiveStatuses, Claimed
<1>4. \A r, c \in Calls : AnswersKept(r, c)
  BY <1>3 DEF AnswersKept, Answers, Answered
<1> QED
  BY <1>2, <1>4, ConvsUntouched DEF TablesStep

LEMMA AppendTables ==
    ASSUME IInv, NEW s \in Calls, NEW seen, SessionOK(s, seen),
           NEW kind \in Reports, AppendEvent(s, seen, kind)
    PROVE  TablesStep
<1> DEFINE new == [runs[s] EXCEPT !.next = seen.next + 1,
                                  !.version = seen.version + 1]
<1>1. seen.next = runs[s].next /\ runs[s] \in Run /\ runs[s].status # "absent"
  BY DEF AppendEvent, CanAppend, Unchanged, SessionOK, Seen, Created, IInv, TypeInv, TypeOK
<1>2. /\ new.next = runs[s].next + 1
      /\ new.conv = runs[s].conv /\ new.status = runs[s].status
  BY <1>1 DEF Run
<1>3. /\ runs' = [runs EXCEPT ![s] = new] /\ AddEvent(s, runs[s].next, kind)
      /\ UNCHANGED <<convs, messages>>
  BY <1>1 DEF AppendEvent
<1> HIDE DEF new
<1>4. runs'[s] = new /\ \A r \in Calls \ {s} : runs'[r] = runs[r]
  BY <1>3, RowSet
<1>5. /\ events'[s] = events[s] \cup {[seq |-> runs[s].next, kind |-> kind]}
      /\ \A r \in Calls \ {s} : events'[r] = events[r]
  BY <1>3, EventAdded
<1>6. RunReported(s)
  BY <1>1, <1>2, <1>4, <1>5 DEF RunReported
<1>7. RunsStep
  BY <1>4, <1>5, <1>6 DEF RunsStep, RunChanged, Shown
<1>8. \A r \in Calls : runs'[r].status = runs[r].status /\ runs'[r].conv = runs[r].conv
  BY <1>2, <1>4
<1>9. \A r, c \in Calls : AnswersKept(r, c)
  BY <1>3, <1>8 DEF AnswersKept, Answers, Answered
<1> QED
  BY <1>3, <1>7, <1>9, ConvsUntouched DEF TablesStep

\* The end of an active run, for its log.
LEMMA FinishLogs ==
    ASSUME IInv, NEW s \in Calls, NEW seen, SessionOK(s, seen), Unchanged(s, seen),
           runs[s].status \in Claimed,
           NEW status \in TerminalStatuses, NEW proposal,
           status = "proposal_ready" => proposal /\ proposals'[s] = 1,
           Finish(s, seen, status, proposal),
           AddEvent(s, seen.next, TerminalKind(status))
    PROVE  /\ RunsStep
           /\ runs'[s].status = status /\ runs'[s].conv = runs[s].conv
           /\ \A r \in Calls \ {s} : runs'[r] = runs[r]
<1> DEFINE new ==
      [runs[s] EXCEPT !.status = status, !.slot = FALSE, !.owner = None,
                      !.lease = "none", !.proposal = proposal,
                      !.next = seen.next + 1, !.version = seen.version + 1]
<1>1. seen.next = runs[s].next /\ runs[s] \in Run
  BY DEF Unchanged, SessionOK, Seen, IInv, TypeInv, TypeOK
<1>2. /\ new.next = runs[s].next + 1 /\ new.conv = runs[s].conv
      /\ new.status = status /\ new.proposal = proposal
  BY <1>1 DEF Run
<1>3. runs' = [runs EXCEPT ![s] = new]
  BY DEF Finish
<1> HIDE DEF new
<1>4. runs'[s] = new /\ \A r \in Calls \ {s} : runs'[r] = runs[r]
  BY <1>3, RowSet
<1>5. /\ events'[s] = events[s] \cup
            {[seq |-> runs[s].next, kind |-> TerminalKind(status)]}
      /\ \A r \in Calls \ {s} : events'[r] = events[r]
  BY <1>1, EventAdded
<1>6. RunClosed(s)
  BY <1>2, <1>4, <1>5 DEF RunClosed
<1>7. RunsStep
  BY <1>4, <1>5, <1>6 DEF RunsStep, RunChanged, Shown
<1> QED
  BY <1>2, <1>4, <1>7

\* A copy of a conversation row that a session holds: a version behind, or
\* with the counter of the row.
ConvCopy(c, seen) ==
    /\ convs[c].status # "absent"
    /\ seen.version <= convs[c].version
    /\ seen.version = convs[c].version => seen.next = convs[c].next

Copies ==
    /\ \A k \in Calls :
          calls[k].phase = "writing" /\ calls[k].target # None =>
              ConvCopy(calls[k].target, calls[k].seen)
    /\ \A w \in Workers :
          workers[w].phase = "commit" =>
              ConvCopy(runs[workers[w].run].conv, workers[w].conv)

\* A worker beyond its claim has a run that was claimed, and one that completes
\* with a proposal has one.
Claims ==
    \A w \in Workers :
        /\ workers[w].phase \notin {"idle", "claiming"} =>
              runs[workers[w].run].status # "queued"
        /\ workers[w].phase \in {"complete", "commit"}
              /\ workers[w].mode = "action_proposal" =>
              proposals[workers[w].run] = 1

Proposed ==
    \A r \in Calls :
        /\ proposals[r] \in {0, 1}
        /\ runs[r].status = "proposal_ready" => runs[r].proposal /\ proposals[r] = 1

\* The inductive invariant.
TablesInv == /\ CInv /\ Copies /\ Claims /\ Proposed
             /\ Logs /\ Endings /\ AnswersOnce /\ Dialogues

LEMMA UserMessageAnswersNothing ==
    ASSUME IInv, NEW d \in Calls, NEW n, NEW k \in Calls, AddMessage(d, n, "user", k)
    PROVE  \A r, c \in Calls : Answers(r, c)' = Answers(r, c)
<1> DEFINE m == [seq |-> n, role |-> "user", run |-> k]
<1>1. /\ messages'[d] = messages[d] \cup {m} /\ m.role # "assistant"
      /\ \A c \in Calls \ {d} : messages'[c] = messages[c]
  BY MessageAdded
<1> HIDE DEF m
<1> QED
  BY <1>1 DEF Answers

LEMMA InsertTables ==
    ASSUME IInv, NEW k \in Calls, NEW c \in Calls, NEW n,
           KeyFree(KeyOf[k]), InsertRun(k, c), AddMessage(c, n, "user", k),
           \A r \in Calls : runs[r].conv = c => ~runs[r].slot,
           \A d \in Calls : ConvStep(d)
    PROVE  TablesStep
<1> DEFINE new == [AbsentRun EXCEPT !.status = "queued", !.slot = TRUE,
                                    !.version = 1, !.conv = c, !.next = 2]
<1>1. new.status = "queued" /\ new.next = 2 /\ new.conv = c
  BY DEF AbsentRun
<1>2. runs' = [runs EXCEPT ![k] = new] /\ AddEvent(k, 1, "run.accepted")
  BY DEF InsertRun
<1> HIDE DEF new
<1>3. runs'[k] = new /\ \A r \in Calls \ {k} : runs'[r] = runs[r]
  BY <1>2, RowSet
<1>4. /\ events'[k] = events[k] \cup {[seq |-> 1, kind |-> "run.accepted"]}
      /\ \A r \in Calls \ {k} : events'[r] = events[r]
  BY <1>2, EventAdded
<1>5. runs[k].status = "absent"
  BY DEF KeyFree, HolderOf, Created
<1>10. \A r \in Calls : runs[r].conv = c => runs[r].status \notin ActiveStatuses
  BY DEF IInv, Rows, RowOK
<1>6. RunAccepted(k)
  BY <1>1, <1>3, <1>4, <1>5, <1>10 DEF RunAccepted
<1>7. RunsStep
  BY <1>3, <1>4, <1>6 DEF RunsStep, RunChanged, Shown
<1>8. "queued" \notin Completed /\ "absent" \notin Completed
  BY DEF Completed
<1>9. \A r \in Calls :
        /\ runs'[r].status \in Completed <=> runs[r].status \in Completed
        /\ runs[r].status \in Completed => runs'[r].conv = runs[r].conv
  BY <1>1, <1>3, <1>5, <1>8
<1> QED
  BY <1>7, <1>9, UserMessageAnswersNothing, NoAnswers DEF TablesStep

LEMMA CallTables ==
    ASSUME TablesInv, NEW k \in Calls, CallStep(k)
    PROVE  TablesStep
<1>0. IInv /\ convs \in [Calls -> Conversation] /\ calls[k] \in Call
  BY DEF TablesInv, CInv, IInv, TypeInv, TypeOK
<1>1. CASE CreateInNewConversation(k)
  <2> DEFINE new == [status |-> "active", version |-> 1, next |-> 2]
             m == [seq |-> 1, role |-> "user", run |-> k]
  <2>1. new.status # "absent" /\ new.next = 2 /\ m.seq = 1
    OBVIOUS
  <2>2. convs' = [convs EXCEPT ![k] = new]
    BY <1>1 DEF CreateInNewConversation
  <2>3. /\ messages'[k] = messages[k] \cup {m}
        /\ \A d \in Calls \ {k} : messages'[d] = messages[d]
    BY <1>0, <1>1, MessageAdded DEF CreateInNewConversation
  <2> HIDE DEF new, m
  <2>4. convs'[k] = new /\ \A d \in Calls \ {k} : convs'[d] = convs[d]
    BY <1>0, <2>2
  <2>5. convs[k].status = "absent"
    BY <1>1 DEF CreateInNewConversation, TablesInv, CInv, Convs
  <2>6. ConvStarted(k)
    BY <2>1, <2>3, <2>4, <2>5 DEF ConvStarted
  <2>7. \A d \in Calls : ConvStep(d)
    BY <2>3, <2>4, <2>6 DEF ConvStep, ConvKept
  <2>8. ASSUME NEW r \in Calls, runs[r].conv = k
        PROVE  ~runs[r].slot
    <3>1. ~Created(r)
      BY <2>5, <2>8 DEF TablesInv, CInv, Convs
    <3> QED
      BY <1>0, <3>1 DEF Created, IInv, Rows, RowOK, ActiveStatuses
  <2> QED
    BY <1>0, <1>1, <2>7, <2>8, InsertTables DEF CreateInNewConversation
<1>2. CASE CreateInConversation(k)
  <2> DEFINE c == calls[k].target
             seen == calls[k].seen
             new == [convs[c] EXCEPT !.version = seen.version + 1,
                                     !.next = seen.next + 1]
             m == [seq |-> seen.next, role |-> "user", run |-> k]
  <2>1. /\ c \in Calls /\ convs[c] \in Conversation /\ convs[c].status # "absent"
        /\ seen.version = convs[c].version /\ seen.next = convs[c].next
    BY <1>0, <1>2 DEF CreateInConversation, ConversationUnchanged, Call,
       TablesInv, Copies, ConvCopy
  <2>2. /\ new.status = convs[c].status /\ new.next = convs[c].next + 1
        /\ new.version = convs[c].version + 1 /\ m.seq = convs[c].next
    BY <2>1 DEF Conversation
  <2>3. convs' = [convs EXCEPT ![c] = new]
    BY <1>2 DEF CreateInConversation
  <2>4. /\ messages'[c] = messages[c] \cup {m}
        /\ \A d \in Calls \ {c} : messages'[d] = messages[d]
    BY <1>0, <1>2, <2>1, MessageAdded DEF CreateInConversation
  <2>5. /\ InsertRun(k, c) /\ KeyFree(KeyOf[k])
        /\ AddMessage(c, seen.next, "user", k)
        /\ \A r \in Calls : runs[r].conv = c => ~runs[r].slot
    BY <1>2 DEF CreateInConversation, SlotFree
  <2> HIDE DEF new, m, c, seen
  <2>6. convs'[c] = new /\ \A d \in Calls \ {c} : convs'[d] = convs[d]
    BY <1>0, <2>1, <2>3
  <2>7. ConvAppended(c)
    BY <2>1, <2>2, <2>4, <2>6 DEF ConvAppended
  <2>8. \A d \in Calls : ConvStep(d)
    BY <2>4, <2>6, <2>7 DEF ConvStep, ConvKept
  <2> QED
    BY <1>0, <2>1, <2>5, <2>8, InsertTables
<1>3. CASE \/ LookUpKey(k) \/ ReadForCreate(k)
           \/ CreateLosesRace(k) \/ CreateConflicts(k)
  BY <1>3, TablesUntouched
     DEF LookUpKey, ReadForCreate, CreateLosesRace, CreateConflicts, store
<1> QED
  BY <1>1, <1>2, <1>3 DEF CallStep

LEMMA CancelTables ==
    ASSUME IInv, NEW u \in Cancellers, CancelStep(u)
    PROVE  TablesStep
<1> DEFINE s == cancels[u].run
           seen == cancels[u].seen
<1>1. CASE WriteCancellation(u)
  <2> DEFINE new == [runs[s] EXCEPT !.cancel = TRUE, !.status = "cancel_requested",
                                    !.version = seen.version + 1]
  <2>1. s \in Calls /\ runs[s] \in Run /\ runs[s].status \in ActiveStatuses
    BY <1>1 DEF WriteCancellation, IInv, TypeInv, TypeOK, LocalsOK
  <2>2. /\ new.next = runs[s].next /\ new.conv = runs[s].conv
        /\ new.status \in Claimed
    BY <2>1 DEF Run, Claimed
  <2>3. runs' = [runs EXCEPT ![s] = new] /\ UNCHANGED <<events, convs, messages>>
    BY <1>1 DEF WriteCancellation
  <2> QED
    BY <2>1, <2>2, <2>3, RowTables
<1>2. CASE AnnounceCancellation(u)
  <2>1. s \in Calls /\ SessionOK(s, seen)
    BY <1>2 DEF AnnounceCancellation, IInv, Sessions, SessionOK
  <2>2. "run.cancel_requested" \in Reports
    BY DEF Reports
  <2> QED
    BY <1>2, <2>1, <2>2, AppendTables, TablesUntouched DEF AnnounceCancellation, store
<1>3. CASE (\E r \in Calls : RequestCancellation(u, r)) \/ CancellationLosesRace(u)
  BY <1>3, TablesUntouched DEF RequestCancellation, CancellationLosesRace, store
<1> QED
  BY <1>1, <1>2, <1>3 DEF CancelStep

LEMMA CompleteTables ==
    ASSUME TablesInv, NEW w \in Workers, Complete(w)
    PROVE  TablesStep
<1> DEFINE s == RunOf(w)
           seen == SeenBy(w)
           c == runs[s].conv
           conv == workers[w].conv
           status == StatusOf(workers[w].mode)
           new == [convs[c] EXCEPT !.version = conv.version + 1,
                                   !.next = conv.next + 1]
           m == [seq |-> conv.next, role |-> "assistant", run |-> s]
<1>1. /\ IInv /\ s \in Calls /\ c \in Calls /\ SessionOK(s, seen)
      /\ workers[w].mode \in Modes
      /\ convs \in [Calls -> Conversation] /\ convs[c] \in Conversation
  BY WorkerFacts DEF Complete, TablesInv, CInv, IInv, TypeInv, TypeOK, Sessions,
     RunOf, SeenBy
<1>2. /\ Unchanged(s, seen) /\ runs[s].status \in Claimed
      /\ conv.version = convs[c].version /\ UNCHANGED proposals
  BY DEF Complete, CanComplete, ConversationUnchanged, Claimed, SeenBy
<1>3. status \in Completed /\ status \in TerminalStatuses
  BY <1>1 DEF StatusOf, Modes, TerminalStatuses, Completed
<1>4. convs[c].status # "absent" /\ conv.next = convs[c].next
  BY <1>2 DEF Complete, TablesInv, Copies, ConvCopy, RunOf
<1>5. /\ new.status = convs[c].status /\ new.next = convs[c].next + 1
      /\ new.version = convs[c].version + 1
      /\ m.seq = convs[c].next /\ m.role = "assistant" /\ m.run = s
  BY <1>1, <1>2, <1>4 DEF Conversation
<1>6. /\ convs' = [convs EXCEPT ![c] = new]
      /\ Finish(s, seen, status, workers[w].mode = "action_proposal")
      /\ AddEvent(s, seen.next, TerminalKind(status))
      /\ AddMessage(c, conv.next, "assistant", s)
  BY DEF Complete, SeenBy
<1>7. /\ messages'[c] = messages[c] \cup {m}
      /\ \A d \in Calls \ {c} : messages'[d] = messages[d]
  BY <1>1, <1>6, MessageAdded
<1>16. status = "proposal_ready" =>
          /\ workers[w].mode = "action_proposal"
          /\ proposals'[s] = 1
  <2>1. status = "proposal_ready" => workers[w].mode = "action_proposal"
    BY <1>1 DEF StatusOf, Modes
  <2> QED
    BY <1>2, <2>1 DEF Complete, TablesInv, Claims, RunOf
<1>8. /\ RunsStep
      /\ runs'[s].status = status /\ runs'[s].conv = runs[s].conv
      /\ \A r \in Calls \ {s} : runs'[r] = runs[r]
  <2> HIDE DEF s, seen, c, conv, status, new, m
  <2> QED
    BY <1>1, <1>2, <1>3, <1>6, <1>16, FinishLogs
<1>14. runs[s].status \notin Completed
  BY <1>2 DEF Claimed, Completed
<1>15. runs'[s].conv = c
  BY <1>8
<1> HIDE DEF s, seen, c, conv, status, new, m
<1>9. convs'[c] = new /\ \A d \in Calls \ {c} : convs'[d] = convs[d]
  BY <1>1, <1>6
<1>10. ConvAppended(c)
  BY <1>4, <1>5, <1>7, <1>9 DEF ConvAppended
<1>11. \A d \in Calls : ConvStep(d)
  BY <1>7, <1>9, <1>10 DEF ConvStep, ConvKept
<1>12. ASSUME NEW r \in Calls, NEW d \in Calls, r = s, d = c
       PROVE  AnswersGiven(r, d)
  <2>1. Answers(r, d)' = Answers(r, d) \cup {m}
    BY <1>5, <1>7, <1>12 DEF Answers
  <2>2. ~Answered(r, d) /\ Answered(r, d)'
    BY <1>3, <1>8, <1>12, <1>14, <1>15 DEF Answered
  <2> QED
    BY <2>1, <2>2 DEF AnswersGiven
<1>13. ASSUME NEW r \in Calls, NEW d \in Calls, r # s \/ d # c
       PROVE  AnswersKept(r, d)
  <2>1. Answers(r, d)' = Answers(r, d)
    <3>1. CASE d = c
      BY <1>5, <1>7, <1>13, <3>1 DEF Answers
    <3>2. CASE d # c
      BY <1>7, <3>2 DEF Answers
    <3> QED
      BY <3>1, <3>2
  <2>2. Answered(r, d)' <=> Answered(r, d)
    <3>1. CASE r = s
      <4>1. d # c /\ runs[s].status \notin Completed
        BY <1>13, <1>14, <3>1
      <4> QED
        BY <1>15, <3>1, <4>1 DEF Answered
    <3>2. CASE r # s
      BY <1>8, <3>2 DEF Answered
    <3> QED
      BY <3>1, <3>2
  <2> QED
    BY <2>1, <2>2 DEF AnswersKept
<1> QED
  BY <1>8, <1>11, <1>12, <1>13 DEF TablesStep

LEMMA WorkerTables ==
    ASSUME TablesInv, NEW w \in Workers, WorkerStep(w)
    PROVE  TablesStep
<1> DEFINE s == RunOf(w)
           seen == SeenBy(w)
<1>0. IInv
  BY DEF TablesInv, CInv
<1>1. workers[w].phase # "idle" =>
        s \in Calls /\ runs[s] \in Run /\ SessionOK(s, seen)
  BY <1>0 DEF IInv, TypeInv, TypeOK, Sessions, SessionOK, RunOf, SeenBy
<1>2. CASE Claim(w)
  <2> DEFINE new == [runs[s] EXCEPT !.status = "running", !.owner = w,
                                    !.lease = "live",
                                    !.attempts = seen.attempts + 1,
                                    !.version = seen.version + 1]
  <2>1. /\ s \in Calls /\ runs[s] \in Run /\ seen = Seen(runs[s])
        /\ seen.status \in ActiveStatuses
    BY <1>0, <1>1, <1>2 DEF Claim, Unchanged, IInv, Sessions, SessionOK, SeenBy
  <2>2. runs[s].status \in ActiveStatuses
    BY <2>1 DEF Seen
  <2>3. /\ new.next = runs[s].next /\ new.conv = runs[s].conv
        /\ new.status \in Claimed
    BY <2>1 DEF Run, Claimed
  <2>4. runs' = [runs EXCEPT ![s] = new] /\ UNCHANGED <<events, convs, messages>>
    BY <1>2 DEF Claim
  <2> HIDE DEF new
  <2> QED
    BY <1>0, <2>1, <2>2, <2>3, <2>4, RowTables
<1>3. CASE AnnounceStart(w)
  <2>1. "run.started" \in Reports /\ workers[w].phase # "idle"
    BY <1>3 DEF Reports, AnnounceStart
  <2> QED
    BY <1>0, <1>1, <1>3, <2>1, AppendTables, TablesUntouched DEF AnnounceStart, store
<1>4. CASE Emit(w)
  <2>1. "activity.updated" \in Reports /\ workers[w].phase # "idle"
    BY <1>4 DEF Reports, Emit, EmitPhases
  <2> QED
    BY <1>0, <1>1, <1>4, <2>1, AppendTables, TablesUntouched DEF Emit, store
<1>5. CASE FinishWithoutMessage(w)
  <2>1. CASE UNCHANGED store
    BY <2>1, TablesUntouched DEF store
  <2>2. ASSUME NEW status \in {"cancelled", "failed"},
               seen.status \notin TerminalStatuses, CanAppend(s, seen),
               Finish(s, seen, status, runs[s].proposal),
               AddEvent(s, seen.next, TerminalKind(status)),
               UNCHANGED <<convs, messages>>
        PROVE  TablesStep
    <3>1. /\ s \in Calls /\ runs[s] \in Run /\ Unchanged(s, seen)
          /\ Created(s) /\ seen = Seen(runs[s]) /\ SessionOK(s, seen)
      BY <1>1, <1>5, <2>2 DEF FinishWithoutMessage, CanAppend, Unchanged, SessionOK
    <3>2. runs[s].status \in Claimed
      <4>1. runs[s].status # "queued"
        BY <1>5 DEF FinishWithoutMessage, TablesInv, Claims, RunOf
      <4> QED
        BY <2>2, <3>1, <4>1 DEF Seen, Created, Run, Claimed, ActiveStatuses
    <3>3. /\ status \in TerminalStatuses /\ status \notin Completed
          /\ status # "proposal_ready"
          /\ \A active \in Claimed : active \notin Completed
      BY DEF TerminalStatuses, Completed, Claimed
    <3>4. /\ RunsStep
          /\ runs'[s].status = status /\ runs'[s].conv = runs[s].conv
          /\ \A r \in Calls \ {s} : runs'[r] = runs[r]
      <4> HIDE DEF s, seen
      <4> QED
        BY <1>0, <2>2, <3>1, <3>2, <3>3, FinishLogs
    <3>5. \A r \in Calls :
            /\ runs'[r].status \in Completed <=> runs[r].status \in Completed
            /\ runs'[r].conv = runs[r].conv
      BY <3>2, <3>3, <3>4
    <3>6. \A r, c \in Calls : AnswersKept(r, c)
      BY <2>2, <3>5 DEF AnswersKept, Answers, Answered
    <3> QED
      BY <2>2, <3>4, <3>6, ConvsUntouched DEF TablesStep
  <2> QED
    BY <1>5, <2>1, <2>2 DEF FinishWithoutMessage
<1>6. CASE \/ \E r \in Calls : SelectCandidate(w, r)
           \/ ClaimLost(w) \/ StartExecution(w) \/ FindProposal(w)
           \/ Checkpoint(w) \/ WorkRaises(w) \/ Propose(w)
           \/ ReadConversation(w) \/ CompletionLosesRace(w)
  BY <1>6, TablesUntouched DEF SelectCandidate, ClaimLost, StartExecution,
     FindProposal, Checkpoint, WorkRaises, Propose, ReadConversation,
     CompletionLosesRace, store
<1> QED
  BY <1>2, <1>3, <1>4, <1>5, <1>6, CompleteTables DEF WorkerStep

LEMMA EnvironmentTables ==
    ASSUME IInv, Environment
    PROVE  TablesStep
<1>1. ASSUME NEW s \in Calls, NEW lease,
             runs' = [runs EXCEPT ![s] = [@ EXCEPT !.lease = lease]],
             UNCHANGED <<events, convs, messages>>
      PROVE  TablesStep
  <2> DEFINE new == [runs[s] EXCEPT !.lease = lease]
  <2>1. runs[s] \in Run
    BY DEF IInv, TypeInv, TypeOK
  <2>2. new.next = runs[s].next /\ new.conv = runs[s].conv /\ new.status = runs[s].status
    BY <2>1 DEF Run
  <2> QED
    BY <1>1, <2>2, RowTables
<1>2. ASSUME NEW w \in Workers, RenewLease(w)
      PROVE  TablesStep
  <2>1. workers[w].phase # "idle"
    BY <1>2 DEF RenewLease, Executing, Follows
  <2>2. RunOf(w) \in Calls
    BY <2>1 DEF IInv, TypeInv, LocalsOK, RunOf
  <2> QED
    BY <1>1, <1>2, <2>2 DEF RenewLease
<1>3. ASSUME NEW s \in Calls, LeaseExpires(s)
      PROVE  TablesStep
  BY <1>1, <1>3 DEF LeaseExpires
<1>4. ASSUME NEW c \in Calls, Archive(c)
      PROVE  TablesStep
  <2> DEFINE new == [convs[c] EXCEPT !.status = "archived"]
  <2>1. /\ convs \in [Calls -> Conversation] /\ convs[c] \in Conversation
        /\ convs[c].status # "absent"
    BY <1>4 DEF Archive, IInv, TypeInv, TypeOK
  <2>2. /\ new.version = convs[c].version /\ new.next = convs[c].next
        /\ new.status # "absent"
    BY <2>1 DEF Conversation
  <2>3. convs' = [convs EXCEPT ![c] = new] /\ UNCHANGED <<runs, events, messages>>
    BY <1>4 DEF Archive
  <2> HIDE DEF new
  <2>4. \A d \in Calls : ConvKept(d)
    BY <2>1, <2>2, <2>3 DEF ConvKept
  <2>5. RunsStep
    BY <2>3 DEF RunsStep, Shown
  <2>6. \A r, d \in Calls : AnswersKept(r, d)
    BY <2>3 DEF AnswersKept, Answers, Answered
  <2> QED
    BY <2>4, <2>5, <2>6 DEF TablesStep, ConvStep
<1>5. CASE \E w \in Workers : Crash(w)
  BY <1>5, TablesUntouched DEF Crash, store
<1> QED
  BY <1>2, <1>3, <1>4, <1>5
     DEF Environment, UnattendedLeaseExpires, AttendedLeaseExpires

LEMMA EveryTablesStep ==
    ASSUME TablesInv, [Next]_vars
    PROVE  TablesStep
<1>1. CASE UNCHANGED vars
  BY <1>1, TablesUntouched DEF vars, store
<1>2. IInv
  BY DEF TablesInv, CInv
<1> QED
  BY <1>1, <1>2, CallTables, CancelTables, WorkerTables, EnvironmentTables DEF Next

-----------------------------------------------------------------------------
(* The copies of conversation rows.                                        *)

\* A copy that is left alone stays a version behind or keeps the counter.
LEMMA ConvCopyKept ==
    ASSUME TypeOK, NEW c \in Calls, NEW seen \in ConvSnapshot,
           ConvCopy(c, seen), ConvStep(c)
    PROVE  /\ convs'[c].status # "absent"
           /\ seen.version <= convs'[c].version
           /\ seen.version = convs'[c].version => seen.next = convs'[c].next
<1>1. seen.version \in Nat /\ convs[c].version \in Nat
  BY DEF TypeOK, ConvSnapshot, Conversation
<1> QED
  BY <1>1 DEF ConvCopy, ConvStep, ConvKept, ConvStarted, ConvAppended

LEMMA FreshConvCopy ==
    ASSUME TypeOK, NEW c \in Calls, convs[c].status # "absent"
    PROVE  SeenConv(convs[c]) \in ConvSnapshot /\ ConvCopy(c, SeenConv(convs[c]))
<1>1. convs[c].version \in Nat /\ convs[c].next \in Nat
  BY DEF TypeOK, Conversation
<1> QED
  BY <1>1 DEF ConvCopy, SeenConv, ConvSnapshot

LEMMA BecomeOnly ==
    ASSUME IInv, NEW w \in Workers, NEW new, Become(w, new)
    PROVE  workers'[w] = new /\ \A v \in Workers \ {w} : workers'[v] = workers[v]
  BY DEF IInv, TypeInv, TypeOK, Become

\* What a step does to an execution: a claim begins it, the reading of the
\* conversation leads to the write of its completion, and it completes with a
\* proposal that is there.
ExecutionMove(w) ==
    \/ workers'[w] = workers[w]
    \/ workers'[w].phase \in {"idle", "claiming"}
    \/ /\ workers[w].phase # "idle" /\ workers'[w].run = workers[w].run
       /\ workers[w].phase = "claiming" =>
             /\ runs'[workers[w].run].status # "queued"
             /\ runs'[workers[w].run].attempts > 0
       /\ workers'[w].phase = "commit" =>
             /\ workers[w].phase = "complete"
             /\ workers'[w].conv = SeenConv(convs[runs[workers[w].run].conv])
             /\ UNCHANGED <<runs, convs>>
       /\ workers'[w].phase \in {"complete", "commit"}
             /\ workers'[w].mode = "action_proposal" =>
             \/ /\ workers[w].phase \in {"complete", "commit"}
                /\ workers[w].mode = "action_proposal"
             \/ proposals'[workers[w].run] # 0

\* The worker moves, and no other one does.
LEMMA OneExecutionMove ==
    ASSUME NEW w \in Workers, ExecutionMove(w),
           \A v \in Workers \ {w} : workers'[v] = workers[v]
    PROVE  \A v \in Workers : ExecutionMove(v)
  BY DEF ExecutionMove

LEMMA StopExecution ==
    ASSUME IInv, NEW w \in Workers, Stop(w)
    PROVE  \A v \in Workers : ExecutionMove(v)
<1>1. /\ workers'[w].phase = "idle"
      /\ \A v \in Workers \ {w} : workers'[v] = workers[v]
  BY BecomeOnly DEF Stop, IdleWorker
<1> QED
  BY <1>1, OneExecutionMove DEF ExecutionMove

LEMMA GoToExecution ==
    ASSUME IInv, NEW w \in Workers, workers[w].phase # "idle",
           NEW phase, phase \notin {"complete", "commit"}, NEW row,
           workers[w].phase = "claiming" =>
               runs'[RunOf(w)].status # "queued" /\ runs'[RunOf(w)].attempts > 0,
           GoTo(w, phase, row)
    PROVE  \A v \in Workers : ExecutionMove(v)
<1> DEFINE new == [workers[w] EXCEPT !.phase = phase, !.seen = Seen(row), !.tries = 0]
<1>1. new.phase = phase /\ new.run = workers[w].run
  BY DEF IInv, TypeInv, TypeOK, Worker
<1>2. Become(w, new)
  BY DEF GoTo
<1> HIDE DEF new
<1>3. workers'[w] = new /\ \A v \in Workers \ {w} : workers'[v] = workers[v]
  BY <1>2, BecomeOnly
<1>4. ExecutionMove(w)
  BY <1>1, <1>3 DEF ExecutionMove, RunOf
<1> QED
  BY <1>3, <1>4, OneExecutionMove

LEMMA RetryExecution ==
    ASSUME IInv, NEW w \in Workers, workers[w].phase \notin {"idle", "claiming"},
           NEW again, again # "commit",
           again = "complete" => workers[w].phase = "commit",
           NEW raised, raised \notin {"complete", "commit"},
           Retry(w, again, raised)
    PROVE  \A v \in Workers : ExecutionMove(v)
<1> DEFINE new == [workers[w] EXCEPT !.phase = again, !.seen = Seen(runs[RunOf(w)]),
                                     !.tries = workers[w].tries + 1]
<1>1. /\ new.phase = again /\ new.run = workers[w].run
      /\ new.mode = workers[w].mode
  BY DEF IInv, TypeInv, TypeOK, Worker
<1>2. GoTo(w, raised, runs[RunOf(w)]) \/ Become(w, new)
  BY DEF Retry
<1> HIDE DEF new
<1>3. CASE GoTo(w, raised, runs[RunOf(w)])
  BY <1>3, GoToExecution
<1>4. CASE Become(w, new)
  <2>1. workers'[w] = new /\ \A v \in Workers \ {w} : workers'[v] = workers[v]
    BY <1>4, BecomeOnly
  <2>2. ExecutionMove(w)
    BY <1>1, <2>1 DEF ExecutionMove
  <2> QED
    BY <2>1, <2>2, OneExecutionMove
<1> QED
  BY <1>2, <1>3, <1>4

\* A change of phase and mode.
LEMMA KeepExecution ==
    ASSUME IInv, NEW w \in Workers, workers[w].phase \notin {"idle", "claiming"},
           NEW new, Become(w, new), new.run = workers[w].run, new.phase # "commit",
           new.phase = "complete" /\ new.mode = "action_proposal" =>
               proposals'[workers[w].run] # 0
    PROVE  \A v \in Workers : ExecutionMove(v)
<1>1. workers'[w] = new /\ \A v \in Workers \ {w} : workers'[v] = workers[v]
  BY BecomeOnly
<1>2. ExecutionMove(w)
  BY <1>1 DEF ExecutionMove
<1> QED
  BY <1>1, <1>2, OneExecutionMove

LEMMA ExecutionMoves ==
    ASSUME IInv, NEW w \in Workers, WorkerStep(w)
    PROVE  \A v \in Workers : ExecutionMove(v)
<1> DEFINE me == workers[w]
<1>0. me \in Worker /\ proposals \in [Calls -> Nat] /\ runs \in [Calls -> Run]
  BY DEF IInv, TypeInv, TypeOK
<1>1. CASE ReadConversation(w)
  <2> DEFINE conv == SeenConv(convs[runs[RunOf(w)].conv])
             new == [me EXCEPT !.phase = "commit", !.conv = conv]
  <2>1. /\ Become(w, new) /\ me.phase = "complete"
        /\ UNCHANGED <<runs, convs>>
    BY <1>1 DEF ReadConversation, store
  <2>2. new.run = me.run /\ new.conv = conv /\ new.mode = me.mode
    BY <1>0 DEF Worker
  <2> HIDE DEF new
  <2>3. workers'[w] = new /\ \A v \in Workers \ {w} : workers'[v] = workers[v]
    BY <2>1, BecomeOnly
  <2>4. ExecutionMove(w)
    BY <2>1, <2>2, <2>3 DEF ExecutionMove, RunOf
  <2> QED
    BY <2>3, <2>4, OneExecutionMove
<1>3. ASSUME NEW r \in Calls, SelectCandidate(w, r)
      PROVE  \A v \in Workers : ExecutionMove(v)
  <2> DEFINE new == [IdleWorker EXCEPT !.phase = "claiming", !.run = r,
                                       !.seen = Seen(runs[r])]
  <2>1. Become(w, new) /\ new.phase = "claiming"
    BY <1>3 DEF SelectCandidate, IdleWorker
  <2> HIDE DEF new
  <2>2. workers'[w] = new /\ \A v \in Workers \ {w} : workers'[v] = workers[v]
    BY <2>1, BecomeOnly
  <2> QED
    BY <2>1, <2>2, OneExecutionMove DEF ExecutionMove
<1>4. CASE Claim(w)
  <2> DEFINE s == RunOf(w)
             seen == SeenBy(w)
             new == [runs[s] EXCEPT !.status = "running", !.owner = w,
                                    !.lease = "live",
                                    !.attempts = seen.attempts + 1,
                                    !.version = seen.version + 1]
  <2>1. me.phase = "claiming" /\ runs' = [runs EXCEPT ![s] = new]
    BY <1>4 DEF Claim
  <2>2. s \in Calls /\ new.status = "running" /\ new.attempts > 0
    <3>1. seen.attempts \in Nat /\ s \in Calls /\ runs[s] \in Run
      BY <2>1, WorkerFacts DEF Snapshot
    <3> QED
      BY <3>1 DEF Run
  <2> HIDE DEF new
  <2>3. runs'[s].status # "queued" /\ runs'[s].attempts > 0
    BY <2>1, <2>2, RowSet
  <2>4. GoTo(w, "announcing", runs'[s]) \/ GoTo(w, "starting", runs'[s])
    BY <1>4 DEF Claim, AfterClaim
  <2> QED
    BY <2>1, <2>3, <2>4, GoToExecution
<1>5. CASE AnnounceStart(w)
  <2>1. me.phase \notin {"idle", "claiming"}
    BY <1>5 DEF AnnounceStart
  <2>2. \/ GoTo(w, "starting", runs'[RunOf(w)])
        \/ Stop(w) \/ Retry(w, "announcing", "idle")
    BY <1>5 DEF AnnounceStart
  <2> QED
    BY <2>1, <2>2, RetryExecution, GoToExecution, StopExecution
<1>6. CASE StartExecution(w)
  BY <1>6, GoToExecution, StopExecution DEF StartExecution
<1>7. CASE FindProposal(w)
  <2> DEFINE one == [me EXCEPT !.phase = "complete", !.mode = "action_proposal"]
             two == [me EXCEPT !.phase = "check_requester"]
  <2>1. /\ one.phase # "commit" /\ one.run = me.run
        /\ two.phase \notin {"complete", "commit"} /\ two.run = me.run
    BY <1>0 DEF Worker
  <2>2. me.phase \notin {"idle", "claiming"} /\ UNCHANGED proposals
    BY <1>7 DEF FindProposal, store
  <2>3. (Become(w, one) /\ proposals[me.run] > 0) \/ Become(w, two)
    BY <1>7 DEF FindProposal, RunOf
  <2> HIDE DEF one, two
  <2>4. CASE Become(w, one) /\ proposals[me.run] > 0
    <3>1. proposals'[me.run] # 0
      BY <2>2, <2>4
    <3> QED
      BY <2>1, <2>2, <2>4, <3>1, KeepExecution
  <2>5. CASE Become(w, two)
    BY <2>1, <2>2, <2>5, KeepExecution
  <2> QED
    BY <2>3, <2>4, <2>5
<1>8. CASE Checkpoint(w)
  <2>0. me.phase \notin {"idle", "claiming"}
    BY <1>8 DEF Checkpoint, CheckPhases, Follows
  <2>1. CASE GoTo(w, "cancel", runs[RunOf(w)])
    BY <2>0, <2>1, GoToExecution
  <2>2. ASSUME NEW next \in Follows[me.phase],
               Become(w, [me EXCEPT
                   !.phase = next,
                   !.mode = IF next = "complete" THEN ModeOf(me.phase) ELSE @])
        PROVE  \A v \in Workers : ExecutionMove(v)
    <3> DEFINE mode == IF next = "complete" THEN ModeOf(me.phase) ELSE me.mode
               new == [me EXCEPT !.phase = next, !.mode = mode]
    <3>1. next # "commit"
      BY <1>8, FollowsFacts DEF Checkpoint
    <3>2. /\ new.phase # "commit" /\ Become(w, new) /\ new.run = me.run
          /\ new.phase = "complete" => new.mode # "action_proposal"
      BY <1>0, <2>2, <3>1 DEF Worker, ModeOf
    <3> HIDE DEF new
    <3> QED
      BY <2>0, <3>2, KeepExecution
  <2> QED
    BY <1>8, <2>1, <2>2 DEF Checkpoint
<1>9. CASE WorkRaises(w)
  <2>1. me.phase \notin {"idle", "claiming"}
    BY <1>9 DEF WorkRaises, CheckPhases, Follows
  <2> QED
    BY <1>9, <2>1, GoToExecution DEF WorkRaises, Raise
<1>10. CASE Emit(w)
  <2>1. \A next \in Follows[me.phase] : next \notin {"complete", "commit"}
    BY <1>10, FollowsFacts DEF Emit
  <2>2. me.phase \notin {"idle", "claiming", "complete", "commit"}
    BY <1>10 DEF Emit, EmitPhases
  <2>3. CASE Retry(w, me.phase, "fail")
    BY <2>2, <2>3, RetryExecution
  <2>4. ASSUME NEW next \in Follows[me.phase], GoTo(w, next, runs'[RunOf(w)])
        PROVE  \A v \in Workers : ExecutionMove(v)
    BY <2>1, <2>2, <2>4, GoToExecution
  <2> QED
    BY <1>10, <2>3, <2>4 DEF Emit
<1>11. CASE Propose(w)
  <2> DEFINE new == [me EXCEPT !.phase = "complete", !.mode = "action_proposal"]
  <2>1. new.phase # "commit" /\ new.run = me.run
    BY <1>0 DEF Worker
  <2>2. me.phase = "propose" /\ (Become(w, new) \/ GoTo(w, "fail", runs[RunOf(w)]))
    BY <1>11 DEF Propose, Raise
  <2>3. proposals'[me.run] # 0
    <3>1. me.run \in Calls
      BY <2>2, WorkerFacts DEF RunOf
    <3>2. proposals' = [proposals EXCEPT ![me.run] = IF @ = 0 THEN 1 ELSE @]
      BY <1>11 DEF Propose, RunOf
    <3> QED
      BY <1>0, <3>1, <3>2
  <2> HIDE DEF new
  <2> QED
    BY <2>1, <2>2, <2>3, KeepExecution, GoToExecution
<1>12. CASE CompletionLosesRace(w)
  BY <1>12, RetryExecution DEF CompletionLosesRace
<1>13. CASE FinishWithoutMessage(w)
  <2>1. me.phase \in {"cancel", "fail"}
    BY <1>13 DEF FinishWithoutMessage
  <2>2. Stop(w) \/ Retry(w, me.phase, "idle")
    BY <1>13 DEF FinishWithoutMessage
  <2>3. CASE Retry(w, me.phase, "idle")
    BY <2>1, <2>3, RetryExecution
  <2> QED
    BY <2>2, <2>3, StopExecution
<1>14. CASE ClaimLost(w) \/ Complete(w)
  BY <1>14, StopExecution DEF ClaimLost, Complete
<1> QED
  BY <1>1, <1>3, <1>4, <1>5, <1>6, <1>7, <1>8, <1>9, <1>10, <1>11, <1>12,
     <1>13, <1>14 DEF WorkerStep

LEMMA EveryExecutionMove ==
    ASSUME IInv, [Next]_vars
    PROVE  \A w \in Workers : ExecutionMove(w)
<1>1. CASE UNCHANGED workers
  BY <1>1 DEF ExecutionMove
<1>2. CASE \E w \in Workers : WorkerStep(w)
  BY <1>2, ExecutionMoves
<1>3. ASSUME NEW w \in Workers, Crash(w)
      PROVE  \A v \in Workers : ExecutionMove(v)
  BY <1>3, StopExecution DEF Crash
<1>4. ASSUME NEW k \in Calls, CallStep(k) PROVE UNCHANGED workers
  BY <1>4 DEF CallStep, LookUpKey, ReadForCreate, CreateInNewConversation,
     CreateInConversation, CreateLosesRace, CreateConflicts
<1>5. ASSUME NEW u \in Cancellers, CancelStep(u) PROVE UNCHANGED workers
  BY <1>5 DEF CancelStep, RequestCancellation, WriteCancellation,
     CancellationLosesRace, AnnounceCancellation
<1>6. CASE Environment
  BY <1>1, <1>3, <1>6 DEF Environment, RenewLease, UnattendedLeaseExpires,
     AttendedLeaseExpires, LeaseExpires, Archive
<1> QED
  BY <1>1, <1>2, <1>4, <1>5, <1>6 DEF Next, vars

\* A run gets at most one proposal.
LEMMA ProposalMove ==
    ASSUME IInv, [Next]_vars, NEW r \in Calls
    PROVE  \/ proposals'[r] = proposals[r]
           \/ /\ proposals[r] = 0 /\ proposals'[r] = 1
              /\ \E w \in Workers : RunOf(w) = r /\ Propose(w)
<1>1. CASE UNCHANGED proposals
  BY <1>1
<1>2. ASSUME NEW w \in Workers, Propose(w)
      PROVE  \/ proposals'[r] = proposals[r]
             \/ proposals[r] = 0 /\ proposals'[r] = 1 /\ RunOf(w) = r
  BY <1>2 DEF Propose, IInv, TypeInv, TypeOK
<1>3. ASSUME NEW k \in Calls, CallStep(k) PROVE UNCHANGED proposals
  BY <1>3 DEF CallStep, LookUpKey, ReadForCreate, CreateInNewConversation,
     CreateInConversation, CreateLosesRace, CreateConflicts, store
<1>4. ASSUME NEW u \in Cancellers, CancelStep(u) PROVE UNCHANGED proposals
  BY <1>4 DEF CancelStep, RequestCancellation, WriteCancellation,
     CancellationLosesRace, AnnounceCancellation, AppendEvent, store
<1>5. ASSUME NEW w \in Workers, WorkerStep(w) PROVE Propose(w) \/ UNCHANGED proposals
  BY <1>5 DEF WorkerStep, SelectCandidate, Claim, ClaimLost, AnnounceStart,
     StartExecution, FindProposal, Checkpoint, WorkRaises, Emit, ReadConversation,
     Complete, CompletionLosesRace, FinishWithoutMessage, AppendEvent, store
<1>6. CASE Environment
  BY <1>1, <1>6 DEF Environment, RenewLease, UnattendedLeaseExpires,
     AttendedLeaseExpires, LeaseExpires, Archive, Crash, store
<1> QED
  BY <1>1, <1>2, <1>3, <1>4, <1>5, <1>6 DEF Next, vars, store

\* Only ReadForCreate leads to the write of a call.
WriteMove(k) ==
    \/ calls'[k] = calls[k]
    \/ calls'[k].phase # "writing"
    \/ calls'[k].target = None
    \/ /\ convs[calls'[k].target].status = "active"
       /\ calls'[k].seen = SeenConv(convs[calls'[k].target])
       /\ UNCHANGED convs

LEMMA WriteMoves ==
    ASSUME IInv, NEW k \in Calls, CallStep(k)
    PROVE  \A j \in Calls : WriteMove(j)
<1> DEFINE me == calls[k]
<1>0. me \in Call /\ calls \in [Calls -> Call]
  BY DEF IInv, TypeInv, TypeOK
<1>1. ASSUME NEW new, calls' = [calls EXCEPT ![k] = new]
      PROVE  calls'[k] = new /\ \A j \in Calls \ {k} : calls'[j] = calls[j]
  BY <1>0, <1>1
<1>2. ASSUME NEW new, calls' = [calls EXCEPT ![k] = new], new.phase # "writing"
      PROVE  \A j \in Calls : WriteMove(j)
  BY <1>1, <1>2 DEF WriteMove
<1>3. ASSUME NEW outcome, NEW r, Answer(k, outcome, r)
      PROVE  \A j \in Calls : WriteMove(j)
  <2> DEFINE new == [me EXCEPT !.phase = "done", !.outcome = outcome, !.run = r]
  <2>1. new.phase # "writing" /\ calls' = [calls EXCEPT ![k] = new]
    BY <1>0, <1>3 DEF Answer, Call
  <2> HIDE DEF new
  <2> QED
    BY <1>2, <2>1
<1>4. ASSUME RetryCreate(k)
      PROVE  \A j \in Calls : WriteMove(j)
  <2> DEFINE new == [me EXCEPT !.phase = "reading", !.tries = me.tries + 1]
  <2>1. new.phase # "writing"
    BY <1>0 DEF Call
  <2>2. Answer(k, "error", None) \/ calls' = [calls EXCEPT ![k] = new]
    BY <1>4 DEF RetryCreate
  <2> HIDE DEF new
  <2> QED
    BY <1>2, <1>3, <2>1, <2>2
<1>5. ASSUME NEW r, AnswerExisting(k, r)
      PROVE  \A j \in Calls : WriteMove(j)
  BY <1>3, <1>5 DEF AnswerExisting
<1>6. CASE LookUpKey(k)
  <2> DEFINE new == [me EXCEPT !.phase = "checking"]
  <2>1. new.phase # "writing"
    BY <1>0 DEF Call
  <2>2. (\E r : AnswerExisting(k, r)) \/ calls' = [calls EXCEPT ![k] = new]
    BY <1>6 DEF LookUpKey
  <2> HIDE DEF new
  <2> QED
    BY <1>2, <1>5, <2>1, <2>2
<1>7. CASE ReadForCreate(k)
  <2> DEFINE c == me.target
             seen == IF c = None THEN NoConversation ELSE SeenConv(convs[c])
             new == [me EXCEPT !.phase = "writing", !.seen = seen]
  <2>1. \/ Answer(k, "not_found", None) \/ Answer(k, "busy", None)
        \/ /\ c # None => convs[c].status = "active"
           /\ calls' = [calls EXCEPT ![k] = new]
    BY <1>7 DEF ReadForCreate
  <2>2. new.target = c /\ new.seen = seen /\ UNCHANGED convs
    BY <1>0, <1>7 DEF Call, ReadForCreate, store
  <2>3. ASSUME c # None => convs[c].status = "active",
               calls' = [calls EXCEPT ![k] = new]
        PROVE  \A j \in Calls : WriteMove(j)
    <3>1. calls'[k] = new /\ \A j \in Calls \ {k} : calls'[j] = calls[j]
      BY <1>1, <2>3
    <3> HIDE DEF new
    <3> QED
      BY <2>2, <2>3, <3>1 DEF WriteMove
  <2> QED
    BY <1>3, <2>1, <2>3
<1>8. CASE CreateInNewConversation(k) \/ CreateInConversation(k)
  BY <1>3, <1>8 DEF CreateInNewConversation, CreateInConversation
<1>9. CASE CreateLosesRace(k) \/ CreateConflicts(k)
  BY <1>3, <1>4, <1>5, <1>9 DEF CreateLosesRace, CreateConflicts
<1> QED
  BY <1>6, <1>7, <1>8, <1>9 DEF CallStep

LEMMA EveryWriteMove ==
    ASSUME IInv, [Next]_vars
    PROVE  \A k \in Calls : WriteMove(k)
<1>1. CASE \E k \in Calls : CallStep(k)
  BY <1>1, WriteMoves
<1>2. CASE ~ \E k \in Calls : CallStep(k)
  BY <1>2, Bystanders DEF Bystander, WriteMove
<1> QED
  BY <1>1, <1>2

LEMMA CopiesStep ==
    ASSUME TablesInv, [Next]_vars
    PROVE  Copies'
<1>1. TypeOK /\ IInv /\ TablesStep
  BY EveryTablesStep DEF TablesInv, CInv, IInv, TypeInv
<1>2. TypeInv'
  BY <1>1, TypeStep
<1>3. ASSUME NEW k \in Calls, calls'[k].phase = "writing", calls'[k].target # None
      PROVE  ConvCopy(calls[k].target, calls[k].seen)'
  <2> DEFINE c == calls'[k].target
             seen == calls'[k].seen
  <2>1. c \in Calls /\ WriteMove(k)
    BY <1>1, <1>2, <1>3, EveryWriteMove DEF TypeInv, TypeOK, Call
  <2>2. seen \in ConvSnapshot /\ ConvCopy(c, seen)
    <3>1. CASE calls'[k] = calls[k]
      BY <1>1, <1>3, <3>1 DEF TablesInv, Copies, TypeOK, Call
    <3>2. CASE convs[c].status = "active" /\ seen = SeenConv(convs[c])
      BY <1>1, <2>1, <3>2, FreshConvCopy
    <3> QED
      BY <1>3, <2>1, <3>1, <3>2 DEF WriteMove
  <2>3. ConvStep(c)
    BY <1>1, <2>1 DEF TablesStep
  <2> QED
    BY <1>1, <2>1, <2>2, <2>3, ConvCopyKept DEF ConvCopy
<1>4. ASSUME NEW w \in Workers, workers'[w].phase = "commit"
      PROVE  ConvCopy(runs[workers[w].run].conv, workers[w].conv)'
  <2> DEFINE r == workers[w].run
             c == runs[r].conv
             seen == workers'[w].conv
  <2>1. workers'[w].run = r /\ workers[w].phase # "idle"
    BY <1>1, <1>4, EveryExecutionMove DEF ExecutionMove
  <2>2. r \in Calls /\ Created(r) /\ c \in Calls /\ convs[c].status # "absent"
    BY <1>1, <2>1, WorkerFacts DEF RunOf, TablesInv, CInv, Convs
  <2>3. runs'[r].conv = c
    BY <1>1, <2>2, EveryRowStep, QuietRow DEF RowStep, RowInserted, Created
  <2>4. seen \in ConvSnapshot /\ ConvCopy(c, seen)
    <3>1. CASE workers'[w] = workers[w]
      BY <1>1, <1>4, <3>1 DEF TablesInv, Copies, TypeOK, Worker
    <3>2. CASE seen = SeenConv(convs[c])
      BY <1>1, <2>2, <3>2, FreshConvCopy
    <3> QED
      BY <1>1, <1>4, <3>1, <3>2, EveryExecutionMove DEF ExecutionMove
  <2>5. ConvStep(c)
    BY <1>1, <2>2 DEF TablesStep
  <2> HIDE DEF c
  <2>6. /\ convs'[c].status # "absent"
        /\ seen.version <= convs'[c].version
        /\ seen.version = convs'[c].version => seen.next = convs'[c].next
    BY <1>1, <2>2, <2>4, <2>5, ConvCopyKept DEF c
  <2>7. runs'[workers'[w].run].conv = c
    BY <2>1, <2>3
  <2> HIDE DEF r
  <2> QED
    BY <2>6, <2>7 DEF ConvCopy
<1> QED
  BY <1>3, <1>4 DEF Copies

-----------------------------------------------------------------------------
(* The invariant, and the theorems.                                        *)

LEMMA ClaimsStep ==
    ASSUME TablesInv, [Next]_vars
    PROVE  (Claims /\ Proposed)'
<1>1. IInv /\ RunsStep
  BY EveryTablesStep DEF TablesInv, CInv, TablesStep
<1>2. ASSUME NEW r \in Calls
      PROVE  /\ RunStep(r) /\ RowStep(r) /\ RowOK(runs[r])
             /\ \/ proposals'[r] = proposals[r]
                \/ proposals[r] = 0 /\ proposals'[r] = 1
             /\ proposals[r] \in {0, 1}
  BY <1>1, EveryRunStep, EveryRowStep, ProposalMove
     DEF TablesInv, Proposed, IInv, Rows
<1>3. ASSUME NEW w \in Workers
      PROVE  /\ workers'[w].phase \notin {"idle", "claiming"} =>
                  runs'[workers'[w].run].status # "queued"
             /\ workers'[w].phase \in {"complete", "commit"}
                  /\ workers'[w].mode = "action_proposal" =>
                  proposals'[workers'[w].run] = 1
  <2> DEFINE r == workers[w].run
  <2>1. SUFFICES ASSUME workers'[w].phase \notin {"idle", "claiming"}
                 PROVE  /\ runs'[workers'[w].run].status # "queued"
                        /\ workers'[w].phase \in {"complete", "commit"}
                             /\ workers'[w].mode = "action_proposal" =>
                             proposals'[workers'[w].run] = 1
    OBVIOUS
  <2>2. ExecutionMove(w)
    BY <1>1, EveryExecutionMove
  <2>3. workers'[w].run = r /\ workers[w].phase # "idle"
    BY <2>1, <2>2 DEF ExecutionMove
  <2>4. r \in Calls /\ Created(r)
    BY <1>1, <2>3, WorkerFacts DEF RunOf
  <2>5. runs[r].status # "queued" => runs'[r].status # "queued"
    BY <1>2, <2>4 DEF RunStep, RunChanged, Shown, RunAccepted, RunRestated,
       RunReported, RunClosed, Created, Claimed, TerminalStatuses, Completed
  <2>6. /\ workers[w].phase \notin {"idle", "claiming"} => runs[r].status # "queued"
        /\ workers[w].phase \in {"complete", "commit"}
             /\ workers[w].mode = "action_proposal" => proposals[r] = 1
    BY DEF TablesInv, Claims
  <2>7. runs'[r].status # "queued"
    BY <2>1, <2>2, <2>5, <2>6 DEF ExecutionMove
  <2>8. ASSUME workers'[w].phase \in {"complete", "commit"},
               workers'[w].mode = "action_proposal"
        PROVE  proposals'[r] = 1
    <3>1. proposals[r] = 1 \/ proposals'[r] # 0
      BY <2>2, <2>6, <2>8 DEF ExecutionMove
    <3> QED
      BY <1>2, <2>4, <3>1
  <2> QED
    BY <2>3, <2>7, <2>8
<1>4. ASSUME NEW r \in Calls
      PROVE  /\ proposals'[r] \in {0, 1}
             /\ runs'[r].status = "proposal_ready" =>
                  runs'[r].proposal /\ proposals'[r] = 1
  <2>1. ASSUME runs'[r].status = "proposal_ready", runs[r].status = "proposal_ready"
        PROVE  runs'[r].proposal /\ proposals'[r] = 1
    <3>1. runs[r].proposal /\ proposals[r] = 1
      BY <2>1 DEF TablesInv, Proposed
    <3>2. runs'[r].proposal = runs[r].proposal
      BY <1>2, <2>1 DEF RowStep, RowQuiet, RowKept, RowWritten, RowInserted,
         ActiveStatuses
    <3> QED
      BY <1>2, <3>1, <3>2
  <2>2. ASSUME runs'[r].status = "proposal_ready", runs[r].status # "proposal_ready"
        PROVE  runs'[r].proposal /\ proposals'[r] = 1
    BY <1>2, <2>2 DEF RunStep, RunChanged, Shown, RunAccepted, RunRestated,
       RunReported, RunClosed, Claimed
  <2> QED
    BY <1>2, <2>1, <2>2
<1> QED
  BY <1>3, <1>4 DEF Claims, Proposed

\* All but the part that AgentRunsProofs has shown.
Tables == Copies /\ Claims /\ Proposed /\ Logs /\ Endings /\ AnswersOnce /\ Dialogues

LEMMA TablesHold == Spec => []TablesInv
<1>1. Init => Tables
  <2> SUFFICES ASSUME Init PROVE Tables
    OBVIOUS
  <2>1. Copies /\ Claims /\ Proposed
    BY DEF Init, Copies, Claims, Proposed, IdleWorker, AbsentRun
  <2>2. Logs /\ Dialogues
    BY DEF Init, Logs, Dialogues, Dense, AbsentRun, AbsentConversation
  <2>3. Endings /\ AnswersOnce
    BY DEF Init, Endings, AnswersOnce, TerminalEvents, Answers, Answered, Finished,
       AbsentRun, TerminalStatuses, Completed
  <2> QED
    BY <2>1, <2>2, <2>3 DEF Tables
<1>2. ASSUME TablesInv, [Next]_vars
      PROVE  Tables'
  <2>1. TypeOK /\ TablesStep
    BY <1>2, EveryTablesStep DEF TablesInv, CInv, IInv, TypeInv
  <2> QED
    BY <1>2, <2>1, CopiesStep, ClaimsStep, LogsStep, EndingsStep, AnswersStep,
       DialoguesStep DEF TablesInv, TablesStep, Tables
<1>3. TablesInv <=> CInv /\ Tables
  BY DEF TablesInv, Tables
<1>4. CInv /\ Tables /\ [Next]_vars => Tables'
  BY <1>2, <1>3
<1> QED
  BY <1>1, <1>3, <1>4, ConstraintsHold, PTL DEF Spec

\* Whoever finishes a run, it ends with one terminal event, the one of its
\* status, and a completed run is answered once in its conversation: the
\* status is compared, or its version, in the transaction that writes both.
THEOREM EndsOnce == Spec => []OneEnding
<1>1. ASSUME TablesInv PROVE OneEnding
  <2>1. /\ \A r \in Calls :
             IF Finished(r)
               THEN \E e \in TerminalEvents(r) :
                       /\ TerminalEvents(r) = {e}
                       /\ e.kind = TerminalKind(runs[r].status)
               ELSE TerminalEvents(r) = {}
        /\ \A r, c \in Calls :
             IF Answered(r, c)
               THEN \E m \in Answers(r, c) : Answers(r, c) = {m}
               ELSE Answers(r, c) = {}
    BY <1>1 DEF TablesInv, Endings, AnswersOnce
  <2> QED
    BY <2>1 DEF OneEnding, TerminalEvents, Answers, Answered
<1>2. TablesInv => OneEnding
  BY <1>1
<1> QED
  BY <1>2, TablesHold, PTL

\* However many processes append to a run, its events are numbered without a
\* gap or a duplicate.
THEOREM EventsAreDense == Spec => []EventsDense
<1>1. ASSUME TablesInv PROVE EventsDense
  <2>1. ASSUME NEW r \in Calls
        PROVE  Dense(events[r], runs[r].next) /\ runs[r].next \in Nat
    BY <1>1 DEF TablesInv, Logs, CInv, IInv, TypeInv, TypeOK, Run
  <2>2. ASSUME NEW r \in Calls
        PROVE  {e.seq : e \in events[r]} = 1 .. (runs[r].next - 1)
    BY <2>1, DenseNumbers
  <2> QED
    BY <2>1, <2>2 DEF EventsDense, Dense
<1>2. TablesInv => EventsDense
  BY <1>1
<1> QED
  BY <1>2, TablesHold, PTL

\* Creations, which write a message of the user, and completions, which write
\* the answer, never share or skip a number of their conversation.
THEOREM MessagesAreDense == Spec => []MessagesDense
<1>1. ASSUME TablesInv PROVE MessagesDense
  <2>1. ASSUME NEW c \in Calls
        PROVE  Dense(messages[c], convs[c].next) /\ convs[c].next \in Nat
    BY <1>1 DEF TablesInv, Dialogues, CInv, IInv, TypeInv, TypeOK, Conversation
  <2>2. ASSUME NEW c \in Calls
        PROVE  {m.seq : m \in messages[c]} = 1 .. (convs[c].next - 1)
    BY <2>1, DenseNumbers
  <2> QED
    BY <2>1, <2>2 DEF MessagesDense, Dense
<1>2. TablesInv => MessagesDense
  BY <1>1
<1> QED
  BY <1>2, TablesHold, PTL

\* A run is the source of at most one proposal, however often it is claimed,
\* and proposal_ready means that it has one: a completion names a proposal only
\* after the lookup or the insertion has found it.
THEOREM ProposesOnce == Spec => []OneProposal
<1>1. TablesInv => OneProposal
  BY DEF TablesInv, Proposed, OneProposal
<1> QED
  BY <1>1, TablesHold, PTL

-----------------------------------------------------------------------------
(***************************************************************************)
(* AgentRuns implements RunContract: each step of a call, a cancellation,  *)
(* a worker or the environment is one step of the contract, or changes     *)
(* nothing that the contract shows.                                        *)
(***************************************************************************)

-----------------------------------------------------------------------------
(* The log as a sequence.                                                  *)

KindOf(rows, n) ==
    LET row == CHOOSE e \in rows : e.seq = n IN row.kind

LogUpTo(rows, next) == [n \in 1 .. (next - 1) |-> KindOf(rows, n)]

LEMMA KindOfRow ==
    ASSUME NEW rows, NEW next \in Nat, Dense(rows, next), NEW e \in rows
    PROVE  KindOf(rows, e.seq) = e.kind
<1> DEFINE row == CHOOSE f \in rows : f.seq = e.seq
<1>1. row \in rows /\ row.seq = e.seq
  OBVIOUS
<1>2. row = e
  BY <1>1 DEF Dense
<1>3. KindOf(rows, e.seq) = row.kind
  BY DEF KindOf
<1> QED
  BY <1>2, <1>3

LEMMA LogIsSequence ==
    ASSUME NEW rows, NEW next \in Nat, next >= 1, Dense(rows, next),
           \A e \in rows : e.kind \in Kinds
    PROVE  LogUpTo(rows, next) \in Seq(Kinds) /\ Len(LogUpTo(rows, next)) = next - 1
<1>1. ASSUME NEW n \in 1 .. (next - 1)
      PROVE  KindOf(rows, n) \in Kinds
  <2>1. PICK e \in rows : e.seq = n
    BY DEF Dense
  <2> QED
    BY <2>1, KindOfRow
<1>2. next - 1 \in Nat
  OBVIOUS
<1> QED
  BY <1>1, <1>2 DEF LogUpTo

LEMMA AppendToLog ==
    ASSUME NEW rows, NEW next \in Nat, next >= 1, Dense(rows, next),
           \A e \in rows : e.kind \in Kinds,
           NEW row, row.seq = next, row.kind \in Kinds
    PROVE  LogUpTo(rows \cup {row}, next + 1) = Append(LogUpTo(rows, next), row.kind)
<1> DEFINE old == LogUpTo(rows, next)
           new == LogUpTo(rows \cup {row}, next + 1)
<1>1. old \in Seq(Kinds) /\ Len(old) = next - 1
  BY LogIsSequence
<1>2. Dense(rows \cup {row}, next + 1)
  BY AppendKeepsDense
<1>3. new \in Seq(Kinds) /\ Len(new) = next
  BY <1>2, LogIsSequence
<1>4. ASSUME NEW n \in 1 .. next
      PROVE  new[n] = Append(old, row.kind)[n]
  <2>0. new[n] = KindOf(rows \cup {row}, n)
    BY DEF LogUpTo
  <2>1. CASE n = next
    <3>1. KindOf(rows \cup {row}, row.seq) = row.kind
      BY <1>2, KindOfRow
    <3>2. Append(old, row.kind)[next] = row.kind
      <4> HIDE DEF old
      <4> QED
        BY <1>1
    <3> QED
      BY <2>0, <2>1, <3>1, <3>2
  <2>2. CASE n # next
    <3>1. n \in 1 .. (next - 1)
      BY <2>2
    <3>2. PICK e \in rows : e.seq = n
      BY <3>1 DEF Dense
    <3>3. KindOf(rows \cup {row}, e.seq) = e.kind /\ KindOf(rows, e.seq) = e.kind
      BY <1>2, KindOfRow
    <3>4. old[n] = KindOf(rows, n)
      BY <3>1 DEF LogUpTo
    <3>5. Append(old, row.kind)[n] = old[n]
      <4> HIDE DEF old
      <4> QED
        BY <1>1, <3>1
    <3> QED
      BY <2>0, <3>2, <3>3, <3>4, <3>5
  <2> QED
    BY <2>1, <2>2
<1>5. Append(old, row.kind) \in Seq(Kinds) /\ Len(Append(old, row.kind)) = next
  <2> HIDE DEF old
  <2> QED
    BY <1>1
<1> HIDE DEF old, new
<1>6. new = Append(old, row.kind)
  BY <1>3, <1>4, <1>5
<1> QED
  BY <1>6 DEF old, new

-----------------------------------------------------------------------------
(* The steps.                                                              *)

PublicStatus == [r \in Calls |-> runs[r].status]
PublicConv == [r \in Calls |-> runs[r].conv]
PublicLog == [r \in Calls |-> LogOf(r)]

LEMMA LogOfRows ==
    \A r \in Calls : /\ LogOf(r) = LogUpTo(events[r], runs[r].next)
                     /\ LogOf(r)' = LogUpTo(events'[r], runs'[r].next)
  BY DEF LogOf, LogUpTo, KindOf

\* What the contract shows of a run that a step leaves alone, and of the one
\* that it changes.
LEMMA PublicUpdate ==
    ASSUME NEW r \in Calls, \A s \in Calls \ {r} : Shown(s)
    PROVE  /\ PublicStatus' = [PublicStatus EXCEPT ![r] = runs'[r].status]
           /\ PublicConv' = [PublicConv EXCEPT ![r] = runs'[r].conv]
           /\ PublicLog' =
                [PublicLog EXCEPT ![r] = LogUpTo(events'[r], runs'[r].next)]
<1>1. PublicStatus' = [PublicStatus EXCEPT ![r] = runs'[r].status]
  BY DEF PublicStatus, Shown
<1>2. PublicConv' = [PublicConv EXCEPT ![r] = runs'[r].conv]
  BY DEF PublicConv, Shown
<1>3. PublicLog' = [PublicLog EXCEPT ![r] = LogUpTo(events'[r], runs'[r].next)]
  <2>1. \A s \in Calls \ {r} : LogOf(s)' = LogOf(s)
    BY LogOfRows DEF Shown
  <2>2. LogOf(r)' = LogUpTo(events'[r], runs'[r].next)
    BY LogOfRows
  <2>3. PublicLog' = [s \in Calls |-> LogOf(s)']
    BY DEF PublicLog
  <2> QED
    BY <2>1, <2>2, <2>3 DEF PublicLog
<1> QED
  BY <1>1, <1>2, <1>3

LEMMA PublicKept ==
    ASSUME \A r \in Calls : Shown(r)
    PROVE  UNCHANGED <<PublicStatus, PublicConv, PublicLog>>
<1>1. UNCHANGED <<PublicStatus, PublicConv>>
  BY DEF PublicStatus, PublicConv, Shown
<1>2. \A r \in Calls : LogOf(r)' = LogOf(r)
  BY LogOfRows DEF Shown
<1>3. PublicLog' = [r \in Calls |-> LogOf(r)']
  BY DEF PublicLog
<1> QED
  BY <1>1, <1>2, <1>3 DEF PublicLog

LEMMA StatusesAgree ==
    /\ Public!Open = ActiveStatuses /\ Public!Closed = TerminalStatuses
    /\ Public!Progress = Reports
    /\ \A status \in TerminalStatuses :
          Public!ClosingEvent[status] = TerminalKind(status)
  BY DEF Public!Open, Public!Closed, Public!Answered, Public!Progress,
     Public!ClosingEvent, ActiveStatuses, TerminalStatuses, Completed, Reports,
     TerminalKind

LEMMA ChangeIsPublic ==
    ASSUME TablesInv, NEW r \in Calls, RunChanged(r), \A s \in Calls \ {r} : Shown(s)
    PROVE  Public!ContractNext
<1> DEFINE next == runs[r].next
           L == LogUpTo(events[r], next)
<1>1. /\ next \in Nat /\ Dense(events[r], next)
      /\ \A e \in events[r] : e.kind \in Kinds
      /\ IF runs[r].status = "absent" THEN next = 0 ELSE next >= 1
      /\ runs[r].status \in ActiveStatuses \cup TerminalStatuses \cup {"absent"}
  BY DEF TablesInv, Logs, CInv, IInv, TypeInv, TypeOK, Run, Event
<1>2. PublicLog[r] = L /\ PublicStatus[r] = runs[r].status /\ PublicConv[r] = runs[r].conv
  BY LogOfRows DEF PublicLog, PublicStatus, PublicConv
<1>3. /\ [PublicStatus EXCEPT ![r] = runs[r].status] = PublicStatus
      /\ [PublicConv EXCEPT ![r] = runs[r].conv] = PublicConv
      /\ [PublicLog EXCEPT ![r] = L] = PublicLog
  <2> HIDE DEF L
  <2> QED
    BY <1>2 DEF PublicStatus, PublicConv, PublicLog
<1>4. CASE RunAccepted(r)
  <2> DEFINE row == [seq |-> 1, kind |-> "run.accepted"]
  <2>0. PICK c \in Calls : runs'[r].conv = c
    BY <1>4 DEF RunAccepted
  <2>1. events[r] = {}
    BY <1>1, <1>4 DEF RunAccepted, Dense
  <2>2. LogUpTo(events'[r], 2) = <<"run.accepted">>
    <3>1. events'[r] = {row} /\ row.seq = 1 /\ row.kind = "run.accepted"
      BY <1>4, <2>1 DEF RunAccepted
    <3> HIDE DEF row
    <3>2. Dense({row}, 2)
      BY <3>1 DEF Dense
    <3>3. KindOf({row}, 1) = "run.accepted"
      BY <3>1, <3>2, KindOfRow
    <3>4. 1 .. (2 - 1) = {1}
      OBVIOUS
    <3> QED
      BY <3>1, <3>3, <3>4 DEF LogUpTo
  <2>3. /\ PublicStatus' = [PublicStatus EXCEPT ![r] = "queued"]
        /\ PublicConv' = [PublicConv EXCEPT ![r] = c]
        /\ PublicLog' = [PublicLog EXCEPT ![r] = <<"run.accepted">>]
    BY <1>4, <2>0, <2>2, PublicUpdate, ZenonT(40) DEF RunAccepted
  <2>4. /\ PublicStatus[r] = "absent"
        /\ \A s \in Calls : PublicConv[s] = c => PublicStatus[s] \notin Public!Open
    BY <1>2, <1>4, <2>0, StatusesAgree DEF RunAccepted, PublicConv, PublicStatus
  <2>5. Public!Accept(r, c)
    BY <2>3, <2>4 DEF Public!Accept, PublicStatus, PublicConv, PublicLog
  <2> QED
    BY <2>0, <2>5 DEF Public!ContractNext
<1>5. CASE RunRestated(r)
  <2>1. /\ PublicStatus' = [PublicStatus EXCEPT ![r] = runs'[r].status]
        /\ PublicConv' = [PublicConv EXCEPT ![r] = runs[r].conv]
        /\ PublicLog' = [PublicLog EXCEPT ![r] = L]
    <3>1. LogUpTo(events'[r], runs'[r].next) = L
      BY <1>5 DEF RunRestated
    <3> HIDE DEF L
    <3> QED
      BY <1>5, <3>1, PublicUpdate, ZenonT(40) DEF RunRestated
  <2>2. /\ PublicStatus[r] \in Public!Open
        /\ PublicConv' = PublicConv /\ PublicLog' = PublicLog
        /\ \/ PublicStatus' = [PublicStatus EXCEPT ![r] = "running"]
           \/ PublicStatus' = [PublicStatus EXCEPT ![r] = "cancel_requested"]
    <3> HIDE DEF L
    <3> QED
      BY <1>2, <1>3, <1>5, <2>1, StatusesAgree DEF RunRestated, Claimed
  <2>3. Public!Claimed(r) \/ Public!CancelRequested(r)
    BY <2>2 DEF Public!Claimed, Public!CancelRequested, PublicStatus, PublicConv,
       PublicLog
  <2> QED
    BY <2>3 DEF Public!ContractNext
<1>6. CASE RunReported(r)
  <2>1. PICK kind \in Reports :
          events'[r] = events[r] \cup {[seq |-> next, kind |-> kind]}
    BY <1>6 DEF RunReported
  <2> DEFINE row == [seq |-> next, kind |-> kind]
  <2>2. /\ row.seq = next /\ row.kind = kind /\ row.kind \in Kinds
        /\ events'[r] = events[r] \cup {row} /\ next >= 1
    BY <1>1, <1>6, <2>1 DEF Reports, Kinds, RunReported
  <2> HIDE DEF row
  <2>3. LogUpTo(events'[r], runs'[r].next) = Append(L, kind)
    <3> HIDE DEF next
    <3>1. LogUpTo(events[r] \cup {row}, next + 1)
            = Append(LogUpTo(events[r], next), row.kind)
      <4> HIDE DEF L
      <4>1. next \in Nat /\ next >= 1 /\ row.seq = next /\ row.kind \in Kinds
        BY <1>1, <2>2
      <4> QED
        BY <1>1, <4>1, AppendToLog
    <3>2. runs'[r].next = next + 1
      BY <1>6 DEF RunReported, next
    <3> QED
      BY <2>2, <3>1, <3>2
  <2> HIDE DEF L
  <2>4. /\ PublicStatus' = PublicStatus /\ PublicConv' = PublicConv
        /\ PublicLog' = [PublicLog EXCEPT ![r] = Append(L, kind)]
    BY <1>3, <1>6, <2>3, PublicUpdate, ZenonT(40) DEF RunReported
  <2>5. /\ PublicStatus[r] \in Public!Open \cup Public!Closed
        /\ kind \in Public!Progress
    BY <1>1, <1>2, <1>6, <2>1, StatusesAgree DEF RunReported
  <2>6. PublicLog' = [PublicLog EXCEPT ![r] = Append(PublicLog[r], kind)]
    BY <1>2, <2>4
  <2>7. Public!Report(r, kind)
    BY <2>4, <2>5, <2>6 DEF Public!Report, PublicStatus, PublicConv, PublicLog
  <2> QED
    BY <2>5, <2>7 DEF Public!ContractNext
<1>7. CASE RunClosed(r)
  <2>0. PICK status \in TerminalStatuses : runs'[r].status = status
    BY <1>7 DEF RunClosed
  <2> DEFINE row == [seq |-> next, kind |-> TerminalKind(status)]
  <2>1. /\ row.seq = next /\ row.kind = TerminalKind(status) /\ row.kind \in Kinds
        /\ events'[r] = events[r] \cup {row} /\ next >= 1
    BY <1>1, <1>7, <2>0, TerminalKindIsTerminal DEF Kinds, RunClosed, Claimed
  <2> HIDE DEF row
  <2>2. LogUpTo(events'[r], runs'[r].next) = Append(L, TerminalKind(status))
    <3> HIDE DEF next
    <3>1. LogUpTo(events[r] \cup {row}, next + 1)
            = Append(LogUpTo(events[r], next), row.kind)
      <4> HIDE DEF L
      <4>1. next \in Nat /\ next >= 1 /\ row.seq = next /\ row.kind \in Kinds
        BY <1>1, <2>1
      <4> QED
        BY <1>1, <4>1, AppendToLog
    <3>2. runs'[r].next = next + 1
      BY <1>7 DEF RunClosed, next
    <3> QED
      BY <2>1, <3>1, <3>2
  <2> HIDE DEF L
  <2>3. /\ PublicStatus' = [PublicStatus EXCEPT ![r] = status]
        /\ PublicConv' = PublicConv
        /\ PublicLog' = [PublicLog EXCEPT ![r] = Append(L, TerminalKind(status))]
    BY <1>3, <1>7, <2>0, <2>2, PublicUpdate, ZenonT(40) DEF RunClosed
  <2>4. /\ PublicStatus[r] \in {"running", "cancel_requested"}
        /\ status \in Public!Closed
        /\ Public!ClosingEvent[status] = TerminalKind(status)
    BY <1>2, <1>7, <2>0, StatusesAgree DEF RunClosed, Claimed
  <2>5. PublicLog' =
          [PublicLog EXCEPT ![r] = Append(PublicLog[r], Public!ClosingEvent[status])]
    BY <1>2, <2>3, <2>4
  <2>6. Public!Close(r, status)
    BY <2>3, <2>4, <2>5 DEF Public!Close, PublicStatus, PublicConv, PublicLog
  <2> QED
    BY <2>4, <2>6 DEF Public!ContractNext
<1> QED
  BY <1>4, <1>5, <1>6, <1>7 DEF RunChanged

LEMMA StepIsPublic ==
    ASSUME TablesInv, [Next]_vars
    PROVE  [Public!ContractNext]_Public!contractVars
<1>1. RunsStep
  BY EveryTablesStep DEF TablesStep
<1>2. CASE \A r \in Calls : Shown(r)
  <2>1. UNCHANGED <<PublicStatus, PublicConv, PublicLog>>
    BY <1>2, PublicKept
  <2> QED
    BY <2>1 DEF Public!contractVars, PublicStatus, PublicConv, PublicLog
<1>3. CASE \E r \in Calls : RunChanged(r) /\ \A s \in Calls \ {r} : Shown(s)
  BY <1>3, ChangeIsPublic
<1> QED
  BY <1>1, <1>2, <1>3 DEF RunsStep

\* Every behaviour of the calls, workers, cancellations and leases is one that
\* the contract of a run allows: one open run in a conversation, a log that
\* only grows, and one closing event that agrees with the status.
THEOREM RunsKeepTheContract == Spec => ImplementsContract
<1>1. Init => Public!ContractInit
  <2> SUFFICES ASSUME Init PROVE Public!ContractInit
    OBVIOUS
  <2>1. \A r \in Calls : runs[r].status = "absent" /\ runs[r].conv = None
    BY DEF Init, AbsentRun
  <2>2. ASSUME NEW r \in Calls PROVE LogOf(r) = <<>>
    <3>1. runs[r].next = 0
      BY DEF Init, AbsentRun
    <3>2. 1 .. (0 - 1) = {}
      OBVIOUS
    <3> QED
      BY <3>1, <3>2 DEF LogOf
  <2> QED
    BY <2>1, <2>2 DEF Public!ContractInit
<1>2. TablesInv /\ [Next]_vars => [Public!ContractNext]_Public!contractVars
  BY StepIsPublic
<1> QED
  BY <1>1, <1>2, TablesHold, PTL DEF Spec, ImplementsContract, Public!Contract

=============================================================================
