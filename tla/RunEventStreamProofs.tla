------------------------- MODULE RunEventStreamProofs -------------------------
(* Theorems about RunEventStream, for any runs, watchers, batch limits and  *)
(* numbers of lost connections.                                             *)
EXTENDS RunEventStream, TLAPS

-----------------------------------------------------------------------------
(* The runs, as far as a browser must rely on them.                         *)

Statuses == Open \cup Closed \cup {"absent"}
EventKinds == Terminal \cup Progress \cup {"run.accepted"}

RunsTyped ==
    /\ status \in [Runs -> Statuses]
    /\ log \in [Runs -> Seq(EventKinds)]

\* Only a closed run has a terminal event, and it tells the run's status.
TerminalTrue ==
    \A r \in Runs : \A n \in DOMAIN log[r] :
        log[r][n] \in Terminal => status[r] \in Closed /\ log[r][n] = ClosingEvent[status[r]]

ContractInv == RunsTyped /\ TerminalTrue

LEMMA Vocabulary ==
    /\ Open \cap Closed = {} /\ "absent" \notin Open \cup Closed
    /\ "run.accepted" \notin Terminal /\ Progress \cap Terminal = {}
    /\ \A s \in Closed : ClosingEvent[s] \in Terminal
  BY DEF Open, Closed, Answered, Terminal, Progress, ClosingEvent

\* What a step of the contract does to one run: it gains at most one event,
\* and a closed run stays as it is.
LogStep(r) ==
    /\ status'[r] = status[r]
       \/ (status[r] \notin Closed /\ status'[r] \in Open \cup Closed)
    /\ \/ log'[r] = log[r] /\ (status'[r] = status[r] \/ status'[r] \notin Closed)
       \/ /\ log'[r] = <<"run.accepted">> /\ status[r] = "absent"
          /\ status'[r] = "queued"
       \/ \E kind \in Progress : log'[r] = Append(log[r], kind) /\ status'[r] = status[r]
       \/ /\ status[r] \notin Closed /\ status'[r] \in Closed
          /\ log'[r] = Append(log[r], ClosingEvent[status'[r]])

LEMMA EveryLogStep ==
    ASSUME RunsTyped, RunStep, NEW r \in Runs
    PROVE  LogStep(r)
<1>1. ASSUME NEW s \in Runs, NEW c \in Conversations, Accept(s, c) PROVE LogStep(r)
  BY <1>1 DEF Accept, LogStep, RunsTyped, Statuses, Open, Closed, Answered
<1>2. ASSUME NEW s \in Runs, Claimed(s) \/ CancelRequested(s) PROVE LogStep(r)
  BY <1>2 DEF Claimed, CancelRequested, LogStep, RunsTyped, Statuses, Open, Closed, Answered
<1>3. ASSUME NEW s \in Runs, NEW kind \in Progress, Report(s, kind) PROVE LogStep(r)
  BY <1>3 DEF Report, LogStep, RunsTyped
<1>4. ASSUME NEW s \in Runs, NEW final \in Closed, Close(s, final) PROVE LogStep(r)
  BY <1>4 DEF Close, LogStep, RunsTyped, Statuses, Closed, Answered
<1> QED
  BY <1>1, <1>2, <1>3, <1>4 DEF RunStep

\* Logs only grow, and keep what they tell.  An absent run tells nothing.
Grows(r) ==
    /\ log'[r] \in Seq(EventKinds)
    /\ status[r] # "absent" =>
          /\ status'[r] # "absent"
          /\ Len(log[r]) <= Len(log'[r])
          /\ \A n \in 1 .. Len(log[r]) : log'[r][n] = log[r][n]

LEMMA LogsGrow ==
    ASSUME ContractInv, NEW r \in Runs, LogStep(r)
    PROVE  /\ Grows(r)
           /\ status'[r] \in Statuses
           /\ \A n \in DOMAIN log'[r] : log'[r][n] \in Terminal =>
                 status'[r] \in Closed /\ log'[r][n] = ClosingEvent[status'[r]]
<1>1. /\ log[r] \in Seq(EventKinds) /\ Len(log[r]) \in Nat
      /\ DOMAIN log[r] = 1 .. Len(log[r]) /\ status[r] \in Statuses
  BY DEF ContractInv, RunsTyped
<1>2. \A n \in DOMAIN log[r] : log[r][n] \in Terminal =>
          status[r] \in Closed /\ log[r][n] = ClosingEvent[status[r]]
  BY DEF ContractInv, TerminalTrue
<1>3. ASSUME NEW kind \in EventKinds, log'[r] = Append(log[r], kind)
      PROVE  /\ log'[r] \in Seq(EventKinds) /\ Len(log'[r]) = Len(log[r]) + 1
             /\ DOMAIN log'[r] = 1 .. (Len(log[r]) + 1)
             /\ log'[r][Len(log[r]) + 1] = kind
             /\ \A n \in 1 .. Len(log[r]) : log'[r][n] = log[r][n]
  BY <1>1, <1>3
<1>4. CASE log'[r] = log[r] /\ (status'[r] = status[r] \/ status'[r] \notin Closed)
  <2>1. status'[r] = status[r] \/ \A n \in DOMAIN log[r] : log[r][n] \notin Terminal
    BY <1>2 DEF LogStep
  <2>2. status'[r] \in Statuses
    BY <1>1, Vocabulary DEF LogStep, Statuses
  <2>3. status[r] # "absent" => status'[r] # "absent"
    BY Vocabulary DEF LogStep
  <2>4. Grows(r)
    BY <1>1, <1>4, <2>3 DEF Grows
  <2>5. \A n \in DOMAIN log'[r] : log'[r][n] \in Terminal =>
            status'[r] \in Closed /\ log'[r][n] = ClosingEvent[status'[r]]
    BY <1>2, <1>4, <2>1
  <2> QED
    BY <2>2, <2>4, <2>5
<1>5. CASE log'[r] = <<"run.accepted">> /\ status[r] = "absent" /\ status'[r] = "queued"
  BY <1>1, <1>5, Vocabulary DEF Grows, EventKinds, Statuses, Open
<1>6. ASSUME NEW kind \in Progress, log'[r] = Append(log[r], kind), status'[r] = status[r]
      PROVE  /\ Grows(r) /\ status'[r] \in Statuses
             /\ \A n \in DOMAIN log'[r] : log'[r][n] \in Terminal =>
                   status'[r] \in Closed /\ log'[r][n] = ClosingEvent[status'[r]]
  <2>1. kind \in EventKinds /\ kind \notin Terminal
    BY Vocabulary DEF EventKinds
  <2> QED
    BY <1>1, <1>2, <1>3, <1>6, <2>1 DEF Grows
<1>7. CASE /\ status[r] \notin Closed /\ status'[r] \in Closed
           /\ log'[r] = Append(log[r], ClosingEvent[status'[r]])
  <2>1. ClosingEvent[status'[r]] \in EventKinds
    BY <1>7, Vocabulary DEF EventKinds
  <2>2. \A n \in 1 .. Len(log[r]) : log[r][n] \notin Terminal
    BY <1>1, <1>2, <1>7
  <2> QED
    BY <1>1, <1>3, <1>7, <2>1, <2>2, Vocabulary DEF Grows, Statuses
<1> QED
  BY <1>4, <1>5, <1>6, <1>7 DEF LogStep

-----------------------------------------------------------------------------
(* One watcher: the cursors of both ends, and what is on the way.           *)

ServerState == [phase : {"closed", "list", "check", "yield"}, cursor : Nat, batch : SUBSET Nat]
ClientState == [phase : {"connecting", "open", "done"}, run : Runs, last : Nat, shown : Seq(Nat)]

\* The events that no connection of the watcher has yielded yet begin here.
Sent(cl, w) == cl.last + Len(w)

\* What is on the wire follows what the browser has shown, without a gap.
Wired(cl, w) ==
    /\ cl.shown = [n \in 1 .. cl.last |-> n]
    /\ \A i \in 1 .. Len(w) : w[i] = cl.last + i

\* A generator at work continues the wire and has not sent a terminal event.
Serving(cl, sv, w, lg) ==
    sv.phase # "closed" =>
        /\ cl.phase = "open" /\ sv.cursor = Sent(cl, w)
        /\ \A n \in 1 .. Sent(cl, w) : lg[n] \notin Terminal
        /\ sv.phase \in {"check", "yield"} =>
              \/ sv.phase = "check" /\ sv.batch = {}
              \/ \E m \in Nat : /\ sv.cursor < m /\ m <= Len(lg)
                                /\ sv.batch = (sv.cursor + 1) .. m

\* Nothing was sent that is not in the log, and a terminal event only last.
Told(cl, w, st, lg) ==
    /\ cl.phase # "open" => w = <<>>
    /\ st = "absent" => cl.phase = "connecting" /\ cl.last = 0
    /\ Sent(cl, w) <= Len(lg)
    /\ \A n \in 1 .. (Sent(cl, w) - 1) : lg[n] \notin Terminal
    /\ cl.phase # "done" => \A n \in 1 .. cl.last : lg[n] \notin Terminal
    /\ cl.phase = "done" => cl.last > 0 /\ lg[cl.last] \in Terminal

Synced(cl, sv, w, st, lg) ==
    Wired(cl, w) /\ Serving(cl, sv, w, lg) /\ Told(cl, w, st, lg)

WatcherSynced(c) ==
    Synced(client[c], server[c], wire[c], status[client[c].run], log[client[c].run])

StreamInv == StreamTypeOK /\ ContractInv /\ \A c \in Watchers : WatcherSynced(c)

\* A watcher stays in step while the log of its run grows.
LEMMA GrowthKeepsSynced ==
    ASSUME NEW cl \in ClientState, NEW sv \in ServerState, NEW w \in Seq(Nat),
           NEW st, NEW st2, NEW lg \in Seq(EventKinds), NEW lg2 \in Seq(EventKinds),
           Synced(cl, sv, w, st, lg), st = "absent" \/ st2 # "absent",
           st # "absent" => /\ Len(lg) <= Len(lg2)
                            /\ \A n \in 1 .. Len(lg) : lg2[n] = lg[n]
    PROVE  Synced(cl, sv, w, st2, lg2)
<1>1. /\ cl.last \in Nat /\ Len(w) \in Nat /\ Len(lg) \in Nat /\ Len(lg2) \in Nat
      /\ Sent(cl, w) \in Nat /\ cl.last <= Sent(cl, w) /\ sv.cursor \in Nat
  BY DEF ClientState, ServerState, Sent
<1>2. CASE st = "absent"
  <2>1. cl.phase = "connecting" /\ cl.last = 0 /\ w = <<>> /\ sv.phase = "closed"
    BY <1>2 DEF Synced, Told, Serving
  <2>2. Sent(cl, w) = 0
    BY <2>1 DEF Sent
  <2> QED
    BY <1>1, <2>1, <2>2 DEF Synced, Wired, Serving, Told
<1>3. CASE st # "absent"
  <2>1. Sent(cl, w) <= Len(lg) /\ \A n \in 1 .. Sent(cl, w) : lg2[n] = lg[n]
    BY <1>1, <1>3 DEF Synced, Told
  <2>2. Serving(cl, sv, w, lg2)
    <3> SUFFICES ASSUME sv.phase # "closed" PROVE Serving(cl, sv, w, lg2)
      BY DEF Serving
    <3>1. /\ cl.phase = "open" /\ sv.cursor = Sent(cl, w)
          /\ \A n \in 1 .. Sent(cl, w) : lg2[n] \notin Terminal
      BY <1>1, <2>1 DEF Synced, Serving
    <3>2. ASSUME NEW m \in Nat, sv.cursor < m /\ m <= Len(lg)
          PROVE  sv.cursor < m /\ m <= Len(lg2)
      BY <1>1, <1>3, <3>2
    <3> QED
      BY <3>1, <3>2 DEF Synced, Serving
  <2>3. Told(cl, w, st2, lg2)
    <3>1. Sent(cl, w) <= Len(lg2)
      BY <1>1, <1>3, <2>1
    <3>2. \A n \in 1 .. (Sent(cl, w) - 1) : lg2[n] \notin Terminal
      BY <1>1, <2>1 DEF Synced, Told
    <3>3. cl.phase # "done" => \A n \in 1 .. cl.last : lg2[n] \notin Terminal
      BY <1>1, <2>1 DEF Synced, Told
    <3>4. cl.phase = "done" => cl.last > 0 /\ lg2[cl.last] \in Terminal
      <4> SUFFICES ASSUME cl.phase = "done"
                   PROVE  cl.last > 0 /\ lg2[cl.last] \in Terminal
        OBVIOUS
      <4>1. cl.last > 0 /\ lg[cl.last] \in Terminal
        BY DEF Synced, Told
      <4> QED
        BY <1>1, <2>1, <4>1
    <3> QED
      BY <1>3, <3>1, <3>2, <3>3, <3>4 DEF Synced, Told
  <2> QED
    BY <2>2, <2>3 DEF Synced
<1> QED
  BY <1>2, <1>3

-----------------------------------------------------------------------------
(* One step of one watcher.                                                 *)

\* The step leaves the runs and the other watchers alone.
Alone(c) ==
    /\ UNCHANGED contractVars
    /\ drops' \in 0 .. MaxDrops
    /\ \A d \in Watchers \ {c} :
          server'[d] = server[d] /\ wire'[d] = wire[d] /\ client'[d] = client[d]
    /\ server' \in [Watchers -> ServerState] /\ wire' \in [Watchers -> Seq(Nat)]
    /\ client' \in [Watchers -> ClientState] /\ client'[c].run = client[c].run

\* The watcher is still in step with the log of its run.
StillSynced(c) ==
    Synced(client'[c], server'[c], wire'[c], status[client[c].run], log[client[c].run])

LEMMA AloneKeepsInv ==
    ASSUME StreamInv, NEW c \in Watchers, Alone(c), StillSynced(c)
    PROVE  StreamInv'
<1>1. StreamTypeOK'
  BY DEF StreamInv, StreamTypeOK, Alone, ServerState, ClientState
<1>2. ContractInv'
  BY DEF StreamInv, ContractInv, RunsTyped, TerminalTrue, Alone, contractVars
<1>3. ASSUME NEW d \in Watchers PROVE WatcherSynced(d)'
  <2>1. CASE d = c
    <3>1. client'[c].run = client[c].run
      BY DEF StreamInv, StreamTypeOK, Alone
    <3> QED
      BY <2>1, <3>1 DEF Alone, contractVars, StillSynced, WatcherSynced
  <2>2. CASE d # c
    BY <2>2 DEF StreamInv, StreamTypeOK, Alone, contractVars, WatcherSynced
  <2> QED
    BY <2>1, <2>2
<1> QED
  BY <1>1, <1>2, <1>3 DEF StreamInv

LEMMA WatcherTypes ==
    ASSUME StreamInv, NEW c \in Watchers
    PROVE  /\ server[c] \in ServerState /\ wire[c] \in Seq(Nat) /\ client[c] \in ClientState
           /\ client[c].run \in Runs /\ status[client[c].run] \in Statuses
           /\ log[client[c].run] \in Seq(EventKinds) /\ Len(log[client[c].run]) \in Nat
           /\ client[c].last \in Nat /\ Len(wire[c]) \in Nat /\ server[c].cursor \in Nat
           /\ Sent(client[c], wire[c]) \in Nat /\ client[c].last <= Sent(client[c], wire[c])
           /\ server \in [Watchers -> ServerState] /\ client \in [Watchers -> ClientState]
           /\ wire \in [Watchers -> Seq(Nat)] /\ drops \in 0 .. MaxDrops
           /\ Synced(client[c], server[c], wire[c], status[client[c].run], log[client[c].run])
<1>1. /\ server \in [Watchers -> ServerState] /\ client \in [Watchers -> ClientState]
      /\ wire \in [Watchers -> Seq(Nat)] /\ drops \in 0 .. MaxDrops
  BY DEF StreamInv, StreamTypeOK, ServerState, ClientState
<1>2. server[c] \in ServerState /\ wire[c] \in Seq(Nat) /\ client[c] \in ClientState
  BY <1>1
<1>3. client[c].last \in Nat /\ server[c].cursor \in Nat /\ client[c].run \in Runs
  BY <1>2 DEF ServerState, ClientState
<1>4. /\ status[client[c].run] \in Statuses
      /\ log[client[c].run] \in Seq(EventKinds) /\ Len(log[client[c].run]) \in Nat
  BY <1>3 DEF StreamInv, ContractInv, RunsTyped
<1>5. Sent(client[c], wire[c]) \in Nat /\ client[c].last <= Sent(client[c], wire[c])
  BY <1>2, <1>3 DEF Sent
<1> QED
  BY <1>1, <1>2, <1>3, <1>4, <1>5 DEF StreamInv, WatcherSynced

LEMMA ListKeepsInv ==
    ASSUME StreamInv, NEW c \in Watchers, ListEvents(c)
    PROVE  StreamInv'
<1> DEFINE r == client[c].run
           batch == NewEvents(r, server[c].cursor, BatchLimit)
           sv == [phase |-> "check", cursor |-> server[c].cursor, batch |-> batch]
<1>1. batch \in SUBSET Nat
  BY WatcherTypes DEF NewEvents
<1>2. server[c] \in ServerState /\ server \in [Watchers -> ServerState]
  BY WatcherTypes
<1>3. sv \in ServerState
  BY <1>1, <1>2 DEF ServerState
<1>4. server'[c] = [server[c] EXCEPT !.phase = "check", !.batch = batch]
  BY <1>2 DEF ListEvents, RunOfClient
<1>5. server'[c] = sv
  BY <1>2, <1>4 DEF ServerState
<1> HIDE DEF batch
<1>6. Alone(c)
  <2>1. \A d \in Watchers \ {c} : server'[d] = server[d]
    BY <1>2 DEF ListEvents
  <2>2. DOMAIN server' = Watchers /\ server' = [d \in Watchers |-> server'[d]]
    BY <1>2 DEF ListEvents
  <2>3. \A d \in Watchers : server'[d] \in ServerState
    BY <1>2, <1>3, <1>5, <2>1
  <2> QED
    BY <2>1, <2>2, <2>3, WatcherTypes DEF ListEvents, Alone
<1>7. batch = {} \/ \E m \in Nat : /\ sv.cursor < m /\ m <= Len(log[r])
                                   /\ batch = (sv.cursor + 1) .. m
  <2> DEFINE m == IF Len(log[r]) <= sv.cursor + BatchLimit THEN Len(log[r])
                  ELSE sv.cursor + BatchLimit
  <2>1. m \in Nat /\ m <= Len(log[r]) /\ sv.cursor \in Nat
    BY StreamAssumption, WatcherTypes
  <2>2. batch = (sv.cursor + 1) .. m
    <3> DEFINE size == Len(log[r])
               cursor == server[c].cursor
    <3>1. /\ size \in Nat /\ cursor \in Nat /\ BatchLimit \in Nat
          /\ DOMAIN log[r] = 1 .. size
      BY StreamAssumption, WatcherTypes
    <3>2. /\ batch = {n \in 1 .. size : cursor < n /\ n <= cursor + BatchLimit}
          /\ m = IF size <= cursor + BatchLimit THEN size ELSE cursor + BatchLimit
          /\ sv.cursor = cursor
      BY <3>1 DEF NewEvents, batch
    <3> HIDE DEF batch, m, sv, size, cursor
    <3>3. batch = (cursor + 1) .. m
      BY <3>1, <3>2
    <3> QED
      BY <3>2, <3>3
  <2>3. m <= sv.cursor => batch = {}
    BY <2>1, <2>2
  <2>4. m <= sv.cursor \/ sv.cursor < m
    BY <2>1
  <2> HIDE DEF m, sv, batch
  <2> QED
    BY <2>1, <2>2, <2>3, <2>4
<1>8. StillSynced(c)
  <2>1. wire'[c] = wire[c] /\ client'[c] = client[c] /\ server[c].phase = "list"
    BY DEF ListEvents
  <2>2. Synced(client[c], server[c], wire[c], status[r], log[r])
    BY WatcherTypes
  <2>3. Serving(client[c], sv, wire[c], log[r])
    BY <1>7, <2>1, <2>2 DEF Synced, Serving
  <2> QED
    BY <1>5, <2>1, <2>2, <2>3 DEF StillSynced, Synced
<1> QED
  BY <1>6, <1>8, AloneKeepsInv

LEMMA ReadKeepsInv ==
    ASSUME StreamInv, NEW c \in Watchers, ReadRun(c)
    PROVE  StreamInv'
<1> DEFINE sv == [server[c] EXCEPT !.phase =
                    CASE server[c].batch # {} -> "yield"
                      [] server[c].batch = {} /\ status[RunOfClient(c)] \in Closed -> "closed"
                      [] OTHER -> "list"]
<1>1. /\ sv.cursor = server[c].cursor /\ sv.batch = server[c].batch
      /\ sv.phase \in {"yield", "closed", "list"}
      /\ sv.phase = "yield" => sv.batch # {}
  BY WatcherTypes DEF ServerState
<1>2. sv \in ServerState
  BY <1>1, WatcherTypes DEF ServerState
<1>3. server \in [Watchers -> ServerState]
  BY WatcherTypes
<1>4. server'[c] = sv /\ wire'[c] = wire[c] /\ client'[c] = client[c]
  BY <1>3 DEF ReadRun
<1>6. server[c].phase = "check"
  BY DEF ReadRun
<1>5. Alone(c)
  <2>1. \A d \in Watchers \ {c} : server'[d] = server[d]
    BY <1>3 DEF ReadRun
  <2>2. server' = [d \in Watchers |-> server'[d]]
    BY <1>3 DEF ReadRun
  <2> HIDE DEF sv
  <2>3. \A d \in Watchers : server'[d] \in ServerState
    BY <1>2, <1>3, <1>4, <2>1
  <2> QED
    BY <2>1, <2>2, <2>3, WatcherTypes DEF ReadRun, Alone
<1> HIDE DEF sv
<1>7. StillSynced(c)
  BY <1>1, <1>4, <1>6, WatcherTypes DEF StillSynced, Synced, Serving
<1> QED
  BY <1>5, <1>7, AloneKeepsInv

LEMMA YieldKeepsInv ==
    ASSUME StreamInv, NEW c \in Watchers, Yield(c)
    PROVE  StreamInv'
<1> DEFINE r == client[c].run
           top == Sent(client[c], wire[c])
<1>1. /\ server \in [Watchers -> ServerState] /\ wire \in [Watchers -> Seq(Nat)]
      /\ client \in [Watchers -> ClientState] /\ drops \in 0 .. MaxDrops
      /\ log[r] \in Seq(EventKinds) /\ Len(log[r]) \in Nat /\ top \in Nat
      /\ client[c].last \in Nat /\ client[c].last <= top
      /\ Synced(client[c], server[c], wire[c], status[r], log[r])
  BY WatcherTypes
<1>2. /\ server[c].phase = "yield" /\ client[c].phase = "open" /\ server[c].cursor = top
      /\ \A k \in 1 .. top : log[r][k] \notin Terminal
  BY <1>1 DEF Yield, Synced, Serving
<1>3. PICK m \in Nat : top < m /\ m <= Len(log[r]) /\ server[c].batch = (top + 1) .. m
  BY <1>1, <1>2 DEF Synced, Serving
<1>4. wire[c] \in Seq(Nat) /\ Len(wire[c]) \in Nat /\ top = client[c].last + Len(wire[c])
  BY <1>1 DEF Sent
<1> HIDE DEF top
<1> DEFINE n == top + 1
           rest == server[c].batch \ {n}
           sv == IF IsTerminal(r, n)
                 THEN [phase |-> "closed", cursor |-> n, batch |-> {}]
                 ELSE [phase |-> IF rest = {} THEN "list" ELSE "yield",
                       cursor |-> n, batch |-> rest]
<1>5. /\ server' = [server EXCEPT ![c] = sv] /\ wire' = [wire EXCEPT ![c] = Append(wire[c], n)]
      /\ UNCHANGED <<contractVars, client, drops>>
  <2>1. PICK first \in server[c].batch :
            /\ \A k \in server[c].batch : first <= k
            /\ wire' = [wire EXCEPT ![c] = Append(wire[c], first)]
            /\ server' = [server EXCEPT ![c] =
                  IF IsTerminal(r, first)
                  THEN [phase |-> "closed", cursor |-> first, batch |-> {}]
                  ELSE [phase |-> IF server[c].batch \ {first} = {} THEN "list" ELSE "yield",
                        cursor |-> first, batch |-> server[c].batch \ {first}]]
    BY <1>1 DEF Yield, RunOfClient
  <2>2. first = n
    <3>1. n \in server[c].batch /\ first \in Nat /\ n <= first
      BY <1>1, <1>3
    <3>2. first <= n
      BY <2>1, <3>1
    <3> QED
      BY <1>1, <3>1, <3>2
  <2> QED
    BY <2>1, <2>2 DEF Yield
<1>6. rest = (n + 1) .. m /\ n \in Nat /\ n <= m
  BY <1>1, <1>3
<1>7. sv \in ServerState
  <2>1. rest \in SUBSET Nat
    BY <1>6
  <2> HIDE DEF rest, n
  <2> QED
    BY <1>6, <2>1 DEF ServerState
<1>8. /\ sv.cursor = n /\ sv.phase # "check"
      /\ sv.phase # "closed" => ~IsTerminal(r, n)
      /\ sv.phase = "yield" => sv.batch = rest /\ rest # {}
  OBVIOUS
<1> HIDE DEF sv
<1>9. server'[c] = sv /\ wire'[c] = Append(wire[c], n) /\ client'[c] = client[c]
  BY <1>1, <1>5
<1>10. Alone(c)
  <2>1. server' \in [Watchers -> ServerState] /\ wire' \in [Watchers -> Seq(Nat)]
    BY <1>1, <1>5, <1>6, <1>7
  <2>2. \A d \in Watchers \ {c} : server'[d] = server[d] /\ wire'[d] = wire[d]
    BY <1>1, <1>5
  <2> QED
    BY <1>1, <1>5, <2>1, <2>2 DEF Alone
<1>11. /\ Len(wire'[c]) = Len(wire[c]) + 1 /\ wire'[c][Len(wire[c]) + 1] = n
       /\ \A i \in 1 .. Len(wire[c]) : wire'[c][i] = wire[c][i]
  BY <1>4, <1>6, <1>9
<1>12. Sent(client[c], wire'[c]) = n
  <2>1. client[c].last + Len(wire'[c]) = n
    <3>1. client[c].last \in Nat /\ Len(wire[c]) \in Nat
      BY <1>1, <1>4
    <3>2. n = (client[c].last + Len(wire[c])) + 1 /\ Len(wire'[c]) = Len(wire[c]) + 1
      BY <1>4, <1>11
    <3> HIDE DEF n
    <3> QED
      BY <3>1, <3>2
  <2> QED
    BY <2>1 DEF Sent
<1>13. Wired(client[c], wire'[c])
  <2>1. ASSUME NEW i \in 1 .. Len(wire'[c]) PROVE wire'[c][i] = client[c].last + i
    <3>1. i \in 1 .. Len(wire[c]) \/ i = Len(wire[c]) + 1
      BY <1>4, <1>11
    <3>2. CASE i \in 1 .. Len(wire[c])
      BY <1>1, <1>11, <3>2 DEF Synced, Wired
    <3>3. CASE i = Len(wire[c]) + 1
      BY <1>1, <1>4, <1>11, <3>3
    <3> QED
      BY <3>1, <3>2, <3>3
  <2> QED
    BY <1>1, <2>1 DEF Synced, Wired
<1>14. Serving(client[c], sv, wire'[c], log[r])
  <2> SUFFICES ASSUME sv.phase # "closed"
               PROVE  Serving(client[c], sv, wire'[c], log[r])
    BY DEF Serving
  <2>1. \A k \in 1 .. n : log[r][k] \notin Terminal
    <3>1. \A k \in 1 .. n : k \in 1 .. top \/ k = n
      BY <1>1
    <3> QED
      BY <1>2, <1>8, <3>1 DEF IsTerminal
  <2>2. sv.phase = "yield" => /\ sv.cursor < m /\ m <= Len(log[r])
                              /\ sv.batch = (sv.cursor + 1) .. m
    <3>1. n < m \/ rest = {}
      BY <1>6
    <3> HIDE DEF n, rest
    <3> QED
      BY <1>3, <1>6, <1>8, <3>1
  <2> QED
    BY <1>2, <1>8, <1>12, <2>1, <2>2 DEF Serving
<1>15. Told(client[c], wire'[c], status[r], log[r])
  <2>1. n <= Len(log[r]) /\ \A k \in 1 .. (n - 1) : log[r][k] \notin Terminal
    BY <1>1, <1>2, <1>3, <1>6
  <2> QED
    BY <1>1, <1>2, <1>12, <2>1 DEF Synced, Told
<1>16. StillSynced(c)
  BY <1>9, <1>13, <1>14, <1>15 DEF StillSynced, Synced
<1> QED
  BY <1>10, <1>16, AloneKeepsInv

LEMMA ConnectKeepsInv ==
    ASSUME StreamInv, NEW c \in Watchers, Connect(c)
    PROVE  StreamInv'
<1> DEFINE r == client[c].run
           cl == [client[c] EXCEPT !.phase = "open"]
           sv == [phase |-> "list", cursor |-> client[c].last, batch |-> {}]
<1>1. /\ server \in [Watchers -> ServerState] /\ wire \in [Watchers -> Seq(Nat)]
      /\ client \in [Watchers -> ClientState] /\ drops \in 0 .. MaxDrops
      /\ client[c] \in ClientState /\ client[c].last \in Nat
      /\ Synced(client[c], server[c], wire[c], status[r], log[r])
  BY WatcherTypes
<1>2. client[c].phase = "connecting" /\ status[r] # "absent" /\ wire[c] = <<>>
  BY <1>1 DEF Connect, RunOfClient, Synced, Told
<1>3. /\ cl \in ClientState /\ sv \in ServerState
      /\ cl.run = r /\ cl.last = client[c].last /\ cl.shown = client[c].shown
      /\ cl.phase = "open" /\ sv.phase = "list" /\ sv.cursor = client[c].last
  BY <1>1 DEF ClientState, ServerState
<1>4. /\ server' = [server EXCEPT ![c] = sv] /\ client' = [client EXCEPT ![c] = cl]
      /\ UNCHANGED <<contractVars, wire, drops>>
  BY <1>1 DEF Connect
<1> HIDE DEF cl, sv
<1>5. server'[c] = sv /\ wire'[c] = <<>> /\ client'[c] = cl
  BY <1>1, <1>2, <1>4
<1>6. Alone(c)
  BY <1>1, <1>3, <1>4 DEF Alone
<1>7. Sent(cl, <<>>) = cl.last /\ Sent(client[c], <<>>) = cl.last
  BY <1>1, <1>3 DEF Sent
<1>8. Synced(cl, sv, <<>>, status[r], log[r])
  BY <1>1, <1>2, <1>3, <1>7 DEF Synced, Wired, Serving, Told
<1> QED
  BY <1>5, <1>6, <1>8, AloneKeepsInv DEF StillSynced

LEMMA EndKeepsInv ==
    ASSUME StreamInv, NEW c \in Watchers, EndOfStream(c) \/ Drop(c)
    PROVE  StreamInv'
<1> DEFINE r == client[c].run
           cl == [client[c] EXCEPT !.phase = "connecting"]
<1>1. /\ server \in [Watchers -> ServerState] /\ wire \in [Watchers -> Seq(Nat)]
      /\ client \in [Watchers -> ClientState] /\ drops \in 0 .. MaxDrops
      /\ client[c] \in ClientState /\ client[c].last \in Nat /\ Len(log[r]) \in Nat
      /\ Sent(client[c], wire[c]) \in Nat /\ client[c].last <= Sent(client[c], wire[c])
      /\ Synced(client[c], server[c], wire[c], status[r], log[r])
  BY WatcherTypes
<1>2. client[c].phase = "open"
  BY DEF EndOfStream, Drop
<1>3. /\ cl \in ClientState /\ cl.phase = "connecting"
      /\ cl.run = r /\ cl.last = client[c].last /\ cl.shown = client[c].shown
  BY <1>1 DEF ClientState
<1>4. client' = [client EXCEPT ![c] = cl] /\ UNCHANGED contractVars
  BY <1>1 DEF EndOfStream, Drop
<1>5. ClosedServer \in ServerState /\ <<>> \in Seq(Nat)
  BY DEF ClosedServer, ServerState
<1> HIDE DEF cl
<1>6. Alone(c)
  <2>1. drops' \in 0 .. MaxDrops
    BY <1>1, StreamAssumption DEF EndOfStream, Drop
  <2> QED
    BY <1>1, <1>3, <1>4, <1>5, <2>1 DEF EndOfStream, Drop, Alone
<1>7. server'[c].phase = "closed" /\ wire'[c] = <<>> /\ client'[c] = cl
  BY <1>1, <1>4 DEF EndOfStream, Drop, ClosedServer
<1>8. Sent(cl, <<>>) = cl.last
  BY <1>1, <1>3 DEF Sent
<1>9. Told(cl, <<>>, status[r], log[r])
  BY <1>1, <1>2, <1>3, <1>8 DEF Synced, Told
<1>10. Wired(cl, <<>>) /\ Serving(cl, server'[c], <<>>, log[r])
  BY <1>1, <1>3, <1>7 DEF Synced, Wired, Serving
<1> QED
  BY <1>6, <1>7, <1>9, <1>10, AloneKeepsInv DEF StillSynced, Synced

LEMMA RunKeepsInv ==
    ASSUME StreamInv, RunStep
    PROVE  StreamInv'
<1>1. ContractInv /\ RunsTyped
  BY DEF StreamInv, ContractInv
<1>2. \A r \in Runs : LogStep(r)
  BY <1>1, EveryLogStep
<1>3. ASSUME NEW r \in Runs
      PROVE  /\ Grows(r) /\ status'[r] \in Statuses
             /\ \A n \in DOMAIN log'[r] : log'[r][n] \in Terminal =>
                   status'[r] \in Closed /\ log'[r][n] = ClosingEvent[status'[r]]
  BY <1>1, <1>2, LogsGrow
<1>4. DOMAIN status' = Runs /\ DOMAIN log' = Runs
      /\ status' = [r \in Runs |-> status'[r]] /\ log' = [r \in Runs |-> log'[r]]
  BY <1>1 DEF RunStep, RunsTyped, Accept, Claimed, CancelRequested, Report, Close
<1>5. ContractInv'
  BY <1>3, <1>4 DEF ContractInv, RunsTyped, TerminalTrue, Grows
<1>6. StreamTypeOK'
  BY DEF StreamInv, StreamTypeOK, RunStep, streamVars
<1>7. ASSUME NEW c \in Watchers PROVE WatcherSynced(c)'
  <2> DEFINE r == client[c].run
  <2>1. /\ server[c] \in ServerState /\ wire[c] \in Seq(Nat) /\ client[c] \in ClientState
        /\ r \in Runs /\ log[r] \in Seq(EventKinds) /\ status[r] \in Statuses
        /\ Synced(client[c], server[c], wire[c], status[r], log[r])
    BY WatcherTypes
  <2>2. Grows(r) /\ log'[r] \in Seq(EventKinds)
    BY <1>3, <2>1 DEF Grows
  <2>3. Synced(client[c], server[c], wire[c], status'[r], log'[r])
    <3>1. /\ status[r] = "absent" \/ status'[r] # "absent"
          /\ status[r] # "absent" => /\ Len(log[r]) <= Len(log'[r])
                                     /\ \A n \in 1 .. Len(log[r]) : log'[r][n] = log[r][n]
      BY <2>2 DEF Grows
    <3> DEFINE st2 == status'[r]
               log2 == log'[r]
    <3>2. /\ log2 \in Seq(EventKinds)
          /\ status[r] = "absent" \/ st2 # "absent"
          /\ status[r] # "absent" => /\ Len(log[r]) <= Len(log2)
                                     /\ \A n \in 1 .. Len(log[r]) : log2[n] = log[r][n]
      BY <2>2, <3>1
    <3> HIDE DEF st2, log2, r
    <3>3. Synced(client[c], server[c], wire[c], st2, log2)
      BY <2>1, <3>2, GrowthKeepsSynced
    <3> QED
      BY <3>3 DEF st2, log2
  <2> QED
    BY <2>3 DEF WatcherSynced, RunStep, streamVars
<1> QED
  BY <1>5, <1>6, <1>7 DEF StreamInv

LEMMA ReceiveKeepsInv ==
    ASSUME StreamInv, NEW c \in Watchers, Receive(c)
    PROVE  StreamInv'
<1> DEFINE r == client[c].run
           n == client[c].last + 1
           end == IsTerminal(r, n)
           cl == [client[c] EXCEPT !.last = n, !.shown = Append(client[c].shown, n),
                                   !.phase = IF end THEN "done" ELSE "open"]
           sv == IF end THEN ClosedServer ELSE server[c]
           w == IF end THEN <<>> ELSE Tail(wire[c])
<1>1. /\ server \in [Watchers -> ServerState] /\ wire \in [Watchers -> Seq(Nat)]
      /\ client \in [Watchers -> ClientState] /\ drops \in 0 .. MaxDrops
      /\ server[c] \in ServerState /\ client[c] \in ClientState /\ client[c].last \in Nat
      /\ wire[c] \in Seq(Nat) /\ Len(wire[c]) \in Nat
      /\ Len(log[r]) \in Nat /\ client[c].shown \in Seq(Nat)
      /\ Synced(client[c], server[c], wire[c], status[r], log[r])
  BY WatcherTypes DEF ClientState
<1>2. client[c].phase = "open" /\ wire[c] # <<>>
  BY DEF Receive
<1>3. Len(wire[c]) > 0 /\ Head(wire[c]) = n /\ n \in Nat
  BY <1>1, <1>2 DEF Synced, Wired
<1>4. /\ Tail(wire[c]) \in Seq(Nat) /\ Len(Tail(wire[c])) = Len(wire[c]) - 1
      /\ \A i \in 1 .. (Len(wire[c]) - 1) : Tail(wire[c])[i] = wire[c][i + 1]
  BY <1>1, <1>3
<1>5. /\ server' = [server EXCEPT ![c] = sv] /\ wire' = [wire EXCEPT ![c] = w]
      /\ client' = [client EXCEPT ![c] = cl] /\ UNCHANGED <<contractVars, drops>>
  <2>1. n > client[c].last /\ ~(n <= client[c].last)
    BY <1>1
  <2> HIDE DEF n
  <2> QED
    BY <1>1, <1>3, <2>1 DEF Receive, RunOfClient
<1>6. /\ cl \in ClientState /\ cl.run = r /\ cl.last = n
      /\ cl.shown = Append(client[c].shown, n)
      /\ cl.phase = IF end THEN "done" ELSE "open"
  <2>1. Append(client[c].shown, n) \in Seq(Nat)
    BY <1>1, <1>3
  <2> HIDE DEF n, end
  <2> QED
    BY <1>1, <1>3, <2>1 DEF ClientState
<1>7. sv \in ServerState /\ w \in Seq(Nat) /\ (sv.phase # "closed" => ~end /\ sv = server[c])
  BY <1>1, <1>4 DEF ClosedServer, ServerState
<1>8. w = IF end THEN <<>> ELSE Tail(wire[c])
  OBVIOUS
<1> HIDE DEF cl, sv, w
<1>9. server'[c] = sv /\ wire'[c] = w /\ client'[c] = cl
  BY <1>1, <1>5
<1>10. Alone(c)
  BY <1>1, <1>5, <1>6, <1>7 DEF Alone
<1>11. /\ Sent(client[c], wire[c]) = client[c].last + Len(wire[c])
       /\ Sent(cl, w) = IF end THEN n ELSE client[c].last + Len(wire[c])
  <2>1. Len(w) = IF end THEN 0 ELSE Len(wire[c]) - 1
    BY <1>4, <1>8
  <2>2. cl.last + Len(w) = IF end THEN n ELSE client[c].last + Len(wire[c])
    <3>1. CASE end
      BY <1>3, <1>6, <2>1, <3>1
    <3>2. CASE ~end
      <4>1. cl.last = client[c].last + 1 /\ Len(w) = Len(wire[c]) - 1
        BY <1>6, <2>1, <3>2
      <4> QED
        BY <1>1, <3>2, <4>1
    <3> QED
      BY <3>1, <3>2
  <2> QED
    BY <2>2 DEF Sent
<1>12. Wired(cl, w)
  <2>1. cl.shown = [k \in 1 .. cl.last |-> k]
    <3>1. client[c].shown = [k \in 1 .. client[c].last |-> k]
      BY <1>1 DEF Synced, Wired
    <3>2. Len(client[c].shown) = client[c].last
      BY <1>1, <3>1
    <3> QED
      BY <1>1, <1>3, <1>6, <3>1, <3>2
  <2>2. ASSUME NEW i \in 1 .. Len(w) PROVE w[i] = cl.last + i
    <3>1. ~end
      BY <1>8
    <3>2. i \in 1 .. (Len(wire[c]) - 1) /\ i + 1 \in 1 .. Len(wire[c]) /\ i \in Nat
      BY <1>1, <1>4, <1>8, <3>1
    <3>3. w[i] = wire[c][i + 1] /\ wire[c][i + 1] = client[c].last + (i + 1)
      BY <1>1, <1>4, <1>8, <3>1, <3>2 DEF Synced, Wired
    <3>4. cl.last = client[c].last + 1
      BY <1>6
    <3>5. i \in Nat /\ client[c].last \in Nat
      BY <1>1, <3>2
    <3>6. client[c].last + (i + 1) = (client[c].last + 1) + i
      BY <3>5
    <3> QED
      BY <3>3, <3>4, <3>6
  <2> QED
    BY <2>1, <2>2 DEF Wired
<1>13. Serving(cl, sv, w, log[r])
  <2> SUFFICES ASSUME sv.phase # "closed" PROVE Serving(cl, sv, w, log[r])
    BY DEF Serving
  <2>1. ~end /\ sv = server[c] /\ Sent(cl, w) = Sent(client[c], wire[c]) /\ cl.phase = "open"
    BY <1>6, <1>7, <1>11
  <2>2. Serving(client[c], server[c], wire[c], log[r])
    BY <1>1 DEF Synced
  <2> QED
    BY <2>1, <2>2 DEF Serving
<1>14. Told(cl, w, status[r], log[r])
  <2> DEFINE top == client[c].last + Len(wire[c])
  <2>1. /\ n \in 1 .. top /\ top \in Nat /\ top <= Len(log[r])
        /\ \A k \in 1 .. (top - 1) : log[r][k] \notin Terminal
        /\ \A k \in 1 .. client[c].last : log[r][k] \notin Terminal
    <3>1. Sent(client[c], wire[c]) <= Len(log[r])
          /\ \A k \in 1 .. (Sent(client[c], wire[c]) - 1) : log[r][k] \notin Terminal
      BY <1>1 DEF Synced, Told
    <3>2. \A k \in 1 .. client[c].last : log[r][k] \notin Terminal
      BY <1>1, <1>2 DEF Synced, Told
    <3>3. top = Sent(client[c], wire[c])
      BY <1>11
    <3>4. n \in 1 .. top /\ top \in Nat
      BY <1>1, <1>3
    <3> HIDE DEF top, n
    <3> QED
      BY <3>1, <3>2, <3>3, <3>4
  <2>2. status[r] # "absent"
    BY <1>1, <1>2 DEF Synced, Told
  <2>3. \A k \in 1 .. n : k \in 1 .. client[c].last \/ k = n
    BY <1>1
  <2>4. CASE end
    <3>1. cl.phase = "done" /\ w = <<>> /\ Sent(cl, w) = n /\ log[r][n] \in Terminal
      BY <1>6, <1>8, <1>11, <2>4 DEF IsTerminal
    <3>2. n <= Len(log[r]) /\ \A k \in 1 .. (n - 1) : log[r][k] \notin Terminal
      BY <1>1, <2>1, SMTT(20)
    <3>3. n > 0
      BY <1>1
    <3> HIDE DEF n, end, top
    <3> QED
      BY <1>6, <2>2, <3>1, <3>2, <3>3 DEF Told
  <2>5. CASE ~end
    <3>1. cl.phase = "open" /\ Sent(cl, w) = top /\ log[r][n] \notin Terminal
      BY <1>6, <1>11, <2>5 DEF IsTerminal
    <3>2. \A k \in 1 .. n : log[r][k] \notin Terminal
      BY <2>1, <2>3, <3>1
    <3> HIDE DEF n, end, top
    <3> QED
      BY <1>6, <2>1, <2>2, <3>1, <3>2 DEF Told
  <2> QED
    BY <2>4, <2>5
<1> QED
  BY <1>9, <1>10, <1>12, <1>13, <1>14, AloneKeepsInv DEF StillSynced, Synced

-----------------------------------------------------------------------------
(* The theorems.                                                            *)

LEMMA StreamInvInit == StreamInit => StreamInv
<1> SUFFICES ASSUME StreamInit PROVE StreamInv
  OBVIOUS
<1>1. StreamTypeOK
  <2>1. ClosedServer \in ServerState /\ <<>> \in Seq(Nat)
    BY DEF ClosedServer, ServerState
  <2>2. ASSUME NEW r \in Runs
        PROVE  [phase |-> "connecting", run |-> r, last |-> 0, shown |-> <<>>] \in ClientState
    BY <2>1 DEF ClientState
  <2>3. client \in [Watchers -> ClientState]
    BY <2>2 DEF StreamInit
  <2>4. drops \in 0 .. MaxDrops
    BY StreamAssumption DEF StreamInit
  <2> QED
    BY <2>1, <2>3, <2>4 DEF StreamInit, StreamTypeOK, ServerState, ClientState
<1>2. ContractInv
  BY DEF StreamInit, ContractInit, ContractInv, RunsTyped, TerminalTrue, Statuses
<1>3. ASSUME NEW c \in Watchers PROVE WatcherSynced(c)
  <2>1. /\ client[c].phase = "connecting" /\ client[c].run \in Runs /\ client[c].last = 0
        /\ client[c].shown = <<>> /\ wire[c] = <<>> /\ server[c].phase = "closed"
        /\ log[client[c].run] = <<>>
    BY DEF StreamInit, ContractInit, ClosedServer
  <2>2. Sent(client[c], wire[c]) = 0
    BY <2>1 DEF Sent
  <2>3. client[c].shown = [n \in 1 .. client[c].last |-> n]
    BY <2>1
  <2> QED
    BY <2>1, <2>2, <2>3 DEF WatcherSynced, Synced, Wired, Serving, Told
<1> QED
  BY <1>1, <1>2, <1>3 DEF StreamInv

LEMMA StreamInvNext == StreamInv /\ [StreamNext]_allVars => StreamInv'
<1> SUFFICES ASSUME StreamInv, [StreamNext]_allVars PROVE StreamInv'
  OBVIOUS
<1>1. CASE RunStep
  BY <1>1, RunKeepsInv
<1>2. ASSUME NEW c \in Watchers, ServerStep(c) \/ ClientStep(c) \/ Drop(c)
      PROVE  StreamInv'
  BY <1>2, ListKeepsInv, ReadKeepsInv, YieldKeepsInv, ConnectKeepsInv,
     ReceiveKeepsInv, EndKeepsInv DEF ServerStep, ClientStep
<1>3. CASE UNCHANGED allVars
  BY <1>3 DEF allVars, contractVars, streamVars, StreamInv, StreamTypeOK, ContractInv,
     RunsTyped, TerminalTrue, WatcherSynced
<1> QED
  BY <1>1, <1>2, <1>3 DEF StreamNext

LEMMA StreamInvAlways == StreamSpec => []StreamInv
  BY StreamInvInit, StreamInvNext, PTL DEF StreamSpec

\* Every state of the endpoint, the connection and the browser is well formed.
THEOREM TypeCorrect == StreamSpec => []StreamTypeOK
<1>1. StreamInv => StreamTypeOK
  BY DEF StreamInv
<1> QED
  BY <1>1, StreamInvAlways, PTL

\* Reconnecting with the cursor of the last event neither loses nor repeats
\* an event, for any batch limit and any number of lost connections.
THEOREM NothingIsSkipped == StreamSpec => []NothingSkipped
<1>1. StreamInv => NothingSkipped
  BY DEF StreamInv, WatcherSynced, Synced, Wired, NothingSkipped
<1> QED
  BY <1>1, StreamInvAlways, PTL

\* A browser that has stopped watching knows how the run ended: the terminal
\* event it has shown last is the only one it has shown, and it is true.
THEOREM OutcomeIsKnown == StreamSpec => []DoneKnowsOutcome
<1>1. ASSUME StreamInv, NEW c \in Watchers, client[c].phase = "done"
      PROVE  LET r == RunOfClient(c)
             IN  /\ status[r] \in Closed
                 /\ log[r][client[c].last] = ClosingEvent[status[r]]
                 /\ \A n \in 1 .. (client[c].last - 1) : ~IsTerminal(r, n)
  <2> DEFINE r == client[c].run
  <2>1. /\ client[c].last \in Nat /\ Len(log[r]) \in Nat /\ r \in Runs
        /\ DOMAIN log[r] = 1 .. Len(log[r])
        /\ Synced(client[c], server[c], wire[c], status[r], log[r])
    BY <1>1, WatcherTypes
  <2>2. wire[c] = <<>> /\ client[c].last > 0 /\ log[r][client[c].last] \in Terminal
    BY <1>1, <2>1 DEF Synced, Told
  <2>3. Sent(client[c], wire[c]) = client[c].last
    BY <2>1, <2>2 DEF Sent
  <2>4. /\ client[c].last \in DOMAIN log[r]
        /\ \A n \in 1 .. (client[c].last - 1) : log[r][n] \notin Terminal
    BY <2>1, <2>2, <2>3 DEF Synced, Told
  <2>5. status[r] \in Closed /\ log[r][client[c].last] = ClosingEvent[status[r]]
    BY <1>1, <2>1, <2>2, <2>4 DEF StreamInv, ContractInv, TerminalTrue
  <2> QED
    BY <2>4, <2>5 DEF RunOfClient, IsTerminal
<1>2. StreamInv => DoneKnowsOutcome
  BY <1>1 DEF DoneKnowsOutcome, RunOfClient
<1> QED
  BY <1>2, StreamInvAlways, PTL

=============================================================================
