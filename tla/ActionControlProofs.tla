------------------------- MODULE ActionControlProofs -------------------------
(* Theorems about ActionControl, for every value of its constants: any       *)
(* executions, reconciliations, crashes, browsers and lost connections.      *)
EXTENDS ActionControl, FiniteSetTheorems, TLAPS

-----------------------------------------------------------------------------
(* The service: a success is final.                                          *)

ServiceInv ==
    /\ status \in [Proposals -> Statuses]
    /\ outcome \in [Proposals -> Outcomes]
    /\ \A p \in Proposals : outcome[p] = "succeeded" => status[p] = "succeeded"

\* What succeeded remains so.
Lasts == \A p \in Proposals : outcome[p] = "succeeded" => outcome'[p] = "succeeded"

ServiceStep == ServiceInv' /\ Lasts

LEMMA ServiceSame ==
    ASSUME ServiceInv, UNCHANGED <<status, outcome>>
    PROVE  ServiceStep
  BY DEF ServiceStep, ServiceInv, Lasts

\* Only the status moves, and not from a success.
LEMMA StatusMoves ==
    ASSUME ServiceInv, NEW p \in Proposals, NEW from, NEW to \in Statuses,
           "succeeded" \notin from, Contract!Move(p, from, to), UNCHANGED outcome
    PROVE  ServiceStep
  BY DEF ServiceStep, ServiceInv, Lasts, Contract!Move

\* Status and outcome move together.
LEMMA BothMove ==
    ASSUME ServiceInv, NEW p \in Proposals, NEW from, NEW to \in Statuses,
           NEW result \in Outcomes,
           "succeeded" \notin from, Contract!Move(p, from, to),
           outcome' = [outcome EXCEPT ![p] = result],
           result = "succeeded" => to = "succeeded"
    PROVE  ServiceStep
  BY DEF ServiceStep, ServiceInv, Lasts, Contract!Move

LEMMA ServiceMoves ==
    ASSUME ServiceInv, NEW p \in Proposals,
           \/ Contract!Propose(p) \/ Contract!Decide(p) \/ Contract!Withdraw(p)
           \/ Contract!Outdate(p) \/ Contract!Execute(p) \/ Contract!Resolve(p)
    PROVE  ServiceStep
<1>1. CASE Contract!Propose(p)
  BY <1>1, StatusMoves DEF Contract!Propose, Statuses
<1>2. CASE Contract!Decide(p)
  BY <1>2, StatusMoves DEF Contract!Decide, Statuses
<1>3. CASE Contract!Withdraw(p)
  BY <1>3, StatusMoves DEF Contract!Withdraw, Statuses
<1>4. CASE Contract!Outdate(p)
  BY <1>4, StatusMoves DEF Contract!Outdate, Statuses
<1>5. CASE Contract!Execute(p)
  BY <1>5, BothMove DEF Contract!Execute, Statuses, Outcomes
<1>6. CASE Contract!Resolve(p)
  BY <1>6, BothMove DEF Contract!Resolve, Statuses, Outcomes
<1> QED
  BY <1>1, <1>2, <1>3, <1>4, <1>5, <1>6

-----------------------------------------------------------------------------
(* The log of a proposal is 1, 2, ... up to its size.                        *)

Has(rows, by, kind) == \E e \in rows : e.by = by /\ e.kind = kind

\* What must have been told before, of an execution.
Before(kind) == IF kind = "started" THEN "accepted" ELSE "started"

LogOK(rows, result) ==
    /\ rows \in SUBSET Event /\ IsFiniteSet(rows)
    /\ \A e \in rows : e.n \in 1 .. Cardinality(rows)
    /\ \A k \in 1 .. Cardinality(rows) : \E e \in rows : e.n = k
    /\ \A e, f \in rows : e.n = f.n => e = f
    /\ \A e, f \in rows : e.by = f.by /\ e.kind = f.kind => e = f
    /\ \A e \in rows : e.by \in Keys /\ e.kind # "accepted" =>
          \E f \in rows : f.by = e.by /\ f.n < e.n /\ f.kind = Before(e.kind)
    /\ (\E e \in rows : e.kind = "succeeded") => result = "succeeded"

LogsInv == \A p \in Proposals : LogOK(log[p], outcome[p])

\* A log grows by an event with the next number.
Grows(rows, new) ==
    \/ new = rows
    \/ \E e \in Event :
          new = rows \cup {e} /\ e.n > 0 /\ (\A f \in rows : f.n < e.n)

\* A number that has been seen to be next and is free is the next one.
LEMMA FreeIsNext ==
    ASSUME NEW rows, NEW result, LogOK(rows, result), NEW n \in Nat,
           n = 1 \/ (\E e \in rows : n = e.n + 1),
           \A f \in rows : f.n # n
    PROVE  n = Cardinality(rows) + 1
<1>1. Cardinality(rows) \in Nat
  BY FS_CardinalityType DEF LogOK
<1>2. n \in 1 .. (Cardinality(rows) + 1)
  BY <1>1 DEF LogOK
<1>3. n \notin 1 .. Cardinality(rows)
  BY DEF LogOK
<1> QED
  BY <1>1, <1>2, <1>3

LEMMA AppendOK ==
    ASSUME NEW rows, NEW result, LogOK(rows, result), NEW e \in Event,
           e.n = Cardinality(rows) + 1, ~Has(rows, e.by, e.kind),
           e.by \in Keys /\ e.kind # "accepted" => Has(rows, e.by, Before(e.kind)),
           e.kind = "succeeded" => result = "succeeded"
    PROVE  LogOK(rows \cup {e}, result) /\ Grows(rows, rows \cup {e})
<1> DEFINE new == rows \cup {e}
           m == Cardinality(rows)
<1>1. IsFiniteSet(rows) /\ m \in Nat /\ (\A f \in rows : f.n \in 1 .. m)
  BY FS_CardinalityType DEF LogOK
<1>2. e \notin rows /\ (\A f \in rows : f.n < e.n /\ f.n \in Nat)
  BY <1>1
<1>3. IsFiniteSet(new) /\ Cardinality(new) = m + 1
  BY <1>1, <1>2, FS_AddElement
<1>4. \A f \in new : f.n \in 1 .. (m + 1)
  BY <1>1
<1>5. \A k \in 1 .. (m + 1) : \E f \in new : f.n = k
  <2> SUFFICES ASSUME NEW k \in 1 .. (m + 1) PROVE \E f \in new : f.n = k
    OBVIOUS
  <2>1. CASE k = m + 1
    BY <2>1
  <2>2. CASE k # m + 1
    <3>1. k \in 1 .. m
      BY <1>1, <2>2
    <3> QED
      BY <3>1 DEF LogOK
  <2> QED
    BY <2>1, <2>2
<1>6. \A f, g \in new : f.n = g.n => f = g
  BY <1>2 DEF LogOK
<1>7. \A f, g \in new : f.by = g.by /\ f.kind = g.kind => f = g
  BY DEF LogOK, Has
<1>8. \A f \in new : f.by \in Keys /\ f.kind # "accepted" =>
          \E g \in new : g.by = f.by /\ g.n < f.n /\ g.kind = Before(f.kind)
  BY <1>2 DEF LogOK, Has
<1>9. (\E f \in new : f.kind = "succeeded") => result = "succeeded"
  BY DEF LogOK
<1>10. Grows(rows, new)
  BY <1>1, <1>2 DEF Grows
<1>11. new \in SUBSET Event
  BY DEF LogOK
<1> QED
  BY <1>3, <1>4, <1>5, <1>6, <1>7, <1>8, <1>9, <1>10, <1>11 DEF LogOK

-----------------------------------------------------------------------------
(* The requests: what each may rely on where it is.                          *)

\* What a request is about to tell is in its turn, and true.
Telling(r, q, rows, result) ==
    \/ /\ q.then = "serve" /\ r \in Executors
       /\ q.todo = <<"accepted", "started">>
    \/ /\ q.then = "serve" /\ r \in Executors
       /\ q.todo = <<"started">> /\ Has(rows, q.by, "accepted")
    \/ /\ q.then = "serve" /\ r \in Reconcilers
       /\ q.todo = <<"requested">>
    \/ /\ q.then = "done"
       /\ \E kind \in Terminal :
             /\ q.todo = <<kind>>
             /\ r \in Executors => Has(rows, q.by, "started")
             /\ kind = "succeeded" => result = "succeeded"

Duty(r, q, lg, oc) ==
    /\ q.at \notin {"idle", "done", "cut"} =>
          /\ q.on \in Proposals
          /\ r \in Executors => q.by \in Keys
          /\ r \in Reconcilers => q.by \in Nat
    /\ q.at \in {"check", "apply"} => r \in Executors
    /\ q.at \in {"serve", "apply"} /\ r \in Executors => Has(lg[q.on], q.by, "started")
    /\ q.at \in {"look", "insert"} => Telling(r, q, lg[q.on], oc[q.on])
    /\ q.at = "insert" => q.n = 1 \/ \E e \in lg[q.on] : q.n = e.n + 1

RequestsInv ==
    /\ requests \in [Requests -> Request]
    /\ \A r \in Requests : Duty(r, requests[r], log, outcome)

\* The step of one request, which can do its duty in the next state.
Turn(r) ==
    /\ requests' \in [Requests -> Request]
    /\ \A s \in Requests \ {r} : requests'[s] = requests[s]
    /\ Duty(r, requests'[r], log', outcome')

LEMMA HasStays ==
    ASSUME NEW rows, NEW new, Grows(rows, new), NEW by, NEW kind, Has(rows, by, kind)
    PROVE  Has(new, by, kind)
  BY DEF Grows, Has

LEMMA DutyStays ==
    ASSUME NEW r, NEW q, NEW lg, NEW new, NEW oc, NEW ended,
           \A p \in Proposals : Grows(lg[p], new[p]),
           \A p \in Proposals : oc[p] = "succeeded" => ended[p] = "succeeded",
           Duty(r, q, lg, oc)
    PROVE  Duty(r, q, new, ended)
<1>1. CASE q.at \in {"idle", "done", "cut"}
  BY <1>1 DEF Duty
<1>2. CASE q.at \notin {"idle", "done", "cut"}
  <2>1. q.on \in Proposals
    BY <1>2 DEF Duty
  <2>2. Grows(lg[q.on], new[q.on]) /\ (oc[q.on] = "succeeded" => ended[q.on] = "succeeded")
    BY <2>1
  <2>3. \A kind : Has(lg[q.on], q.by, kind) => Has(new[q.on], q.by, kind)
    BY <2>2, HasStays
  <2>4. lg[q.on] \subseteq new[q.on]
    BY <2>2 DEF Grows
  <2>5. q.at \in {"look", "insert"} => Telling(r, q, new[q.on], ended[q.on])
    BY <2>2, <2>3 DEF Duty, Telling
  <2>6. q.at = "insert" => q.n = 1 \/ \E e \in new[q.on] : q.n = e.n + 1
    BY <2>4 DEF Duty
  <2> QED
    BY <2>1, <2>3, <2>5, <2>6 DEF Duty
<1> QED
  BY <1>1, <1>2

\* One request has its turn, and the others can still do their duty.
LEMMA TurnKeeps ==
    ASSUME RequestsInv, NEW r \in Requests, Turn(r), Lasts,
           \A p \in Proposals : Grows(log[p], log'[p])
    PROVE  RequestsInv'
<1> SUFFICES ASSUME NEW s \in Requests PROVE Duty(s, requests'[s], log', outcome')
  BY DEF RequestsInv, Turn
<1>1. CASE s = r
  BY <1>1 DEF Turn
<1>2. CASE s # r
  <2>1. requests'[s] = requests[s] /\ Duty(s, requests[s], log, outcome)
    BY <1>2 DEF Turn, RequestsInv
  <2>2. Duty(s, requests[s], log', outcome')
    BY <2>1, DutyStays DEF Lasts
  <2> QED
    BY <2>1, <2>2
<1> QED
  BY <1>1, <1>2

LEMMA RequestsSame ==
    ASSUME RequestsInv, UNCHANGED requests, Lasts,
           \A p \in Proposals : Grows(log[p], log'[p])
    PROVE  RequestsInv'
<1> SUFFICES ASSUME NEW s \in Requests PROVE Duty(s, requests[s], log', outcome')
  BY DEF RequestsInv
<1>1. Duty(s, requests[s], log, outcome)
  BY DEF RequestsInv
<1> QED
  BY <1>1, DutyStays DEF Lasts

LEMMA NoRequestTyped == NoRequest \in Request
<1>1. <<>> \in Seq(Kinds)
  OBVIOUS
<1> QED
  BY <1>1 DEF NoRequest, Request, Phases

LEMMA BecomeTurn ==
    ASSUME RequestsInv, NEW r \in Requests, NEW new \in Request, Become(r, new),
           Duty(r, new, log', outcome')
    PROVE  Turn(r)
<1>1. CASE new.at \in {"done", "cut"}
  <2> DEFINE ended == [NoRequest EXCEPT !.at = new.at, !.on = new.on]
  <2>1. ended \in Request /\ ended.at = new.at
    BY NoRequestTyped DEF Request
  <2>2. requests' = [requests EXCEPT ![r] = ended]
    BY <1>1 DEF Become
  <2>3. Duty(r, ended, log', outcome')
    BY <1>1, <2>1 DEF Duty
  <2> HIDE DEF ended
  <2> QED
    BY <2>1, <2>2, <2>3 DEF RequestsInv, Turn
<1>2. CASE new.at \notin {"done", "cut"}
  <2>1. requests' = [requests EXCEPT ![r] = new]
    BY <1>2 DEF Become
  <2> QED
    BY <2>1 DEF RequestsInv, Turn
<1> QED
  BY <1>1, <1>2

\* A request that ends has no duty.
LEMMA EndTurn ==
    ASSUME RequestsInv, NEW r \in Requests, NEW phase \in {"done", "cut"},
           Goto(r, phase)
    PROVE  Turn(r)
<1> DEFINE new == [requests[r] EXCEPT !.at = phase]
<1>1. new \in Request /\ new.at = phase
  BY DEF RequestsInv, Request, Phases
<1>2. Become(r, new)
  BY DEF Goto
<1>3. Duty(r, new, log', outcome')
  BY <1>1 DEF Duty
<1> HIDE DEF new
<1> QED
  BY <1>1, <1>2, <1>3, BecomeTurn

\* A request in the middle of its work, of proposal p.
Working(r) == requests[r].at \notin {"idle", "done", "cut"}

LEMMA EmitTurn ==
    ASSUME RequestsInv, NEW r \in Requests, Working(r), NEW kinds \in Seq(Kinds),
           NEW then \in Phases, Emit(r, kinds, then),
           NEW q, q = [requests[r] EXCEPT !.todo = kinds, !.then = then, !.at = "look"],
           Telling(r, q, log'[On(r)], outcome'[On(r)])
    PROVE  Turn(r)
<1>1. requests[r] \in Request /\ Duty(r, requests[r], log, outcome)
  BY DEF RequestsInv
<1>2. q \in Request
  BY <1>1 DEF Request, Phases
<1>3. q.at = "look" /\ q.on = requests[r].on /\ q.by = requests[r].by
  BY <1>1 DEF Request
<1>4. Become(r, q)
  BY DEF Emit
<1>5. Duty(r, q, log', outcome')
  BY <1>1, <1>3 DEF Duty, Working, On
<1> QED
  BY <1>2, <1>4, <1>5, BecomeTurn

\* The last event of a request, which it is entitled to tell.
LEMMA LastWord ==
    ASSUME RequestsInv, NEW r \in Requests, Working(r), NEW kind \in Terminal,
           Emit(r, <<kind>>, "done"),
           r \in Executors => Has(log'[On(r)], requests[r].by, "started"),
           kind = "succeeded" => outcome'[On(r)] = "succeeded"
    PROVE  Turn(r)
<1> DEFINE q == [requests[r] EXCEPT !.todo = <<kind>>, !.then = "done", !.at = "look"]
<1>1. requests[r] \in Request
  BY DEF RequestsInv
<1>2. q.todo = <<kind>> /\ q.then = "done" /\ q.by = requests[r].by
  BY <1>1 DEF Request
<1>3. <<kind>> \in Seq(Kinds) /\ "done" \in Phases
  BY DEF Kinds, Phases
<1>4. Telling(r, q, log'[On(r)], outcome'[On(r)])
  BY <1>2 DEF Telling
<1> HIDE DEF q
<1>5. q = [requests[r] EXCEPT !.todo = <<kind>>, !.then = "done", !.at = "look"]
  BY DEF q
<1> QED
  BY <1>3, <1>4, <1>5, EmitTurn

\* An event that is in the log has been told, by this request or another one.
LEMMA AdvanceTurn ==
    ASSUME RequestsInv, NEW r \in Requests, requests[r].at \in {"look", "insert"},
           Advance(r), Lasts, \A p \in Proposals : Grows(log[p], log'[p]),
           Has(log'[On(r)], requests[r].by, Head(requests[r].todo))
    PROVE  Turn(r)
<1> DEFINE q == requests[r]
           rest == Tail(q.todo)
           at == IF rest = <<>> THEN q.then ELSE "look"
           new == [q EXCEPT !.todo = rest, !.n = 0, !.tries = 0, !.at = at]
<1>1. q \in Request /\ Duty(r, q, log, outcome)
  BY DEF RequestsInv
<1>2. Telling(r, q, log'[q.on], outcome'[q.on])
  <2>1. Duty(r, q, log', outcome')
    BY <1>1, DutyStays DEF Lasts
  <2> QED
    BY <2>1 DEF Duty
<1>3. /\ q.on \in Proposals
      /\ r \in Executors => q.by \in Keys
      /\ r \in Reconcilers => q.by \in Nat
  BY <1>1 DEF Duty
<1>4. q.todo # <<>>
  BY <1>2 DEF Telling
<1>5. rest \in Seq(Kinds)
  BY <1>1, <1>4 DEF Request
<1>6. /\ new \in Request
      /\ new.todo = rest /\ new.on = q.on /\ new.by = q.by /\ new.then = q.then
      /\ new.at = IF rest = <<>> THEN q.then ELSE "look"
  <2>1. at \in Phases /\ 0 \in Nat
    BY <1>1 DEF Request, Phases
  <2> HIDE DEF at, rest
  <2>2. /\ new \in Request
        /\ new.todo = rest /\ new.on = q.on /\ new.by = q.by /\ new.then = q.then
        /\ new.at = at
    BY <1>1, <1>5, <2>1 DEF Request
  <2> QED
    BY <2>2 DEF at, rest
<1>7. Become(r, new)
  BY DEF Advance
<1> HIDE DEF new
<1>8. Duty(r, new, log', outcome')
  <2>1. CASE q.then = "serve" /\ r \in Executors /\ q.todo = <<"accepted", "started">>
    <3>1. rest = <<"started">> /\ Head(q.todo) = "accepted"
      BY <2>1
    <3>2. new.at = "look"
      <4>1. <<"started">> # <<>>
        OBVIOUS
      <4> HIDE DEF rest
      <4> QED
        BY <4>1, <3>1, <1>6
    <3>3. Telling(r, new, log'[new.on], outcome'[new.on])
      BY <2>1, <3>1, <1>6 DEF Telling, On
    <3> QED
      BY <1>3, <1>6, <3>2, <3>3 DEF Duty
  <2>2. CASE /\ q.then = "serve" /\ r \in Executors
             /\ q.todo = <<"started">> /\ Has(log'[q.on], q.by, "accepted")
    <3>1. rest = <<>> /\ Head(q.todo) = "started"
      BY <2>2
    <3>2. new.at = "serve"
      BY <2>2, <3>1, <1>6
    <3> QED
      BY <1>3, <1>6, <3>1, <3>2 DEF Duty, On
  <2>3. CASE q.then = "serve" /\ r \in Reconcilers /\ q.todo = <<"requested">>
    <3>1. rest = <<>>
      BY <2>3
    <3>2. new.at = "serve" /\ r \notin Executors
      BY <2>3, <3>1, <1>6, ArgumentsAssumption
    <3> QED
      BY <1>3, <1>6, <3>2 DEF Duty
  <2>4. CASE q.then = "done" /\ (\E kind \in Terminal : q.todo = <<kind>>)
    <3>1. rest = <<>>
      BY <2>4
    <3>2. new.at = "done"
      BY <2>4, <3>1, <1>6
    <3> QED
      BY <3>2 DEF Duty
  <2> QED
    BY <1>2, <2>1, <2>2, <2>3, <2>4 DEF Telling
<1> QED
  BY <1>6, <1>7, <1>8, BecomeTurn

-----------------------------------------------------------------------------
(* The steps of requests that leave the service and the log alone.           *)

LEMMA GrowsSame == \A rows : Grows(rows, rows)
  BY DEF Grows

\* Neither the service nor the log moves.
Quiet == UNCHANGED <<status, outcome, log>>

LEMMA QuietKeeps ==
    ASSUME Quiet
    PROVE  Lasts /\ (\A p \in Proposals : Grows(log[p], log'[p]))
  BY GrowsSame DEF Quiet, Lasts

LEMMA NextNumbers ==
    ASSUME NEW p \in Proposals, LogsInv, NEW n \in NextNumber(p)
    PROVE  n \in Nat /\ (n = 1 \/ \E e \in log[p] : n = e.n + 1)
  BY DEF NextNumber, LogsInv, LogOK, Event

LEMMA LookTurn ==
    ASSUME RequestsInv, LogsInv, NEW r \in Requests, Look(r)
    PROVE  Quiet /\ Turn(r)
<1> DEFINE q == requests[r]
           p == On(r)
<1>1. q \in Request /\ Duty(r, q, log, outcome) /\ q.at = "look"
  BY DEF RequestsInv, Look, At
<1>2. Quiet /\ p \in Proposals
  BY <1>1 DEF Look, Quiet, service, Duty, On
<1>3. CASE Recorded(p, q.by, Head(q.todo))
  <2>1. Has(log'[p], q.by, Head(q.todo))
    BY <1>2, <1>3 DEF Quiet, Recorded, Has
  <2>2. Advance(r)
    BY <1>3 DEF Look
  <2> QED
    BY <1>1, <1>2, <2>1, <2>2, AdvanceTurn, QuietKeeps
<1>4. CASE ~Recorded(p, q.by, Head(q.todo)) /\ q.tries >= MaxTries
  <2>1. Goto(r, "cut")
    BY <1>4 DEF Look
  <2> QED
    BY <1>2, <2>1, EndTurn
<1>5. CASE ~Recorded(p, q.by, Head(q.todo)) /\ ~(q.tries >= MaxTries)
  <2>1. PICK n \in NextNumber(p) : Become(r, [q EXCEPT !.n = n, !.at = "insert"])
    BY <1>5 DEF Look
  <2>2. n \in Nat /\ (n = 1 \/ \E e \in log[p] : n = e.n + 1)
    BY <1>2, NextNumbers
  <2> DEFINE new == [q EXCEPT !.n = n, !.at = "insert"]
  <2>3. /\ new \in Request
        /\ new.at = "insert" /\ new.n = n
        /\ new.on = q.on /\ new.by = q.by /\ new.todo = q.todo /\ new.then = q.then
    BY <1>1, <2>2 DEF Request, Phases
  <2> HIDE DEF new
  <2>4. Telling(r, new, log[p], outcome[p])
    BY <1>1, <2>3 DEF Duty, Telling, On
  <2>5. Duty(r, new, log', outcome')
    BY <1>1, <1>2, <2>2, <2>3, <2>4 DEF Duty, Quiet, On
  <2> QED
    BY <1>2, <2>1, <2>3, <2>5, BecomeTurn DEF new
<1> QED
  BY <1>3, <1>4, <1>5

LEMMA ExecuteTurn ==
    ASSUME RequestsInv, NEW x \in Executors, NEW p \in Proposals, Execute(x, p)
    PROVE  Quiet /\ Turn(x)
<1>1. Quiet /\ x \in Requests
  BY DEF Execute, Quiet, service, Requests
<1>2. PICK key \in KeysOf[x] :
          Become(x, [requests[x] EXCEPT !.on = p, !.by = key, !.at = "check"])
  BY DEF Execute
<1> DEFINE new == [requests[x] EXCEPT !.on = p, !.by = key, !.at = "check"]
<1>3. key \in Keys
  BY ArgumentsAssumption
<1>4. new \in Request /\ new.at = "check" /\ new.on = p /\ new.by = key
  BY <1>1, <1>3 DEF RequestsInv, Request, Phases
<1> HIDE DEF new
<1>5. Duty(x, new, log', outcome')
  BY <1>3, <1>4, ArgumentsAssumption DEF Duty
<1> QED
  BY <1>1, <1>2, <1>4, <1>5, BecomeTurn DEF new

LEMMA CheckKeyTurn ==
    ASSUME RequestsInv, NEW x \in Requests, CheckKey(x)
    PROVE  Quiet /\ Turn(x)
<1>1. Quiet
  BY DEF CheckKey, Quiet, service
<1>2. Working(x) /\ x \in Executors
  BY DEF RequestsInv, Duty, CheckKey, At, Working
<1>3. CASE Emit(x, Opening, "serve")
  <2> DEFINE q == [requests[x] EXCEPT !.todo = Opening, !.then = "serve", !.at = "look"]
  <2>1. q.todo = Opening /\ q.then = "serve"
    BY DEF RequestsInv, Request
  <2>2. Opening \in Seq(Kinds) /\ "serve" \in Phases
    BY DEF Opening, Kinds, Phases
  <2>3. Telling(x, q, log'[On(x)], outcome'[On(x)])
    BY <1>2, <2>1 DEF Telling, Opening
  <2> HIDE DEF q
  <2>4. q = [requests[x] EXCEPT !.todo = Opening, !.then = "serve", !.at = "look"]
    BY DEF q
  <2> QED
    BY <1>1, <1>2, <1>3, <2>2, <2>3, <2>4, EmitTurn
<1>4. CASE Goto(x, "done")
  BY <1>1, <1>4, EndTurn
<1> QED
  BY <1>3, <1>4 DEF CheckKey

LEMMA AnswerTurn ==
    ASSUME RequestsInv, NEW x \in Requests, Answer(x)
    PROVE  Quiet /\ Turn(x)
<1>1. Quiet /\ x \in Executors
  BY DEF Answer, Quiet, service
<1>2. PICK kinds \in Answers(x) : Emit(x, kinds, "done")
  BY DEF Answer
<1>3. Working(x) /\ Has(log'[On(x)], requests[x].by, "started")
  BY <1>1 DEF RequestsInv, Duty, Answer, At, Working, On, Quiet
<1>4. \E kind \in Terminal :
          kinds = <<kind>> /\ (kind = "succeeded" => outcome[On(x)] = "succeeded")
  <2>1. CASE kinds \in {<<"failed">>, <<"stale">>}
    BY <2>1 DEF Terminal
  <2>2. CASE kinds = <<outcome[On(x)]>> /\ outcome[On(x)] \in {"succeeded", "failed"}
    BY <2>2 DEF Terminal
  <2>3. CASE /\ kinds \in {<<"reconciliation-required">>, <<outcome[On(x)]>>}
             /\ outcome[On(x)] = "reconciliation_required"
    BY <2>3 DEF Terminal
  <2>4. kinds \in {<<"failed">>, <<"stale">>} \/ (\/ kinds = <<outcome[On(x)]>> /\ outcome[On(x)] \in {"succeeded", "failed"}
             \/ /\ kinds \in {<<"reconciliation-required">>, <<outcome[On(x)]>>}
                /\ outcome[On(x)] = "reconciliation_required")
    BY DEF Answers
  <2> QED
    BY <2>1, <2>2, <2>3, <2>4
<1>5. PICK kind \in Terminal :
          kinds = <<kind>> /\ (kind = "succeeded" => outcome[On(x)] = "succeeded")
  BY <1>4
<1>6. kind = "succeeded" => outcome'[On(x)] = "succeeded"
  BY <1>1, <1>5 DEF Quiet
<1> QED
  BY <1>1, <1>2, <1>3, <1>5, <1>6, LastWord

LEMMA ReconcileTurn ==
    ASSUME RequestsInv, attempts \in [Proposals -> Nat],
           NEW r \in Reconcilers, NEW p \in Proposals, Reconcile(r, p)
    PROVE  Quiet /\ Turn(r)
<1>1. Quiet /\ r \in Requests /\ r \notin Executors
  BY ArgumentsAssumption DEF Reconcile, Quiet, service, Requests
<1> DEFINE new == [requests[r] EXCEPT !.on = p, !.by = attempts[p] + 1,
                       !.todo = <<"requested">>, !.then = "serve", !.at = "look"]
<1>2. <<"requested">> \in Seq(Kinds)
  BY DEF Kinds
<1>3. /\ new \in Request
      /\ new.at = "look" /\ new.on = p /\ new.by = attempts[p] + 1
      /\ new.todo = <<"requested">> /\ new.then = "serve"
  <2>1. requests[r] \in Request
    BY <1>1 DEF RequestsInv
  <2>2. attempts[p] + 1 \in Keys \cup Nat
    OBVIOUS
  <2>3. {"look", "serve"} \subseteq Phases
    BY DEF Phases
  <2> QED
    BY <1>2, <2>1, <2>2, <2>3 DEF Request
<1>4. Become(r, new)
  BY DEF Reconcile
<1> HIDE DEF new
<1>5. Duty(r, new, log', outcome')
  BY <1>1, <1>3 DEF Duty, Telling
<1> QED
  BY <1>1, <1>3, <1>4, <1>5, BecomeTurn

LEMMA LeaveUnresolvedTurn ==
    ASSUME RequestsInv, NEW r \in Requests, LeaveUnresolved(r)
    PROVE  Quiet /\ Turn(r)
<1>1. Quiet /\ r \notin Executors
  BY ArgumentsAssumption DEF LeaveUnresolved, Quiet
<1>2. PICK kinds \in Findings(On(r)) : Emit(r, kinds, "done")
  BY DEF LeaveUnresolved
<1>3. Working(r)
  BY DEF LeaveUnresolved, At, Working
<1>4. PICK kind \in Terminal :
          kinds = <<kind>> /\ (kind = "succeeded" => outcome[On(r)] = "succeeded")
  BY DEF Findings, Terminal
<1>5. kind = "succeeded" => outcome'[On(r)] = "succeeded"
  BY <1>1, <1>4 DEF Quiet
<1> QED
  BY <1>1, <1>2, <1>3, <1>4, <1>5, LastWord

LEMMA CrashTurn ==
    ASSUME RequestsInv, NEW r \in Requests, Crash(r)
    PROVE  Quiet /\ Turn(r)
  BY EndTurn DEF Crash, Quiet, service

-----------------------------------------------------------------------------
(* The steps that move the service, and the one that writes the log.         *)

LEMMA LogSame ==
    ASSUME UNCHANGED log
    PROVE  \A p \in Proposals : Grows(log[p], log'[p])
  BY GrowsSame

\* A log stays in order when an outcome moves, because a success lasts.
LEMMA LogsStay ==
    ASSUME LogsInv, UNCHANGED log, Lasts
    PROVE  LogsInv'
  BY DEF LogsInv, LogOK, Lasts

LEMMA StartTurn ==
    ASSUME RequestsInv, ServiceInv, NEW x \in Requests, Start(x)
    PROVE  UNCHANGED log /\ ServiceStep /\ Turn(x) /\ requests[x].by \in Keys
<1>1. requests[x] \in Request /\ Duty(x, requests[x], log, outcome)
  BY DEF RequestsInv
<1>2. /\ x \in Executors /\ requests[x].at = "serve" /\ UNCHANGED log
      /\ On(x) \in Proposals /\ Contract!Execute(On(x))
  BY <1>1 DEF Start, At, On, Duty
<1>3. ServiceStep
  BY <1>2, ServiceMoves
<1> DEFINE new == [requests[x] EXCEPT !.at = "apply"]
<1>4. /\ new \in Request /\ new.at = "apply"
      /\ new.on = requests[x].on /\ new.by = requests[x].by
  BY <1>1 DEF Request, Phases
<1>5. Become(x, new)
  BY DEF Start, Goto
<1> HIDE DEF new
<1>6. Duty(x, new, log', outcome')
  BY <1>1, <1>2, <1>4 DEF Duty
<1>7. Turn(x)
  BY <1>4, <1>5, <1>6, BecomeTurn
<1> QED
  BY <1>1, <1>2, <1>3, <1>7 DEF Duty

LEMMA OutdateTurn ==
    ASSUME RequestsInv, ServiceInv, NEW x \in Requests, Outdate(x)
    PROVE  UNCHANGED log /\ ServiceStep /\ Turn(x)
<1>1. Duty(x, requests[x], log, outcome)
  BY DEF RequestsInv
<1>2. /\ x \in Executors /\ Working(x) /\ UNCHANGED log
      /\ On(x) \in Proposals /\ Contract!Outdate(On(x))
  BY <1>1 DEF Outdate, At, On, Duty, Working
<1>3. ServiceStep
  BY <1>2, ServiceMoves
<1>4. Has(log'[On(x)], requests[x].by, "started")
  BY <1>1, <1>2 DEF Duty, Outdate, At, On
<1>5. Turn(x)
  BY <1>2, <1>4, LastWord DEF Outdate, Terminal
<1> QED
  BY <1>2, <1>3, <1>5

LEMMA ConcludeTurn ==
    ASSUME RequestsInv, ServiceInv, NEW x \in Requests, Conclude(x)
    PROVE  UNCHANGED log /\ ServiceStep /\ Turn(x)
<1>1. Duty(x, requests[x], log, outcome)
  BY DEF RequestsInv
<1>2. /\ x \in Executors /\ Working(x) /\ UNCHANGED log /\ On(x) \in Proposals
      /\ Has(log'[On(x)], requests[x].by, "started")
  BY <1>1 DEF Conclude, At, On, Duty, Working
<1>3. CASE /\ outcome[On(x)] = "executing"
           /\ Contract!Resolve(On(x))
           /\ \E result \in Outcomes \ {"none", "executing"} :
                  outcome'[On(x)] = result /\ Emit(x, Tell(result), "done")
  <2>1. ServiceStep
    BY <1>2, <1>3, ServiceMoves
  <2>2. PICK result \in Outcomes \ {"none", "executing"} :
            outcome'[On(x)] = result /\ Emit(x, Tell(result), "done")
    BY <1>3
  <2>3. result \in {"succeeded", "failed", "reconciliation_required"}
    BY DEF Outcomes
  <2>4. CASE result = "succeeded"
    <3>1. Emit(x, <<"succeeded">>, "done") /\ outcome'[On(x)] = "succeeded"
      BY <2>2, <2>4 DEF Tell
    <3> QED
      BY <1>2, <2>1, <3>1, LastWord DEF Terminal
  <2>5. CASE result = "reconciliation_required"
    <3>1. Emit(x, <<"reconciliation-required">>, "done")
      BY <2>2, <2>5 DEF Tell
    <3> QED
      BY <1>2, <2>1, <3>1, LastWord DEF Terminal
  <2>6. CASE result = "failed"
    <3>1. Emit(x, <<"stale">>, "done")
      BY <2>2, <2>6 DEF Tell
    <3> QED
      BY <1>2, <2>1, <3>1, LastWord DEF Terminal
  <2> QED
    BY <2>3, <2>4, <2>5, <2>6
<1>4. CASE /\ Emit(x, <<"failed">>, "done")
           /\ UNCHANGED <<status, outcome>>
  <2>1. Turn(x)
    BY <1>2, <1>4, LastWord DEF Terminal
  <2> QED
    BY <1>2, <1>4, <2>1, ServiceSame
<1> QED
  BY <1>3, <1>4 DEF Conclude

LEMMA ConfirmTurn ==
    ASSUME RequestsInv, ServiceInv, NEW r \in Requests, Confirm(r)
    PROVE  UNCHANGED log /\ ServiceStep /\ Turn(r)
<1>1. Duty(r, requests[r], log, outcome)
  BY DEF RequestsInv
<1>2. /\ r \notin Executors /\ Working(r) /\ UNCHANGED log
      /\ On(r) \in Proposals /\ Contract!Resolve(On(r))
      /\ outcome'[On(r)] = "succeeded" /\ Emit(r, <<"succeeded">>, "done")
  BY <1>1, ArgumentsAssumption DEF Confirm, At, On, Duty, Working
<1>3. ServiceStep
  BY <1>2, ServiceMoves
<1>4. Turn(r)
  BY <1>2, LastWord DEF Terminal
<1> QED
  BY <1>2, <1>3, <1>4

\* What a request may append is what the order of the code lets it.
LEMMA TellingOK ==
    ASSUME NEW r \in Requests, NEW q, NEW rows, NEW result,
           Telling(r, q, rows, result),
           r \in Executors => q.by \in Keys,
           r \in Reconcilers => q.by \in Nat
    PROVE  /\ Head(q.todo) \in Kinds
           /\ q.by \in Keys /\ Head(q.todo) # "accepted" =>
                 Has(rows, q.by, Before(Head(q.todo)))
           /\ Head(q.todo) = "succeeded" => result = "succeeded"
<1> DEFINE kind == Head(q.todo)
<1>1. q.by \in Keys => r \in Executors
  BY ArgumentsAssumption DEF Requests
<1>2. CASE q.todo = <<"accepted", "started">>
  BY <1>2 DEF Kinds
<1>3. CASE q.todo = <<"started">> /\ Has(rows, q.by, "accepted")
  BY <1>3 DEF Kinds, Before
<1>4. CASE r \in Reconcilers /\ q.todo = <<"requested">>
  BY <1>1, <1>4, ArgumentsAssumption DEF Kinds
<1>5. CASE \E k \in Terminal :
             /\ q.todo = <<k>>
             /\ r \in Executors => Has(rows, q.by, "started")
             /\ k = "succeeded" => result = "succeeded"
  <2>1. PICK k \in Terminal :
             /\ q.todo = <<k>>
             /\ r \in Executors => Has(rows, q.by, "started")
             /\ k = "succeeded" => result = "succeeded"
    BY <1>5
  <2>2. kind = k /\ k \in Kinds
    BY <2>1 DEF Kinds
  <2>3. Before(k) = "started"
    BY <2>1 DEF Before, Terminal
  <2> QED
    BY <1>1, <2>1, <2>2, <2>3
<1> QED
  BY <1>2, <1>3, <1>4, <1>5 DEF Telling

\* An insert appends the next event, or finds the number or the event taken.
LEMMA InsertTurn ==
    ASSUME RequestsInv, ServiceInv, LogsInv, log \in [Proposals -> SUBSET Event],
           NEW r \in Requests, Insert(r)
    PROVE  /\ log' \in [Proposals -> SUBSET Event]
           /\ \A p \in Proposals : Grows(log[p], log'[p])
           /\ LogsInv' /\ ServiceStep /\ Turn(r)
<1> DEFINE q == requests[r]
           p == On(r)
           e == [n |-> q.n, by |-> q.by, kind |-> Head(q.todo)]
           free == ~Recorded(p, e.by, e.kind) /\ \A f \in log[p] : f.n # e.n
<1>1. q \in Request /\ Duty(r, q, log, outcome) /\ q.at = "insert"
  BY DEF RequestsInv, Insert, At
<1>2. /\ p \in Proposals /\ p = q.on
      /\ r \in Executors => q.by \in Keys
      /\ r \in Reconcilers => q.by \in Nat
      /\ Telling(r, q, log[p], outcome[p])
      /\ q.n \in Nat /\ (q.n = 1 \/ \E f \in log[p] : q.n = f.n + 1)
  BY <1>1 DEF Duty, On, Request
<1>3. ServiceStep /\ UNCHANGED <<status, outcome>>
  BY ServiceSame DEF Insert, service
<1>4. /\ Head(q.todo) \in Kinds
      /\ q.by \in Keys /\ Head(q.todo) # "accepted" =>
            Has(log[p], q.by, Before(Head(q.todo)))
      /\ Head(q.todo) = "succeeded" => outcome[p] = "succeeded"
  BY <1>2, TellingOK
<1>5. CASE free /\ log' = [log EXCEPT ![p] = log[p] \cup {e}] /\ Advance(r)
  <2>1. e \in Event /\ e.n = q.n /\ e.by = q.by /\ e.kind = Head(q.todo)
    BY <1>1, <1>2, <1>4 DEF Event, Request
  <2>2. LogOK(log[p], outcome[p])
    BY <1>2 DEF LogsInv
  <2> HIDE DEF e
  <2>3. e.n = Cardinality(log[p]) + 1
    BY <1>2, <1>5, <2>1, <2>2, FreeIsNext
  <2>4. ~Has(log[p], e.by, e.kind)
    BY <1>5 DEF Recorded, Has
  <2>5. LogOK(log[p] \cup {e}, outcome[p]) /\ Grows(log[p], log[p] \cup {e})
    BY <1>4, <2>1, <2>2, <2>3, <2>4, AppendOK
  <2>6. log' \in [Proposals -> SUBSET Event]
    BY <1>5, <2>1
  <2>7. log'[p] = log[p] \cup {e} /\ (\A o \in Proposals \ {p} : log'[o] = log[o])
    BY <1>2, <1>5
  <2>8. \A o \in Proposals : Grows(log[o], log'[o])
    BY <2>5, <2>7, GrowsSame
  <2>9. LogsInv'
    <3> SUFFICES ASSUME NEW o \in Proposals PROVE LogOK(log'[o], outcome[o])
      BY <1>3 DEF LogsInv
    <3> QED
      BY <2>5, <2>7 DEF LogsInv
  <2>10. Has(log'[p], q.by, Head(q.todo))
    BY <2>1, <2>7 DEF Has
  <2>11. Turn(r)
    BY <1>1, <1>3, <1>5, <2>8, <2>10, AdvanceTurn DEF ServiceStep
  <2> QED
    BY <1>3, <2>6, <2>8, <2>9, <2>11
<1>6. CASE /\ Become(r, [q EXCEPT !.n = 0, !.tries = q.tries + 1, !.at = "look"])
           /\ UNCHANGED log
  <2> DEFINE new == [q EXCEPT !.n = 0, !.tries = q.tries + 1, !.at = "look"]
  <2>1. /\ new \in Request /\ new.at = "look" /\ new.on = q.on
        /\ new.by = q.by /\ new.todo = q.todo /\ new.then = q.then
    <3>1. q.tries + 1 \in Nat /\ 0 \in Nat /\ "look" \in Phases
      BY <1>1 DEF Request, Phases
    <3> QED
      BY <1>1, <3>1 DEF Request
  <2> HIDE DEF new
  <2>2. Telling(r, new, log[p], outcome[p])
    BY <1>2, <2>1 DEF Telling
  <2>3. Duty(r, new, log', outcome')
    BY <1>2, <1>3, <1>6, <2>1, <2>2 DEF Duty
  <2>4. Turn(r)
    BY <1>6, <2>1, <2>3, BecomeTurn DEF new
  <2> QED
    BY <1>3, <1>6, <2>4, LogSame, LogsStay DEF ServiceStep
<1> QED
  BY <1>5, <1>6 DEF Insert

-----------------------------------------------------------------------------
(* The browsers.  What is on the wire is what comes next in the log.         *)

Reading(w, rows) ==
    /\ w.seen = {e \in rows : e.n <= w.last}
    /\ w.last = 0 \/ \E e \in rows : e.n = w.last
    /\ w.batch \subseteq rows /\ (\A e \in w.batch : e.n > w.last)
    /\ \A e \in w.batch, f \in rows : f.n > w.last /\ f.n < e.n => f \in w.batch

ViewerOK(w, lg) ==
    /\ w \in Viewer
    /\ w.on = None =>
          w.at = "away" /\ w.batch = {} /\ w.seen = {} /\ w.last = 0
    /\ w.on # None => Reading(w, lg[w.on])
    /\ w.at = "refreshed" /\ (\E e \in w.seen : e.kind = "succeeded")
          => w.shown = "succeeded"

ViewersInv ==
    /\ viewers \in [Viewers -> Viewer]
    /\ \A v \in Viewers : ViewerOK(viewers[v], log)

LEMMA ReadingStays ==
    ASSUME NEW w, NEW rows, NEW new, NEW result, LogOK(rows, result),
           Grows(rows, new), Reading(w, rows), w.last \in Nat
    PROVE  Reading(w, new)
<1>1. CASE new = rows
  BY <1>1
<1>2. CASE \E e \in Event :
             new = rows \cup {e} /\ e.n > 0 /\ (\A f \in rows : f.n < e.n)
  <2>1. PICK e \in Event :
             new = rows \cup {e} /\ e.n > 0 /\ (\A f \in rows : f.n < e.n)
    BY <1>2
  <2>2. e.n > w.last /\ e.n \in Nat
    BY <2>1 DEF Reading, Event
  <2>3. {f \in new : f.n <= w.last} = {f \in rows : f.n <= w.last}
    BY <2>1, <2>2
  <2>4. \A f \in rows : f.n \in Nat /\ f.n < e.n
    BY <2>1 DEF LogOK, Event
  <2>5. \A g \in w.batch, f \in new :
            f.n > w.last /\ f.n < g.n => f \in w.batch
    <3> SUFFICES ASSUME NEW g \in w.batch, NEW f \in new, f.n > w.last, f.n < g.n
                 PROVE  f \in w.batch
      OBVIOUS
    <3>1. g \in rows
      BY DEF Reading
    <3>2. f # e
      BY <2>2, <2>4, <3>1
    <3> QED
      BY <2>1, <3>2 DEF Reading
  <2> QED
    BY <2>1, <2>3, <2>5 DEF Reading
<1> QED
  BY <1>1, <1>2 DEF Grows

LEMMA ViewersSame ==
    ASSUME ViewersInv, LogsInv, UNCHANGED viewers,
           \A p \in Proposals : Grows(log[p], log'[p])
    PROVE  ViewersInv'
<1> SUFFICES ASSUME NEW v \in Viewers PROVE ViewerOK(viewers[v], log')
  BY DEF ViewersInv
<1> DEFINE w == viewers[v]
<1>1. ViewerOK(w, log) /\ w.last \in Nat
  BY DEF ViewersInv, ViewerOK, Viewer
<1>2. CASE w.on = None
  BY <1>1, <1>2 DEF ViewerOK
<1>3. CASE w.on # None
  <2>1. w.on \in Proposals
    BY <1>1, <1>3 DEF ViewerOK, Viewer
  <2>2. Reading(w, log'[w.on])
    BY <1>1, <1>3, <2>1, ReadingStays DEF ViewerOK, LogsInv
  <2> QED
    BY <1>1, <1>3, <2>2 DEF ViewerOK
<1> QED
  BY <1>2, <1>3

\* The step of one browser.
LEMMA SeeKeeps ==
    ASSUME ViewersInv, NEW v \in Viewers, NEW new, See(v, new), UNCHANGED log,
           ViewerOK(new, log)
    PROVE  ViewersInv'
<1>1. /\ new \in Viewer
      /\ viewers' = [viewers EXCEPT ![v] = new]
  BY DEF ViewerOK, See
<1> QED
  BY <1>1 DEF ViewersInv

LEMMA WatchKeeps ==
    ASSUME ViewersInv, LogsInv, NEW v \in Viewers, NEW p \in Proposals, Watch(v, p)
    PROVE  ViewersInv'
<1> DEFINE w == viewers[v]
           new == [w EXCEPT !.at = "watching", !.on = p]
<1>1. w \in Viewer /\ ViewerOK(w, log) /\ w.on \in {None, p}
  BY DEF ViewersInv, Watch
<1>2. /\ new \in Viewer /\ new.at = "watching" /\ new.on = p
      /\ new.last = w.last /\ new.seen = w.seen /\ new.batch = w.batch
  BY <1>1 DEF Viewer
<1>3. See(v, new) /\ UNCHANGED log
  BY DEF Watch
<1> HIDE DEF new
<1>4. p # None
  BY ArgumentsAssumption
<1>5. Reading(new, log[p])
  <2>1. CASE w.on = p
    BY <1>1, <1>2, <1>4, <2>1 DEF ViewerOK, Reading
  <2>2. CASE w.on = None
    <3>1. w.batch = {} /\ w.seen = {} /\ w.last = 0
      BY <1>1, <2>2 DEF ViewerOK
    <3>2. \A e \in log[p] : e.n \in Nat /\ e.n >= 1
      <4>1. LogOK(log[p], outcome[p])
        BY DEF LogsInv
      <4> QED
        BY <4>1, FS_CardinalityType DEF LogOK
    <3>3. {e \in log[p] : e.n <= 0} = {}
      BY <3>2
    <3> QED
      BY <1>2, <3>1, <3>3 DEF Reading
  <2> QED
    BY <1>1, <2>1, <2>2
<1>6. ViewerOK(new, log)
  BY <1>2, <1>4, <1>5 DEF ViewerOK
<1> QED
  BY <1>3, <1>6, SeeKeeps

\* What list_events finds has no gap after the last event.
LEMMA NextEventsOK ==
    ASSUME LogsInv, NEW p \in Proposals, NEW last \in Nat,
           NEW e \in NextEvents(p, last), NEW f \in log[p],
           f.n > last, f.n < e.n
    PROVE  f \in NextEvents(p, last)
<1> DEFINE newer == {g \in log[p] : g.n > last}
           upto(g) == {h \in newer : h.n < g.n}
<1>1. IsFiniteSet(log[p]) /\ (\A g \in log[p] : g.n \in Nat)
  BY DEF LogsInv, LogOK, Event
<1>2. e \in newer /\ f \in newer /\ Cardinality(upto(e)) < Batch
  BY DEF NextEvents
<1>3. upto(e) \subseteq log[p] /\ upto(f) \subseteq upto(e)
  BY <1>1, <1>2
<1>4. IsFiniteSet(upto(e))
  BY <1>1, <1>3, FS_Subset
<1>5. /\ IsFiniteSet(upto(f))
      /\ Cardinality(upto(f)) <= Cardinality(upto(e))
  BY <1>3, <1>4, FS_Subset
<1>6. Cardinality(upto(e)) \in Nat /\ Cardinality(upto(f)) \in Nat
  BY <1>4, <1>5, FS_CardinalityType
<1>7. Cardinality(upto(f)) < Batch
  <2> HIDE DEF upto
  <2> QED
    BY <1>2, <1>5, <1>6, LimitsAssumption
<1> QED
  BY <1>2, <1>7 DEF NextEvents

LEMMA ListEventsKeeps ==
    ASSUME ViewersInv, LogsInv, NEW v \in Viewers, ListEvents(v)
    PROVE  ViewersInv'
<1> DEFINE w == viewers[v]
           batch == NextEvents(w.on, w.last)
           new == [w EXCEPT !.batch = batch]
<1>1. /\ w \in Viewer /\ ViewerOK(w, log) /\ w.at = "watching"
      /\ See(v, new) /\ UNCHANGED log
  BY DEF ViewersInv, ListEvents
<1>2. w.on # None /\ w.on \in Proposals /\ w.last \in Nat
  BY <1>1 DEF ViewerOK, Viewer
<1>3. batch \subseteq log[w.on] /\ (\A e \in batch : e.n > w.last)
  BY DEF NextEvents
<1>4. log[w.on] \subseteq Event
  BY <1>2 DEF LogsInv, LogOK
<1>5. \A e \in batch, f \in log[w.on] : f.n > w.last /\ f.n < e.n => f \in batch
  BY <1>2, NextEventsOK
<1> HIDE DEF batch
<1>6. /\ new \in Viewer /\ new.at = "watching" /\ new.on = w.on /\ new.batch = batch
      /\ new.last = w.last /\ new.seen = w.seen
  BY <1>1, <1>3, <1>4 DEF Viewer
<1> HIDE DEF new
<1>7. Reading(new, log[w.on])
  BY <1>1, <1>2, <1>3, <1>5, <1>6 DEF ViewerOK, Reading
<1>8. ViewerOK(new, log)
  BY <1>2, <1>6, <1>7 DEF ViewerOK
<1> QED
  BY <1>1, <1>8, SeeKeeps

\* The first event of the batch is the next one of the log.
LEMMA DeliverKeeps ==
    ASSUME ViewersInv, LogsInv, NEW v \in Viewers, Deliver(v)
    PROVE  ViewersInv'
<1> DEFINE w == viewers[v]
           rows == log[w.on]
<1>1. w \in Viewer /\ ViewerOK(w, log) /\ w.at = "watching" /\ UNCHANGED log
  BY DEF ViewersInv, Deliver
<1>2. w.on # None /\ w.on \in Proposals /\ w.last \in Nat
  BY <1>1 DEF ViewerOK, Viewer
<1>3. /\ rows \subseteq Event /\ (\A f \in rows : f.n \in Nat)
      /\ \A f, g \in rows : f.n = g.n => f = g
  BY <1>2 DEF LogsInv, LogOK, Event
<1>4. Reading(w, rows)
  BY <1>1, <1>2 DEF ViewerOK
<1>5. PICK e \in w.batch :
        /\ \A f \in w.batch : e.n <= f.n
        /\ See(v, [w EXCEPT
              !.last = e.n, !.seen = w.seen \cup {e},
              !.batch = IF e.kind \in Terminal THEN {} ELSE w.batch \ {e},
              !.at = IF e.kind \in Terminal THEN "ended" ELSE "watching"])
  BY DEF Deliver
<1> DEFINE batch == IF e.kind \in Terminal THEN {} ELSE w.batch \ {e}
           at == IF e.kind \in Terminal THEN "ended" ELSE "watching"
           new == [w EXCEPT !.last = e.n, !.seen = w.seen \cup {e},
                            !.batch = batch, !.at = at]
<1>6. e \in rows /\ e.n > w.last /\ e.n \in Nat
  BY <1>3, <1>4 DEF Reading
<1>7. batch \subseteq w.batch /\ e \notin batch /\ at \in {"ended", "watching"}
  OBVIOUS
<1>8. batch = {} \/ batch = w.batch \ {e}
  OBVIOUS
<1> HIDE DEF batch, at
<1>9. /\ new \in Viewer /\ new.on = w.on /\ new.at = at
      /\ new.last = e.n /\ new.seen = w.seen \cup {e} /\ new.batch = batch
  <2>1. batch \subseteq Event /\ w.seen \cup {e} \subseteq Event
    BY <1>1, <1>3, <1>6, <1>7 DEF Viewer
  <2> DEFINE seen == w.seen \cup {e}
  <2> HIDE DEF seen
  <2>2. [w EXCEPT !.last = e.n, !.seen = seen, !.batch = batch, !.at = at] \in Viewer
    BY <1>1, <1>6, <1>7, <2>1 DEF Viewer, seen
  <2> QED
    BY <1>1, <2>2 DEF Viewer, seen
<1>10. See(v, new)
  BY <1>5 DEF batch, at
<1> HIDE DEF new
<1>11. w.seen \cup {e} = {f \in rows : f.n <= e.n}
  <2>1. ASSUME NEW f \in rows, f.n <= e.n PROVE f \in w.seen \cup {e}
    <3>1. CASE f.n <= w.last
      BY <3>1, <1>4 DEF Reading
    <3>2. CASE f.n > w.last /\ f.n < e.n
      BY <3>2, <1>3, <1>4, <1>5, <1>6 DEF Reading
    <3>3. CASE f.n = e.n
      BY <3>3, <1>3, <1>6
    <3> QED
      BY <1>2, <1>3, <1>6, <2>1, <3>1, <3>2, <3>3
  <2>2. \A f \in w.seen \cup {e} : f \in rows /\ f.n <= e.n
    BY <1>2, <1>3, <1>4, <1>6 DEF Reading
  <2> QED
    BY <2>1, <2>2
<1>12. \A f \in batch : f.n > e.n
  BY <1>3, <1>4, <1>5, <1>6, <1>7 DEF Reading
<1>13. \A g \in batch, f \in rows : f.n > e.n /\ f.n < g.n => f \in batch
  BY <1>2, <1>3, <1>4, <1>6, <1>7, <1>8 DEF Reading
<1>14. Reading(new, rows)
  BY <1>4, <1>6, <1>7, <1>9, <1>11, <1>12, <1>13 DEF Reading
<1>15. ViewerOK(new, log)
  BY <1>2, <1>7, <1>9, <1>14 DEF ViewerOK
<1> QED
  BY <1>1, <1>10, <1>15, SeeKeeps

LEMMA DropKeeps ==
    ASSUME ViewersInv, NEW v \in Viewers, Drop(v)
    PROVE  ViewersInv'
<1> DEFINE w == viewers[v]
           new == [w EXCEPT !.batch = {}]
<1>1. /\ w \in Viewer /\ ViewerOK(w, log)
      /\ See(v, new) /\ UNCHANGED log
  BY DEF ViewersInv, Drop
<1>2. /\ new \in Viewer /\ new.at = w.at /\ new.on = w.on /\ new.batch = {}
      /\ new.last = w.last /\ new.seen = w.seen /\ new.shown = w.shown
  BY <1>1 DEF Viewer
<1> HIDE DEF new
<1>3. ViewerOK(new, log)
  BY <1>1, <1>2 DEF ViewerOK, Reading
<1> QED
  BY <1>1, <1>3, SeeKeeps

\* A browser that was told a success reads one: it lasts.
LEMMA RefreshKeeps ==
    ASSUME ServiceInv, ViewersInv, LogsInv, NEW v \in Viewers, Refresh(v)
    PROVE  ViewersInv'
<1> DEFINE w == viewers[v]
           new == [w EXCEPT !.at = "refreshed", !.shown = status[w.on]]
<1>1. /\ w \in Viewer /\ ViewerOK(w, log) /\ w.at = "ended"
      /\ See(v, new) /\ UNCHANGED log
  BY DEF ViewersInv, Refresh
<1>2. w.on # None /\ w.on \in Proposals
  BY <1>1 DEF ViewerOK, Viewer
<1>3. status[w.on] \in Statuses
  BY <1>2 DEF ServiceInv
<1>4. /\ new \in Viewer /\ new.on = w.on /\ new.batch = w.batch
      /\ new.last = w.last /\ new.seen = w.seen /\ new.shown = status[w.on]
  BY <1>1, <1>3 DEF Viewer
<1> HIDE DEF new
<1>5. (\E e \in w.seen : e.kind = "succeeded") => status[w.on] = "succeeded"
  BY <1>1, <1>2 DEF ViewerOK, Reading, LogsInv, LogOK, ServiceInv
<1>6. ViewerOK(new, log)
  BY <1>1, <1>2, <1>4, <1>5 DEF ViewerOK, Reading
<1> QED
  BY <1>1, <1>6, SeeKeeps

-----------------------------------------------------------------------------
(* The inductive invariant.                                                  *)

Counted ==
    /\ keyOf \in [Proposals -> Keys \cup {None}]
    /\ attempts \in [Proposals -> Nat]
    /\ drops \in Nat

ControlInv ==
    /\ Counted
    /\ log \in [Proposals -> SUBSET Event]
    /\ ServiceInv /\ LogsInv /\ RequestsInv /\ ViewersInv

LEMMA EmptyLogOK == \A result : LogOK({}, result)
<1>1. IsFiniteSet({}) /\ Cardinality({}) = 0
  BY FS_EmptySet
<1> QED
  BY <1>1 DEF LogOK

LEMMA ControlInit == Init => ControlInv
<1> SUFFICES ASSUME Init PROVE ControlInv
  OBVIOUS
<1>1. Counted /\ log \in [Proposals -> SUBSET Event]
  BY DEF Init, Counted
<1>2. ServiceInv
  BY DEF Init, Contract!Init, ServiceInv, Statuses, Outcomes
<1>3. LogsInv
  BY EmptyLogOK DEF Init, LogsInv
<1>4. RequestsInv
  <2>1. \A r \in Requests : Duty(r, NoRequest, log, outcome)
    BY DEF Duty, NoRequest
  <2> QED
    BY <2>1, NoRequestTyped DEF Init, RequestsInv
<1>5. ViewersInv
  <2> DEFINE w == [at |-> "away", on |-> None, last |-> 0, seen |-> {},
                   batch |-> {}, shown |-> "absent"]
  <2>1. w \in Viewer
    BY DEF Viewer, Statuses
  <2>2. ViewerOK(w, log)
    BY <2>1 DEF ViewerOK
  <2> HIDE DEF w
  <2>3. viewers = [v \in Viewers |-> w]
    BY DEF Init, w
  <2> QED
    BY <2>1, <2>2, <2>3 DEF ViewersInv
<1> QED
  BY <1>1, <1>2, <1>3, <1>4, <1>5 DEF ControlInv

\* The service moves and a request has its turn; the logs stay.
LEMMA ServiceTurnKeeps ==
    ASSUME ControlInv, NEW r \in Requests, UNCHANGED <<log, viewers>>, ServiceStep,
           Turn(r), Counted'
    PROVE  ControlInv'
<1>1. Lasts /\ (\A p \in Proposals : Grows(log[p], log'[p]))
  BY LogSame DEF ServiceStep
<1>2. RequestsInv'
  BY <1>1, TurnKeeps DEF ControlInv
<1>3. LogsInv' /\ ViewersInv'
  BY <1>1, LogsStay, ViewersSame DEF ControlInv
<1> QED
  BY <1>2, <1>3 DEF ControlInv, ServiceStep

LEMMA QuietTurnKeeps ==
    ASSUME ControlInv, NEW r \in Requests, Quiet, UNCHANGED viewers, Turn(r), Counted'
    PROVE  ControlInv'
<1>1. ServiceStep /\ UNCHANGED log
  BY ServiceSame DEF Quiet, ControlInv
<1> QED
  BY <1>1, ServiceTurnKeeps

\* A browser moves alone.
LEMMA ViewerKeeps ==
    ASSUME ControlInv, UNCHANGED <<service, log, requests>>, ViewersInv', drops' \in Nat
    PROVE  ControlInv'
<1>1. ServiceStep /\ Lasts
  BY ServiceSame DEF ControlInv, service, ServiceStep
<1>2. RequestsInv' /\ LogsInv'
  BY <1>1, LogSame, RequestsSame, LogsStay DEF ControlInv
<1> QED
  BY <1>1, <1>2 DEF ControlInv, ServiceStep, Counted, service

LEMMA GovernKeeps ==
    ASSUME ControlInv, NEW p \in Proposals, Govern(p)
    PROVE  ControlInv'
<1>1. ServiceStep
  BY ServiceMoves DEF Govern, ControlInv
<1>2. /\ UNCHANGED <<log, requests, viewers>> /\ Lasts
      /\ \A o \in Proposals : Grows(log[o], log'[o])
  BY <1>1, LogSame DEF Govern, ServiceStep
<1>3. RequestsInv' /\ LogsInv' /\ ViewersInv'
  BY <1>2, RequestsSame, LogsStay, ViewersSame DEF ControlInv
<1> QED
  BY <1>1, <1>3 DEF ControlInv, ServiceStep, Govern, Counted

LEMMA ProceedKeeps ==
    ASSUME ControlInv, NEW r \in Requests, Proceed(r)
    PROVE  ControlInv'
<1> USE DEF ControlInv
<1>1. CASE Look(r)
  <2>1. Counted' /\ UNCHANGED viewers
    BY <1>1 DEF Look, Counted, service
  <2> QED
    BY <1>1, <2>1, LookTurn, QuietTurnKeeps
<1>2. CASE Insert(r)
  <2>1. Counted' /\ UNCHANGED viewers
    BY <1>2 DEF Insert, Counted, service
  <2>2. /\ log' \in [Proposals -> SUBSET Event]
        /\ \A p \in Proposals : Grows(log[p], log'[p])
        /\ LogsInv' /\ ServiceStep /\ Turn(r)
    BY <1>2, InsertTurn
  <2>3. RequestsInv' /\ ViewersInv'
    BY <2>1, <2>2, TurnKeeps, ViewersSame DEF ServiceStep
  <2> QED
    BY <2>1, <2>2, <2>3 DEF ServiceStep
<1>3. CASE CheckKey(r)
  <2>1. Counted' /\ UNCHANGED viewers
    BY <1>3 DEF CheckKey, Counted, service
  <2> QED
    BY <1>3, <2>1, CheckKeyTurn, QuietTurnKeeps
<1>4. CASE Start(r)
  <2>1. UNCHANGED log /\ ServiceStep /\ Turn(r) /\ requests[r].by \in Keys
    BY <1>4, StartTurn
  <2>2. Counted' /\ UNCHANGED viewers
    BY <1>4, <2>1 DEF Start, Counted
  <2> QED
    BY <2>1, <2>2, ServiceTurnKeeps
<1>5. CASE Answer(r)
  <2>1. Counted' /\ UNCHANGED viewers
    BY <1>5 DEF Answer, Counted, service
  <2> QED
    BY <1>5, <2>1, AnswerTurn, QuietTurnKeeps
<1>6. CASE Outdate(r)
  <2>1. Counted' /\ UNCHANGED viewers
    BY <1>6 DEF Outdate, Counted
  <2> QED
    BY <1>6, <2>1, OutdateTurn, ServiceTurnKeeps
<1>7. CASE Conclude(r)
  <2>1. Counted' /\ UNCHANGED viewers
    BY <1>7 DEF Conclude, Counted
  <2> QED
    BY <1>7, <2>1, ConcludeTurn, ServiceTurnKeeps
<1>8. CASE Confirm(r)
  <2>1. Counted' /\ UNCHANGED viewers
    BY <1>8 DEF Confirm, Counted, Count
  <2> QED
    BY <1>8, <2>1, ConfirmTurn, ServiceTurnKeeps
<1>9. CASE LeaveUnresolved(r)
  <2>1. Counted' /\ UNCHANGED viewers
    BY <1>9 DEF LeaveUnresolved, Counted, Count
  <2> QED
    BY <1>9, <2>1, LeaveUnresolvedTurn, QuietTurnKeeps
<1> QED
  BY <1>1, <1>2, <1>3, <1>4, <1>5, <1>6, <1>7, <1>8, <1>9 DEF Proceed

LEMMA ControlStep == ControlInv /\ [Next]_vars => ControlInv'
<1> SUFFICES ASSUME ControlInv, [Next]_vars PROVE ControlInv'
  OBVIOUS
<1>1. ASSUME NEW p \in Proposals, Govern(p) PROVE ControlInv'
  BY <1>1, GovernKeeps
<1>2. ASSUME NEW p \in Proposals, NEW x \in Executors, Execute(x, p)
      PROVE  ControlInv'
  <2>1. Counted' /\ UNCHANGED viewers /\ x \in Requests
    BY <1>2 DEF Execute, Counted, service, ControlInv, Requests
  <2> QED
    BY <1>2, <2>1, ExecuteTurn, QuietTurnKeeps DEF ControlInv
<1>3. ASSUME NEW p \in Proposals, NEW r \in Reconcilers, Reconcile(r, p)
      PROVE  ControlInv'
  <2>1. Counted' /\ UNCHANGED viewers /\ r \in Requests
    BY <1>3 DEF Reconcile, Counted, service, ControlInv, Requests
  <2>2. attempts \in [Proposals -> Nat]
    BY DEF ControlInv, Counted
  <2> QED
    BY <1>3, <2>1, <2>2, ReconcileTurn, QuietTurnKeeps DEF ControlInv
<1>4. ASSUME NEW p \in Proposals, NEW v \in Viewers, Watch(v, p)
      PROVE  ControlInv'
  <2>1. UNCHANGED <<service, log, requests>> /\ drops' \in Nat
    BY <1>4 DEF Watch, ControlInv, Counted
  <2> QED
    BY <1>4, <2>1, WatchKeeps, ViewerKeeps DEF ControlInv
<1>5. ASSUME NEW r \in Requests, Proceed(r) PROVE ControlInv'
  BY <1>5, ProceedKeeps
<1>6. ASSUME NEW r \in Requests, Crash(r) PROVE ControlInv'
  <2>1. Counted' /\ UNCHANGED viewers
    BY <1>6 DEF Crash, Counted, service, ControlInv
  <2> QED
    BY <1>6, <2>1, CrashTurn, QuietTurnKeeps DEF ControlInv
<1>7. ASSUME NEW v \in Viewers, Follow(v) PROVE ControlInv'
  <2>1. UNCHANGED <<service, log, requests>> /\ drops' \in Nat
    BY <1>7 DEF Follow, ListEvents, Deliver, Refresh, ControlInv, Counted
  <2>2. ViewersInv'
    BY <1>7, ListEventsKeeps, DeliverKeeps, RefreshKeeps DEF Follow, ControlInv
  <2> QED
    BY <2>1, <2>2, ViewerKeeps
<1>8. ASSUME NEW v \in Viewers, Drop(v) PROVE ControlInv'
  <2>1. UNCHANGED <<service, log, requests>> /\ drops' \in Nat
    BY <1>8 DEF Drop, ControlInv, Counted
  <2> QED
    BY <1>8, <2>1, DropKeeps, ViewerKeeps DEF ControlInv
<1>9. CASE UNCHANGED vars
  <2>1. UNCHANGED <<service, log, requests, viewers>> /\ drops' \in Nat
    BY <1>9 DEF vars, ControlInv, Counted
  <2>2. ViewersInv'
    BY <2>1 DEF ControlInv, ViewersInv
  <2> QED
    BY <2>1, <2>2, ViewerKeeps
<1> QED
  BY <1>1, <1>2, <1>3, <1>4, <1>5, <1>6, <1>7, <1>8, <1>9 DEF Next

LEMMA ControlInvariant == Spec => []ControlInv
  BY ControlInit, ControlStep, PTL DEF Spec

-----------------------------------------------------------------------------

\* Every variable has its type: what a request will emit and do afterwards is
\* always well-formed, and so is what a browser has seen.
THEOREM TypeCorrect == Spec => []TypeOK
<1>1. ControlInv => TypeOK
  BY DEF ControlInv, Counted, ServiceInv, RequestsInv, ViewersInv, TypeOK
<1> QED
  BY <1>1, ControlInvariant, PTL

\* The log of a proposal has no gap, no number and no event twice, and keeps
\* the order of the code, whatever requests append at once and wherever they die.
THEOREM LogIsInOrder == Spec => []LogInOrder
<1>1. ControlInv => LogInOrder
  <2> SUFFICES ASSUME ControlInv, NEW p \in Proposals
               PROVE  /\ \A e \in log[p] : e.n = 1 \/ \E f \in log[p] : f.n + 1 = e.n
                      /\ \A e, f \in log[p] : e.n = f.n => e = f
                      /\ \A e, f \in log[p] : e.by = f.by /\ e.kind = f.kind => e = f
                      /\ \A e \in log[p] : e.by \in Keys /\ e.kind # "accepted" =>
                            \E f \in log[p] :
                                /\ f.by = e.by /\ f.n < e.n
                                /\ f.kind = IF e.kind = "started" THEN "accepted"
                                                                 ELSE "started"
    BY DEF LogInOrder
  <2>1. LogOK(log[p], outcome[p])
    BY DEF ControlInv, LogsInv
  <2>2. Cardinality(log[p]) \in Nat
    BY <2>1, FS_CardinalityType DEF LogOK
  <2>3. ASSUME NEW e \in log[p], e.n # 1 PROVE \E f \in log[p] : f.n + 1 = e.n
    <3>1. e.n \in 1 .. Cardinality(log[p])
      BY <2>1 DEF LogOK
    <3>2. e.n - 1 \in 1 .. Cardinality(log[p]) /\ (e.n - 1) + 1 = e.n
      BY <2>2, <2>3, <3>1
    <3>3. PICK f \in log[p] : f.n = e.n - 1
      BY <2>1, <3>2 DEF LogOK
    <3> QED
      BY <3>2, <3>3
  <2> QED
    BY <2>1, <2>3 DEF LogOK, Before
<1> QED
  BY <1>1, ControlInvariant, PTL

\* What is told as a success is one, and a browser that was told shows it.
THEOREM SuccessesAreTrue == Spec => []SuccessIsTrue
<1>1. ControlInv => SuccessIsTrue
  BY DEF ControlInv, LogsInv, LogOK, ViewersInv, ViewerOK, SuccessIsTrue
<1> QED
  BY <1>1, ControlInvariant, PTL

\* A browser misses no event, over all its connections and streams.
THEOREM NothingIsSkipped == Spec => []NothingSkipped
<1>1. ControlInv => NothingSkipped
  BY DEF ControlInv, ViewersInv, ViewerOK, Reading, NothingSkipped
<1> QED
  BY <1>1, ControlInvariant, PTL

=============================================================================
