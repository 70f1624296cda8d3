--------------------------- MODULE RunEventStream ---------------------------
(***************************************************************************)
(* Following a run: the SSE endpoint (stream_agent_run_events), the        *)
(* connection, and the browser's stream service that reconnects            *)
(* (AgentRunStreamService.consume and openOnce).  The runs are those of    *)
(* RunContract, which is all of AgentRuns that the endpoint can see.       *)
(***************************************************************************)
EXTENDS RunContract

CONSTANTS
    Watchers,   \* browser tabs, each watching one run
    BatchLimit, \* limit of list_events
    MaxReports, \* bound: a run reports no more once its log is this long
    MaxDrops    \* bound: connections that are lost

ASSUME StreamAssumption ==
    BatchLimit \in Nat \ {0} /\ MaxReports \in Nat /\ MaxDrops \in Nat

VARIABLES
    server,  \* the generator behind each watcher's connection
    wire,    \* sequence numbers yielded and not yet read by the browser
    client,  \* the stream service of each watcher
    drops    \* counts toward MaxDrops

streamVars == <<server, wire, client, drops>>
allVars == <<contractVars, streamVars>>

RunOfClient(c) == client[c].run
\* Mutant: the announcement of a cancellation counts as the end.
EndsAtRequest(r, n) == log[r][n] \in Terminal \cup {"run.cancel_requested"}

IsTerminal(r, n) == log[r][n] \in Terminal
NewEvents(r, cursor, limit) ==
    {n \in DOMAIN log[r] : cursor < n /\ n <= cursor + limit}

ClosedServer == [phase |-> "closed", cursor |-> 0, batch |-> {}]

-----------------------------------------------------------------------------
(* The server.  Two reads, each of the latest commit, then the yields.     *)

ListEvents(c) ==
    /\ server[c].phase = "list"
    /\ server' = [server EXCEPT ![c].phase = "check",
          ![c].batch = NewEvents(RunOfClient(c), server[c].cursor, BatchLimit)]
    /\ UNCHANGED <<contractVars, wire, client, drops>>

\* The status read after the events decides whether an empty batch ends it.
ReadRun(c) ==
    /\ server[c].phase = "check"
    /\ server' = [server EXCEPT ![c].phase =
          CASE server[c].batch # {} -> "yield"
            [] server[c].batch = {} /\ status[RunOfClient(c)] \in Closed -> "closed"
            [] OTHER -> "list"]
    /\ UNCHANGED <<contractVars, wire, client, drops>>

Yield(c) ==
    /\ server[c].phase = "yield"
    /\ \E n \in server[c].batch :
          LET rest == server[c].batch \ {n}
          IN  /\ \A k \in server[c].batch : n <= k
              /\ wire' = [wire EXCEPT ![c] = Append(@, n)]
              /\ server' = [server EXCEPT ![c] =
                    IF IsTerminal(RunOfClient(c), n)
                    THEN [phase |-> "closed", cursor |-> n, batch |-> {}]
                    ELSE [phase |-> IF rest = {} THEN "list" ELSE "yield",
                          cursor |-> n, batch |-> rest]]
    /\ UNCHANGED <<contractVars, client, drops>>

-----------------------------------------------------------------------------
(* The browser.                                                            *)

\* Mutant: the cursor sent is the one before the last event shown.
ConnectOneBehind(c) ==
    /\ client[c].phase = "connecting"
    /\ status[RunOfClient(c)] # "absent"
    /\ client' = [client EXCEPT ![c].phase = "open"]
    /\ server' = [server EXCEPT ![c] =
          [phase |-> "list", cursor |-> client[c].last - 1, batch |-> {}]]
    /\ UNCHANGED <<contractVars, wire, drops>>

\* Mutant: the cursor sent is the next event expected.
ConnectOneAhead(c) ==
    /\ client[c].phase = "connecting"
    /\ status[RunOfClient(c)] # "absent"
    /\ client' = [client EXCEPT ![c].phase = "open"]
    /\ server' = [server EXCEPT ![c] =
          [phase |-> "list", cursor |-> client[c].last + 1, batch |-> {}]]
    /\ UNCHANGED <<contractVars, wire, drops>>

\* openOnce: the cursor goes out as after_sequence and as Last-Event-ID.
Connect(c) ==
    /\ client[c].phase = "connecting"
    /\ status[RunOfClient(c)] # "absent"
    /\ client' = [client EXCEPT ![c].phase = "open"]
    /\ server' = [server EXCEPT ![c] =
          [phase |-> "list", cursor |-> client[c].last, batch |-> {}]]
    /\ UNCHANGED <<contractVars, wire, drops>>

\* An event at or below the cursor is skipped; a terminal one ends watching.
Receive(c) ==
    LET n == Head(wire[c])
        r == RunOfClient(c)
        end == n > client[c].last /\ IsTerminal(r, n)
    IN  /\ client[c].phase = "open" /\ wire[c] # <<>>
        /\ client' = [client EXCEPT ![c] =
              IF n <= @.last THEN @
              ELSE [@ EXCEPT !.last = n,
                             !.shown = Append(client[c].shown, n),
                             !.phase = IF end THEN "done" ELSE "open"]]
        /\ wire' = [wire EXCEPT ![c] = IF end THEN <<>> ELSE Tail(@)]
        /\ server' = [server EXCEPT ![c] = IF end THEN ClosedServer ELSE @]
        /\ UNCHANGED <<contractVars, drops>>

\* Mutant: a response that ended in order is not opened again.
EndIsFinal(c) ==
    /\ client[c].phase = "open" /\ wire[c] = <<>> /\ server[c].phase = "closed"
    /\ UNCHANGED allVars

\* The response ended without a terminal event: consume() opens another.
EndOfStream(c) ==
    /\ client[c].phase = "open" /\ wire[c] = <<>> /\ server[c].phase = "closed"
    /\ client' = [client EXCEPT ![c].phase = "connecting"]
    /\ UNCHANGED <<contractVars, server, wire, drops>>

\* The connection is lost with what is on it, or the user stops watching and
\* resumes; the generator finds out and returns.
Drop(c) ==
    /\ client[c].phase = "open" /\ drops < MaxDrops
    /\ client' = [client EXCEPT ![c].phase = "connecting"]
    /\ server' = [server EXCEPT ![c] = ClosedServer]
    /\ wire' = [wire EXCEPT ![c] = <<>>]
    /\ drops' = drops + 1
    /\ UNCHANGED contractVars

-----------------------------------------------------------------------------
RunStep ==
    /\ \E r \in Runs :
        \/ \E c \in Conversations : Accept(r, c)
        \/ Claimed(r) \/ CancelRequested(r)
        \/ Len(log[r]) < MaxReports /\ \E kind \in Progress : Report(r, kind)
        \/ \E s \in Closed : Close(r, s)
    /\ UNCHANGED streamVars

ServerStep(c) == ListEvents(c) \/ ReadRun(c) \/ Yield(c)
ClientStep(c) == Connect(c) \/ Receive(c) \/ EndOfStream(c)

StreamInit ==
    /\ ContractInit
    /\ server = [c \in Watchers |-> ClosedServer]
    /\ wire = [c \in Watchers |-> <<>>]
    /\ client \in [Watchers -> {[phase |-> "connecting", run |-> r, last |-> 0,
                                 shown |-> <<>>] : r \in Runs}]
    /\ drops = 0

StreamNext ==
    \/ RunStep
    \/ \E c \in Watchers : ServerStep(c) \/ ClientStep(c) \/ Drop(c)

StreamSpec == StreamInit /\ [][StreamNext]_allVars

\* The poll loop and the browser go on, and workers finish accepted runs
\* (AgentRuns!EveryRunFinishes).  Connections are lost only MaxDrops times.
StreamFairness ==
    /\ \A r \in Runs :
          /\ WF_allVars(Claimed(r) /\ UNCHANGED streamVars)
          /\ WF_allVars((\E s \in Closed : Close(r, s)) /\ UNCHANGED streamVars)
    /\ \A c \in Watchers : WF_allVars(ServerStep(c)) /\ WF_allVars(ClientStep(c))

FairStreamSpec == StreamSpec /\ StreamFairness

-----------------------------------------------------------------------------
(* Properties.                                                             *)

StreamTypeOK ==
    /\ server \in [Watchers -> [phase : {"closed", "list", "check", "yield"},
                                cursor : Nat, batch : SUBSET Nat]]
    /\ wire \in [Watchers -> Seq(Nat)]
    /\ client \in [Watchers -> [phase : {"connecting", "open", "done"}, run : Runs,
                                last : Nat, shown : Seq(Nat)]]
    /\ drops \in 0 .. MaxDrops

\* However often the connection is lost and resumed, the browser has shown
\* every event from the first up to its cursor, once and in order.
NothingSkipped ==
    \A c \in Watchers : client[c].shown = [n \in 1 .. client[c].last |-> n]

\* A browser that stopped watching has shown the terminal event last, and
\* that event tells the status the run really has.
DoneKnowsOutcome ==
    \A c \in Watchers :
        LET r == RunOfClient(c)
        IN  client[c].phase = "done" =>
              /\ status[r] \in Closed
              /\ log[r][client[c].last] = ClosingEvent[status[r]]
              /\ \A n \in 1 .. (client[c].last - 1) : ~IsTerminal(r, n)

\* A browser that goes on watching an accepted run learns its outcome,
\* whatever events arrive late and whichever connections are lost.
OutcomeArrives ==
    \A c \in Watchers :
        (status[RunOfClient(c)] # "absent") ~> (client[c].phase = "done")
=============================================================================
