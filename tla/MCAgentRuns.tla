----------------------------- MODULE MCAgentRuns -----------------------------
(* Values of the constants of AgentRuns for TLC. *)
EXTENDS AgentRuns, TLC

CONSTANTS k1, k2, k3, key1, key2

\* The second call carries a key of its own, every other one the key of the
\* first: the client repeats a command.
RepeatedKey == [k \in Calls |-> IF k = k2 THEN key2 ELSE key1]

AnyWorker == Permutations(Workers)
=============================================================================
