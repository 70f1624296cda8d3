--------------------------- MODULE MCActionControl ---------------------------
(* Values of the constants of ActionControl for TLC. *)
EXTENDS ActionControl

CONSTANTS e1, e2, key1, key2

\* The second request repeats the first one, or has a key of its own.
SameOrOther == [x \in Executors |-> IF x = e1 THEN {key1} ELSE {key1, key2}]
=============================================================================
