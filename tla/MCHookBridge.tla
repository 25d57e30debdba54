---------------------------- MODULE MCHookBridge ----------------------------
(* An instance of HookBridge with the callbacks of two hookers kept apart.   *)
EXTENDS HookBridge

CONSTANTS h1, h2, a, b

\* Each hooker has a callback of its own.
Own == [h \in Hookers |-> IF h = h1 THEN {a} ELSE {b}]
\* Priorities around PRIORITY_DEFAULT.
Usual == [cb \in Callbacks |-> IF cb = a THEN 1 ELSE -1]
=============================================================================
