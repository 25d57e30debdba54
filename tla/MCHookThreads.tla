--------------------------- MODULE MCHookThreads ----------------------------
(* Two threads hook two functions of one page at the same time.              *)
EXTENDS HookApi

Lengths == [t \in Targets |-> 4]
=============================================================================
