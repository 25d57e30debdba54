------------------------------- MODULE MCJava -------------------------------
(* Java hooks, one part at a time: a behaviour is one of LSPlant in the      *)
(* runtime (LSPlant), one of its trampoline pool (TrampolinePool) or one of  *)
(* the callbacks in front of it (HookBridge), while the others stay as they  *)
(* are.                                                                      *)
(*                                                                           *)
(* The pool has two threads, three hooks and one slot a page: every hook     *)
(* needs a page, both threads find the same page full, and one mmap may      *)
(* fail.  In HookBridge one caller is enough: calls do not interact.         *)
EXTENDS MCLSPlant, TrampolinePool, HookBridge

CONSTANT a

\* Both hookers use both callbacks.
Shared == [h \in Hookers |-> Callbacks]
\* Priorities around PRIORITY_DEFAULT.
Usual == [cb \in Callbacks |-> IF cb = a THEN 1 ELSE -1]

VARIABLE part

JavaInit ==
    /\ BridgeInit /\ PoolInit /\ Init
    /\ \/ part = "runtime"
       \/ part \in {"pool", "callbacks"} /\ installed = ArtHooks /\ class[0].pc = "loaded"

JavaNext ==
    /\ UNCHANGED part
    /\ \/ part = "runtime" /\ Next /\ UNCHANGED <<poolVars, bridgeVars>>
       \/ part = "pool" /\ PoolNext /\ UNCHANGED <<vars, bridgeVars>>
       \/ part = "callbacks" /\ BridgeNext /\ UNCHANGED <<vars, poolVars>>

\* With the fairness of the pool, in the behaviours that are its own.
JavaSpec ==
    /\ JavaInit /\ [][JavaNext]_<<part, vars, poolVars, bridgeVars>>
    /\ \A t \in Threads : WF_poolVars(part = "pool" /\ PoolStep(t))
=============================================================================
