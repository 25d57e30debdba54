------------------------------ MODULE MCScripts ------------------------------
(* What becomes of Interceptor.attach, one part at a time: a behaviour is    *)
(* one of the scripts, their callbacks and hooks (Interceptor), of the code  *)
(* that attach generates (AttachCode) or of the instructions that its hook   *)
(* relocates (Relocator), while the other parts stay as they are.            *)
EXTENDS MCRelocator, Interceptor

VARIABLES part, m, enter, leave

\* What the proofs about Relocator rely on.
ASSUME Insts \subseteq Relocatable /\ Apart

Code == INSTANCE AttachCode
codeVars == <<m, enter, leave>>

NoRelocation == Init /\ count = 1
NoAttach == m = <<>> /\ enter = {} /\ leave = FALSE

ScriptsInit ==
    /\ ScriptInit
    /\ \/ part = "relocation" /\ Init /\ NoAttach
       \/ part = "scripts" /\ NoRelocation /\ NoAttach
       \/ part = "attach" /\ NoRelocation /\ Code!Init

ScriptsNext ==
    /\ UNCHANGED part
    /\ \/ part = "relocation" /\ Next /\ UNCHANGED <<scriptVars, codeVars>>
       \/ part = "scripts" /\ ScriptNext /\ UNCHANGED <<vars, codeVars>>
       \/ part = "attach" /\ Code!Next /\ UNCHANGED <<vars, scriptVars>>

\* With the fairness of the scripts, in the behaviours that are their own.
ScriptsSpec ==
    /\ ScriptsInit /\ [][ScriptsNext]_<<part, vars, scriptVars, codeVars>>
    /\ \A t \in Threads : WF_scriptVars(part = "scripts" /\ Proceed(t))
-----------------------------------------------------------------------------
\* A call through the code that attach generates reaches the original with the
\* caller's argument registers, but for the ones onEnter replaced, and comes back with
\* the original's results, the caller's SP, stack and x19; the original itself
\* runs with SP 16 bytes below the caller's.
RegistersKept == part = "attach" => Code!RegistersKept
=============================================================================
