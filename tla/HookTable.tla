----------------------------- MODULE HookTable -----------------------------
(***************************************************************************)
(* What HookInstall and HookUninstall promise: each function runs its own  *)
(* code or one replacement; a call changes one function, from its own code *)
(* to a replacement or back, or fails and changes nothing.                 *)
(***************************************************************************)
CONSTANTS Targets, Replaces, None

VARIABLE hooked   \* the replacement each function runs, or None

Init == hooked = [t \in Targets |-> None]

Install(t, r) ==
  /\ hooked[t] = None
  /\ hooked' = [hooked EXCEPT ![t] = r]

Uninstall(t) ==
  /\ hooked[t] # None
  /\ hooked' = [hooked EXCEPT ![t] = None]

\* Both change hooked, which is said first: most steps of the calls do not.
Next == /\ hooked' # hooked
        /\ \E t \in Targets : Uninstall(t) \/ \E r \in Replaces : Install(t, r)

Spec == Init /\ [][Next]_hooked
=============================================================================
