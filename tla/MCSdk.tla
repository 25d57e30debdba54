-------------------------------- MODULE MCSdk --------------------------------
(* The native SDK, one part at a time: a behaviour is one of HookInstall and *)
(* HookUninstall (HookApi) or one of the allocator (NearCodeAllocator),      *)
(* while the other stays as it is.                                           *)
(*                                                                           *)
(* HookApi has two functions of four words.  A replacement at 8 is in reach  *)
(* of B; one at 44 is in reach of ADRP from the second function and not from *)
(* the first, so all three jumps occur.  The allocator has pages of four     *)
(* units and libraries at two places with a gap between them.                *)
EXTENDS HookApiSerial, NearCodeAllocator

Lengths == [t \in Targets |-> 4]

VARIABLE part

SdkInit == part \in {"hooks", "pages"} /\ Init /\ AllocInit

SdkNext ==
    /\ UNCHANGED part
    /\ \/ part = "hooks" /\ Next /\ UNCHANGED allocVars
       \/ part = "pages" /\ AllocNext /\ UNCHANGED vars

SdkSpec == SdkInit /\ [][SdkNext]_<<part, vars, allocVars>>
=============================================================================
