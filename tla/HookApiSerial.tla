--------------------------- MODULE HookApiSerial ----------------------------
(* HookApi as one thread at a time calls it: nothing in the SDK is locked.   *)
(* The application hooks from one thread and the scripts hold the lock of    *)
(* JSScope.  Two callers at once are the subject of MCHookThreads.           *)
EXTENDS HookApi

ASSUME OneCaller == \A c, d \in Callers : c = d
=============================================================================
