----------------------------- MODULE Interceptor -----------------------------
(***************************************************************************)
(* Scripts and the native hooks they install: JSEngine::LoadScript, the    *)
(* recursive JSScope lock, Interceptor.attach / replace / detachAll, and   *)
(* the trampoline that a hooked function runs (dispatch_on_enter, the      *)
(* original, dispatch_on_leave).                                           *)
(*                                                                         *)
(* A thread is a stack of frames.  A frame that waits for the lock, a      *)
(* frame that runs JavaScript and a frame inside generate_trampolines or   *)
(* detachAll are told apart by "pc"; "e" is the AttachEntry it works on.   *)
(* g_entries_mutex is only ever taken by a thread that holds the JSScope   *)
(* lock and released before it leaves the C function, so it is never       *)
(* waited for and is not a variable.                                       *)
(***************************************************************************)
EXTENDS Common, Naturals, FiniteSets, Sequences, Functions

CONSTANTS
    Scripters,      \* threads that call LoadScript (clients, nativeLoadScript)
    Apps,           \* threads of the application that call hooked functions
    Functions,      \* functions a script may hook
    MaxEntries,     \* bound: AttachEntry objects ever allocated
    MaxDepth,       \* bound: frames of a thread
    MaxWork         \* bound: scripts, API calls and calls a thread makes

ASSUME InterceptorAssumption ==
    /\ MaxEntries \in Nat /\ MaxDepth \in Nat /\ MaxWork \in Nat
    /\ None \notin Scripters \cup Apps
    /\ None \notin Nat

VARIABLES
    owner, depth,   \* JSScope::mutex_, a recursive mutex
    hooked,         \* the live hook of a function: its entry, or None
    stuck,          \* history: functions whose HookUninstall failed in detachAll
    entry,          \* the AttachEntry objects allocated so far
    g_entries,      \* the vector of registered entries
    stack,          \* the frames of every thread
    work,           \* what each thread may still do
    fault           \* "none", "freed" (entry used after delete) or "null"

scriptVars == <<owner, depth, hooked, stuck, entry, g_entries, stack, work, fault>>

Threads == Scripters \cup Apps

Waiting == {"load", "waitEnter", "waitLeave"}
InJS    == {"script", "inEnter", "inLeave"}
Native  == {"enter", "orig", "leave", "install", "patch", "detach", "free"}

\* The callbacks object of attach: at least one of the two is a function.
Callbacks == {[enter |-> TRUE, leave |-> FALSE], [enter |-> FALSE, leave |-> TRUE],
              [enter |-> TRUE, leave |-> TRUE]}

Idle(t) == stack[t] = <<>>
Top(t)  == stack[t][Len(stack[t])]
At(t, pc) == ~Idle(t) /\ Top(t).pc = pc

\* The thread runs JavaScript, or is an idle application thread.
RunsJS(t)    == ~Idle(t) /\ Top(t).pc \in InJS
CanCall(t)   == RunsJS(t) \/ (t \in Apps /\ Idle(t))
Frame(pc, e) == [pc |-> pc, e |-> e]

Push(t, f) == stack' = [stack EXCEPT ![t] = Append(@, f)]
Goto(t, pc) == stack' = [stack EXCEPT ![t] = [@ EXCEPT ![Len(@)].pc = pc]]
Pop(t) == stack' = [stack EXCEPT ![t] = SubSeq(@, 1, Len(@) - 1)]

Spend(t) ==
    /\ fault = "none" /\ work[t] > 0
    /\ work' = [work EXCEPT ![t] = @ - 1]

ScriptInit ==
    /\ owner = None /\ depth = 0
    /\ hooked = [f \in Functions |-> None] /\ stuck = {}
    /\ entry = <<>> /\ g_entries = <<>>
    /\ stack = [t \in Threads |-> <<>>]
    /\ work = [t \in Threads |-> MaxWork]
    /\ fault = "none"
-----------------------------------------------------------------------------
(* JSScope *)

\* Mutation: the mutex is not recursive.
LockPlain(t) ==
    /\ owner = None
    /\ owner' = t /\ depth' = depth + 1

Lock(t) ==
    /\ owner \in {None, t}
    /\ owner' = t /\ depth' = depth + 1

\* Mutation: an inner scope gives the lock away.
UnlockAll(t) ==
    /\ owner' = None /\ depth' = 0

Unlock(t) ==
    /\ depth' = depth - 1
    /\ owner' = IF depth = 1 THEN None ELSE owner

\* LoadScript finds a context and goes for the lock.
LoadScript(t) ==
    /\ Idle(t) /\ Spend(t)
    /\ Push(t, Frame("load", 0))
    /\ UNCHANGED <<owner, depth, hooked, stuck, entry, g_entries, fault>>

\* The JSScope constructor returns.  A dispatcher then calls the callback it
\* reads from its entry, which another thread may have deleted meanwhile.
EnterScope(t) ==
    /\ ~Idle(t) /\ Top(t).pc \in Waiting
    /\ Lock(t)
    /\ LET pc == Top(t).pc IN
       IF pc # "load" /\ entry[Top(t).e].freed
         THEN fault' = "freed" /\ UNCHANGED stack
         ELSE /\ Goto(t, CASE pc = "load" -> "script"
                           [] pc = "waitEnter" -> "inEnter"
                           [] pc = "waitLeave" -> "inLeave")
              /\ UNCHANGED fault
    /\ UNCHANGED <<hooked, stuck, entry, g_entries, work>>

\* The script or callback ends and the JSScope destructor runs.
LeaveScope(t) ==
    /\ RunsJS(t)
    /\ Unlock(t)
    /\ IF Top(t).pc = "inEnter" THEN Goto(t, "orig") ELSE Pop(t)
    /\ UNCHANGED <<hooked, stuck, entry, g_entries, work, fault>>
-----------------------------------------------------------------------------
(* A call of a hooked function *)

\* The call reaches the trampoline of the entry; a function that is not
\* hooked, or is replaced by native code, does not come back here.
Call(t, f) ==
    /\ CanCall(t) /\ Len(stack[t]) < MaxDepth /\ Spend(t)
    /\ hooked[f] # None /\ ~entry[hooked[f]].native
    /\ Push(t, Frame("enter", hooked[f]))
    /\ UNCHANGED <<owner, depth, hooked, stuck, entry, g_entries, fault>>

\* Mutation: the dispatcher does not wait for a busy engine.
EnterIfFree(t) ==
    IF entry[Top(t).e].enter /\ owner \in {None, t} THEN "waitEnter" ELSE "orig"

OnEnter(t) == IF entry[Top(t).e].enter THEN "waitEnter" ELSE "orig"

\* Both dispatchers read their callback before they take the lock, and
\* return without it when there is none.
DispatchOnEnter(t) ==
    /\ At(t, "enter")
    /\ IF entry[Top(t).e].freed
         THEN fault' = "freed" /\ UNCHANGED stack
         ELSE /\ Goto(t, OnEnter(t))
              /\ UNCHANGED fault
    /\ UNCHANGED <<owner, depth, hooked, stuck, entry, g_entries, work>>

\* The trampoline calls the address in its code: 0 until it is patched.
CallOriginal(t) ==
    /\ At(t, "orig")
    /\ IF entry[Top(t).e].patched
         THEN Goto(t, "leave") /\ UNCHANGED fault
         ELSE fault' = "null" /\ UNCHANGED stack
    /\ UNCHANGED <<owner, depth, hooked, stuck, entry, g_entries, work>>

DispatchOnLeave(t) ==
    /\ At(t, "leave")
    /\ IF entry[Top(t).e].freed
         THEN fault' = "freed" /\ UNCHANGED stack
         ELSE /\ IF entry[Top(t).e].leave THEN Goto(t, "waitLeave") ELSE Pop(t)
              /\ UNCHANGED fault
    /\ UNCHANGED <<owner, depth, hooked, stuck, entry, g_entries, work>>
-----------------------------------------------------------------------------
(* The Interceptor API, called from JavaScript *)

NewEntry(f, cb, native) ==
    [fn |-> f, enter |-> cb.enter, leave |-> cb.leave, native |-> native,
     patched |-> native, freed |-> FALSE]

\* js_attach allocates the entry and enters generate_trampolines.
Attach(t, f, cb) ==
    /\ RunsJS(t) /\ Len(stack[t]) < MaxDepth /\ Len(entry) < MaxEntries
    /\ Spend(t)
    /\ entry' = Append(entry, NewEntry(f, cb, FALSE))
    /\ Push(t, Frame("install", Len(entry) + 1))
    /\ UNCHANGED <<owner, depth, hooked, stuck, g_entries, fault>>

\* HookInstall refuses a hooked target and may fail (ok): attach deletes the
\* entry and throws.  Otherwise the hook is live from here on.
Install(t, ok) ==
    /\ At(t, "install")
    /\ LET e == Top(t).e
           f == entry[e].fn IN
       IF ok /\ hooked[f] = None
         THEN /\ hooked' = [hooked EXCEPT ![f] = e]
              /\ Goto(t, "patch") /\ UNCHANGED entry
         ELSE /\ entry' = [entry EXCEPT ![e].freed = TRUE]
              /\ Pop(t) /\ UNCHANGED hooked
    /\ UNCHANGED <<owner, depth, stuck, g_entries, work, fault>>

\* Mutation: the entry is not registered.
Unregistered(e) == g_entries

Registered(e) == Append(g_entries, e)

\* The original's address goes into the trampoline, the entry into g_entries.
Patch(t) ==
    /\ At(t, "patch")
    /\ entry' = [entry EXCEPT ![Top(t).e].patched = TRUE]
    /\ g_entries' = Registered(Top(t).e)
    /\ Pop(t)
    /\ UNCHANGED <<owner, depth, hooked, stuck, work, fault>>

\* js_replace with native code: no trampoline and no callbacks.  A failing
\* HookInstall throws before anything is allocated.
Replace(t, f) ==
    /\ RunsJS(t) /\ Len(entry) < MaxEntries /\ Spend(t)
    /\ hooked[f] = None
    /\ entry' = Append(entry, NewEntry(f, [enter |-> FALSE, leave |-> FALSE], TRUE))
    /\ hooked' = [hooked EXCEPT ![f] = Len(entry) + 1]
    /\ g_entries' = Append(g_entries, Len(entry) + 1)
    /\ UNCHANGED <<owner, depth, stuck, stack, fault>>

DetachAll(t) ==
    /\ RunsJS(t) /\ Len(stack[t]) < MaxDepth /\ Spend(t)
    /\ Push(t, Frame("detach", 0))
    /\ UNCHANGED <<owner, depth, hooked, stuck, entry, g_entries, fault>>

\* Mutation: the loop of detachAll does not unhook the target.
LeftHooked(f) == hooked

Unhooked(f) == [hooked EXCEPT ![f] = None]

\* For each entry in turn: HookUninstall, which may fail and leave the hook
\* live (ok) and whose result nobody looks at ...
Detach(t, ok) ==
    /\ At(t, "detach")
    /\ IF g_entries = <<>>
         THEN Pop(t) /\ UNCHANGED <<hooked, stuck>>
         ELSE LET f == entry[Head(g_entries)].fn IN
              /\ IF ok
                   THEN hooked' = Unhooked(f) /\ UNCHANGED stuck
                   ELSE stuck' = stuck \cup {f} /\ UNCHANGED hooked
              /\ Goto(t, "free")
    /\ UNCHANGED <<owner, depth, entry, g_entries, work, fault>>

\* ... then its callbacks are freed and the entry is deleted.
Free(t) ==
    /\ At(t, "free")
    /\ entry' = [entry EXCEPT ![Head(g_entries)].freed = TRUE]
    /\ g_entries' = Tail(g_entries)
    /\ Goto(t, "detach")
    /\ UNCHANGED <<owner, depth, hooked, stuck, work, fault>>
-----------------------------------------------------------------------------
\* What a thread does once it has begun: these steps need no decision.
Proceed(t) ==
    /\ fault = "none"
    /\ \/ EnterScope(t)
       \/ LeaveScope(t)
       \/ DispatchOnEnter(t)
       \/ CallOriginal(t)
       \/ DispatchOnLeave(t)
       \/ \E ok \in BOOLEAN : Install(t, ok)
       \/ Patch(t)
       \/ \E ok \in BOOLEAN : Detach(t, ok)
       \/ Free(t)

Decide(t) ==
    \/ t \in Scripters /\ LoadScript(t)
    \/ \E f \in Functions :
         \/ Call(t, f)
         \/ \E cb \in Callbacks : Attach(t, f, cb)
         \/ Replace(t, f)
    \/ DetachAll(t)

ScriptNext == \E t \in Threads : Proceed(t) \/ Decide(t)

ScriptSpec == ScriptInit /\ [][ScriptNext]_scriptVars

\* Every thread is scheduled and no script loops for ever (MaxWork).
FairSpec == ScriptSpec /\ \A t \in Threads : WF_scriptVars(Proceed(t))
-----------------------------------------------------------------------------
(* Properties *)

JSFrames(t) == {i \in DOMAIN stack[t] : stack[t][i].pc \in InJS}

\* JavaScript runs on one thread at a time, at any nesting of scripts, hook
\* callbacks and hooked calls made from them: only the owner of the JSScope
\* lock has JavaScript frames, and it holds the lock once for each of them
\* (js_scope.h, "All entry into QuickJS must go through this").
OneInJS ==
    fault = "none" =>
      /\ \A t \in Threads : JSFrames(t) # {} => owner = t
      /\ depth = IF owner = None THEN 0 ELSE Cardinality(JSFrames(owner))

\* generate_trampolines makes the hook live before it writes the original's
\* address into the trampoline.  A trampoline whose entry has an onEnter is
\* safe all the same: a thread that arrives early blocks on the JSScope lock
\* that the attaching script holds, and finds the address once it is through.
OrigKnown ==
    \A t \in Threads : \A i \in DOMAIN stack[t] :
      LET fr == stack[t][i] IN
      fr.pc = "orig" /\ entry[fr.e].enter => entry[fr.e].patched

\* The trampoline a function enters belongs to no deleted entry: attach
\* deletes an entry only if it was not installed, and detachAll unhooks the
\* target first, so a call that begins after detachAll is safe.  The exception
\* is a function that HookUninstall failed to unhook: detachAll ignores the
\* failure and deletes the entry under the live hook.
HookedAlive ==
    \A f \in Functions : hooked[f] # None =>
      entry[hooked[f]].fn = f /\ (entry[hooked[f]].freed => f \in stuck)

\* Between scripts, the live hooks are exactly the ones that g_entries lists,
\* each once, and the ones that HookUninstall failed to remove, which no list
\* knows any more: detachAll ("detachAll" of the README unhooks every function)
\* forgets no other, whatever attach and replace calls failed or raced before.
HooksTracked ==
    owner = None =>
      /\ {f \in Functions : hooked[f] # None} =
           {entry[e].fn : e \in Range(g_entries)} \cup stuck
      /\ \A i, j \in DOMAIN g_entries :
           entry[g_entries[i]].fn = entry[g_entries[j]].fn => i = j
      /\ \A e \in Range(g_entries) : entry[e].fn \notin stuck /\ ~entry[e].freed

\* A thread that waits for the lock, runs a callback or an API call gets to
\* the end of it: the lock is given back on every path and re-entered by its
\* owner, so scripts, callbacks and hooked calls never wait on each other in
\* a circle.
Finishes ==
    \A t \in Threads : ~Idle(t) ~> (Idle(t) \/ fault # "none")

\* No dispatcher reads an entry that detachAll has deleted.
NoUseAfterFree == fault # "freed"
=============================================================================
