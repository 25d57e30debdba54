----------------------------- MODULE HookBridge -----------------------------
(***************************************************************************)
(* HookBridge.java and MethodHook.java: the hooks of one Java method.      *)
(* Hookers run hookMethod and unhookMethod, callers call the method or     *)
(* invokeOriginalMethod.  `entries` is guarded by its monitor, the         *)
(* callbacks of an entry by a monitor of their own, dispatch takes neither.*)
(*                                                                         *)
(* LSPlant is what nHook and nUnhook make of it: reached is the object     *)
(* whose callback runs instead of the method.  A call of nHook that fails  *)
(* changes nothing: hookMethod throws.                                     *)
(***************************************************************************)
EXTENDS Common, Integers, Sequences

CONSTANTS
  Hookers, Callers,  \* threads
  Callbacks,         \* MethodHook objects
  Owns,              \* Owns[h]: the callbacks h hooks and unhooks
  Priority,          \* priority of each callback
  Width,             \* bits of an int
  MaxEntries         \* bound: HookEntry objects

ASSUME BridgeAssumption ==
  /\ Owns \in [Hookers -> SUBSET Callbacks]
  /\ Width \in Nat \ {0}
  /\ Priority \in [Callbacks -> -(2^(Width - 1))..2^(Width - 1) - 1]
  /\ MaxEntries \in Nat
  /\ None \notin Hookers \union (1..MaxEntries)

VARIABLES
  entries,    \* the HookEntry of the method in the map, or None
  lock,       \* the hooker in synchronized (entries), or None
  reached,    \* the HookEntry that calls of the method reach, or None
  created,    \* the last HookEntry created
  backup,     \* whether entry.backup is set
  callbacks,  \* entry.callbacks, highest priority first
  hk,         \* hookers: control, callback and entry
  call,       \* callers: control and locals of dispatch
  active,     \* the callbacks hookMethod returned for, not yet unhooked
  kept        \* those of them that were added to the entry in the map

ghosts == <<active, kept>>
bridgeVars == <<entries, lock, reached, created, backup, callbacks, hk, call, active, kept>>

EntryIds == 1..MaxEntries
NoCall == [pc |-> "idle", e |-> None, hooks |-> <<>>, idx |-> 0,
           out |-> <<"result", None>>, log |-> <<>>]

BridgeInit ==
  /\ entries = None /\ lock = None /\ reached = None /\ created = 0
  /\ backup = [e \in EntryIds |-> FALSE]
  /\ callbacks = [e \in EntryIds |-> <<>>]
  /\ hk = [h \in Hookers |-> [pc |-> "idle", cb |-> None, e |-> None]]
  /\ call = [c \in Callers |-> NoCall]
  /\ active = {} /\ kept = {}

MonitorStep(h, pc, cb, e) == hk' = [hk EXCEPT ![h] = [pc |-> pc, cb |-> cb, e |-> e]]
-----------------------------------------------------------------------------
\* An int subtraction.
Wrap(n) == ((n + 2^(Width - 1)) % 2^Width) - 2^(Width - 1)

\* Mutation: lowest priority first.
CompareToAscending(a, b) == Wrap(Priority[a] - Priority[b])

\* The hash codes that order callbacks of equal priority are arbitrary: 0.
CompareTo(a, b) == Wrap(Priority[b] - Priority[a])

\* Whether one of the elements equals the callback.
Has(s, cb) == \E i \in DOMAIN s : s[i] = cb

Insert(s, k, cb) ==
  [i \in 1..Len(s) + 1 |-> IF i < k THEN s[i] ELSE IF i = k THEN cb ELSE s[i - 1]]

\* CopyOnWriteSortedSet.add: Arrays.sort puts the new last element at a place
\* where it compares with its neighbours.
Adds(s, cb) ==
  IF Has(s, cb) THEN {s}
  ELSE {Insert(s, k, cb) : k \in {i \in 1..Len(s) + 1 :
          /\ i > 1 => CompareTo(cb, s[i - 1]) >= 0
          /\ i <= Len(s) => CompareTo(cb, s[i]) <= 0}}

\* hookMethod, when the method has an entry.
HookAgain(h, cb) ==
  /\ hk[h].pc = "idle" /\ lock = None /\ entries # None
  /\ MonitorStep(h, "add", cb, entries)
  /\ UNCHANGED <<entries, lock, reached, created, backup, callbacks, call, ghosts>>

\* hookMethod, when it has none: nHook makes the new entry reachable.
HookNew(h, cb) ==
  /\ hk[h].pc = "idle" /\ lock = None /\ entries = None
  /\ reached = None /\ created < MaxEntries
  /\ lock' = h
  /\ created' = created + 1
  /\ reached' = created'
  /\ MonitorStep(h, "put", cb, created')
  /\ UNCHANGED <<entries, backup, callbacks, call, ghosts>>

\* Mutation: the backup is not stored.
NoBackup(h) == backup

Backup(h) == [backup EXCEPT ![hk[h].e] = TRUE]

Put(h) ==
  /\ hk[h].pc = "put"
  /\ backup' = Backup(h)
  /\ entries' = hk[h].e
  /\ lock' = None
  /\ MonitorStep(h, "add", hk[h].cb, hk[h].e)
  /\ UNCHANGED <<reached, created, callbacks, call, ghosts>>

\* entry.callbacks.add, outside the monitor of entries.
AddCallback(h) ==
  /\ hk[h].pc = "add"
  /\ \E s \in Adds(callbacks[hk[h].e], hk[h].cb) :
       callbacks' = [callbacks EXCEPT ![hk[h].e] = s]
  /\ active' = active \union {hk[h].cb}
  /\ kept' = IF entries = hk[h].e THEN kept \union {hk[h].cb} ELSE kept
  /\ MonitorStep(h, "idle", None, None)
  /\ UNCHANGED <<entries, lock, reached, created, backup, call>>

\* Mutation: the array without the callback is not stored.
With(s, cb) == s

\* CopyOnWriteSortedSet.remove: the elements before and behind it.
Without(s, cb) ==
  LET k == CHOOSE i \in DOMAIN s : s[i] = cb IN
  IF Has(s, cb) THEN [i \in 1..Len(s) - 1 |-> s[IF i < k THEN i ELSE i + 1]] ELSE s

\* unhookMethod: the callback is removed if the entry has it.
Unhook(h, cb) ==
  /\ hk[h].pc = "idle" /\ lock = None
  /\ active' = active \ {cb} /\ kept' = kept \ {cb}
  /\ IF entries = None
     THEN UNCHANGED <<lock, callbacks, hk>>
     ELSE /\ lock' = h
          /\ callbacks' = [callbacks EXCEPT ![entries] = Without(@, cb)]
          /\ MonitorStep(h, "size", cb, entries)
  /\ UNCHANGED <<entries, reached, created, backup, call>>

\* Mutation: the entry goes with its first callback.
AnySize(e) == TRUE

Empty(e) == callbacks[e] = <<>>

\* Mutation: the entry stays in the map.
Unremoved(e) == e

\* The entry of the method after entries.remove(method).
Removed(e) == None

\* if (entry.callbacks.size() == 0) entries.remove(method)
Size(h) ==
  /\ hk[h].pc = "size"
  /\ IF Empty(hk[h].e)
     THEN /\ entries' = Removed(hk[h].e)
          /\ MonitorStep(h, "nUnhook", hk[h].cb, hk[h].e)
          /\ UNCHANGED lock
     ELSE /\ MonitorStep(h, "idle", None, None)
          /\ lock' = None
          /\ UNCHANGED entries
  /\ UNCHANGED <<reached, created, backup, callbacks, call, ghosts>>

NUnhook(h) ==
  /\ hk[h].pc = "nUnhook"
  /\ reached' = None
  /\ lock' = None
  /\ MonitorStep(h, "idle", None, None)
  /\ UNCHANGED <<entries, created, backup, callbacks, call, ghosts>>
-----------------------------------------------------------------------------
Event(kind, by, did) == <<[kind |-> kind, by |-> by, did |-> did]>>
Original(did) == Event("original", "original", did)

\* A call of the method, or of invokeOriginalMethod when it found no entry.
Invoke(c, direct) ==
  /\ call[c].pc = IF direct THEN "resolved" ELSE "idle"
  /\ IF reached \in EntryIds
     THEN call' = [call EXCEPT ![c] = [NoCall EXCEPT !.pc = "dispatch", !.e = reached]]
     ELSE call' = [call EXCEPT ![c] = [NoCall EXCEPT !.pc = "returned",
                     !.out = <<"result", "original">>, !.log = Original("result")]]
  /\ UNCHANGED <<entries, lock, reached, created, backup, callbacks, hk, ghosts>>

\* invokeOriginalMethod looks the entry up without the monitor.
InvokeOriginal(c) ==
  /\ call[c].pc = "idle"
  /\ call' = [call EXCEPT ![c].e = entries,
                          ![c].pc = IF entries = None THEN "resolved" ELSE "original"]
  /\ UNCHANGED <<entries, lock, reached, created, backup, callbacks, hk, ghosts>>

\* dispatch reads the callbacks once.
Snapshot(c) ==
  /\ call[c].pc = "dispatch"
  /\ LET s == callbacks[call[c].e] IN
     call' = [call EXCEPT ![c].hooks = s,
                          ![c].pc = IF s = <<>> THEN "original" ELSE "before",
                          ![c].idx = IF s = <<>> THEN 0 ELSE 1]
  /\ UNCHANGED <<entries, lock, reached, created, backup, callbacks, hk, ghosts>>

\* What a callback makes of param: nothing, setResult or setThrowable.
Did == {"keeps", "result", "throwable"}
Outcome(c, did) ==
  IF did = "keeps" THEN call[c].out ELSE <<did, call[c].hooks[call[c].idx]>>

\* A before callback; when it throws, what it set is dropped.
Before(c, did, throws) ==
  LET early == did # "keeps" /\ ~throws
      more == call[c].idx < Len(call[c].hooks)
  IN
  /\ call[c].pc = "before"
  /\ call' = [call EXCEPT
       ![c].out = IF throws THEN <<"result", None>> ELSE Outcome(c, did),
       ![c].pc = IF early THEN "after" ELSE IF more THEN "before" ELSE "original",
       ![c].idx = IF ~early /\ more THEN @ + 1 ELSE @,
       ![c].log = @ \o Event("before", call[c].hooks[call[c].idx],
                             IF throws THEN "throws" ELSE did)]
  /\ UNCHANGED <<entries, lock, reached, created, backup, callbacks, hk, ghosts>>

\* The backup is invoked.  It returns or throws; or invoke itself fails, on a
\* backup that is still null or on arguments a callback changed, and the call
\* ends there.
RunOriginal(c, did) ==
  LET fails == ~backup[call[c].e] \/ did = "keeps" IN
  /\ call[c].pc = "original"
  /\ did = "keeps" => call[c].hooks # <<>>
  /\ call' = [call EXCEPT
       ![c].pc = IF fails \/ call[c].hooks = <<>> THEN "returned" ELSE "after",
       ![c].out = IF fails THEN <<"throwable", None>> ELSE <<did, "original">>,
       ![c].log = IF fails THEN @ ELSE @ \o Original(did)]
  /\ UNCHANGED <<entries, lock, reached, created, backup, callbacks, hk, ghosts>>

\* Mutation: what a failing after callback set is kept.
OutcomeKept(c, did, throws) == Outcome(c, did)

OutcomeAfter(c, did, throws) == IF throws THEN call[c].out ELSE Outcome(c, did)

\* Mutation: the first callback is left out.
MoreButOne(c) == call[c].idx > 2

MoreAfter(c) == call[c].idx > 1

\* An after callback; when it throws, the last result or throwable is restored.
After(c, did, throws) ==
  /\ call[c].pc = "after"
  /\ call' = [call EXCEPT
       ![c].out = OutcomeAfter(c, did, throws),
       ![c].pc = IF MoreAfter(c) THEN "after" ELSE "returned",
       ![c].idx = @ - 1,
       ![c].log = @ \o Event("after", call[c].hooks[call[c].idx],
                             IF throws THEN "throws" ELSE did)]
  /\ UNCHANGED <<entries, lock, reached, created, backup, callbacks, hk, ghosts>>

\* returnType.cast: a result that a callback set may be of another type, and
\* then the call throws instead.
CastFails(c) ==
  /\ call[c].pc = "returned" /\ call[c].out[1] = "result" /\ call[c].out[2] \in Callbacks
  /\ call' = [call EXCEPT ![c].out = <<"throwable", None>>]
  /\ UNCHANGED <<entries, lock, reached, created, backup, callbacks, hk, ghosts>>

Return(c) ==
  /\ call[c].pc = "returned"
  /\ call' = [call EXCEPT ![c] = NoCall]
  /\ UNCHANGED <<entries, lock, reached, created, backup, callbacks, hk, ghosts>>

BridgeNext ==
  \/ \E h \in Hookers : \/ Put(h) \/ AddCallback(h) \/ Size(h) \/ NUnhook(h)
                        \/ \E cb \in Owns[h] : HookNew(h, cb) \/ HookAgain(h, cb) \/ Unhook(h, cb)
  \/ \E c \in Callers :
       \/ \E direct \in BOOLEAN : Invoke(c, direct)
       \/ InvokeOriginal(c) \/ Snapshot(c) \/ CastFails(c) \/ Return(c)
       \/ \E did \in Did : \/ RunOriginal(c, did)
                           \/ \E throws \in BOOLEAN : Before(c, did, throws) \/ After(c, did, throws)

BridgeSpec == BridgeInit /\ [][BridgeNext]_bridgeVars
-----------------------------------------------------------------------------
Returned(c) == call[c].pc = "returned" /\ call[c].out # <<"throwable", None>>
Decides(ev) == ev.did \in {"result", "throwable"}
Is(ev, kind, by) == ev.kind = kind /\ ev.by = by

\* dispatch nests the callbacks: those whose before callback ran are the first n
\* of the array, and their after callbacks ran in reverse order; in between the
\* original ran once, unless a before callback set the outcome, and then no
\* later callback ran.
Nested ==
  \A c \in Callers : Returned(c) =>
    LET log == call[c].log
        hooks == call[c].hooks
    IN \E n \in 0..Len(hooks), orig \in {0, 1} :
         /\ Len(log) = n + orig + n
         /\ \A i \in 1..n : /\ Is(log[i], "before", hooks[i])
                            /\ Decides(log[i]) <=> i = n /\ orig = 0
                            /\ Is(log[n + orig + i], "after", hooks[n + 1 - i])
         /\ orig = 1 => n = Len(hooks) /\ Is(log[n + 1], "original", "original")
         /\ orig = 0 => n > 0

\* The outcome of a call is the one set last by the original or by a callback
\* that did not throw: "highest priority runs last = final control".  (A result
\* of another type than the method's makes the call throw instead.)
FinalControl ==
  \A c \in Callers : Returned(c) =>
    LET log == call[c].log
    IN \E i \in DOMAIN log : /\ Decides(log[i]) /\ call[c].out = <<log[i].did, log[i].by>>
                            /\ \A j \in DOMAIN log : j > i => ~Decides(log[j])

\* Callbacks are called "highest priority first".
HighestFirst ==
  \A c \in Callers : \A i, j \in DOMAIN call[c].hooks :
    i < j => Priority[call[c].hooks[i]] >= Priority[call[c].hooks[j]]

\* isHooked tells the truth outside synchronized (entries), and the entry it
\* finds can run the original.
IsHookedTrue ==
  lock = None => entries = reached /\ (entries # None => backup[entries])

\* A callback that hookMethod returned for is one "to execute when the hooked
\* method is called", until it is unhooked.
HookTakesEffect ==
  \A cb \in active : reached # None /\ Has(callbacks[reached], cb)

\* A callback added to the entry in the map is reached by calls until it is
\* unhooked: an unhookMethod of another callback that is under way does not
\* take the entry away.
HookStays ==
  \A cb \in kept : reached # None /\ Has(callbacks[reached], cb)

\* A call that reaches the installed entry after unhookMethod returned does not
\* run the callback.
NoLateCallback ==
  [][\A c \in Callers :
       call[c].pc = "dispatch" /\ call'[c].pc # "dispatch" /\ reached = call[c].e =>
         \A i \in DOMAIN call'[c].hooks : call'[c].hooks[i] \in active]_bridgeVars

\* A call that no callback saw runs the method, unless it came while hookMethod
\* had not stored the backup yet.
FailsOnlyInHook ==
  [][\A c \in Callers :
       call[c].pc # "returned" /\ call'[c].pc = "returned" /\ call'[c].hooks = <<>> =>
         \/ call'[c].log = Original(call'[c].out[1])
         \/ \E h \in Hookers : hk[h].pc = "put"]_bridgeVars
=============================================================================
