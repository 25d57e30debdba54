-------------------------- MODULE HookBridgeProofs --------------------------
(***************************************************************************)
(* HookBridge's map and LSPlant agree, and a call dispatches to the        *)
(* callbacks of its entry as documented, whatever hookers and callers do.  *)
(***************************************************************************)
EXTENDS HookBridge, TLAPS

Holds == {"put", "size", "nUnhook"}

Types ==
  /\ created \in 0..MaxEntries
  /\ entries \in EntryIds \union {None}
  /\ reached \in EntryIds \union {None}
  /\ backup \in [EntryIds -> BOOLEAN]
  /\ lock \in Hookers \union {None}
  /\ hk \in [Hookers -> [pc : {"idle", "put", "add", "size", "nUnhook"},
                         cb : Callbacks \union {None}, e : EntryIds \union {None}]]

\* The holder of the monitor is where its control says, and the map and
\* LSPlant are as that step needs them.
Monitor ==
  \A h \in Hookers :
    /\ hk[h].pc \in Holds <=> lock = h
    /\ hk[h].pc # "idle" => hk[h].e \in EntryIds
    /\ hk[h].pc = "put" => entries = None /\ reached = hk[h].e
    /\ hk[h].pc = "size" => entries = hk[h].e /\ reached = hk[h].e /\ backup[hk[h].e]
    /\ hk[h].pc = "nUnhook" => entries = None /\ reached = hk[h].e

IInv == Types /\ Monitor /\ IsHookedTrue

\* Entries are created in order, and all have a backup but the one that is
\* being put in the map.
Created ==
  /\ callbacks \in [EntryIds -> Seq(Callbacks)]
  /\ \A e \in EntryIds : e > created => callbacks[e] = <<>>
  /\ entries # None => entries <= created
  /\ reached # None => reached <= created
  /\ \A h \in Hookers : hk[h].pc # "idle" => hk[h].e <= created /\ hk[h].cb \in Callbacks
  /\ \A e \in EntryIds : e <= created =>
       backup[e] \/ \E h \in Hookers : hk[h].pc = "put" /\ hk[h].e = e

\* An entry has a callback once.
Distinct(s) == \A i, j \in DOMAIN s : s[i] = s[j] => i = j

\* The installed entry has the callbacks that were added to the entry in the
\* map, and none that was unhooked.
Reaches ==
  /\ \A e \in EntryIds : Distinct(callbacks[e])
  /\ \A cb \in kept : entries # None /\ Has(callbacks[entries], cb)
  /\ reached # None => \A i \in DOMAIN callbacks[reached] : callbacks[reached][i] \in active

Inv2 == IInv /\ Created /\ Reaches

\* What a call has logged: n before callbacks, the original if orig = 1, and m
\* after callbacks.
Events == [kind : {"before", "original", "after"}, by : Callbacks \union {"original"},
           did : Did \union {"throws"}]

Shape(r, n, orig, m) ==
  /\ Len(r.log) = n + orig + m
  /\ \A i \in 1..n : /\ Is(r.log[i], "before", r.hooks[i])
                     /\ Decides(r.log[i]) <=> i = n /\ orig = 0
  /\ \A i \in 1..m : Is(r.log[n + orig + i], "after", r.hooks[n + 1 - i])
  /\ orig = 1 => n = Len(r.hooks) /\ Is(r.log[n + 1], "original", "original")
  /\ orig = 0 => n > 0

\* The before callbacks so far have kept the outcome.
Undecided(r, n) ==
  /\ Len(r.log) = n
  /\ \A i \in 1..n : Is(r.log[i], "before", r.hooks[i]) /\ ~Decides(r.log[i])

Decided(r) ==
  \E i \in DOMAIN r.log : /\ Decides(r.log[i]) /\ r.out = <<r.log[i].did, r.log[i].by>>
                         /\ \A j \in DOMAIN r.log : j > i => ~Decides(r.log[j])

IsCall(r) ==
  /\ r = [pc |-> r.pc, e |-> r.e, hooks |-> r.hooks, idx |-> r.idx, out |-> r.out, log |-> r.log]
  /\ r.hooks \in Seq(Callbacks) /\ r.log \in Seq(Events)

\* How far dispatch is in a call.
Progress(r) ==
  /\ r.pc = "idle" => r = NoCall
  /\ r.pc \in {"resolved", "dispatch"} => r.hooks = <<>> /\ r.log = <<>>
  /\ r.pc \in {"dispatch", "before", "original", "after"} => r.e \in EntryIds /\ r.e <= created
  /\ r.pc = "before" => r.idx \in 1..Len(r.hooks) /\ Undecided(r, r.idx - 1)
  /\ r.pc = "original" => r.idx = Len(r.hooks) /\ Undecided(r, r.idx)
  /\ r.pc = "after" =>
       \E n \in 1..Len(r.hooks), orig \in {0, 1} :
         r.idx \in 1..n /\ Shape(r, n, orig, n - r.idx) /\ Decided(r)
  /\ r.pc = "returned" /\ r.out # <<"throwable", None>> =>
       \E n \in 0..Len(r.hooks), orig \in {0, 1} : Shape(r, n, orig, n) /\ Decided(r)
  /\ r.pc \in {"idle", "resolved", "dispatch", "before", "original", "after", "returned"}

Dispatches ==
  DOMAIN call = Callers /\ \A c \in Callers : IsCall(call[c]) /\ Progress(call[c])

\* Highest priority first.
Sorted(s) == \A i, j \in DOMAIN s : i < j => Priority[s[i]] >= Priority[s[j]]

AllSorted ==
  (\A e \in EntryIds : Sorted(callbacks[e])) /\ \A c \in Callers : Sorted(call[c].hooks)

-----------------------------------------------------------------------------
(* The monitor *)

\* The leaves are for Zenon unless they say SMT.
USE Zenon

\* Before any hook: no entry, nothing installed, the monitor free.
LEMMA InitIInv == BridgeInit => IInv
  BY BridgeAssumption, SMT DEF BridgeInit, IInv, Types, Monitor, IsHookedTrue, EntryIds, Holds

\* Steps that only touch the callbacks, the calls and the ghost.
LEMMA Untouched ==
  ASSUME IInv, UNCHANGED <<entries, lock, reached, created, backup, hk>>
  PROVE  IInv'
  BY DEF IInv, Types, Monitor, IsHookedTrue

\* nHook in hookMethod: the monitor is held until the entry is in the map.
LEMMA HookKeeps ==
  ASSUME IInv, NEW h \in Hookers, NEW cb \in Callbacks, HookNew(h, cb)
  PROVE  IInv'
  BY BridgeAssumption, SMT DEF IInv, Types, Monitor, IsHookedTrue, HookNew, MonitorStep, EntryIds, Holds

\* hookMethod on a hooked method leaves the map alone.
LEMMA HookAgainKeeps ==
  ASSUME IInv, NEW h \in Hookers, NEW cb \in Callbacks, HookAgain(h, cb)
  PROVE  IInv'
  BY BridgeAssumption DEF IInv, Types, Monitor, IsHookedTrue, HookAgain, MonitorStep, EntryIds, Holds

\* entry.backup and entries.put, then the monitor is released.
LEMMA PutKeeps ==
  ASSUME IInv, NEW h \in Hookers, Put(h)
  PROVE  IInv'
  BY BridgeAssumption DEF IInv, Types, Monitor, IsHookedTrue, Put, Backup, MonitorStep, EntryIds, Holds

\* callbacks.add, without the monitor, leaves the map alone.
LEMMA AddCallbackKeeps ==
  ASSUME IInv, NEW h \in Hookers, AddCallback(h)
  PROVE  IInv'
  BY BridgeAssumption DEF IInv, Types, Monitor, IsHookedTrue, AddCallback, MonitorStep, EntryIds, Holds

\* unhookMethod enters the monitor and removes the callback.
LEMMA UnhookKeepsIInv ==
  ASSUME IInv, NEW h \in Hookers, NEW cb \in Callbacks, Unhook(h, cb)
  PROVE  IInv'
<1>1. CASE entries = None
  BY <1>1, Untouched DEF Unhook
<1>2. CASE entries # None
  <2>1. /\ lock = None /\ lock' = h /\ hk[h].pc = "idle"
        /\ hk' = [hk EXCEPT ![h] = [pc |-> "size", cb |-> cb, e |-> entries]]
        /\ UNCHANGED <<entries, reached, created, backup>>
    BY <1>2 DEF Unhook, MonitorStep
  <2>2. QED
    BY <2>1, <1>2, BridgeAssumption DEF IInv, Types, Monitor, IsHookedTrue, EntryIds, Holds
<1>3. QED
  BY <1>1, <1>2

\* unhookMethod takes an entry without callbacks out of the map.
LEMMA SizeKeeps ==
  ASSUME IInv, NEW h \in Hookers, Size(h)
  PROVE  IInv'
  BY BridgeAssumption, SMT DEF IInv, Types, Monitor, IsHookedTrue, Size, Removed, MonitorStep, EntryIds, Holds

\* nUnhook, then the monitor is released.
LEMMA NUnhookKeeps ==
  ASSUME IInv, NEW h \in Hookers, NUnhook(h)
  PROVE  IInv'
  BY BridgeAssumption DEF IInv, Types, Monitor, IsHookedTrue, NUnhook, MonitorStep, EntryIds, Holds

\* Every step of hookers and callers keeps the inductive invariant.
LEMMA NextKeeps ==
  ASSUME IInv, [BridgeNext]_bridgeVars
  PROVE  IInv'
<1>1. ASSUME NEW h \in Hookers, Put(h) \/ AddCallback(h) \/ Size(h) \/ NUnhook(h)
      PROVE  IInv'
  BY <1>1, PutKeeps, AddCallbackKeeps, SizeKeeps, NUnhookKeeps
<1>2. ASSUME NEW h \in Hookers, NEW cb \in Owns[h],
             HookNew(h, cb) \/ HookAgain(h, cb) \/ Unhook(h, cb)
      PROVE  IInv'
  <2>1. cb \in Callbacks
    BY BridgeAssumption
  <2>2. QED
    BY <1>2, <2>1, HookKeeps, HookAgainKeeps, UnhookKeepsIInv
<1>3. ASSUME NEW c \in Callers,
             \/ \E direct \in BOOLEAN : Invoke(c, direct)
             \/ InvokeOriginal(c) \/ Snapshot(c) \/ CastFails(c) \/ Return(c)
             \/ \E did \in Did : \/ RunOriginal(c, did)
                                 \/ \E throws \in BOOLEAN : \/ Before(c, did, throws)
                                                          \/ After(c, did, throws)
      PROVE  IInv'
  <2>1. UNCHANGED <<entries, lock, reached, created, backup, hk>>
    BY <1>3 DEF Invoke, InvokeOriginal, Snapshot, CastFails, Return, RunOriginal, Before, After
  <2>2. QED
    BY <2>1, Untouched
<1>4. CASE UNCHANGED bridgeVars
  BY <1>4, Untouched DEF bridgeVars
<1>5. QED
  BY <1>1, <1>2, <1>3, <1>4 DEF BridgeNext

\* Outside synchronized (entries), isHooked is true exactly when LSPlant sends
\* the calls of the method to the entry in the map, and that entry can run
\* the original: for any number of hookers, callers and callbacks.
THEOREM HookedTruthful == BridgeSpec => []IsHookedTrue
<1>1. BridgeInit => IInv
  BY InitIInv
<1>2. IInv /\ [BridgeNext]_bridgeVars => IInv'
  BY NextKeeps
<1>3. IInv => IsHookedTrue
  BY DEF IInv
<1>4. QED
  BY <1>1, <1>2, <1>3, PTL DEF BridgeSpec
-----------------------------------------------------------------------------
(* The callbacks of an entry *)

\* CopyOnWriteSortedSet.add puts the callback in once, between the others.
LEMMA Inserted ==
  ASSUME NEW s \in Seq(Callbacks), NEW cb \in Callbacks, Distinct(s), ~Has(s, cb),
         NEW k \in 1..Len(s) + 1
  PROVE  /\ Insert(s, k, cb) \in Seq(Callbacks) /\ Distinct(Insert(s, k, cb))
         /\ \A x : Has(Insert(s, k, cb), x) <=> Has(s, x) \/ x = cb
<1> DEFINE t == Insert(s, k, cb)
<1>1. /\ t \in Seq(Callbacks) /\ DOMAIN t = 1..Len(s) + 1 /\ DOMAIN s = 1..Len(s) /\ Len(s) \in Nat
      /\ \A i \in 1..Len(s) + 1 : t[i] = IF i < k THEN s[i] ELSE IF i = k THEN cb ELSE s[i - 1]
  BY SMT DEF Insert
<1> HIDE DEF t
<1>2. \A i \in 1..Len(s) + 1 : i < k => i \in 1..Len(s)
  BY <1>1, SMT
<1>3. \A i \in 1..Len(s) + 1 : i > k => i - 1 \in 1..Len(s) /\ i - 1 >= k
  BY <1>1, SMT
<1>4. Distinct(t)
  <2> SUFFICES ASSUME NEW i \in 1..Len(s) + 1, NEW j \in 1..Len(s) + 1, t[i] = t[j], i < j
               PROVE  FALSE
    BY <1>1, SMT DEF Distinct
  <2>1. CASE j = k
    BY <1>1, <1>2, <2>1, SMT DEF Has
  <2>2. CASE i = k
    BY <1>1, <1>3, <2>2, SMT DEF Has
  <2>3. CASE i < k /\ j < k
    BY <1>1, <1>2, <2>3, SMT DEF Distinct
  <2>4. CASE i < k /\ j > k
    BY <1>1, <1>2, <1>3, <2>4, SMTT(20) DEF Distinct
  <2>5. CASE i > k /\ j > k
    <3>1. i - 1 \in DOMAIN s /\ j - 1 \in DOMAIN s /\ s[i - 1] = s[j - 1]
      BY <1>1, <1>3, <2>5, SMT
    <3>2. i - 1 = j - 1
      BY <3>1 DEF Distinct
    <3> QED
      BY <3>2, SMT
  <2> QED
    BY <1>1, <2>1, <2>2, <2>3, <2>4, <2>5, SMT
<1>5. ASSUME NEW x PROVE Has(t, x) <=> Has(s, x) \/ x = cb
  <2>1. Has(t, x) => Has(s, x) \/ x = cb
    BY <1>1, <1>2, <1>3, SMT DEF Has
  <2>2. x = cb => Has(t, x)
    BY <1>1, SMT DEF Has
  <2>3. ASSUME NEW i \in 1..Len(s), s[i] = x PROVE Has(t, x)
    <3>1. CASE i < k
      BY <1>1, <2>3, <3>1, SMT DEF Has
    <3>2. CASE ~(i < k)
      <4>1. i + 1 \in 1..Len(s) + 1 /\ ~(i + 1 < k) /\ i + 1 # k /\ i + 1 - 1 = i
        BY <1>1, <3>2, SMT
      <4>2. t[i + 1] = s[i]
        BY <1>1, <4>1, SMT
      <4> QED
        BY <1>1, <2>3, <4>1, <4>2 DEF Has
    <3> QED
      BY <3>1, <3>2
  <2> QED
    BY <1>1, <2>1, <2>2, <2>3 DEF Has
<1> QED
  BY <1>1, <1>4, <1>5 DEF t

LEMMA Added ==
  ASSUME NEW s \in Seq(Callbacks), NEW cb \in Callbacks, Distinct(s), NEW t \in Adds(s, cb)
  PROVE  t \in Seq(Callbacks) /\ Distinct(t) /\ \A x : Has(t, x) <=> Has(s, x) \/ x = cb
<1>1. CASE Has(s, cb)
  BY <1>1 DEF Adds
<1>2. CASE ~Has(s, cb)
  <2>1. PICK k \in 1..Len(s) + 1 : t = Insert(s, k, cb)
    BY <1>2 DEF Adds
  <2> QED
    BY <1>2, <2>1, Inserted
<1> QED
  BY <1>1, <1>2

\* CopyOnWriteSortedSet.remove takes it out and leaves the others in order.
LEMMA Taken ==
  ASSUME NEW s \in Seq(Callbacks), NEW cb \in Callbacks, Distinct(s)
  PROVE  /\ Without(s, cb) \in Seq(Callbacks) /\ Distinct(Without(s, cb))
         /\ \A x : Has(Without(s, cb), x) <=> Has(s, x) /\ x # cb
         /\ \E k \in Nat : \A i \in DOMAIN Without(s, cb) :
              Without(s, cb)[i] = s[IF i < k THEN i ELSE i + 1] /\ (IF i < k THEN i ELSE i + 1) \in DOMAIN s
<1> DEFINE t == Without(s, cb)
<1>1. CASE ~Has(s, cb)
  <2>1. t = s /\ DOMAIN s = 1..Len(s) /\ Len(s) \in Nat
    BY <1>1, SMT DEF Without
  <2>2. \A i \in DOMAIN s : i < Len(s) + 1
    BY <2>1, SMT
  <2>3. Len(s) + 1 \in Nat
    BY <2>1, SMT
  <2> QED
    BY <1>1, <2>1, <2>2, <2>3
<1>2. CASE Has(s, cb)
  <2>1. PICK k \in DOMAIN s : s[k] = cb /\ t = [i \in 1..Len(s) - 1 |-> s[IF i < k THEN i ELSE i + 1]]
    BY <1>2 DEF Has, Without
  <2>2. /\ t \in Seq(Callbacks) /\ DOMAIN t = 1..Len(s) - 1 /\ DOMAIN s = 1..Len(s) /\ Len(s) \in Nat
        /\ k \in 1..Len(s) /\ k \in Nat
        /\ \A i \in 1..Len(s) - 1 : t[i] = s[IF i < k THEN i ELSE i + 1]
    BY <2>1, SMT
  <2> HIDE DEF t
  <2> DEFINE at(i) == IF i < k THEN i ELSE i + 1
  <2>3. /\ \A i \in 1..Len(s) - 1 : at(i) \in 1..Len(s) /\ at(i) # k /\ t[i] = s[at(i)]
        /\ \A i, j \in 1..Len(s) - 1 : at(i) = at(j) => i = j
    BY <2>2, SMT
  <2>4. Distinct(t)
    <3> HIDE DEF at
    <3> QED
      BY <2>2, <2>3, SMT DEF Distinct
  <2>5. ASSUME NEW x PROVE Has(t, x) <=> Has(s, x) /\ x # cb
    <3>1. Has(t, x) => Has(s, x) /\ x # cb
      <4> HIDE DEF at
      <4> QED
        BY <2>1, <2>2, <2>3, SMT DEF Has, Distinct
    <3>2. ASSUME NEW i \in 1..Len(s), s[i] = x, i # k PROVE Has(t, x)
      <4>1. CASE i < k
        <5>1. i \in 1..Len(s) - 1
          BY <2>2, <4>1, SMT
        <5> QED
          BY <2>2, <3>2, <4>1, <5>1 DEF Has
      <4>2. CASE i > k
        <5>1. i - 1 \in 1..Len(s) - 1 /\ ~(i - 1 < k) /\ i - 1 + 1 = i
          BY <2>2, <4>2, SMT
        <5> QED
          BY <2>2, <3>2, <5>1 DEF Has
      <4> QED
        BY <2>2, <3>2, <4>1, <4>2, SMT
    <3> QED
      BY <2>1, <2>2, <3>1, <3>2 DEF Has
  <2>6. \A i \in DOMAIN t : t[i] = s[IF i < k THEN i ELSE i + 1] /\ (IF i < k THEN i ELSE i + 1) \in DOMAIN s
    BY <2>2, <2>3
  <2> HIDE DEF at
  <2> QED
    BY <2>2, <2>4, <2>5, <2>6 DEF t
<1> QED
  BY <1>1, <1>2
-----------------------------------------------------------------------------
(* The callbacks that calls reach *)

\* Before any hook no entry exists.
LEMMA InitInv2 == BridgeInit => Inv2
<1> SUFFICES ASSUME BridgeInit PROVE Inv2
  OBVIOUS
<1>1. Created
  BY BridgeAssumption, SMT DEF BridgeInit, Created, EntryIds
<1>2. Reaches
  BY SMT DEF BridgeInit, Reaches, Distinct
<1> QED
  BY <1>1, <1>2, InitIInv DEF Inv2

\* The calls leave the entries alone.
LEMMA CallsKeep ==
  ASSUME Inv2, UNCHANGED <<entries, lock, reached, created, backup, callbacks, hk, ghosts>>
  PROVE  Created' /\ Reaches'
  BY DEF Inv2, Created, Reaches, Distinct, Has, ghosts

\* hookMethod with nHook: the new entry has no callbacks yet.
LEMMA HookCreates ==
  ASSUME Inv2, NEW h \in Hookers, NEW cb \in Callbacks, HookNew(h, cb)
  PROVE  Created' /\ Reaches'
<1> USE DEF Inv2
<1>1. /\ hk[h].pc = "idle" /\ entries = None /\ created < MaxEntries /\ reached' = created + 1
      /\ created' = created + 1 /\ hk' = [hk EXCEPT ![h] = [pc |-> "put", cb |-> cb, e |-> created + 1]]
      /\ UNCHANGED <<entries, backup, callbacks, active, kept>>
  BY DEF HookNew, MonitorStep, ghosts
<1>2. created \in Nat /\ created + 1 \in EntryIds /\ EntryIds \subseteq Nat
  BY <1>1, BridgeAssumption, SMT DEF IInv, Types, EntryIds
<1>3. /\ hk'[h] = [pc |-> "put", cb |-> cb, e |-> created + 1]
      /\ \A g \in Hookers : g # h => hk'[g] = hk[g]
  BY <1>1 DEF IInv, Types
<1>4. \A g \in Hookers : hk'[g].pc # "idle" => hk'[g].e <= created' /\ hk'[g].cb \in Callbacks
  <2>1. \A g \in Hookers : hk[g].pc # "idle" => hk[g].e \in Nat
    BY <1>2 DEF IInv, Monitor
  <2> QED
    BY <1>1, <1>2, <1>3, <2>1, SMT DEF Created
<1>5. ASSUME NEW e \in EntryIds, e <= created'
      PROVE  backup[e] \/ \E g \in Hookers : hk'[g].pc = "put" /\ hk'[g].e = e
  <2>1. CASE e = created + 1
    BY <1>3, <2>1, SMT
  <2>2. CASE e # created + 1
    <3>1. e <= created
      BY <1>1, <1>2, <1>5, <2>2, SMT
    <3> QED
      BY <1>1, <1>3, <3>1, SMT DEF Created
  <2> QED
    BY <2>1, <2>2
<1>6. Created'
  BY <1>1, <1>2, <1>4, <1>5, SMT DEF Created
<1>7. callbacks[created + 1] = <<>>
  BY <1>2, SMT DEF Created
<1> QED
  BY <1>1, <1>2, <1>6, <1>7, SMT DEF Reaches

\* hookMethod on a hooked method.
LEMMA HookAgainCreates ==
  ASSUME Inv2, NEW h \in Hookers, NEW cb \in Callbacks, HookAgain(h, cb)
  PROVE  Created' /\ Reaches'
<1> USE DEF Inv2
<1>1. /\ hk[h].pc = "idle" /\ entries # None
      /\ hk' = [hk EXCEPT ![h] = [pc |-> "add", cb |-> cb, e |-> entries]]
      /\ UNCHANGED <<entries, reached, created, backup, callbacks, active, kept>>
  BY DEF HookAgain, MonitorStep, ghosts
<1>2. /\ hk'[h] = [pc |-> "add", cb |-> cb, e |-> entries]
      /\ \A g \in Hookers : g # h => hk'[g] = hk[g]
  BY <1>1 DEF IInv, Types
<1> QED
  BY <1>1, <1>2, SMT DEF Created, Reaches

\* The entry gets its backup and goes to the map.
LEMMA PutCreates ==
  ASSUME Inv2, NEW h \in Hookers, Put(h)
  PROVE  Created' /\ Reaches'
<1> USE DEF Inv2
<1>1. /\ hk[h].pc = "put" /\ entries' = hk[h].e /\ backup' = [backup EXCEPT ![hk[h].e] = TRUE]
      /\ hk' = [hk EXCEPT ![h] = [pc |-> "add", cb |-> hk[h].cb, e |-> hk[h].e]]
      /\ UNCHANGED <<reached, created, callbacks, active, kept>>
  BY DEF Put, Backup, MonitorStep, ghosts
<1>2. /\ hk'[h] = [pc |-> "add", cb |-> hk[h].cb, e |-> hk[h].e]
      /\ \A g \in Hookers : g # h => hk'[g] = hk[g]
      /\ hk[h].e \in EntryIds /\ hk[h].e <= created /\ hk[h].cb \in Callbacks /\ entries = None
  BY <1>1 DEF IInv, Types, Monitor, Created
<1>3. backup'[hk[h].e] /\ \A e \in EntryIds : backup[e] => backup'[e]
  BY <1>1, <1>2 DEF IInv, Types
<1>4. Created'
  BY <1>1, <1>2, <1>3, SMT DEF Created
<1> QED
  BY <1>1, <1>2, <1>4 DEF Reaches

\* callbacks.add.
LEMMA AddReaches ==
  ASSUME Inv2, NEW h \in Hookers, AddCallback(h)
  PROVE  Created' /\ Reaches'
<1> USE DEF Inv2
<1>1. PICK s \in Adds(callbacks[hk[h].e], hk[h].cb) : callbacks' = [callbacks EXCEPT ![hk[h].e] = s]
  BY DEF AddCallback
<1>2. /\ hk[h].pc = "add" /\ active' = active \union {hk[h].cb}
      /\ kept' = IF entries = hk[h].e THEN kept \union {hk[h].cb} ELSE kept
      /\ hk' = [hk EXCEPT ![h] = [pc |-> "idle", cb |-> None, e |-> None]]
      /\ UNCHANGED <<entries, reached, created, backup>>
  BY DEF AddCallback, MonitorStep
<1>3. /\ hk'[h].pc = "idle" /\ \A g \in Hookers : g # h => hk'[g] = hk[g]
      /\ hk[h].e \in EntryIds /\ hk[h].e <= created /\ hk[h].cb \in Callbacks
  BY <1>2 DEF IInv, Types, Monitor, Created
<1>4. /\ s \in Seq(Callbacks) /\ Distinct(s)
      /\ \A x : Has(s, x) <=> Has(callbacks[hk[h].e], x) \/ x = hk[h].cb
  BY <1>3, Added, SMT DEF Created, Reaches
<1>5. /\ callbacks' \in [EntryIds -> Seq(Callbacks)] /\ callbacks'[hk[h].e] = s
      /\ \A e \in EntryIds : e # hk[h].e => callbacks'[e] = callbacks[e]
  BY <1>1, <1>3, <1>4 DEF Created
<1>6. Created'
  <2>1. \A e \in EntryIds : e > created => e # hk[h].e
    BY <1>3, BridgeAssumption, SMT DEF IInv, Types, EntryIds
  <2> QED
    BY <1>2, <1>3, <1>5, <2>1, SMT DEF Created
<1>7. \A e \in EntryIds : Distinct(callbacks'[e])
  BY <1>4, <1>5 DEF Reaches
<1>8. \A e \in EntryIds : \A x : Has(callbacks[e], x) => Has(callbacks'[e], x)
  BY <1>4, <1>5
<1>9. \A cb \in kept' : entries # None /\ Has(callbacks'[entries], cb)
  <2>1. \A cb \in kept : entries \in EntryIds /\ Has(callbacks'[entries], cb)
    BY <1>8 DEF Reaches, IInv, Types
  <2> QED
    BY <1>2, <1>3, <1>4, <1>5, <2>1, BridgeAssumption DEF EntryIds
<1>10. reached # None =>
         \A i \in DOMAIN callbacks'[reached] : callbacks'[reached][i] \in active'
  <2>1. CASE reached = hk[h].e
    <3>1. \A x : Has(callbacks[reached], x) => x \in active
      BY <1>3, <2>1, BridgeAssumption DEF Reaches, Has, EntryIds
    <3>2. \A x : Has(s, x) => x \in active'
      BY <1>2, <1>4, <2>1, <3>1
    <3> QED
      BY <1>5, <2>1, <3>2 DEF Has
  <2>2. CASE reached # hk[h].e
    BY <1>2, <1>5, <2>2 DEF Reaches, IInv, Types
  <2> QED
    BY <2>1, <2>2
<1> QED
  BY <1>2, <1>6, <1>7, <1>9, <1>10 DEF Reaches

\* unhookMethod takes the callback out of the entry in the map.
LEMMA UnhookReaches ==
  ASSUME Inv2, NEW h \in Hookers, NEW cb \in Callbacks, Unhook(h, cb)
  PROVE  Created' /\ Reaches'
<1> USE DEF Inv2
<1>1. /\ lock = None /\ active' = active \ {cb} /\ kept' = kept \ {cb}
      /\ UNCHANGED <<entries, reached, created, backup>> /\ hk[h].pc = "idle"
  BY DEF Unhook
<1>2. reached = entries
  BY <1>1 DEF IInv, IsHookedTrue
<1>3. CASE entries = None
  <2>1. UNCHANGED <<callbacks, hk>>
    BY <1>3 DEF Unhook
  <2> QED
    BY <1>1, <1>2, <1>3, <2>1 DEF Created, Reaches
<1>4. CASE entries # None
  <2>1. /\ callbacks' = [callbacks EXCEPT ![entries] = Without(callbacks[entries], cb)]
        /\ hk' = [hk EXCEPT ![h] = [pc |-> "size", cb |-> cb, e |-> entries]]
    BY <1>4 DEF Unhook, MonitorStep
  <2>2. /\ entries \in EntryIds /\ entries <= created
        /\ hk'[h] = [pc |-> "size", cb |-> cb, e |-> entries]
        /\ \A g \in Hookers : g # h => hk'[g] = hk[g]
    BY <1>4, <2>1 DEF IInv, Types, Created
  <2>3. PICK s : s = Without(callbacks[entries], cb)
    OBVIOUS
  <2>4. /\ s \in Seq(Callbacks) /\ Distinct(s)
        /\ \A x : Has(s, x) <=> Has(callbacks[entries], x) /\ x # cb
    BY <2>2, <2>3, Taken, SMT DEF Created, Reaches
  <2>5. /\ callbacks' \in [EntryIds -> Seq(Callbacks)] /\ callbacks'[entries] = s
        /\ \A e \in EntryIds : e # entries => callbacks'[e] = callbacks[e]
    BY <2>1, <2>2, <2>3, <2>4 DEF Created
  <2>6. Created'
    <3>1. \A e \in EntryIds : e > created => e # entries
      BY <2>2, BridgeAssumption, SMT DEF IInv, Types, EntryIds
    <3>2. \A g \in Hookers : hk[g].pc = "put" => hk'[g] = hk[g]
      BY <1>1, <2>2
    <3>3. \A e \in EntryIds : e <= created =>
            backup[e] \/ \E g \in Hookers : hk'[g].pc = "put" /\ hk'[g].e = e
      BY <3>2 DEF Created
    <3>4. \A g \in Hookers : hk'[g].pc # "idle" => hk'[g].e <= created /\ hk'[g].cb \in Callbacks
      BY <2>2, SMT DEF Created
    <3> QED
      BY <1>1, <2>2, <2>5, <3>1, <3>3, <3>4 DEF Created
  <2>7. \A e \in EntryIds : Distinct(callbacks'[e])
    BY <2>4, <2>5 DEF Reaches
  <2>8. \A x \in kept' : entries # None /\ Has(callbacks'[entries], x)
    BY <1>1, <1>4, <2>4, <2>5 DEF Reaches
  <2>9. \A x : Has(s, x) => x \in active'
    BY <1>1, <1>2, <1>4, <2>4 DEF Reaches, Has
  <2>10. \A i \in DOMAIN s : s[i] \in active'
    BY <2>9 DEF Has
  <2> QED
    BY <1>1, <1>2, <2>5, <2>6, <2>7, <2>8, <2>10 DEF Reaches
<1> QED
  BY <1>3, <1>4

\* An entry leaves the map when it has no callbacks, so none is kept there.
LEMMA SizeReaches ==
  ASSUME Inv2, NEW h \in Hookers, Size(h) \/ NUnhook(h)
  PROVE  Created' /\ Reaches'
<1> USE DEF Inv2
<1>1. /\ hk[h].pc \in {"size", "nUnhook"} /\ UNCHANGED <<created, backup, callbacks, active, kept>>
      /\ entries' \in {entries, None} /\ reached' \in {reached, None}
      /\ entries' # entries => Empty(hk[h].e) /\ hk[h].pc = "size"
      /\ \/ hk' = [hk EXCEPT ![h] = [pc |-> "idle", cb |-> None, e |-> None]]
         \/ hk' = [hk EXCEPT ![h] = [pc |-> "nUnhook", cb |-> hk[h].cb, e |-> hk[h].e]]
  BY DEF Size, NUnhook, Removed, MonitorStep, ghosts
<1>2. /\ \A g \in Hookers : g # h => hk'[g] = hk[g]
      /\ hk'[h].pc \in {"idle", "nUnhook"}
      /\ hk'[h].pc # "idle" => hk'[h].cb = hk[h].cb /\ hk'[h].e = hk[h].e
  BY <1>1, SMT DEF IInv, Types
<1>3. Created'
  BY <1>1, <1>2, SMT DEF Created
<1>4. entries' # entries => kept = {}
  BY <1>1, SMT DEF IInv, Monitor, Reaches, Empty, Has
<1> QED
  BY <1>1, <1>3, <1>4 DEF Reaches

\* Every step keeps the entries and the callbacks they reach.
LEMMA NextKeeps2 ==
  ASSUME Inv2, [BridgeNext]_bridgeVars
  PROVE  Inv2'
<1>1. IInv'
  BY NextKeeps DEF Inv2
<1>2. ASSUME NEW h \in Hookers, Put(h) \/ AddCallback(h) \/ Size(h) \/ NUnhook(h)
      PROVE  Created' /\ Reaches'
  BY <1>2, PutCreates, AddReaches, SizeReaches
<1>3. ASSUME NEW h \in Hookers, NEW cb \in Owns[h],
             HookNew(h, cb) \/ HookAgain(h, cb) \/ Unhook(h, cb)
      PROVE  Created' /\ Reaches'
  <2>1. cb \in Callbacks
    BY BridgeAssumption
  <2> QED
    BY <1>3, <2>1, HookCreates, HookAgainCreates, UnhookReaches
<1>4. ASSUME NEW c \in Callers,
             \/ \E direct \in BOOLEAN : Invoke(c, direct)
             \/ InvokeOriginal(c) \/ Snapshot(c) \/ CastFails(c) \/ Return(c)
             \/ \E did \in Did : \/ RunOriginal(c, did)
                                 \/ \E throws \in BOOLEAN : \/ Before(c, did, throws)
                                                          \/ After(c, did, throws)
      PROVE  Created' /\ Reaches'
  <2>1. UNCHANGED <<entries, lock, reached, created, backup, callbacks, hk, ghosts>>
    BY <1>4 DEF Invoke, InvokeOriginal, Snapshot, CastFails, Return, RunOriginal, Before, After
  <2> QED
    BY <2>1, CallsKeep
<1>5. CASE UNCHANGED bridgeVars
  <2>1. UNCHANGED <<entries, lock, reached, created, backup, callbacks, hk, ghosts>>
    BY <1>5 DEF bridgeVars, ghosts
  <2> QED
    BY <1>1, <2>1, CallsKeep DEF Inv2
<1> QED
  BY <1>1, <1>2, <1>3, <1>4, <1>5 DEF BridgeNext, Inv2

\* The inductive invariant of the map and of the callbacks.
LEMMA BridgeInv2 == BridgeSpec => []Inv2
<1>1. BridgeInit => Inv2
  BY InitInv2
<1>2. Inv2 /\ [BridgeNext]_bridgeVars => Inv2'
  BY NextKeeps2
<1> QED
  BY <1>1, <1>2, PTL DEF BridgeSpec

\* A callback that hookMethod added to the entry in the map is reached by every
\* call until it is unhooked, whatever the other hookers unhook meanwhile.
THEOREM BridgeHookStays == BridgeSpec => []HookStays
<1>1. Inv2 => HookStays
  <2> SUFFICES ASSUME Inv2 PROVE HookStays
    OBVIOUS
  <2>1. entries # None => reached = entries
    BY SMT DEF Inv2, IInv, Types, Monitor, IsHookedTrue, Holds
  <2> QED
    BY <2>1 DEF Inv2, Reaches, HookStays
<1> QED
  BY <1>1, BridgeInv2, PTL
-----------------------------------------------------------------------------
(* What a call has logged *)

\* An event goes behind the others.
LEMMA Logged ==
  ASSUME NEW L \in Seq(Events), NEW ev \in Events
  PROVE  /\ L \o <<ev>> \in Seq(Events) /\ Len(L \o <<ev>>) = Len(L) + 1
         /\ \A i \in 1..Len(L) : (L \o <<ev>>)[i] = L[i]
         /\ (L \o <<ev>>)[Len(L) + 1] = ev
  BY SMT

\* s is the call r after the event ev.
Extends(r, s, ev) ==
  /\ IsCall(r) /\ IsCall(s) /\ s.hooks = r.hooks /\ ev \in Events
  /\ s.log = r.log \o <<ev>>

\* The events of r stay where they are.
LEMMA LogOf ==
  ASSUME NEW r, NEW s, NEW ev, Extends(r, s, ev)
  PROVE  /\ Len(r.log) \in Nat /\ Len(r.hooks) \in Nat /\ Len(s.log) = Len(r.log) + 1
         /\ \A i \in 1..Len(r.log) : s.log[i] = r.log[i]
         /\ s.log[Len(r.log) + 1] = ev
         /\ DOMAIN r.log = 1..Len(r.log) /\ DOMAIN s.log = 1..Len(r.log) + 1
<1>1. r.log \in Seq(Events) /\ s.log \in Seq(Events) /\ r.hooks \in Seq(Callbacks)
  BY DEF Extends, IsCall
<1> QED
  BY <1>1, Logged, SMT DEF Extends

\* A before callback that keeps the outcome.
LEMMA UndecidedGrows ==
  ASSUME NEW r, NEW s, NEW ev, Extends(r, s, ev), NEW n \in Nat, Undecided(r, n),
         Is(ev, "before", r.hooks[n + 1]), ~Decides(ev)
  PROVE  Undecided(s, n + 1)
<1>1. s.hooks = r.hooks
  BY DEF Extends
<1>2. /\ Len(r.log) = n /\ Len(s.log) = n + 1 /\ s.log[n + 1] = ev
      /\ \A i \in 1..n : s.log[i] = r.log[i]
  <2>1. Len(r.log) = n
    BY DEF Undecided
  <2> QED
    BY <2>1, LogOf, SMT
<1>3. ASSUME NEW i \in 1..n + 1
      PROVE  Is(s.log[i], "before", s.hooks[i]) /\ ~Decides(s.log[i])
  BY <1>1, <1>2, SMT DEF Undecided
<1> QED
  BY <1>2, <1>3 DEF Undecided

\* A before callback that sets the outcome.
LEMMA EarlyShape ==
  ASSUME NEW r, NEW s, NEW ev, Extends(r, s, ev), NEW n \in Nat, Undecided(r, n),
         Is(ev, "before", r.hooks[n + 1]), Decides(ev)
  PROVE  Shape(s, n + 1, 0, 0)
<1>1. s.hooks = r.hooks
  BY DEF Extends
<1> QED
  BY <1>1, LogOf, SMT DEF Undecided, Shape

\* The original behind all the before callbacks.
LEMMA OrigShape ==
  ASSUME NEW r, NEW s, NEW ev, Extends(r, s, ev), Undecided(r, Len(r.hooks)),
         Is(ev, "original", "original")
  PROVE  Shape(s, Len(r.hooks), 1, 0)
<1>1. s.hooks = r.hooks
  BY DEF Extends
<1> QED
  BY <1>1, LogOf, SMT DEF Undecided, Shape

\* The next after callback.
LEMMA AfterShape ==
  ASSUME NEW r, NEW s, NEW ev, Extends(r, s, ev), NEW n \in Nat, NEW m \in Nat,
         NEW orig \in {0, 1}, m < n, Shape(r, n, orig, m), Is(ev, "after", r.hooks[n - m])
  PROVE  Shape(s, n, orig, m + 1)
<1>1. s.hooks = r.hooks
  BY DEF Extends
<1>2. Len(r.log) = n + orig + m /\ Len(s.log) = n + orig + (m + 1)
  <2>1. Len(r.log) = n + orig + m
    BY DEF Shape
  <2>2. Len(s.log) = Len(r.log) + 1
    BY LogOf
  <2> QED
    BY <2>1, <2>2, SMT
<1>3. \A i \in 1..n + orig + m : s.log[i] = r.log[i]
  BY <1>2, LogOf, SMT
<1>4. s.log[n + orig + (m + 1)] = ev
  BY <1>2, LogOf, SMT
<1>5. ASSUME NEW i \in 1..n
      PROVE  /\ Is(s.log[i], "before", s.hooks[i])
             /\ Decides(s.log[i]) <=> i = n /\ orig = 0
  <2>1. s.log[i] = r.log[i]
    BY <1>3, SMT
  <2>2. /\ Is(r.log[i], "before", r.hooks[i])
        /\ Decides(r.log[i]) <=> i = n /\ orig = 0
    BY DEF Shape
  <2> QED
    BY <1>1, <2>1, <2>2
<1>6. ASSUME NEW i \in 1..m + 1
      PROVE  Is(s.log[n + orig + i], "after", s.hooks[n + 1 - i])
  <2>1. CASE i = m + 1
    <3>1. n + 1 - i = n - m
      BY <2>1, SMT
    <3> QED
      BY <1>1, <1>4, <2>1, <3>1
  <2>2. CASE i # m + 1
    <3>1. i \in 1..m /\ n + orig + i \in 1..n + orig + m
      BY <2>2, SMT
    <3> QED
      BY <1>1, <1>3, <3>1 DEF Shape
  <2> QED
    BY <2>1, <2>2
<1>7. orig = 1 => n = Len(s.hooks) /\ Is(s.log[n + 1], "original", "original")
  <2>1. orig = 1 => n + 1 \in 1..n + orig + m
    BY SMT
  <2> QED
    BY <1>1, <1>3, <2>1 DEF Shape
<1>8. orig = 0 => n > 0
  BY DEF Shape
<1> QED
  BY <1>2, <1>5, <1>6, <1>7, <1>8 DEF Shape

\* An event that sets the outcome.
LEMMA DecidedNow ==
  ASSUME NEW r, NEW s, NEW ev, Extends(r, s, ev), Decides(ev), s.out = <<ev.did, ev.by>>
  PROVE  Decided(s)
<1>1. /\ Len(r.log) + 1 \in DOMAIN s.log /\ s.log[Len(r.log) + 1] = ev
      /\ \A j \in DOMAIN s.log : ~(j > Len(r.log) + 1)
  BY LogOf, SMT
<1> QED
  BY <1>1 DEF Decided

\* An event that leaves it.
LEMMA DecidedStill ==
  ASSUME NEW r, NEW s, NEW ev, Extends(r, s, ev), Decided(r), ~Decides(ev), s.out = r.out
  PROVE  Decided(s)
<1>1. PICK i \in DOMAIN r.log : /\ Decides(r.log[i]) /\ r.out = <<r.log[i].did, r.log[i].by>>
                               /\ \A j \in DOMAIN r.log : j > i => ~Decides(r.log[j])
  BY DEF Decided
<1>2. i \in DOMAIN s.log /\ s.log[i] = r.log[i]
  BY LogOf, SMT
<1>3. \A j \in DOMAIN s.log : j > i => ~Decides(s.log[j])
  BY <1>1, LogOf, SMT
<1> QED
  BY <1>1, <1>2, <1>3 DEF Decided
-----------------------------------------------------------------------------
(* dispatch *)

\* A step of one caller.
LEMMA OneCall ==
  ASSUME Dispatches, created' = created, NEW c \in Callers, NEW s, IsCall(s), Progress(s),
         call' = [call EXCEPT ![c] = s]
  PROVE  Dispatches'
<1>1. DOMAIN call' = Callers /\ call'[c] = s /\ \A d \in Callers : d # c => call'[d] = call[d]
  BY DEF Dispatches
<1>2. Progress(s)'
  BY DEF Progress
<1>3. ASSUME NEW d \in Callers, d # c PROVE IsCall(call'[d]) /\ Progress(call[d])'
  <2>1. call'[d] = call[d]
    BY <1>1, <1>3
  <2> QED
    BY <2>1, SMT DEF Dispatches, Progress
<1> QED
  BY <1>1, <1>2, <1>3, SMT DEF Dispatches, Progress

\* The hookers leave the calls alone, and their entries stay created.
LEMMA HookersKeepCalls ==
  ASSUME Dispatches, Inv2, Inv2', created' >= created, call' = call
  PROVE  Dispatches'
<1>1. \A e \in EntryIds : e <= created => e <= created'
  BY BridgeAssumption, SMT DEF Inv2, IInv, Types, EntryIds
<1>2. ASSUME NEW d \in Callers PROVE Progress(call[d])'
  <2>1. call'[d] = call[d]
    BY DEF Dispatches
  <2> QED
    BY <1>1, <2>1, SMT DEF Dispatches, Progress
<1> QED
  BY <1>2 DEF Dispatches

\* A record with its fields.
LEMMA NoCallIs == IsCall(NoCall) /\ Progress(NoCall)
  BY SMT DEF IsCall, NoCall, Progress, Events

\* A call returns.
LEMMA ReturnDispatches ==
  ASSUME Inv2, Dispatches, NEW c \in Callers, Return(c)
  PROVE  Dispatches'
  BY OneCall, NoCallIs DEF Return

\* A call reaches the installed entry, or the method.
LEMMA InvokeDispatches ==
  ASSUME Inv2, Dispatches, NEW c \in Callers, NEW direct \in BOOLEAN, Invoke(c, direct)
  PROVE  Dispatches'
<1>1. created' = created
  BY DEF Invoke
<1>2. CASE reached \in EntryIds
  <2>1. PICK s : s = [NoCall EXCEPT !.pc = "dispatch", !.e = reached]
    OBVIOUS
  <2>2. call' = [call EXCEPT ![c] = s]
    BY <1>2, <2>1 DEF Invoke
  <2>3. /\ s = [pc |-> "dispatch", e |-> reached, hooks |-> <<>>, idx |-> 0,
                out |-> <<"result", None>>, log |-> <<>>]
    BY <2>1 DEF NoCall
  <2>4. IsCall(s)
    BY <2>3, SMT DEF IsCall
  <2>5. Progress(s)
    BY <1>2, <2>3, BridgeAssumption DEF Progress, Inv2, Created, EntryIds
  <2> QED
    BY <1>1, <2>2, <2>4, <2>5, OneCall
<1>3. CASE reached \notin EntryIds
  <2>1. PICK s : s = [NoCall EXCEPT !.pc = "returned",
                       !.out = <<"result", "original">>, !.log = Original("result")]
    OBVIOUS
  <2>2. call' = [call EXCEPT ![c] = s]
    BY <1>3, <2>1 DEF Invoke
  <2>3. PICK ev : ev = [kind |-> "original", by |-> "original", did |-> "result"]
    OBVIOUS
  <2>4. s = [pc |-> "returned", e |-> None, hooks |-> <<>>, idx |-> 0,
             out |-> <<"result", "original">>, log |-> <<ev>>]
    BY <2>1, <2>3 DEF NoCall, Original, Event
  <2>5. ev \in Events /\ Decides(ev) /\ Is(ev, "original", "original")
    BY <2>3 DEF Events, Decides, Is, Did
  <2>6. IsCall(s)
    BY <2>4, <2>5, SMT DEF IsCall
  <2>7. Len(s.log) = 1 /\ s.log[1] = ev /\ s.hooks = <<>> /\ Len(s.hooks) = 0 /\ DOMAIN s.log = 1..1
    BY <2>4, SMT
  <2>8. Shape(s, 0, 1, 0)
    BY <2>5, <2>7, SMT DEF Shape
  <2>9. Decided(s)
    BY <2>3, <2>4, <2>5, <2>7, SMT DEF Decided
  <2>10. Progress(s)
    BY <2>4, <2>7, <2>8, <2>9, SMT DEF Progress
  <2> QED
    BY <1>1, <2>2, <2>6, <2>10, OneCall
<1> QED
  BY <1>2, <1>3

\* invokeOriginalMethod finds the entry in the map.
LEMMA InvokeOriginalDispatches ==
  ASSUME Inv2, Dispatches, NEW c \in Callers, InvokeOriginal(c)
  PROVE  Dispatches'
<1>1. created' = created /\ call[c] = NoCall
  BY DEF InvokeOriginal, Dispatches, Progress
<1>2. PICK s : s = [pc |-> IF entries = None THEN "resolved" ELSE "original", e |-> entries,
                    hooks |-> <<>>, idx |-> 0, out |-> <<"result", None>>, log |-> <<>>]
  OBVIOUS
<1>3. call' = [call EXCEPT ![c] = s]
  BY <1>1, <1>2, SMT DEF InvokeOriginal, Dispatches, NoCall
<1>4. IsCall(s)
  BY <1>2, SMT DEF IsCall
<1>5. s.pc = "original" => entries \in EntryIds /\ entries <= created
  BY <1>2 DEF Inv2, IInv, Types, Created
<1>6. Undecided(s, 0)
  BY <1>2, SMT DEF Undecided
<1>7. Progress(s)
  BY <1>2, <1>5, <1>6 DEF Progress
<1> QED
  BY <1>1, <1>3, <1>4, <1>7, OneCall

\* dispatch reads the callbacks.
LEMMA SnapshotDispatches ==
  ASSUME Inv2, Dispatches, NEW c \in Callers, Snapshot(c)
  PROVE  /\ Dispatches' /\ call'[c].hooks = callbacks[call[c].e]
<1>1. PICK r : r = call[c]
  OBVIOUS
<1>2. IsCall(r) /\ Progress(r) /\ r.pc = "dispatch" /\ created' = created
  BY <1>1 DEF Snapshot, Dispatches
<1>3. PICK h : h = callbacks[r.e]
  OBVIOUS
<1>4. PICK s : s = [r EXCEPT !.hooks = h, !.pc = IF h = <<>> THEN "original" ELSE "before",
                             !.idx = IF h = <<>> THEN 0 ELSE 1]
  OBVIOUS
<1>5. call' = [call EXCEPT ![c] = s]
  BY <1>1, <1>3, <1>4 DEF Snapshot, Dispatches
<1>6. h \in Seq(Callbacks) /\ r.e \in EntryIds /\ r.e <= created /\ r.log = <<>>
  BY <1>2, <1>3 DEF Progress, Inv2, Created
<1>7. /\ IsCall(s) /\ s.hooks = h /\ s.pc = IF h = <<>> THEN "original" ELSE "before"
      /\ s.idx = (IF h = <<>> THEN 0 ELSE 1) /\ s.e = r.e /\ s.log = r.log
  BY <1>2, <1>4, <1>6 DEF IsCall
<1>8. Undecided(s, 0)
  BY <1>6, <1>7, SMT DEF Undecided
<1>9. Progress(s)
  BY <1>6, <1>7, <1>8, SMT DEF Progress
<1>10. call'[c] = s
  BY <1>5 DEF Dispatches
<1>11. call'[c].hooks = callbacks[call[c].e]
  BY <1>1, <1>3, <1>7, <1>10
<1> QED
  BY <1>2, <1>5, <1>7, <1>9, <1>11, OneCall

\* A before callback runs.
LEMMA BeforeDispatches ==
  ASSUME Inv2, Dispatches, NEW c \in Callers, NEW did \in Did, NEW throws \in BOOLEAN,
         Before(c, did, throws)
  PROVE  Dispatches'
<1>1. PICK r : r = call[c]
  OBVIOUS
<1>2. IsCall(r) /\ Progress(r) /\ r.pc = "before" /\ created' = created
  BY <1>1 DEF Before, Dispatches
<1>3. PICK cb : cb = r.hooks[r.idx]
  OBVIOUS
<1>4. PICK ev : ev = [kind |-> "before", by |-> cb, did |-> IF throws THEN "throws" ELSE did]
  OBVIOUS
<1>5. PICK early \in BOOLEAN : early <=> did # "keeps" /\ ~throws
  OBVIOUS
<1>6. PICK more \in BOOLEAN : more <=> r.idx < Len(r.hooks)
  OBVIOUS
<1>7. PICK out : out = IF throws THEN <<"result", None>>
                       ELSE IF did = "keeps" THEN r.out ELSE <<did, cb>>
  OBVIOUS
<1>8. PICK s : s = [r EXCEPT !.out = out,
                      !.pc = IF early THEN "after" ELSE IF more THEN "before" ELSE "original",
                      !.idx = IF ~early /\ more THEN @ + 1 ELSE @,
                      !.log = @ \o <<ev>>]
  OBVIOUS
<1>9. call' = [call EXCEPT ![c] = s]
  BY <1>1, <1>3, <1>4, <1>5, <1>6, <1>7, <1>8 DEF Before, Dispatches, Outcome, Event
<1>10. /\ r.idx \in 1..Len(r.hooks) /\ r.idx \in Nat /\ Len(r.hooks) \in Nat
       /\ Undecided(r, r.idx - 1) /\ r.hooks \in Seq(Callbacks) /\ r.log \in Seq(Events)
       /\ r.e \in EntryIds /\ r.e <= created
  BY <1>2, SMT DEF Progress, IsCall
<1>11. cb \in Callbacks
  BY <1>3, <1>10, SMT
<1>12. ev \in Events /\ ev.by = cb /\ Is(ev, "before", cb) /\ (Decides(ev) <=> early)
  BY <1>4, <1>5, <1>11 DEF Events, Is, Decides, Did
<1>13. r.log \o <<ev>> \in Seq(Events)
  BY <1>10, <1>12, SMT
<1>14. /\ IsCall(s) /\ s.hooks = r.hooks /\ s.out = out /\ s.log = r.log \o <<ev>> /\ s.e = r.e
       /\ s.pc = (IF early THEN "after" ELSE IF more THEN "before" ELSE "original")
       /\ s.idx = (IF ~early /\ more THEN r.idx + 1 ELSE r.idx)
  BY <1>2, <1>8, <1>13 DEF IsCall
<1>15. Extends(r, s, ev)
  BY <1>2, <1>12, <1>14 DEF Extends
<1>16. PICK n \in Nat : n = r.idx - 1
  BY <1>10, SMT
<1>17. n + 1 = r.idx /\ Undecided(r, n) /\ Is(ev, "before", r.hooks[n + 1])
  BY <1>3, <1>10, <1>12, <1>16, SMT
<1>18. CASE early
  <2>1. Shape(s, r.idx, 0, 0)
    BY <1>12, <1>15, <1>17, <1>18, EarlyShape
  <2>2. Decided(s)
    <3>1. out = <<ev.did, ev.by>>
      BY <1>4, <1>5, <1>7, <1>18
    <3> QED
      BY <1>12, <1>14, <1>15, <1>18, <3>1, DecidedNow
  <2>3. s.pc = "after" /\ s.idx = r.idx
    BY <1>14, <1>18
  <2>4. r.idx \in 1..Len(s.hooks) /\ s.idx \in 1..r.idx /\ r.idx - s.idx = 0
    BY <1>10, <1>14, <2>3, SMT
  <2>5. Progress(s)
    BY <1>10, <1>14, <2>1, <2>2, <2>3, <2>4 DEF Progress
  <2> QED
    BY <1>2, <1>9, <1>14, <2>5, OneCall
<1>19. CASE ~early
  <2>1. Undecided(s, r.idx)
    BY <1>12, <1>15, <1>17, <1>19, UndecidedGrows
  <2>2. CASE more
    <3>1. s.pc = "before" /\ s.idx = r.idx + 1 /\ s.idx \in 1..Len(s.hooks) /\ s.idx - 1 = r.idx
      BY <1>6, <1>10, <1>14, <1>19, <2>2, SMT
    <3>2. Progress(s)
      BY <1>10, <1>14, <2>1, <3>1 DEF Progress
    <3> QED
      BY <1>2, <1>9, <1>14, <3>2, OneCall
  <2>3. CASE ~more
    <3>1. s.pc = "original" /\ s.idx = r.idx /\ s.idx = Len(s.hooks)
      BY <1>6, <1>10, <1>14, <1>19, <2>3, SMT
    <3>2. Progress(s)
      BY <1>10, <1>14, <2>1, <3>1 DEF Progress
    <3> QED
      BY <1>2, <1>9, <1>14, <3>2, OneCall
  <2> QED
    BY <2>2, <2>3
<1> QED
  BY <1>18, <1>19

\* The backup is invoked.
LEMMA RunOriginalDispatches ==
  ASSUME Inv2, Dispatches, NEW c \in Callers, NEW did \in Did, RunOriginal(c, did)
  PROVE  Dispatches'
<1>1. PICK r : r = call[c]
  OBVIOUS
<1>2. IsCall(r) /\ Progress(r) /\ r.pc = "original" /\ created' = created
  BY <1>1 DEF RunOriginal, Dispatches
<1>3. PICK ev : ev = [kind |-> "original", by |-> "original", did |-> did]
  OBVIOUS
<1>4. PICK fails \in BOOLEAN : fails <=> ~backup[r.e] \/ did = "keeps"
  OBVIOUS
<1>5. PICK s : s = [r EXCEPT !.pc = IF fails \/ r.hooks = <<>> THEN "returned" ELSE "after",
                      !.out = IF fails THEN <<"throwable", None>> ELSE <<did, "original">>,
                      !.log = IF fails THEN @ ELSE @ \o <<ev>>]
  OBVIOUS
<1>6. call' = [call EXCEPT ![c] = s]
  BY <1>1, <1>3, <1>4, <1>5 DEF RunOriginal, Dispatches, Original, Event
<1>7. /\ r.idx = Len(r.hooks) /\ Len(r.hooks) \in Nat /\ Undecided(r, Len(r.hooks))
      /\ r.hooks \in Seq(Callbacks) /\ r.log \in Seq(Events) /\ r.e \in EntryIds /\ r.e <= created
  BY <1>2, SMT DEF Progress, IsCall
<1>8. ev \in Events /\ Is(ev, "original", "original") /\ (~fails => Decides(ev))
  BY <1>3, <1>4 DEF Events, Is, Decides, Did
<1>9. r.log \o <<ev>> \in Seq(Events)
  BY <1>7, <1>8, SMT
<1>10. /\ IsCall(s) /\ s.hooks = r.hooks /\ s.e = r.e /\ s.idx = r.idx
       /\ s.out = (IF fails THEN <<"throwable", None>> ELSE <<did, "original">>)
       /\ s.pc = (IF fails \/ r.hooks = <<>> THEN "returned" ELSE "after")
       /\ s.log = (IF fails THEN r.log ELSE r.log \o <<ev>>)
  BY <1>2, <1>5, <1>9 DEF IsCall
<1>11. CASE fails
  <2>1. s.pc = "returned" /\ s.out = <<"throwable", None>>
    BY <1>10, <1>11
  <2>2. Progress(s)
    BY <2>1 DEF Progress
  <2> QED
    BY <1>2, <1>6, <1>10, <2>2, OneCall
<1>12. CASE ~fails
  <2>1. Extends(r, s, ev) /\ s.out = <<ev.did, ev.by>>
    BY <1>2, <1>3, <1>8, <1>10, <1>12 DEF Extends
  <2>2. Shape(s, Len(r.hooks), 1, 0)
    BY <1>7, <1>8, <2>1, OrigShape
  <2>3. Decided(s)
    BY <1>8, <1>12, <2>1, DecidedNow
  <2>4. CASE r.hooks = <<>>
    <3>1. s.pc = "returned" /\ Len(r.hooks) = 0 /\ Len(s.hooks) = 0
      BY <1>10, <2>4, SMT
    <3>2. Progress(s)
      BY <2>2, <2>3, <3>1, SMT DEF Progress
    <3> QED
      BY <1>2, <1>6, <1>10, <3>2, OneCall
  <2>5. CASE r.hooks # <<>>
    <3>1. /\ s.pc = "after" /\ Len(r.hooks) \in 1..Len(s.hooks) /\ s.idx \in 1..Len(r.hooks)
          /\ Len(r.hooks) - s.idx = 0
      BY <1>7, <1>10, <1>12, <2>5, SMT
    <3>2. Progress(s)
      BY <1>7, <1>10, <2>2, <2>3, <3>1 DEF Progress
    <3> QED
      BY <1>2, <1>6, <1>10, <3>2, OneCall
  <2> QED
    BY <2>4, <2>5
<1> QED
  BY <1>11, <1>12

\* An after callback runs.
LEMMA AfterDispatches ==
  ASSUME Inv2, Dispatches, NEW c \in Callers, NEW did \in Did, NEW throws \in BOOLEAN,
         After(c, did, throws)
  PROVE  Dispatches'
<1>1. PICK r : r = call[c]
  OBVIOUS
<1>2. IsCall(r) /\ Progress(r) /\ r.pc = "after" /\ created' = created
  BY <1>1 DEF After, Dispatches
<1>3. PICK cb : cb = r.hooks[r.idx]
  OBVIOUS
<1>4. PICK ev : ev = [kind |-> "after", by |-> cb, did |-> IF throws THEN "throws" ELSE did]
  OBVIOUS
<1>5. PICK out : out = IF throws \/ did = "keeps" THEN r.out ELSE <<did, cb>>
  OBVIOUS
<1>6. PICK s : s = [r EXCEPT !.out = out, !.pc = IF r.idx > 1 THEN "after" ELSE "returned",
                      !.idx = @ - 1, !.log = @ \o <<ev>>]
  OBVIOUS
<1>7. call' = [call EXCEPT ![c] = s]
  BY <1>1, <1>3, <1>4, <1>5, <1>6
     DEF After, Dispatches, OutcomeAfter, MoreAfter, Outcome, Event
<1>8. PICK n \in 1..Len(r.hooks), orig \in {0, 1} :
        r.idx \in 1..n /\ Shape(r, n, orig, n - r.idx) /\ Decided(r)
  BY <1>2 DEF Progress
<1>9. /\ r.hooks \in Seq(Callbacks) /\ r.log \in Seq(Events) /\ Len(r.hooks) \in Nat
      /\ r.e \in EntryIds /\ r.e <= created
  BY <1>2, SMT DEF Progress, IsCall
<1>10. cb \in Callbacks
  BY <1>3, <1>8, <1>9, SMT
<1>11. ev \in Events /\ Is(ev, "after", cb) /\ (Decides(ev) <=> ~throws /\ did # "keeps")
  BY <1>4, <1>10 DEF Events, Is, Decides, Did
<1>12. r.log \o <<ev>> \in Seq(Events)
  BY <1>9, <1>11, SMT
<1>13. /\ IsCall(s) /\ s.hooks = r.hooks /\ s.out = out /\ s.log = r.log \o <<ev>> /\ s.e = r.e
       /\ s.pc = (IF r.idx > 1 THEN "after" ELSE "returned") /\ s.idx = r.idx - 1
  BY <1>2, <1>6, <1>12 DEF IsCall
<1>14. Extends(r, s, ev)
  BY <1>2, <1>11, <1>13 DEF Extends
<1>15. PICK m \in Nat : m = n - r.idx
  BY <1>8, <1>9, SMT
<1>16. n \in Nat /\ m < n /\ n - m = r.idx /\ m + 1 = n - s.idx
  BY <1>8, <1>9, <1>13, <1>15, SMT
<1>17. Shape(r, n, orig, m) /\ Is(ev, "after", r.hooks[n - m])
  BY <1>3, <1>8, <1>11, <1>15, <1>16
<1>18. Shape(s, n, orig, n - s.idx)
  BY <1>14, <1>16, <1>17, AfterShape
<1>19. Decided(s)
  <2>1. CASE Decides(ev)
    <3>1. out = <<ev.did, ev.by>>
      BY <1>4, <1>5, <1>11, <2>1
    <3> QED
      BY <1>13, <1>14, <2>1, <3>1, DecidedNow
  <2>2. CASE ~Decides(ev)
    <3>1. out = r.out
      BY <1>5, <1>11, <2>2
    <3> QED
      BY <1>8, <1>13, <1>14, <2>2, <3>1, DecidedStill
  <2> QED
    BY <2>1, <2>2
<1>20. CASE r.idx > 1
  <2>1. s.pc = "after" /\ n \in 1..Len(s.hooks) /\ s.idx \in 1..n
    BY <1>8, <1>9, <1>13, <1>20, SMT
  <2>2. Progress(s)
    BY <1>9, <1>13, <1>18, <1>19, <2>1 DEF Progress
  <2> QED
    BY <1>2, <1>7, <1>13, <2>2, OneCall
<1>21. CASE ~(r.idx > 1)
  <2>1. s.pc = "returned" /\ n \in 0..Len(s.hooks) /\ n - s.idx = n
    BY <1>8, <1>9, <1>13, <1>21, SMT
  <2>2. Progress(s)
    BY <1>18, <1>19, <2>1 DEF Progress
  <2> QED
    BY <1>2, <1>7, <1>13, <2>2, OneCall
<1> QED
  BY <1>20, <1>21

\* The result is of another type.
LEMMA CastDispatches ==
  ASSUME Inv2, Dispatches, NEW c \in Callers, CastFails(c)
  PROVE  Dispatches'
<1>1. PICK r : r = call[c]
  OBVIOUS
<1>2. IsCall(r) /\ Progress(r) /\ r.pc = "returned" /\ created' = created
  BY <1>1 DEF CastFails, Dispatches
<1>3. PICK s : s = [r EXCEPT !.out = <<"throwable", None>>]
  OBVIOUS
<1>4. call' = [call EXCEPT ![c] = s]
  BY <1>1, <1>3 DEF CastFails, Dispatches
<1>5. IsCall(s) /\ s.pc = "returned" /\ s.out = <<"throwable", None>>
  BY <1>2, <1>3 DEF IsCall
<1>6. Progress(s)
  BY <1>5 DEF Progress
<1> QED
  BY <1>2, <1>4, <1>5, <1>6, OneCall

\* A step of the caller c.
CallerStep(c) ==
  \/ \E direct \in BOOLEAN : Invoke(c, direct)
  \/ InvokeOriginal(c) \/ Snapshot(c) \/ CastFails(c) \/ Return(c)
  \/ \E did \in Did : \/ RunOriginal(c, did)
                      \/ \E throws \in BOOLEAN : Before(c, did, throws) \/ After(c, did, throws)

\* A step is one of a caller, or leaves the calls alone.
LEMMA Steps ==
  ASSUME Inv2, [BridgeNext]_bridgeVars
  PROVE  (\E c \in Callers : CallerStep(c)) \/ (call' = call /\ created' >= created)
<1>1. created \in Nat
  BY BridgeAssumption, SMT DEF Inv2, IInv, Types
<1>2. ASSUME NEW h \in Hookers, Put(h) \/ AddCallback(h) \/ Size(h) \/ NUnhook(h)
      PROVE  call' = call /\ created' >= created
  BY <1>1, <1>2, SMT DEF Put, AddCallback, Size, NUnhook
<1>3. ASSUME NEW h \in Hookers, NEW cb \in Owns[h],
             HookNew(h, cb) \/ HookAgain(h, cb) \/ Unhook(h, cb)
      PROVE  call' = call /\ created' >= created
  BY <1>1, <1>3, SMT DEF HookNew, HookAgain, Unhook
<1>4. CASE UNCHANGED bridgeVars
  BY <1>1, <1>4, SMT DEF bridgeVars
<1> QED
  BY <1>2, <1>3, <1>4 DEF BridgeNext, CallerStep

Inv3 == Inv2 /\ Dispatches

\* Every step keeps the invariant of the calls.
LEMMA NextKeeps3 ==
  ASSUME Inv3, [BridgeNext]_bridgeVars
  PROVE  Inv3'
<1>1. Inv2'
  BY NextKeeps2 DEF Inv3
<1>2. ASSUME NEW c \in Callers, CallerStep(c) PROVE Dispatches'
  BY <1>2, InvokeDispatches, InvokeOriginalDispatches, SnapshotDispatches, ReturnDispatches,
     CastDispatches, RunOriginalDispatches, BeforeDispatches, AfterDispatches DEF Inv3, CallerStep
<1>3. CASE call' = call /\ created' >= created
  BY <1>1, <1>3, HookersKeepCalls DEF Inv3
<1> QED
  BY <1>1, <1>2, <1>3, Steps DEF Inv3

\* The inductive invariant of the bridge: the map, the callbacks and the calls.
LEMMA BridgeInv3 == BridgeSpec => []Inv3
<1>1. BridgeInit => Inv3
  <2> SUFFICES ASSUME BridgeInit PROVE Inv3
    OBVIOUS
  <2>1. Dispatches
    BY NoCallIs DEF BridgeInit, Dispatches
  <2> QED
    BY <2>1, InitInv2 DEF Inv3
<1>2. Inv3 /\ [BridgeNext]_bridgeVars => Inv3'
  BY NextKeeps3
<1> QED
  BY <1>1, <1>2, PTL DEF BridgeSpec

\* A call that returns ran the before callbacks of a prefix of the array, the
\* original unless one of them set the outcome, and the after callbacks of the
\* prefix in reverse order, for any callbacks and whatever the hookers do.
THEOREM BridgeNested == BridgeSpec => []Nested
<1>1. Inv3 => Nested
  <2> SUFFICES ASSUME Inv3, NEW c \in Callers, Returned(c)
               PROVE  \E n \in 0..Len(call[c].hooks), orig \in {0, 1} :
                        /\ Len(call[c].log) = n + orig + n
                        /\ \A i \in 1..n :
                             /\ Is(call[c].log[i], "before", call[c].hooks[i])
                             /\ Decides(call[c].log[i]) <=> i = n /\ orig = 0
                             /\ Is(call[c].log[n + orig + i], "after", call[c].hooks[n + 1 - i])
                        /\ orig = 1 => /\ n = Len(call[c].hooks)
                                      /\ Is(call[c].log[n + 1], "original", "original")
                        /\ orig = 0 => n > 0
    BY Zenon DEF Nested
  <2>1. PICK n \in 0..Len(call[c].hooks), orig \in {0, 1} : Shape(call[c], n, orig, n)
    BY SMT DEF Inv3, Dispatches, Progress, Returned
  <2> QED
    BY <2>1 DEF Shape
<1> QED
  BY <1>1, BridgeInv3, PTL

\* Its outcome is the one set last by the original or by a callback that did
\* not throw.
THEOREM BridgeFinalControl == BridgeSpec => []FinalControl
<1>1. Inv3 => FinalControl
  <2> SUFFICES ASSUME Inv3, NEW c \in Callers, Returned(c) PROVE Decided(call[c])
    BY DEF FinalControl, Decided
  <2> QED
    BY DEF Inv3, Dispatches, Progress, Returned
<1> QED
  BY <1>1, BridgeInv3, PTL

\* The call of c changes in a step of c.
LEMMA OwnStep ==
  ASSUME Inv3, [BridgeNext]_bridgeVars, NEW c \in Callers, call'[c] # call[c]
  PROVE  CallerStep(c)
<1>1. PICK d \in Callers : CallerStep(d)
  BY Steps DEF Inv3
<1>2. c # d => call'[c] = call[c]
  <2> SUFFICES ASSUME c # d PROVE call'[c] = call[c]
    OBVIOUS
  <2>1. c \in DOMAIN call
    BY DEF Inv3, Dispatches
  <2>2. ASSUME NEW direct \in BOOLEAN, Invoke(d, direct) PROVE call'[c] = call[c]
    BY <2>1, <2>2 DEF Invoke
  <2>3. CASE InvokeOriginal(d) \/ Snapshot(d) \/ CastFails(d) \/ Return(d)
    BY <2>1, <2>3 DEF InvokeOriginal, Snapshot, CastFails, Return
  <2>4. ASSUME NEW did \in Did, RunOriginal(d, did) PROVE call'[c] = call[c]
    BY <2>1, <2>4 DEF RunOriginal
  <2>5. ASSUME NEW did \in Did, NEW throws \in BOOLEAN, Before(d, did, throws)
        PROVE  call'[c] = call[c]
    BY <2>1, <2>5 DEF Before
  <2>6. ASSUME NEW did \in Did, NEW throws \in BOOLEAN, After(d, did, throws)
        PROVE  call'[c] = call[c]
    BY <2>1, <2>6 DEF After
  <2> QED
    BY <1>1, <2>2, <2>3, <2>4, <2>5, <2>6 DEF CallerStep
<1> QED
  BY <1>1, <1>2

\* A call that reaches the installed entry runs no callback that unhookMethod
\* has returned for.
THEOREM BridgeNoLateCallback == BridgeSpec => NoLateCallback
<1>1. ASSUME Inv3, [BridgeNext]_bridgeVars, NEW c \in Callers,
             call[c].pc = "dispatch", call'[c].pc # "dispatch", reached = call[c].e
      PROVE  \A i \in DOMAIN call'[c].hooks : call'[c].hooks[i] \in active
  <2>1. CallerStep(c)
    BY <1>1, OwnStep
  <2>2. Snapshot(c)
    BY <1>1, <2>1, SMT DEF CallerStep, Invoke, InvokeOriginal, CastFails, Return, RunOriginal,
       Before, After
  <2>3. call'[c].hooks = callbacks[reached]
    BY <1>1, <2>2, SnapshotDispatches DEF Inv3
  <2>4. reached # None
    BY <1>1, BridgeAssumption DEF Inv3, Dispatches, Progress, EntryIds
  <2> QED
    BY <1>1, <2>3, <2>4 DEF Inv3, Inv2, Reaches
<1>2. Inv3 /\ [BridgeNext]_bridgeVars =>
        [\A c \in Callers :
           call[c].pc = "dispatch" /\ call'[c].pc # "dispatch" /\ reached = call[c].e =>
             \A i \in DOMAIN call'[c].hooks : call'[c].hooks[i] \in active]_bridgeVars
  BY <1>1
<1> QED
  BY <1>2, BridgeInv3, PTL DEF BridgeSpec, NoLateCallback

\* A call without callbacks runs the method once and returns what it did,
\* unless a hookMethod was between nHook and the store of the backup.
THEOREM BridgeFailsOnlyInHook == BridgeSpec => FailsOnlyInHook
<1>1. ASSUME Inv3, [BridgeNext]_bridgeVars, NEW c \in Callers,
             call[c].pc # "returned", call'[c].pc = "returned", call'[c].hooks = <<>>
      PROVE  \/ call'[c].log = Original(call'[c].out[1])
             \/ \E h \in Hookers : hk[h].pc = "put"
  <2>1. CallerStep(c)
    BY <1>1, OwnStep
  <2>2. PICK r : r = call[c]
    OBVIOUS
  <2>3. DOMAIN call = Callers /\ IsCall(r) /\ Progress(r)
    BY <1>1, <2>2 DEF Inv3, Dispatches
  <2>4. CASE \E direct \in BOOLEAN : Invoke(c, direct)
    <3>1. \/ call'[c] = [NoCall EXCEPT !.pc = "dispatch", !.e = reached]
          \/ call'[c] = [NoCall EXCEPT !.pc = "returned",
                           !.out = <<"result", "original">>, !.log = Original("result")]
      BY <2>3, <2>4 DEF Invoke
    <3>2. PICK L : L = Original("result")
      OBVIOUS
    <3>3. \/ call'[c].pc = "dispatch"
          \/ call'[c].out = <<"result", "original">> /\ call'[c].log = L
      BY <3>1, <3>2 DEF NoCall
    <3>4. <<"result", "original">>[1] = "result"
      OBVIOUS
    <3> QED
      BY <1>1, <3>2, <3>3, <3>4
  <2>a. ~CastFails(c)
    BY <1>1 DEF CastFails
  <2>5. CASE InvokeOriginal(c) \/ Snapshot(c) \/ Return(c)
    <3>1. call'[c].pc # "returned"
      BY <1>1, <2>2, <2>3, <2>5, SMT DEF InvokeOriginal, Snapshot, Return, IsCall
    <3> QED
      BY <1>1, <3>1
  <2>6. ASSUME NEW did \in Did, RunOriginal(c, did)
        PROVE  \/ call'[c].log = Original(call'[c].out[1])
               \/ \E h \in Hookers : hk[h].pc = "put"
    <3>1. PICK s : s = call'[c]
      OBVIOUS
    <3>2. r.pc = "original" /\ (did = "keeps" => r.hooks # <<>>)
      BY <2>2, <2>6 DEF RunOriginal
    <3>3. CASE ~backup[r.e]
      BY <1>1, <2>3, <3>2, <3>3 DEF Inv3, Inv2, Created, Progress
    <3>4. CASE backup[r.e] /\ did # "keeps"
      <4>1. /\ s.hooks = r.hooks /\ s.out = <<did, "original">>
            /\ s.log = r.log \o Original(did)
        BY <2>2, <2>3, <2>6, <3>1, <3>4 DEF RunOriginal, IsCall
      <4>2. r.hooks = <<>>
        BY <1>1, <3>1, <4>1
      <4>3. r.log = <<>>
        BY <2>3, <3>2, <4>2, SMT DEF Progress, Undecided, IsCall
      <4>4. s.log = Original(did)
        BY <4>1, <4>3, SMT DEF Original, Event
      <4> QED
        BY <3>1, <4>1, <4>4, SMT
    <3>5. CASE did = "keeps"
      <4>1. s.hooks = r.hooks
        BY <2>2, <2>3, <2>6, <3>1 DEF RunOriginal, IsCall
      <4> QED
        BY <1>1, <3>1, <3>2, <3>5, <4>1
    <3> QED
      BY <3>3, <3>4, <3>5
  <2>7. ASSUME NEW did \in Did, NEW throws \in BOOLEAN, Before(c, did, throws)
        PROVE  FALSE
    <3>1. call'[c].pc \in {"after", "before", "original"}
      BY <2>2, <2>3, <2>7 DEF Before, IsCall
    <3> QED
      BY <1>1, <3>1
  <2>8. ASSUME NEW did \in Did, NEW throws \in BOOLEAN, After(c, did, throws)
        PROVE  FALSE
    <3>1. call'[c].hooks = r.hooks /\ r.pc = "after"
      BY <2>2, <2>3, <2>8 DEF After, IsCall
    <3>2. r.hooks # <<>>
      BY <2>3, <3>1, SMT DEF Progress
    <3> QED
      BY <1>1, <3>1, <3>2
  <2> QED
    BY <2>1, <2>a, <2>4, <2>5, <2>6, <2>7, <2>8 DEF CallerStep
<1>2. Inv3 /\ [BridgeNext]_bridgeVars =>
        [\A c \in Callers :
           call[c].pc # "returned" /\ call'[c].pc = "returned" /\ call'[c].hooks = <<>> =>
             \/ call'[c].log = Original(call'[c].out[1])
             \/ \E h \in Hookers : hk[h].pc = "put"]_bridgeVars
  BY <1>1
<1> QED
  BY <1>2, BridgeInv3, PTL DEF BridgeSpec, FailsOnlyInHook
-----------------------------------------------------------------------------
(* Highest priority first *)

\* compareTo's int subtraction does not overflow.
NoOverflow == \A a, b \in Callbacks : CompareTo(a, b) = Priority[b] - Priority[a]

\* A callback put between neighbours it compares with leaves the array sorted.
LEMMA SortedInsert ==
  ASSUME NoOverflow, NEW s \in Seq(Callbacks), NEW cb \in Callbacks, Sorted(s),
         NEW k \in 1..Len(s) + 1,
         k > 1 => CompareTo(cb, s[k - 1]) >= 0,
         k <= Len(s) => CompareTo(cb, s[k]) <= 0
  PROVE  Sorted(Insert(s, k, cb))
<1> DEFINE P(i) == Priority[s[i]]
<1>1. \A b \in Callbacks : Priority[b] \in Int
  BY BridgeAssumption, SMT
<1>2. Len(s) \in Nat /\ DOMAIN s = 1..Len(s) /\ \A i \in 1..Len(s) : s[i] \in Callbacks /\ P(i) \in Int
  BY <1>1, SMT
<1>3. \A i, j \in 1..Len(s) : i < j => P(i) >= P(j)
  BY <1>2 DEF Sorted
<1>4. k > 1 => P(k - 1) >= Priority[cb]
  <2> SUFFICES ASSUME k > 1 PROVE P(k - 1) >= Priority[cb]
    OBVIOUS
  <2>1. k - 1 \in 1..Len(s)
    BY <1>2, SMT
  <2> QED
    BY <1>1, <1>2, <2>1, SMT DEF NoOverflow
<1>5. k <= Len(s) => Priority[cb] >= P(k)
  <2> SUFFICES ASSUME k <= Len(s) PROVE Priority[cb] >= P(k)
    OBVIOUS
  <2>1. k \in 1..Len(s)
    BY <1>2, SMT
  <2> QED
    BY <1>1, <1>2, <2>1, SMT DEF NoOverflow
<1>6. \A i \in 1..Len(s) : i < k => P(i) >= Priority[cb]
  BY <1>1, <1>2, <1>3, <1>4, SMT
<1>7. \A i \in 1..Len(s) : i >= k => Priority[cb] >= P(i)
  BY <1>1, <1>2, <1>3, <1>5, SMT
<1> DEFINE t == Insert(s, k, cb)
<1>8. /\ DOMAIN t = 1..Len(s) + 1
      /\ \A i \in 1..Len(s) + 1 :
           Priority[t[i]] = IF i < k THEN P(i) ELSE IF i = k THEN Priority[cb] ELSE P(i - 1)
  BY <1>2 DEF Insert
<1> HIDE DEF t, P
<1>9. ASSUME NEW i \in 1..Len(s) + 1, NEW j \in 1..Len(s) + 1, i < j
      PROVE  Priority[t[i]] >= Priority[t[j]]
  <2>1. CASE j < k
    BY <1>2, <1>3, <1>8, <1>9, <2>1, SMT
  <2>2. CASE j = k
    BY <1>2, <1>6, <1>8, <1>9, <2>2, SMT
  <2>3. CASE j > k
    <3>1. j - 1 \in 1..Len(s) /\ j - 1 >= k
      BY <1>2, <2>3, SMT
    <3>2. CASE i < k
      <4>1. i \in 1..Len(s) /\ i < j - 1
        BY <1>2, <3>1, <3>2, SMT
      <4> QED
        BY <1>3, <1>8, <2>3, <3>1, <3>2, <4>1, SMT
    <3>3. CASE i = k
      BY <1>2, <1>7, <1>8, <1>9, <2>3, <3>1, <3>3, SMT
    <3>4. CASE i > k
      <4>1. i - 1 \in 1..Len(s) /\ i - 1 < j - 1
        BY <1>2, <1>9, <3>4, SMT
      <4> QED
        BY <1>3, <1>8, <2>3, <3>1, <3>4, <4>1, SMT
    <3> QED
      BY <3>2, <3>3, <3>4, SMT
  <2> QED
    BY <1>2, <2>1, <2>2, <2>3, SMT
<1> QED
  BY <1>8, <1>9 DEF Sorted, t

\* CopyOnWriteSortedSet.add keeps the array sorted.
LEMMA SortedAdds ==
  ASSUME NoOverflow, NEW s \in Seq(Callbacks), NEW cb \in Callbacks, Sorted(s),
         NEW t \in Adds(s, cb)
  PROVE  Sorted(t)
<1>1. CASE Has(s, cb)
  BY <1>1 DEF Adds
<1>2. CASE ~Has(s, cb)
  <2>1. PICK k \in 1..Len(s) + 1 : /\ k > 1 => CompareTo(cb, s[k - 1]) >= 0
                                   /\ k <= Len(s) => CompareTo(cb, s[k]) <= 0
                                   /\ t = Insert(s, k, cb)
    BY <1>2 DEF Adds
  <2> QED
    BY <2>1, SortedInsert
<1> QED
  BY <1>1, <1>2

\* CopyOnWriteSortedSet.remove keeps the order of the others.
LEMMA SortedWithout ==
  ASSUME NEW s \in Seq(Callbacks), NEW cb \in Callbacks, Distinct(s), Sorted(s)
  PROVE  Sorted(Without(s, cb))
<1>1. PICK t : t = Without(s, cb)
  OBVIOUS
<1>2. t \in Seq(Callbacks)
  BY <1>1, Taken
<1>3. PICK k \in Nat : \A i \in DOMAIN t :
        t[i] = s[IF i < k THEN i ELSE i + 1] /\ (IF i < k THEN i ELSE i + 1) \in DOMAIN s
  BY <1>1, Taken
<1>4. ASSUME NEW i \in DOMAIN t, NEW j \in DOMAIN t, i < j
      PROVE  Priority[t[i]] >= Priority[t[j]]
  <2>1. i \in Nat /\ j \in Nat
    BY <1>2, SMT
  <2>2. PICK a \in DOMAIN s : a = (IF i < k THEN i ELSE i + 1) /\ t[i] = s[a]
    BY <1>3
  <2>3. PICK b \in DOMAIN s : b = (IF j < k THEN j ELSE j + 1) /\ t[j] = s[b]
    BY <1>3
  <2>4. a < b
    BY <1>4, <2>1, <2>2, <2>3, SMT
  <2> QED
    BY <2>2, <2>3, <2>4 DEF Sorted
<1> QED
  BY <1>1, <1>4 DEF Sorted

\* Hookers sort the callbacks of the entries.
LEMMA HookersSort ==
  ASSUME NoOverflow, Inv3, AllSorted, [BridgeNext]_bridgeVars
  PROVE  \A e \in EntryIds : Sorted(callbacks'[e])
<1> USE DEF Inv3, Inv2
<1>1. ASSUME callbacks' = callbacks PROVE \A e \in EntryIds : Sorted(callbacks'[e])
  BY <1>1 DEF AllSorted
<1>2. ASSUME NEW h \in Hookers, AddCallback(h) PROVE \A e \in EntryIds : Sorted(callbacks'[e])
  <2>1. PICK t \in Adds(callbacks[hk[h].e], hk[h].cb) :
          callbacks' = [callbacks EXCEPT ![hk[h].e] = t]
    BY <1>2 DEF AddCallback
  <2>2. /\ hk[h].e \in EntryIds /\ hk[h].cb \in Callbacks
        /\ callbacks \in [EntryIds -> Seq(Callbacks)]
    BY <1>2 DEF AddCallback, IInv, Monitor, Created
  <2>3. Sorted(t)
    BY <2>2, SortedAdds DEF AllSorted
  <2> QED
    BY <2>1, <2>2, <2>3 DEF AllSorted
<1>3. ASSUME NEW h \in Hookers, NEW cb \in Callbacks, Unhook(h, cb)
      PROVE  \A e \in EntryIds : Sorted(callbacks'[e])
  <2>1. CASE entries = None
    BY <1>1, <1>3, <2>1 DEF Unhook
  <2>2. CASE entries # None
    <3>1. entries \in EntryIds /\ callbacks \in [EntryIds -> Seq(Callbacks)]
      BY <2>2 DEF IInv, Types, Created
    <3>2. PICK t : t = Without(callbacks[entries], cb)
      OBVIOUS
    <3>3. callbacks' = [callbacks EXCEPT ![entries] = t]
      BY <1>3, <2>2, <3>2 DEF Unhook
    <3>4. Sorted(t)
      BY <3>1, <3>2, SortedWithout DEF AllSorted, Reaches
    <3> QED
      BY <3>1, <3>3, <3>4 DEF AllSorted
  <2> QED
    BY <2>1, <2>2
<1>4. ASSUME NEW h \in Hookers, NEW cb \in Callbacks,
             HookNew(h, cb) \/ HookAgain(h, cb)
      PROVE  callbacks' = callbacks
  BY <1>4 DEF HookNew, HookAgain
<1>5. ASSUME NEW h \in Hookers, Put(h) \/ Size(h) \/ NUnhook(h) PROVE callbacks' = callbacks
  BY <1>5 DEF Put, Size, NUnhook
<1>6. ASSUME NEW c \in Callers, CallerStep(c) PROVE callbacks' = callbacks
  BY <1>6 DEF CallerStep, Invoke, InvokeOriginal, Snapshot, CastFails, Return, RunOriginal, Before, After
<1>7. CASE UNCHANGED bridgeVars
  BY <1>1, <1>7 DEF bridgeVars
<1>8. \A h \in Hookers : Owns[h] \subseteq Callbacks
  BY BridgeAssumption
<1> QED
  BY <1>1, <1>2, <1>3, <1>4, <1>5, <1>6, <1>7, <1>8 DEF BridgeNext, CallerStep

\* A call keeps the callbacks it has, or takes those of an entry.
LEMMA CallsSorted ==
  ASSUME Inv3, AllSorted, [BridgeNext]_bridgeVars, NEW c \in Callers
  PROVE  Sorted(call'[c].hooks)
<1> USE DEF Inv3
<1>1. Sorted(<<>>)
  BY SMT DEF Sorted
<1>2. CASE call'[c] = call[c]
  BY <1>2 DEF AllSorted
<1>3. CASE call'[c] # call[c]
  <2>1. CallerStep(c)
    BY <1>3, OwnStep
  <2>2. CASE Snapshot(c)
    <3>1. call'[c].hooks = callbacks[call[c].e] /\ call[c].e \in EntryIds
      BY <2>2, SnapshotDispatches DEF Dispatches, Progress, Snapshot
    <3> QED
      BY <3>1 DEF AllSorted
  <2>3. PICK r : r = call[c]
    OBVIOUS
  <2>4. DOMAIN call = Callers /\ IsCall(r)
    BY <2>3 DEF Dispatches
  <2>5. ASSUME NEW direct \in BOOLEAN, Invoke(c, direct) PROVE call'[c].hooks = <<>>
    BY <2>4, <2>5 DEF Invoke, NoCall
  <2>6. CASE InvokeOriginal(c)
    <3>1. call'[c].hooks = r.hooks
      BY <2>3, <2>4, <2>6 DEF InvokeOriginal, IsCall
    <3> QED
      BY <2>3, <3>1 DEF AllSorted
  <2>7. CASE Return(c)
    <3>1. call'[c].hooks = <<>>
      BY <2>4, <2>7 DEF Return, NoCall
    <3> QED
      BY <1>1, <3>1
  <2>a. CASE CastFails(c)
    <3>1. call'[c].hooks = r.hooks
      BY <2>3, <2>4, <2>a DEF CastFails, IsCall
    <3> QED
      BY <2>3, <3>1 DEF AllSorted
  <2>8. ASSUME NEW did \in Did, RunOriginal(c, did) PROVE call'[c].hooks = r.hooks
    BY <2>3, <2>4, <2>8 DEF RunOriginal, IsCall
  <2>9. ASSUME NEW did \in Did, NEW throws \in BOOLEAN, Before(c, did, throws)
        PROVE  call'[c].hooks = r.hooks
    BY <2>3, <2>4, <2>9 DEF Before, IsCall
  <2>10. ASSUME NEW did \in Did, NEW throws \in BOOLEAN, After(c, did, throws)
         PROVE  call'[c].hooks = r.hooks
    BY <2>3, <2>4, <2>10 DEF After, IsCall
  <2>11. Sorted(r.hooks)
    BY <2>3 DEF AllSorted
  <2> QED
    BY <1>1, <2>1, <2>2, <2>5, <2>6, <2>7, <2>a, <2>8, <2>9, <2>10, <2>11
       DEF CallerStep
<1> QED
  BY <1>2, <1>3

\* Callbacks are called highest priority first, as long as the difference of two
\* priorities is an int: compareTo orders them by it.
THEOREM BridgeHighestFirst ==
  ASSUME NoOverflow
  PROVE  BridgeSpec => []HighestFirst
<1>1. BridgeInit => AllSorted
  BY SMT DEF BridgeInit, AllSorted, Sorted, NoCall
<1>2. Inv3 /\ AllSorted /\ [BridgeNext]_bridgeVars => AllSorted'
  BY HookersSort, CallsSorted DEF AllSorted
<1>3. AllSorted => HighestFirst
  BY DEF AllSorted, Sorted, HighestFirst
<1> QED
  BY <1>1, <1>2, <1>3, BridgeInv3, PTL DEF BridgeSpec
=============================================================================
