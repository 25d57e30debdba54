-------------------------- MODULE InterceptorProofs --------------------------
(***************************************************************************)
(* The inductive invariant of Interceptor: what the frames of the threads, *)
(* the JSScope lock, the entries, g_entries and the live hooks have to do  *)
(* with each other, for any number of threads, functions, entries and      *)
(* frames; that every step preserves it; and what the lock gives the       *)
(* scripts and their hooks: one thread in JavaScript, no trampoline        *)
(* without its original, no live hook of a deleted entry, and no hook that *)
(* g_entries has lost.                                                     *)
(***************************************************************************)
EXTENDS Interceptor, FiniteSetTheorems, TLAPS

\* The leaves are for Zenon unless they say SMT.
USE Zenon

Pcs     == Waiting \cup InJS \cup Native
Frames  == [pc : Pcs, e : Nat]
Ids     == 1..Len(entry)
Entries == [fn : Functions, enter : BOOLEAN, leave : BOOLEAN, native : BOOLEAN,
            patched : BOOLEAN, freed : BOOLEAN]

\* The live hooks but for the ones that HookUninstall failed to remove.
tracked == [f \in Functions |-> IF f \in stuck THEN None ELSE hooked[f]]

\* The types that the argument needs.
TypeOK ==
    /\ owner \in Threads \cup {None}
    /\ entry \in Seq(Entries) /\ g_entries \in Seq(Nat)
    /\ \A k \in 1..Len(g_entries) : g_entries[k] \in Ids
    /\ tracked \in [Functions -> Ids \cup {None}]
    /\ stack \in [Threads -> Seq(Frames)]

\* The frames of a thread, and the one at the top.
Depth(t)     == Len(stack[t])
On(t, pc)    == Depth(t) > 0 /\ stack[t][Depth(t)].pc = pc
Works(t, pc, e) == On(t, pc) /\ stack[t][Depth(t)].e = e

\* Frames are pushed on frames in JavaScript only; API calls are made from one.
Stacks ==
    \A t \in Threads : \A i \in 1..Depth(t) :
      /\ i < Depth(t) => stack[t][i].pc \in InJS
      /\ stack[t][i].pc \in {"install", "patch", "detach", "free"} => i > 1
      /\ stack[t][i].pc \notin {"load", "script", "detach", "free"} => stack[t][i].e \in Ids

\* JavaScript runs under the lock.
Scoped ==
    \A t \in Threads : \A i \in 1..Depth(t) : stack[t][i].pc \in InJS => owner = t

\* The lock is held once for each frame in JavaScript.
InScope(t) ==
    IF Depth(t) = 0 \/ stack[t][Depth(t)].pc \in InJS THEN Depth(t) ELSE Depth(t) - 1
Counted == fault = "none" => depth = IF owner = None THEN 0 ELSE InScope(owner)

\* An entry that is patched, or whose attach is about to patch it.
Installed(e) == entry[e].patched \/ \E u \in Threads : Works(u, "patch", e)

\* A call is in the trampoline of an entry that was installed, and past the lock
\* in one that is patched.
Calls ==
    \A t \in Threads : \A i \in 1..Depth(t) :
      /\ stack[t][i].pc \in {"enter", "waitEnter"} => Installed(stack[t][i].e)
      /\ stack[t][i].pc = "inEnter" => entry[stack[t][i].e].patched
      /\ stack[t][i].pc = "orig" /\ entry[stack[t][i].e].enter => entry[stack[t][i].e].patched

Listed(e) == \E k \in 1..Len(g_entries) : g_entries[k] = e

\* A live hook belongs to an entry that is listed or about to be.
Live ==
    \A f \in Functions : tracked[f] # None =>
      /\ ~entry[tracked[f]].freed /\ entry[tracked[f]].fn = f
      /\ Listed(tracked[f]) \/ \E u \in Threads : Works(u, "patch", tracked[f])

\* attach works on an entry that nobody else knows.
Private ==
    \A t \in Threads : \A e \in Ids :
      /\ Works(t, "install", e) =>
           ~entry[e].freed /\ ~Listed(e) /\ \A f \in Functions : tracked[f] # e
      /\ Works(t, "patch", e) => ~Listed(e) /\ tracked[entry[e].fn] = e

\* A listed entry is the live hook of its function, unless detachAll has just
\* unhooked it, or failed to, and is about to delete it; and it is listed once.
Registry ==
    /\ \A k \in 1..Len(g_entries) :
         /\ entry[g_entries[k]].patched
         /\ \/ tracked[entry[g_entries[k]].fn] = g_entries[k]
            \/ k = 1 /\ tracked[entry[g_entries[k]].fn] = None
                     /\ \E u \in Threads : On(u, "free")
    /\ \A j, k \in 1..Len(g_entries) : entry[g_entries[j]].fn = entry[g_entries[k]].fn => j = k
    /\ \A u \in Threads : On(u, "free") =>
         Len(g_entries) > 0 /\ tracked[entry[g_entries[1]].fn] = None

Core == TypeOK /\ Stacks /\ Scoped /\ Counted /\ Calls /\ Live /\ Private /\ Registry

\* A hook that HookUninstall failed to remove stays live, with the trampoline of
\* an entry of its function that was patched.
Strays ==
    /\ stuck \subseteq Functions /\ hooked \in [Functions -> Ids \cup {None}]
    /\ \A f \in stuck : /\ hooked[f] \in Ids
                         /\ entry[hooked[f]].fn = f /\ entry[hooked[f]].patched

\* The inductive invariant.
IInv == Core /\ Strays
-----------------------------------------------------------------------------
(* Stacks *)

\* The operators of the specification, in terms of the depth.
LEMMA Tops ==
  ASSUME TypeOK, NEW t \in Threads
  PROVE  /\ Depth(t) \in Nat /\ (Idle(t) <=> Depth(t) = 0)
         /\ Top(t) = stack[t][Depth(t)]
         /\ Depth(t) # 0 => Top(t) \in Frames
         /\ \A i \in 1..Depth(t) : stack[t][i] \in Frames
  BY SMT DEF TypeOK, Depth, Idle, Top

\* The stack of t keeps its first k frames and gets at most one more.
Keeps(t, k) ==
    /\ stack' \in [Threads -> Seq(Frames)]
    /\ \A u \in Threads \ {t} : stack'[u] = stack[u]
    /\ \A i \in 1..k : stack'[t][i] = stack[t][i]

\* Push, Goto and Pop change the top frame of one thread.
LEMMA Pushed ==
  ASSUME TypeOK, NEW t \in Threads, NEW fr \in Frames, Push(t, fr)
  PROVE  Keeps(t, Depth(t)) /\ Depth(t)' = Depth(t) + 1 /\ stack'[t][Depth(t)'] = fr
  BY SMT DEF TypeOK, Push, Keeps, Depth

LEMMA Popped ==
  ASSUME TypeOK, NEW t \in Threads, Depth(t) # 0, Pop(t)
  PROVE  Keeps(t, Depth(t) - 1) /\ Depth(t)' = Depth(t) - 1
<1> DEFINE front == SubSeq(stack[t], 1, Depth(t) - 1)
<1>1. /\ front \in Seq(Frames) /\ Len(front) = Depth(t) - 1
      /\ \A i \in 1..Depth(t) - 1 : front[i] = stack[t][i]
  BY Tops, SMT DEF Depth
<1> QED
  BY <1>1 DEF TypeOK, Pop, Keeps, Depth

LEMMA Moved ==
  ASSUME TypeOK, NEW t \in Threads, NEW pc \in Pcs, Depth(t) # 0, Goto(t, pc)
  PROVE  /\ Keeps(t, Depth(t) - 1) /\ Depth(t)' = Depth(t)
         /\ stack'[t][Depth(t)] = Frame(pc, stack[t][Depth(t)].e)
<1> DEFINE e == stack[t][Depth(t)].e
           moved == [stack[t] EXCEPT ![Len(stack[t])].pc = pc]
<1>1. stack[t] \in Seq(Frames) /\ Depth(t) \in 1..Depth(t) /\ stack[t][Depth(t)] \in Frames
  BY Tops, SMT DEF TypeOK
<1>2. /\ [stack[t][Depth(t)] EXCEPT !.pc = pc] = Frame(pc, e)
      /\ Frame(pc, e) \in Frames
  BY <1>1, SMTT(30) DEF Frame, Frames
<1>3. moved = [stack[t] EXCEPT ![Depth(t)] = Frame(pc, e)]
  BY <1>2 DEF Depth
<1>4. /\ moved \in Seq(Frames) /\ Len(moved) = Depth(t) /\ moved[Depth(t)] = Frame(pc, e)
      /\ \A i \in 1..Depth(t) - 1 : moved[i] = stack[t][i]
  BY <1>1, <1>2, <1>3, SMT DEF Depth
<1> HIDE DEF moved
<1>5. stack' = [stack EXCEPT ![t] = moved]
  BY ZenonT(30) DEF Goto, moved
<1> QED
  BY <1>4, <1>5 DEF TypeOK, Keeps, Depth
-----------------------------------------------------------------------------
(* Frames *)

\* What the frame that a step leaves at the top has to satisfy.
TopFits(t) ==
    LET fr == stack[t][Depth(t)] IN
    /\ fr.pc \in {"install", "patch", "detach", "free"} => Depth(t) > 1
    /\ fr.pc \notin {"load", "script", "detach", "free"} => fr.e \in Ids
    /\ fr.pc \in InJS => owner = t
    /\ fr.pc \in {"enter", "waitEnter"} => Installed(fr.e)
    /\ fr.pc = "inEnter" => entry[fr.e].patched
    /\ fr.pc = "orig" /\ entry[fr.e].enter => entry[fr.e].patched

\* Entries keep their callbacks and stay installed.
Kept ==
    \A e \in Ids : /\ e \in Ids' /\ entry'[e].enter = entry[e].enter
                   /\ entry[e].patched => entry'[e].patched
                   /\ Installed(e) => Installed(e)'

\* A step of t that changes its top frame and no more preserves what is said of
\* frames.
LEMMA FramesKept ==
  ASSUME TypeOK, Stacks, Scoped, Calls, NEW t \in Threads, NEW k \in Nat,
         k <= Depth(t), \A i \in 1..k : stack[t][i].pc \in InJS,
         Keeps(t, k), Kept,
         \/ Depth(t)' = k
         \/ Depth(t)' = k + 1 /\ TopFits(t)',
         \A u \in Threads : \A i \in 1..Depth(u) :
           stack[u][i].pc \in InJS /\ (u = t => i <= k) => owner' = u
  PROVE  Stacks' /\ Scoped' /\ Calls'
<1> DEFINE Fits(u, i) ==
             /\ i < Depth(u) => stack[u][i].pc \in InJS
             /\ stack[u][i].pc \in {"install", "patch", "detach", "free"} => i > 1
             /\ stack[u][i].pc \notin {"load", "script", "detach", "free"} => stack[u][i].e \in Ids
             /\ stack[u][i].pc \in InJS => owner = u
             /\ stack[u][i].pc \in {"enter", "waitEnter"} => Installed(stack[u][i].e)
             /\ stack[u][i].pc = "inEnter" => entry[stack[u][i].e].patched
             /\ stack[u][i].pc = "orig" /\ entry[stack[u][i].e].enter =>
                  entry[stack[u][i].e].patched
<1> SUFFICES ASSUME NEW u \in Threads, NEW i \in 1..Depth(u)'
             PROVE  Fits(u, i)'
  BY DEF Stacks, Scoped, Calls
<1>1. Depth(u) \in Nat /\ Depth(u)' \in Nat
  BY SMT DEF TypeOK, Keeps, Depth
<1>2. CASE u # t \/ i <= k
  <2>1. i \in 1..Depth(u) /\ stack'[u][i] = stack[u][i]
    BY <1>1, <1>2, SMT DEF Keeps, Depth
  <2>2. i < Depth(u)' => stack'[u][i].pc \in InJS
    BY <1>1, <1>2, <2>1, SMT DEF Keeps, Depth, Stacks
  <2>3. stack[u][i].pc \in InJS /\ (u = t => i <= k) => owner' = u
    BY <2>1
  <2> QED
    BY <1>2, <2>1, <2>2, <2>3, ZenonT(30) DEF Stacks, Calls, Kept, InJS
<1>3. CASE u = t /\ i > k
  <2>1. i = k + 1 /\ Depth(u)' = k + 1 /\ TopFits(t)'
    BY <1>1, <1>3, SMT
  <2>2. i = Depth(t)' /\ u = t /\ ~(i < Depth(u)')
    BY <1>1, <1>3, <2>1, SMTT(30)
  <2> QED
    BY <2>1, <2>2 DEF TopFits
<1> QED
  BY <1>1, <1>2, <1>3, SMT

\* Every frame below the top runs JavaScript, so its thread owns the lock.
LEMMA Below ==
  ASSUME TypeOK, Stacks, Scoped, NEW t \in Threads
  PROVE  /\ \A i \in 1..Depth(t) - 1 : stack[t][i].pc \in InJS
         /\ Depth(t) > 1 => owner = t
         /\ RunsJS(t) => /\ Depth(t) > 0 /\ owner = t
                         /\ \A i \in 1..Depth(t) : stack[t][i].pc \in InJS
<1>1. \A i \in 1..Depth(t) - 1 : stack[t][i].pc \in InJS
  BY Tops, SMT DEF Stacks
<1>2. Depth(t) > 1 => owner = t
  BY <1>1, Tops, SMT DEF Scoped
<1>3. ASSUME RunsJS(t)
      PROVE  Depth(t) > 0 /\ stack[t][Depth(t)].pc \in InJS
  BY <1>3, Tops, SMT DEF RunsJS
<1> QED
  BY <1>1, <1>2, <1>3, Tops, SMTT(30) DEF Scoped

\* A step that leaves the hooks alone, and no attach begins or ends, preserves
\* what is said of them.
LEMMA HooksKept ==
  ASSUME TypeOK, Live, Private, Registry, NEW t \in Threads, NEW k \in Nat,
         Keeps(t, k), UNCHANGED <<tracked, entry, g_entries>>,
         \A pc \in {"install", "patch", "free"} : ~On(t, pc) /\ ~On(t, pc)'
  PROVE  Live' /\ Private' /\ Registry' /\ Kept
<1>1. ASSUME NEW u \in Threads, NEW e \in Nat
      PROVE  /\ Works(u, "patch", e)' <=> Works(u, "patch", e)
             /\ Works(u, "install", e)' <=> Works(u, "install", e)
  BY DEF Keeps, Works, On, Depth
<1>2. \A u \in Threads : On(u, "free")' <=> On(u, "free")
  BY DEF Keeps, On, Depth
<1>3. Ids \subseteq Nat /\ \A f \in Functions : tracked[f] # None => tracked[f] \in Nat
  BY SMT DEF TypeOK, Ids
<1>4. \A e \in Nat : (Installed(e)' <=> Installed(e)) /\ (Listed(e)' <=> Listed(e))
  BY <1>1 DEF Installed, Listed
<1>5. Kept
  BY <1>3, <1>4 DEF Kept, Ids
<1>6. Live'
  BY <1>1, <1>3, <1>4 DEF Live
<1>7. Private'
  BY <1>1, <1>3, <1>4 DEF Private, Ids
<1>8. Registry'
  BY <1>2, SMT DEF Registry
<1> QED
  BY <1>5, <1>6, <1>7, <1>8

\* The lock is counted right when neither it nor the frames under it change.
LEMMA CountKept ==
  ASSUME Counted, UNCHANGED <<owner, depth>>, fault = "none", TypeOK,
         NEW t \in Threads, NEW k \in Nat, Keeps(t, k), InScope(t)' = InScope(t)
  PROVE  Counted'
<1>1. \A u \in Threads : InScope(u)' = InScope(u)
  BY DEF Keeps, InScope, Depth
<1> QED
  BY <1>1 DEF Counted, TypeOK
-----------------------------------------------------------------------------
(* The steps that leave the lock and the hooks alone *)

\* LoadScript, a hooked call and detachAll push a frame that is not in
\* JavaScript yet.
LEMMA PushStep ==
  ASSUME Core, NEW t \in Threads, NEW fr \in Frames, Push(t, fr), fault = "none",
         UNCHANGED <<owner, depth, tracked, entry, g_entries>>,
         \/ fr.pc = "load" /\ Idle(t)
         \/ fr.pc = "enter" /\ (Idle(t) \/ RunsJS(t)) /\ fr.e \in Ids /\ Installed(fr.e)
         \/ fr.pc = "detach" /\ RunsJS(t)
  PROVE  Core'
<1> USE DEF Core
<1>1. /\ Keeps(t, Depth(t)) /\ Depth(t)' = Depth(t) + 1 /\ stack'[t][Depth(t)'] = fr
      /\ Depth(t) \in Nat
  BY Pushed, Tops
<1>2. TypeOK'
  BY <1>1 DEF TypeOK, Keeps, Ids
<1>3. \A i \in 1..Depth(t) : stack[t][i].pc \in InJS
  BY Below, Tops, SMTT(30)
<1>4. \A pc \in {"install", "patch", "detach", "free"} : ~On(t, pc)
  BY <1>1, <1>3, SMT DEF On, InJS
<1>5. Live' /\ Private' /\ Registry' /\ Kept
  BY <1>1, <1>2, <1>4, HooksKept DEF On
<1>6. TopFits(t)'
  <2>1. fr.pc = "enter" => Installed(fr.e)'
    BY <1>5 DEF Kept
  <2>2. fr.pc = "detach" => Depth(t)' > 1
    BY <1>1, Below, SMTT(30)
  <2> QED
    BY <1>1, <2>1, <2>2 DEF TopFits, InJS, Ids
<1>7. Stacks' /\ Scoped' /\ Calls'
  <2>1. \A u \in Threads : \A i \in 1..Depth(u) : stack[u][i].pc \in InJS => owner' = u
    BY DEF Scoped
  <2> QED
    BY <1>1, <1>3, <1>5, <1>6, <2>1, FramesKept, SMTT(30)
<1>8. InScope(t)' = InScope(t)
  BY <1>1, <1>3, SMTT(30) DEF InScope, InJS
<1> QED
  BY <1>1, <1>2, <1>5, <1>7, <1>8, CountKept

\* The dispatchers and the trampoline take a call from one stage to the next.
LEMMA GotoStep ==
  ASSUME Core, NEW t \in Threads, NEW pc \in Pcs, Goto(t, pc), Depth(t) # 0,
         fault = "none", UNCHANGED <<owner, depth, tracked, entry, g_entries>>,
         \/ On(t, "enter") /\ pc = "waitEnter"
         \/ On(t, "enter") /\ pc = "orig" /\ ~entry[stack[t][Depth(t)].e].enter
         \/ On(t, "orig") /\ pc = "leave"
         \/ On(t, "leave") /\ pc = "waitLeave"
  PROVE  Core'
<1> USE DEF Core
<1>1. /\ Keeps(t, Depth(t) - 1) /\ Depth(t)' = Depth(t) /\ Depth(t) \in Nat
      /\ stack'[t][Depth(t)] = Frame(pc, stack[t][Depth(t)].e)
  BY Moved, Tops
<1>2. TypeOK'
  BY <1>1 DEF TypeOK, Keeps, Ids
<1>3. stack'[t][Depth(t)].pc = pc /\ stack'[t][Depth(t)].e = stack[t][Depth(t)].e
  BY <1>1, SMT DEF Frame
<1>4. \A p \in {"install", "patch", "detach", "free"} : ~On(t, p) /\ ~On(t, p)'
  BY <1>1, <1>3 DEF On
<1>5. Live' /\ Private' /\ Registry' /\ Kept
  BY <1>1, <1>2, <1>4, HooksKept, SMTT(30)
<1>6. TopFits(t)'
  <2>1. stack[t][Depth(t)].e \in Ids
    BY <1>1, SMTT(30) DEF Stacks, On
  <2>2. pc = "waitEnter" => Installed(stack[t][Depth(t)].e)
    BY <1>1, SMT DEF Calls, On
  <2>3. pc = "waitEnter" => Installed(stack[t][Depth(t)].e)'
    <3>1. \A x \in Ids : Installed(x) => Installed(x)'
      BY <1>5 DEF Kept
    <3> QED
      BY <1>1, <1>3, <2>1, <2>2, <3>1 DEF Installed
  <2> QED
    BY <1>1, <1>3, <2>1, <2>2, <2>3, <1>5, ZenonT(30) DEF TopFits, InJS, Ids, Kept
<1>7. Stacks' /\ Scoped' /\ Calls'
  <2>1. \A u \in Threads : \A i \in 1..Depth(u) : stack[u][i].pc \in InJS => owner' = u
    BY DEF Scoped
  <2>2. \A i \in 1..Depth(t) - 1 : stack[t][i].pc \in InJS
    BY Below
  <2>3. Depth(t) - 1 \in Nat /\ Depth(t) - 1 <= Depth(t) /\ Depth(t)' = (Depth(t) - 1) + 1
    BY <1>1, SMT
  <2> QED
    BY <1>1, <1>5, <1>6, <2>1, <2>2, <2>3, FramesKept, Zenon
<1>8. InScope(t)' = InScope(t)
  BY <1>1, <1>3 DEF InScope, InJS, On
<1> QED
  BY <1>1, <1>2, <1>5, <1>7, <1>8, CountKept, SMTT(30)

\* A call without onLeave and a finished detachAll return.
LEMMA PopStep ==
  ASSUME Core, NEW t \in Threads, Pop(t), fault = "none",
         UNCHANGED <<owner, depth, tracked, entry, g_entries>>,
         On(t, "leave") \/ (On(t, "detach") /\ g_entries = <<>>)
  PROVE  Core'
<1> USE DEF Core
<1>1. Keeps(t, Depth(t) - 1) /\ Depth(t)' = Depth(t) - 1 /\ Depth(t) \in Nat /\ Depth(t) # 0
  BY Popped, Tops, SMT DEF On
<1>2. TypeOK'
  BY <1>1 DEF TypeOK, Keeps, Ids
<1>3. \A i \in 1..Depth(t) - 1 : stack[t][i].pc \in InJS /\ stack'[t][i] = stack[t][i]
  BY <1>1, Below DEF Keeps
<1>4. \A p \in {"install", "patch", "free"} : ~On(t, p) /\ ~On(t, p)'
  BY <1>1, <1>3, SMTT(30) DEF On, InJS
<1>5. Live' /\ Private' /\ Registry' /\ Kept
  BY <1>1, <1>2, <1>4, HooksKept, SMTT(30) DEF On
<1>6. Stacks' /\ Scoped' /\ Calls'
  <2>1. \A u \in Threads : \A i \in 1..Depth(u) : stack[u][i].pc \in InJS => owner' = u
    BY DEF Scoped
  <2> QED
    BY <1>1, <1>3, <1>5, <2>1, FramesKept, SMTT(30)
<1>7. InScope(t)' = InScope(t)
  BY <1>1, <1>3, SMT DEF InScope, InJS, On
<1> QED
  BY <1>1, <1>2, <1>5, <1>6, <1>7, CountKept, SMTT(30)

\* A fault stops everything; the lock may have just been taken.
LEMMA FaultStep ==
  ASSUME Core, NEW t \in Threads, fault' # "none",
         UNCHANGED <<tracked, entry, g_entries, stack>>,
         owner' = owner \/ (owner \in {None, t} /\ owner' = t)
  PROVE  Core'
<1> USE DEF Core
<1>1. TypeOK' /\ Counted'
  BY SMTT(20) DEF TypeOK, Counted, Ids
<1>2. Stacks' /\ Calls' /\ Live' /\ Private' /\ Registry'
  <2>1. Stacks'
    BY DEF Stacks, Depth, Ids
  <2>2. Calls'
    BY ZenonT(30) DEF Calls, Installed, Works, On, Depth
  <2>3. Live'
    BY ZenonT(30) DEF Live, Works, On, Depth, Listed
  <2>4. Private'
    BY ZenonT(30) DEF Private, Works, On, Depth, Listed, Ids
  <2>5. Registry'
    BY DEF Registry, On, Depth
  <2> QED
    BY <2>1, <2>2, <2>3, <2>4, <2>5
<1>3. Scoped'
  BY InterceptorAssumption DEF Scoped, Depth, Threads
<1> QED
  BY <1>1, <1>2, <1>3
-----------------------------------------------------------------------------
(* The lock *)

\* A thread with the lock free for it finds every installed entry patched: the
\* attach that has not patched its entry yet would hold the lock.
LEMMA LockedPatched ==
  ASSUME Core, NEW t \in Threads, NEW e \in Ids, owner \in {None, t},
         Installed(e), ~On(t, "patch")
  PROVE  entry[e].patched
<1>1. ASSUME NEW u \in Threads, Works(u, "patch", e)
      PROVE  FALSE
  <2>1. Depth(u) > 1
    BY <1>1, Tops, SMT DEF Core, Works, On, Stacks
  <2>2. owner = u /\ u # None
    BY <2>1, Below, InterceptorAssumption DEF Core, Threads
  <2> QED
    BY <1>1, <2>2 DEF Works
<1> QED
  BY <1>1 DEF Installed

\* EnterScope without a fault: the waiting frame goes on in JavaScript.
LEMMA LockStep ==
  ASSUME Core, NEW t \in Threads, NEW pc \in Pcs, Lock(t), Goto(t, pc), Depth(t) # 0,
         fault = "none", UNCHANGED <<tracked, entry, g_entries>>,
         \/ On(t, "load") /\ pc = "script"
         \/ On(t, "waitEnter") /\ pc = "inEnter"
         \/ On(t, "waitLeave") /\ pc = "inLeave"
  PROVE  Core'
<1> USE DEF Core
<1>1. /\ Keeps(t, Depth(t) - 1) /\ Depth(t)' = Depth(t) /\ Depth(t) \in Nat
      /\ stack'[t][Depth(t)] = Frame(pc, stack[t][Depth(t)].e)
  BY Moved, Tops
<1>2. TypeOK'
  BY <1>1 DEF TypeOK, Keeps, Ids, Lock
<1>3. stack'[t][Depth(t)].pc = pc /\ stack'[t][Depth(t)].e = stack[t][Depth(t)].e
  BY <1>1, SMT DEF Frame
<1>4. \A p \in {"install", "patch", "detach", "free"} : ~On(t, p) /\ ~On(t, p)'
  BY <1>1, <1>3 DEF On
<1>5. Live' /\ Private' /\ Registry' /\ Kept
  BY <1>1, <1>2, <1>4, HooksKept, SMTT(30)
<1>6. TopFits(t)'
  <2>1. pc # "script" => stack[t][Depth(t)].e \in Ids
    BY <1>1, SMT DEF Stacks, On
  <2>2. pc = "inEnter" => entry[stack[t][Depth(t)].e].patched
    <3>1. pc = "inEnter" => Installed(stack[t][Depth(t)].e)
      BY <1>1, SMT DEF Calls, On
    <3> QED
      BY <1>4, <2>1, <3>1, LockedPatched, ZenonT(30) DEF Lock
  <2> QED
    BY <1>1, <1>3, <2>1, <2>2 DEF TopFits, InJS, Ids, Lock
<1>7. Stacks' /\ Scoped' /\ Calls'
  <2>1. \A u \in Threads : \A i \in 1..Depth(u) : stack[u][i].pc \in InJS => owner' = u
    BY InterceptorAssumption DEF Scoped, Lock, Threads
  <2>2. \A i \in 1..Depth(t) - 1 : stack[t][i].pc \in InJS
    BY Below
  <2>3. Depth(t) - 1 \in Nat /\ Depth(t) - 1 <= Depth(t) /\ Depth(t)' = (Depth(t) - 1) + 1
    BY <1>1, SMTT(30)
  <2> QED
    BY <1>1, <1>5, <1>6, <2>1, <2>2, <2>3, FramesKept, Zenon
<1>8. Counted'
  <2>1. InScope(t) = Depth(t) - 1 /\ InScope(t)' = Depth(t) /\ t # None
    BY <1>1, <1>3, InterceptorAssumption DEF InScope, InJS, On, Threads
  <2>2. depth = Depth(t) - 1
    BY <1>1, <2>1, Below, SMT DEF Counted, Lock
  <2> QED
    BY <1>1, <2>1, <2>2, SMT DEF Counted, Lock
<1> QED
  BY <1>2, <1>5, <1>7, <1>8

\* LeaveScope: the lock is given back once, and the frame below goes on.
LEMMA UnlockStep ==
  ASSUME Core, NEW t \in Threads, fault = "none", LeaveScope(t)
  PROVE  Core'
<1> USE DEF Core
<1>1. /\ Depth(t) \in Nat /\ Depth(t) > 0 /\ owner = t /\ t # None
      /\ \A i \in 1..Depth(t) : stack[t][i].pc \in InJS
      /\ Top(t) = stack[t][Depth(t)]
  BY Below, Tops, InterceptorAssumption DEF LeaveScope, Threads
<1>2. /\ UNCHANGED <<tracked, entry, g_entries>> /\ Unlock(t) /\ fault' = fault
      /\ IF Top(t).pc = "inEnter" THEN Goto(t, "orig") ELSE Pop(t)
  BY DEF LeaveScope, tracked
<1>3. depth = Depth(t) /\ owner' = (IF Depth(t) = 1 THEN None ELSE t) /\ depth' = Depth(t) - 1
  BY <1>1, <1>2, SMT DEF Counted, InScope, Unlock
<1>4. /\ Keeps(t, Depth(t) - 1)
      /\ \/ Depth(t)' = Depth(t) - 1
         \/ /\ Depth(t)' = Depth(t) /\ stack[t][Depth(t)].pc = "inEnter"
            /\ stack'[t][Depth(t)].pc = "orig"
            /\ stack'[t][Depth(t)].e = stack[t][Depth(t)].e
  <2>1. CASE Top(t).pc = "inEnter"
    <3>1. "orig" \in Pcs /\ Goto(t, "orig") /\ Depth(t) # 0
      BY <1>1, <1>2, <2>1, SMTT(30) DEF Pcs, Native
    <3>2. /\ Keeps(t, Depth(t) - 1) /\ Depth(t)' = Depth(t)
          /\ stack'[t][Depth(t)] = Frame("orig", stack[t][Depth(t)].e)
      BY <3>1, Moved
    <3> QED
      BY <1>1, <2>1, <3>2, SMTT(30) DEF Frame
  <2>2. CASE Top(t).pc # "inEnter"
    BY <1>1, <1>2, <2>2, Popped, SMTT(30)
  <2> QED
    BY <2>1, <2>2
<1>5. TypeOK'
  BY <1>2, <1>3, <1>4 DEF TypeOK, Keeps, Ids
<1>6. \A p \in {"install", "patch", "detach", "free"} : ~On(t, p) /\ ~On(t, p)'
  <2>1. \A i \in 1..Depth(t) - 1 : stack'[t][i].pc \in InJS
    BY <1>1, <1>4, SMTT(30) DEF Keeps
  <2>2. Depth(t)' > 0 => stack'[t][Depth(t)'].pc \in InJS \cup {"orig"}
    BY <1>1, <1>4, <2>1, SMTT(30)
  <2> QED
    BY <1>1, <2>2, SMTT(30) DEF On, InJS
<1>7. Live' /\ Private' /\ Registry' /\ Kept
  <2>1. Depth(t) - 1 \in Nat
    BY <1>1, SMTT(30)
  <2> QED
    BY <1>2, <1>4, <1>5, <1>6, <2>1, HooksKept
<1>8. Depth(t)' = Depth(t) => TopFits(t)'
  <2>1. stack[t][Depth(t)].pc = "inEnter" =>
          stack[t][Depth(t)].e \in Ids /\ entry[stack[t][Depth(t)].e].patched
    BY <1>1, SMT DEF Stacks, Calls
  <2> QED
    BY <1>1, <1>2, <1>4, <2>1, SMTT(30) DEF TopFits, InJS, Ids
<1>9. Stacks' /\ Scoped' /\ Calls'
  <2>1. \A u \in Threads : \A i \in 1..Depth(u) :
          stack[u][i].pc \in InJS /\ (u = t => i <= Depth(t) - 1) => owner' = u
    <3>1. Depth(t) > 1 => owner' = t
      BY <1>1, <1>3, SMT
    <3>2. \A u \in Threads : \A i \in 1..Depth(u) : stack[u][i].pc \in InJS => u = t
      BY <1>1 DEF Scoped
    <3> QED
      BY <1>1, <3>1, <3>2, SMTT(30)
  <2>2. /\ Depth(t) - 1 \in Nat /\ Depth(t) - 1 <= Depth(t)
        /\ \A i \in 1..Depth(t) - 1 : stack[t][i].pc \in InJS
    BY <1>1, SMTT(30)
  <2>3. Depth(t) = (Depth(t) - 1) + 1
    BY <1>1, SMT
  <2>4. Depth(t)' = Depth(t) - 1 \/ (Depth(t)' = (Depth(t) - 1) + 1 /\ TopFits(t)')
    BY <1>4, <1>8, <2>3
  <2> QED
    BY <1>4, <1>7, <2>1, <2>2, <2>4, FramesKept
<1>10. Counted'
  <2>1. InScope(t)' = Depth(t) - 1
    <3>1. CASE Depth(t)' = Depth(t) - 1
      <4>1. Depth(t)' > 0 => stack'[t][Depth(t)'].pc \in InJS
        BY <1>1, <1>4, <3>1, SMTT(30) DEF Keeps
      <4> QED
        BY <1>1, <3>1, <4>1, SMTT(30) DEF InScope
    <3>2. CASE Depth(t)' # Depth(t) - 1
      BY <1>1, <1>4, <3>2, SMTT(30) DEF InScope, InJS
    <3> QED
      BY <3>1, <3>2
  <2> QED
    BY <1>1, <1>3, <2>1, SMTT(30) DEF Counted
<1> QED
  BY <1>5, <1>7, <1>9, <1>10
-----------------------------------------------------------------------------
(* The hooks *)

\* A sequence and one element more.
LEMMA Appended ==
  ASSUME NEW S, NEW s \in Seq(S), NEW x \in S
  PROVE  /\ Append(s, x) \in Seq(S) /\ Len(Append(s, x)) = Len(s) + 1
         /\ Append(s, x)[Len(s) + 1] = x
         /\ \A i \in 1..Len(s) : Append(s, x)[i] = s[i]
         /\ 1..Len(Append(s, x)) = (1..Len(s)) \cup {Len(s) + 1}
<1>1. Append(s, x) \in Seq(S) /\ Len(Append(s, x)) = Len(s) + 1
  BY SMT
<1>2. 1..Len(s) + 1 = (1..Len(s)) \cup {Len(s) + 1}
  BY SMT
<1> QED
  BY <1>1, <1>2, SMT

\* A new entry gets the next identity and leaves the others alone.
LEMMA Allocated ==
  ASSUME TypeOK, NEW r \in Entries, entry' = Append(entry, r)
  PROVE  /\ entry' \in Seq(Entries) /\ Ids' = Ids \cup {Len(entry) + 1}
         /\ entry'[Len(entry) + 1] = r /\ \A e \in Ids : entry'[e] = entry[e]
<1>1. entry \in Seq(Entries)
  BY DEF TypeOK
<1>2. /\ Append(entry, r) \in Seq(Entries)
      /\ Append(entry, r)[Len(entry) + 1] = r
      /\ \A i \in 1..Len(entry) : Append(entry, r)[i] = entry[i]
      /\ 1..Len(Append(entry, r)) = (1..Len(entry)) \cup {Len(entry) + 1}
  BY <1>1, Appended, SMT
<1> QED
  BY <1>2 DEF Ids

\* An entry is for one of the functions.
LEMMA Typed ==
  ASSUME TypeOK
  PROVE  \A e \in Ids : entry[e].fn \in Functions
<1>1. \A e \in Ids : entry[e] \in Entries
  BY SMT DEF TypeOK, Ids
<1> QED
  BY <1>1 DEF Entries

\* delete and the patch of the trampoline change one entry.
LEMMA Deleted ==
  ASSUME TypeOK, NEW e \in Ids, entry' = [entry EXCEPT ![e].freed = TRUE]
  PROVE  /\ entry' \in Seq(Entries) /\ Ids' = Ids
         /\ \A x \in Ids : /\ entry'[x].fn = entry[x].fn /\ entry'[x].enter = entry[x].enter
                           /\ entry'[x].patched = entry[x].patched
                           /\ x # e => entry'[x].freed = entry[x].freed
<1>1. entry \in Seq(Entries) /\ \A x \in Ids : entry[x] \in Entries
  BY SMT DEF TypeOK, Ids
<1>2. [entry[e] EXCEPT !.freed = TRUE] \in Entries
  BY <1>1, Zenon DEF Entries
<1>3. entry' \in Seq(Entries) /\ Len(entry') = Len(entry)
  BY <1>1, <1>2, SMTT(30) DEF Ids
<1>4. \A x \in Ids : entry'[x] = IF x = e THEN [entry[e] EXCEPT !.freed = TRUE] ELSE entry[x]
  BY <1>1, SMT DEF Ids
<1>5. /\ entry'[e].fn = entry[e].fn /\ entry'[e].enter = entry[e].enter
      /\ entry'[e].patched = entry[e].patched
  BY <1>1, <1>4, SMTT(30) DEF Entries
<1> QED
  BY <1>3, <1>4, <1>5, Zenon DEF Ids

LEMMA Patched ==
  ASSUME TypeOK, NEW e \in Ids, entry' = [entry EXCEPT ![e].patched = TRUE]
  PROVE  /\ entry' \in Seq(Entries) /\ Ids' = Ids /\ entry'[e].patched
         /\ \A x \in Ids : /\ entry'[x].fn = entry[x].fn /\ entry'[x].enter = entry[x].enter
                           /\ entry'[x].freed = entry[x].freed
                           /\ entry[x].patched => entry'[x].patched
<1>1. entry \in Seq(Entries) /\ \A x \in Ids : entry[x] \in Entries
  BY SMT DEF TypeOK, Ids
<1>2. [entry[e] EXCEPT !.patched = TRUE] \in Entries
  BY <1>1, Zenon DEF Entries
<1>3. entry' \in Seq(Entries) /\ Len(entry') = Len(entry)
  BY <1>1, <1>2, SMT DEF Ids
<1> QED
  BY <1>1, <1>3, SMTT(30) DEF Ids, Entries

\* Only the owner of the lock can be inside the API.
LEMMA OneInAPI ==
  ASSUME Core, NEW t \in Threads, owner = t
  PROVE  \A u \in Threads : \A pc \in {"install", "patch", "detach", "free"} : On(u, pc) => u = t
<1>1. ASSUME NEW u \in Threads, NEW pc \in {"install", "patch", "detach", "free"}, On(u, pc)
      PROVE  u = t
  <2>1. Depth(u) > 1
    BY <1>1, Tops, SMT DEF Core, On, Stacks
  <2> QED
    BY <2>1, Below DEF Core
<1> QED
  BY <1>1

\* A step of the owner of the lock inside the API, or into or out of it: what is
\* said of the frames and of the lock.
LEMMA APIStep ==
  ASSUME Core, NEW t \in Threads, owner = t, fault = "none", UNCHANGED <<owner, depth>>,
         NEW k \in Nat, Keeps(t, k), k > 0, Kept,
         \/ Depth(t) = k /\ RunsJS(t)
         \/ Depth(t) = k + 1 /\ stack[t][k + 1].pc \in {"install", "patch", "detach", "free"},
         \/ Depth(t)' = k
         \/ /\ Depth(t)' = k + 1 /\ stack'[t][k + 1].pc \in {"install", "patch", "detach", "free"}
            /\ stack'[t][k + 1].pc \notin {"detach", "free"} => stack'[t][k + 1].e \in Ids'
  PROVE  Stacks' /\ Scoped' /\ Calls' /\ Counted'
<1> USE DEF Core
<1>1. k <= Depth(t) /\ \A i \in 1..k : stack[t][i].pc \in InJS /\ stack'[t][i] = stack[t][i]
  BY Below, SMTT(30) DEF Keeps
<1>2. Depth(t)' = k + 1 => TopFits(t)'
  BY SMT DEF TopFits, InJS
<1>3. \A u \in Threads : \A i \in 1..Depth(u) : stack[u][i].pc \in InJS => owner' = u
  BY DEF Scoped
<1>4. Depth(t)' = k \/ (Depth(t)' = k + 1 /\ TopFits(t)')
  BY <1>2
<1>5. Stacks' /\ Scoped' /\ Calls'
  BY <1>1, <1>3, <1>4, FramesKept, ZenonT(30)
<1>6. InScope(t) = k
  BY <1>1, SMTT(30) DEF InScope, InJS
<1>7. InScope(t)' = k
  BY <1>1, SMT DEF InScope, InJS
<1> QED
  BY <1>5, <1>6, <1>7, CountKept, ZenonT(30)

\* js_attach creates an entry.
LEMMA Created ==
  ASSUME NEW f \in Functions, NEW cb \in Callbacks
  PROVE  NewEntry(f, cb, FALSE) \in Entries /\ NewEntry(f, cb, FALSE).freed = FALSE
<1>1. cb.enter \in BOOLEAN /\ cb.leave \in BOOLEAN
  <2>1. CASE cb = [enter |-> TRUE, leave |-> FALSE]
    BY <2>1
  <2>2. CASE cb = [enter |-> FALSE, leave |-> TRUE]
    BY <2>2
  <2>3. CASE cb = [enter |-> TRUE, leave |-> TRUE]
    BY <2>3
  <2> QED
    BY <2>1, <2>2, <2>3 DEF Callbacks
<1> QED
  BY <1>1 DEF NewEntry, Entries

\* js_attach: a new entry, known to the attaching thread only.
LEMMA AttachStep ==
  ASSUME Core, NEW t \in Threads, NEW f \in Functions, NEW cb \in Callbacks, Attach(t, f, cb)
  PROVE  Core'
<1> USE DEF Core
<1> DEFINE n == Len(entry) + 1
<1>1. /\ UNCHANGED <<owner, depth, tracked, g_entries, fault>> /\ fault = "none" /\ RunsJS(t)
      /\ entry' = Append(entry, NewEntry(f, cb, FALSE)) /\ Push(t, Frame("install", n))
  BY DEF Attach, Spend, tracked
<1>2. /\ owner = t /\ Depth(t) \in Nat /\ Depth(t) > 0
      /\ \A i \in 1..Depth(t) : stack[t][i].pc \in InJS
  BY <1>1, Below, Tops
<1>3. n \in Nat /\ n \notin Ids /\ Ids \subseteq Nat
  BY SMTT(30) DEF TypeOK, Ids
<1>4. /\ Keeps(t, Depth(t)) /\ Depth(t)' = Depth(t) + 1
      /\ stack'[t][Depth(t) + 1].pc = "install" /\ stack'[t][Depth(t) + 1].e = n
  <2>1. Frame("install", n) \in Frames
    BY <1>3 DEF Frame, Frames, Pcs, Native
  <2> QED
    BY <1>1, <2>1, Pushed, SMTT(30) DEF Frame
<1>5. /\ entry' \in Seq(Entries) /\ Ids' = Ids \cup {n} /\ ~entry'[n].freed
      /\ \A e \in Ids : entry'[e] = entry[e]
  <2>2. NewEntry(f, cb, FALSE) \in Entries /\ NewEntry(f, cb, FALSE).freed = FALSE
    BY Created
  <2>3. /\ entry' \in Seq(Entries) /\ Ids' = Ids \cup {n}
        /\ entry'[n] = NewEntry(f, cb, FALSE) /\ \A e \in Ids : entry'[e] = entry[e]
    BY <1>1, <2>2, Allocated, Zenon
  <2> QED
    BY <2>2, <2>3, Zenon
<1>6. TypeOK'
  BY <1>1, <1>4, <1>5, Zenon DEF TypeOK, Keeps
<1>7. /\ \A u \in Threads : ~On(u, "patch") /\ ~On(u, "free") /\ ~On(u, "install")
      /\ \A u \in Threads : ~On(u, "patch")' /\ ~On(u, "free")' /\ (On(u, "install")' => u = t)
  <2>1. \A pc \in {"install", "patch", "detach", "free"} : ~On(t, pc)
    BY <1>2, SMT DEF On, InJS
  <2>2. \A u \in Threads : \A pc \in {"install", "patch", "detach", "free"} : ~On(u, pc)
    BY <1>2, <2>1, OneInAPI
  <2> QED
    BY <1>2, <1>4, <2>2, ZenonT(30) DEF On, Keeps, Depth
<1>8. Kept
  BY <1>5, <1>7, SMTT(20) DEF Kept, Installed, Works
<1>9. Live'
  <2>1. \A g \in Functions : tracked[g] # None => tracked[g] \in Ids /\ Listed(tracked[g])
    BY <1>7, ZenonT(30) DEF Live, TypeOK, Works
  <2>2. \A g \in Functions : tracked[g] # None => entry'[tracked[g]] = entry[tracked[g]]
    BY <1>5, <2>1
  <2> QED
    BY <1>1, <2>1, <2>2, ZenonT(30) DEF Live, Listed
<1>10. Private'
  <2>1. ~Listed(n) /\ \A g \in Functions : tracked[g] # n
    BY <1>3, InterceptorAssumption DEF Listed, TypeOK
  <2>2. \A e : Works(t, "install", e)' => e = n
    BY <1>2, <1>4 DEF Works
  <2> QED
    BY <1>1, <1>5, <1>7, <2>1, <2>2, ZenonT(30) DEF Private, Works, Listed
<1>11. Registry'
  <2>1. \A k \in 1..Len(g_entries) : entry'[g_entries[k]] = entry[g_entries[k]]
    BY <1>5, SMTT(20) DEF TypeOK
  <2>2. \A k \in 1..Len(g_entries) :
          entry[g_entries[k]].patched /\ tracked[entry[g_entries[k]].fn] = g_entries[k]
    BY <1>7 DEF Registry
  <2>3. \A j, k \in 1..Len(g_entries) :
          entry'[g_entries[j]].fn = entry'[g_entries[k]].fn => j = k
    BY <2>1, ZenonT(30) DEF Registry
  <2>4. \A k \in 1..Len(g_entries) :
          entry'[g_entries[k]].patched /\ tracked[entry'[g_entries[k]].fn] = g_entries[k]
    BY <2>1, <2>2
  <2> QED
    BY <1>1, <1>7, <2>3, <2>4, ZenonT(30) DEF Registry
<1>12. Stacks' /\ Scoped' /\ Calls' /\ Counted'
  BY <1>1, <1>2, <1>4, <1>5, <1>8, APIStep
<1> QED
  BY <1>6, <1>9, <1>10, <1>11, <1>12

\* While no thread is in detachAll, every listed entry is a live hook.
LEMMA ListedLive ==
  ASSUME TypeOK, Registry, \A u \in Threads : ~On(u, "free")
  PROVE  \A k \in 1..Len(g_entries) :
           entry[g_entries[k]].patched /\ tracked[entry[g_entries[k]].fn] = g_entries[k]
  BY DEF Registry

\* A function that is not hooked is not stuck either, so its new hook is tracked.
LEMMA NewHook ==
  ASSUME Strays, NEW f \in Functions, NEW e, hooked[f] = None, UNCHANGED stuck,
         hooked' = [hooked EXCEPT ![f] = e]
  PROVE  tracked[f] = None /\ tracked' = [tracked EXCEPT ![f] = e]
<1>1. f \notin stuck
  BY InterceptorAssumption, SMT DEF Strays, Ids
<1>2. \A g \in Functions : hooked'[g] = IF g = f THEN e ELSE hooked[g]
  BY DEF Strays
<1>3. \A g \in Functions : tracked'[g] = IF g = f THEN e ELSE tracked[g]
  BY <1>1, <1>2, SMT DEF tracked
<1>4. tracked' = [g \in Functions |-> tracked'[g]] /\ tracked = [g \in Functions |-> tracked[g]]
  BY SMT DEF tracked
<1>5. tracked[f] = None
  BY <1>1 DEF tracked
<1> QED
  BY <1>3, <1>4, <1>5, SMT

\* HookInstall succeeds: the hook is live, and its original not known yet.
LEMMA InstallStep ==
  ASSUME Core, NEW t \in Threads, NEW e \in Ids, owner = t, fault = "none",
         Works(t, "install", e), tracked[entry[e].fn] = None,
         tracked' = [tracked EXCEPT ![entry[e].fn] = e], Goto(t, "patch"),
         UNCHANGED <<owner, depth, entry, g_entries>>
  PROVE  Core'
<1> USE DEF Core
<1>1. /\ Depth(t) \in Nat /\ Depth(t) > 1 /\ stack[t][Depth(t)].pc = "install"
      /\ stack[t][Depth(t)].e = e
  BY Tops, SMTT(20) DEF Works, On, Stacks
<1>2. /\ Keeps(t, Depth(t) - 1) /\ Depth(t)' = Depth(t)
      /\ stack'[t][Depth(t)].pc = "patch" /\ stack'[t][Depth(t)].e = e
  <2>1. "patch" \in Pcs /\ Depth(t) # 0
    BY <1>1, SMT DEF Pcs, Native
  <2>2. /\ Keeps(t, Depth(t) - 1) /\ Depth(t)' = Depth(t)
        /\ stack'[t][Depth(t)] = Frame("patch", stack[t][Depth(t)].e)
    BY <2>1, Moved
  <2> QED
    BY <1>1, <2>2, SMTT(30) DEF Frame
<1>3. \A x \in Ids : entry[x].fn \in Functions
  BY Typed
<1>4. /\ \A f \in Functions : tracked'[f] = IF f = entry[e].fn THEN e ELSE tracked[f]
      /\ \A f \in Functions : tracked[f] \in Ids \cup {None}
      /\ None \notin Ids
  BY InterceptorAssumption, SMT DEF TypeOK, Ids
<1>5. TypeOK'
  BY <1>2, <1>3 DEF TypeOK, Keeps, Ids
<1>6. /\ \A u \in Threads : ~On(u, "patch") /\ ~On(u, "free")
      /\ \A u \in Threads : ~On(u, "install")' /\ ~On(u, "free")' /\ (On(u, "patch")' => u = t)
      /\ \A x : Works(t, "patch", x)' <=> x = e
  <2>1. \A u \in Threads \ {t} : \A pc \in {"install", "patch", "detach", "free"} : ~On(u, pc)
    BY OneInAPI
  <2>2. \A u \in Threads \ {t} : \A pc \in {"install", "patch", "detach", "free"} : ~On(u, pc)'
    BY <1>2, <2>1 DEF On, Keeps, Depth
  <2>3. ~On(t, "patch") /\ ~On(t, "free") /\ ~On(t, "install")' /\ ~On(t, "free")'
    BY <1>1, <1>2 DEF On
  <2>4. \A x : Works(t, "patch", x)' <=> x = e
    BY <1>1, <1>2 DEF Works, On
  <2> QED
    BY <2>1, <2>2, <2>3, <2>4
<1>7. ~entry[e].freed /\ ~Listed(e)
  BY DEF Private
<1>8. Kept
  BY <1>6 DEF Kept, Installed, Works, Ids
<1>9. Live'
  <2> SUFFICES ASSUME NEW f \in Functions, tracked'[f] # None
               PROVE  /\ ~entry[tracked'[f]].freed /\ entry[tracked'[f]].fn = f
                      /\ \/ Listed(tracked'[f])
                         \/ \E u \in Threads :
                              On(u, "patch")' /\ stack'[u][Depth(u)'].e = tracked'[f]
    BY ZenonT(30) DEF Live, Works, Listed
  <2>1. CASE f = entry[e].fn
    BY <1>1, <1>2, <1>4, <1>7, <2>1, SMT DEF On
  <2>2. CASE f # entry[e].fn
    BY <1>4, <1>6, <2>2, SMTT(30) DEF Live, Works
  <2> QED
    BY <2>1, <2>2
<1>10. Private'
  <2>1. \A u \in Threads : \A x \in Ids :
          ~Works(u, "install", x)' /\ (Works(u, "patch", x)' => x = e)
    BY <1>6, ZenonT(30) DEF Works
  <2>2. ~Listed(e)' /\ tracked'[entry[e].fn] = e
    BY <1>3, <1>4, <1>7, SMTT(20) DEF Listed
  <2> QED
    BY <2>1, <2>2 DEF Private, Ids
<1>11. Registry'
  <2>1. \A k \in 1..Len(g_entries) :
          entry[g_entries[k]].patched /\ tracked[entry[g_entries[k]].fn] = g_entries[k]
    BY <1>6, ListedLive
  <2>2. \A k \in 1..Len(g_entries) :
          g_entries[k] \in Ids /\ entry[g_entries[k]].fn \in Functions
    BY <1>3 DEF TypeOK
  <2>3. \A k \in 1..Len(g_entries) : tracked'[entry[g_entries[k]].fn] = g_entries[k]
    BY <1>4, <2>1, <2>2, SMTT(30)
  <2> QED
    BY <1>6, <2>1, <2>3, ZenonT(30) DEF Registry
<1>12. Stacks' /\ Scoped' /\ Calls' /\ Counted'
  <2>1. Depth(t) - 1 \in Nat /\ Depth(t) - 1 > 0 /\ Depth(t) = (Depth(t) - 1) + 1
    BY <1>1, SMT
  <2>2. e \in Ids'
    BY DEF Ids
  <2> QED
    BY <1>1, <1>2, <1>8, <2>1, <2>2, APIStep, ZenonT(30)
<1> QED
  BY <1>5, <1>9, <1>10, <1>11, <1>12, ZenonT(30)

\* HookInstall fails: attach deletes the entry, which no function enters.
LEMMA InstallFailStep ==
  ASSUME Core, NEW t \in Threads, NEW e \in Ids, owner = t, fault = "none",
         Works(t, "install", e), entry' = [entry EXCEPT ![e].freed = TRUE], Pop(t),
         UNCHANGED <<owner, depth, tracked, g_entries>>
  PROVE  Core'
<1> USE DEF Core
<1>1. /\ Depth(t) \in Nat /\ Depth(t) > 1 /\ stack[t][Depth(t)].pc = "install"
      /\ stack[t][Depth(t)].e = e
  BY Tops, SMT DEF Works, On, Stacks
<1>2. Keeps(t, Depth(t) - 1) /\ Depth(t)' = Depth(t) - 1
  BY <1>1, Popped, SMTT(30)
<1>3. /\ entry' \in Seq(Entries) /\ Ids' = Ids
      /\ \A x \in Ids : /\ entry'[x].fn = entry[x].fn /\ entry'[x].enter = entry[x].enter
                        /\ entry'[x].patched = entry[x].patched
                        /\ x # e => entry'[x].freed = entry[x].freed
  BY Deleted, Zenon
<1>4. TypeOK'
  BY <1>2, <1>3 DEF TypeOK, Keeps
<1>5. \A u \in Threads :
        /\ ~On(u, "patch") /\ ~On(u, "free")
        /\ ~On(u, "install")' /\ ~On(u, "patch")' /\ ~On(u, "free")'
  <2>1. \A u \in Threads \ {t} : \A pc \in {"install", "patch", "detach", "free"} : ~On(u, pc)
    BY OneInAPI
  <2>2. \A u \in Threads \ {t} : \A pc \in {"install", "patch", "detach", "free"} : ~On(u, pc)'
    BY <1>2, <2>1 DEF On, Keeps, Depth
  <2>3. stack'[t][Depth(t) - 1].pc \in InJS
    BY <1>1, <1>2, Below, SMTT(30) DEF Keeps
  <2> QED
    BY <1>1, <1>2, <2>1, <2>2, <2>3 DEF On, InJS
<1>6. Kept
  BY <1>3, <1>5 DEF Kept, Installed, Works
<1>7. Live'
  <2>1. \A f \in Functions : tracked[f] # None => tracked[f] \in Ids /\ tracked[f] # e
    BY ZenonT(30) DEF Private, TypeOK
  <2> QED
    BY <1>3, <1>5, <2>1, SMTT(30) DEF Live, Works, Listed
<1>8. Private'
  BY <1>5 DEF Private, Works
<1>9. Registry'
  <2>1. \A k \in 1..Len(g_entries) :
          entry[g_entries[k]].patched /\ tracked[entry[g_entries[k]].fn] = g_entries[k]
    BY <1>5, ListedLive
  <2>2. \A k \in 1..Len(g_entries) : g_entries[k] \in Ids
    BY DEF TypeOK
  <2> QED
    BY <1>3, <1>5, <2>1, <2>2, SMTT(30) DEF Registry
<1>10. Stacks' /\ Scoped' /\ Calls' /\ Counted'
  <2>1. Depth(t) - 1 \in Nat /\ Depth(t) - 1 > 0 /\ Depth(t) = (Depth(t) - 1) + 1
    BY <1>1, SMTT(30)
  <2> QED
    BY <1>1, <1>2, <1>6, <2>1, APIStep, ZenonT(30)
<1> QED
  BY <1>4, <1>7, <1>8, <1>9, <1>10
-----------------------------------------------------------------------------
\* The original is known and the entry is listed.
LEMMA PatchStep ==
  ASSUME Core, NEW t \in Threads, NEW e \in Ids, owner = t, fault = "none",
         Works(t, "patch", e), entry' = [entry EXCEPT ![e].patched = TRUE],
         g_entries' = Append(g_entries, e), Pop(t), UNCHANGED <<owner, depth, tracked>>
  PROVE  Core'
<1> USE DEF Core
<1> DEFINE m == Len(g_entries)
<1>1. /\ Depth(t) \in Nat /\ Depth(t) > 1 /\ stack[t][Depth(t)].pc = "patch"
      /\ stack[t][Depth(t)].e = e
  BY Tops, SMTT(30) DEF Works, On, Stacks
<1>2. Keeps(t, Depth(t) - 1) /\ Depth(t)' = Depth(t) - 1
  BY <1>1, Popped, SMTT(30)
<1>3. /\ entry' \in Seq(Entries) /\ Ids' = Ids /\ entry'[e].patched
      /\ \A x \in Ids : /\ entry'[x].fn = entry[x].fn /\ entry'[x].enter = entry[x].enter
                        /\ entry'[x].freed = entry[x].freed
                        /\ entry[x].patched => entry'[x].patched
  BY Patched
<1>4. /\ g_entries' \in Seq(Nat) /\ m \in Nat /\ m' = m + 1 /\ g_entries'[m + 1] = e
      /\ \A k \in 1..m : g_entries'[k] = g_entries[k] /\ g_entries[k] \in Ids
      /\ 1..m' = (1..m) \cup {m + 1}
  <2>1. g_entries \in Seq(Nat) /\ e \in Nat
    BY SMT DEF TypeOK, Ids
  <2> QED
    BY <2>1, Appended, SMTT(30) DEF TypeOK
<1>5. TypeOK'
  <2>1. \A k \in 1..Len(g_entries') : g_entries'[k] \in Ids'
    BY <1>3, <1>4, ZenonT(30)
  <2> QED
    BY <1>2, <1>3, <1>4, <2>1 DEF TypeOK, Keeps
<1>6. /\ \A u \in Threads : /\ ~On(u, "free") /\ ~On(u, "free")'
                            /\ ~On(u, "install")' /\ ~On(u, "patch")'
      /\ \A u \in Threads : \A x : Works(u, "patch", x) => x = e
  <2>1. \A u \in Threads \ {t} : \A pc \in {"install", "patch", "detach", "free"} : ~On(u, pc)
    BY OneInAPI
  <2>2. \A u \in Threads \ {t} : \A pc \in {"install", "patch", "detach", "free"} : ~On(u, pc)'
    BY <1>2, <2>1 DEF On, Keeps, Depth
  <2>3. stack'[t][Depth(t) - 1].pc \in InJS
    BY <1>1, <1>2, Below, SMTT(30) DEF Keeps
  <2>4. ~On(t, "free") /\ ~On(t, "free")' /\ ~On(t, "install")' /\ ~On(t, "patch")'
    BY <1>1, <1>2, <2>3 DEF On, InJS
  <2>5. \A x : Works(t, "patch", x) => x = e
    BY <1>1 DEF Works
  <2> QED
    BY <2>1, <2>2, <2>4, <2>5 DEF Works
<1>7. ~Listed(e) /\ tracked[entry[e].fn] = e
  BY DEF Private
<1>8. Kept
  BY <1>3, <1>6 DEF Kept, Installed
<1>9. Live'
  <2>1. Listed(e)' /\ \A x : Listed(x) => Listed(x)'
    BY <1>4 DEF Listed
  <2>2. \A f \in Functions : tracked[f] # None => tracked[f] \in Ids
    BY DEF TypeOK
  <2>3. \A f \in Functions : tracked[f] # None => Listed(tracked[f]) \/ tracked[f] = e
    BY <1>6 DEF Live
  <2> QED
    BY <1>3, <2>1, <2>2, <2>3, SMTT(30) DEF Live
<1>10. Private'
  BY <1>6 DEF Private, Works
<1>11. Registry'
  <2>1. \A k \in 1..m : entry[g_entries[k]].patched /\ tracked[entry[g_entries[k]].fn] = g_entries[k]
    BY <1>6, ListedLive, ZenonT(30)
  <2>2. \A k \in 1..m + 1 : /\ g_entries'[k] \in Ids /\ entry'[g_entries'[k]].patched
                           /\ tracked[entry[g_entries'[k]].fn] = g_entries'[k]
    BY <1>3, <1>4, <1>7, <2>1, SMTT(30)
  <2>3. \A j, k \in 1..m + 1 : g_entries'[j] = g_entries'[k] => j = k
    <3>1. \A j, k \in 1..m : g_entries[j] = g_entries[k] => j = k
      BY DEF Registry
    <3>2. \A k \in 1..m : g_entries[k] # e
      BY <1>7 DEF Listed
    <3> QED
      BY <1>4, <3>1, <3>2, SMTT(30)
  <2>4. \A k \in 1..m + 1 : tracked[entry'[g_entries'[k]].fn] = g_entries'[k]
    BY <1>3, <2>2, ZenonT(30)
  <2>5. \A j, k \in 1..m + 1 : entry'[g_entries'[j]].fn = entry'[g_entries'[k]].fn => j = k
    BY <2>3, <2>4, SMTT(30)
  <2> QED
    BY <1>4, <1>6, <2>2, <2>4, <2>5, ZenonT(30) DEF Registry
<1>12. Stacks' /\ Scoped' /\ Calls' /\ Counted'
  <2>1. Depth(t) - 1 \in Nat /\ Depth(t) - 1 > 0 /\ Depth(t) = (Depth(t) - 1) + 1
    BY <1>1, SMTT(30)
  <2> QED
    BY <1>1, <1>2, <1>8, <2>1, APIStep, ZenonT(30)
<1> QED
  BY <1>5, <1>9, <1>10, <1>11, <1>12

\* js_replace: the entry, the hook and its listing in one step.
LEMMA ReplaceStep ==
  ASSUME Core, Strays, NEW t \in Threads, NEW f \in Functions, Replace(t, f)
  PROVE  Core'
<1> USE DEF Core
<1>0. PICK n \in Nat : n = Len(entry) + 1
  BY SMT DEF TypeOK
<1> DEFINE m == Len(g_entries)
           r == NewEntry(f, [enter |-> FALSE, leave |-> FALSE], TRUE)
<1>1. /\ UNCHANGED <<owner, depth, stack, fault>> /\ fault = "none" /\ RunsJS(t)
      /\ entry' = Append(entry, r) /\ g_entries' = Append(g_entries, n)
      /\ tracked[f] = None /\ tracked' = [tracked EXCEPT ![f] = n]
  BY <1>0, NewHook DEF Replace, Spend
<1>2. /\ owner = t /\ Depth(t) \in Nat /\ Depth(t) > 0
      /\ \A i \in 1..Depth(t) : stack[t][i].pc \in InJS
  BY <1>1, Below, Tops
<1>3. n \in Nat /\ n \notin Ids /\ Ids \subseteq Nat /\ None \notin Ids
  BY <1>0, InterceptorAssumption, SMTT(30) DEF TypeOK, Ids
<1>4. /\ entry' \in Seq(Entries) /\ Ids' = Ids \cup {n}
      /\ entry'[n].patched /\ ~entry'[n].freed /\ entry'[n].fn = f
      /\ \A e \in Ids : entry'[e] = entry[e]
  <2>1. r \in Entries /\ r.patched /\ r.freed = FALSE /\ r.fn = f
    BY DEF NewEntry, Entries
  <2>2. /\ entry' \in Seq(Entries) /\ Ids' = Ids \cup {n}
        /\ entry'[n] = r /\ \A e \in Ids : entry'[e] = entry[e]
    <3> HIDE DEF r
    <3> QED
      BY <1>0, <1>1, <2>1, Allocated
  <2> QED
    BY <2>1, <2>2
<1>5. /\ g_entries' \in Seq(Nat) /\ m \in Nat /\ m' = m + 1 /\ g_entries'[m + 1] = n
      /\ \A k \in 1..m : g_entries'[k] = g_entries[k] /\ g_entries[k] \in Ids
      /\ 1..m' = (1..m) \cup {m + 1}
  <2>1. g_entries \in Seq(Nat) /\ n \in Nat
    BY <1>3 DEF TypeOK
  <2>2. /\ Append(g_entries, n) \in Seq(Nat) /\ Len(Append(g_entries, n)) = m + 1
        /\ Append(g_entries, n)[m + 1] = n
        /\ \A k \in 1..m : Append(g_entries, n)[k] = g_entries[k]
        /\ 1..Len(Append(g_entries, n)) = (1..m) \cup {m + 1}
    BY <2>1, Appended, ZenonT(30)
  <2>3. m \in Nat /\ \A k \in 1..m : g_entries[k] \in Ids
    BY SMTT(30) DEF TypeOK
  <2> QED
    BY <1>1, <2>2, <2>3
<1>6. \A g \in Functions : /\ tracked'[g] = IF g = f THEN n ELSE tracked[g]
                           /\ tracked[g] \in Ids \cup {None}
  BY <1>1 DEF TypeOK
<1>7. TypeOK'
  <2>1. \A k \in 1..Len(g_entries') : g_entries'[k] \in Ids'
    BY <1>4, <1>5
  <2>2. tracked' \in [Functions -> Ids' \cup {None}]
    BY <1>1, <1>4 DEF TypeOK
  <2> QED
    BY <1>1, <1>4, <1>5, <2>1, <2>2, ZenonT(30) DEF TypeOK
<1>8. \A u \in Threads : \A pc \in {"install", "patch", "detach", "free"} : ~On(u, pc) /\ ~On(u, pc)'
  <2>1. \A pc \in {"install", "patch", "detach", "free"} : ~On(t, pc)
    BY <1>2, SMTT(30) DEF On, InJS
  <2>2. \A u \in Threads : \A pc \in {"install", "patch", "detach", "free"} : ~On(u, pc)
    BY <1>2, <2>1, OneInAPI
  <2> QED
    BY <1>1, <2>2 DEF On, Depth
<1>9. Kept
  BY <1>4, <1>8 DEF Kept, Installed, Works
<1>10. Live'
  <2>2. \A g \in Functions \ {f} : tracked[g] # None => Listed(tracked[g])
    BY <1>8 DEF Live, Works
  <2>3. \A g \in Functions \ {f} : tracked[g] # None =>
          tracked[g] \in Ids /\ ~entry[tracked[g]].freed /\ entry[tracked[g]].fn = g
    BY <1>6 DEF Live
  <2> QED
    <3> SUFFICES ASSUME NEW g \in Functions, tracked'[g] # None
                 PROVE  /\ ~entry'[tracked'[g]].freed /\ entry'[tracked'[g]].fn = g
                        /\ \E k \in 1..m' : g_entries'[k] = tracked'[g]
      BY DEF Live, Listed
    <3>1. CASE g = f
      BY <1>4, <1>5, <1>6, <3>1, ZenonT(30)
    <3>2. CASE g # f
      <4>1. tracked'[g] = tracked[g] /\ tracked[g] # None
        BY <1>6, <3>2
      <4>2. Listed(tracked[g]) /\ tracked[g] \in Ids
        BY <2>2, <2>3, <3>2, <4>1
      <4> QED
        BY <1>4, <1>5, <2>3, <3>2, <4>1, <4>2, SMTT(30) DEF Listed
    <3> QED
      BY <3>1, <3>2
<1>11. Private'
  BY <1>8 DEF Private, Works
<1>12. Registry'
  <2>1. \A k \in 1..m : entry[g_entries[k]].patched /\ tracked[entry[g_entries[k]].fn] = g_entries[k]
    BY <1>8, ListedLive
  <2>2. \A k \in 1..m : entry[g_entries[k]].fn \in Functions \ {f}
    BY <1>1, <1>3, <1>5, <2>1, Typed, ZenonT(30)
  <2>3. \A k \in 1..m : g_entries'[k] = g_entries[k] /\ entry'[g_entries[k]] = entry[g_entries[k]]
    BY <1>4, <1>5
  <2>4. \A k \in 1..m : /\ entry'[g_entries'[k]].patched
                        /\ entry'[g_entries'[k]].fn \in Functions \ {f}
                        /\ tracked'[entry'[g_entries'[k]].fn] = g_entries'[k]
    BY <1>6, <2>1, <2>2, <2>3, SMTT(30)
  <2>5. /\ entry'[g_entries'[m + 1]].patched /\ entry'[g_entries'[m + 1]].fn = f
        /\ tracked'[f] = g_entries'[m + 1]
    BY <1>4, <1>5, <1>6
  <2>6. \A k \in 1..m + 1 : k \in 1..m \/ k = m + 1
    BY <1>5, SMTT(30)
  <2>7. \A k \in 1..m + 1 : /\ entry'[g_entries'[k]].patched
                           /\ tracked'[entry'[g_entries'[k]].fn] = g_entries'[k]
    BY <2>4, <2>5, <2>6
  <2>8. \A j, k \in 1..m + 1 : entry'[g_entries'[j]].fn = entry'[g_entries'[k]].fn => j = k
    <3>1. \A j, k \in 1..m : entry'[g_entries'[j]].fn = entry'[g_entries'[k]].fn => j = k
      BY <2>3, SMTT(30) DEF Registry
    <3>2. \A k \in 1..m : entry'[g_entries'[k]].fn # f
      BY <2>4
    <3> QED
      BY <2>5, <2>6, <3>1, <3>2, ZenonT(30)
  <2> QED
    BY <1>5, <1>8, <2>7, <2>8, ZenonT(30) DEF Registry
<1>13. Stacks' /\ Scoped' /\ Calls' /\ Counted'
  <2>1. Keeps(t, Depth(t)) /\ Depth(t)' = Depth(t)
    BY <1>1 DEF Keeps, TypeOK, Depth
  <2> QED
    BY <1>1, <1>2, <1>9, <2>1, APIStep, ZenonT(30)
<1> QED
  BY <1>7, <1>10, <1>11, <1>12, <1>13, ZenonT(30)

\* detachAll goes from HookUninstall to the delete and back.
LEMMA Turned ==
  ASSUME TypeOK, Stacks, NEW t \in Threads, NEW p \in {"detach", "free"},
         NEW q \in {"detach", "free"}, On(t, p), Goto(t, q)
  PROVE  /\ Depth(t) \in Nat /\ Depth(t) > 1 /\ stack[t][Depth(t)].pc = p
         /\ Keeps(t, Depth(t) - 1) /\ Depth(t)' = Depth(t) /\ stack'[t][Depth(t)].pc = q
<1>1. Depth(t) \in Nat /\ Depth(t) > 1 /\ stack[t][Depth(t)].pc = p
  BY Tops, SMTT(30) DEF On, Stacks
<1>2. q \in Pcs /\ Depth(t) # 0
  BY <1>1, SMT DEF Pcs, Native
<1>3. /\ Keeps(t, Depth(t) - 1) /\ Depth(t)' = Depth(t)
      /\ stack'[t][Depth(t)] = Frame(q, stack[t][Depth(t)].e)
  BY <1>2, Moved
<1> QED
  BY <1>1, <1>3, SMT DEF Frame

\* HookUninstall of the first entry: its hook is gone, or no longer tracked.
LEMMA UnhookStep ==
  ASSUME Core, NEW t \in Threads, owner = t, fault = "none", On(t, "detach"),
         Len(g_entries) > 0,
         tracked' = [tracked EXCEPT ![entry[g_entries[1]].fn] = None],
         Goto(t, "free"), UNCHANGED <<owner, depth, entry, g_entries>>
  PROVE  Core'
<1> USE DEF Core
<1> DEFINE m == Len(g_entries)
           f == entry[g_entries[1]].fn
<1>1. m \in Nat /\ 1 \in 1..m /\ \A k \in 1..m : g_entries[k] \in Ids
  BY SMTT(30) DEF TypeOK
<1>2. f \in Functions /\ \A g \in Functions : tracked'[g] = IF g = f THEN None ELSE tracked[g]
  BY <1>1, Typed DEF TypeOK
<1>9. /\ Depth(t) \in Nat /\ Depth(t) > 1 /\ stack[t][Depth(t)].pc = "detach"
      /\ Keeps(t, Depth(t) - 1) /\ Depth(t)' = Depth(t) /\ stack'[t][Depth(t)].pc = "free"
  BY Turned
<1>3. TypeOK'
  <2>1. tracked' \in [Functions -> Ids \cup {None}]
    BY ZenonT(30) DEF TypeOK
  <2> QED
    BY <1>9, <2>1 DEF TypeOK, Ids, Keeps
<1>4. /\ \A u \in Threads : ~On(u, "install") /\ ~On(u, "patch")
      /\ \A u \in Threads : ~On(u, "install")' /\ ~On(u, "patch")'
  <2>1. \A u \in Threads : ~On(u, "install") /\ ~On(u, "patch")
    BY OneInAPI DEF On
  <2> QED
    BY <1>9, <2>1 DEF On, Depth, Keeps
<1>10. Kept
  BY <1>4 DEF Kept, Installed, Works, Ids
<1>5. Stacks' /\ Scoped' /\ Calls' /\ Counted'
  <2>1. Depth(t) - 1 \in Nat /\ Depth(t) - 1 > 0 /\ Depth(t) = (Depth(t) - 1) + 1
    BY <1>9, SMT
  <2> QED
    BY <1>9, <1>10, <2>1, APIStep, ZenonT(30)
<1>6. Live'
  <2>1. \A g \in Functions \ {f} : tracked[g] # None => Listed(tracked[g])
    BY <1>4 DEF Live, Works
  <2> QED
    BY <1>2, <2>1, SMT DEF Live, Listed
<1>7. Private'
  BY <1>4 DEF Private, Works
<1>8. Registry'
  <2>1. On(t, "free")'
    BY <1>9, SMT DEF On
  <2>2. \A k \in 1..m : k # 1 => /\ tracked[entry[g_entries[k]].fn] = g_entries[k]
                                 /\ entry[g_entries[k]].fn \in Functions \ {f}
    BY <1>1, Typed DEF Registry
  <2>3. \A k \in 1..m : \/ tracked'[entry[g_entries[k]].fn] = g_entries[k]
                        \/ k = 1 /\ tracked'[entry[g_entries[k]].fn] = None
    BY <1>1, <1>2, <2>2
  <2>4. \A k \in 1..m : entry[g_entries[k]].patched
    BY DEF Registry
  <2>5. tracked'[entry[g_entries[1]].fn] = None
    BY <1>2
  <2>6. \A j, k \in 1..m : entry[g_entries[j]].fn = entry[g_entries[k]].fn => j = k
    BY DEF Registry
  <2> QED
    BY <2>1, <2>3, <2>4, <2>5, <2>6, ZenonT(30) DEF Registry
<1> QED
  BY <1>3, <1>5, <1>6, <1>7, <1>8, ZenonT(30)

\* detachAll deletes the first entry, which no function enters any more.
LEMMA DeleteStep ==
  ASSUME Core, NEW t \in Threads, NEW e, owner = t, fault = "none", On(t, "free"),
         e = g_entries[1], entry' = [entry EXCEPT ![e].freed = TRUE],
         g_entries' = Tail(g_entries), Goto(t, "detach"),
         UNCHANGED <<owner, depth, tracked>>
  PROVE  Core'
<1> USE DEF Core
<1> DEFINE m == Len(g_entries)
<1>12. Len(g_entries) > 0 /\ tracked[entry[e].fn] = None
  BY DEF Registry
<1>13. /\ Depth(t) \in Nat /\ Depth(t) > 1 /\ stack[t][Depth(t)].pc = "free"
       /\ Keeps(t, Depth(t) - 1) /\ Depth(t)' = Depth(t) /\ stack'[t][Depth(t)].pc = "detach"
  BY Turned
<1>1. m \in Nat /\ 1 \in 1..m /\ e \in Ids /\ \A k \in 1..m : g_entries[k] \in Ids
  <2>1. m > 0
    BY <1>12
  <2>2. m \in Nat /\ \A k \in 1..m : g_entries[k] \in Ids
    BY SMT DEF TypeOK
  <2>3. 1 \in 1..m
    BY <2>1, <2>2, SMT
  <2> QED
    BY <2>2, <2>3
<1>2. /\ entry' \in Seq(Entries) /\ Ids' = Ids
      /\ \A x \in Ids : /\ entry'[x].fn = entry[x].fn /\ entry'[x].enter = entry[x].enter
                        /\ entry'[x].patched = entry[x].patched
                        /\ x # e => entry'[x].freed = entry[x].freed
  BY <1>1, Deleted
<1>3. /\ g_entries' \in Seq(Nat) /\ m' = m - 1
      /\ \A k \in 1..m - 1 : g_entries'[k] = g_entries[k + 1]
  BY <1>1, SMTT(30) DEF TypeOK
<1>4. TypeOK'
  <2>1. \A k \in 1..m' : g_entries'[k] \in Ids'
    BY <1>1, <1>2, <1>3, SMTT(30)
  <2> QED
    BY <1>2, <1>3, <1>13, <2>1, ZenonT(30) DEF TypeOK, Keeps
<1>5. /\ \A u \in Threads : ~On(u, "install") /\ ~On(u, "patch")
      /\ \A u \in Threads : ~On(u, "install")' /\ ~On(u, "patch")' /\ ~On(u, "free")'
  <2>1. /\ \A u \in Threads : ~On(u, "install") /\ ~On(u, "patch")
        /\ \A u \in Threads \ {t} : ~On(u, "free")
    BY OneInAPI DEF On
  <2> QED
    BY <1>13, <2>1 DEF On, Depth, Keeps
<1>6. Kept
  BY <1>2, <1>5, ZenonT(30) DEF Kept, Installed, Works
<1>7. Stacks' /\ Scoped' /\ Calls' /\ Counted'
  <2>1. Depth(t) - 1 \in Nat /\ Depth(t) - 1 > 0 /\ Depth(t) = (Depth(t) - 1) + 1
    BY <1>13, SMT
  <2> QED
    BY <1>6, <1>13, <2>1, APIStep, ZenonT(30)
<1>9. Live'
  <2> SUFFICES ASSUME NEW f \in Functions, tracked[f] # None
               PROVE  /\ ~entry'[tracked[f]].freed /\ entry'[tracked[f]].fn = f
                      /\ \E k \in 1..m' : g_entries'[k] = tracked[f]
    BY ZenonT(30) DEF Live, Listed
  <2>1. tracked[f] \in Ids /\ ~entry[tracked[f]].freed /\ entry[tracked[f]].fn = f /\ Listed(tracked[f])
    BY <1>5 DEF Live, TypeOK, Works
  <2>2. tracked[f] # e
    BY <1>12, <2>1
  <2>3. PICK k \in 1..m : g_entries[k] = tracked[f]
    BY <2>1 DEF Listed
  <2>4. k - 1 \in 1..m' /\ g_entries'[k - 1] = tracked[f]
    BY <1>1, <1>3, <2>2, <2>3, SMTT(30)
  <2> QED
    BY <1>2, <2>1, <2>2, <2>4, ZenonT(30)
<1>10. Private'
  BY <1>5, ZenonT(30) DEF Private, Works
<1>11. Registry'
  <2>1. \A k \in 1..m : k # 1 => /\ tracked[entry[g_entries[k]].fn] = g_entries[k]
                                 /\ entry[g_entries[k]].patched
    BY DEF Registry
  <2>2. \A k \in 1..m - 1 : /\ g_entries'[k] \in Ids /\ entry[g_entries'[k]].patched
                           /\ tracked[entry[g_entries'[k]].fn] = g_entries'[k]
    BY <1>1, <1>3, <2>1, SMTT(30)
  <2>3. \A j, k \in 1..m - 1 : entry[g_entries'[j]].fn = entry[g_entries'[k]].fn => j = k
    <3>1. \A j, k \in 1..m : entry[g_entries[j]].fn = entry[g_entries[k]].fn => j = k
      BY DEF Registry
    <3> TAKE j, k \in 1..m - 1
    <3>2. /\ j + 1 \in 1..m /\ g_entries'[j] = g_entries[j + 1]
          /\ k + 1 \in 1..m /\ g_entries'[k] = g_entries[k + 1]
      BY <1>1, <1>3, SMTT(30)
    <3>3. entry[g_entries'[j]].fn = entry[g_entries'[k]].fn => j + 1 = k + 1
      BY <3>1, <3>2
    <3> QED
      BY <3>3, SMT
  <2>4. \A k \in 1..m - 1 : /\ entry'[g_entries'[k]].patched
                           /\ entry'[g_entries'[k]].fn = entry[g_entries'[k]].fn
    BY <1>2, <2>2, SMTT(30)
  <2> QED
    BY <1>3, <1>5, <2>2, <2>3, <2>4, SMTT(30) DEF Registry
<1> QED
  BY <1>4, <1>7, <1>9, <1>10, <1>11, ZenonT(30)
-----------------------------------------------------------------------------
(* The invariant *)

\* Nothing runs and nothing is hooked at first.
LEMMA InitIInv == ScriptInit => IInv
<1> SUFFICES ASSUME ScriptInit PROVE IInv
  OBVIOUS
<1>1. \A t \in Threads : Depth(t) = 0
  BY DEF ScriptInit, Depth
<1>2. TypeOK
  BY SMTT(30) DEF ScriptInit, TypeOK, tracked
<1>3. Stacks /\ Scoped /\ Calls /\ Private
  BY <1>1, SMTT(30) DEF Stacks, Scoped, Calls, Private, Works, On
<1>4. Counted /\ Live /\ Registry
  BY <1>1, SMTT(30) DEF ScriptInit, Counted, Live, Registry, tracked, On
<1>5. Strays
  BY SMT DEF ScriptInit, Strays, Ids
<1> QED
  BY <1>2, <1>3, <1>4, <1>5 DEF IInv, Core

\* HookUninstall of the first entry of g_entries, if it fails too.
LEMMA Uninstalled ==
  ASSUME IInv, NEW t \in Threads, owner = t, On(t, "detach"), Len(g_entries) > 0,
         NEW f, f = entry[g_entries[1]].fn,
         \/ hooked' = [hooked EXCEPT ![f] = None] /\ UNCHANGED stuck
         \/ stuck' = stuck \cup {f} /\ UNCHANGED hooked
  PROVE  /\ f \in Functions \ stuck /\ hooked[f] = g_entries[1] /\ g_entries[1] \in Ids
         /\ entry[g_entries[1]].patched /\ tracked' = [tracked EXCEPT ![f] = None]
<1> USE DEF IInv, Core
<1>1. 1 \in 1..Len(g_entries) /\ g_entries[1] \in Ids /\ f \in Functions
  <2>1. 1 \in 1..Len(g_entries)
    BY SMT DEF TypeOK
  <2> QED
    BY <2>1, Typed DEF TypeOK
<1>2. \A u \in Threads : ~On(u, "free")
  BY OneInAPI DEF On
<1>3. entry[g_entries[1]].patched /\ tracked[f] = g_entries[1]
  BY <1>1, <1>2, ListedLive
<1>4. f \notin stuck /\ hooked[f] = g_entries[1]
  BY <1>1, <1>3, InterceptorAssumption, SMT DEF tracked, Ids
<1>5. tracked' = [tracked EXCEPT ![f] = None]
  <2>1. \A g \in Functions : tracked'[g] = IF g = f THEN None ELSE tracked[g]
    BY <1>1, <1>4 DEF tracked, Strays
  <2>2. tracked' = [g \in Functions |-> tracked'[g]] /\ tracked = [g \in Functions |-> tracked[g]]
    BY DEF tracked
  <2> QED
    BY <2>1, <2>2, SMT
<1> QED
  BY <1>1, <1>3, <1>4, <1>5

\* What a thread has begun preserves the core of the invariant.
LEMMA ProceedCore ==
  ASSUME IInv, NEW t \in Threads, Proceed(t)
  PROVE  Core'
<1> DEFINE e == stack[t][Depth(t)].e
<1>0. fault = "none" /\ TypeOK /\ Stacks /\ Scoped
  BY DEF Proceed, IInv, Core
<1>13. UNCHANGED <<hooked, stuck>> => UNCHANGED tracked
  BY DEF tracked
<1> USE DEF IInv
<1>1. /\ Depth(t) \in Nat /\ (Idle(t) <=> Depth(t) = 0)
      /\ Top(t) = stack[t][Depth(t)]
  BY <1>0, Tops, ZenonT(30)
<1>2. \A pc : At(t, pc) => On(t, pc) /\ Depth(t) # 0
  BY <1>1, SMTT(30) DEF At, On
<1>3. \A pc \in {"install", "patch", "detach", "free"} : On(t, pc) => owner = t
  <2>1. \A pc \in {"install", "patch", "detach", "free"} : On(t, pc) => Depth(t) > 1
    BY <1>0, <1>1, SMTT(30) DEF On, Stacks
  <2> QED
    BY <1>0, <2>1, Below, ZenonT(30)
<1>4. \A pc \in {"install", "patch"} : On(t, pc) => e \in Ids /\ Works(t, pc, e)
  BY <1>0, <1>1, SMTT(30) DEF On, Stacks, Works
<1>5. CASE EnterScope(t)
  <2>1. Depth(t) # 0 /\ Lock(t) /\ UNCHANGED <<tracked, entry, g_entries>>
    BY <1>1, <1>5, <1>13 DEF EnterScope
  <2>2. CASE fault' = "freed" /\ UNCHANGED stack
    BY <2>1, <2>2, FaultStep DEF Lock
  <2>3. ASSUME NEW pc \in Pcs, Goto(t, pc),
               \/ On(t, "load") /\ pc = "script"
               \/ On(t, "waitEnter") /\ pc = "inEnter"
               \/ On(t, "waitLeave") /\ pc = "inLeave"
        PROVE  Core'
    BY <1>0, <2>1, <2>3, LockStep, ZenonT(30)
  <2>4. /\ On(t, "load") \/ On(t, "waitEnter") \/ On(t, "waitLeave")
        /\ \/ fault' = "freed" /\ UNCHANGED stack
           \/ Goto(t, CASE Top(t).pc = "load" -> "script"
                        [] Top(t).pc = "waitEnter" -> "inEnter"
                        [] Top(t).pc = "waitLeave" -> "inLeave")
    BY <1>1, <1>5, SMTT(30) DEF EnterScope, Waiting, On
  <2>5. "script" \in Pcs /\ "inEnter" \in Pcs /\ "inLeave" \in Pcs
    BY DEF Pcs, InJS
  <2>6. CASE On(t, "load")
    BY <1>1, <2>2, <2>3, <2>4, <2>5, <2>6, ZenonT(30) DEF On
  <2>7. CASE On(t, "waitEnter")
    BY <1>1, <2>2, <2>3, <2>4, <2>5, <2>7, ZenonT(30) DEF On
  <2>8. CASE On(t, "waitLeave")
    BY <1>1, <2>2, <2>3, <2>4, <2>5, <2>8, ZenonT(30) DEF On
  <2> QED
    BY <2>4, <2>6, <2>7, <2>8, ZenonT(30)
<1>6. CASE LeaveScope(t)
  BY <1>0, <1>6, UnlockStep
<1>7. CASE DispatchOnEnter(t)
  <2>1. On(t, "enter") /\ Depth(t) # 0 /\ UNCHANGED <<owner, depth, tracked, entry, g_entries>>
    BY <1>2, <1>7, <1>13 DEF DispatchOnEnter
  <2>2. CASE fault' = "freed" /\ UNCHANGED stack
    BY <2>1, <2>2, FaultStep
  <2>3. CASE Goto(t, OnEnter(t))
    <3>1. CASE entry[e].enter
      <4>1. Goto(t, "waitEnter") /\ "waitEnter" \in Pcs
        BY <1>1, <2>3, <3>1 DEF OnEnter, Pcs, Waiting
      <4> QED
        BY <1>0, <2>1, <4>1, GotoStep
    <3>2. CASE ~entry[e].enter
      <4>1. Goto(t, "orig") /\ "orig" \in Pcs
        BY <1>1, <2>3, <3>2 DEF OnEnter, Pcs, Native
      <4> QED
        BY <1>0, <2>1, <3>2, <4>1, GotoStep
    <3> QED
      BY <3>1, <3>2
  <2> QED
    BY <1>7, <2>2, <2>3 DEF DispatchOnEnter
<1>8. CASE CallOriginal(t)
  <2>1. On(t, "orig") /\ Depth(t) # 0 /\ UNCHANGED <<owner, depth, tracked, entry, g_entries>>
    BY <1>2, <1>8, <1>13 DEF CallOriginal
  <2>2. CASE fault' = "null" /\ UNCHANGED stack
    BY <2>1, <2>2, FaultStep
  <2>3. CASE Goto(t, "leave")
    <3>1. "leave" \in Pcs
      BY DEF Pcs, Native
    <3> QED
      BY <1>0, <2>1, <2>3, <3>1, GotoStep
  <2> QED
    BY <1>8, <2>2, <2>3 DEF CallOriginal
<1>9. CASE DispatchOnLeave(t)
  <2>1. On(t, "leave") /\ Depth(t) # 0 /\ UNCHANGED <<owner, depth, tracked, entry, g_entries>>
    BY <1>2, <1>9, <1>13 DEF DispatchOnLeave
  <2>2. CASE fault' = "freed" /\ UNCHANGED stack
    BY <2>1, <2>2, FaultStep
  <2>3. CASE Goto(t, "waitLeave")
    <3>1. "waitLeave" \in Pcs
      BY DEF Pcs, Waiting
    <3> QED
      BY <1>0, <2>1, <2>3, <3>1, GotoStep
  <2>4. CASE Pop(t)
    BY <1>0, <2>1, <2>4, PopStep
  <2> QED
    BY <1>9, <2>2, <2>3, <2>4 DEF DispatchOnLeave
<1>10. ASSUME NEW ok \in BOOLEAN, Install(t, ok)
       PROVE  Core'
  <2>1. /\ owner = t /\ e \in Ids /\ Works(t, "install", e) /\ Top(t).e = e
        /\ UNCHANGED <<owner, depth, g_entries>>
    BY <1>1, <1>2, <1>3, <1>4, <1>10, SMTT(30) DEF Install
  <2>3. entry[e].fn \in Functions
    BY <1>0, <2>1, Typed
  <2>2. \/ /\ tracked[entry[e].fn] = None /\ tracked' = [tracked EXCEPT ![entry[e].fn] = e]
           /\ Goto(t, "patch") /\ UNCHANGED entry
        \/ entry' = [entry EXCEPT ![e].freed = TRUE] /\ Pop(t) /\ UNCHANGED tracked
    BY <1>10, <1>13, <2>1, <2>3, NewHook, ZenonT(30) DEF Install
  <2> QED
    BY <1>0, <2>1, <2>2, InstallStep, InstallFailStep, ZenonT(30)
<1>11. CASE Patch(t)
  <2>1. /\ owner = t /\ e \in Ids /\ Works(t, "patch", e) /\ Top(t).e = e
        /\ UNCHANGED <<owner, depth, tracked>> /\ Pop(t)
    BY <1>1, <1>2, <1>3, <1>4, <1>11, <1>13 DEF Patch
  <2>2. entry' = [entry EXCEPT ![e].patched = TRUE] /\ g_entries' = Append(g_entries, e)
    BY <1>11, <2>1 DEF Patch, Registered
  <2> QED
    BY <1>0, <2>1, <2>2, PatchStep
<1>12. ASSUME NEW ok \in BOOLEAN, Detach(t, ok)
       PROVE  Core'
  <2>1. On(t, "detach") /\ owner = t /\ UNCHANGED <<owner, depth, entry, g_entries>>
    BY <1>2, <1>3, <1>12 DEF Detach
  <2>2. CASE g_entries = <<>>
    <3>1. Pop(t) /\ UNCHANGED tracked
      BY <1>12, <1>13, <2>2 DEF Detach
    <3> QED
      BY <1>0, <2>1, <2>2, <3>1, PopStep
  <2>3. CASE g_entries # <<>>
    <3>1. Len(g_entries) > 0 /\ Head(g_entries) = g_entries[1]
      BY <1>0, <2>3, SMTT(30) DEF TypeOK
    <3>2. /\ Goto(t, "free")
          /\ \/ hooked' = [hooked EXCEPT ![entry[g_entries[1]].fn] = None] /\ UNCHANGED stuck
             \/ stuck' = stuck \cup {entry[g_entries[1]].fn} /\ UNCHANGED hooked
      BY <1>12, <2>3, <3>1 DEF Detach, Unhooked
    <3>3. tracked' = [tracked EXCEPT ![entry[g_entries[1]].fn] = None]
      BY <2>1, <3>1, <3>2, Uninstalled
    <3> QED
      BY <1>0, <2>1, <3>1, <3>2, <3>3, UnhookStep
  <2> QED
    BY <2>2, <2>3
<1>14. CASE Free(t)
  <2>1. On(t, "free") /\ owner = t /\ UNCHANGED <<owner, depth, tracked>>
    BY <1>2, <1>3, <1>13, <1>14 DEF Free
  <2>2. Head(g_entries) = g_entries[1]
    BY <1>0, <2>1, SMT DEF Core, Registry, TypeOK
  <2>3. /\ entry' = [entry EXCEPT ![g_entries[1]].freed = TRUE]
        /\ g_entries' = Tail(g_entries) /\ Goto(t, "detach")
    BY <1>14, <2>2 DEF Free
  <2> QED
    BY <1>0, <2>1, <2>3, DeleteStep
<1> QED
  BY <1>5, <1>6, <1>7, <1>8, <1>9, <1>10, <1>11, <1>12, <1>14, ZenonT(30) DEF Proceed

\* What a thread decides to do preserves the core of the invariant.
LEMMA DecideCore ==
  ASSUME IInv, NEW t \in Threads, Decide(t)
  PROVE  Core'
<1>4. UNCHANGED <<hooked, stuck>> => UNCHANGED tracked
  BY DEF tracked
<1> USE DEF IInv
<1>1. CASE LoadScript(t)
  <2>1. Frame("load", 0) \in Frames /\ Frame("load", 0).pc = "load"
    BY DEF Frame, Frames, Pcs, Waiting
  <2>2. /\ Idle(t) /\ fault = "none" /\ Push(t, Frame("load", 0))
        /\ UNCHANGED <<owner, depth, tracked, entry, g_entries>>
    BY <1>1, <1>4 DEF LoadScript, Spend
  <2> QED
    BY <2>1, <2>2, PushStep
<1>2. ASSUME NEW f \in Functions, Call(t, f)
      PROVE  Core'
  <2>1. /\ Idle(t) \/ RunsJS(t)
        /\ fault = "none" /\ Push(t, Frame("enter", hooked[f])) /\ hooked[f] # None
        /\ UNCHANGED <<owner, depth, tracked, entry, g_entries>>
    BY <1>2, <1>4 DEF Call, CanCall, Spend
  <2>2. hooked[f] \in Ids /\ hooked[f] \in Nat
    BY <2>1, SMTT(30) DEF Strays, Ids
  <2>3. Installed(hooked[f])
    <3>1. CASE f \in stuck
      BY <3>1 DEF Strays, Installed
    <3>2. CASE f \notin stuck
      <4>1. tracked[f] = hooked[f]
        BY <3>2 DEF tracked
      <4>2. Listed(tracked[f]) => entry[tracked[f]].patched
        BY DEF Core, Registry, Listed
      <4> QED
        BY <2>1, <4>1, <4>2 DEF Core, Live, Installed
    <3> QED
      BY <3>1, <3>2
  <2>4. /\ Frame("enter", hooked[f]) \in Frames /\ Frame("enter", hooked[f]).pc = "enter"
        /\ Frame("enter", hooked[f]).e = hooked[f]
    BY <2>2 DEF Frame, Frames, Pcs, Native
  <2> QED
    BY <2>1, <2>2, <2>3, <2>4, PushStep
<1>3. CASE DetachAll(t)
  <2>1. Frame("detach", 0) \in Frames /\ Frame("detach", 0).pc = "detach"
    BY DEF Frame, Frames, Pcs, Native
  <2>2. /\ RunsJS(t) /\ fault = "none" /\ Push(t, Frame("detach", 0))
        /\ UNCHANGED <<owner, depth, tracked, entry, g_entries>>
    BY <1>3, <1>4 DEF DetachAll, Spend
  <2> QED
    BY <2>1, <2>2, PushStep
<1> QED
  BY <1>1, <1>2, <1>3, AttachStep, ReplaceStep DEF Decide

\* Entries that stay patched and hooks that stay leave the stray hooks alone.
LEMMA StraysKept ==
  ASSUME Strays, UNCHANGED stuck, hooked' \in [Functions -> Ids' \cup {None}],
         \A f \in stuck : hooked'[f] = hooked[f],
         \A e \in Ids : /\ e \in Ids' /\ entry'[e].fn = entry[e].fn
                        /\ entry[e].patched => entry'[e].patched
  PROVE  Strays'
  BY ZenonT(30) DEF Strays

\* Every step preserves what is said of them.
LEMMA StraysStep ==
  ASSUME IInv, NEW t \in Threads, Proceed(t) \/ Decide(t)
  PROVE  Strays'
<1> USE DEF IInv, Core
<1>1. CASE UNCHANGED <<hooked, stuck, entry>>
  BY <1>1 DEF Strays, Ids
<1>2. /\ Depth(t) \in Nat /\ (Idle(t) <=> Depth(t) = 0) /\ Top(t) = stack[t][Depth(t)]
      /\ hooked \in [Functions -> Ids \cup {None}] /\ stuck \subseteq Functions
  BY Tops DEF Strays
<1>3. \A pc : At(t, pc) => On(t, pc)
  BY <1>2, SMTT(30) DEF At, On
<1>4. \A pc \in {"install", "patch"} : At(t, pc) => Top(t).e \in Ids
  BY <1>2, <1>3, SMTT(30) DEF On, Stacks
<1>5. ASSUME NEW ok \in BOOLEAN, Install(t, ok)
      PROVE  Strays'
  <2>1. Top(t).e \in Ids /\ entry[Top(t).e].fn \in Functions /\ UNCHANGED stuck
    BY <1>4, <1>5, Typed DEF Install
  <2>2. CASE /\ hooked[entry[Top(t).e].fn] = None /\ UNCHANGED entry
             /\ hooked' = [hooked EXCEPT ![entry[Top(t).e].fn] = Top(t).e]
    <3>1. entry[Top(t).e].fn \notin stuck
      BY <2>2, InterceptorAssumption, SMT DEF Strays, Ids
    <3> QED
      BY <1>2, <2>1, <2>2, <3>1, StraysKept, ZenonT(30) DEF Ids
  <2>3. CASE entry' = [entry EXCEPT ![Top(t).e].freed = TRUE] /\ UNCHANGED hooked
    BY <1>2, <2>1, <2>3, Deleted, StraysKept, ZenonT(30)
  <2> QED
    BY <1>5, <2>2, <2>3 DEF Install
<1>6. CASE Patch(t)
  <2>1. /\ Top(t).e \in Ids /\ UNCHANGED <<hooked, stuck>>
        /\ entry' = [entry EXCEPT ![Top(t).e].patched = TRUE]
    BY <1>4, <1>6 DEF Patch
  <2> QED
    BY <1>2, <2>1, Patched, StraysKept, ZenonT(30)
<1>7. ASSUME NEW ok \in BOOLEAN, Detach(t, ok)
      PROVE  Strays'
  <2>1. On(t, "detach") /\ UNCHANGED entry
    BY <1>3, <1>7 DEF Detach
  <2>2. CASE g_entries = <<>>
    BY <1>1, <1>7, <2>1, <2>2 DEF Detach
  <2>3. CASE g_entries # <<>>
    <3> DEFINE f == entry[g_entries[1]].fn
    <3>1. Len(g_entries) > 0 /\ Head(g_entries) = g_entries[1]
      BY <2>3, SMTT(30) DEF TypeOK
    <3>2. \/ hooked' = [hooked EXCEPT ![f] = None] /\ UNCHANGED stuck
          \/ stuck' = stuck \cup {f} /\ UNCHANGED hooked
      BY <1>7, <2>3, <3>1 DEF Detach, Unhooked
    <3>3. owner = t
      <4>1. Depth(t) > 1
        BY <1>2, <2>1, SMT DEF On, Stacks
      <4> QED
        BY <4>1, Below
    <3>4. /\ f \in Functions \ stuck /\ hooked[f] = g_entries[1] /\ g_entries[1] \in Ids
          /\ entry[g_entries[1]].patched
      BY <2>1, <3>1, <3>2, <3>3, Uninstalled
    <3> HIDE DEF f
    <3>5. entry[hooked[f]].fn = f
      BY <3>4 DEF f
    <3>6. CASE hooked' = [hooked EXCEPT ![f] = None] /\ UNCHANGED stuck
      <4>1. /\ hooked' \in [Functions -> Ids' \cup {None}]
            /\ \A g \in stuck : hooked'[g] = hooked[g]
        BY <1>2, <2>1, <3>4, <3>6 DEF Ids
      <4> QED
        BY <2>1, <3>6, <4>1, StraysKept DEF Ids
    <3>7. CASE stuck' = stuck \cup {f} /\ UNCHANGED hooked
      BY <2>1, <3>4, <3>5, <3>7, ZenonT(30) DEF Strays, Ids
    <3> QED
      BY <3>2, <3>6, <3>7
  <2> QED
    BY <2>2, <2>3
<1>8. CASE Free(t)
  <2>1. /\ On(t, "free") /\ UNCHANGED <<hooked, stuck>>
        /\ entry' = [entry EXCEPT ![Head(g_entries)].freed = TRUE]
    BY <1>3, <1>8 DEF Free
  <2>2. Len(g_entries) > 0
    BY <2>1 DEF Registry
  <2>3. Head(g_entries) \in Ids
    BY <2>2, SMT DEF TypeOK
  <2> QED
    BY <1>2, <2>1, <2>3, Deleted, StraysKept, ZenonT(30)
<1>9. ASSUME NEW r \in Entries, entry' = Append(entry, r), UNCHANGED stuck,
             hooked' \in [Functions -> Ids \cup {None, Len(entry) + 1}],
             \A f \in stuck : hooked'[f] = hooked[f]
      PROVE  Strays'
  BY <1>9, Allocated, StraysKept, ZenonT(30)
<1>10. ASSUME NEW f \in Functions, NEW cb \in Callbacks, Attach(t, f, cb)
       PROVE  Strays'
  <2>1. NewEntry(f, cb, FALSE) \in Entries
    BY Created
  <2> QED
    BY <1>2, <1>9, <1>10, <2>1, ZenonT(30) DEF Attach
<1>11. ASSUME NEW f \in Functions, Replace(t, f)
       PROVE  Strays'
  <2>1. NewEntry(f, [enter |-> FALSE, leave |-> FALSE], TRUE) \in Entries
    BY DEF NewEntry, Entries
  <2>2. f \notin stuck
    BY <1>11, InterceptorAssumption, SMT DEF Replace, Strays, Ids
  <2> QED
    BY <1>2, <1>9, <1>11, <2>1, <2>2, ZenonT(30) DEF Replace
<1>12. CASE Proceed(t)
  <2>1. EnterScope(t) \/ LeaveScope(t) \/ DispatchOnEnter(t) \/ CallOriginal(t)
          \/ DispatchOnLeave(t) => UNCHANGED <<hooked, stuck, entry>>
    BY DEF EnterScope, LeaveScope, DispatchOnEnter, CallOriginal, DispatchOnLeave
  <2> QED
    BY <1>1, <1>5, <1>6, <1>7, <1>8, <1>12, <2>1 DEF Proceed
<1>13. CASE Decide(t)
  <2>1. LoadScript(t) \/ DetachAll(t) => UNCHANGED <<hooked, stuck, entry>>
    BY DEF LoadScript, DetachAll
  <2>2. \A f \in Functions : Call(t, f) => UNCHANGED <<hooked, stuck, entry>>
    BY DEF Call
  <2> QED
    BY <1>1, <1>10, <1>11, <1>13, <2>1, <2>2 DEF Decide
<1> QED
  BY <1>12, <1>13

\* The invariant holds in every reachable state.
THEOREM InterceptorIInv == ScriptSpec => []IInv
<1>1. IInv /\ [ScriptNext]_scriptVars => IInv'
  <2> SUFFICES ASSUME IInv, [ScriptNext]_scriptVars PROVE IInv'
    OBVIOUS
  <2>1. CASE ScriptNext
    BY <2>1, ProceedCore, DecideCore, StraysStep DEF ScriptNext, IInv
  <2>2. CASE UNCHANGED scriptVars
    <3> USE DEF Core
    <3>1. /\ UNCHANGED <<owner, depth, hooked, stuck, entry, g_entries, stack, fault>>
          /\ UNCHANGED tracked
      BY <2>2 DEF scriptVars, tracked
    <3>7. Strays'
      BY <3>1 DEF IInv, Strays, Ids
    <3>2. TypeOK' /\ Stacks' /\ Scoped' /\ Counted'
      BY <3>1 DEF IInv, TypeOK, Stacks, Scoped, Counted, Depth, InScope, Ids
    <3>3. Calls'
      BY <3>1, ZenonT(30) DEF IInv, Calls, Installed, Works, On, Depth
    <3>4. Live'
      BY <3>1, ZenonT(30) DEF IInv, Live, Works, On, Depth, Listed
    <3>5. Private'
      BY <3>1, ZenonT(30) DEF IInv, Private, Works, On, Depth, Listed, Ids
    <3>6. Registry'
      BY <3>1 DEF IInv, Registry, On, Depth
    <3> QED
      BY <3>2, <3>3, <3>4, <3>5, <3>6, <3>7 DEF IInv
  <2> QED
    BY <2>1, <2>2
<1> QED
  BY <1>1, InitIInv, PTL DEF ScriptSpec
-----------------------------------------------------------------------------
(* The properties *)

\* JavaScript runs on one thread at a time, and the JSScope lock is held once
\* for each script and callback of that thread (js_scope.h).
THEOREM InterceptorOneInJS == ScriptSpec => []OneInJS
<1>1. IInv => OneInJS
  <2> SUFFICES ASSUME IInv, fault = "none" PROVE OneInJS
    BY DEF OneInJS
  <2> USE DEF IInv, Core
  <2>1. \A t \in Threads : Depth(t) \in Nat /\ DOMAIN stack[t] = 1..Depth(t)
    BY SMT DEF TypeOK, Depth
  <2>2. \A t \in Threads : JSFrames(t) # {} => owner = t
    BY <2>1 DEF JSFrames, Scoped
  <2>3. ASSUME NEW t \in Threads
        PROVE  Cardinality(JSFrames(t)) = InScope(t)
    <3>1. InScope(t) \in Nat /\ JSFrames(t) = 1..InScope(t)
      <4>1. \A i \in 1..Depth(t) - 1 : stack[t][i].pc \in InJS
        BY Below
      <4> QED
        BY <2>1, <4>1, SMTT(30) DEF JSFrames, InScope
    <3>2. Cardinality(1..InScope(t)) = IF 1 > InScope(t) THEN 0 ELSE InScope(t) - 1 + 1
      BY <3>1, FS_Interval, SMTT(30)
    <3> QED
      BY <3>1, <3>2, SMTT(30)
  <2>4. depth = IF owner = None THEN 0 ELSE Cardinality(JSFrames(owner))
    BY <2>3 DEF Counted, TypeOK
  <2> QED
    BY <2>2, <2>4 DEF OneInJS
<1> QED
  BY <1>1, InterceptorIInv, PTL

\* A trampoline with an onEnter that goes on to the original knows its address,
\* although generate_trampolines writes it after the hook is live.
THEOREM InterceptorOrigKnown == ScriptSpec => []OrigKnown
<1>1. IInv => OrigKnown
  <2> SUFFICES ASSUME IInv PROVE OrigKnown
    OBVIOUS
  <2>1. \A t \in Threads : DOMAIN stack[t] = 1..Depth(t)
    BY SMTT(30) DEF IInv, Core, TypeOK, Depth
  <2> QED
    BY <2>1, ZenonT(30) DEF IInv, Core, Calls, OrigKnown
<1> QED
  BY <1>1, InterceptorIInv, PTL

\* A function enters the trampoline of its own entry, which is deleted only if
\* HookUninstall failed to unhook the function before.
THEOREM InterceptorHookedAlive == ScriptSpec => []HookedAlive
<1>1. IInv => HookedAlive
  <2> SUFFICES ASSUME IInv, NEW f \in Functions, hooked[f] # None
               PROVE  entry[hooked[f]].fn = f /\ (entry[hooked[f]].freed => f \in stuck)
    BY DEF HookedAlive
  <2>1. CASE f \in stuck
    BY <2>1 DEF IInv, Strays
  <2>2. CASE f \notin stuck
    <3>1. tracked[f] = hooked[f]
      BY <2>2 DEF tracked
    <3> QED
      BY <3>1 DEF IInv, Core, Live
  <2> QED
    BY <2>1, <2>2
<1> QED
  BY <1>1, InterceptorIInv, PTL

\* Between scripts, the live hooks are the ones that g_entries lists, each once,
\* and the ones that HookUninstall failed to remove.
THEOREM InterceptorHooksTracked == ScriptSpec => []HooksTracked
<1>1. IInv => HooksTracked
  <2> SUFFICES ASSUME IInv, owner = None PROVE HooksTracked
    BY DEF HooksTracked
  <2> USE DEF IInv, Core
  <2>1. \A u \in Threads : \A pc \in {"patch", "free"} : ~On(u, pc)
    <3> SUFFICES ASSUME NEW u \in Threads, NEW pc \in {"patch", "free"}, On(u, pc)
                 PROVE  FALSE
      OBVIOUS
    <3>1. Depth(u) > 1
      BY Tops, SMTT(30) DEF On, Stacks
    <3> QED
      BY <3>1, Below, InterceptorAssumption DEF Threads
  <2>2. DOMAIN g_entries = 1..Len(g_entries) /\ None \notin Ids
    BY InterceptorAssumption, SMTT(30) DEF TypeOK, Ids
  <2>3. \A k \in 1..Len(g_entries) : /\ entry[g_entries[k]].fn \in Functions
                                     /\ tracked[entry[g_entries[k]].fn] = g_entries[k]
                                     /\ g_entries[k] \in Ids
    BY <2>1, ListedLive, Typed DEF TypeOK
  <2>4. \A f \in Functions : tracked[f] # None =>
          \E k \in 1..Len(g_entries) : g_entries[k] = tracked[f] /\ entry[g_entries[k]].fn = f
    BY <2>1, ZenonT(30) DEF Live, Works, Listed
  <2>5. /\ \A f \in Functions : tracked[f] = IF f \in stuck THEN None ELSE hooked[f]
        /\ stuck \subseteq Functions /\ \A f \in stuck : hooked[f] # None
    BY <2>2, SMT DEF tracked, Strays
  <2>6. \A k \in 1..Len(g_entries) : /\ entry[g_entries[k]].fn \notin stuck
                                     /\ hooked[entry[g_entries[k]].fn] = g_entries[k]
                                     /\ ~entry[g_entries[k]].freed
    BY <2>2, <2>3, <2>5, SMTT(30) DEF Live
  <2>7. {f \in Functions : hooked[f] # None} = {entry[e].fn : e \in Range(g_entries)} \cup stuck
    BY <2>2, <2>3, <2>4, <2>5, <2>6, SMTT(30) DEF Range
  <2>8. \A i, j \in DOMAIN g_entries : entry[g_entries[i]].fn = entry[g_entries[j]].fn => i = j
    BY <2>2 DEF Registry
  <2>9. \A e \in Range(g_entries) : entry[e].fn \notin stuck /\ ~entry[e].freed
    BY <2>2, <2>6 DEF Range
  <2> QED
    BY <2>7, <2>8, <2>9 DEF HooksTracked
<1> QED
  BY <1>1, InterceptorIInv, PTL
=============================================================================
