--------------------------- MODULE TrampolinePool ---------------------------
(***************************************************************************)
(* The lock-free pool of LSPlant trampolines: GenerateTrampolineFor in     *)
(* lsplant.cc and DoHook, its only caller.  One machine word holds the     *)
(* page being filled and, in the bits below the page size, how many slots  *)
(* of it were claimed; a slot is claimed with one fetch_add.  A thread     *)
(* that finds the page full (or no page) takes a flag, maps a new page,    *)
(* publishes it in the word and clears the flag; the others wait on the    *)
(* flag and start over.  DoHook also suspends the other ART threads; the   *)
(* pool is modelled, as it is written, without relying on that.            *)
(*                                                                         *)
(* Pages are numbered from 1, page 0 is the null address.  The word is a   *)
(* page and a count; a count that outgrows its bit field carries into the  *)
(* page, as it does in the uintptr_t.                                      *)
(***************************************************************************)
EXTENDS Common, Integers, FiniteSets

CONSTANTS
  Threads,      \* threads calling DoHook
  Hooks,        \* the hook methods (art::ArtMethod *hook), one per DoHook call
  NumPerPage,   \* kTrampolineNumPerPage
  CountRange,   \* 2^12 or 2^14: the values of the count bit field
  MaxPages,     \* bound: pages mmap can return
  MaxFail       \* bound: mmap calls that fail

ASSUME PoolAssumption ==
  /\ IsFiniteSet(Threads)
  /\ None \notin Hooks
  /\ NumPerPage \in Nat \ {0}
  /\ CountRange \in Nat /\ MaxPages \in Nat /\ MaxFail \in Nat

\* A thread that finds the page full adds 1 to its count, and may do so again
\* each time the flag is released with the page still in the word: once after
\* the page was published and once for every failed mmap.  These additions
\* must fit in the count field.
ASSUME CountFits ==
  NumPerPage + Cardinality(Threads) * (MaxFail + 2) < CountRange

VARIABLES
  trampoline_pool,  \* the atomic word: <<page, count>>
  trampoline_lock,  \* the atomic flag
  mapped,           \* pages returned by mmap so far
  pc,               \* where each thread is in GenerateTrampolineFor
  hook,             \* its argument
  slot,             \* locals address and count, as a pair
  written,          \* contents of the trampolines: which slot holds which hook
  entrypoint,       \* SetEntryPoint: the slot each hooked method enters
  fails,            \* mmap failures so far
  releases,         \* history: how often the flag was cleared since the page
                    \* in the word was published
  overs             \* history: <<thread, releases>> of each fetch_add that found
                    \* the page in the word full

poolVars == <<trampoline_pool, trampoline_lock, mapped, pc, hook, slot, written,
          entrypoint, fails, releases, overs>>

Slots == Nat \X Nat
PCs == {"idle", "fetch", "full", "wait", "mmap", "store", "clear",
        "failclear", "write"}

PageOf(word) == word[1]    \* tl.address & ~kPageMask
CountOf(word) == word[2]   \* tl.count4k, tl.count16k

AddOne(word) ==
  IF CountOf(word) + 1 = CountRange THEN <<PageOf(word) + 1, 0>>
  ELSE <<PageOf(word), CountOf(word) + 1>>

PoolInit ==
  /\ trampoline_pool = <<0, 0>>
  /\ trampoline_lock = FALSE
  /\ mapped = {}
  /\ pc = [t \in Threads |-> "idle"]
  /\ hook = [t \in Threads |-> None]
  /\ slot = [t \in Threads |-> None]
  /\ written = {}
  /\ entrypoint = [h \in Hooks |-> None]
  /\ fails = 0
  /\ releases = 0
  /\ overs = {}

Goto(t, from, to) ==
  /\ pc[t] = from
  /\ pc' = [pc EXCEPT ![t] = to]

\* DoHook(target, hook, backup) asks for a trampoline; every lsplant::Hook
\* call builds a hook method of its own.
HookCall(t, h) ==
  /\ Goto(t, "idle", "fetch")
  /\ entrypoint[h] = None
  /\ \A u \in Threads : hook[u] # h
  /\ hook' = [hook EXCEPT ![t] = h]
  /\ UNCHANGED <<trampoline_pool, trampoline_lock, mapped, slot, written,
                 entrypoint, fails, releases, overs>>

\* Mutation: the full page is noticed one slot too late.
FullLate(page, count) == page = 0 \/ count > NumPerPage

Full(page, count) == page = 0 \/ count >= NumPerPage

FetchAdd(t) ==
  LET page == PageOf(trampoline_pool)
      count == CountOf(trampoline_pool)
      full == Full(page, count)
  IN  /\ Goto(t, "fetch", IF full THEN "full" ELSE "write")
      /\ trampoline_pool' = AddOne(trampoline_pool)
      /\ slot' = [slot EXCEPT ![t] = <<page, count>>]
      /\ overs' = IF full THEN overs \union {<<t, releases>>} ELSE overs
      /\ UNCHANGED <<trampoline_lock, mapped, hook, written, entrypoint,
                     fails, releases>>

TestAndSet(t) ==
  /\ Goto(t, "full", IF trampoline_lock THEN "wait" ELSE "mmap")
  /\ trampoline_lock' = TRUE
  /\ UNCHANGED <<trampoline_pool, mapped, hook, slot, written, entrypoint,
                 fails, releases, overs>>

\* trampoline_lock.wait(true) returns once the flag is seen clear; continue.
Wait(t) ==
  /\ ~trampoline_lock
  /\ Goto(t, "wait", "fetch")
  /\ UNCHANGED <<trampoline_pool, trampoline_lock, mapped, hook, slot,
                 written, entrypoint, fails, releases, overs>>

Mmap(t) ==
  \E page \in (1..MaxPages) \ mapped :
    /\ Goto(t, "mmap", "store")
    /\ mapped' = mapped \union {page}
    /\ slot' = [slot EXCEPT ![t] = <<page, 0>>]
    /\ UNCHANGED <<trampoline_pool, trampoline_lock, hook, written,
                   entrypoint, fails, releases, overs>>

MmapFailed(t) ==
  /\ fails < MaxFail
  /\ Goto(t, "mmap", "failclear")
  /\ fails' = fails + 1
  /\ UNCHANGED <<trampoline_pool, trampoline_lock, mapped, hook, slot,
                 written, entrypoint, releases, overs>>

\* Mutation: the mapping thread's own slot is not counted.
Same(word) == word

\* tl.count4k++ after the page was mapped.
Counted(word) == <<PageOf(word), CountOf(word) + 1>>

\* The new page is published with its first slot already claimed.
Store(t) ==
  /\ Goto(t, "store", "clear")
  /\ trampoline_pool' = Counted(slot[t])
  /\ releases' = 0
  /\ overs' = {}
  /\ UNCHANGED <<trampoline_lock, mapped, hook, slot, written, entrypoint,
                 fails>>

Clear(t) ==
  /\ Goto(t, "clear", "write")
  /\ trampoline_lock' = FALSE
  /\ releases' = releases + 1
  /\ UNCHANGED <<trampoline_pool, mapped, hook, slot, written, entrypoint,
                 fails, overs>>

\* Mutation: the failure path returns with the flag still set.
StillSet == trampoline_lock

FlagCleared == FALSE

\* nullptr is returned and DoHook returns false: nothing is hooked.
FailClear(t) ==
  /\ Goto(t, "failclear", "idle")
  /\ trampoline_lock' = FlagCleared
  /\ releases' = releases + 1
  /\ hook' = [hook EXCEPT ![t] = None]
  /\ slot' = [slot EXCEPT ![t] = None]
  /\ UNCHANGED <<trampoline_pool, mapped, written, entrypoint, fails, overs>>

\* The shellcode and the hook's ArtMethod are copied to the slot, and DoHook
\* makes it the entry point of the target.
Write(t) ==
  /\ Goto(t, "write", "idle")
  /\ written' = {w \in written : w[1] # slot[t]} \union {<<slot[t], hook[t]>>}
  /\ entrypoint' = [entrypoint EXCEPT ![hook[t]] = slot[t]]
  /\ hook' = [hook EXCEPT ![t] = None]
  /\ slot' = [slot EXCEPT ![t] = None]
  /\ UNCHANGED <<trampoline_pool, trampoline_lock, mapped, fails, releases,
                 overs>>

PoolStep(t) ==
  \/ FetchAdd(t) \/ TestAndSet(t) \/ Wait(t) \/ Mmap(t) \/ MmapFailed(t)
  \/ Store(t) \/ Clear(t) \/ FailClear(t) \/ Write(t)

PoolNext == \E t \in Threads : PoolStep(t) \/ \E h \in Hooks : HookCall(t, h)

PoolSpec == PoolInit /\ [][PoolNext]_poolVars

\* A thread inside GenerateTrampolineFor keeps running.
FairSpec == PoolSpec /\ \A t \in Threads : WF_poolVars(PoolStep(t))
-----------------------------------------------------------------------------
TypeOK ==
  /\ trampoline_pool \in Slots
  /\ trampoline_lock \in BOOLEAN
  /\ mapped \in SUBSET (1..MaxPages)
  /\ pc \in [Threads -> PCs]
  /\ hook \in [Threads -> Hooks \union {None}]
  /\ slot \in [Threads -> Slots \union {None}]
  /\ written \in SUBSET (Slots \X Hooks)
  /\ entrypoint \in [Hooks -> Slots \union {None}]
  /\ fails \in 0..MaxFail
  /\ releases \in 0..MaxFail + 1
  /\ overs \in SUBSET (Threads \X (0..MaxFail + 1))

\* The entry point of a hooked method is a trampoline that loads that
\* method's own hook (GenerateTrampolineFor stores `hook` at art_method_offset
\* of a slot nobody else was or will be given), however the threads interleave.
OwnTrampoline ==
  \A h \in Hooks : entrypoint[h] # None =>
    {w \in written : w[1] = entrypoint[h]} = {<<entrypoint[h], h>>}

\* A slot about to be written lies inside a page the pool mapped: neither the
\* null page, nor past the end of the page, nor in a page the count carried into.
SlotInOwnPage ==
  \A t \in Threads : pc[t] = "write" =>
    slot[t] \in mapped \X (0..NumPerPage - 1)

\* Every call of GenerateTrampolineFor returns, with or without a trampoline:
\* the flag is cleared on the failure path too and no waiter is left behind.
CallsReturn ==
  \A t \in Threads : pc[t] = "fetch" ~> pc[t] = "idle"
=============================================================================
