------------------------ MODULE TrampolinePoolProofs ------------------------
(***************************************************************************)
(* Proofs about the trampoline pool, for any number of threads and hooks,  *)
(* any page size and any bounded number of mmap failures.                  *)
(***************************************************************************)
EXTENDS TrampolinePool, FiniteSetTheorems, TLAPS

Holder(t) == pc[t] \in {"mmap", "store", "clear", "failclear"}
Claimed(t) == pc[t] \in {"write", "clear"}

\* The flag is held by exactly one thread while a page is mapped and published.
FlagInv ==
  /\ \A t \in Threads : Holder(t) => trampoline_lock
  /\ \A t, u \in Threads : Holder(t) /\ Holder(u) => t = u

\* How often the flag can have been released with the same page in the word.
ReleaseInv ==
  /\ \A t \in Threads : pc[t] = "clear" => releases = 0
  /\ \A t \in Threads : pc[t] = "failclear" => releases <= fails
  /\ releases <= fails + 1

\* A thread adds to the count of a full page at most once between two releases.
OversInv ==
  /\ overs \subseteq Threads \X (0..releases)
  /\ \A t \in Threads : pc[t] \in {"idle", "fetch", "write", "clear"} =>
       <<t, releases>> \notin overs
  /\ \A t \in Threads : pc[t] = "wait" /\ ~trampoline_lock =>
       <<t, releases>> \notin overs

\* Hence the count never outgrows its bit field.
CountInv ==
  /\ PageOf(trampoline_pool) \in mapped \union {0}
  /\ PageOf(trampoline_pool) = 0 =>
       CountOf(trampoline_pool) <= Cardinality(overs)
  /\ PageOf(trampoline_pool) # 0 =>
       CountOf(trampoline_pool) <= NumPerPage + Cardinality(overs)
  /\ PageOf(trampoline_pool) # 0 /\ CountOf(trampoline_pool) < NumPerPage =>
       overs = {}

\* A slot is claimed by one thread, or written, never both and never twice;
\* the slots of the page in the word lie below its count; a page not yet
\* published has no other slot in use.
SlotInv ==
  /\ \A t \in Threads : pc[t] # "idle" => hook[t] \in Hooks
  /\ \A t \in Threads : Claimed(t) => slot[t] \in mapped \X (0..NumPerPage - 1)
  /\ \A w \in written : w[1] \in mapped \X (0..NumPerPage - 1)
  /\ \A t, u \in Threads :
       Claimed(t) /\ Claimed(u) /\ slot[t] = slot[u] => t = u
  /\ \A t \in Threads, w \in written : Claimed(t) => w[1] # slot[t]
  /\ \A t \in Threads :
       Claimed(t) /\ slot[t][1] = PageOf(trampoline_pool) =>
         slot[t][2] < CountOf(trampoline_pool)
  /\ \A w \in written : w[1][1] = PageOf(trampoline_pool) =>
       w[1][2] < CountOf(trampoline_pool)

NewPageInv ==
  \A t \in Threads : pc[t] = "store" =>
    /\ slot[t] \in mapped \X {0}
    /\ slot[t][1] # PageOf(trampoline_pool)
    /\ \A u \in Threads : Claimed(u) => slot[u][1] # slot[t][1]
    /\ \A w \in written : w[1][1] # slot[t][1]

IInv == /\ TypeOK /\ FlagInv /\ ReleaseInv /\ OversInv /\ CountInv
        /\ SlotInv /\ NewPageInv /\ OwnTrampoline
-----------------------------------------------------------------------------
\* The additions to the count of one full page fit in the count field.
LEMMA OversBound ==
  ASSUME NEW S \in SUBSET (Threads \X (0..MaxFail + 1))
  PROVE  /\ IsFiniteSet(S)
         /\ Cardinality(S) \in Nat
         /\ NumPerPage + Cardinality(S) < CountRange
<1> DEFINE Pairs == Threads \X (0..MaxFail + 1)
<1> USE PoolAssumption
<1>1. IsFiniteSet(0..MaxFail + 1) /\ Cardinality(0..MaxFail + 1) = MaxFail + 2
  BY FS_Interval
<1>2. IsFiniteSet(Pairs)
      /\ Cardinality(Pairs) = Cardinality(Threads) * (MaxFail + 2)
  BY <1>1, FS_Product
<1>3. IsFiniteSet(S) /\ Cardinality(S) <= Cardinality(Pairs)
  BY <1>2, FS_Subset
<1>4. Cardinality(S) \in Nat /\ Cardinality(Threads) \in Nat
  BY <1>3, FS_CardinalityType
<1> QED
  BY <1>2, <1>3, <1>4, CountFits

\* fetch_add never carries into the page.
LEMMA NoCarry ==
  ASSUME IInv, NEW t \in Threads, pc[t] = "fetch"
  PROVE  /\ PageOf(trampoline_pool) \in Nat
         /\ CountOf(trampoline_pool) \in Nat
         /\ CountOf(trampoline_pool) + 1 # CountRange
         /\ Cardinality(overs) \in Nat
         /\ Cardinality(overs \union {<<t, releases>>}) = Cardinality(overs) + 1
<1> DEFINE more == overs \union {<<t, releases>>}
<1> USE PoolAssumption
<1>1. /\ overs \in SUBSET (Threads \X (0..MaxFail + 1))
      /\ more \in SUBSET (Threads \X (0..MaxFail + 1))
      /\ <<t, releases>> \notin overs
  BY DEF IInv, TypeOK, OversInv
<1>2. /\ IsFiniteSet(overs) /\ Cardinality(overs) \in Nat
      /\ NumPerPage + Cardinality(more) < CountRange
  BY <1>1, OversBound
<1>3. Cardinality(more) = Cardinality(overs) + 1
  BY <1>1, <1>2, FS_AddElement
<1>4. PageOf(trampoline_pool) \in Nat /\ CountOf(trampoline_pool) \in Nat
  BY DEF IInv, TypeOK, Slots, PageOf, CountOf
<1>5. CountOf(trampoline_pool) <= NumPerPage + Cardinality(overs)
  BY <1>2, <1>4 DEF IInv, CountInv
<1> QED
  BY <1>2, <1>3, <1>4, <1>5

\* A pair of numbers is a slot.
LEMMA PairInSlots == \A p, c \in Nat : <<p, c>> \in Slots /\ <<p, c + 1>> \in Slots
  BY DEF Slots

\* Slots in use are well typed.
SlotsTyped ==
  /\ mapped \subseteq Nat \ {0}
  /\ \A t \in Threads : Claimed(t) \/ pc[t] = "store" =>
       /\ slot[t] \in Slots
       /\ slot[t][1] \in mapped
       /\ slot[t][2] \in 0..NumPerPage - 1
       /\ slot[t] = <<slot[t][1], slot[t][2]>>

\* Every slot in use lies in a mapped page (SlotInv, NewPageInv), so its page
\* is not null.
LEMMA SlotTypes == IInv => SlotsTyped
<1> SUFFICES ASSUME IInv PROVE SlotsTyped
  OBVIOUS
<1> USE PoolAssumption
<1>1. mapped \subseteq Nat \ {0}
  BY DEF IInv, TypeOK
<1>2. ASSUME NEW t \in Threads, Claimed(t) \/ pc[t] = "store"
      PROVE  slot[t] \in mapped \X (0..NumPerPage - 1)
  BY <1>2 DEF IInv, SlotInv, NewPageInv
<1>3. ASSUME NEW s \in mapped \X (0..NumPerPage - 1)
      PROVE  /\ s \in Slots /\ s[1] \in mapped /\ s[2] \in 0..NumPerPage - 1
             /\ s = <<s[1], s[2]>>
  <2>1. s[1] \in mapped /\ s[2] \in 0..NumPerPage - 1 /\ s = <<s[1], s[2]>>
    OBVIOUS
  <2>2. s[1] \in Nat /\ s[2] \in Nat
    <3>1. \A i \in 0..NumPerPage - 1 : i \in Nat
      OBVIOUS
    <3>2. s[1] \in Nat
      BY <1>1, <2>1, Zenon
    <3> QED
      BY <2>1, <3>1, <3>2, Zenon
  <2>3. <<s[1], s[2]>> \in Slots
    BY <2>2, PairInSlots
  <2> QED
    BY <2>1, <2>3, Zenon
<1> QED
  BY <1>1, <1>2, <1>3, Zenon DEF SlotsTyped

\* What fetch_add does to the word while the count fits its field.
Fetched(t) ==
  /\ trampoline_pool'
       = <<PageOf(trampoline_pool), CountOf(trampoline_pool) + 1>>
  /\ PageOf(trampoline_pool) \in Nat /\ CountOf(trampoline_pool) \in Nat
  /\ Cardinality(overs) \in Nat
  /\ Cardinality(overs \union {<<t, releases>>}) = Cardinality(overs) + 1

\* fetch_add increments the count and leaves the page alone.
LEMMA FetchFacts ==
  ASSUME IInv, NEW t \in Threads, FetchAdd(t)
  PROVE  Fetched(t)
<1>1. pc[t] = "fetch"
  BY DEF FetchAdd, Full, Goto
<1>2. trampoline_pool'
        = <<PageOf(trampoline_pool), CountOf(trampoline_pool) + 1>>
  <2>1. trampoline_pool' = AddOne(trampoline_pool)
    BY DEF FetchAdd, Full
  <2>2. CountOf(trampoline_pool) + 1 # CountRange
    BY <1>1, NoCarry, Zenon
  <2> QED
    BY <2>1, <2>2 DEF AddOne
<1> QED
  BY <1>1, <1>2, NoCarry, Zenon DEF Fetched

\* The pool starts empty, with nothing claimed and the flag clear.
LEMMA InitInv == PoolInit => IInv
<1> SUFFICES ASSUME PoolInit PROVE IInv
  OBVIOUS
<1> USE PoolAssumption DEF PoolInit
<1>1. TypeOK
  <2>1. trampoline_pool \in Slots
    BY DEF Slots
  <2>2. /\ pc \in [Threads -> PCs]
        /\ hook \in [Threads -> Hooks \union {None}]
        /\ slot \in [Threads -> Slots \union {None}]
        /\ entrypoint \in [Hooks -> Slots \union {None}]
    BY DEF PCs
  <2>3. /\ fails \in 0..MaxFail
        /\ releases \in 0..MaxFail + 1
    OBVIOUS
  <2>4. trampoline_lock \in BOOLEAN
    OBVIOUS
  <2>5. /\ mapped \in SUBSET (1..MaxPages)
        /\ written \in SUBSET (Slots \X Hooks)
        /\ overs \in SUBSET (Threads \X (0..MaxFail + 1))
    OBVIOUS
  <2> QED
    BY <2>1, <2>2, <2>3, <2>4, <2>5 DEF TypeOK
<1>2. FlagInv /\ ReleaseInv /\ OversInv /\ SlotInv /\ NewPageInv
  BY DEF FlagInv, ReleaseInv, OversInv, SlotInv, NewPageInv, Holder, Claimed
<1>3. CountInv
  BY FS_EmptySet DEF CountInv, PageOf, CountOf
<1>4. OwnTrampoline
  BY DEF OwnTrampoline
<1> QED
  BY <1>1, <1>2, <1>3, <1>4 DEF IInv

\* Only the thread whose test_and_set found the flag clear maps a page, and
\* only it clears the flag.
LEMMA FlagStep == IInv /\ [PoolNext]_poolVars => FlagInv'
<1> SUFFICES ASSUME IInv, [PoolNext]_poolVars PROVE FlagInv'
  OBVIOUS
<1> USE PoolAssumption DEF IInv, FlagInv, TypeOK, Holder, PCs
<1>1. ASSUME NEW t \in Threads, NEW h \in Hooks, HookCall(t, h)
      PROVE  FlagInv'
  BY <1>1 DEF HookCall, Goto
<1>2. ASSUME NEW t \in Threads, FetchAdd(t)
      PROVE  FlagInv'
  BY <1>2 DEF FetchAdd, Full, Goto
<1>3. ASSUME NEW t \in Threads, TestAndSet(t)
      PROVE  FlagInv'
  BY <1>3 DEF TestAndSet, Goto
<1>4. ASSUME NEW t \in Threads, Wait(t)
      PROVE  FlagInv'
  BY <1>4 DEF Wait, Goto
<1>5. ASSUME NEW t \in Threads, Mmap(t)
      PROVE  FlagInv'
  BY <1>5 DEF Mmap, Goto
<1>6. ASSUME NEW t \in Threads, MmapFailed(t)
      PROVE  FlagInv'
  BY <1>6 DEF MmapFailed, Goto
<1>7. ASSUME NEW t \in Threads, Store(t)
      PROVE  FlagInv'
  BY <1>7 DEF Store, Counted, Goto
<1>8. ASSUME NEW t \in Threads, Clear(t)
      PROVE  FlagInv'
  BY <1>8 DEF Clear, Goto
<1>9. ASSUME NEW t \in Threads, FailClear(t)
      PROVE  FlagInv'
  BY <1>9 DEF FailClear, FlagCleared, Goto
<1>10. ASSUME NEW t \in Threads, Write(t)
      PROVE  FlagInv'
  BY <1>10 DEF Write, Goto
<1>11. CASE UNCHANGED poolVars
  BY <1>11 DEF poolVars
<1>12. QED
  BY <1>1, <1>2, <1>3, <1>4, <1>5, <1>6, <1>7, <1>8, <1>9, <1>10, <1>11 DEF PoolNext, PoolStep

\* The flag is released once per published page and once per failed mmap.
LEMMA ReleaseStep == IInv /\ [PoolNext]_poolVars => ReleaseInv'
<1> SUFFICES ASSUME IInv, [PoolNext]_poolVars PROVE ReleaseInv'
  OBVIOUS
<1> USE PoolAssumption DEF IInv, FlagInv, ReleaseInv, TypeOK, Holder, PCs
<1>1. ASSUME NEW t \in Threads, NEW h \in Hooks, HookCall(t, h)
      PROVE  ReleaseInv'
  BY <1>1 DEF HookCall, Goto
<1>2. ASSUME NEW t \in Threads, FetchAdd(t)
      PROVE  ReleaseInv'
  BY <1>2 DEF FetchAdd, Full, Goto
<1>3. ASSUME NEW t \in Threads, TestAndSet(t)
      PROVE  ReleaseInv'
  BY <1>3 DEF TestAndSet, Goto
<1>4. ASSUME NEW t \in Threads, Wait(t)
      PROVE  ReleaseInv'
  BY <1>4 DEF Wait, Goto
<1>5. ASSUME NEW t \in Threads, Mmap(t)
      PROVE  ReleaseInv'
  BY <1>5 DEF Mmap, Goto
<1>6. ASSUME NEW t \in Threads, MmapFailed(t)
      PROVE  ReleaseInv'
  BY <1>6 DEF MmapFailed, Goto
<1>7. ASSUME NEW t \in Threads, Store(t)
      PROVE  ReleaseInv'
  BY <1>7 DEF Store, Counted, Goto
<1>8. ASSUME NEW t \in Threads, Clear(t)
      PROVE  ReleaseInv'
  BY <1>8 DEF Clear, Goto
<1>9. ASSUME NEW t \in Threads, FailClear(t)
      PROVE  ReleaseInv'
  BY <1>9 DEF FailClear, FlagCleared, Goto
<1>10. ASSUME NEW t \in Threads, Write(t)
      PROVE  ReleaseInv'
  BY <1>10 DEF Write, Goto
<1>11. CASE UNCHANGED poolVars
  BY <1>11 DEF poolVars
<1>12. QED
  BY <1>1, <1>2, <1>3, <1>4, <1>5, <1>6, <1>7, <1>8, <1>9, <1>10, <1>11 DEF PoolNext, PoolStep

\* A thread that found the page full waits for a release before it adds again.
LEMMA OversStep == IInv /\ [PoolNext]_poolVars => OversInv'
<1> SUFFICES ASSUME IInv, [PoolNext]_poolVars PROVE OversInv'
  OBVIOUS
<1> USE PoolAssumption DEF IInv, FlagInv, OversInv, TypeOK, Holder, PCs
<1>1. ASSUME NEW t \in Threads, NEW h \in Hooks, HookCall(t, h)
      PROVE  OversInv'
  BY <1>1 DEF HookCall, Goto
<1>2. ASSUME NEW t \in Threads, FetchAdd(t)
      PROVE  OversInv'
  BY <1>2 DEF FetchAdd, Full, Goto
<1>3. ASSUME NEW t \in Threads, TestAndSet(t)
      PROVE  OversInv'
  BY <1>3 DEF TestAndSet, Goto
<1>4. ASSUME NEW t \in Threads, Wait(t)
      PROVE  OversInv'
  BY <1>4 DEF Wait, Goto
<1>5. ASSUME NEW t \in Threads, Mmap(t)
      PROVE  OversInv'
  BY <1>5 DEF Mmap, Goto
<1>6. ASSUME NEW t \in Threads, MmapFailed(t)
      PROVE  OversInv'
  BY <1>6 DEF MmapFailed, Goto
<1>7. ASSUME NEW t \in Threads, Store(t)
      PROVE  OversInv'
  BY <1>7 DEF Store, Counted, Goto
<1>8. ASSUME NEW t \in Threads, Clear(t)
      PROVE  OversInv'
  BY <1>8 DEF Clear, Goto
<1>9. ASSUME NEW t \in Threads, FailClear(t)
      PROVE  OversInv'
  BY <1>9 DEF FailClear, FlagCleared, Goto
<1>10. ASSUME NEW t \in Threads, Write(t)
      PROVE  OversInv'
  BY <1>10 DEF Write, Goto
<1>11. CASE UNCHANGED poolVars
  BY <1>11 DEF poolVars
<1>12. QED
  BY <1>1, <1>2, <1>3, <1>4, <1>5, <1>6, <1>7, <1>8, <1>9, <1>10, <1>11 DEF PoolNext, PoolStep

\* No step of any thread leaves the types.
LEMMA TypeStep == IInv /\ [PoolNext]_poolVars => TypeOK'
<1> SUFFICES ASSUME IInv, [PoolNext]_poolVars PROVE TypeOK'
  OBVIOUS
<1>0. /\ SlotsTyped
      /\ \A t \in Threads : FetchAdd(t) => Fetched(t)
  BY SlotTypes, FetchFacts, Zenon
<1> USE PoolAssumption DEF IInv, TypeOK, Slots, PCs, PageOf, CountOf
<1>1. ASSUME NEW t \in Threads, NEW h \in Hooks, HookCall(t, h)
      PROVE  TypeOK'
  BY <1>1 DEF HookCall, Goto
<1>2. ASSUME NEW t \in Threads, FetchAdd(t)
      PROVE  TypeOK'
  <2>0. /\ trampoline_pool' = <<trampoline_pool[1], trampoline_pool[2] + 1>>
        /\ trampoline_pool[1] \in Nat /\ trampoline_pool[2] \in Nat
        /\ Cardinality(overs) \in Nat
        /\ Cardinality(overs \union {<<t, releases>>}) = Cardinality(overs) + 1
    BY <1>0, <1>2, Zenon DEF Fetched
  <2>1. trampoline_pool' \in Slots
    BY <2>0, PairInSlots, Zenon
  <2>2. slot' \in [Threads -> Slots \union {None}]
    BY <2>0, <1>2 DEF FetchAdd, Full
  <2>3. overs' \in SUBSET (Threads \X (0..MaxFail + 1))
    BY <1>2 DEF FetchAdd, Full
  <2>4. pc' \in [Threads -> PCs]
    BY <1>2 DEF FetchAdd, Full, Goto
  <2> QED
    BY <1>2, <2>1, <2>2, <2>3, <2>4 DEF FetchAdd, Full
<1>3. ASSUME NEW t \in Threads, TestAndSet(t)
      PROVE  TypeOK'
  BY <1>3 DEF TestAndSet, Goto
<1>4. ASSUME NEW t \in Threads, Wait(t)
      PROVE  TypeOK'
  BY <1>4 DEF Wait, Goto
<1>5. ASSUME NEW t \in Threads, Mmap(t)
      PROVE  TypeOK'
  BY <1>5 DEF Mmap, Goto
<1>6. ASSUME NEW t \in Threads, MmapFailed(t)
      PROVE  TypeOK'
  BY <1>6 DEF MmapFailed, Goto
<1>7. ASSUME NEW t \in Threads, Store(t)
      PROVE  TypeOK'
  <2>1. trampoline_pool' \in Slots
    BY <1>0, <1>7 DEF Store, Counted, Goto, SlotsTyped
  <2>2. releases' \in 0..MaxFail + 1 /\ pc' \in [Threads -> PCs]
    BY <1>7 DEF Store, Counted, Goto
  <2> QED
    BY <1>7, <2>1, <2>2 DEF Store, Counted
<1>8. ASSUME NEW t \in Threads, Clear(t)
      PROVE  TypeOK'
  <2>1. releases' \in 0..MaxFail + 1
    BY <1>8 DEF Clear, Goto, ReleaseInv
  <2> QED
    BY <1>8, <2>1 DEF Clear, Goto
<1>9. ASSUME NEW t \in Threads, FailClear(t)
      PROVE  TypeOK'
  <2>1. releases' \in 0..MaxFail + 1
    BY <1>9 DEF FailClear, FlagCleared, Goto, ReleaseInv
  <2> QED
    BY <1>9, <2>1 DEF FailClear, FlagCleared, Goto
<1>10. ASSUME NEW t \in Threads, Write(t)
      PROVE  TypeOK'
  <2>1. slot[t] \in Slots /\ hook[t] \in Hooks
    BY <1>0, <1>10 DEF Write, Goto, SlotInv, Claimed, SlotsTyped
  <2> QED
    BY <1>10, <2>1 DEF Write, Goto
<1>11. CASE UNCHANGED poolVars
  BY <1>11 DEF poolVars
<1>12. QED
  BY <1>1, <1>2, <1>3, <1>4, <1>5, <1>6, <1>7, <1>8, <1>9, <1>10, <1>11 DEF PoolNext, PoolStep

\* The count is bounded by the slots of the page and the additions to a full
\* page.
LEMMA CountStep == IInv /\ [PoolNext]_poolVars => CountInv'
<1> SUFFICES ASSUME IInv, [PoolNext]_poolVars PROVE CountInv'
  OBVIOUS
<1>0. /\ SlotsTyped
      /\ \A t \in Threads : FetchAdd(t) => Fetched(t)
  BY SlotTypes, FetchFacts, Zenon
<1> USE PoolAssumption DEF IInv, TypeOK, Slots, CountInv, PageOf, CountOf
<1>1. ASSUME NEW t \in Threads, NEW h \in Hooks, HookCall(t, h)
      PROVE  CountInv'
  BY <1>1 DEF HookCall, Goto
<1>2. ASSUME NEW t \in Threads, FetchAdd(t)
      PROVE  CountInv'
  <2>0. /\ trampoline_pool' = <<trampoline_pool[1], trampoline_pool[2] + 1>>
        /\ trampoline_pool[1] \in Nat /\ trampoline_pool[2] \in Nat
        /\ Cardinality(overs) \in Nat
        /\ Cardinality(overs \union {<<t, releases>>}) = Cardinality(overs) + 1
    BY <1>0, <1>2, Zenon DEF Fetched
  <2> DEFINE page == PageOf(trampoline_pool)
             count == CountOf(trampoline_pool)
  <2>1. CASE page = 0 \/ count >= NumPerPage
    BY <2>0, <1>2, <2>1 DEF FetchAdd, Full, Goto
  <2>2. CASE page # 0 /\ count < NumPerPage
    BY <2>0, <1>2, <2>2 DEF FetchAdd, Full, Goto
  <2> QED
    BY <2>0, <2>1, <2>2
<1>3. ASSUME NEW t \in Threads, TestAndSet(t)
      PROVE  CountInv'
  BY <1>3 DEF TestAndSet, Goto
<1>4. ASSUME NEW t \in Threads, Wait(t)
      PROVE  CountInv'
  BY <1>4 DEF Wait, Goto
<1>5. ASSUME NEW t \in Threads, Mmap(t)
      PROVE  CountInv'
  BY <1>5 DEF Mmap, Goto
<1>6. ASSUME NEW t \in Threads, MmapFailed(t)
      PROVE  CountInv'
  BY <1>6 DEF MmapFailed, Goto
<1>7. ASSUME NEW t \in Threads, Store(t)
      PROVE  CountInv'
  BY <1>7, FS_EmptySet DEF Store, Counted, Goto, NewPageInv
<1>8. ASSUME NEW t \in Threads, Clear(t)
      PROVE  CountInv'
  BY <1>8 DEF Clear, Goto
<1>9. ASSUME NEW t \in Threads, FailClear(t)
      PROVE  CountInv'
  BY <1>9 DEF FailClear, FlagCleared, Goto
<1>10. ASSUME NEW t \in Threads, Write(t)
      PROVE  CountInv'
  BY <1>10 DEF Write, Goto
<1>11. CASE UNCHANGED poolVars
  BY <1>11 DEF poolVars
<1>12. QED
  BY <1>1, <1>2, <1>3, <1>4, <1>5, <1>6, <1>7, <1>8, <1>9, <1>10, <1>11 DEF PoolNext, PoolStep

\* A fetch_add claims a slot above every slot claimed before; a new page
\* starts with slot 0 claimed.
LEMMA SlotStep == IInv /\ [PoolNext]_poolVars => SlotInv'
<1> SUFFICES ASSUME IInv, [PoolNext]_poolVars PROVE SlotInv'
  OBVIOUS
<1>0. /\ SlotsTyped
      /\ \A t \in Threads : FetchAdd(t) => Fetched(t)
  BY SlotTypes, FetchFacts, Zenon
<1> USE PoolAssumption DEF IInv, TypeOK, Slots, SlotInv, Claimed, PCs, PageOf, CountOf
<1>1. ASSUME NEW t \in Threads, NEW h \in Hooks, HookCall(t, h)
      PROVE  SlotInv'
  BY <1>1 DEF HookCall, Goto
<1>2. ASSUME NEW t \in Threads, FetchAdd(t)
      PROVE  SlotInv'
  <2>0. /\ trampoline_pool' = <<trampoline_pool[1], trampoline_pool[2] + 1>>
        /\ trampoline_pool[1] \in Nat /\ trampoline_pool[2] \in Nat
        /\ Cardinality(overs) \in Nat
        /\ Cardinality(overs \union {<<t, releases>>}) = Cardinality(overs) + 1
    BY <1>0, <1>2, Zenon DEF Fetched
  <2> DEFINE page == PageOf(trampoline_pool)
             count == CountOf(trampoline_pool)
  <2>1. CASE page = 0 \/ count >= NumPerPage
    BY <1>0, <2>0, <1>2, <2>1 DEF FetchAdd, Full, Goto, SlotsTyped
  <2>2. CASE page # 0 /\ count < NumPerPage
    BY <1>0, <2>0, <1>2, <2>2 DEF FetchAdd, Full, Goto, CountInv, SlotsTyped
  <2> QED
    BY <2>0, <2>1, <2>2
<1>3. ASSUME NEW t \in Threads, TestAndSet(t)
      PROVE  SlotInv'
  BY <1>3 DEF TestAndSet, Goto
<1>4. ASSUME NEW t \in Threads, Wait(t)
      PROVE  SlotInv'
  BY <1>4 DEF Wait, Goto
<1>5. ASSUME NEW t \in Threads, Mmap(t)
      PROVE  SlotInv'
  BY <1>5 DEF Mmap, Goto
<1>6. ASSUME NEW t \in Threads, MmapFailed(t)
      PROVE  SlotInv'
  BY <1>6 DEF MmapFailed, Goto
<1>7. ASSUME NEW t \in Threads, Store(t)
      PROVE  SlotInv'
  BY <1>7 DEF Store, Counted, Goto, NewPageInv
<1>8. ASSUME NEW t \in Threads, Clear(t)
      PROVE  SlotInv'
  BY <1>8 DEF Clear, Goto
<1>9. ASSUME NEW t \in Threads, FailClear(t)
      PROVE  SlotInv'
  BY <1>9 DEF FailClear, FlagCleared, Goto
<1>10. ASSUME NEW t \in Threads, Write(t)
      PROVE  SlotInv'
  BY <1>10 DEF Write, Goto
<1>11. CASE UNCHANGED poolVars
  BY <1>11 DEF poolVars
<1>12. QED
  BY <1>1, <1>2, <1>3, <1>4, <1>5, <1>6, <1>7, <1>8, <1>9, <1>10, <1>11 DEF PoolNext, PoolStep

\* A page that is mapped but not yet published is known to one thread only.
LEMMA NewPageStep == IInv /\ [PoolNext]_poolVars => NewPageInv'
<1> SUFFICES ASSUME IInv, [PoolNext]_poolVars PROVE NewPageInv'
  OBVIOUS
<1>0. /\ SlotsTyped
      /\ \A t \in Threads : FetchAdd(t) => Fetched(t)
  BY SlotTypes, FetchFacts, Zenon
<1> USE PoolAssumption DEF IInv, TypeOK, Slots, NewPageInv, SlotInv, FlagInv, Holder, Claimed, PCs, PageOf, CountOf
<1>1. ASSUME NEW t \in Threads, NEW h \in Hooks, HookCall(t, h)
      PROVE  NewPageInv'
  BY <1>1 DEF HookCall, Goto
<1>2. ASSUME NEW t \in Threads, FetchAdd(t)
      PROVE  NewPageInv'
  <2>0. /\ trampoline_pool' = <<trampoline_pool[1], trampoline_pool[2] + 1>>
        /\ trampoline_pool[1] \in Nat /\ trampoline_pool[2] \in Nat
        /\ Cardinality(overs) \in Nat
        /\ Cardinality(overs \union {<<t, releases>>}) = Cardinality(overs) + 1
    BY <1>0, <1>2, Zenon DEF Fetched
  <2> QED
    BY <2>0, <1>2 DEF FetchAdd, Full, Goto, CountInv
<1>3. ASSUME NEW t \in Threads, TestAndSet(t)
      PROVE  NewPageInv'
  BY <1>3 DEF TestAndSet, Goto
<1>4. ASSUME NEW t \in Threads, Wait(t)
      PROVE  NewPageInv'
  BY <1>4 DEF Wait, Goto
<1>5. ASSUME NEW t \in Threads, Mmap(t)
      PROVE  NewPageInv'
  BY <1>5 DEF Mmap, Goto, CountInv
<1>6. ASSUME NEW t \in Threads, MmapFailed(t)
      PROVE  NewPageInv'
  BY <1>6 DEF MmapFailed, Goto
<1>7. ASSUME NEW t \in Threads, Store(t)
      PROVE  NewPageInv'
  BY <1>7 DEF Store, Counted, Goto
<1>8. ASSUME NEW t \in Threads, Clear(t)
      PROVE  NewPageInv'
  BY <1>8 DEF Clear, Goto
<1>9. ASSUME NEW t \in Threads, FailClear(t)
      PROVE  NewPageInv'
  BY <1>9 DEF FailClear, FlagCleared, Goto
<1>10. ASSUME NEW t \in Threads, Write(t)
      PROVE  NewPageInv'
  BY <1>10 DEF Write, Goto
<1>11. CASE UNCHANGED poolVars
  BY <1>11 DEF poolVars
<1>12. QED
  BY <1>1, <1>2, <1>3, <1>4, <1>5, <1>6, <1>7, <1>8, <1>9, <1>10, <1>11 DEF PoolNext, PoolStep

\* Write stores the caller's hook in a slot no entry point leads to yet.
LEMMA OwnStep == IInv /\ [PoolNext]_poolVars => OwnTrampoline'
<1> SUFFICES ASSUME IInv, [PoolNext]_poolVars PROVE OwnTrampoline'
  OBVIOUS
<1>0. /\ SlotsTyped
      /\ \A t \in Threads : FetchAdd(t) => Fetched(t)
  BY SlotTypes, FetchFacts, Zenon
<1> USE PoolAssumption DEF IInv, TypeOK, SlotInv, Claimed, OwnTrampoline
<1>1. ASSUME NEW t \in Threads, NEW h \in Hooks, HookCall(t, h)
      PROVE  OwnTrampoline'
  BY <1>1 DEF HookCall, Goto
<1>2. ASSUME NEW t \in Threads, FetchAdd(t)
      PROVE  OwnTrampoline'
  BY <1>2 DEF FetchAdd, Full, Goto
<1>3. ASSUME NEW t \in Threads, TestAndSet(t)
      PROVE  OwnTrampoline'
  BY <1>3 DEF TestAndSet, Goto
<1>4. ASSUME NEW t \in Threads, Wait(t)
      PROVE  OwnTrampoline'
  BY <1>4 DEF Wait, Goto
<1>5. ASSUME NEW t \in Threads, Mmap(t)
      PROVE  OwnTrampoline'
  BY <1>5 DEF Mmap, Goto
<1>6. ASSUME NEW t \in Threads, MmapFailed(t)
      PROVE  OwnTrampoline'
  BY <1>6 DEF MmapFailed, Goto
<1>7. ASSUME NEW t \in Threads, Store(t)
      PROVE  OwnTrampoline'
  BY <1>7 DEF Store, Counted, Goto
<1>8. ASSUME NEW t \in Threads, Clear(t)
      PROVE  OwnTrampoline'
  BY <1>8 DEF Clear, Goto
<1>9. ASSUME NEW t \in Threads, FailClear(t)
      PROVE  OwnTrampoline'
  BY <1>9 DEF FailClear, FlagCleared, Goto
<1>10. ASSUME NEW t \in Threads, Write(t)
      PROVE  OwnTrampoline'
  <2>1. hook[t] \in Hooks
    BY <1>0, <1>10 DEF Write, Goto, SlotsTyped
  <2>2. written' = written \union {<<slot[t], hook[t]>>}
    BY <1>10 DEF Write, Goto
  <2>3. ASSUME NEW h \in Hooks, entrypoint'[h] # None
        PROVE  {w \in written' : w[1] = entrypoint'[h]} = {<<entrypoint'[h], h>>}
    <3>1. CASE h = hook[t]
      BY <1>10, <2>1, <2>2, <3>1 DEF Write, Goto
    <3>2. CASE h # hook[t]
      <4>1. entrypoint'[h] = entrypoint[h]
        BY <1>10, <3>2 DEF Write
      <4>2. {w \in written : w[1] = entrypoint[h]} = {<<entrypoint[h], h>>}
        BY <2>3, <4>1
      <4>3. <<entrypoint[h], h>> \in written
        BY <4>2
      <4>4. entrypoint[h] # slot[t]
        BY <1>10, <4>3 DEF Write, Goto
      <4> QED
        BY <2>2, <4>1, <4>2, <4>4
    <3> QED
      BY <3>1, <3>2
  <2> QED
    BY <2>3
<1>11. CASE UNCHANGED poolVars
  BY <1>11 DEF poolVars
<1>12. QED
  BY <1>1, <1>2, <1>3, <1>4, <1>5, <1>6, <1>7, <1>8, <1>9, <1>10, <1>11 DEF PoolNext, PoolStep
-----------------------------------------------------------------------------
\* The invariant is inductive: no interleaving of the threads leaves it.
THEOREM Inductive == PoolSpec => []IInv
<1>1. IInv /\ [PoolNext]_poolVars => IInv'
  BY FlagStep, ReleaseStep, OversStep, TypeStep, CountStep, SlotStep,
     NewPageStep, OwnStep, Zenon DEF IInv
<1> QED
  BY InitInv, <1>1, PTL DEF PoolSpec

\* The state of GenerateTrampolineFor stays well typed.
THEOREM PoolTypes == PoolSpec => []TypeOK
<1>1. IInv => TypeOK
  BY DEF IInv
<1> QED
  BY Inductive, <1>1, PTL

\* For any number of threads, a hooked method always enters a trampoline that
\* loads its own hook.
THEOREM PoolOwnTrampoline == PoolSpec => []OwnTrampoline
<1>1. IInv => OwnTrampoline
  BY DEF IInv
<1> QED
  BY Inductive, <1>1, PTL

\* For any number of threads, GenerateTrampolineFor writes only inside pages
\* it mapped.
THEOREM PoolSlotInOwnPage == PoolSpec => []SlotInOwnPage
<1>1. IInv => SlotInOwnPage
  BY DEF IInv, SlotInv, Claimed, SlotInOwnPage
<1> QED
  BY Inductive, <1>1, PTL
=============================================================================
