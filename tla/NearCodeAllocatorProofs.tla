---------------------- MODULE NearCodeAllocatorProofs ----------------------
(***************************************************************************)
(* Blocks of NearCodeAllocator never overlap, for any number and size of   *)
(* pages, any request sizes and any behaviour of the rest of the process.  *)
(***************************************************************************)
EXTENDS NearCodeAllocator, TLAPS

\* Every LinearPage that was not taken from another is a page of its own that
\* the allocator mapped, and is among the regions an unfinished call has read.
PagesInv ==
  /\ \A i \in DOMAIN pages_ :
       pages_[i].base \notin replaced => owner[pages_[i].base] = "alloc"
  /\ \A i, j \in DOMAIN pages_ :
       pages_[i].base \notin replaced /\ pages_[i].base = pages_[j].base => i = j
  /\ call # None => \A i \in DOMAIN pages_ :
       pages_[i].base \notin replaced => pages_[i].base \in call.regions

\* A block of AllocNearCode lies in the used part of a LinearPage.
UsedInv ==
  \A b \in live : b.near # None =>
    \E i \in DOMAIN pages_ : pages_[i].base = b.page /\ b.off + b.size <= pages_[i].used

IdInv == \A b \in live : b.id < handed

IInv == TypeOK /\ PagesInv /\ UsedInv /\ IdInv /\ BlocksDisjoint /\ InOwnPage
-----------------------------------------------------------------------------
\* A page that is free, or was not among the regions the call read, is not a
\* LinearPage yet.
NewPage(p) == \A i \in DOMAIN pages_ : pages_[i].base \notin replaced => pages_[i].base # p

\* What a step that hands out the first units of a new page does.
FreshBlock(p, used, size, near) ==
  /\ p \in Pages /\ used \in 0..Capacity /\ size \in 1..Capacity
  /\ (near \in Nears /\ used = size) \/ near = None
  /\ Push(p, used)
  /\ HandOut(p, 0, size, near)

\* The leaves are for Zenon unless they say SMT.
USE Zenon

\* An element of a sequence over S is in S.
LEMMA SeqElement ==
  ASSUME NEW S, NEW s \in Seq(S), NEW k \in DOMAIN s
  PROVE  s[k] \in S
  BY SMT

\* LinearPages and blocks are at pages of the address space.
LEMMA InPages ==
  ASSUME IInv
  PROVE  /\ \A i \in DOMAIN pages_ : pages_[i].base \in Pages
         /\ \A b \in live : b.page \in Pages
<1>1. pages_ \in Seq([base : Pages, used : 0..Capacity])
  BY DEF IInv, TypeOK
<1>2. \A i \in DOMAIN pages_ : pages_[i] \in [base : Pages, used : 0..Capacity]
  BY <1>1, SeqElement
<1>3. \A b \in live : b.page \in Pages
  BY DEF IInv, TypeOK
<1> QED
  BY <1>2, <1>3

\* A new page keeps every conjunct.
LEMMA FreshBlockInv ==
  ASSUME IInv, NEW p, NEW used, NEW size, NEW near, NewPage(p),
         FreshBlock(p, used, size, near), call' \in {None, call}, call = None \/ call' = None
  PROVE  IInv'
<1> USE AllocatorAssumption DEF IInv
<1>1. TypeOK'
  <2>1. owner' \in [Pages -> {"free", "other", "alloc", "taken"}] /\ replaced' \subseteq Pages
    BY DEF FreshBlock, Push, TypeOK
  <2>2. pages_' \in Seq([base : Pages, used : 0..Capacity])
    BY SMT DEF FreshBlock, Push, TypeOK
  <2>3. /\ live' \subseteq [id : Nat, page : Pages, off : Nat, size : 1..Capacity,
                            near : Nears \union {None}]
        /\ handed' \in Nat
    BY SMT DEF FreshBlock, HandOut, TypeOK
  <2> QED
    BY <2>1, <2>2, <2>3 DEF TypeOK
<1> DEFINE n == Len(pages_)
           new == [id |-> handed, page |-> p, off |-> 0, size |-> size, near |-> near]
<1>2. /\ n \in Nat /\ DOMAIN pages_ = 1..n /\ DOMAIN pages_' = 1..n + 1
      /\ \A i \in 1..n : pages_'[i] = pages_[i]
      /\ pages_'[n + 1] = [base |-> p, used |-> used]
  BY SMT DEF FreshBlock, Push, TypeOK
<1>3. /\ p \in Pages /\ replaced \subseteq replaced'
      /\ \A q \in Pages : q \notin replaced' => owner'[q] = IF q = p THEN "alloc" ELSE owner[q]
  BY DEF FreshBlock, Push, TypeOK
<1>4. live' = live \union {new} /\ handed' = handed + 1
  BY DEF FreshBlock, HandOut
<1>5. \A b \in live : b.page # p \/ b.near = None \/ b.page \in replaced
  BY DEF UsedInv, NewPage
<1> HIDE DEF new, n
<1>6. PagesInv'
  <2>1. call' = None
    OBVIOUS
  <2>a. \A i \in 1..n : pages_[i].base \in Pages
    BY <1>2, InPages
  <2>b. pages_'[n + 1].base = p /\ n + 1 \notin 1..n
    BY <1>2, SMT
  <2>c. \A i \in DOMAIN pages_' : i \in 1..n \/ i = n + 1
    BY <1>2, SMT
  <2>2. \A i \in DOMAIN pages_' :
          pages_'[i].base \notin replaced' => owner'[pages_'[i].base] = "alloc"
    BY <1>2, <1>3, <2>a, <2>b, <2>c DEF PagesInv
  <2>3. \A i, j \in DOMAIN pages_' :
          pages_'[i].base \notin replaced' /\ pages_'[i].base = pages_'[j].base => i = j
    BY <1>2, <1>3, <2>b, <2>c DEF PagesInv, NewPage
  <2> QED
    BY <2>1, <2>2, <2>3 DEF PagesInv
<1>7. UsedInv'
  <2> SUFFICES ASSUME NEW b \in live', b.near # None
               PROVE  \E i \in DOMAIN pages_' :
                        pages_'[i].base = b.page /\ b.off + b.size <= pages_'[i].used
    BY DEF UsedInv
  <2>1. CASE b \in live
    BY <1>2, <2>1, SMT DEF UsedInv
  <2>2. CASE b = new
    <3>1. b.page = p /\ b.off = 0 /\ b.size = size /\ used = size
      BY <2>2 DEF new, FreshBlock
    <3> QED
      BY <3>1, <1>2, SMT DEF FreshBlock
  <2> QED
    BY <1>4, <2>1, <2>2
<1>8. IdInv'
  BY <1>4, SMT DEF IdInv, new, TypeOK
<1>9. BlocksDisjoint'
  <2>1. \A b \in live : b.near # None /\ b.page \notin replaced' =>
                          Disjoint(b, new) /\ Disjoint(new, b)
    BY <1>3, <1>5 DEF Disjoint, new
  <2>2. ASSUME NEW a \in live', NEW b \in live', a # b, a.near # None, b.near # None,
               a.page \notin replaced'
        PROVE  Disjoint(a, b)
    <3>1. CASE a \in live /\ b \in live
      BY <1>3, <2>2, <3>1 DEF BlocksDisjoint
    <3>2. CASE a = new /\ b \in live
      <4>1. CASE b.page = a.page
        BY <2>1, <2>2, <3>2, <4>1
      <4>2. CASE b.page # a.page
        BY <4>2 DEF Disjoint
      <4> QED
        BY <4>1, <4>2
    <3> QED
      BY <1>4, <2>1, <2>2, <3>1, <3>2
  <2> QED
    BY <2>2 DEF BlocksDisjoint
<1>10. InOwnPage'
  <2>1. new.page = p /\ new.off + new.size <= Capacity
    BY SMT DEF new, FreshBlock
  <2>2. \A b \in live : b.page \in Pages
    BY DEF TypeOK
  <2> QED
    BY <1>3, <1>4, <2>1, <2>2 DEF InOwnPage
<1> QED
  BY <1>1, <1>6, <1>7, <1>8, <1>9, <1>10

\* The block carved from an existing page lies above everything used in it.
LEMMA ExistingInv ==
  ASSUME IInv, NEW size \in Sizes, NEW near \in Nears, TryAllocFromExisting(size, near)
  PROVE  IInv'
<1> USE AllocatorAssumption DEF IInv
<1>1. PICK i \in DOMAIN pages_ :
        /\ Room(pages_[i], size)
        /\ pages_' = [pages_ EXCEPT ![i].used = @ + size]
        /\ HandOut(pages_[i].base, pages_[i].used, size, near)
  BY DEF TryAllocFromExisting, Advanced, Fits
<1> DEFINE lp == pages_[i]
           new == [id |-> handed, page |-> lp.base, off |-> lp.used, size |-> size,
                   near |-> near]
<1>a. lp \in [base : Pages, used : 0..Capacity]
  <2>1. pages_ \in Seq([base : Pages, used : 0..Capacity])
    BY DEF TypeOK
  <2> QED
    BY <2>1, SeqElement
<1>b. size \in 1..Capacity /\ Capacity - lp.used >= size
  BY <1>1 DEF Room
<1>2. /\ lp.base \in Pages /\ lp.used \in 0..Capacity
      /\ lp.used + size \in 0..Capacity /\ lp.used + size >= lp.used
  BY <1>a, <1>b, SMT
<1>3. live' = live \union {new} /\ handed' = handed + 1 /\ call' = None /\ call = None
      /\ owner' = owner /\ replaced' = replaced
  BY <1>1 DEF HandOut, TryAllocFromExisting, Advanced, maps
<1> DEFINE more == [base |-> lp.base, used |-> lp.used + size]
<1>c. pages_' = [pages_ EXCEPT ![i] = more] /\ more \in [base : Pages, used : 0..Capacity]
  <2>1. [lp EXCEPT !.used = @ + size] = more
    BY <1>a, SMT
  <2> QED
    BY <1>1, <1>2, <2>1
<1>d. more.base = lp.base /\ more.used = lp.used + size
  OBVIOUS
<1> HIDE DEF more
<1>4. /\ DOMAIN pages_' = DOMAIN pages_
      /\ pages_'[i] = more
      /\ \A j \in DOMAIN pages_ : j # i => pages_'[j] = pages_[j]
  BY <1>c DEF TypeOK
<1>e. \A j \in DOMAIN pages_ : pages_'[j].base = pages_[j].base
  BY <1>4, <1>d
<1>5. \A b \in live : b.near # None /\ b.page = lp.base /\ b.page \notin replaced =>
                        b.off + b.size <= lp.used
  BY DEF UsedInv, PagesInv
<1>6. TypeOK'
  <2>1. pages_' \in Seq([base : Pages, used : 0..Capacity])
    BY <1>c, SMT DEF TypeOK
  <2>2. new \in [id : Nat, page : Pages, off : Nat, size : 1..Capacity,
                 near : Nears \union {None}]
    BY <1>2, SMT DEF TypeOK
  <2> QED
    BY <1>3, <2>1, <2>2, SMT DEF TypeOK
<1> HIDE DEF new, lp
<1>7. PagesInv'
  BY <1>3, <1>4, <1>e DEF PagesInv
<1>8. UsedInv'
  <2> SUFFICES ASSUME NEW b \in live', b.near # None
               PROVE  \E j \in DOMAIN pages_' :
                        pages_'[j].base = b.page /\ b.off + b.size <= pages_'[j].used
    BY DEF UsedInv
  <2>1. CASE b \in live
    <3>1. PICK j \in DOMAIN pages_ : pages_[j].base = b.page /\ b.off + b.size <= pages_[j].used
      BY <2>1 DEF UsedInv
    <3>2. CASE j = i
      <4>1. b.off \in Nat /\ b.size \in Nat
        BY <2>1, SMT DEF TypeOK
      <4>2. b.off + b.size <= more.used
        BY <1>2, <1>d, <3>1, <3>2, <4>1, SMT DEF lp
      <4> QED
        BY <1>4, <1>d, <1>e, <3>1, <3>2, <4>2
    <3>3. CASE j # i
      BY <1>4, <3>1, <3>3
    <3> QED
      BY <3>2, <3>3
  <2>2. CASE b = new
    <3>1. b.page = lp.base /\ b.off + b.size = more.used
      BY <1>2, <1>d, <2>2 DEF new
    <3>2. more.used <= more.used
      BY <1>2, <1>d, SMT
    <3> QED
      BY <1>4, <1>d, <3>1, <3>2
  <2> QED
    BY <1>3, <2>1, <2>2
<1>9. IdInv'
  BY <1>3, SMT DEF IdInv, new, TypeOK
<1>10. BlocksDisjoint'
  <2>1. \A b \in live : b.near # None /\ b.page \notin replaced =>
                          Disjoint(b, new) /\ Disjoint(new, b)
    BY <1>5 DEF Disjoint, new
  <2>2. ASSUME NEW a \in live', NEW b \in live', a # b, a.near # None, b.near # None,
               a.page \notin replaced'
        PROVE  Disjoint(a, b)
    <3>1. CASE a \in live /\ b \in live
      BY <1>3, <2>2, <3>1 DEF BlocksDisjoint
    <3>2. CASE a = new /\ b \in live
      <4>1. CASE b.page = a.page
        BY <1>3, <2>1, <2>2, <3>2, <4>1
      <4>2. CASE b.page # a.page
        BY <4>2 DEF Disjoint
      <4> QED
        BY <4>1, <4>2
    <3> QED
      BY <1>3, <2>1, <2>2, <3>1, <3>2
  <2> QED
    BY <2>2 DEF BlocksDisjoint
<1>11. InOwnPage'
  BY <1>2, <1>3, SMT DEF InOwnPage, new, lp, PagesInv
<1> QED
  BY <1>6, <1>7, <1>8, <1>9, <1>10, <1>11

\* The allocator starts with no pages.
LEMMA InitInv == AllocInit => IInv
  BY AllocatorAssumption, SMT DEF AllocInit, IInv, TypeOK, PagesInv, UsedInv, IdInv,
     BlocksDisjoint, InOwnPage

\* A page that is mapped, or not a LinearPage: Free and Candidate pages are new.
LEMMA FreePageNew == \A p \in Pages : IInv /\ Free(p) => NewPage(p)
  BY DEF IInv, PagesInv, Free, NewPage

\* Tier 2 tries pages outside the regions it read.
LEMMA CandidateNew ==
  \A p \in Pages : IInv /\ call # None /\ Candidate(p) => NewPage(p)
<1> SUFFICES ASSUME NEW p \in Pages, IInv, call # None, Candidate(p)
             PROVE  NewPage(p)
  OBVIOUS
<1>1. p \notin call.regions
  <2>1. CASE p \in Gaps
    BY <2>1 DEF Gaps
  <2>2. CASE \A q \in call.regions : p < q
    BY <2>2, SMT DEF IInv, TypeOK, Pages
  <2> QED
    BY <2>1, <2>2 DEF Candidate
<1> QED
  BY <1>1 DEF IInv, PagesInv, NewPage

\* No step of the allocator, its users or the rest of the process leaves the
\* invariant.
LEMMA NextInv == IInv /\ [AllocNext]_allocVars => IInv'
<1> SUFFICES ASSUME IInv, [AllocNext]_allocVars PROVE IInv'
  OBVIOUS
<1> USE AllocatorAssumption
<1>1. ASSUME NEW size \in Sizes, NEW near \in Nears, TryAllocFromExisting(size, near)
      PROVE  IInv'
  BY <1>1, ExistingInv
<1>2. ASSUME NEW size \in Sizes, NEW near \in Nears, ParseMaps(size, near)
      PROVE  IInv'
  <2>1. TypeOK'
    BY <1>2 DEF ParseMaps, maps, IInv, TypeOK
  <2>2. PagesInv'
    <3>1. \A i \in DOMAIN pages_ : pages_[i].base \in Pages
      BY InPages
    <3> QED
      BY <1>2, <3>1 DEF ParseMaps, maps, IInv, PagesInv
  <2> QED
    BY <1>2, <2>1, <2>2 DEF ParseMaps, maps, IInv, UsedInv, IdInv, BlocksDisjoint, InOwnPage
<1>3. CASE TryAllocInGap
  <2>1. PICK p \in Pages : /\ Candidate(p) /\ Push(p, call.size)
                           /\ HandOut(p, 0, call.size, call.near)
                           /\ call # None /\ call' = None
    BY <1>3 DEF TryAllocInGap
  <2>2. call.size \in 1..Capacity /\ call.near \in Nears
    BY <2>1 DEF IInv, TypeOK
  <2>3. FreshBlock(p, call.size, call.size, call.near)
    BY <2>1, <2>2, SMT DEF FreshBlock
  <2>4. NewPage(p)
    BY <2>1, CandidateNew
  <2> QED
    BY <2>1, <2>3, <2>4, FreshBlockInv
<1>4. CASE AllocAnywhere
  <2>1. PICK p \in Pages : /\ Free(p) /\ Push(p, call.size)
                           /\ HandOut(p, 0, call.size, call.near)
                           /\ call # None /\ call' = None
    BY <1>4 DEF AllocAnywhere
  <2>2. call.size \in 1..Capacity /\ call.near \in Nears
    BY <2>1 DEF IInv, TypeOK
  <2>3. FreshBlock(p, call.size, call.size, call.near)
    BY <2>1, <2>2, SMT DEF FreshBlock
  <2>4. NewPage(p)
    BY <2>1, FreePageNew
  <2> QED
    BY <2>1, <2>3, <2>4, FreshBlockInv
<1>5. CASE AllocStub
  <2>1. PICK p \in Pages : /\ Free(p) /\ Push(p, 0)
                           /\ HandOut(p, 0, StubSize, None)
                           /\ call = None /\ call' = call
    BY <1>5 DEF AllocStub
  <2>2. FreshBlock(p, 0, StubSize, None)
    BY <2>1, SMT DEF FreshBlock
  <2>3. NewPage(p)
    BY <2>1, FreePageNew
  <2> QED
    BY <2>1, <2>2, <2>3, FreshBlockInv
<1>6. CASE AllocFixedPageFails
  <2>1. TypeOK'
    <3>1. PICK p \in Pages : call' = [call EXCEPT !.tried = @ \union {p}]
      BY <1>6 DEF AllocFixedPageFails
    <3>2. call \in [size : Sizes, near : Nears, tried : SUBSET Pages, regions : SUBSET Pages]
      BY <1>6 DEF AllocFixedPageFails, IInv, TypeOK
    <3>3. call' \in [size : Sizes, near : Nears, tried : SUBSET Pages, regions : SUBSET Pages]
      BY <3>1, <3>2, SMT
    <3> QED
      BY <1>6, <3>3 DEF AllocFixedPageFails, maps, IInv, TypeOK
  <2>2. PagesInv'
    BY <1>6 DEF AllocFixedPageFails, maps, IInv, PagesInv, TypeOK
  <2> QED
    BY <1>6, <2>1, <2>2 DEF AllocFixedPageFails, maps, IInv, UsedInv, IdInv,
       BlocksDisjoint, InOwnPage
<1>7. CASE AllocFails
  BY <1>7 DEF AllocFails, maps, IInv, TypeOK, PagesInv, UsedInv, IdInv, BlocksDisjoint,
     InOwnPage
<1>8. CASE StubReturns
  BY <1>8 DEF StubReturns, maps, IInv, TypeOK, PagesInv, UsedInv, IdInv, BlocksDisjoint,
     InOwnPage
<1>9. ASSUME NEW p \in Pages, Mmap(p) \/ Munmap(p) PROVE IInv'
  <2>1. owner[p] # "alloc" /\ UNCHANGED <<replaced, pages_, live, handed, call>>
    BY <1>9 DEF Mmap, Munmap, Free
  <2>2. owner' \in [Pages -> {"free", "other", "alloc", "taken"}]
        /\ \A q \in Pages : owner[q] = "alloc" => owner'[q] = "alloc"
    BY <1>9, <2>1 DEF Mmap, Munmap, IInv, TypeOK
  <2>3. (\A i \in DOMAIN pages_ : pages_[i].base \in Pages) /\ \A b \in live : b.page \in Pages
    BY InPages
  <2>4. TypeOK' /\ UsedInv' /\ IdInv' /\ BlocksDisjoint'
    BY <2>1, <2>2 DEF IInv, TypeOK, UsedInv, IdInv, BlocksDisjoint
  <2>5. PagesInv' /\ InOwnPage'
    BY <2>1, <2>2, <2>3 DEF IInv, PagesInv, InOwnPage
  <2> QED
    BY <2>4, <2>5 DEF IInv
<1>10. CASE UNCHANGED allocVars
  BY <1>10 DEF allocVars, IInv, TypeOK, PagesInv, UsedInv, IdInv, BlocksDisjoint, InOwnPage
<1> QED
  BY <1>1, <1>2, <1>3, <1>4, <1>5, <1>6, <1>7, <1>8, <1>9, <1>10 DEF AllocNext
-----------------------------------------------------------------------------
\* The invariant holds in every reachable state.
THEOREM Inductive == AllocSpec => []IInv
  BY InitInv, NextInv, PTL DEF AllocSpec

\* AllocNearCode keeps its bookkeeping well typed; no page is used beyond its
\* capacity.
THEOREM AllocatorTypes == AllocSpec => []TypeOK
<1>1. IInv => TypeOK
  BY DEF IInv
<1> QED
  BY Inductive, <1>1, PTL

\* AllocNearCode never hands out a byte twice, but in pages it took from others.
THEOREM AllocatorBlocksDisjoint == AllocSpec => []BlocksDisjoint
<1>1. IInv => BlocksDisjoint
  BY DEF IInv
<1> QED
  BY Inductive, <1>1, PTL

\* Every block lies inside a page that stays the allocator's, unless a mapping
\* of another was replaced there.
THEOREM AllocatorInOwnPage == AllocSpec => []InOwnPage
<1>1. IInv => InOwnPage
  BY DEF IInv
<1> QED
  BY Inductive, <1>1, PTL
=============================================================================
