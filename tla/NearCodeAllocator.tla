------------------------- MODULE NearCodeAllocator -------------------------
(***************************************************************************)
(* NearCodeAllocator (memory_allocator.cpp) and its users: HookInstall and *)
(* the Interceptor take blocks with AllocNearCode, NativeFunction calls    *)
(* and NativeCallbacks take a page with AllocPage for a stub.  The rest of *)
(* the process maps and unmaps pages meanwhile.                            *)
(*                                                                         *)
(* Addresses and sizes are in units of 8 bytes, to which AllocNearCode     *)
(* rounds; page p holds the addresses p*Capacity .. p*Capacity+Capacity-1. *)
(* The users hold the lock of JSScope or run before any script, so one     *)
(* call runs at a time.                                                    *)
(***************************************************************************)
EXTENDS Common, Integers, Sequences

CONSTANTS
  NumPages,   \* pages of the address space; page 0 cannot be mapped
  Capacity,   \* units in a page
  Sizes,      \* sizes asked of AllocNearCode
  Nears,      \* near_addr arguments
  NearRange,  \* range argument, kMaxBRange
  StubSize,   \* size of a NativeFunction or NativeCallback stub
  Libraries,  \* pages mapped at the start, never unmapped
  MaxHanded   \* bound: blocks handed out

ASSUME AllocatorAssumption ==
  /\ NumPages \in Nat /\ Capacity \in Nat \ {0} /\ NearRange \in Nat
  /\ StubSize \in 1..Capacity /\ Sizes \subseteq 1..Capacity
  /\ Nears \subseteq Nat /\ Libraries \subseteq 1..NumPages - 1

VARIABLES
  owner,     \* who mapped each page: "free", "other", "alloc", or "taken" by
             \* the allocator while another still holds it for its own
  replaced,  \* history: the pages at which a mapping of another was replaced
  pages_,    \* the LinearPages: base page and units used
  live,      \* blocks in use: page, offset in it, size and near_addr
  handed,    \* how many blocks were handed out
  call       \* the AllocNearCode call between ParseMaps and its mmap calls

maps == <<owner, replaced>>
allocVars == <<owner, replaced, pages_, live, handed, call>>

Pages == 0..NumPages - 1
Free(p) == owner[p] = "free" /\ p # 0

Lo(near) == IF near > NearRange THEN near - NearRange ELSE 0
InRange(addr, near) == addr >= Lo(near) /\ addr <= near + NearRange

AllocInit ==
  /\ owner = [p \in Pages |-> IF p \in Libraries THEN "other" ELSE "free"]
  /\ replaced = {}
  /\ pages_ = <<>>
  /\ live = {}
  /\ handed = 0
  /\ call = None

\* A block is handed out; near is None for a stub.
HandOut(page, off, size, near) ==
  /\ handed < MaxHanded
  /\ handed' = handed + 1
  /\ live' = live \union {[id |-> handed, page |-> page, off |-> off,
                           size |-> size, near |-> near]}

\* A page is mapped, whatever was there, and listed.
Push(p, used) ==
  /\ owner' = [owner EXCEPT ![p] = IF @ = "other" THEN "taken" ELSE "alloc"]
  /\ replaced' = IF owner[p] = "other" THEN replaced \union {p} ELSE replaced
  /\ pages_' = Append(pages_, [base |-> p, used |-> used])
-----------------------------------------------------------------------------
\* Mutation: the remaining room is not compared with the size.
AnyRoom(lp, size) == lp.used < Capacity

Room(lp, size) == Capacity - lp.used >= size
AllocAddr(lp) == lp.base * Capacity + lp.used

Fits(size, near) ==
  {i \in DOMAIN pages_ : Room(pages_[i], size) /\ InRange(AllocAddr(pages_[i]), near)}

\* Mutation: the page's used count is not advanced.
Unadvanced(used, size) == used

Advanced(used, size) == used + size

\* Tier 1: the first LinearPage with room whose free part starts in range.
TryAllocFromExisting(size, near) ==
  /\ call = None
  /\ \E i \in Fits(size, near) :
       /\ \A j \in Fits(size, near) : i <= j
       /\ pages_' = [pages_ EXCEPT ![i].used = Advanced(@, size)]
       /\ HandOut(pages_[i].base, pages_[i].used, size, near)
  /\ UNCHANGED <<maps, call>>

\* Tier 2 reads /proc/self/maps.
ParseMaps(size, near) ==
  /\ call = None /\ handed < MaxHanded
  /\ Fits(size, near) = {}
  /\ call' = [size |-> size, near |-> near, tried |-> {},
              regions |-> {p \in Pages : owner[p] # "free"}]
  /\ UNCHANGED <<maps, pages_, live, handed>>

\* The first page of every gap between two regions, when it is in range.
Gaps ==
  {p \in Pages : /\ p \notin call.regions /\ p - 1 \in call.regions
                 /\ \E q \in call.regions : q > p
                 /\ InRange(p * Capacity, call.near)}

\* The page tier 2 tries next: the gaps in ascending order, then the lowest
\* page in range when it lies before the first region.
Candidate(p) ==
  \/ /\ p \in Gaps \ call.tried
     /\ \A q \in Gaps \ call.tried : p <= q
  \/ /\ Gaps \subseteq call.tried
     /\ p = (Lo(call.near) + Capacity - 1) \div Capacity
     /\ p \notin call.tried
     /\ \A q \in call.regions : p < q

NoCandidate == \A p \in Pages : ~Candidate(p)

\* AllocFixedPage: MAP_FIXED_NOREPLACE, and MAP_FIXED when that fails, so a
\* page that another mapped since ParseMaps is taken from it.
TryAllocInGap ==
  /\ call # None
  /\ \E p \in Pages \ {0} :
       /\ Candidate(p)
       /\ Push(p, call.size)
       /\ HandOut(p, 0, call.size, call.near)
  /\ call' = None

\* Both mmap calls fail: the next candidate.
AllocFixedPageFails ==
  /\ call # None
  /\ \E p \in Pages : Candidate(p) /\ call' = [call EXCEPT !.tried = @ \union {p}]
  /\ UNCHANGED <<maps, pages_, live, handed>>

\* Tier 3: a page anywhere.
AllocAnywhere ==
  /\ call # None /\ NoCandidate
  /\ \E p \in Pages :
       /\ Free(p)
       /\ Push(p, call.size)
       /\ HandOut(p, 0, call.size, call.near)
  /\ call' = None

\* mmap fails: nullptr.
AllocFails ==
  /\ call # None /\ NoCandidate
  /\ call' = None
  /\ UNCHANGED <<maps, pages_, live, handed>>
-----------------------------------------------------------------------------
\* marshal_and_call and generate_callback_stub: AllocPage leaves used = 0.
AllocStub ==
  /\ call = None
  /\ \E p \in Pages :
       /\ Free(p)
       /\ Push(p, 0)
       /\ HandOut(p, 0, StubSize, None)
  /\ UNCHANGED call

\* A NativeFunction call returns and its stub is never entered again.
StubReturns ==
  /\ call = None
  /\ \E b \in live : b.near = None /\ live' = live \ {b}
  /\ UNCHANGED <<maps, pages_, handed, call>>

\* The rest of the process.
Mmap(p) ==
  /\ Free(p)
  /\ owner' = [owner EXCEPT ![p] = "other"]
  /\ UNCHANGED <<replaced, pages_, live, handed, call>>

\* It unmaps what it mapped, also a page that was taken from it.
Munmap(p) ==
  /\ owner[p] \in {"other", "taken"} /\ p \notin Libraries
  /\ owner' = [owner EXCEPT ![p] = "free"]
  /\ UNCHANGED <<replaced, pages_, live, handed, call>>

AllocNext ==
  \/ \E size \in Sizes, near \in Nears :
       TryAllocFromExisting(size, near) \/ ParseMaps(size, near)
  \/ TryAllocInGap \/ AllocFixedPageFails \/ AllocAnywhere \/ AllocFails
  \/ AllocStub \/ StubReturns
  \/ \E p \in Pages : Mmap(p) \/ Munmap(p)

AllocSpec == AllocInit /\ [][AllocNext]_allocVars
-----------------------------------------------------------------------------
TypeOK ==
  /\ owner \in [Pages -> {"free", "other", "alloc", "taken"}]
  /\ replaced \subseteq Pages
  /\ pages_ \in Seq([base : Pages, used : 0..Capacity])
  /\ live \subseteq [id : Nat, page : Pages, off : Nat, size : 1..Capacity,
                     near : Nears \union {None}]
  /\ handed \in Nat
  /\ call = None \/ call \in [size : Sizes, near : Nears, tried : SUBSET Pages,
                              regions : SUBSET Pages]

Disjoint(a, b) ==
  a.page # b.page \/ a.off + a.size <= b.off \/ b.off + b.size <= a.off

\* No byte is handed out twice by AllocNearCode: relocated functions and
\* Interceptor trampolines do not overlap, whatever is mapped meanwhile.  At a
\* page taken from another, which may unmap it, that is not so.
BlocksDisjoint ==
  \A a, b \in live :
    a # b /\ a.near # None /\ b.near # None /\ a.page \notin replaced => Disjoint(a, b)

\* A block in use lies inside its page and the page stays the allocator's: only
\* where a mapping of another was replaced can the rest of the process unmap it.
InOwnPage ==
  \A b \in live : /\ b.off + b.size <= Capacity
                  /\ b.page \notin replaced => owner[b.page] = "alloc"

\* Tier 2 maps its page in a gap between mappings (memory_allocator.h: "Parse
\* /proc/self/maps for gaps between mappings, mmap in gap"): it takes no page
\* from another.
GapsOnly == replaced = {}
=============================================================================
