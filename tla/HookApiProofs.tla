--------------------------- MODULE HookApiProofs ---------------------------
(***************************************************************************)
(* HookInstall and HookUninstall keep code, registry and trampolines in    *)
(* agreement, and implement HookTable, for any functions, replacements,    *)
(* page size and reach of the jumps, and any number of threads that run    *)
(* the functions meanwhile.                                                *)
(***************************************************************************)
EXTENDS HookApiSerial, TLAPS

\* The words that the jump of an entry, or of a call at work, takes.
Size(e)    == JumpSize(e.target, e.replace)
Region(e)  == e.target .. e.target + Size(e) - 1
Jump(e, w) == <<"jump", e.replace, Size(e), w - e.target + 1>>

Trampoline(t, n) == [words |-> OrigWords(t, n), back |-> t + n]
Empty   == [words |-> <<>>, back |-> None]
Blocks  == {Empty} \cup {Trampoline(t, JumpSize(t, r)) : t \in Targets, r \in Replaces}
Entries == {[target |-> t, replace |-> r, saved |-> OrigWords(t, JumpSize(t, r)),
             blk |-> b, active |-> a] :
              t \in Targets, r \in Replaces, b \in 1..MaxBlocks, a \in BOOLEAN}

\* The block is the whole trampoline of the function.
Whole(b, t) ==
  b \in DOMAIN blocks /\ \E r \in Replaces : blocks[b] = Trampoline(t, JumpSize(t, r))

\* The places of a call at work on a function that is not registered.
Work == {"begin", "copy", "end", "protect", "patch", "unprotect", "add"}
Pcs  == Work \cup {"idle", "publish"}

Types ==
  /\ DOMAIN code = Words /\ perm \in [{PageOf(w) : w \in Words} -> {"RX", "RWX"}]
  /\ blocks \in Seq(Blocks) /\ entries_ \in Seq(Entries)
  /\ orig \in [Targets -> (1..MaxBlocks) \cup {None}]
  /\ pc \in [Callers -> Pcs] /\ DOMAIN loc = Callers /\ DOMAIN run = Runners

IsLoc(l) ==
  l = [target |-> l.target, replace |-> l.replace, blk |-> l.blk, patch |-> l.patch,
       saved |-> l.saved, op |-> l.op, i |-> l.i]

\* What a call at work holds in its locals.
Locals(c) ==
  LET l == loc[c] IN
  pc[c] # "idle" =>
    /\ IsLoc(l) /\ l.target \in Targets /\ l.replace \in Replaces
    /\ l.blk \in 1..MaxBlocks /\ l.op \in {"install", "uninstall"}
    /\ l.patch = IF l.op = "uninstall" THEN OrigWords(l.target, Size(l))
                 ELSE BuildJumpPatch(l.target, l.replace)
    /\ pc[c] # "begin" => l.saved = OrigWords(l.target, Size(l))
    /\ l.op = "uninstall" => pc[c] \in {"protect", "patch", "unprotect"} /\ orig[l.target] # None
    /\ pc[c] \in {"begin", "copy", "end", "protect"} => l.i = 1
    /\ pc[c] = "patch" => l.i \in 1..Size(l)
    /\ pc[c] \in {"unprotect", "add", "publish"} => l.i = Size(l) + 1

\* The block of HookInstall is its own until it is the whole trampoline.
OwnBlock(c) ==
  pc[c] # "idle" /\ loc[c].op = "install" =>
    /\ pc[c] \in {"begin", "copy"} => loc[c].blk \in DOMAIN blocks /\ blocks[loc[c].blk] = Empty
    /\ pc[c] \notin {"begin", "copy"} /\ fault # "block" => Whole(loc[c].blk, loc[c].target)

Trampolines == \A t \in Targets : orig[t] # None => Whole(orig[t], t)

\* A function is registered once, and not while a call is at work on it.
Registry ==
  /\ \A i, j \in DOMAIN entries_ : entries_[i].target = entries_[j].target => i = j
  /\ \A c \in Callers : pc[c] \in Work =>
       \A i \in DOMAIN entries_ : entries_[i].target # loc[c].target
  /\ \A i \in DOMAIN entries_ :
       \/ orig[entries_[i].target] # None
       \/ \E c \in Callers : pc[c] = "publish" /\ loc[c].target = entries_[i].target

\* A call at work has copied the first words of its patch: the others are the
\* original ones when it installs and those of the jump when it removes.
AtWork(c) ==
  pc[c] \in Work =>
    \A w \in Region(loc[c]) :
      code[w] = IF w < loc[c].target + loc[c].i - 1 <=> loc[c].op = "uninstall" THEN Orig(w)
                ELSE Jump(loc[c], w)

CodeInv ==
  /\ \A i \in DOMAIN entries_ : \A w \in Region(entries_[i]) : code[w] = Jump(entries_[i], w)
  /\ \A c \in Callers : AtWork(c)
  /\ \A w \in Words :
       \/ code[w] = Orig(w)
       \/ \E i \in DOMAIN entries_ : w \in Region(entries_[i])
       \/ \E c \in Callers : pc[c] \in Work /\ w \in Region(loc[c])

\* PatchCode writes to writable pages.
Writable ==
  \A c \in Callers : pc[c] = "patch" => \A w \in Region(loc[c]) : perm[PageOf(w)] = "RWX"

\* A jump of the function was whole: *orig_func is assigned, or about to be.
Reached(t) ==
  \/ orig[t] # None
  \/ \E c \in Callers : /\ pc[c] \in {"unprotect", "add", "publish"}
                        /\ loc[c].target = t /\ loc[c].op = "install"

IsRun(r) == r = [fn |-> r.fn, at |-> r.at, next |-> r.next, x17 |-> r.x17]

\* A thread in the code of a function is at the word it has to run next, or
\* in the middle of a jump from its first word; in a trampoline, at the
\* relocated copy of that word; in a replacement, it came from the first word.
Running(r) ==
  /\ IsRun(r) /\ r.fn \in Targets /\ r.next \in r.fn .. r.fn + Length[r.fn] - 1
  /\ \/ r.at = <<"code", r.next>> /\ r.x17 = None
     \/ \E q \in Replaces : \E k \in 1..JumpSize(r.fn, q) - 1 :
          /\ r.at = <<"code", r.fn + k>> /\ r.next = r.fn
          /\ r.x17 = <<"jump", q, JumpSize(r.fn, q), k>>
          /\ JumpSize(r.fn, q) = 4 => Reached(r.fn)
     \/ \E b \in DOMAIN blocks : \E i \in 1..Len(blocks[b].words) :
          /\ r.at = <<"block", b, i>> /\ Whole(b, r.fn)
          /\ r.next = r.fn + i - 1 /\ r.x17 = None
     \/ \E q \in Replaces : r.at = <<"replace", q>> /\ r.next = r.fn /\ Reached(r.fn)

Runs == \A x \in Runners : run[x] = None \/ Running(run[x])

IInv ==
  /\ Types /\ \A c \in Callers : Locals(c) /\ OwnBlock(c)
  /\ Trampolines /\ Registry /\ CodeInv /\ Writable /\ Runs
  /\ NoPatchFault /\ NullOnlyInInstall /\ TornOnlyByLongPatch
-----------------------------------------------------------------------------
(* Facts about jumps, functions, entries and sequences *)

\* The leaves are for Zenon unless they say SMT.
USE Zenon

\* A jump takes one, three or four words.
LEMMA Sizes == \A t, r : JumpSize(t, r) \in {1, 3, 4}
  BY DEF JumpSize

\* The patch of a jump has its size; so have the words saved for it.
LEMMA Patches ==
  ASSUME NEW t \in Targets, NEW r \in Replaces
  PROVE  /\ Len(BuildJumpPatch(t, r)) = JumpSize(t, r)
         /\ Len(OrigWords(t, JumpSize(t, r))) = JumpSize(t, r)
         /\ \A k \in 1..JumpSize(t, r) :
              /\ BuildJumpPatch(t, r)[k] = <<"jump", r, JumpSize(t, r), k>>
              /\ OrigWords(t, JumpSize(t, r))[k] = Orig(t + k - 1)
  BY Sizes, SMT DEF BuildJumpPatch, OrigWords

\* Division by the words of a page.
LEMMA DivMod ==
  ASSUME NEW x \in Nat
  PROVE  /\ x \div PageWords \in Nat /\ x % PageWords \in 0..PageWords - 1
         /\ x = ((x \div PageWords) * PageWords) + (x % PageWords)
  BY HookAssumption, SMT

\* A page that starts before the end of another starts at or before it.
LEMMA PageStarts ==
  ASSUME NEW q \in Nat, NEW r \in Nat, q * PageWords < (r * PageWords) + PageWords
  PROVE  q * PageWords <= r * PageWords
<1> USE HookAssumption
<1>1. q <= r
  <2> SUFFICES ASSUME q > r PROVE FALSE
    BY SMT
  <2>1. PICK d \in Nat : q = r + 1 + d
    <3>1. q - (r + 1) \in Nat /\ q = r + 1 + (q - (r + 1))
      BY SMT
    <3> QED
      BY <3>1
  <2>2. q * PageWords = (r * PageWords) + PageWords + (d * PageWords) /\ d * PageWords \in Nat
    BY <2>1, SMT
  <2> QED
    BY <2>2, SMT
<1>2. PICK d \in Nat : r = q + d
  <2>1. r - q \in Nat /\ r = q + (r - q)
    BY <1>1, SMT
  <2> QED
    BY <2>1
<1>3. r * PageWords = (q * PageWords) + (d * PageWords) /\ d * PageWords \in Nat
  BY <1>2, SMT
<1> QED
  BY <1>3, SMT

\* The rounding of MakeMemoryRWX reaches the page of every word of a range.
LEMMA PagesCovered ==
  ASSUME NEW addr \in Nat, NEW size \in Nat, NEW w \in addr .. addr + size - 1
  PROVE  /\ PageOf(w) * PageWords >= PageAlign(addr)
         /\ PageOf(w) * PageWords < PageAlign(addr) + Total(addr, size)
<1> USE HookAssumption
<1> DEFINE end == addr + size + PageWords - 1
<1>1. w \in Nat /\ end \in Nat /\ addr <= w /\ w + PageWords <= end
  BY SMT
<1>2. ASSUME NEW n \in Nat
      PROVE  \E d, r \in Nat : /\ d = n \div PageWords /\ r = n % PageWords
                               /\ n = (d * PageWords) + r /\ r < PageWords
  <2>1. n % PageWords \in Nat /\ n % PageWords < PageWords
    BY DivMod, SMT
  <2> QED
    BY <2>1, DivMod
<1>a. PICK a, p \in Nat : /\ a = addr \div PageWords /\ p = addr % PageWords
                          /\ addr = (a * PageWords) + p /\ p < PageWords
  BY <1>2
<1>b. PICK b, q \in Nat : /\ b = w \div PageWords /\ q = w % PageWords
                          /\ w = (b * PageWords) + q /\ q < PageWords
  BY <1>1, <1>2
<1>c. PICK x, y \in Nat : /\ x = end \div PageWords /\ y = end % PageWords
                          /\ end = (x * PageWords) + y /\ y < PageWords
  BY <1>1, <1>2
<1>3. /\ PageAlign(addr) = a * PageWords /\ PageOf(w) = b
      /\ PageAlign(addr) + Total(addr, size) = x * PageWords
  <2>1. a * PageWords \in Nat /\ x * PageWords \in Nat
    BY SMT
  <2> QED
    BY <1>a, <1>b, <1>c, <2>1, SMT DEF PageAlign, Total, PageOf
<1>4. a * PageWords <= b * PageWords
  <2>1. a * PageWords < (b * PageWords) + PageWords
    BY <1>1, <1>a, <1>b, <1>c, SMT
  <2> QED
    BY <2>1, PageStarts
<1>5. b * PageWords < x * PageWords
  BY <1>1, <1>a, <1>b, <1>c, SMT
<1> QED
  BY <1>3, <1>4, <1>5, SMT

\* The patch of a function lies in its code, and functions do not overlap.
LEMMA Apart ==
  ASSUME NEW t \in Targets, NEW r \in Replaces
  PROVE  /\ t \in Nat /\ JumpSize(t, r) \in {1, 3, 4} /\ JumpSize(t, r) <= Length[t]
         /\ t .. t + Length[t] - 1 \subseteq Words
         /\ t .. t + JumpSize(t, r) - 1 \subseteq t .. t + Length[t] - 1
         /\ \A u \in Targets : u # t =>
              \A w \in t .. t + JumpSize(t, r) - 1 : w \notin u .. u + Length[u] - 1
<1>1. t \in Nat /\ Length[t] \in Nat /\ JumpSize(t, r) \in {1, 3, 4}
  BY HookAssumption, Sizes, SMT DEF Words
<1>2. JumpSize(t, r) <= Length[t] /\ t + Length[t] <= NumWords
  BY PatchFits
<1>3. ASSUME NEW u \in Targets, u # t, NEW w \in t .. t + JumpSize(t, r) - 1
      PROVE  w \notin u .. u + Length[u] - 1
  <2>1. u \in Nat /\ Length[u] \in Nat
    BY HookAssumption, SMT DEF Words
  <2>2. t + Length[t] <= u \/ u + Length[u] <= t
    BY <1>1, <1>3, <2>1, PatchFits, SMT
  <2> QED
    BY <1>1, <1>2, <2>1, <2>2, SMT
<1> QED
  BY <1>1, <1>2, <1>3, HookAssumption, SMT DEF Words

\* The regions of two functions have no word in common.
LEMMA Disjoint ==
  ASSUME NEW d, NEW e, d.target \in Targets, d.replace \in Replaces,
         e.target \in Targets, e.replace \in Replaces, d.target # e.target
  PROVE  \A w \in Region(d) : w \notin Region(e)
  BY Apart DEF Region, Size

\* What an entry of the registry is.
LEMMA EntryIs ==
  ASSUME NEW e \in Entries
  PROVE  /\ e.target \in Targets /\ e.replace \in Replaces /\ e.blk \in 1..MaxBlocks
         /\ e.saved = OrigWords(e.target, Size(e)) /\ e.active \in BOOLEAN
  BY SMT DEF Entries, Size

\* Append and erase on a vector.
LEMMA Appended ==
  ASSUME NEW S, NEW s \in Seq(S), NEW e \in S
  PROVE  /\ Append(s, e) \in Seq(S) /\ Len(Append(s, e)) = Len(s) + 1
         /\ DOMAIN Append(s, e) = 1..Len(s) + 1 /\ DOMAIN s = 1..Len(s) /\ Len(s) \in Nat
         /\ \A i \in 1..Len(s) : Append(s, e)[i] = s[i]
         /\ Append(s, e)[Len(s) + 1] = e
  BY SMT

LEMMA Replaced ==
  ASSUME NEW S, NEW s \in Seq(S), NEW i \in 1..Len(s), NEW e \in S
  PROVE  /\ [s EXCEPT ![i] = e] \in Seq(S) /\ DOMAIN [s EXCEPT ![i] = e] = DOMAIN s
         /\ \A j \in DOMAIN s : [s EXCEPT ![i] = e][j] = IF j = i THEN e ELSE s[j]
  BY SMT

LEMMA Erased ==
  ASSUME NEW s \in Seq(Entries), NEW i \in 1..Len(s)
  PROVE  /\ Erase(s, i) \in Seq(Entries) /\ DOMAIN Erase(s, i) = 1..Len(s) - 1
         /\ \A j \in 1..Len(s) - 1 : Erase(s, i)[j] = s[IF j < i THEN j ELSE j + 1]
         /\ \A j \in 1..Len(s) : j # i =>
              \E k \in 1..Len(s) - 1 : Erase(s, i)[k] = s[j]
<1>1. /\ Erase(s, i) \in Seq(Entries) /\ DOMAIN Erase(s, i) = 1..Len(s) - 1
      /\ \A j \in 1..Len(s) - 1 : Erase(s, i)[j] = s[IF j < i THEN j ELSE j + 1]
  BY SMT DEF Erase
<1>2. ASSUME NEW j \in 1..Len(s), j # i
      PROVE  \E k \in 1..Len(s) - 1 : Erase(s, i)[k] = s[j]
  <2>1. CASE j < i
    BY <1>1, <2>1, SMT
  <2>2. CASE j > i
    <3>1. j - 1 \in 1..Len(s) - 1 /\ ~(j - 1 < i) /\ j - 1 + 1 = j
      BY <2>2, SMT
    <3> QED
      BY <1>1, <3>1
  <2> QED
    BY <1>2, <2>1, <2>2, SMT
<1> QED
  BY <1>1, <1>2

\* HookRegistry::Find finds the one entry of the function if there is one.
LEMMA Found ==
  ASSUME NEW t, entries_ \in Seq(Entries),
         \A i, j \in DOMAIN entries_ : entries_[i].target = entries_[j].target => i = j
  PROVE  /\ Find(t) = 0 => \A i \in DOMAIN entries_ : entries_[i].target # t
         /\ Find(t) # 0 => Find(t) \in 1..Len(entries_) /\ entries_[Find(t)].target = t
<1> DEFINE found == {i \in DOMAIN entries_ : entries_[i].target = t}
<1>1. found \subseteq Nat \ {0} /\ DOMAIN entries_ = 1..Len(entries_)
  BY SMT
<1>2. CASE found = {}
  BY <1>2 DEF Find
<1>3. CASE found # {}
  <2>1. \E i \in found : \A j \in found : i <= j
    BY <1>1, <1>3, SMT
  <2>2. Find(t) \in found
    BY <1>3, <2>1 DEF Find
  <2> QED
    BY <1>1, <2>2
<1> QED
  BY <1>2, <1>3
-----------------------------------------------------------------------------
(* What steps leave alone *)

\* The initial state: nothing hooked, nobody at work, nobody running.
LEMMA InitIInv == Init => IInv
<1> SUFFICES ASSUME Init PROVE IInv
  OBVIOUS
<1>1. Types
  BY HookAssumption, SMT DEF Init, Types, Pcs, Work
<1>2. \A c \in Callers : pc[c] = "idle"
  BY DEF Init
<1>3. Registry /\ CodeInv /\ Trampolines /\ Runs
  BY <1>2, SMT DEF Init, Registry, CodeInv, Trampolines, Runs, AtWork, Work
<1>4. NoPatchFault /\ NullOnlyInInstall /\ TornOnlyByLongPatch
  BY DEF Init, NoPatchFault, NullOnlyInInstall, TornOnlyByLongPatch
<1> QED
  BY <1>1, <1>2, <1>3, <1>4 DEF IInv, Locals, OwnBlock, Writable

\* A step of a call ends the process only in the memcpy after BeginWrite.
LEMMA Faults ==
  ASSUME fault' \in {"none", "block"}
  PROVE  NoPatchFault' /\ NullOnlyInInstall' /\ TornOnlyByLongPatch'
  BY DEF NoPatchFault, NullOnlyInInstall, TornOnlyByLongPatch

\* Threads that run stay where they are when no trampoline changes.
LEMMA RunsKept ==
  ASSUME Runs, UNCHANGED run,
         \A t \in Targets : \A b : Whole(b, t) => b \in DOMAIN blocks' /\ blocks'[b] = blocks[b],
         \A t \in Targets : Reached(t) => Reached(t)'
  PROVE  Runs'
<1> SUFFICES ASSUME NEW x \in Runners, run[x] # None, Running(run[x]) PROVE Running(run[x])'
  BY DEF Runs
<1>1. \A t \in Targets : \A b : Whole(b, t) => Whole(b, t)'
  BY DEF Whole
<1>2. run[x].fn \in Targets
  BY DEF Running
<1>3. \A b \in DOMAIN blocks : Whole(b, run[x].fn) =>
        b \in DOMAIN blocks' /\ blocks'[b] = blocks[b] /\ Whole(b, run[x].fn)'
  BY <1>1, <1>2
<1> QED
  BY <1>2, <1>3 DEF Running, IsRun

\* What is right for a thread depends on the trampolines and the calls alone.
LEMMA RunningKept ==
  ASSUME UNCHANGED <<blocks, orig, pc, loc>>
  PROVE  \A q : Running(q) => Running(q)'
<1>1. \A t : Reached(t) => Reached(t)'
  BY DEF Reached
<1>2. \A b, t : Whole(b, t) => Whole(b, t)'
  BY DEF Whole
<1> QED
  BY <1>1, <1>2 DEF Running, IsRun

\* So it is with the invariants of the code and the registry.
LEMMA CallsKept ==
  ASSUME IInv, UNCHANGED <<code, perm, blocks, entries_, orig, pc, loc>>
  PROVE  Trampolines' /\ Registry' /\ CodeInv' /\ Writable' /\ \A c \in Callers : Locals(c)'
<1>1. Trampolines'
  BY DEF IInv, Trampolines, Whole
<1>2. Registry'
  BY DEF IInv, Registry
<1>3. \A c : AtWork(c) => AtWork(c)'
  BY DEF AtWork
<1>4. CodeInv'
  BY <1>3 DEF IInv, CodeInv
<1>5. Writable'
  BY DEF IInv, Writable
<1>6. \A c \in Callers : Locals(c)'
  BY DEF IInv, Locals
<1> QED
  BY <1>1, <1>2, <1>4, <1>5, <1>6

\* A call at work that writes nothing to the code.
LEMMA CodeKept ==
  ASSUME CodeInv, NEW c \in Callers, UNCHANGED <<code, entries_>>,
         pc[c] \in Work, pc'[c] \in Work,
         loc'[c].target = loc[c].target, loc'[c].replace = loc[c].replace,
         loc'[c].op = loc[c].op, loc'[c].i = loc[c].i
  PROVE  CodeInv'
<1>1. Region(loc'[c]) = Region(loc[c]) /\ \A w : Jump(loc'[c], w) = Jump(loc[c], w)
  BY DEF Region, Jump, Size
<1>2. \A d \in Callers : d = c
  BY OneCaller
<1> QED
  BY <1>1, <1>2, SMT DEF CodeInv, AtWork

\* The trampolines that were handed out stay, too.
LEMMA TrampolinesKept ==
  ASSUME Trampolines, UNCHANGED orig,
         \A t \in Targets : \A b : Whole(b, t) => b \in DOMAIN blocks' /\ blocks'[b] = blocks[b]
  PROVE  Trampolines'
  BY DEF Trampolines, Whole
-----------------------------------------------------------------------------
(* The steps of HookInstall and HookUninstall *)

\* HookInstall allocates a block and builds the jump.
LEMMA AllocKeeps ==
  ASSUME IInv, NEW c \in Callers, NEW t \in Targets, NEW r \in Replaces, InstallAlloc(c, t, r)
  PROVE  IInv'
<1> USE OneCaller DEF IInv
<1>1. /\ pc[c] = "idle" /\ fault = "none" /\ Find(t) = 0 /\ Len(blocks) < MaxBlocks
      /\ pc' = [pc EXCEPT ![c] = "begin"]
      /\ blocks' = Append(blocks, Empty)
      /\ loc' = [loc EXCEPT ![c] =
           [target |-> t, replace |-> r, blk |-> Len(blocks) + 1, patch |-> BuildJumpPatch(t, r),
            saved |-> <<>>, op |-> "install", i |-> 1]]
      /\ UNCHANGED <<code, perm, entries_, orig, run, fault>>
  BY DEF InstallAlloc, Goto, Empty
<1>2. /\ pc'[c] = "begin" /\ loc'[c].target = t /\ loc'[c].replace = r /\ loc'[c].i = 1
      /\ loc'[c].blk = Len(blocks) + 1 /\ loc'[c].op = "install"
      /\ loc'[c].patch = BuildJumpPatch(t, r) /\ IsLoc(loc'[c])
  BY <1>1 DEF Types, IsLoc
<1>3. /\ blocks' \in Seq(Blocks) /\ DOMAIN blocks' = 1..Len(blocks) + 1
      /\ DOMAIN blocks = 1..Len(blocks) /\ Len(blocks) \in Nat
      /\ \A b \in DOMAIN blocks : blocks'[b] = blocks[b]
      /\ blocks'[Len(blocks) + 1] = Empty
  <2>1. Empty \in Blocks
    BY SMT DEF Blocks
  <2> QED
    BY <1>1, <2>1, Appended, SMT DEF Types
<1>4. Types'
  BY <1>1, <1>3 DEF Types, Pcs, Work
<1>5. Locals(c)'
  <2>1. Len(blocks) + 1 \in 1..MaxBlocks
    BY <1>1, <1>3, HookAssumption, SMT
  <2> QED
    BY <1>2, <2>1 DEF Locals
<1>6. OwnBlock(c)'
  BY <1>2, <1>3, SMT DEF OwnBlock
<1>7. \A u \in Targets : \A b : Whole(b, u) => b \in DOMAIN blocks' /\ blocks'[b] = blocks[b]
  BY <1>3, SMT DEF Whole
<1>8. \A i \in DOMAIN entries_ : entries_[i].target # t
  BY <1>1, Found DEF Types, Registry
<1>9. Registry'
  BY <1>1, <1>2, <1>8, SMT DEF Registry, Work
<1>10. \A u \in Targets : Reached(u) => Reached(u)'
  BY <1>1 DEF Reached
<1>11. \A w \in Region(loc[c])' : code[w] = Orig(w)
  <2>1. ASSUME NEW w \in Region(loc'[c]), NEW i \in DOMAIN entries_ PROVE w \notin Region(entries_[i])
    <3>1. entries_[i] \in Entries
      BY SMT DEF Types
    <3> QED
      BY <1>2, <1>8, <3>1, EntryIs, Disjoint
  <2>2. Region(loc'[c]) \subseteq Words
    BY <1>2, Apart DEF Region, Size
  <2>3. \A w \in Words : code[w] = Orig(w) \/ \E i \in DOMAIN entries_ : w \in Region(entries_[i])
    BY <1>1 DEF CodeInv, Work
  <2> QED
    BY <2>1, <2>2, <2>3 DEF Region, Size
<1>12. CodeInv'
  <2>1. \A w \in Region(loc'[c]) : ~(w < t + 1 - 1)
    BY <1>2, Apart, SMT DEF Region
  <2>2. AtWork(c)'
    BY <1>1, <1>2, <1>11, <2>1 DEF AtWork
  <2> QED
    BY <1>1, <2>2 DEF CodeInv, Work
<1> QED
  BY <1>1, <1>2, <1>4, <1>5, <1>6, <1>7, <1>9, <1>10, <1>12, Faults, RunsKept, TrampolinesKept
     DEF Writable

\* BeginWrite and EndWrite come with a reading of the target's words, which are
\* still the original ones.
LEMMA ReadKeeps ==
  ASSUME IInv, NEW c \in Callers, BeginWrite(c) \/ EndWrite(c)
  PROVE  IInv'
<1> USE OneCaller DEF IInv
<1>1. /\ fault = "none"
      /\ \/ pc[c] = "begin" /\ pc' = [pc EXCEPT ![c] = "copy"]
         \/ pc[c] = "end" /\ pc' = [pc EXCEPT ![c] = "protect"]
      /\ loc' = [loc EXCEPT ![c].saved = WordsAt(loc[c].target, Len(loc[c].patch))]
      /\ UNCHANGED <<code, perm, blocks, entries_, orig, run, fault>>
  BY DEF BeginWrite, EndWrite, Goto
<1>2. /\ IsLoc(loc[c]) /\ loc[c].target \in Targets /\ loc[c].replace \in Replaces
      /\ loc[c].op = "install" /\ loc[c].i = 1 /\ pc[c] \in Work
      /\ loc[c].patch = BuildJumpPatch(loc[c].target, loc[c].replace)
  BY <1>1 DEF Locals, Work
<1>3. WordsAt(loc[c].target, Len(loc[c].patch)) = OrigWords(loc[c].target, Size(loc[c]))
  <2>1. \A w \in Region(loc[c]) : code[w] = Orig(w)
    BY <1>2, Apart, SMT DEF CodeInv, AtWork, Region, Size
  <2>2. Len(loc[c].patch) = Size(loc[c])
    BY <1>2, Patches, SMT DEF Size
  <2>3. \A k \in 1..Size(loc[c]) : loc[c].target + k - 1 \in Region(loc[c])
    BY <1>2, Apart, SMT DEF Region, Size
  <2> QED
    BY <2>1, <2>2, <2>3 DEF WordsAt, OrigWords
<1>4. /\ IsLoc(loc'[c]) /\ loc'[c].target = loc[c].target /\ loc'[c].replace = loc[c].replace
      /\ loc'[c].blk = loc[c].blk /\ loc'[c].patch = loc[c].patch /\ loc'[c].op = loc[c].op
      /\ loc'[c].i = loc[c].i /\ loc'[c].saved = OrigWords(loc[c].target, Size(loc[c]))
  BY <1>1, <1>2, <1>3 DEF IsLoc, Types
<1>5. pc'[c] \in Work /\ pc'[c] \in {"copy", "protect"} /\ Types'
  BY <1>1 DEF Types, Pcs, Work
<1>6. Locals(c)'
  BY <1>1, <1>2, <1>4, <1>5 DEF Locals, Size
<1>7. OwnBlock(c)'
  BY <1>1, <1>2, <1>4, <1>5, SMT DEF OwnBlock, Whole, Types
<1>8. Registry'
  BY <1>1, <1>2, <1>4, <1>5, SMT DEF Registry, Work
<1>9. CodeInv'
  BY <1>1, <1>2, <1>4, <1>5, CodeKept
<1>10. \A u \in Targets : Reached(u) => Reached(u)'
  BY <1>1, <1>2 DEF Reached
<1>11. \A u \in Targets : \A b : Whole(b, u) => b \in DOMAIN blocks' /\ blocks'[b] = blocks[b]
  BY <1>1 DEF Whole
<1> QED
  BY <1>1, <1>5, <1>6, <1>7, <1>8, <1>9, <1>10, <1>11, Faults, RunsKept, TrampolinesKept
     DEF Writable

\* The relocated code is copied to the block, or the copy faults.
LEMMA CopyKeeps ==
  ASSUME IInv, NEW c \in Callers, CopyBlock(c)
  PROVE  IInv'
<1> USE OneCaller DEF IInv
<1>1. /\ fault = "none" /\ pc[c] = "copy" /\ pc' = [pc EXCEPT ![c] = "end"]
      /\ UNCHANGED <<code, perm, entries_, orig, loc, run>>
      /\ \/ /\ fault' = "none"
            /\ blocks' = [blocks EXCEPT ![loc[c].blk] =
                            [words |-> loc[c].saved, back |-> BackTo(c)]]
         \/ fault' = "block" /\ UNCHANGED blocks
  BY DEF CopyBlock, Goto
<1>2. /\ loc[c].target \in Targets /\ loc[c].replace \in Replaces /\ loc[c].op = "install"
      /\ loc[c].saved = OrigWords(loc[c].target, Size(loc[c]))
      /\ BackTo(c) = loc[c].target + Size(loc[c])
      /\ loc[c].blk \in DOMAIN blocks /\ blocks[loc[c].blk] = Empty
  BY <1>1, Patches, SMT DEF Locals, OwnBlock, BackTo, Size
<1>3. pc'[c] = "end" /\ "end" \in Work
  BY <1>1 DEF Types, Work
<1>4. [words |-> loc[c].saved, back |-> BackTo(c)] = Trampoline(loc[c].target, Size(loc[c]))
  BY <1>2 DEF Trampoline
<1>5. Trampoline(loc[c].target, Size(loc[c])) \in Blocks
  BY <1>2, SMT DEF Blocks, Size
<1>6. /\ blocks' \in Seq(Blocks) /\ DOMAIN blocks' = DOMAIN blocks
      /\ \A b \in DOMAIN blocks : b # loc[c].blk => blocks'[b] = blocks[b]
      /\ fault' # "block" => blocks'[loc[c].blk] = Trampoline(loc[c].target, Size(loc[c]))
  <2>1. DOMAIN blocks = 1..Len(blocks)
    BY SMT DEF Types
  <2>2. CASE blocks' = [blocks EXCEPT ![loc[c].blk] = Trampoline(loc[c].target, Size(loc[c]))]
    BY <1>2, <1>5, <2>1, <2>2, Replaced, SMT DEF Types
  <2> QED
    BY <1>1, <1>4, <2>2 DEF Types
<1>7. Types'
  BY <1>1, <1>6 DEF Types, Pcs, Work
<1>8. \A u \in Targets : \A b : Whole(b, u) => b \in DOMAIN blocks' /\ blocks'[b] = blocks[b]
  <2> SUFFICES ASSUME NEW b, NEW u \in Targets, Whole(b, u) PROVE b # loc[c].blk
    BY <1>6 DEF Whole
  <2>1. PICK r \in Replaces : blocks[b] = Trampoline(u, JumpSize(u, r))
    BY DEF Whole
  <2>2. blocks[b].back = u + JumpSize(u, r) /\ u + JumpSize(u, r) \in Int
    BY <2>1, Apart, SMT DEF Trampoline
  <2> QED
    BY <1>2, <2>2, HookAssumption, SMT DEF Empty
<1>9. OwnBlock(c)'
  BY <1>1, <1>2, <1>3, <1>6 DEF OwnBlock, Whole, Size
<1>10. Locals(c)' /\ Registry' /\ CodeInv'
  <2>1. Locals(c)'
    BY <1>1, <1>3 DEF Locals
  <2>2. Registry'
    BY <1>1, <1>3 DEF Registry, Work
  <2>3. CodeInv'
    BY <1>1, <1>3, CodeKept DEF Work
  <2> QED
    BY <2>1, <2>2, <2>3
<1>11. \A u \in Targets : Reached(u) => Reached(u)'
  BY <1>1 DEF Reached
<1> QED
  BY <1>1, <1>3, <1>7, <1>8, <1>9, <1>10, <1>11, Faults, RunsKept, TrampolinesKept
     DEF Writable

\* HookUninstall takes the entry out of the registry.
LEMMA UninstallKeeps ==
  ASSUME IInv, NEW c \in Callers, NEW t \in Targets, Uninstall(c, t)
  PROVE  IInv'
<1> USE OneCaller DEF IInv
<1> DEFINE n == Find(t)
           e == entries_[n]
<1>1. /\ n # 0 /\ fault = "none" /\ pc[c] = "idle" /\ pc' = [pc EXCEPT ![c] = "protect"]
      /\ entries_' = Erase(entries_, n)
      /\ loc' = [loc EXCEPT ![c] = [target |-> t, replace |-> e.replace, blk |-> e.blk,
                                    patch |-> e.saved, saved |-> e.saved,
                                    op |-> "uninstall", i |-> 1]]
      /\ UNCHANGED <<code, perm, blocks, orig, run, fault>>
  BY DEF Uninstall, Goto
<1>2. n \in 1..Len(entries_) /\ e.target = t /\ DOMAIN entries_ = 1..Len(entries_)
  BY <1>1, Found, SMT DEF Types, Registry
<1> HIDE DEF n
<1>3. /\ e.replace \in Replaces /\ e.blk \in 1..MaxBlocks /\ e.saved = OrigWords(t, Size(e))
      /\ e \in Entries
  BY <1>2, EntryIs, SMT DEF Types
<1> HIDE DEF e
<1>4. /\ IsLoc(loc'[c]) /\ loc'[c].target = t /\ loc'[c].replace = e.replace
      /\ loc'[c].blk = e.blk /\ loc'[c].patch = e.saved /\ loc'[c].saved = e.saved
      /\ loc'[c].op = "uninstall" /\ loc'[c].i = 1 /\ pc'[c] = "protect"
  BY <1>1 DEF IsLoc, Types
<1>5. Size(loc'[c]) = Size(e) /\ Region(loc'[c]) = Region(e) /\ \A w : Jump(loc'[c], w) = Jump(e, w)
  BY <1>2, <1>4 DEF Size, Region, Jump
<1>6. /\ entries_' \in Seq(Entries) /\ DOMAIN entries_' = 1..Len(entries_) - 1
      /\ \A j \in DOMAIN entries_' :
           \E k \in DOMAIN entries_ : k = (IF j < n THEN j ELSE j + 1) /\ entries_'[j] = entries_[k]
      /\ \A j \in DOMAIN entries_ : j # n => \E k \in DOMAIN entries_' : entries_'[k] = entries_[j]
  <2>1. entries_ \in Seq(Entries) /\ Len(entries_) \in Nat
    BY SMT DEF Types
  <2>2. /\ entries_' \in Seq(Entries) /\ DOMAIN entries_' = 1..Len(entries_) - 1
        /\ \A j \in 1..Len(entries_) - 1 : entries_'[j] = entries_[IF j < n THEN j ELSE j + 1]
        /\ \A j \in 1..Len(entries_) : j # n =>
             \E k \in 1..Len(entries_) - 1 : entries_'[k] = entries_[j]
    <3>1. n \in 1..Len(entries_) /\ entries_' = Erase(entries_, n)
      BY <1>1, <1>2
    <3>2. /\ Erase(entries_, n) \in Seq(Entries) /\ DOMAIN Erase(entries_, n) = 1..Len(entries_) - 1
          /\ \A j \in 1..Len(entries_) - 1 :
               Erase(entries_, n)[j] = entries_[IF j < n THEN j ELSE j + 1]
          /\ \A j \in 1..Len(entries_) : j # n =>
               \E k \in 1..Len(entries_) - 1 : Erase(entries_, n)[k] = entries_[j]
      BY <2>1, <3>1, Erased
    <3> HIDE DEF IInv
    <3> QED
      BY <3>1, <3>2
  <2>3. \A j \in 1..Len(entries_) - 1 : (IF j < n THEN j ELSE j + 1) \in DOMAIN entries_
    BY <1>2, <2>1, SMT
  <2> QED
    BY <1>2, <2>2, <2>3
<1>7. Types'
  BY <1>1, <1>6 DEF Types, Pcs, Work
<1>8. orig[t] # None
  BY <1>1, <1>2, SMT DEF Registry, e
<1>9. Locals(c)'
  BY <1>1, <1>3, <1>4, <1>5, <1>8 DEF Locals
<1>10. OwnBlock(c)'
  BY <1>4 DEF OwnBlock
<1>11. Registry'
  <2>1. ASSUME NEW i \in DOMAIN entries_', NEW j \in DOMAIN entries_',
               entries_'[i].target = entries_'[j].target
        PROVE  i = j
    <3>1. PICK a \in DOMAIN entries_ : a = (IF i < n THEN i ELSE i + 1) /\ entries_'[i] = entries_[a]
      BY <1>6
    <3>2. PICK b \in DOMAIN entries_ : b = (IF j < n THEN j ELSE j + 1) /\ entries_'[j] = entries_[b]
      BY <1>6
    <3>3. a = b
      BY <2>1, <3>1, <3>2 DEF Registry
    <3>4. i \in Int /\ j \in Int /\ n \in Int
      BY <1>2, <1>6, SMT
    <3> HIDE DEF IInv
    <3> QED
      BY <3>1, <3>2, <3>3, <3>4, SMT
  <2>2. ASSUME NEW i \in DOMAIN entries_' PROVE entries_'[i].target # t
    <3>1. PICK a \in DOMAIN entries_ : a = (IF i < n THEN i ELSE i + 1) /\ entries_'[i] = entries_[a]
      BY <1>6
    <3>2. a # n
      <4>1. i \in Int /\ n \in Int
        BY <1>2, <1>6, SMT
      <4> HIDE DEF IInv
      <4> QED
        BY <3>1, <4>1, SMT
    <3> QED
      BY <1>2, <3>1, <3>2 DEF Registry, e
  <2>3. \A i \in DOMAIN entries_' : orig[entries_'[i].target] # None
    BY <1>1, <1>6, SMT DEF Registry
  <2> QED
    BY <1>1, <1>4, <2>1, <2>2, <2>3, SMT DEF Registry
<1>12. CodeInv'
  <2>1. \A i \in DOMAIN entries_' : \A w \in Region(entries_'[i]) : code[w] = Jump(entries_'[i], w)
    BY <1>6, SMT DEF CodeInv
  <2>2. AtWork(c)'
    <3>1. \A w \in Region(e) : code[w] = Jump(e, w) /\ ~(w < t)
      BY <1>2, HookAssumption, SMT DEF CodeInv, e, Region, Words
    <3>2. t + 1 - 1 = t
      BY HookAssumption, SMT DEF Words
    <3> QED
      BY <1>1, <1>4, <1>5, <3>1, <3>2 DEF AtWork
  <2>3. pc'[c] \in Work
    BY <1>4 DEF Work
  <2>4. \A w \in Words : \/ code[w] = Orig(w)
                         \/ \E i \in DOMAIN entries_' : w \in Region(entries_'[i])
                         \/ w \in Region(loc'[c])
    <3>1. \A w \in Words : code[w] = Orig(w) \/ \E i \in DOMAIN entries_ : w \in Region(entries_[i])
      BY <1>1 DEF CodeInv, Work
    <3> QED
      BY <1>2, <1>5, <1>6, <3>1 DEF e
  <2> QED
    BY <1>1, <2>1, <2>2, <2>3, <2>4 DEF CodeInv
<1>13. \A u \in Targets : Reached(u) => Reached(u)'
  BY <1>1 DEF Reached
<1>14. \A u \in Targets : \A b : Whole(b, u) => b \in DOMAIN blocks' /\ blocks'[b] = blocks[b]
  BY <1>1 DEF Whole
<1> QED
  BY <1>1, <1>4, <1>7, <1>9, <1>10, <1>11, <1>12, <1>13, <1>14, Faults, RunsKept, TrampolinesKept
     DEF Writable

\* The pages of the patch are made writable.
LEMMA ProtectKeeps ==
  ASSUME IInv, NEW c \in Callers, Protect(c)
  PROVE  IInv'
<1> USE OneCaller DEF IInv
<1>1. /\ fault = "none" /\ pc[c] = "protect" /\ pc' = [pc EXCEPT ![c] = "patch"]
      /\ perm' = [g \in DOMAIN perm |-> IF g \in PatchPages(c) THEN "RWX" ELSE perm[g]]
      /\ UNCHANGED <<code, blocks, entries_, orig, loc, run, fault>>
  BY DEF Protect, Goto, SetPerm
<1>2. /\ loc[c].target \in Targets /\ loc[c].replace \in Replaces /\ loc[c].i = 1
      /\ Len(loc[c].patch) = Size(loc[c])
  BY <1>1, Patches, SMT DEF Locals, Size
<1>3. Types' /\ pc'[c] = "patch"
  BY <1>1 DEF Types, Pcs, Work
<1>4. Locals(c)'
  <2>1. 1 \in 1..Size(loc[c])
    BY <1>2, Apart, SMT DEF Size
  <2> QED
    BY <1>1, <1>3, <2>1 DEF Locals
<1>5. Writable'
  <2>1. ASSUME NEW w \in Region(loc[c]) PROVE PageOf(w) \in PatchPages(c) /\ w \in Words
    <3>1. loc[c].target \in Nat /\ Size(loc[c]) \in {1, 3, 4} /\ Region(loc[c]) \subseteq Words
      BY <1>2, Apart, SMT DEF Region, Size
    <3>2. Size(loc[c]) \in Nat /\ w \in loc[c].target .. loc[c].target + Size(loc[c]) - 1
      BY <3>1, SMT DEF Region
    <3>3. PageOf(w) \in DOMAIN perm
      BY <3>1 DEF Types
    <3> QED
      BY <1>2, <3>1, <3>2, <3>3, PagesCovered DEF PatchPages
  <2> QED
    BY <1>1, <2>1 DEF Writable, Types
<1>6. CodeInv'
  BY <1>1, <1>3, CodeKept DEF Work
<1>7. OwnBlock(c)' /\ Registry'
  BY <1>1, <1>3 DEF OwnBlock, Whole, Registry, Work
<1>8. \A u \in Targets : Reached(u) => Reached(u)'
  BY <1>1 DEF Reached
<1>9. \A u \in Targets : \A b : Whole(b, u) => b \in DOMAIN blocks' /\ blocks'[b] = blocks[b]
  BY <1>1 DEF Whole
<1> QED
  BY <1>1, <1>3, <1>4, <1>5, <1>6, <1>7, <1>8, <1>9, Faults, RunsKept, TrampolinesKept

\* The entry of a call whose jump is whole goes to the end of the registry.
LEMMA EntryAdded ==
  ASSUME IInv, NEW c \in Callers, NEW a \in BOOLEAN, pc[c] \in Work \ {"begin"},
         entries_' = Append(entries_, HookEntry(c, a)), UNCHANGED <<code, orig>>,
         pc'[c] \notin Work,
         \A w \in Region(loc[c]) : code[w] = Jump(loc[c], w),
         orig[loc[c].target] # None \/ (pc'[c] = "publish" /\ loc'[c].target = loc[c].target)
  PROVE  entries_' \in Seq(Entries) /\ Registry' /\ CodeInv'
<1> USE OneCaller DEF IInv
<1> DEFINE e == HookEntry(c, a)
           n == Len(entries_) + 1
<1>1. /\ e.target = loc[c].target /\ e.replace = loc[c].replace
      /\ Size(e) = Size(loc[c]) /\ Region(e) = Region(loc[c])
      /\ \A w : Jump(e, w) = Jump(loc[c], w)
  BY DEF HookEntry, Size, Region, Jump
<1>2. e \in Entries
  BY SMT DEF Locals, Work, HookEntry, Entries, Size
<1>3. entries_ \in Seq(Entries)
  BY DEF Types
<1> HIDE DEF e
<1>4. /\ entries_' \in Seq(Entries) /\ DOMAIN entries_' = 1..Len(entries_) + 1
      /\ DOMAIN entries_ = 1..Len(entries_) /\ Len(entries_) \in Nat
      /\ \A i \in 1..Len(entries_) : entries_'[i] = entries_[i]
      /\ entries_'[Len(entries_) + 1] = e
  <2> HIDE DEF IInv
  <2>1. entries_' = Append(entries_, e)
    BY DEF e
  <2> QED
    BY <1>2, <1>3, <2>1, Appended, SMT
<1>5. PICK m \in DOMAIN entries_' :
        /\ entries_'[m] = e /\ m \notin DOMAIN entries_
        /\ \A i \in DOMAIN entries_' : i = m \/ (i \in DOMAIN entries_ /\ entries_'[i] = entries_[i])
        /\ \A i \in DOMAIN entries_ : i \in DOMAIN entries_' /\ entries_'[i] = entries_[i]
  BY <1>4, SMT
<1>6. Registry'
  <2>1. \A i \in DOMAIN entries_ : entries_[i].target # e.target
    BY <1>1, SMT DEF Registry
  <2>2. \A i, j \in DOMAIN entries_' : entries_'[i].target = entries_'[j].target => i = j
    BY <1>5, <2>1, SMT DEF Registry
  <2>3. \A i \in DOMAIN entries_ : orig[entries_[i].target] # None
    BY DEF Registry, Work
  <2>4. \A i \in DOMAIN entries_' :
          \/ orig'[entries_'[i].target] # None
          \/ pc'[c] = "publish" /\ loc'[c].target = entries_'[i].target
    BY <1>1, <1>5, <2>3, SMT
  <2> QED
    BY <2>2, <2>4, SMT DEF Registry
<1>7. CodeInv'
  <2>1. \A i \in DOMAIN entries_' : \A w \in Region(entries_'[i]) : code[w] = Jump(entries_'[i], w)
    BY <1>1, <1>5, SMT DEF CodeInv
  <2>2. \A w \in Words : code[w] = Orig(w) \/ \E i \in DOMAIN entries_' : w \in Region(entries_'[i])
    BY <1>1, <1>5, SMT DEF CodeInv
  <2> QED
    BY <2>1, <2>2 DEF CodeInv, AtWork
<1> QED
  BY <1>4, <1>6, <1>7

\* mprotect fails: HookInstall gives up, HookUninstall puts its entry back.
LEMMA ProtectFailsKeeps ==
  ASSUME IInv, NEW c \in Callers, ProtectFails(c)
  PROVE  IInv'
<1> USE OneCaller DEF IInv
<1>1. /\ fault = "none" /\ pc[c] = "protect" /\ pc' = [pc EXCEPT ![c] = "idle"]
      /\ entries_' = PutBack(c) /\ loc' = [loc EXCEPT ![c] = None]
      /\ UNCHANGED <<code, perm, blocks, orig, run, fault>>
  BY DEF ProtectFails, Goto, Return
<1>2. /\ loc[c].target \in Targets /\ loc[c].replace \in Replaces /\ loc[c].i = 1
      /\ loc[c].op \in {"install", "uninstall"} /\ pc[c] \in Work \ {"begin"}
      /\ loc[c].op = "uninstall" => orig[loc[c].target] # None
  BY <1>1 DEF Locals, Work
<1>3. pc'[c] = "idle" /\ pc'[c] \notin Work
  BY <1>1 DEF Types, Work
<1>4. \A w \in Region(loc[c]) : ~(w < loc[c].target + 1 - 1)
  BY <1>2, Apart, SMT DEF Region
<1>5. entries_' \in Seq(Entries) /\ Registry' /\ CodeInv'
  <2>1. CASE loc[c].op = "install"
    <3>1. entries_' = entries_ /\ \A w \in Region(loc[c]) : code[w] = Orig(w)
      BY <1>1, <1>2, <1>4, <2>1 DEF PutBack, CodeInv, AtWork
    <3>2. Registry' /\ entries_' \in Seq(Entries)
      BY <1>1, <1>3, <3>1 DEF Registry, Types
    <3>3. CodeInv'
      BY <1>1, <1>3, <3>1, SMT DEF CodeInv, AtWork
    <3> QED
      BY <3>2, <3>3
  <2>2. CASE loc[c].op = "uninstall"
    <3>1. entries_' = Append(entries_, HookEntry(c, FALSE))
      BY <1>1, <2>2 DEF PutBack
    <3>2. \A w \in Region(loc[c]) : code[w] = Jump(loc[c], w)
      BY <1>2, <1>4, <2>2 DEF CodeInv, AtWork
    <3> QED
      BY <1>1, <1>2, <1>3, <2>2, <3>1, <3>2, EntryAdded
  <2> QED
    BY <1>2, <2>1, <2>2
<1>6. Types'
  BY <1>1, <1>5 DEF Types, Pcs
<1>7. \A u \in Targets : Reached(u) => Reached(u)'
  BY <1>1 DEF Reached
<1>8. \A u \in Targets : \A b : Whole(b, u) => b \in DOMAIN blocks' /\ blocks'[b] = blocks[b]
  BY <1>1 DEF Whole
<1> QED
  BY <1>1, <1>3, <1>5, <1>6, <1>7, <1>8, Faults, RunsKept, TrampolinesKept
     DEF Writable, Locals, OwnBlock

\* What a call at work in PatchCode writes next, and where.
LEMMA NextWord ==
  ASSUME IInv, NEW c \in Callers, pc[c] = "patch"
  PROVE  LET l == loc[c]
             w == l.target + l.i - 1
         IN  /\ w \in Region(l) /\ w \in Words /\ l.i \in Nat /\ l.target \in Nat
             /\ Len(l.patch) = Size(l) /\ l.i <= Size(l) /\ Size(l) \in {1, 3, 4}
             /\ perm[PageOf(w)] = "RWX"
             /\ l.patch[l.i] = IF l.op = "uninstall" THEN Orig(w) ELSE Jump(l, w)
<1> DEFINE l == loc[c]
           w == l.target + l.i - 1
<1>1. /\ l.target \in Targets /\ l.replace \in Replaces /\ l.i \in 1..Size(l)
      /\ l.patch = IF l.op = "uninstall" THEN OrigWords(l.target, Size(l))
                   ELSE BuildJumpPatch(l.target, l.replace)
  BY DEF IInv, Locals
<1>2. l.target \in Nat /\ Size(l) \in {1, 3, 4}
  BY <1>1, Apart, SMT DEF Size
<1>3. w \in Region(l) /\ w \in Words /\ w - l.target + 1 = l.i
  BY <1>1, <1>2, Apart, SMT DEF Region, Size
<1>4. /\ Len(l.patch) = Size(l)
      /\ l.patch[l.i] = IF l.op = "uninstall" THEN Orig(w) ELSE Jump(l, w)
  <2>1. /\ Len(BuildJumpPatch(l.target, l.replace)) = Size(l)
        /\ Len(OrigWords(l.target, Size(l))) = Size(l)
        /\ BuildJumpPatch(l.target, l.replace)[l.i] = <<"jump", l.replace, Size(l), l.i>>
        /\ OrigWords(l.target, Size(l))[l.i] = Orig(w)
    BY <1>1, Patches DEF Size
  <2>2. Jump(l, w) = <<"jump", l.replace, Size(l), l.i>>
    BY <1>3 DEF Jump
  <2> QED
    BY <1>1, <2>1, <2>2
<1>5. perm[PageOf(w)] = "RWX"
  BY <1>3 DEF IInv, Writable
<1> QED
  BY <1>1, <1>2, <1>3, <1>4, <1>5, SMT

\* memcpy writes one word of the patch.
LEMMA PatchWordKeeps ==
  ASSUME IInv, NEW c \in Callers, PatchWord(c)
  PROVE  IInv'
<1> USE OneCaller DEF IInv
<1> DEFINE l == loc[c]
           w == l.target + l.i - 1
<1>1. fault = "none" /\ pc[c] = "patch"
  BY DEF PatchWord, Goto
<1>2. /\ w \in Region(l) /\ w \in Words /\ l.i \in Nat /\ l.target \in Nat
      /\ Len(l.patch) = Size(l) /\ l.i <= Size(l) /\ Size(l) \in {1, 3, 4}
      /\ perm[PageOf(w)] = "RWX"
      /\ l.patch[l.i] = IF l.op = "uninstall" THEN Orig(w) ELSE Jump(l, w)
  BY <1>1, NextWord
<1>3. /\ pc' = [pc EXCEPT ![c] = IF l.i = Size(l) THEN "unprotect" ELSE "patch"]
      /\ code' = [code EXCEPT ![w] = l.patch[l.i]]
      /\ loc' = [loc EXCEPT ![c].i = l.i + 1]
      /\ UNCHANGED <<perm, blocks, entries_, orig, run, fault>>
  BY <1>2 DEF PatchWord, Goto
<1>4. /\ IsLoc(l) /\ l.target \in Targets /\ l.replace \in Replaces
      /\ l.op \in {"install", "uninstall"}
  BY <1>1 DEF Locals
<1>5. /\ IsLoc(loc'[c]) /\ loc'[c].target = l.target /\ loc'[c].replace = l.replace
      /\ loc'[c].blk = l.blk /\ loc'[c].patch = l.patch /\ loc'[c].op = l.op
      /\ loc'[c].saved = l.saved /\ loc'[c].i = l.i + 1
  BY <1>3, <1>4 DEF IsLoc, Types
<1>6. pc'[c] = (IF l.i = Size(l) THEN "unprotect" ELSE "patch") /\ pc'[c] \in Work
  BY <1>3 DEF Types, Work
<1>7. Types'
  BY <1>3 DEF Types, Pcs, Work
<1>8. Size(loc'[c]) = Size(l) /\ Region(loc'[c]) = Region(l) /\ \A v : Jump(loc'[c], v) = Jump(l, v)
  BY <1>5 DEF Size, Region, Jump
<1>9. code'[w] = l.patch[l.i] /\ \A v \in Words : v # w => code'[v] = code[v]
  BY <1>2, <1>3 DEF Types
<1>10. Locals(c)'
  <2>1. l.i # Size(l) => l.i + 1 \in 1..Size(l)
    BY <1>2, SMT
  <2> QED
    BY <1>1, <1>3, <1>5, <1>6, <1>8, <2>1, SMT DEF Locals
<1>11. OwnBlock(c)'
  BY <1>1, <1>3, <1>5, <1>6, SMT DEF OwnBlock, Whole
<1>12. Registry'
  BY <1>1, <1>3, <1>5, <1>6, SMT DEF Registry, Work
<1>13. Writable'
  BY <1>1, <1>3, <1>6, <1>8 DEF Writable
<1>14. CodeInv'
  <2>1. \A i \in DOMAIN entries_ : \A v \in Region(entries_[i]) : v \in Words /\ v # w
    <3> SUFFICES ASSUME NEW i \in DOMAIN entries_, NEW v \in Region(entries_[i])
                 PROVE  v \in Words /\ v # w
      OBVIOUS
    <3>1. entries_[i] \in Entries
      BY SMT DEF Types
    <3>2. /\ entries_[i].target \in Targets /\ entries_[i].replace \in Replaces
          /\ entries_[i].target # l.target
      BY <1>1, <3>1, EntryIs DEF Registry, Work
    <3>3. v \notin Region(l)
      BY <1>4, <3>2, Disjoint
    <3>4. v \in Words
      BY <3>2, Apart DEF Region, Size
    <3> QED
      BY <1>2, <3>3, <3>4
  <2>2. \A v \in Region(l) : v \in Words /\ (v < l.target + (l.i + 1) - 1 <=> (v < w \/ v = w))
    <3>1. Region(l) \subseteq Words /\ Words \subseteq Int
      BY <1>4, Apart, SMT DEF Region, Size, Words
    <3>2. \A a, b \in Nat : \A v \in Int : v < a + (b + 1) - 1 <=> (v < a + b - 1 \/ v = a + b - 1)
      BY SMT
    <3>3. \A v \in Int : v < l.target + (l.i + 1) - 1 <=> (v < w \/ v = w)
      BY <1>2, <3>2
    <3> QED
      BY <3>1, <3>3
  <2>3. AtWork(c)'
    <3>1. \A v \in Region(l) : code[v] = IF v < w <=> l.op = "uninstall" THEN Orig(v) ELSE Jump(l, v)
      BY <1>1 DEF CodeInv, AtWork, Work
    <3>2. ~(w < w)
      BY <1>2, SMT
    <3>3. ASSUME NEW v \in Region(l)
          PROVE  code'[v] = IF v < w \/ v = w <=> l.op = "uninstall" THEN Orig(v) ELSE Jump(l, v)
      <4>1. CASE v = w
        BY <1>2, <1>9, <3>2, <4>1
      <4>2. CASE v # w
        BY <1>9, <2>2, <3>1, <4>2
      <4> QED
        BY <4>1, <4>2
    <3> QED
      BY <1>5, <1>8, <2>2, <3>3 DEF AtWork
  <2>4. \A v \in Words : \/ code'[v] = Orig(v)
                         \/ \E i \in DOMAIN entries_ : v \in Region(entries_[i])
                         \/ v \in Region(l)
    BY <1>2, <1>9 DEF CodeInv
  <2>5. \A i \in DOMAIN entries_ : \A v \in Region(entries_[i]) : code'[v] = Jump(entries_[i], v)
    BY <1>9, <2>1 DEF CodeInv
  <2> QED
    BY <1>3, <1>6, <1>8, <2>3, <2>4, <2>5, SMT DEF CodeInv
<1>15. \A u \in Targets : Reached(u) => Reached(u)'
  BY <1>1, <1>3 DEF Reached
<1>16. \A u \in Targets : \A b : Whole(b, u) => b \in DOMAIN blocks' /\ blocks'[b] = blocks[b]
  BY <1>3 DEF Whole
<1> QED
  BY <1>1, <1>3, <1>7, <1>10, <1>11, <1>12, <1>13, <1>14, <1>15, <1>16,
     Faults, RunsKept, TrampolinesKept

\* MakeMemoryRX: the patch is through.
LEMMA UnprotectKeeps ==
  ASSUME IInv, NEW c \in Callers, Unprotect(c)
  PROVE  IInv'
<1> USE OneCaller DEF IInv
<1>1. /\ fault = "none" /\ pc[c] = "unprotect"
      /\ pc' = [pc EXCEPT ![c] = IF loc[c].op = "uninstall" THEN "idle" ELSE "add"]
      /\ loc' = IF loc[c].op = "uninstall" THEN [loc EXCEPT ![c] = None] ELSE loc
      /\ perm' \in [{PageOf(w) : w \in Words} -> {"RX", "RWX"}]
      /\ UNCHANGED <<code, blocks, entries_, orig, run, fault>>
  BY DEF Unprotect, Goto, Return, SetPerm, Types
<1>2. /\ loc[c].target \in Targets /\ loc[c].replace \in Replaces
      /\ loc[c].op \in {"install", "uninstall"} /\ loc[c].i = Size(loc[c]) + 1
  BY <1>1 DEF Locals
<1>3. Types'
  BY <1>1 DEF Types, Pcs, Work
<1>4. \A u \in Targets : \A b : Whole(b, u) => b \in DOMAIN blocks' /\ blocks'[b] = blocks[b]
  BY <1>1 DEF Whole
<1>5. CASE loc[c].op = "install"
  <2>1. pc'[c] = "add" /\ loc' = loc
    BY <1>1, <1>5 DEF Types
  <2>2. Locals(c)' /\ OwnBlock(c)' /\ Registry' /\ Writable'
    <3>1. pc[c] = "unprotect" /\ UNCHANGED <<blocks, entries_, orig, fault>>
      BY <1>1
    <3>2. Locals(c)'
      BY <1>5, <2>1, <3>1 DEF Locals
    <3>3. OwnBlock(c)'
      BY <2>1, <3>1 DEF OwnBlock, Whole
    <3>4. Registry'
      BY <2>1, <3>1 DEF Registry, Work
    <3>5. Writable'
      BY <2>1 DEF Writable
    <3> QED
      BY <3>2, <3>3, <3>4, <3>5
  <2>3. CodeInv'
    BY <1>1, <2>1, CodeKept DEF Work
  <2>4. \A u \in Targets : Reached(u) => Reached(u)'
    BY <1>1, <2>1 DEF Reached
  <2> QED
    BY <1>1, <1>3, <1>4, <2>2, <2>3, <2>4, Faults, RunsKept, TrampolinesKept
<1>6. CASE loc[c].op = "uninstall"
  <2>1. pc'[c] = "idle"
    BY <1>1, <1>6 DEF Types
  <2>2. \A w \in Region(loc[c]) : w < loc[c].target + (Size(loc[c]) + 1) - 1
    BY <1>2, Apart, SMT DEF Region, Size
  <2>3. \A w \in Region(loc[c]) : code[w] = Orig(w)
    BY <1>1, <1>2, <1>6, <2>2 DEF CodeInv, AtWork, Work
  <2>4. CodeInv'
    BY <1>1, <2>1, <2>3 DEF CodeInv, AtWork, Work
  <2>5. Locals(c)' /\ OwnBlock(c)' /\ Registry' /\ Writable'
    <3>1. Registry'
      BY <1>1, <2>1 DEF Registry, Work
    <3> QED
      BY <2>1, <3>1 DEF Locals, OwnBlock, Writable
  <2>6. \A u \in Targets : Reached(u) => Reached(u)'
    BY <1>1, <1>6 DEF Reached
  <2> QED
    BY <1>1, <1>3, <1>4, <2>4, <2>5, <2>6, Faults, RunsKept, TrampolinesKept
<1> QED
  BY <1>2, <1>5, <1>6

\* The new entry goes to the registry.
LEMMA AddKeeps ==
  ASSUME IInv, NEW c \in Callers, Add(c)
  PROVE  IInv'
<1> USE OneCaller DEF IInv
<1>1. /\ fault = "none" /\ pc[c] = "add" /\ pc' = [pc EXCEPT ![c] = "publish"]
      /\ entries_' = Append(entries_, HookEntry(c, TRUE))
      /\ UNCHANGED <<code, perm, blocks, orig, loc, run, fault>>
  BY DEF Add, Goto
<1>2. /\ loc[c].target \in Targets /\ loc[c].replace \in Replaces
      /\ loc[c].op = "install" /\ loc[c].i = Size(loc[c]) + 1 /\ pc[c] \in Work \ {"begin"}
  BY <1>1 DEF Locals, Work
<1>3. pc'[c] = "publish" /\ pc'[c] \notin Work
  BY <1>1 DEF Types, Work
<1>4. \A w \in Region(loc[c]) : w < loc[c].target + (Size(loc[c]) + 1) - 1
  BY <1>2, Apart, SMT DEF Region, Size
<1>5. \A w \in Region(loc[c]) : code[w] = Jump(loc[c], w)
  BY <1>2, <1>4 DEF CodeInv, AtWork
<1>6. entries_' \in Seq(Entries) /\ Registry' /\ CodeInv'
  BY <1>1, <1>2, <1>3, <1>5, EntryAdded
<1>7. Types'
  BY <1>1, <1>6 DEF Types, Pcs
<1>8. Locals(c)' /\ OwnBlock(c)' /\ Writable'
  BY <1>1, <1>3 DEF Locals, OwnBlock, Whole, Writable
<1>9. \A u \in Targets : Reached(u) => Reached(u)'
  BY <1>1, <1>3 DEF Reached
<1>10. \A u \in Targets : \A b : Whole(b, u) => b \in DOMAIN blocks' /\ blocks'[b] = blocks[b]
  BY <1>1 DEF Whole
<1> QED
  BY <1>1, <1>6, <1>7, <1>8, <1>9, <1>10, Faults, RunsKept, TrampolinesKept

\* *orig_func is assigned.
LEMMA PublishKeeps ==
  ASSUME IInv, NEW c \in Callers, Publish(c)
  PROVE  IInv'
<1> USE OneCaller DEF IInv
<1>1. /\ fault = "none" /\ pc[c] = "publish" /\ pc' = [pc EXCEPT ![c] = "idle"]
      /\ orig' = [orig EXCEPT ![loc[c].target] = loc[c].blk]
      /\ loc' = [loc EXCEPT ![c] = None]
      /\ UNCHANGED <<code, perm, blocks, entries_, run, fault>>
  BY DEF Publish, Published, Goto, Return
<1>2. /\ loc[c].target \in Targets /\ loc[c].blk \in 1..MaxBlocks /\ loc[c].op = "install"
      /\ loc[c].blk # None
  BY <1>1, HookAssumption, SMT DEF Locals
<1>3. pc'[c] = "idle" /\ Types'
  BY <1>1, <1>2 DEF Types, Pcs
<1>4. /\ orig'[loc[c].target] = loc[c].blk
      /\ \A u \in Targets : u # loc[c].target => orig'[u] = orig[u]
  BY <1>1, <1>2 DEF Types
<1>5. \A u \in Targets : Reached(u) => Reached(u)'
  BY <1>2, <1>4 DEF Reached
<1>6. Trampolines'
  <2>1. Whole(loc[c].blk, loc[c].target)
    BY <1>1, <1>2 DEF OwnBlock
  <2>2. \A b, u : Whole(b, u) => Whole(b, u)'
    BY <1>1 DEF Whole
  <2> QED
    BY <1>4, <2>1, <2>2 DEF Trampolines
<1>7. Registry'
  <2>1. \A i \in DOMAIN entries_ : entries_[i].target \in Targets
    <3>1. \A i \in DOMAIN entries_ : entries_[i] \in Entries
      BY SMT DEF Types
    <3> QED
      BY <3>1, EntryIs
  <2>2. \A i \in DOMAIN entries_ : orig'[entries_[i].target] # None
    BY <1>1, <1>2, <1>4, <2>1, SMT DEF Registry
  <2> QED
    BY <1>1, <1>3, <2>2 DEF Registry, Work
<1>8. CodeInv'
  BY <1>1, <1>3 DEF CodeInv, AtWork, Work
<1>9. Locals(c)' /\ OwnBlock(c)' /\ Writable'
  BY <1>3 DEF Locals, OwnBlock, Writable
<1>10. \A u \in Targets : \A b : Whole(b, u) => b \in DOMAIN blocks' /\ blocks'[b] = blocks[b]
  BY <1>1 DEF Whole
<1> QED
  BY <1>1, <1>3, <1>5, <1>6, <1>7, <1>8, <1>9, <1>10, Faults, RunsKept
-----------------------------------------------------------------------------
(* The steps of the threads that run the functions *)

\* Such a step leaves the code, the registry and the calls alone.
LEMMA RunnerKeeps ==
  ASSUME IInv, fault = "none", UNCHANGED <<code, perm, blocks, entries_, orig, pc, loc>>,
         NoPatchFault', NullOnlyInInstall', TornOnlyByLongPatch',
         Runs', DOMAIN run' = Runners
  PROVE  IInv'
<1>1. Types'
  BY DEF IInv, Types
<1>2. \A c \in Callers : OwnBlock(c)'
  BY DEF IInv, OwnBlock, Whole
<1> QED
  BY <1>1, <1>2, CallsKept DEF IInv

\* A thread moves to another place that is right.
LEMMA MoveKeeps ==
  ASSUME IInv, NEW x \in Runners, NEW r, r = None \/ Running(r), fault = "none",
         run' = [run EXCEPT ![x] = r],
         UNCHANGED <<code, perm, blocks, entries_, orig, pc, loc, fault>>
  PROVE  IInv'
<1>1. NoPatchFault' /\ NullOnlyInInstall' /\ TornOnlyByLongPatch'
  BY Faults
<1>2. \A q : Running(q) => Running(q)'
  BY RunningKept
<1>3. DOMAIN run' = Runners /\ run'[x] = r /\ \A y \in Runners : y # x => run'[y] = run[y]
  BY DEF IInv, Types
<1>4. Runs'
  BY <1>2, <1>3 DEF IInv, Runs
<1> QED
  BY <1>1, <1>3, <1>4, RunnerKeeps

\* A thread executes half a jump, and a long one.
LEMMA TearKeeps ==
  ASSUME IInv, NEW x \in Runners, run[x] # None, fault = "none", fault' = "torn",
         Long(run[x].x17) \/ (run[x].at[1] = "code" /\ Long(code[run[x].at[2]])),
         UNCHANGED <<code, perm, blocks, entries_, orig, pc, loc, run>>
  PROVE  IInv'
<1>1. NoPatchFault' /\ NullOnlyInInstall' /\ TornOnlyByLongPatch'
  BY DEF NoPatchFault, NullOnlyInInstall, TornOnlyByLongPatch, Long
<1>2. \A q : Running(q) => Running(q)'
  BY RunningKept
<1>3. Runs' /\ DOMAIN run' = Runners
  BY <1>2 DEF IInv, Runs, Types
<1> QED
  BY <1>1, <1>3, RunnerKeeps

\* A word of a function is its own or one of a jump at the function's start;
\* the last word of a jump is there only when the jump is or was whole.
LEMMA WordIs ==
  ASSUME IInv, NEW t \in Targets, NEW w \in t .. t + Length[t] - 1
  PROVE  \/ code[w] = Orig(w)
         \/ \E r \in Replaces : /\ w \in t .. t + JumpSize(t, r) - 1
                                /\ code[w] = <<"jump", r, JumpSize(t, r), w - t + 1>>
                                /\ w = t + JumpSize(t, r) - 1 => Reached(t)
<1> USE DEF IInv
<1>1. t \in Nat /\ Length[t] \in Nat /\ w \in Words
  BY HookAssumption, PatchFits, SMT DEF Words
<1>2. ASSUME NEW i \in DOMAIN entries_, w \in Region(entries_[i])
      PROVE  \E r \in Replaces : /\ w \in t .. t + JumpSize(t, r) - 1
                                 /\ code[w] = <<"jump", r, JumpSize(t, r), w - t + 1>>
                                 /\ Reached(t)
  <2>1. entries_[i] \in Entries
    BY SMT DEF Types
  <2>2. entries_[i].target \in Targets /\ entries_[i].replace \in Replaces
    BY <2>1, EntryIs
  <2>3. entries_[i].target = t
    BY <1>2, <2>2, Apart DEF Region, Size
  <2>4. Reached(t)
    BY <2>3 DEF Registry, Reached, Locals
  <2> QED
    BY <1>2, <2>2, <2>3, <2>4 DEF CodeInv, Region, Size, Jump
<1>3. ASSUME NEW c \in Callers, pc[c] \in Work, w \in Region(loc[c]), code[w] # Orig(w)
      PROVE  \E r \in Replaces : /\ w \in t .. t + JumpSize(t, r) - 1
                                 /\ code[w] = <<"jump", r, JumpSize(t, r), w - t + 1>>
                                 /\ w = t + JumpSize(t, r) - 1 => Reached(t)
  <2>1. loc[c].target \in Targets /\ loc[c].replace \in Replaces /\ pc[c] # "idle"
    BY <1>3 DEF Locals, Work
  <2>2. loc[c].target = t
    BY <1>3, <2>1, Apart DEF Region, Size
  <2>3. code[w] = Jump(loc[c], w) /\ ~(w < loc[c].target + loc[c].i - 1 <=> loc[c].op = "uninstall")
    BY <1>3 DEF CodeInv, AtWork
  <2>4. ASSUME w = t + Size(loc[c]) - 1 PROVE Reached(t)
    <3>1. CASE loc[c].op = "uninstall"
      BY <2>1, <2>2, <3>1 DEF Locals, Reached
    <3>2. CASE loc[c].op = "install"
      <4>1. t + Size(loc[c]) - 1 < t + loc[c].i - 1
        BY <2>2, <2>3, <2>4, <3>2
      <4>2. Size(loc[c]) \in {1, 3, 4}
        BY Sizes DEF Size
      <4>3. ~(loc[c].i = 1 \/ loc[c].i \in 1..Size(loc[c]))
        BY <1>1, <4>1, <4>2, SMT
      <4>4. pc[c] \in {"unprotect", "add"}
        BY <1>3, <2>1, <4>3 DEF Locals, Work
      <4> QED
        BY <2>2, <3>2, <4>4 DEF Reached
    <3> QED
      BY <2>1, <3>1, <3>2 DEF Locals
  <2> QED
    BY <1>3, <2>1, <2>2, <2>3, <2>4 DEF Region, Size, Jump
<1> QED
  BY <1>1, <1>2, <1>3 DEF CodeInv

\* A word of a jump is a long one when the jump has several words.
LEMMA LongIs ==
  ASSUME NEW t, NEW r \in Replaces, NEW k \in 1..JumpSize(t, r)
  PROVE  /\ <<"jump", r, JumpSize(t, r), k>> # None
         /\ JumpSize(t, r) > 1 => Long(<<"jump", r, JumpSize(t, r), k>>)
         /\ \A j : [<<"jump", r, JumpSize(t, r), k>> EXCEPT ![4] = j] = <<"jump", r, JumpSize(t, r), j>>
<1>1. JumpSize(t, r) \in {1, 3, 4} /\ k \in 1..4
  BY Sizes, SMT
<1>2. <<"jump", r, JumpSize(t, r), k>> # None
  BY <1>1, HookAssumption, SMT
<1> QED
  BY <1>2, SMT DEF Long

\* What an address of a function is.
LEMMA TargetIs == \A t \in Targets : t \in Nat /\ Length[t] \in Nat \ {0}
  BY HookAssumption, SMT DEF Words

\* A thread at the word it has to run next.
LEMMA RunNextKeeps ==
  ASSUME IInv, NEW x \in Runners, RunCode(x), Running(run[x]),
         run[x].at = <<"code", run[x].next>>, run[x].x17 = None
  PROVE  IInv'
<1> DEFINE r == run[x]
           w == r.next
<1>1. /\ fault = "none" /\ r # None
      /\ UNCHANGED <<code, perm, blocks, entries_, orig, pc, loc>>
      /\ Execute(x, code[w], w, <<"code", w + 1>>)
  BY SMT DEF RunCode
<1>2. /\ IsRun(r) /\ r.fn \in Targets /\ r.fn \in Nat /\ Length[r.fn] \in Nat
      /\ w \in r.fn .. r.fn + Length[r.fn] - 1
  BY TargetIs DEF Running
<1>3. CASE code[w] = Orig(w)
  <2>0. PICK s : s = [r EXCEPT !.at = <<"code", w + 1>>, !.next = @ + 1, !.x17 = None]
    OBVIOUS
  <2>1. /\ fault' = fault
        /\ run' = [run EXCEPT ![x] = IF w = r.fn + Length[r.fn] - 1 THEN None ELSE s]
    BY <1>1, <1>3, <2>0, SMT DEF Execute, Orig
  <2>2. IsRun(s) /\ s.fn = r.fn /\ s.at = <<"code", w + 1>> /\ s.next = w + 1 /\ s.x17 = None
    <3> HIDE DEF r
    <3>1. IsRun(r) /\ w = r.next
      BY <1>2
    <3> HIDE DEF w
    <3> QED
      BY <2>0, <3>1 DEF IsRun
  <2>3. w # r.fn + Length[r.fn] - 1 => Running(s)
    BY <1>2, <2>2, SMT DEF Running
  <2> QED
    BY <1>1, <2>1, <2>3, MoveKeeps
<1>4. ASSUME NEW q \in Replaces, w \in r.fn .. r.fn + JumpSize(r.fn, q) - 1,
             code[w] = <<"jump", q, JumpSize(r.fn, q), w - r.fn + 1>>,
             w = r.fn + JumpSize(r.fn, q) - 1 => Reached(r.fn)
      PROVE  IInv'
  <2> DEFINE n == JumpSize(r.fn, q)
             k == w - r.fn + 1
  <2>1. n \in {1, 3, 4} /\ k \in 1..n /\ k \in 1..4
    BY <1>2, <1>4, Sizes, SMT
  <2>2. /\ code[w] # None /\ (n > 1 => Long(code[w]))
        /\ \A j : [code[w] EXCEPT ![4] = j] = <<"jump", q, n, j>>
        /\ code[w][1] = "jump" /\ code[w][2] = q /\ code[w][3] = n /\ code[w][4] = k
    BY <1>4, <2>1, LongIs, SMT
  <2>3. CASE ~JumpRuns(x, code[w], w)
    <3>1. fault' = "torn" /\ run' = run
      BY <1>1, <2>2, <2>3 DEF Execute
    <3>2. n > 1
      BY <2>1, <2>2, <2>3, SMT DEF JumpRuns
    <3>3. run[x].at[1] = "code" /\ run[x].at[2] = w
      BY SMT
    <3> QED
      BY <1>1, <2>2, <3>1, <3>2, <3>3, TearKeeps
  <2>4. CASE JumpRuns(x, code[w], w)
    <3> DEFINE a == IF JumpEnds(code[w]) THEN <<"replace", q>> ELSE <<"code", w + 1>>
    <3>0. PICK s : s = [r EXCEPT !.at = a, !.x17 = code[w]]
      OBVIOUS
    <3>1. k = 1
      <4>1. ASSUME k # 1 PROVE FALSE
        <5>1. run[x].x17 = <<"jump", q, n, k - 1>>
          BY <2>2, <2>4, <4>1 DEF JumpRuns
        <5>2. k - 1 \in 1..n
          BY <2>1, <4>1, SMT
        <5>3. \A j \in 1..n : <<"jump", q, n, j>> # None
          BY LongIs, SMT
        <5> QED
          BY <5>1, <5>2, <5>3
      <4> QED
        BY <4>1
    <3>2. w = r.fn
      BY <1>2, <3>1, SMT
    <3>3. fault' = fault /\ run' = [run EXCEPT ![x] = s]
      BY <1>1, <2>2, <2>4, <3>0 DEF Execute
    <3>4. IsRun(s) /\ s.fn = r.fn /\ s.next = w /\ s.x17 = <<"jump", q, n, 1>> /\ s.at = a
      <4>1. IsRun(r) /\ w = r.next /\ code[w] = <<"jump", q, n, 1>>
        BY <1>2, <1>4, <3>1
      <4> HIDE DEF r, w, a, n
      <4> QED
        BY <3>0, <4>1 DEF IsRun
    <3>5. JumpEnds(code[w]) <=> n = 1
      BY <2>1, <2>2, <3>1, SMT DEF JumpEnds
    <3>6. n = 4 => Reached(r.fn)
      <4> SUFFICES ASSUME n = 4 PROVE Reached(r.fn)
        OBVIOUS
      <4>1. code[w + 3] = <<"jump", q, 4, 4>>
        <5>1. w + 4 - 1 = w + 3
          BY <1>2, SMT
        <5>2. code[w + 4 - 1] = [code[w] EXCEPT ![4] = 4]
          BY <2>2, <2>4, <3>1 DEF JumpRuns
        <5> QED
          BY <2>2, <5>1, <5>2
      <4>2. w + 3 \in r.fn .. r.fn + Length[r.fn] - 1
        BY <1>2, <3>2, Apart, SMT
      <4>3. code[w + 3] # Orig(w + 3)
        BY <4>1, SMT DEF Orig
      <4>4. PICK u \in Replaces :
              /\ code[w + 3] = <<"jump", u, JumpSize(r.fn, u), w + 3 - r.fn + 1>>
              /\ w + 3 = r.fn + JumpSize(r.fn, u) - 1 => Reached(r.fn)
        BY <1>2, <4>2, <4>3, WordIs, SMT
      <4>5. JumpSize(r.fn, u) = 4
        BY <4>1, <4>4, SMT
      <4> QED
        BY <1>2, <3>2, <4>4, <4>5, SMT
    <3>7. Running(s)
      <4>1. CASE n = 1
        <5>1. Reached(s.fn) /\ s.at = <<"replace", q>> /\ s.next = s.fn
          BY <1>2, <1>4, <3>2, <3>4, <3>5, <4>1, SMT
        <5> QED
          BY <1>2, <3>4, <5>1 DEF Running
      <4>2. CASE n # 1
        <5>1. 1 \in 1..n - 1 /\ s.at = <<"code", s.fn + 1>>
          BY <2>1, <3>2, <3>4, <3>5, <4>2, SMT
        <5> QED
          BY <1>2, <3>2, <3>4, <3>6, <5>1 DEF Running
      <4> QED
        BY <4>1, <4>2
    <3> QED
      BY <1>1, <3>3, <3>7, MoveKeeps
  <2> QED
    BY <2>3, <2>4
<1> QED
  BY <1>2, <1>3, <1>4, WordIs

\* A thread in the middle of a jump.
LEMMA RunJumpKeeps ==
  ASSUME IInv, NEW x \in Runners, RunCode(x), Running(run[x]),
         NEW q \in Replaces, NEW k \in 1..JumpSize(run[x].fn, q) - 1,
         run[x].at = <<"code", run[x].fn + k>>, run[x].next = run[x].fn,
         run[x].x17 = <<"jump", q, JumpSize(run[x].fn, q), k>>,
         JumpSize(run[x].fn, q) = 4 => Reached(run[x].fn)
  PROVE  IInv'
<1> DEFINE r == run[x]
           n == JumpSize(r.fn, q)
           w == r.fn + k
<1>1. /\ fault = "none" /\ r # None
      /\ UNCHANGED <<code, perm, blocks, entries_, orig, pc, loc>>
      /\ Execute(x, code[w], w, <<"code", w + 1>>)
  BY SMT DEF RunCode
<1>2. /\ IsRun(r) /\ r.fn \in Targets /\ r.fn \in Nat /\ Length[r.fn] \in Nat
      /\ r.next \in r.fn .. r.fn + Length[r.fn] - 1 /\ n \in {3, 4} /\ k \in 1..3
      /\ w \in r.fn .. r.fn + Length[r.fn] - 1 /\ w # r.next
  <2>1. IsRun(r) /\ r.fn \in Targets /\ r.next \in r.fn .. r.fn + Length[r.fn] - 1
    BY DEF Running
  <2>2. n \in {1, 3, 4} /\ n <= Length[r.fn] /\ r.fn \in Nat /\ Length[r.fn] \in Nat
    BY <2>1, Apart, TargetIs
  <2> QED
    BY <2>1, <2>2, SMT
<1>3. Long(r.x17)
  <2>1. \A j \in 1..n : n > 1 => Long(<<"jump", q, n, j>>)
    BY LongIs
  <2> QED
    BY <1>2, <2>1, SMT
<1>4. ASSUME fault' = "torn", run' = run PROVE IInv'
  BY <1>1, <1>3, <1>4, TearKeeps
<1>5. CASE code[w] = Orig(w)
  <2>1. fault' = "torn" /\ run' = run
    BY <1>1, <1>2, <1>5, SMT DEF Execute, Orig
  <2> QED
    BY <1>4, <2>1
<1>6. ASSUME NEW u \in Replaces, code[w] = <<"jump", u, JumpSize(r.fn, u), w - r.fn + 1>>,
             w = r.fn + JumpSize(r.fn, u) - 1 => Reached(r.fn)
      PROVE  IInv'
  <2>1. CASE ~JumpRuns(x, code[w], w)
    <3>1. fault' = "torn" /\ run' = run
      BY <1>1, <1>6, <2>1, SMT DEF Execute
    <3> QED
      BY <1>4, <3>1
  <2>2. CASE JumpRuns(x, code[w], w)
    <3>1. w - r.fn + 1 = k + 1 /\ k + 1 # 1 /\ k + 1 - 1 = k
      BY <1>2, SMT
    <3>2. /\ JumpSize(r.fn, u) = 4 => k + 1 = 2
          /\ r.x17 = <<"jump", u, JumpSize(r.fn, u), k>>
      BY <1>6, <2>2, <3>1, SMT DEF JumpRuns
    <3>3. u = q /\ JumpSize(r.fn, u) = n
      BY <3>2, SMTT(20)
    <3>4. code[w] = <<"jump", q, n, k + 1>> /\ (n = 4 => k = 1)
      BY <1>2, <1>6, <3>1, <3>2, <3>3, SMT
    <3> DEFINE a == IF JumpEnds(code[w]) THEN <<"replace", q>> ELSE <<"code", w + 1>>
    <3>5. PICK s : s = [r EXCEPT !.at = a, !.x17 = code[w]]
      OBVIOUS
    <3>6. fault' = fault /\ run' = [run EXCEPT ![x] = s]
      BY <1>1, <2>2, <3>4, <3>5, SMT DEF Execute
    <3>7. IsRun(s) /\ s.fn = r.fn /\ s.next = r.next /\ s.x17 = <<"jump", q, n, k + 1>> /\ s.at = a
      <4>1. IsRun(r)
        BY <1>2
      <4> HIDE DEF r, w, a, n
      <4> QED
        BY <3>4, <3>5, <4>1 DEF IsRun
    <3>8. JumpEnds(code[w]) <=> k + 1 = (IF n = 4 THEN 2 ELSE n)
      BY <3>4, SMT DEF JumpEnds
    <3>9. CASE k + 1 = (IF n = 4 THEN 2 ELSE n)
      <4>1. Reached(r.fn)
        <5>1. n # 4 => w = r.fn + n - 1
          BY <1>2, <3>9, SMT
        <5> QED
          BY <1>6, <3>3, <5>1
      <4>2. s.at = <<"replace", q>> /\ s.next = s.fn
        BY <3>7, <3>8, <3>9
      <4>3. Running(s)
        BY <1>2, <3>7, <4>1, <4>2 DEF Running
      <4> QED
        BY <1>1, <3>6, <4>3, MoveKeeps
    <3>10. CASE k + 1 # (IF n = 4 THEN 2 ELSE n)
      <4>1. n = 3 /\ k + 1 \in 1..n - 1
        <5>1. n \in {3, 4} /\ k \in 1..3 /\ k \in 1..n - 1 /\ (n = 4 => k = 1)
          BY <1>2, <3>4
        <5> HIDE DEF n
        <5> QED
          BY <3>10, <5>1, SMT
      <4>2. s.at = <<"code", s.fn + (k + 1)>> /\ s.next = s.fn
        BY <1>2, <3>7, <3>8, <3>10, SMT
      <4>3. Running(s)
        BY <1>2, <3>7, <4>1, <4>2 DEF Running
      <4> QED
        BY <1>1, <3>6, <4>3, MoveKeeps
    <3> QED
      BY <3>9, <3>10
  <2> QED
    BY <2>1, <2>2
<1> QED
  BY <1>2, <1>5, <1>6, WordIs

\* A thread in the code of a function.
LEMMA CodeKeeps ==
  ASSUME IInv, NEW x \in Runners, RunCode(x)
  PROVE  IInv'
<1>1. run[x] # None /\ run[x].at[1] = "code" /\ Running(run[x])
  BY DEF RunCode, IInv, Runs
<1>2. CASE run[x].at = <<"code", run[x].next>> /\ run[x].x17 = None
  BY <1>1, <1>2, RunNextKeeps
<1>3. CASE \E q \in Replaces : \E k \in 1..JumpSize(run[x].fn, q) - 1 :
          /\ run[x].at = <<"code", run[x].fn + k>> /\ run[x].next = run[x].fn
          /\ run[x].x17 = <<"jump", q, JumpSize(run[x].fn, q), k>>
          /\ JumpSize(run[x].fn, q) = 4 => Reached(run[x].fn)
  BY <1>1, <1>3, RunJumpKeeps
<1>4. (\A b, i : run[x].at # <<"block", b, i>>) /\ (\A q : run[x].at # <<"replace", q>>)
  BY <1>1, SMT
<1> QED
  BY <1>1, <1>2, <1>3, <1>4 DEF Running

\* A thread in a trampoline: its words are the original ones, in order.
LEMMA BlockKeeps ==
  ASSUME IInv, NEW x \in Runners, RunBlock(x)
  PROVE  IInv'
<1> DEFINE r == run[x]
<1>1. r # None /\ r.at[1] = "block" /\ Running(r) /\ fault = "none"
  BY DEF RunBlock, IInv, Runs
<1>2. PICK b \in DOMAIN blocks : \E i \in 1..Len(blocks[b].words) :
        /\ r.at = <<"block", b, i>> /\ Whole(b, r.fn) /\ r.next = r.fn + i - 1 /\ r.x17 = None
  BY <1>1, SMT DEF Running
<1>3. PICK i \in 1..Len(blocks[b].words) :
        /\ r.at = <<"block", b, i>> /\ Whole(b, r.fn) /\ r.next = r.fn + i - 1 /\ r.x17 = None
  BY <1>2
<1>4. PICK q \in Replaces : blocks[b] = Trampoline(r.fn, JumpSize(r.fn, q))
  BY <1>3 DEF Whole
<1> DEFINE n == JumpSize(r.fn, q)
<1>5. /\ IsRun(r) /\ r.fn \in Targets /\ r.fn \in Nat /\ Length[r.fn] \in Nat
      /\ r.next \in r.fn .. r.fn + Length[r.fn] - 1 /\ n \in {1, 3, 4} /\ n <= Length[r.fn]
  BY <1>1, Apart, TargetIs DEF Running
<1>6. /\ Len(blocks[b].words) = n /\ blocks[b].back = r.fn + n /\ i \in 1..n
      /\ blocks[b].words[i] = Orig(r.next)
  <2>1. blocks[b].words = OrigWords(r.fn, n) /\ blocks[b].back = r.fn + n
    BY <1>4, SMT DEF Trampoline
  <2>2. Len(OrigWords(r.fn, n)) = n /\ \A k \in 1..n : OrigWords(r.fn, n)[k] = Orig(r.fn + k - 1)
    BY <1>5, Patches
  <2> HIDE DEF n
  <2> QED
    BY <1>3, <2>1, <2>2
<1> DEFINE a == IF i < n THEN <<"block", b, i + 1>> ELSE <<"code", r.fn + n>>
<1>7. UNCHANGED <<code, perm, blocks, entries_, orig, pc, loc>> /\ r.at[2] = b /\ r.at[3] = i
  <2>1. r.at[2] = b /\ r.at[3] = i
    BY <1>3, SMT
  <2> QED
    BY <2>1 DEF RunBlock
<1>8. PICK s : s = [r EXCEPT !.at = a, !.next = @ + 1, !.x17 = None]
  OBVIOUS
<1>9. /\ fault' = fault
      /\ run' = [run EXCEPT ![x] = IF r.next = r.fn + Length[r.fn] - 1 THEN None ELSE s]
  <2> DEFINE p == IF i < Len(blocks[b].words) THEN <<"block", b, i + 1>> ELSE <<"code", blocks[b].back>>
  <2>1. blocks[b].words[i][1] = "orig" /\ blocks[b].words[i][2] = r.next /\ p = a
    BY <1>6, SMT DEF Orig
  <2>2. /\ fault' = fault
        /\ run' = [run EXCEPT ![x] =
                     IF r.next = r.fn + Length[r.fn] - 1 THEN None
                     ELSE [r EXCEPT !.at = p, !.next = @ + 1, !.x17 = None]]
    BY <1>7, <2>1 DEF RunBlock, Execute
  <2> HIDE DEF p, a
  <2> QED
    BY <1>8, <2>1, <2>2
<1>10. IsRun(s) /\ s.fn = r.fn /\ s.next = r.next + 1 /\ s.x17 = None /\ s.at = a
  <2>1. IsRun(r)
    BY <1>5
  <2> HIDE DEF r, a
  <2> QED
    BY <1>8, <2>1 DEF IsRun
<1>11. r.next # r.fn + Length[r.fn] - 1 => Running(s)
  <2> SUFFICES ASSUME r.next # r.fn + Length[r.fn] - 1 PROVE Running(s)
    OBVIOUS
  <2>1. s.next \in s.fn .. s.fn + Length[s.fn] - 1 /\ s.fn \in Targets
    <3>1. r.next + 1 \in r.fn .. r.fn + Length[r.fn] - 1
      <4> HIDE DEF r
      <4> QED
        BY <1>5, SMT
    <3> QED
      BY <1>5, <1>10, <3>1
  <2>2. CASE i < n
    <3>1. i + 1 \in 1..Len(blocks[b].words) /\ s.next = s.fn + (i + 1) - 1
      <4>1. r.fn + i - 1 + 1 = r.fn + (i + 1) - 1 /\ i + 1 \in 1..n
        <5> HIDE DEF n, r
        <5> QED
          BY <1>5, <1>6, <2>2, SMT
      <4> QED
        BY <1>3, <1>6, <1>10, <4>1
    <3> QED
      BY <1>3, <1>10, <2>1, <2>2, <3>1 DEF Running
  <2>3. CASE ~(i < n)
    <3>1. s.next = s.fn + n
      <4>1. i = n /\ r.fn + i - 1 + 1 = r.fn + i
        <5> HIDE DEF n, r
        <5> QED
          BY <1>5, <1>6, <2>3, SMT
      <4> QED
        BY <1>3, <1>10, <4>1
    <3> QED
      BY <1>10, <2>1, <2>3, <3>1 DEF Running
  <2> QED
    BY <2>2, <2>3
<1> QED
  BY <1>1, <1>7, <1>9, <1>11, MoveKeeps

\* A replacement returns, calls the original, or finds *orig_func null.
LEMMA ReplaceKeeps ==
  ASSUME IInv, NEW x \in Runners, RunReplace(x)
  PROVE  IInv'
<1> DEFINE r == run[x]
<1>1. /\ r # None /\ r.at[1] = "replace" /\ Running(r) /\ fault = "none"
      /\ UNCHANGED <<code, perm, blocks, entries_, orig, pc, loc>>
  BY DEF RunReplace, IInv, Runs
<1>2. /\ IsRun(r) /\ r.fn \in Targets /\ r.fn \in Nat /\ Reached(r.fn)
      /\ r.next = r.fn /\ r.next \in r.fn .. r.fn + Length[r.fn] - 1
  BY <1>1, TargetIs, SMT DEF Running
<1>3. CASE run' = [run EXCEPT ![x] = None] /\ UNCHANGED fault
  BY <1>1, <1>3, MoveKeeps
<1>4. CASE /\ orig[r.fn] # None /\ UNCHANGED fault
           /\ run' = [run EXCEPT ![x].at = <<"block", orig[r.fn], 1>>, ![x].x17 = None]
  <2> DEFINE a == <<"block", orig[r.fn], 1>>
  <2>1. PICK s : s = [r EXCEPT !.at = a, !.x17 = None]
    OBVIOUS
  <2>2. run' = [run EXCEPT ![x] = s]
    BY <1>4, <2>1
  <2>3. IsRun(s) /\ s.fn = r.fn /\ s.next = r.next /\ s.x17 = None /\ s.at = a
    <3>1. IsRun(r)
      BY <1>2
    <3> HIDE DEF r, a
    <3> QED
      BY <2>1, <3>1 DEF IsRun
  <2>4. Whole(orig[r.fn], r.fn)
    BY <1>2, <1>4 DEF IInv, Trampolines
  <2>5. orig[r.fn] \in DOMAIN blocks /\ 1 \in 1..Len(blocks[orig[r.fn]].words)
    <3>1. PICK q \in Replaces : blocks[orig[r.fn]] = Trampoline(r.fn, JumpSize(r.fn, q))
      BY <2>4 DEF Whole
    <3>2. Len(blocks[orig[r.fn]].words) = JumpSize(r.fn, q) /\ JumpSize(r.fn, q) \in {1, 3, 4}
      BY <1>2, <3>1, Patches, Sizes, SMT DEF Trampoline
    <3> QED
      BY <2>4, <3>2, SMT DEF Whole
  <2>6. s.next = s.fn + 1 - 1
    BY <1>2, <2>3, SMT
  <2>7. Running(s)
    BY <1>2, <2>3, <2>4, <2>5, <2>6 DEF Running
  <2> QED
    BY <1>1, <1>4, <2>2, <2>7, MoveKeeps
<1>5. CASE orig[r.fn] = None /\ fault' = "null" /\ UNCHANGED run
  <2>1. NoPatchFault' /\ NullOnlyInInstall' /\ TornOnlyByLongPatch'
    BY <1>1, <1>2, <1>5 DEF NoPatchFault, NullOnlyInInstall, TornOnlyByLongPatch, Reached
  <2>2. \A q : Running(q) => Running(q)'
    BY <1>1, RunningKept
  <2>3. Runs' /\ DOMAIN run' = Runners
    BY <1>5, <2>2 DEF IInv, Runs, Types
  <2> QED
    BY <1>1, <2>1, <2>3, RunnerKeeps
<1> QED
  BY <1>3, <1>4, <1>5 DEF RunReplace

\* A thread calls a function.
LEMMA CallKeeps ==
  ASSUME IInv, NEW x \in Runners, NEW t \in Targets, Call(x, t)
  PROVE  IInv'
<1> DEFINE s == [fn |-> t, at |-> <<"code", t>>, next |-> t, x17 |-> None]
<1>1. /\ fault = "none" /\ run' = [run EXCEPT ![x] = s]
      /\ UNCHANGED <<code, perm, blocks, entries_, orig, pc, loc, fault>>
  BY DEF Call
<1>2. t \in Nat /\ t \in t .. t + Length[t] - 1
  BY TargetIs, SMT
<1>3. Running(s)
  BY <1>2 DEF Running, IsRun
<1> QED
  BY <1>1, <1>3, MoveKeeps
-----------------------------------------------------------------------------
(* The theorems *)

\* Every step keeps the invariant.
LEMMA NextKeeps == IInv /\ [Next]_vars => IInv'
<1> SUFFICES ASSUME IInv, [Next]_vars PROVE IInv'
  OBVIOUS
<1>1. ASSUME UNCHANGED <<code, perm, blocks, entries_, orig, pc, loc, run, fault>> PROVE IInv'
  <2>1. Types'
    BY <1>1 DEF IInv, Types
  <2>2. \A c \in Callers : OwnBlock(c)'
    BY <1>1 DEF IInv, OwnBlock, Whole
  <2>3. \A q : Running(q) => Running(q)'
    BY <1>1, RunningKept
  <2>4. Runs'
    BY <1>1, <2>3 DEF IInv, Runs
  <2>5. NoPatchFault' /\ NullOnlyInInstall' /\ TornOnlyByLongPatch'
    BY <1>1 DEF IInv, NoPatchFault, NullOnlyInInstall, TornOnlyByLongPatch, Long
  <2> QED
    BY <1>1, <2>1, <2>2, <2>4, <2>5, CallsKept DEF IInv
<1>2. ASSUME NEW c \in Callers, NEW t \in Targets, InstallFails(c, t) \/ UninstallFails(c, t)
      PROVE  IInv'
  <2>1. pc' = pc
    BY <1>2 DEF InstallFails, UninstallFails, Goto, IInv, Types
  <2> QED
    BY <1>1, <1>2, <2>1 DEF InstallFails, UninstallFails
<1>3. CASE UNCHANGED vars
  BY <1>1, <1>3 DEF vars
<1>4. ASSUME NEW c \in Callers, Step(c) PROVE IInv'
  BY <1>4, ReadKeeps, CopyKeeps, ProtectKeeps, ProtectFailsKeeps, PatchWordKeeps, UnprotectKeeps,
     AddKeeps, PublishKeeps DEF Step
<1> QED
  BY <1>2, <1>3, <1>4, AllocKeeps, UninstallKeeps, CodeKeeps, BlockKeeps, ReplaceKeeps, CallKeeps
     DEF Next

\* The invariant holds in every state.
THEOREM HookInvariant == Spec => []IInv
  BY InitIInv, NextKeeps, PTL DEF Spec

\* PatchCode never writes to a page that is not writable.
THEOREM HookNoPatchFault == Spec => []NoPatchFault
<1>1. IInv => NoPatchFault
  BY DEF IInv
<1> QED
  BY <1>1, HookInvariant, PTL

\* A thread executes half a jump only where a jump of several words is or was
\* being copied: a B is safe to write and to remove under running threads.
THEOREM HookTornOnlyByLongPatch == Spec => []TornOnlyByLongPatch
<1>1. IInv => TornOnlyByLongPatch
  BY DEF IInv
<1> QED
  BY <1>1, HookInvariant, PTL

\* A replacement finds *orig_func null only while HookInstall is at work.
THEOREM HookNullOnlyInInstall == Spec => []NullOnlyInInstall
<1>1. IInv => NullOnlyInInstall
  BY DEF IInv
<1> QED
  BY <1>1, HookInvariant, PTL

\* A trampoline that was handed out runs the original function.
THEOREM HookOrigRunsOriginal == Spec => []OrigRunsOriginal
<1>1. IInv => OrigRunsOriginal
  <2> SUFFICES ASSUME IInv, NEW t \in Targets, orig[t] # None
               PROVE  LET b == blocks[orig[t]] IN
                      /\ b.words = OrigWords(t, Len(b.words)) /\ b.words # <<>>
                      /\ b.back = t + Len(b.words)
    BY DEF OrigRunsOriginal
  <2>1. PICK r \in Replaces : blocks[orig[t]] = Trampoline(t, JumpSize(t, r))
    BY DEF IInv, Trampolines, Whole
  <2>2. Len(OrigWords(t, JumpSize(t, r))) = JumpSize(t, r) /\ JumpSize(t, r) \in {1, 3, 4}
    BY Patches, Sizes
  <2>3. OrigWords(t, JumpSize(t, r)) # <<>>
    BY <2>2, SMT
  <2> QED
    BY <2>1, <2>2, <2>3, SMT DEF Trampoline
<1> QED
  BY <1>1, HookInvariant, PTL

\* Between calls the registry tells what the code is.
THEOREM HookCodeMatchesRegistry == Spec => []CodeMatchesRegistry
<1>1. IInv => CodeMatchesRegistry
  <2> SUFFICES ASSUME IInv, Idle, NEW w \in Words
               PROVE  LET hooks == {i \in DOMAIN entries_ :
                            w \in entries_[i].target .. entries_[i].target + Len(entries_[i].saved) - 1}
                      IN  IF hooks = {} THEN code[w] = Orig(w)
                          ELSE \A i \in hooks : code[w] =
                            BuildJumpPatch(entries_[i].target, entries_[i].replace)[w - entries_[i].target + 1]
    BY DEF CodeMatchesRegistry
  <2>1. ASSUME NEW i \in DOMAIN entries_
        PROVE  /\ entries_[i].target \in Targets /\ entries_[i].replace \in Replaces
               /\ Len(entries_[i].saved) = Size(entries_[i]) /\ entries_[i].target \in Nat
               /\ Size(entries_[i]) \in {1, 3, 4}
    <3>1. entries_[i] \in Entries
      BY SMT DEF IInv, Types
    <3> QED
      BY <3>1, EntryIs, Patches, Sizes, TargetIs, SMT DEF Size
  <2>2. ASSUME NEW i \in DOMAIN entries_, w \in Region(entries_[i])
        PROVE  code[w] =
                 BuildJumpPatch(entries_[i].target, entries_[i].replace)[w - entries_[i].target + 1]
    <3>1. w - entries_[i].target + 1 \in 1..Size(entries_[i])
      BY <2>1, <2>2, SMT DEF Region
    <3>2. code[w] = Jump(entries_[i], w)
      BY <2>2 DEF IInv, CodeInv
    <3> QED
      BY <2>1, <3>1, <3>2, Patches DEF Size, Jump
  <2>3. (\A i \in DOMAIN entries_ : w \notin Region(entries_[i])) => code[w] = Orig(w)
    BY DEF IInv, CodeInv, Idle, Work
  <2> QED
    BY <2>1, <2>2, <2>3 DEF Region
<1> QED
  BY <1>1, HookInvariant, PTL
-----------------------------------------------------------------------------
(* The refinement of HookTable *)

\* The jump of the function to the replacement has its last word.
Live(t, r) == code[t + JumpSize(t, r) - 1] = <<"jump", r, JumpSize(t, r), JumpSize(t, r)>>

\* The function is registered with the replacement, or a call is at work on it.
Owns(t, r) ==
  \/ \E i \in DOMAIN entries_ : entries_[i].target = t /\ entries_[i].replace = r
  \/ \E c \in Callers : pc[c] \in Work /\ loc[c].target = t /\ loc[c].replace = r

\* The jump that is live is the one that owns the function, and tells Hooked.
HookedIs ==
  \A t \in Targets, r \in Replaces :
    /\ Live(t, r) => Owns(t, r) /\ Hooked[t] = r
    /\ Owns(t, r) /\ ~Live(t, r) => Hooked[t] = None
    /\ (\A q \in Replaces : ~Live(t, q)) => Hooked[t] = None

\* One jump owns a function.
LEMMA OwnsOne ==
  ASSUME IInv, NEW t, NEW r, NEW q, Owns(t, r), Owns(t, q)
  PROVE  r = q
  BY OneCaller, SMT DEF IInv, Owns, Registry

\* A word that is not the original one is of a jump that owns its function.
LEMMA Owned ==
  ASSUME IInv, NEW w \in Words, code[w] # Orig(w)
  PROVE  \E t \in Targets, r \in Replaces :
           /\ Owns(t, r) /\ w \in t .. t + JumpSize(t, r) - 1
           /\ code[w] = <<"jump", r, JumpSize(t, r), w - t + 1>>
<1> USE DEF IInv
<1>1. ASSUME NEW i \in DOMAIN entries_, w \in Region(entries_[i])
      PROVE  \E t \in Targets, r \in Replaces :
               /\ Owns(t, r) /\ w \in t .. t + JumpSize(t, r) - 1
               /\ code[w] = <<"jump", r, JumpSize(t, r), w - t + 1>>
  <2>1. entries_[i] \in Entries
    BY SMT DEF Types
  <2>2. entries_[i].target \in Targets /\ entries_[i].replace \in Replaces
    BY <2>1, EntryIs
  <2>3. Owns(entries_[i].target, entries_[i].replace)
    BY DEF Owns
  <2> QED
    BY <1>1, <2>2, <2>3 DEF CodeInv, Region, Size, Jump
<1>2. ASSUME NEW c \in Callers, pc[c] \in Work, w \in Region(loc[c])
      PROVE  \E t \in Targets, r \in Replaces :
               /\ Owns(t, r) /\ w \in t .. t + JumpSize(t, r) - 1
               /\ code[w] = <<"jump", r, JumpSize(t, r), w - t + 1>>
  <2>1. loc[c].target \in Targets /\ loc[c].replace \in Replaces
    BY <1>2 DEF Locals, Work
  <2>2. Owns(loc[c].target, loc[c].replace)
    BY <1>2 DEF Owns
  <2>3. code[w] = Jump(loc[c], w)
    BY <1>2 DEF CodeInv, AtWork
  <2> QED
    BY <1>2, <2>1, <2>2, <2>3 DEF Region, Size, Jump
<1> QED
  BY <1>1, <1>2 DEF CodeInv

\* What Hooked tells of a function.
LEMMA HookedTells == IInv => HookedIs
<1> SUFFICES ASSUME IInv, NEW t \in Targets, NEW r \in Replaces
             PROVE  /\ Live(t, r) => Owns(t, r) /\ Hooked[t] = r
                    /\ Owns(t, r) /\ ~Live(t, r) => Hooked[t] = None
                    /\ (\A q \in Replaces : ~Live(t, q)) => Hooked[t] = None
  BY DEF HookedIs
<1> DEFINE live == {n \in {1, 3, 4} : t + n - 1 \in Words /\ LET w == code[t + n - 1] IN
                                        w[1] = "jump" /\ w[3] = n /\ w[4] = n}
<1>1. Hooked[t] = IF live = {} THEN None ELSE code[t + (CHOOSE n \in live : TRUE) - 1][2]
  BY DEF Hooked
<1>2. ASSUME NEW n \in live
      PROVE  \E q \in Replaces : /\ Owns(t, q) /\ Live(t, q) /\ code[t + n - 1][2] = q
                                 /\ n = JumpSize(t, q)
  <2> DEFINE w == t + n - 1
  <2>1. w \in Words /\ code[w][1] = "jump" /\ code[w][3] = n /\ code[w][4] = n /\ n \in {1, 3, 4}
    OBVIOUS
  <2>2. code[w] # Orig(w)
    BY <2>1, SMT DEF Orig
  <2>3. PICK u \in Targets, q \in Replaces :
          Owns(u, q) /\ code[w] = <<"jump", q, JumpSize(u, q), w - u + 1>>
    BY <2>1, <2>2, Owned
  <2>4. JumpSize(u, q) = n /\ w - u + 1 = n /\ code[w][2] = q
    BY <2>1, <2>3, SMT
  <2>5. u = t
    BY <2>1, <2>4, TargetIs, SMT
  <2> QED
    BY <2>3, <2>4, <2>5 DEF Live
<1>3. ASSUME NEW q \in Replaces, Live(t, q)
      PROVE  JumpSize(t, q) \in live
  <2>1. JumpSize(t, q) \in {1, 3, 4} /\ t + JumpSize(t, q) - 1 \in Words
    BY Apart, TargetIs, SMT
  <2> QED
    BY <1>3, <2>1, SMT DEF Live
<1>4. ASSUME live # {}
      PROVE  \E q \in Replaces : Owns(t, q) /\ Live(t, q) /\ Hooked[t] = q
  <2>1. (CHOOSE n \in live : TRUE) \in live
    BY <1>4
  <2> HIDE DEF live
  <2> QED
    BY <1>1, <1>2, <1>4, <2>1
<1>5. live = {} => Hooked[t] = None
  BY <1>1
<1> HIDE DEF live
<1>6. ASSUME Live(t, r) PROVE Owns(t, r) /\ Hooked[t] = r
  <2>1. JumpSize(t, r) \in live
    BY <1>3, <1>6
  <2>2. PICK p \in Replaces : Owns(t, p) /\ code[t + JumpSize(t, r) - 1][2] = p
    BY <1>2, <2>1
  <2>3. p = r
    BY <1>6, <2>2, SMT DEF Live
  <2>4. PICK q \in Replaces : Owns(t, q) /\ Hooked[t] = q
    BY <1>4, <2>1
  <2> QED
    BY <2>2, <2>3, <2>4, OwnsOne
<1>7. Owns(t, r) /\ ~Live(t, r) => Hooked[t] = None
  BY <1>4, <1>5, OwnsOne
<1>8. (\A q \in Replaces : ~Live(t, q)) => Hooked[t] = None
  BY <1>4, <1>5
<1> QED
  BY <1>6, <1>7, <1>8

\* A word that PatchCode writes changes what one function runs, or nothing.
LEMMA PatchRefines ==
  ASSUME IInv, HookedIs, HookedIs', NEW c \in Callers, PatchWord(c)
  PROVE  [Table!Next]_Hooked
<1>0. PICK T, R, i : T = loc[c].target /\ R = loc[c].replace /\ i = loc[c].i
  OBVIOUS
<1> DEFINE w == T + i - 1
<1>1. /\ pc[c] = "patch" /\ pc' = [pc EXCEPT ![c] = IF loc[c].i = Len(loc[c].patch)
                                                    THEN "unprotect" ELSE "patch"]
      /\ loc' = [loc EXCEPT ![c].i = @ + 1]
      /\ UNCHANGED code \/ code' = [code EXCEPT ![w] = loc[c].patch[i]]
  BY <1>0 DEF PatchWord, Goto
<1>2. /\ T \in Targets /\ R \in Replaces /\ i \in 1..JumpSize(T, R) /\ IsLoc(loc[c])
      /\ R # None
  BY <1>0, <1>1, HookAssumption DEF IInv, Locals, Size
<1>3. /\ w \in T .. T + JumpSize(T, R) - 1 /\ w \in Words
  BY <1>2, Apart, SMT
<1>4. Owns(T, R) /\ Owns(T, R)'
  <2>1. loc'[c].target = T /\ loc'[c].replace = R
    BY <1>0, <1>1, <1>2 DEF IInv, Types, IsLoc
  <2>2. pc'[c] \in Work /\ pc[c] \in Work
    BY <1>1 DEF IInv, Types, Work
  <2> QED
    BY <1>0, <2>1, <2>2 DEF Owns
<1>5. ASSUME NEW t \in Targets, t # T PROVE Hooked'[t] = Hooked[t]
  <2>1. ASSUME NEW q \in Replaces PROVE Live(t, q)' <=> Live(t, q)
    <3>1. t + JumpSize(t, q) - 1 \in t .. t + Length[t] - 1 /\ t + JumpSize(t, q) - 1 \in Words
      BY Apart, TargetIs, SMT
    <3>2. t + JumpSize(t, q) - 1 # w
      BY <1>2, <1>3, <1>5, <3>1, Apart
    <3>3. code'[t + JumpSize(t, q) - 1] = code[t + JumpSize(t, q) - 1]
      BY <1>1, <3>1, <3>2 DEF IInv, Types
    <3> QED
      BY <3>3 DEF Live
  <2> QED
    BY <1>2, <2>1 DEF HookedIs
<1>6. /\ Hooked[T] = IF Live(T, R) THEN R ELSE None
      /\ Hooked'[T] = IF Live(T, R)' THEN R ELSE None
  BY <1>2, <1>4 DEF HookedIs
<1>7. /\ Hooked = [t \in Targets |-> Hooked[t]] /\ Hooked' = [t \in Targets |-> Hooked'[t]]
  BY SMT DEF Hooked
<1>8. CASE Live(T, R)' <=> Live(T, R)
  <2>1. \A t \in Targets : Hooked'[t] = Hooked[t]
    BY <1>5, <1>6, <1>8
  <2> QED
    BY <1>7, <2>1
<1>9. CASE Live(T, R)' /\ ~Live(T, R)
  <2>1. Hooked[T] = None /\ Hooked'[T] = R
    BY <1>6, <1>9
  <2>2. Hooked' = [Hooked EXCEPT ![T] = R] /\ Hooked' # Hooked
    BY <1>2, <1>5, <1>7, <2>1
  <2> QED
    BY <1>2, <2>1, <2>2 DEF Table!Next, Table!Install
<1>10. CASE Live(T, R) /\ ~Live(T, R)'
  <2>1. Hooked[T] = R /\ Hooked'[T] = None
    BY <1>6, <1>10
  <2>2. Hooked' = [Hooked EXCEPT ![T] = None] /\ Hooked' # Hooked
    BY <1>2, <1>5, <1>7, <2>1
  <2> QED
    BY <1>2, <2>1, <2>2 DEF Table!Next, Table!Uninstall
<1> QED
  BY <1>8, <1>9, <1>10

\* No other step writes to the code.
LEMMA OthersRefine ==
  ASSUME [Next]_vars, \A c \in Callers : ~PatchWord(c)
  PROVE  UNCHANGED Hooked
<1>1. code' = code
  BY DEF Next, vars, Step, InstallFails, UninstallFails, Uninstall, InstallAlloc, BeginWrite,
         CopyBlock, EndWrite, Protect, ProtectFails, Unprotect, Add, Publish, RunCode, RunBlock,
         RunReplace, Call
<1> QED
  BY <1>1, SMT DEF Hooked

\* HookInstall and HookUninstall implement the table of hooks: no call
\* redirects a function other than its target, and none replaces a hook by
\* another, whatever words the calls and the threads interleave at.
THEOREM HookImplementsTable == Spec => ImplementsTable
<1>1. Init => Table!Init
  <2> SUFFICES ASSUME Init PROVE Hooked = [t \in Targets |-> None]
    BY DEF Table!Init
  <2> SUFFICES ASSUME NEW t \in Targets
               PROVE  {n \in {1, 3, 4} : t + n - 1 \in Words /\ LET w == code[t + n - 1] IN
                                         w[1] = "jump" /\ w[3] = n /\ w[4] = n} = {}
    BY DEF Hooked
  <2> QED
    BY DEF Init, Orig
<1>2. IInv /\ [Next]_vars /\ HookedIs /\ HookedIs' => [Table!Next]_Hooked
  BY PatchRefines, OthersRefine
<1>3. Spec => [](IInv /\ HookedIs)
  BY HookInvariant, HookedTells, PTL
<1> QED
  BY <1>1, <1>2, <1>3, PTL DEF Spec, ImplementsTable, Table!Spec
=============================================================================
