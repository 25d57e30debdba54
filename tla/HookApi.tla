------------------------------ MODULE HookApi ------------------------------
(***************************************************************************)
(* HookInstall and HookUninstall (hook_api.cpp) with the registry, the     *)
(* jump patch and PatchCode they use, and threads that run the hooked      *)
(* functions meanwhile.  Nothing in the SDK takes a lock.                  *)
(*                                                                         *)
(* Memory is counted in 4-byte words: one word is one instruction.  The    *)
(* code of the functions is the words 0..NumWords-1; a replacement is an   *)
(* address anywhere.  A word of code is <<"orig", w>>, the instruction the *)
(* compiler put at w, or <<"jump", r, n, k>>, the k-th of the n words of a *)
(* jump to r.  Calls with null arguments return at once and are left out;  *)
(* so are the errors -3 and -5, which no patch size leads to.              *)
(***************************************************************************)
EXTENDS Common, Integers, Sequences

CONSTANTS
  Callers,      \* threads calling the API
  Runners,      \* threads running the hooked functions
  Targets,      \* addresses of functions, in 0..NumWords-1
  Replaces,     \* addresses of replacement functions
  NumWords,
  Length,       \* Length[t]: the words of function t
  PageWords,    \* words in a page
  BRange,       \* kMaxBRange
  AdrpRange,    \* reach of ADRP, in pages
  Failing,      \* kernel calls that may fail: "alloc", "begin", "rwx", "rx"
  MaxBlocks     \* bound: blocks of relocated code

VARIABLES
  code,       \* the words of the functions
  perm,       \* protection of each page of code: "RX" or "RWX"
  blockPerm,  \* protection of the page the relocated code is allocated in
  blocks,     \* relocated code: words and the address it branches back to
  entries_,   \* HookRegistry
  orig,       \* *orig_func of each target: a block or None
  pc, loc,    \* callers: control and locals
  run,        \* runners
  fault       \* how the process died: "none", "block", "segv", "torn" or "null"

vars == <<code, perm, blockPerm, blocks, entries_, orig, pc, loc, run, fault>>

Words == 0..NumWords - 1
Orig(w) == <<"orig", w>>
OrigWords(t, n) == [k \in 1..n |-> Orig(t + k - 1)]
WordsAt(t, n) == [k \in 1..n |-> code[t + k - 1]]
PageOf(w) == w \div PageWords

\* BuildJumpPatch: B, else ADRP+ADD+BR, else LDR+BR and an 8-byte literal.
JumpSize(from, to) ==
  IF to - from >= -BRange /\ to - from < BRange THEN 1
  ELSE IF LET d == PageOf(to) - PageOf(from) IN d >= -AdrpRange /\ d < AdrpRange
       THEN 3 ELSE 4

BuildJumpPatch(from, to) ==
  LET n == JumpSize(from, to) IN [k \in 1..n |-> <<"jump", to, n, k>>]

ASSUME HookAssumption ==
  /\ NumWords \in Nat /\ MaxBlocks \in Nat /\ PageWords \in Nat \ {0} /\ BRange \in Nat /\ AdrpRange \in Nat
  /\ Targets \subseteq Words /\ Replaces \subseteq Int /\ Length \in [Targets -> Nat \ {0}]
  /\ None \notin Int /\ None \notin {"jump"} \X Replaces \X {1, 3, 4} \X (1..4)

\* The functions that are hooked do not overlap, and the jump fits in each.
ASSUME PatchFits ==
  /\ \A t \in Targets : t + Length[t] <= NumWords
  /\ \A t, u \in Targets : t < u => t + Length[t] <= u
  /\ \A t \in Targets, r \in Replaces : JumpSize(t, r) <= Length[t]

\* Mutation: a registered target is not found, so it is hooked twice.
FindNone(t) == 0

\* Where HookRegistry::Find and Remove find the target: its first entry, or 0.
Find(t) ==
  LET found == {i \in DOMAIN entries_ : entries_[i].target = t} IN
  IF found = {} THEN 0 ELSE CHOOSE i \in found : \A j \in found : i <= j

\* std::vector::erase.
Erase(s, i) == [j \in 1..Len(s) - 1 |-> s[IF j < i THEN j ELSE j + 1]]

Init ==
  /\ code = [w \in Words |-> Orig(w)]
  /\ perm = [p \in {PageOf(w) : w \in Words} |-> "RX"]
  /\ blockPerm = "RX"
  /\ blocks = <<>>
  /\ entries_ = <<>>
  /\ orig = [t \in Targets |-> None]
  /\ pc = [c \in Callers |-> "idle"]
  /\ loc = [c \in Callers |-> None]
  /\ run = [x \in Runners |-> None]
  /\ fault = "none"

Goto(c, from, to) ==
  /\ fault = "none"
  /\ pc[c] = from
  /\ pc' = [pc EXCEPT ![c] = to]

Return(c) == loc' = [loc EXCEPT ![c] = None]
-----------------------------------------------------------------------------
\* HookInstall up to the allocation: -2 when the target is registered, -4 when
\* AllocNearCode fails.
InstallFails(c, t) ==
  /\ Goto(c, "idle", "idle")
  /\ Find(t) # 0 \/ "alloc" \in Failing
  /\ UNCHANGED <<code, perm, blockPerm, blocks, entries_, orig, loc, run, fault>>

InstallAlloc(c, t, r) ==
  /\ Goto(c, "idle", "begin")
  /\ Find(t) = 0
  /\ Len(blocks) < MaxBlocks
  /\ blocks' = Append(blocks, [words |-> <<>>, back |-> None])
  /\ loc' = [loc EXCEPT ![c] = [target |-> t, replace |-> r, blk |-> Len(blocks) + 1,
                                patch |-> BuildJumpPatch(t, r), saved |-> <<>>,
                                op |-> "install", i |-> 1]]
  /\ UNCHANGED <<code, perm, blockPerm, entries_, orig, run, fault>>

\* The instructions are read and relocated to a buffer; then BeginWrite.
BeginWrite(c) ==
  /\ Goto(c, "begin", "copy")
  /\ loc' = [loc EXCEPT ![c].saved = WordsAt(loc[c].target, Len(loc[c].patch))]
  /\ blockPerm' \in {"RWX"} \union (IF "begin" \in Failing THEN {blockPerm} ELSE {})
  /\ UNCHANGED <<code, perm, blocks, entries_, orig, run, fault>>

\* Mutation: the block branches back to the start of the function.
BackToStart(c) == loc[c].target

\* Where the block branches back to.
BackTo(c) == loc[c].target + Len(loc[c].patch)

\* The result of BeginWrite is not looked at: memcpy to a page that is not
\* writable is a fault.
CopyBlock(c) ==
  /\ Goto(c, "copy", "end")
  /\ IF blockPerm = "RWX"
     THEN /\ blocks' = [blocks EXCEPT ![loc[c].blk] =
                          [words |-> loc[c].saved, back |-> BackTo(c)]]
          /\ UNCHANGED fault
     ELSE fault' = "block" /\ UNCHANGED blocks
  /\ UNCHANGED <<code, perm, blockPerm, entries_, orig, loc, run>>

\* EndWrite, and saved_bytes are copied from the target.
EndWrite(c) ==
  /\ Goto(c, "end", "protect")
  /\ blockPerm' \in {"RX"} \union (IF "rx" \in Failing THEN {blockPerm} ELSE {})
  /\ loc' = [loc EXCEPT ![c].saved = WordsAt(loc[c].target, Len(loc[c].patch))]
  /\ UNCHANGED <<code, perm, blocks, entries_, orig, run, fault>>

\* HookUninstall: the entry leaves the registry before the code is restored.
Uninstall(c, t) ==
  LET i == Find(t) IN
  /\ i # 0
  /\ Goto(c, "idle", "protect")
  /\ entries_' = Erase(entries_, i)
  /\ loc' = [loc EXCEPT ![c] = [target |-> t, replace |-> entries_[i].replace,
                                blk |-> entries_[i].blk, patch |-> entries_[i].saved,
                                saved |-> entries_[i].saved, op |-> "uninstall", i |-> 1]]
  /\ UNCHANGED <<code, perm, blockPerm, blocks, orig, run, fault>>

\* Nothing to uninstall: -2.
UninstallFails(c, t) ==
  /\ Goto(c, "idle", "idle")
  /\ Find(t) = 0
  /\ UNCHANGED <<code, perm, blockPerm, blocks, entries_, orig, loc, run, fault>>
-----------------------------------------------------------------------------
PageAlign(addr) == addr - (addr % PageWords)

\* Mutation: the length is the rounded size, counted from the page.
SizeOnly(addr, size) == PageAlign(size + PageWords - 1)

\* How far from its page the range goes, in whole pages.
Total(addr, size) == PageAlign(addr + size + PageWords - 1) - PageAlign(addr)

\* The pages mprotect is called on: those that start in
\* PageAlign(addr) .. PageAlign(addr) + Total - 1.
PatchPages(c) ==
  LET addr == loc[c].target
      size == Len(loc[c].patch)
  IN  {g \in DOMAIN perm : /\ g * PageWords >= PageAlign(addr)
                          /\ g * PageWords < PageAlign(addr) + Total(addr, size)}

SetPerm(c, p) == perm' = [g \in DOMAIN perm |-> IF g \in PatchPages(c) THEN p ELSE perm[g]]

Protect(c) ==
  /\ Goto(c, "protect", "patch")
  /\ SetPerm(c, "RWX")
  /\ UNCHANGED <<code, blockPerm, blocks, entries_, orig, loc, run, fault>>

\* The entry of the call at work.
HookEntry(c, active) ==
  [target |-> loc[c].target, replace |-> loc[c].replace, saved |-> loc[c].saved,
   blk |-> loc[c].blk, active |-> active]

\* Mutation: the entry is not put back.
KeepEntries(c) == entries_

\* HookInstall deletes its entry, HookUninstall puts it back, inactive, at the
\* end of the registry.
PutBack(c) ==
  IF loc[c].op = "uninstall" THEN Append(entries_, HookEntry(c, FALSE)) ELSE entries_

\* mprotect failed: HookInstall returns -6, HookUninstall -3.
ProtectFails(c) ==
  /\ "rwx" \in Failing
  /\ Goto(c, "protect", "idle")
  /\ entries_' = PutBack(c)
  /\ Return(c)
  /\ UNCHANGED <<code, perm, blockPerm, blocks, orig, run, fault>>

\* memcpy, word by word.
PatchWord(c) ==
  LET l == loc[c]
      w == l.target + l.i - 1
  IN  /\ Goto(c, "patch", IF l.i = Len(l.patch) THEN "unprotect" ELSE "patch")
      /\ IF perm[PageOf(w)] = "RWX"
         THEN code' = [code EXCEPT ![w] = l.patch[l.i]] /\ UNCHANGED fault
         ELSE fault' = "segv" /\ UNCHANGED code
      /\ loc' = [loc EXCEPT ![c].i = @ + 1]
      /\ UNCHANGED <<perm, blockPerm, blocks, entries_, orig, run>>

\* The result of MakeMemoryRX is not looked at.
Unprotect(c) ==
  /\ Goto(c, "unprotect", IF loc[c].op = "uninstall" THEN "idle" ELSE "add")
  /\ SetPerm(c, "RX") \/ ("rx" \in Failing /\ UNCHANGED perm)
  /\ IF loc[c].op = "uninstall" THEN Return(c) ELSE UNCHANGED loc
  /\ UNCHANGED <<code, blockPerm, blocks, entries_, orig, run, fault>>

Add(c) ==
  /\ Goto(c, "add", "publish")
  /\ entries_' = Append(entries_, HookEntry(c, TRUE))
  /\ UNCHANGED <<code, perm, blockPerm, blocks, orig, loc, run, fault>>

\* Mutation: *orig_func is not assigned.
Unpublished(c) == orig

Published(c) == [orig EXCEPT ![loc[c].target] = loc[c].blk]

\* *orig_func is assigned last.
Publish(c) ==
  /\ Goto(c, "publish", "idle")
  /\ orig' = Published(c)
  /\ Return(c)
  /\ UNCHANGED <<code, perm, blockPerm, blocks, entries_, run, fault>>
-----------------------------------------------------------------------------
\* A runner is outside the functions (None) or at a place: <<"code", w>>,
\* <<"block", b, i>>, or <<"replace", r>> inside a replacement.  next is the
\* word of the function it has to run next, x17 the jump it is in the middle of.
Call(x, t) ==
  /\ fault = "none" /\ run[x] = None
  /\ run' = [run EXCEPT ![x] = [fn |-> t, at |-> <<"code", t>>, next |-> t, x17 |-> None]]
  /\ UNCHANGED <<code, perm, blockPerm, blocks, entries_, orig, pc, loc, fault>>

\* LDR X17 reads the literal two words on; ADD and BR need the word before.
JumpRuns(x, word, w) ==
  IF word[4] = 1
  THEN word[3] = 4 => \A k \in {3, 4} :
         w + k - 1 \in Words /\ code[w + k - 1] = [word EXCEPT ![4] = k]
  ELSE /\ word[3] = 4 => word[4] = 2
       /\ run[x].x17 = [word EXCEPT ![4] = @ - 1]

JumpEnds(word) == word[4] = (IF word[3] = 4 THEN 2 ELSE word[3])

\* The runner executes the word at its place; follow is the place after it.
Execute(x, word, w, follow) ==
  LET r == run[x]
      runs == IF word[1] = "orig" THEN word[2] = r.next ELSE JumpRuns(x, word, w)
      after ==
        IF word[1] = "jump"
        THEN [r EXCEPT !.at = IF JumpEnds(word) THEN <<"replace", word[2]>> ELSE follow,
                       !.x17 = word]
        ELSE IF r.next = r.fn + Length[r.fn] - 1 THEN None
        ELSE [r EXCEPT !.at = follow, !.next = @ + 1, !.x17 = None]
  IN  /\ fault' = IF runs THEN fault ELSE "torn"
      /\ run' = IF runs THEN [run EXCEPT ![x] = after] ELSE run

RunCode(x) ==
  /\ fault = "none" /\ run[x] # None /\ run[x].at[1] = "code"
  /\ LET w == run[x].at[2] IN Execute(x, code[w], w, <<"code", w + 1>>)
  /\ UNCHANGED <<code, perm, blockPerm, blocks, entries_, orig, pc, loc>>

\* After the last relocated word the block branches back to the function.
RunBlock(x) ==
  /\ fault = "none" /\ run[x] # None /\ run[x].at[1] = "block"
  /\ LET b == blocks[run[x].at[2]]
         i == run[x].at[3]
     IN  Execute(x, b.words[i], b.back - Len(b.words) + i - 1,
                 IF i < Len(b.words) THEN <<"block", run[x].at[2], i + 1>>
                 ELSE <<"code", b.back>>)
  /\ UNCHANGED <<code, perm, blockPerm, blocks, entries_, orig, pc, loc>>

\* A replacement calls the original through *orig_func, or returns without it.
RunReplace(x) ==
  /\ fault = "none" /\ run[x] # None /\ run[x].at[1] = "replace"
  /\ \/ run' = [run EXCEPT ![x] = None] /\ UNCHANGED fault
     \/ /\ orig[run[x].fn] # None
        /\ run' = [run EXCEPT ![x].at = <<"block", orig[run[x].fn], 1>>, ![x].x17 = None]
        /\ UNCHANGED fault
     \/ orig[run[x].fn] = None /\ fault' = "null" /\ UNCHANGED run
  /\ UNCHANGED <<code, perm, blockPerm, blocks, entries_, orig, pc, loc>>

Step(c) ==
  \/ BeginWrite(c) \/ CopyBlock(c) \/ EndWrite(c) \/ Protect(c) \/ ProtectFails(c)
  \/ PatchWord(c) \/ Unprotect(c) \/ Add(c) \/ Publish(c)

Next ==
  \/ \E c \in Callers :
       \/ Step(c)
       \/ \E t \in Targets :
            \/ InstallFails(c, t) \/ UninstallFails(c, t) \/ Uninstall(c, t)
            \/ \E r \in Replaces : InstallAlloc(c, t, r)
  \/ \E x \in Runners :
       RunCode(x) \/ RunBlock(x) \/ RunReplace(x) \/ \E t \in Targets : Call(x, t)

Spec == Init /\ [][Next]_vars
-----------------------------------------------------------------------------
Idle == \A c \in Callers : pc[c] = "idle"

\* Between calls the registry tells what the code is: the words of every entry
\* hold the whole jump to its replacement and every other word is the original
\* one, also after a PatchCode that failed (HookInstall -6, HookUninstall -3).
CodeMatchesRegistry ==
  fault = "none" /\ Idle =>
    \A w \in Words :
      LET hooks == {i \in DOMAIN entries_ :
                      w \in entries_[i].target .. entries_[i].target + Len(entries_[i].saved) - 1}
      IN  IF hooks = {} THEN code[w] = Orig(w)
          ELSE \A i \in hooks : code[w] =
                 BuildJumpPatch(entries_[i].target, entries_[i].replace)[w - entries_[i].target + 1]

\* A trampoline that was handed out in *orig_func runs the original function:
\* the words it relocated are the original ones and it branches back behind
\* them, while its hook is installed and after it was removed.
OrigRunsOriginal ==
  \A t \in Targets : orig[t] # None =>
    LET b == blocks[orig[t]] IN
    /\ b.words = OrigWords(t, Len(b.words)) /\ b.words # <<>>
    /\ b.back = t + Len(b.words)

Long(word) == word # None /\ word[1] = "jump" /\ word[3] > 1

\* A thread that runs a function while it is hooked or unhooked executes half a
\* jump, or an instruction of the function twice or not at all, only where a
\* jump of three or four words is or was being copied: a B, which is one word,
\* is safe to write and to remove at every moment, also under a thread that is
\* still inside the relocated code of an earlier hook.
TornOnlyByLongPatch ==
  fault = "torn" =>
    \E x \in Runners :
      /\ run[x] # None
      /\ Long(run[x].x17) \/ (run[x].at[1] = "code" /\ Long(code[run[x].at[2]]))

\* What a function runs once memcpy is through: the last word decides.
Hooked ==
  [t \in Targets |->
    LET live == {n \in {1, 3, 4} : t + n - 1 \in Words /\ LET w == code[t + n - 1] IN
                                   w[1] = "jump" /\ w[3] = n /\ w[4] = n}
    IN  IF live = {} THEN None ELSE code[t + (CHOOSE n \in live : TRUE) - 1][2]]

Table == INSTANCE HookTable WITH hooked <- Hooked

\* HookInstall and HookUninstall implement the table of hooks: no call redirects
\* a function other than its target, and none replaces a hook by another.
ImplementsTable == Table!Spec

\* *orig_func is assigned after the patch is live: a replacement finds it null
\* only while HookInstall is still at work on a function.
NullOnlyInInstall ==
  fault = "null" => \E c \in Callers : pc[c] \in {"unprotect", "add", "publish"}

\* PatchCode does not fault: the rounding of MakeMemoryRWX has made every page
\* that memcpy writes to writable, also where a patch crosses into the next page,
\* and no MakeMemoryRX of another call takes that back before memcpy is through.
\* With one caller this is so; with two it is not.  (The memcpy after a
\* BeginWrite that failed faults too, fault "block".)
NoPatchFault == fault # "segv"
=============================================================================
