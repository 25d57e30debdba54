# Specifications of CALVIN_HOOK

TLA+ models of the inline hook SDK, the Java hook bridge and the script engine
of CALVIN_HOOK, the TLC models that check them on small instances, and TLAPS
proofs that hold for every instance. `PROJECT.json` maps every definition to
the lines it models and lists the runs, the mutants that show each property
can fail, the hazards and the theorems. Paths below are relative to
`src/app/src/main/` unless they begin with `src/`.

## The system and its parts

The program is one native library inside an Android process. A call of a
hooked native function goes through code that `hook_sdk` has written over its
first instructions; a call of a hooked Java method goes through a trampoline of
LSPlant to `HookBridge.dispatch`; scripts arrive on a socket or through JNI,
run one at a time under the `JSScope` lock, and install native hooks whose
callbacks are JavaScript again.

| Part | Source | State and operations | Concurrency | Module |
|---|---|---|---|---|
| Hook API and registry | `cpp/hook_sdk/src/hook_api.cpp`, `hook_registry.cpp` | vector of entries; HookInstall, HookUninstall | no lock; other threads run the functions | `HookApi`, `HookTable` |
| Code patching | `cpp/hook_sdk/src/code_patch.cpp` | page permissions, code words | races with threads that execute | `HookApi` |
| Jump patches | `cpp/hook_sdk/src/trampoline.cpp` | three encodings, 4, 12 and 16 bytes | none | `HookApi` |
| Relocator, assembler | `cpp/hook_sdk/src/relocator.cpp`, `assembler.cpp` | code words to code words, labels | none | `Relocator` |
| Near-code allocator | `cpp/hook_sdk/src/memory_allocator.cpp` | pages and bytes used | the process maps and unmaps meanwhile | `NearCodeAllocator` |
| LSPlant trampolines | `cpp/lsplant/lsplant.cc` | one atomic word, one atomic flag | lock free, any thread | `TrampolinePool` |
| HookBridge, MethodHook | `java/com/io/hook/HookBridge.java`, `MethodHook.java`, `MethodReplacement.java` | map of entries, sorted callbacks | hookers, unhookers, callers | `HookBridge` |
| Interceptor, JSScope, LoadScript | `cpp/js_engine/src/js_interceptor.cpp`, `js_scope.h`, `js_engine.cpp` | recursive lock, attach entries, live hooks | script threads and every thread that calls a hooked function | `Interceptor` |
| Script server | `cpp/js_engine/src/js_socket_server.cpp` | descriptors, running flag, threads | accept loop, one thread a client, scripts | `SocketServer` |
| Script protocol, client | same file, 34-153, `src/calvin.py` | line buffer, base64, JSON | client and handler | `ScriptProtocol` |
| Code of `Interceptor.attach` | `js_interceptor.cpp` 38-300 | registers and stack | none | `AttachCode` |
| LSPlant Hook, UnHook, Deoptimize | `cpp/lsplant/lsplant.cc`, `common.cxx` | concurrent maps, entry points | class initialisation, instrumentation, JIT | `LSPlant` |
| LSPlant's hooks in ART | `cpp/lsplant/art/mirror/class.cxx`, `runtime/class_linker.cxx`, `instrumentation.cxx`, `jit/jit_code_cache.cxx` | entry points kept during initialisation, JIT movements | called by ART at any time | `LSPlant` |
| ELF symbol resolver | `cpp/hook_sdk/src/elf_symbol_resolver.cpp` | symbol table, filled once | none | not modelled |
| NativeFunction, NativeCallback, NativePointer, Memory, Module, Java, runtime | `cpp/js_engine/src/js_*.cpp`, `js_runtime.js` | wrappers | under JSScope | not modelled |
| JNI glue, demo | `cpp/native-lib.cpp`, `MainActivity.java`, `ScriptEngine.java` | none | | not modelled |
| QuickJS, dex_builder, xz, parallel_hashmap | vendored | | | not modelled |

How they meet: `HookInstall` takes its block from the allocator, fills it with
the relocator and patches the function; `HookApi` has the allocator as a step
that succeeds or fails and relocated code as "runs the original words", which
`NearCodeAllocator` and `Relocator` justify. `Interceptor` takes `HookInstall`
and `HookUninstall` as single steps, as `HookTable`, the abstract
specification that `HookApi` implements, allows. `HookBridge` takes LSPlant's
hook and unhook as single steps; `LSPlant` has their steps and takes the
trampoline as given, `TrampolinePool` is the part that hands it out, lock free.
`AttachCode` is the code behind one frame of `Interceptor`, `ScriptProtocol`
what one line of `SocketServer` holds. `SocketServer` and `Interceptor` share the
`JSScope` lock: the first has what happens around a script, the second what
happens inside.

## The modules

Each component has a module; `*Proofs` extends it with its theorems. `Common`
declares `None`, `HookApiSerial` adds to `HookApi` the assumption `OneCaller`.
`MCSdk`, `MCJava`, `MCScripts` and `MCServer` put components that share no state
into one run: a variable `part` says which of them a behaviour is about. They extend
the components, so the properties they check are the ones of the theorems; the
second component of a run names its initial states and steps after itself
(`AllocInit`, `PoolNext`, `BridgeSpec`, `ScriptSpec`).

**TrampolinePool.** `GenerateTrampolineFor` one atomic operation at a time:
`fetch_add` on the word (page address and count in one integer), `test_and_set`,
the wait, `mmap` and its failure, the store of the new page, the clear of the
flag, the copy of the shellcode. The word is a pair whose count carries into the
page when it reaches `CountRange`; the assumption `CountFits` says how many
threads and failing `mmap` calls the bit field allows.

**HookApi.** Memory is a function from word addresses to words, a word is an
instruction of a function, a part of a jump patch or relocated code. A calling
thread goes through `HookInstall` (Find, allocate, relocate, save, patch, Add,
assign `*orig_func`) and `HookUninstall` (Find, Remove, patch, and Add again on
failure); `PatchCode` is two `mprotect` calls around a copy of one word at a
time, and `mprotect` gets the start and the length rounded to pages as
`MakeMemoryRWX` rounds them (`PageAlign`, `Total`). Threads that run functions
step through words at every moment of it.
`HookTable` is the promise to a caller: a table of hooked functions, in which
install and uninstall each take effect in one step or fail with no effect.

**Relocator.** An instruction is a record of the fields the relocator reads.
Each turn of the loop is a step (`RelocateOne`): it reads an instruction, appends
its piece of code and places a label for the literal that the piece loads. `Complete`
appends the branch back and calls `Finalize`, which pads the code, puts the literals
behind it and resolves the labels. Then two processors begin in the same state, one
at the function's own instructions and one at the relocated ones; the states of the
first are kept as a trace (`orig`), and `starts`, which only the proofs read, says
where each piece begins. The literals lie a few dozen words away, so the 19 bits of
their offset are never exceeded.

**NearCodeAllocator.** The address space is a row of pages of `Capacity` units.
`AllocNearCode` tries its own pages, then reads the maps, then tries the
candidates around the target one `mmap` at a time, and then any page; the rest
of the process maps and unmaps pages between those steps. A page that somebody
mapped since the maps were read is taken over by the `MAP_FIXED` fallback
(`replaced`), and its first owner, who knows nothing of it, may unmap it. The third
tier is the code's, a page anywhere, not the code caves that `memory_allocator.h:20`
and `src/README.md:104` name. `AllocStub` is
`AllocPage`, which hands out a whole page and leaves its `used` at 0, so that a
block may lie on it again; `BlocksDisjoint` is about the blocks of
`AllocNearCode`, as no script can make a stub at present.

**HookBridge.** One method: `hookMethod` (`Hook` and `Put` inside the monitor,
`AddCallback` outside), `unhookMethod` (`Unhook`, `Size`, `NUnhook`), and calls
that take a snapshot and run the before callbacks, the original and the after
callbacks, each of which may set an outcome or throw; the cast of the result may
throw in the end. Priorities are integers of
`Width` bits, so the comparison by subtraction is modelled with its overflow.

**Interceptor.** A thread is a stack of frames; a frame says where the thread
is (waiting for the lock, in JavaScript, in the trampoline, in attach, in
detachAll) and which `AttachEntry` it works on. Scripts and callbacks choose
any API call or call of a hooked function, so they nest and interleave freely.
`HookInstall` and `HookUninstall` may fail; `detachAll` ignores that and deletes
the entry, and `stuck` is the set of functions it left hooked so.

**SocketServer.** A connection is a client; the server only has a descriptor, a
number that the kernel gives out again. `server_loop`, `handle_client` and
`SocketServer.start`, `stop`, `send` are split where the code blocks or lets
others run. A line is a unit.

**ScriptProtocol.** One connection, character by character where the code works
so: `recv` cuts the stream anywhere, `handle_client` puts the lines together,
finds the data, decodes it and escapes the result; `calvin.py` encodes, receives
until a newline or its timeout, and prints. The fixed text of a message is one
character each.

**AttachCode.** The instructions that `generate_trampolines` emits, run by a
processor with a stack of words: two saved contexts, the two dispatchers and the
original, each of which leaves only the registers that the calling convention
keeps. The callbacks replace any of x0 to x7 and the result.

**LSPlant.** The targets are methods of one class; every hook brings a backup in
a class of its own. `Hook`, `UnHook` and `Deoptimize` go through the steps in
which they change the entry points and the maps; meanwhile ART initialises classes
(`SetStatus`, `FixupStaticTrampolines`, `RestoreBackup` method by method), its
instrumentation updates entry points and its JIT collects code. What ART itself
does is taken from how LSPlant uses it. `InitNative` succeeds without several of the
functions of ART that it hooks or calls: `installed` is the set of those it found.
Without `SetStatus` or the function that ends an initialisation nothing is put back,
without the instrumentation's functions ART writes to the hooked method itself,
without those of the code cache no JIT code is moved, and without the suspension of
threads `DoHook` is two steps. `raced` records the targets on which two changes
overlapped, `exposed` those that ART changed past a hook that is not installed.

## Runs

Four runs pass, each in about two minutes; eight show a violation. The bounds
(`MaxEntries`, `MaxWork`, ...) cut the number of operations, never the interleaving of
those that happen.

| Run | Part | Instance | Shows |
|---|---|---|---|
| `sdk` | `HookApi` | 1 caller, 1 runner, 2 functions, all three jumps, patches across pages, failing `mprotect` and allocation | the API implements `HookTable`; code and registry agree between calls; the pages `mprotect` gets cover the patch; only a jump of several words is ever met half written; `*orig_func` is null only inside `HookInstall` |
| | `NearCodeAllocator` | 6 pages of 4 units, blocks of 1 and 3 units, 2 libraries | blocks are disjoint and in the allocator's pages, but where a mapping was replaced |
| `java` | `LSPlant` | 1 static method, 2 hooks, its class initialised before or later; all, none or all but one of the functions of ART found | a hooked method enters its trampoline, its backup and an unhooked method run the original, a deoptimized method stays with the interpreter |
| | `TrampolinePool` | 2 threads, 3 methods, pages of 1 slot, 1 failing `mmap` | each method has its own trampoline in a mapped page, every call returns |
| | `HookBridge` | 2 hookers, 1 caller, 2 shared callbacks | nesting, final outcome, priority order, the map and LSPlant agree, hooked callbacks stay and unhooked ones go |
| `scripts` | `Interceptor` | 1 script thread, 1 application thread, 2 functions, 2 entries, 3 frames | one thread in JavaScript, no missing original, no hook of a deleted entry and `g_entries` complete but for failed removals, everything finishes |
| | `AttachCode` | every choice of callbacks | the registers of caller and original |
| | `Relocator` | every beginning of 1, 3 and 4 instructions from a set of all classes, four states of the registers and flags | the same exit, calls, registers and flags, no literal executed, the block large enough |
| `server` | `SocketServer` | 2 clients, 1 local script thread, 2 descriptors, 3 calls | only open descriptors are closed, results go home, no joinable thread is overwritten, stop returns, lines are run |
| | `ScriptProtocol` | 2 lines, 1 broadcast, scripts of 0 to 4 bytes | lines run whole, once, in order; the client prints the result |

The violations: `hook_threads` (2 callers, 2 functions of one page), `alloc_gaps`,
`bridge_lost`, `lsplant_platform` (nothing found), `script_freed`, `attach_sp`,
`reloc_simd` (SIMD literal loads) and `wire_padding` (1 line).

Why the instances are large enough. `TrampolinePool`: the errors to be feared need two
threads at one full page, and one slot a page makes every hook reach it.
`NearCodeAllocator`: two libraries with a gap leave pages on both sides of the target
and let the process change the map in between; 1 and 3 units fill a page exactly and
not. `HookApi`: two functions that meet on a page, patches of 1, 3 and 4 words; a third
function adds nothing as functions share only pages and the registry.
`HookBridge`: two hookers are the smallest number that race, calls do not interact.
`Interceptor`: three frames are a script, a hooked call in it and an API call in its
callback. `SocketServer`: two clients on two descriptors reuse a number and also run
out of them. `Relocator`: 1, 3 and 4 are the only sizes `HookInstall` asks for.
`ScriptProtocol`: script lengths of all remainders by three, buffers shorter than a
message. `LSPlant`: a second hook of the same method meets everything that the first
left behind (deoptimized backups, JIT movements, moved code); methods of one class
share nothing else. `CONSTRAINT Explored` stops where two changes have overlapped or
ART went past a missing hook, as every property excuses that target from there on.

In `sdk` there is one calling thread because the SDK takes no lock; `hook_threads`
shows two.

`CHECK_DEADLOCK FALSE` is in every configuration but that of `lsplant_platform`, where
ART always has a step: the other systems rest once their bounded work is done (a
finished call, no connection to accept, no hook left to install).

### Fairness

The fairness is that of one part, for the behaviours that are its own.
`TrampolinePool`: weak fairness of each thread inside `GenerateTrampolineFor`; threads
of a process are scheduled. `Interceptor`: weak fairness of what a thread does once it
has begun (a script that runs ends, a lock that stays free is taken); the number
of operations is bounded, so a lock is not given to others for ever. Nothing
forces a thread to begin. `SocketServer`: weak fairness of the accept loop and, for
each thread, of its handler or the script it runs; none of the clients, so
`StopReturns` has to ask for a client that connects.

## What the violations show

* `hook_threads`, `code_patch.cpp:58`: two threads patch functions of one page, and
  the `mprotect` that ends one patch takes the write permission from under the copy of
  the other, which faults. `src/README.md:105` calls the SDK thread safe because it
  switches permissions while it writes.
* `alloc_gaps`, `memory_allocator.cpp:49`: `MAP_FIXED_NOREPLACE` refuses a page that
  was mapped since the maps were read, and the fallback to `MAP_FIXED` replaces that
  mapping, which is no gap as `memory_allocator.h:19` has it.
* `lsplant_platform`, `class.cxx:136`: where `InitNative` does not find the functions
  it can do without, it succeeds with a warning that hooks "may not persist", and they
  do not: ART's initialisation of the class, or its instrumentation, writes over the
  entry point of a hooked method. `lsplant.hpp:90` promises that the hook is invoked
  whenever the target is. Three of the warnings (`instrumentation.cxx:83`,
  `jit_code_cache.cxx:62` and `:67`, `thread_list.cxx:50`) name Android 16 and later,
  the platform that `src/README.md:485` requires and `:499` reports tests on.
* `attach_sp`, `js_interceptor.cpp:242`: x19 and LR are pushed again before the original
  is called, so it runs with SP 16 below the caller's, and an original that takes
  arguments on the stack reads them 16 bytes off. The comment at line 178 says that SP
  is unchanged (the one at line 244 has the lower SP). `RegistersKept` states what the
  code does keep.
* `bridge_lost`, `HookBridge.java:74`: `callbacks.add` comes after the monitor
  was released. An `unhookMethod` in between that finds no callback takes the
  entry out, and the new callback is never called.
* `script_freed`, `js_interceptor.cpp:424`: `detachAll` deletes entries whose
  trampolines other threads, or the calling callback itself, are still in.
* `reloc_simd`, `relocator.cpp:97`: `LDR St` and `LDR Dt` from a literal share
  `opc` values with `LDR Wt` and `LDR Xt` and are rewritten as those; the comment at
  line 111 says they are copied.
* `wire_padding`, `js_socket_server.cpp:56`: `=` counts as the digit 0, so a
  script that does not fill its last three bytes is run with NULs after it, not
  as the base64 that the comment at line 136 announces. `LinesWhole` states what
  the code does do.

`TornOnlyByLongPatch` is a weaker form of the same claim of thread safety: it excuses
patches of 12 and 16 bytes, which are copied while other threads may be between their
words.

What other properties excuse, because the code does it: `HookedAlive` and
`HooksTracked` the hooks whose removal failed in `detachAll` (`js_interceptor.cpp:421`),
which stay live on a deleted entry that no list knows; `RepliesHome` and `OwnConnection`
a connection the server has dropped, whose handler may still send to a number that was
given out again; `PrintsResult` a broadcast that arrives before the result, and the
timeout; `OrigKnown` an entry with only an onLeave; `HighestFirst`, in its proof,
priorities whose difference is no int; `OwnTrampoline` and `SlotInOwnPage`, by
`CountFits`, so many threads at a full page that its count carries into the address.

### Overlaps in LSPlant

The properties of `LSPlant` excuse a target once two changes of it, or of its backup,
have overlapped: `Hook` or `UnHook` ("not atomic", `lsplant.cc:785`), `Deoptimize`, an
initialisation, an update of the instrumentation, a collection. Exploring the overlaps
shows these losses:

* `Hook` between `BackupClassMethods` and the fix-up of the same class: the
  trampoline is not among the kept entry points and is overwritten for good.
* `UnHook` between the same two: `RestoreBackup` puts the trampoline back on a
  method that no map knows.
* `Deoptimize` that has asked `IsHooked` before `RecordHooked`: it writes the
  interpreter over the trampoline.
* An update of the instrumentation that began before `Deoptimize` and writes
  after it: the method is compiled again.
* An update of the instrumentation that has asked `IsHooked` before a hook, or reads
  the entry point between ART's fix-up and `RestoreBackup`: it writes ART's code over
  the trampoline.
* A collection between `DoHook` and `RecordJitMovement`: the code of the backup
  is freed.

Calls in the middle of an initialisation, after ART's fix-up and before
`RestoreBackup`, go past the hook. `UnHook` neither removes a pending movement
nor gives moved JIT code back to the target, so `OriginalRuns` excuses freed code
that was moved to the backup of a hook that is gone; and freed code where the hooks of
the code cache are not installed (`jit_code_cache.cxx:61-68`).

## Proofs

| Theorem | Module | For every |
|---|---|---|
| `PoolTypes`, `PoolOwnTrampoline`, `PoolSlotInOwnPage` | `TrampolinePoolProofs` | number of threads, hooks, slots, pages with `CountFits` |
| `AllocatorTypes`, `AllocatorBlocksDisjoint`, `AllocatorInOwnPage` | `NearCodeAllocatorProofs` | page size, request sizes, layout of the address space |
| `HookNoPatchFault`, `HookTornOnlyByLongPatch`, `HookNullOnlyInInstall`, `HookOrigRunsOriginal`, `HookCodeMatchesRegistry`, `HookImplementsTable` | `HookApiProofs` | set of functions and replacements, page size, reach of the jumps, number of running threads; one calling thread |
| `HookedTruthful`, `BridgeHookStays`, `BridgeNoLateCallback`, `BridgeNested`, `BridgeFinalControl`, `BridgeFailsOnlyInHook`, `BridgeHighestFirst` | `HookBridgeProofs` | number of hookers, callers, callbacks, entries; the last for priorities whose differences are ints |
| `InterceptorOneInJS`, `InterceptorOrigKnown`, `InterceptorHookedAlive`, `InterceptorHooksTracked` | `InterceptorProofs` | number of threads, functions, entries, frames |
| `LSPlantHookLive`, `LSPlantOriginalRuns`, `LSPlantDeoptimizedStays` | `LSPlantProofs` | set of targets, static or not, number of hooks, whatever `InitNative` found |
| `RelocatorFitsBlock` | `RelocatorProofs` | number, kind and order of the instructions |
| `RelocatorEquivalent`, `RelocatorNoDataExecuted` | `RelocatorProofs` | number and order of the instructions in `Relocatable`, addresses, page size, registers and flags with `Apart` |
| `SocketListedOpen`, `SocketNeverTerminates`, `SocketRepliesHome`, `SocketOwnConnection` | `SocketServerProofs` | number of clients, descriptors, scripts |

*Pool.* Nobody may own a slot twice, and that rests on arithmetic: threads that
find a page full still add to its count. `OversInv` records who has added since
the flag was last released (each thread at most once), `ReleaseInv` bounds the
releases while one page is in the word, and `CountInv` concludes with `CountFits`
that the count never carries into the page. Then `SlotInv` (a slot is claimed
once, or written once, and lies below the count of the current page) and
`NewPageInv` (a page that is mapped and not published belongs to the holder of
the flag) are preserved by every step.

*Allocator.* `PagesInv` says that the pages in the vector that were not taken from
another are distinct and mapped by the allocator, and that a call in progress has read
them all; `UsedInv` that every block ends below its page's `used`. A new block begins at
`used`, or on a page no region of the call covers, hence is disjoint from the
others, unless it lies in a page whose mapping was replaced.

*HookApi.* All properties of `HookApi` in the run `sdk` follow from one invariant. `Locals`
and `OwnBlock` say what a call holds at each of its steps, `Registry` that a
function is registered once and not while a call is at work on it. `CodeInv`
gives every word of the code: the jump of the entry that covers it, the first
part of the patch and the rest of what was there while a call copies
(`AtWork`), or the original. `Runs` is about the threads that run functions: a
thread is at the word of the function it has to run next, in place or in a
trampoline, in a jump from the first word, or in the replacement it came to from
there. Without it `TornOnlyByLongPatch` is not inductive: that a B can be
written and removed at any moment rests on nobody being between the words of
a jump of one word. `Reached` remembers that a jump was whole, so the
replacement finds `*orig_func` assigned or `HookInstall` about to do so.
For the refinement, `Hooked` (what the last word of a patch decides) is shown
to change only in the `PatchWord` that completes a patch, for its target
alone, from "none" to the replacement or back (`PatchRefines`), and in no other
step (`OthersRefine`).

*HookBridge.* Three layers. `Monitor` ties the place of each hooker to the owner
of the monitor and to what the map and LSPlant hold at that place; while the
monitor is free the two agree. `Created` and `Reaches` add the entries: every
entry has its backup but the one being put, the callbacks of an entry are
distinct, the installed entry has no unhooked callback, and a callback kept in
the map's entry is in it, so an entry that `Size` finds empty keeps none.
`Dispatches` follows each call: its log is n before callbacks, then the original
or not, then some after callbacks in reverse (`Shape`), and its outcome is the
last one set (`Decided`). Lemmas about `Adds` and `Without` (what they contain,
that they keep order and distinctness) carry the callbacks. `BridgeHighestFirst`
has the hypothesis `NoOverflow`: `compareTo` subtracts ints, and with
priorities further apart the order it gives is not the promised one.

*Interceptor.* The four safety properties follow from one
invariant. `Stacks` says that frames are pushed on frames in JavaScript only and
that the API is entered from one; with `Scoped` (JavaScript runs under the lock)
at most one thread is inside `attach` or `detachAll`, and `Counted` makes the
depth of the lock the number of frames in JavaScript. `OrigKnown` needs `Calls`: a
call is in the trampoline of an entry that is patched or about to be, and once it
has the lock no `attach` is in between. For the hooks, `Live` says that a live hook
belongs to an entry that is listed or about to be, `Private` that an `attach` in
progress works on an entry nobody else knows, and `Registry` that a listed entry
is the live hook of its function, except the one that `detachAll` has just
unhooked. The three speak of the hooks without those whose removal failed
(`tracked`); `Strays` says of the latter that each still enters the trampoline of an
entry of its function that was patched.

*SocketServer.* `Accepted` (what the loop has accepted is open and not listed),
`Scoped` (scripts run under the lock) and `Stopping` (the server is stopped only
while a script is in `stop`, or after it has joined) make both properties
inductive: without `Scoped` two scripts could be in `start` and `stop` at once.
`Handlers` says what the number in a handler stands for: its own client, and the
client whose line it runs, until the server closes that client's descriptor;
`RepliesHome` and `OwnConnection` follow.

*LSPlant.* `HookLive` alone is not inductive: during an initialisation the
trampoline is not in the method but in `backup_methods_`. `Guarded` follows it there
and back, and says that no step under way (`RestoreBackup`, the instrumentation,
`Deoptimize`) is about to write anything else to a hooked method that is not
`Excused` (raced, or exposed for want of a hook); `Bookkeeping` ties the maps to the step that each call has reached;
`KeptStatic` says that only static methods are kept. `OriginalRuns` and
`DeoptimizedStays` need a second invariant on top of it. `Belongs` says which target
every backup, kept entry point, update and JIT movement under way belongs to; in it
`Moved` follows the JIT code of a target to its backup, so that a collection frees it
only when nothing that is recorded runs it. `Sound` says of each target that is not
excused which method has its original at this step of a call (`Mine`), and that this
method runs it, or will: `Pending` is an entry point that ART has replaced and
`RestoreBackup` puts back, `Lost` one that nobody would put back, which `Sound` excludes.

*Relocator.* Two invariants. `CodeInv` is about the code: while the loop runs, the
piece of every instruction so far is `Placed` where `starts` says, with a label only
at the word that loads its literal, and code and literals take at most five words an
instruction, which gives `FitsBlock` for any instructions; `Finalize` makes every
placed piece `Ready`: its words as emitted, and its load pointing at a doubleword that
holds its literal. `RunInv` is about the processors. The first one's trace is one
state per instruction. The second one is at word d of the piece of instruction k
(`Where`), and agrees there with the state in which the first one reached instruction
k (`Inside`: the same flags, calls and registers but the scratch and the link
register, the literal loaded if the load is behind it, an inverted branch passed only
if the branch is taken); or both have left for the same address (`Out`). One lemma per
class of instruction (`RunB`, `RunBL`, `RunConditional`, ...) takes the second
processor from each word of a piece to the next, or past it in the state that the
instruction itself produces. The hypotheses say what the code relies on and does not
check; TLC evaluates both for the instance of `scripts`. `Relocatable`: literal
loads go to general registers (`reloc_simd` shows why), `LDRSW` and `LDR Qt` are left
out (copied with a warning), conditions can fail (`B.AL` and `B.NV`, which compilers do
not emit, have no inverse for `InvertCond` to give), and no instruction reads x17 or
the link register, which the relocated code overwrites; the ones that the relocator
copies are stood for by one that reads and writes a register (`ADD`). `Apart`: branches
leave the overwritten words, and the block overlaps neither them nor a target or a
literal.

All assumptions on constants are in the component modules (`PoolAssumption`,
`CountFits`, `AllocatorAssumption`, `HookAssumption`, `PatchFits`, `OneCaller`,
`BridgeAssumption`, `InterceptorAssumption`, `SocketAssumption`,
`LSPlantAssumption`, `RelocatorAssumption`), and TLC evaluates them in the runs. `PatchFits` says that the
hooked functions do not overlap and are as long as the jumps written over them;
`OneCaller` that one thread at a time calls the SDK, which takes no lock.

Only model-checked: liveness (`CallsReturn`, `Finishes`, `StopReturns`, `LinesRun`),
which rests on fairness and is outside the prover; `LinesWhole` and `PrintsResult` of
`ScriptProtocol`, which are about what recursive definitions (base64, escaping, the
search for a newline) compute, and the prover has no induction over data;
`RegistersKept` of `AttachCode`, which has no constants, so that TLC covers it entirely.

## What is not modelled

Instruction caches; bit layouts of instructions; two threads in unlocked
vectors of the registry or the allocator; kernels that ignore
`MAP_FIXED_NOREPLACE`; a `send` that blocks; ART itself, and compilations that
LSPlant redirects in `jit.cxx`; the data pointer that `MoveObsoleteMethods` clears
when there is no `MoveObsoleteMethod` (`jit_code_cache.cxx:29`; `UnHook` copies it back);
hooks that `JavaHookManager` removes behind the map of `HookBridge`; branches into the
overwritten instructions of a function;
hooks of proxy classes and of native methods;
functions shorter than the patch written over them; `LDRSW` and `LDR Qt` from a
literal, which the relocator copies with a warning; x17, which relocated code
overwrites as the architecture lets veneers do; hooks on functions that the
hook SDK or the dispatchers themselves call. `PROJECT.json`
gives the reason for each component that has no module. Most lines of the
repository are vendored (QuickJS and its number library, xz, dex_builder,
parallel_hashmap: about nine tenths); they are used through a few calls, which
appear as steps, and the rest of them is not part of this system's design.

The ELF symbol resolver runs once, alone, and then only reads: what could be stated
about it restates its order of fallbacks. A reader of it should know that the walk
of the GNU hash table counts bloom words as 32 bits wide, that symbols found in a
fallback file get the bias of the loaded library, and that the fuzzy match may
return another function.

Three observations made while reading the script API decided what to leave out:

* QuickJS passes `new_target` as `this_val` to a `JS_CFUNC_constructor`;
  `np_constructor` (`js_ptr.cpp:50`), `nf_constructor` (`js_native.cpp:404`) and
  `nc_constructor` (`js_native.cpp:639`) attach their data to it and return
  undefined, so scripts hold no instance whose life could be modelled.
* `Java.hookMethod` (`js_java_bridge.cpp:149`) records a callback nothing calls.
* `send` (`js_engine.cpp:52`) calls the callback that `native-lib.cpp:249` sets, which
  hands the message to `ScriptEngine.onNativeMessage`, while `src/README.md:424` says
  that it goes to all TCP clients.

## What could follow

1. `HookBridge` composed with `LSPlant`, with `JavaHookManager`, which goes around
   the map, as the second caller.
2. `ScriptProtocol` with its encoders and decoders as steps, one character each, as
   the loop of the relocator is, so that what they compute becomes an invariant.
