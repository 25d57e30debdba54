------------------------------- MODULE LSPlant -------------------------------
(***************************************************************************)
(* LSPlant's Hook, UnHook and Deoptimize (lsplant.cc) on its maps          *)
(* (common.cxx), and its hooks in ART: the class linker, which resets the  *)
(* entry points of static methods when their class is initialised, the     *)
(* instrumentation, which sets entry points at any time, and the           *)
(* collection of the JIT code cache.                                       *)
(*                                                                         *)
(* InitNative goes on when it does not find some of the functions of ART   *)
(* that it hooks or calls, with a warning that hooks "may not persist":    *)
(* installed is the set of those it found, and does not change.            *)
(*                                                                         *)
(* Hook and UnHook of one target do not overlap: lsplant.hpp asks for it   *)
(* and the monitor of HookBridge provides it.  Everything else may.        *)
(* The targets are methods of one class, class 0, and not native; backup b *)
(* is a method of the class b that BuildDex generates for the hook.        *)
(***************************************************************************)
EXTENDS Common, Naturals

CONSTANTS
    Targets,      \* methods that are hooked or deoptimized
    Static,       \* those of them that are static
    MaxBackups,   \* bound: hooks ever built
    Platforms     \* what InitNative may have found in the runtime

\* The functions of ART that InitNative can do without.  Instrumentation is the
\* three that set entry points; FixupStaticTrampolines stands for whichever
\* function, hooked to end in RestoreBackup, ends an initialisation.
ArtHooks == {"SetStatus", "FixupStaticTrampolines", "Instrumentation",
             "MoveObsoleteMethod", "GarbageCollectCache", "SuspendAll"}

ASSUME LSPlantAssumption ==
    /\ MaxBackups \in Nat /\ Static \subseteq Targets
    /\ Platforms \subseteq SUBSET ArtHooks
    /\ None \notin Targets \cup Nat /\ Targets \cap Nat = {}
    /\ None \notin {"tramp", "code", "jit", "interp", "resolve"}
                   \X (Targets \cup 1..MaxBackups \cup {None})

VARIABLES
    installed,        \* the members of ArtHooks that InitNative found
    entry,            \* entry point of every method
    hooked_methods_,  \* target to backup and backup to target
    hooked_classes_,  \* hooked methods, by class
    deoptimized_,     \* deoptimized_methods_set_ and deoptimized_classes_
    jit_movements_,   \* pairs of target and backup
    backup_methods_,  \* entry points kept while a class is initialised
    last, builtFor,   \* the hooks built so far and their targets
    op,               \* the Hook or UnHook at work on a target
    deopt,            \* the Deoptimize at work on a target
    class,            \* how far a class is initialised
    instr,            \* the update the instrumentation is making
    owner, freed,     \* whose JIT code it is; targets whose JIT code is gone
    raced,            \* targets on which two changes overlapped
    exposed           \* targets ART changed, for want of a hook, behind LSPlant

hooks  == <<hooked_methods_, hooked_classes_>>
inits  == <<class, backup_methods_>>
jit    == <<jit_movements_, owner, freed>>
built  == <<last, builtFor>>
vars   == <<entry, hooks, deoptimized_, inits, jit, built, op, deopt, instr,
            raced, exposed, installed>>

Backups == 1..MaxBackups
Methods == Targets \cup Backups
Classes == 0..MaxBackups
ClassOf(m)  == IF m \in Targets THEN 0 ELSE m
IsStatic(m) == m \in Static \/ (m \in Backups /\ builtFor[m] \in Static)

\* Entry points: the trampoline of a hook, the interpreter, the resolution
\* stub of a static method, compiled code, and code of the JIT.
Tramp(b) == <<"tramp", b>>
Code(m)  == <<"code", m>>
Jit(m)   == <<"jit", m>>
Interp   == <<"interp", None>>
Resolve  == <<"resolve", None>>

Idle    == [pc |-> "idle", b |-> None]
NoInstr == [m |-> None, code |-> None]
Pc(pc)  == [pc |-> pc, m |-> None, new |-> None, deopt |-> FALSE, b |-> None]

Init ==
    /\ installed \in Platforms
    /\ \E done \in BOOLEAN :
         /\ class = [c \in Classes |-> Pc(IF c = 0 /\ done THEN "initialized" ELSE "loaded")]
         /\ entry = [m \in Methods |-> IF m \in Targets /\ (m \notin Static \/ done)
                                       THEN Jit(m) ELSE Resolve]
    /\ hooked_methods_ = [m \in Methods |-> None] /\ hooked_classes_ = {}
    /\ deoptimized_ = {} /\ jit_movements_ = {}
    /\ backup_methods_ = [m \in Methods |-> None]
    /\ last = 0 /\ builtFor = [b \in Backups |-> None]
    /\ op = [t \in Targets |-> Idle] /\ deopt = [t \in Targets |-> Idle]
    /\ instr = NoInstr /\ owner = [t \in Targets |-> t] /\ freed = {}
    /\ raced = {} /\ exposed = {}

IsHooked(m) == IF m \in Targets THEN hooked_methods_[m] ELSE None
IsDeoptimized(m) == m \in deoptimized_
SetEntryPoint(m, e) == entry' = [entry EXCEPT ![m] = e]
Initialising(c) == class[c].pc \in {"saved", "fixed", "restore"}
-----------------------------------------------------------------------------
(* Hook and UnHook *)

Step(t, from, to) ==
    /\ op[t].pc = from
    /\ op' = [op EXCEPT ![t] = IF to = "idle" THEN Idle ELSE [pc |-> to, b |-> op[t].b]]

\* A target that is hooked is refused; BuildDex makes the hook and its backup.
Hook(t) ==
    /\ op[t].pc = "idle" /\ hooked_methods_[t] = None /\ last < MaxBackups
    /\ last' = last + 1
    /\ builtFor' = [builtFor EXCEPT ![last + 1] = t]
    /\ op' = [op EXCEPT ![t] = [pc |-> "doHook", b |-> last + 1]]
    /\ UNCHANGED <<entry, hooks, deoptimized_, inits, jit, deopt, instr>>

\* No trampoline, and Hook fails; else the backup becomes a copy of the target
\* and the target enters the trampoline: in one step if all threads could be
\* suspended.
DoHook(t, ok) ==
    /\ \/ ~ok /\ Step(t, "doHook", "idle") /\ UNCHANGED entry
       \/ /\ ok /\ "SuspendAll" \in installed
          /\ Step(t, "doHook", "recordHooked")
          /\ entry' = [entry EXCEPT ![op[t].b] = entry[t], ![t] = Tramp(op[t].b)]
       \/ /\ ok /\ "SuspendAll" \notin installed
          /\ Step(t, "doHook", "setEntry")
          /\ SetEntryPoint(op[t].b, entry[t])
    /\ UNCHANGED <<hooks, deoptimized_, inits, jit, built, deopt, instr>>

\* The end of DoHook while other threads run.
EnterTrampoline(t) ==
    /\ Step(t, "setEntry", "recordHooked")
    /\ SetEntryPoint(t, Tramp(op[t].b))
    /\ UNCHANGED <<hooks, deoptimized_, inits, jit, built, deopt, instr>>

RecordHooked(t) ==
    /\ Step(t, "recordHooked", "recordJit")
    /\ hooked_classes_' = hooked_classes_ \cup {t}
    /\ hooked_methods_' = [hooked_methods_ EXCEPT ![t] = op[t].b, ![op[t].b] = t]
    /\ UNCHANGED <<entry, deoptimized_, inits, jit, built, deopt, instr>>

RecordJitMovement(t) ==
    /\ Step(t, "recordJit", "recordDeoptimized")
    /\ jit_movements_' = jit_movements_ \cup {<<t, op[t].b>>}
    /\ UNCHANGED <<entry, hooks, deoptimized_, inits, owner, freed, built, deopt, instr>>

\* The backup counts as deoptimized, so that the class linker leaves it alone.
RecordBackup(t) ==
    /\ Step(t, "recordDeoptimized", "idle")
    /\ deoptimized_' = deoptimized_ \cup {op[t].b}
    /\ UNCHANGED <<entry, hooks, inits, jit, built, deopt, instr>>

UnHook(t) ==
    /\ op[t].pc = "idle" /\ hooked_methods_[t] # None
    /\ op' = [op EXCEPT ![t] = [pc |-> "eraseBackup", b |-> hooked_methods_[t]]]
    /\ hooked_methods_' = [hooked_methods_ EXCEPT ![t] = None]
    /\ UNCHANGED <<entry, hooked_classes_, deoptimized_, inits, jit, built, deopt, instr>>

EraseBackup(t) ==
    /\ Step(t, "eraseBackup", "doUnHook")
    /\ hooked_methods_' = [hooked_methods_ EXCEPT ![op[t].b] = None]
    /\ hooked_classes_' = hooked_classes_ \ {t}
    /\ UNCHANGED <<entry, deoptimized_, inits, jit, built, deopt, instr>>

DoUnHook(t) ==
    /\ Step(t, "doUnHook", "idle")
    /\ SetEntryPoint(t, entry[op[t].b])
    /\ UNCHANGED <<hooks, deoptimized_, inits, jit, built, deopt, instr>>

\* RecordDeoptimized; then the target or, when it is hooked, its backup; then
\* the entry point of that method.
Deoptimize(t) ==
    /\ \/ /\ deopt[t].pc = "idle"
          /\ deopt' = [deopt EXCEPT ![t] = [pc |-> "backup", b |-> None]]
          /\ deoptimized_' = deoptimized_ \cup {t}
          /\ UNCHANGED entry
       \/ /\ deopt[t].pc = "backup"
          /\ deopt' = [deopt EXCEPT ![t] = [pc |-> "entry",
                         b |-> IF IsHooked(t) = None THEN t ELSE IsHooked(t)]]
          /\ UNCHANGED <<entry, deoptimized_>>
       \/ /\ deopt[t].pc = "entry"
          /\ deopt' = [deopt EXCEPT ![t] = Idle]
          /\ SetEntryPoint(deopt[t].b, Interp)
          /\ UNCHANGED deoptimized_
    /\ UNCHANGED <<hooks, inits, jit, built, op, instr>>
-----------------------------------------------------------------------------
(* The hooks in ART *)

\* Mutation: the methods that are hooked are not kept.
KeptDeoptimized == deoptimized_

\* The methods whose entry points BackupClassMethods keeps, if static.
Kept == hooked_classes_ \cup deoptimized_

\* SetStatus is hooked, and a function that ends an initialisation.
PutsBack == {"SetStatus", "FixupStaticTrampolines"} \subseteq installed

\* BackupClassMethods, then the class becomes initialised.  What is kept is only
\* looked at by RestoreBackup.
SetStatus(c) ==
    /\ class[c].pc = "loaded" /\ c <= last
    /\ class' = [class EXCEPT ![c] = Pc("saved")]
    /\ backup_methods_' = [m \in Methods |->
         IF PutsBack /\ ClassOf(m) = c /\ IsStatic(m) /\ m \in Kept
         THEN entry[m] ELSE backup_methods_[m]]
    /\ UNCHANGED <<entry, hooks, deoptimized_, jit, built, op, deopt, instr>>

\* ART gives the static methods their code, or leaves them to the interpreter;
\* RestoreBackup follows if this function is hooked.
FixupStaticTrampolines(c, compiled) ==
    /\ class[c].pc = "saved"
    /\ class' = [class EXCEPT ![c] = Pc(IF "FixupStaticTrampolines" \in installed
                                        THEN "fixed" ELSE "initialized")]
    /\ entry' = [m \in Methods |-> IF ClassOf(m) # c \/ ~IsStatic(m) THEN entry[m]
                                   ELSE IF compiled THEN Code(m) ELSE Interp]
    /\ UNCHANGED <<hooks, deoptimized_, backup_methods_, jit, built, op, deopt, instr>>

\* RestoreBackup, for one of the methods that PopBackup has taken out.
RestoreBackup(c, m) ==
    /\ class[c].pc = "fixed" /\ ClassOf(m) = c /\ backup_methods_[m] # None
    /\ class' = [class EXCEPT ![c] = [pc |-> "restore", m |-> m, new |-> entry[m],
                                      deopt |-> IsDeoptimized(m), b |-> IsHooked(m)]]
    /\ SetEntryPoint(m, backup_methods_[m])
    /\ UNCHANGED <<hooks, deoptimized_, backup_methods_, jit, built, op, deopt, instr>>

\* Mutation: the new code is passed on to a backup that is deoptimized.
PassOnAlways(r) == r.b # None /\ r.new # backup_methods_[r.m]

\* The code that ART chose goes to the backup of a hooked method.
PassOn(r) == r.b # None /\ ~r.deopt /\ r.new # backup_methods_[r.m]

\* The rest of the loop: else, a deoptimized method is deoptimized again.
Propagate(c) ==
    LET r == class[c] IN
    /\ r.pc = "restore"
    /\ class' = [class EXCEPT ![c] = Pc("fixed")]
    /\ backup_methods_' = [backup_methods_ EXCEPT ![r.m] = None]
    /\ entry' = IF PassOn(r) THEN [entry EXCEPT ![r.b] = r.new]
                ELSE IF r.b = None /\ r.deopt /\ r.new # Interp
                THEN [entry EXCEPT ![r.m] = Interp] ELSE entry
    /\ UNCHANGED <<hooks, deoptimized_, jit, built, op, deopt, instr>>

Restored(c) ==
    /\ class[c].pc = "fixed" /\ \A m \in Methods : ClassOf(m) = c => backup_methods_[m] = None
    /\ class' = [class EXCEPT ![c] = Pc("initialized")]
    /\ UNCHANGED <<entry, hooks, deoptimized_, backup_methods_, jit, built, op, deopt, instr>>

\* What the instrumentation may set: a stub until the class is initialised.
QuickCode(m) ==
    {entry[m]} \cup IF IsStatic(m) /\ class[ClassOf(m)].pc # "initialized" THEN {Resolve}
                    ELSE {Code(m), Interp}

MaybeUseBackupMethod(m, code) ==
    IF IsHooked(m) # None /\ entry[m] # code THEN IsHooked(m) ELSE m

\* The three hooked functions of the instrumentation do nothing to a
\* deoptimized method and write to the backup of a hooked one.  Those of ART
\* write to the method they are given.
UpdateMethodsCode(m, code) ==
    /\ instr.m = None /\ code \in QuickCode(m)
    /\ m \in Backups => m <= last
    /\ \/ /\ "Instrumentation" \in installed /\ ~IsDeoptimized(m)
          /\ instr' = [m |-> MaybeUseBackupMethod(m, code), code |-> code]
       \/ /\ "Instrumentation" \notin installed
          /\ instr' = [m |-> m, code |-> code]
    /\ UNCHANGED <<entry, hooks, deoptimized_, inits, jit, built, op, deopt>>

SetMethodsCode ==
    /\ instr.m # None
    /\ SetEntryPoint(instr.m, instr.code)
    /\ instr' = NoInstr
    /\ UNCHANGED <<hooks, deoptimized_, inits, jit, built, op, deopt>>

\* Mutation: the collection is not preceded by the movements.
MovesNothing(t) == owner[t]

\* MoveObsoleteMethods, in the order of the list: the first movement of the
\* code of t that is still t's own, if ART's MoveObsoleteMethod was found.
MoveObsoleteMethods(t) ==
    LET moves == {b \in Backups : <<t, b>> \in jit_movements_} IN
    IF "MoveObsoleteMethod" \in installed /\ owner[t] = t /\ moves # {}
    THEN CHOOSE b \in moves : \A x \in moves : b <= x
    ELSE owner[t]

\* The movements, if the collection is hooked; then ART collects the code that
\* is not the entry point of its owner.
GarbageCollectCache ==
    /\ \/ /\ "GarbageCollectCache" \in installed
          /\ owner' = [t \in Targets |-> MoveObsoleteMethods(t)]
          /\ jit_movements_' = {}
       \/ "GarbageCollectCache" \notin installed /\ UNCHANGED <<owner, jit_movements_>>
    /\ freed' = freed \cup {t \in Targets : entry[owner'[t]] # Jit(t)}
    /\ UNCHANGED <<entry, hooks, deoptimized_, inits, built, op, deopt, instr>>
-----------------------------------------------------------------------------
Calls(t) ==
    \/ Hook(t) \/ (\E ok \in BOOLEAN : DoHook(t, ok)) \/ EnterTrampoline(t)
    \/ RecordHooked(t) \/ RecordJitMovement(t) \/ RecordBackup(t)
    \/ UnHook(t) \/ EraseBackup(t) \/ DoUnHook(t) \/ Deoptimize(t)

Runtime ==
    \/ \E c \in Classes :
         \/ SetStatus(c) \/ Propagate(c) \/ Restored(c)
         \/ \E compiled \in BOOLEAN : FixupStaticTrampolines(c, compiled)
         \/ \E m \in Methods : RestoreBackup(c, m)
    \/ \E m \in Methods : \E code \in QuickCode(m) : UpdateMethodsCode(m, code)
    \/ SetMethodsCode

\* Target t, its backups, and whether a class of theirs is being initialised.
Touched(t) == {t} \cup {b \in Backups : builtFor[b] = t}
Settled(t) == \A m \in Touched(t) : IsStatic(m) => ~Initialising(ClassOf(m))

\* Two of these are at work on t: Hook or UnHook, Deoptimize, an update of the
\* instrumentation, an initialisation.
Disturbed(t) ==
    \/ op[t].pc # "idle" /\ deopt[t].pc # "idle"
    \/ /\ op[t].pc # "idle" \/ deopt[t].pc # "idle"
       /\ instr.m \in Touched(t) \/ ~Settled(t)
    \/ instr.m \in Touched(t) /\ ~Settled(t)

\* For want of a hook, an initialisation or the instrumentation writes over the
\* entry point of t or of its backup that LSPlant has set.
Exposed(t) ==
    \E m \in {t, hooked_methods_[t]} \cap Kept :
      \/ IsStatic(m) /\ Initialising(ClassOf(m)) /\ ~PutsBack
      \/ instr.m = m /\ "Instrumentation" \notin installed

\* A collection is one step, so the overlap is with what it finds under way.
Next ==
    /\ \/ /\ (\E t \in Targets : Calls(t)) \/ Runtime
          /\ raced' = raced \cup {t \in Targets : Disturbed(t)'}
       \/ /\ GarbageCollectCache
          /\ raced' = raced \cup {t \in Targets : op[t].pc # "idle" \/ ~Settled(t)}
    /\ UNCHANGED installed
    /\ exposed' = exposed \cup {t \in Targets : Exposed(t)'}

Spec == Init /\ [][Next]_vars
-----------------------------------------------------------------------------
(* Properties.  They hold for a target on which no two changes overlapped  *)
(* and that ART did not change past a hook InitNative could not install;   *)
(* the overlaps that really lose a hook are listed in README.md.           *)

AtRest(t) == op[t].pc = "idle" /\ t \notin raced /\ Settled(t)
Quiet(t)  == AtRest(t) /\ t \notin exposed

\* A hooked method's entry point is the trampoline of its hook whenever no call
\* is at work on it: neither the initialisation of its class, nor the
\* instrumentation, nor Deoptimize, nor earlier hooks that were removed take the
\* hook away.
HookLive ==
    \A t \in Targets : Quiet(t) /\ hooked_methods_[t] # None =>
      entry[t] = Tramp(hooked_methods_[t])

\* The same on whatever platform Init accepts, what ART does past a hook that is
\* not installed included (lsplant.hpp: "Whenever the target_method is invoked,
\* the callback_method will be invoked instead").
HookPersists ==
    \A t \in Targets : AtRest(t) /\ hooked_methods_[t] # None =>
      entry[t] = Tramp(hooked_methods_[t])

\* The JIT code of t went to the backup of a hook that is gone: UnHook does not
\* take back what a collection moved.
LeftBehind(t) == owner[t] \notin {t, hooked_methods_[t]}

\* LSPlant moves the JIT code of hooked methods before it is collected.
MovesJitCode == {"MoveObsoleteMethod", "GarbageCollectCache"} \subseteq installed

RunsOriginal(m, t) ==
    \/ entry[m] \in {Code(t), Interp, Resolve}
    \/ entry[m] = Jit(t) /\ (t \in freed => LeftBehind(t) \/ ~MovesJitCode)

\* The backup of a hooked method, and a method that is not hooked, run the
\* original: never a trampoline, never the stub that BuildDex generated for the
\* backup and, where LSPlant could hook the collections, never JIT code that a
\* collection has freed, unless it was moved to a hook that is gone.
OriginalRuns ==
    \A t \in Targets : Quiet(t) =>
      RunsOriginal(IF hooked_methods_[t] = None THEN t ELSE hooked_methods_[t], t)

\* A deoptimized method stays with the interpreter, through its backup when it
\* is hooked, whatever is hooked, unhooked, initialised or updated afterwards.
DeoptimizedStays ==
    \A t \in Targets : Quiet(t) /\ deopt[t].pc = "idle" /\ IsDeoptimized(t) =>
      entry[IF hooked_methods_[t] = None THEN t ELSE hooked_methods_[t]] = Interp
=============================================================================
