---------------------------- MODULE LSPlantProofs ----------------------------
(***************************************************************************)
(* HookLive, OriginalRuns and DeoptimizedStays for every set of targets    *)
(* and every number of hooks.  First the trampolines: the inductive        *)
(* invariant IInv, that it holds at first, and that every step keeps it.   *)
(* Then the originals: to which target the backups belong, what their      *)
(* entry points are, and that every step keeps both (OriginalsInv).        *)
(***************************************************************************)
EXTENDS LSPlant, WellFoundedInduction, TLAPS

Entry == {"tramp", "code", "jit", "interp", "resolve"} \X (Methods \cup {None})
OpPcs == {"idle", "doHook", "recordHooked", "recordJit", "recordDeoptimized",
          "setEntry", "eraseBackup", "doUnHook"}

TypeOK ==
    /\ entry \in [Methods -> Entry]
    /\ hooked_methods_ \in [Methods -> Methods \cup {None}]
    /\ backup_methods_ \in [Methods -> Entry \cup {None}]
    /\ hooked_classes_ \subseteq Targets /\ raced \subseteq Targets
    /\ last \in 0..MaxBackups /\ builtFor \in [Backups -> Targets \cup {None}]
    /\ op \in [Targets -> [pc : OpPcs, b : Backups \cup {None}]]
    /\ deopt \in [Targets -> [pc : {"idle", "backup", "entry"}, b : Methods \cup {None}]]
    /\ class \in [Classes -> [pc : {"loaded", "saved", "fixed", "restore", "initialized"},
                              m : Methods \cup {None}, new : Entry \cup {None},
                              deopt : BOOLEAN, b : Backups \cup {None}]]
    /\ instr \in [m : Methods \cup {None}, code : Entry \cup {None}]

\* Who writes where: a backup belongs to the hook at work, or to the record.
Bookkeeping ==
    /\ \A t \in Targets :
         /\ hooked_methods_[t] \in Backups \cup {None}
         /\ op[t].pc # "idle" => op[t].b \in Backups
         /\ op[t].pc \in {"doHook", "setEntry", "recordHooked", "eraseBackup", "doUnHook"} =>
              hooked_methods_[t] = None
         /\ op[t].pc \in {"recordJit", "recordDeoptimized"} => hooked_methods_[t] = op[t].b
         /\ t \in hooked_classes_ <=> hooked_methods_[t] # None \/ op[t].pc = "eraseBackup"
         /\ deopt[t].pc = "entry" => deopt[t].b \in Backups \cup {t}
    /\ \A c \in Classes : class[c].pc = "restore" =>
         class[c].m \in Methods /\ ClassOf(class[c].m) = c /\ class[c].new \in Entry
    /\ instr.m # None => instr.code \in Entry

\* Only static methods are kept.
KeptStatic ==
    \A t \in Targets :
      backup_methods_[t] # None \/ (class[0].pc = "restore" /\ class[0].m = t) => t \in Static

Fixing(t) == t \in Static /\ Initialising(0)
Overlap(t) ==
    \/ op[t].pc # "idle" /\ deopt[t].pc # "idle"
    \/ (op[t].pc # "idle" \/ deopt[t].pc # "idle") /\ (instr.m = t \/ Fixing(t))
    \/ instr.m = t /\ Fixing(t)

\* While the class is initialised the trampoline is among the entry points kept,
\* until it is back in place; and nobody is about to write anything else there.
Guarded(t) ==
    LET b == hooked_methods_[t] IN
    /\ op[t].pc = "recordHooked" => entry[t] = Tramp(op[t].b)
    /\ b # None =>
         /\ ~Fixing(t) => entry[t] = Tramp(b)
         /\ Fixing(t) => \/ backup_methods_[t] = Tramp(b)
                         \/ /\ backup_methods_[t] = None /\ entry[t] = Tramp(b)
                            /\ class[0].pc # "saved"
         /\ Fixing(t) /\ class[0].pc = "restore" /\ class[0].m = t =>
              entry[t] = Tramp(b) /\ class[0].b = b
         /\ instr.m = t => instr.code = Tramp(b)
         /\ deopt[t].pc = "entry" => deopt[t].b = b

\* The targets of which the properties say nothing.
Excused == raced \cup exposed

IInv ==
    /\ TypeOK /\ Bookkeeping /\ KeptStatic
    /\ \A t \in Targets : (Overlap(t) => t \in raced) /\ (Exposed(t) => t \in exposed)
    /\ \A t \in Targets \ Excused : Guarded(t)

\* The leaves are for Zenon unless they say SMT.
USE Zenon

\* Targets, backups and None are told apart.
LEMMA Sets == /\ Backups \subseteq Methods /\ Targets \subseteq Methods
              /\ Targets \cap Backups = {} /\ None \notin Methods /\ 0 \in Classes
              /\ Backups \subseteq Classes /\ Static \subseteq Targets
              /\ Methods = Targets \cup Backups
  BY LSPlantAssumption, SMT DEF Backups, Methods, Classes

\* The entry points the model builds; none of them is None.
LEMMA Entries == /\ \A b \in Methods : Tramp(b) \in Entry /\ Code(b) \in Entry /\ Jit(b) \in Entry
                 /\ Interp \in Entry /\ Resolve \in Entry
                 /\ None \notin Entry
<1>1. None \notin Entry BY LSPlantAssumption DEF Entry, Methods, Backups
<1> QED BY <1>1 DEF Entry, Tramp, Code, Jit, Interp, Resolve

\* Every step keeps the types.
LEMMA Types ==
  ASSUME IInv, raced' \subseteq Targets,
         (\E t \in Targets : Calls(t)) \/ Runtime \/ GarbageCollectCache
  PROVE  TypeOK'
<1> USE Sets DEF TypeOK, IInv, Bookkeeping
<1>1. ASSUME NEW t \in Targets, Hook(t) PROVE TypeOK'
  <2>1. last + 1 \in Backups /\ last + 1 \in 0..MaxBackups
    BY <1>1, LSPlantAssumption, SMT DEF Hook, Backups
  <2> QED BY <1>1, <2>1 DEF Hook, OpPcs, hooks, inits, jit, built
<1>2. ASSUME NEW t \in Targets, NEW ok \in BOOLEAN, DoHook(t, ok) PROVE TypeOK'
  <2>1. op[t].b \in Backups BY <1>2 DEF DoHook, Step
  <2>2. Tramp(op[t].b) \in Entry BY <2>1, Entries
  <2>3. entry' \in [Methods -> Entry] BY <1>2, <2>1, <2>2, SMTT(30) DEF DoHook, SetEntryPoint
  <2>4. op' \in [Targets -> [pc : OpPcs, b : Backups \cup {None}]]
    <3>1. PICK p : op' = [op EXCEPT ![t] = p] /\ p \in {Idle, [pc |-> "recordHooked", b |-> op[t].b],
                                                         [pc |-> "setEntry", b |-> op[t].b]}
      BY <1>2 DEF DoHook, Step
    <3>2. p \in [pc : OpPcs, b : Backups \cup {None}] BY <2>1, <3>1, SMT DEF Idle, OpPcs
    <3> QED BY <3>1, <3>2
  <2>5. UNCHANGED <<hooks, deoptimized_, inits, jit, built, deopt, instr>> BY <1>2 DEF DoHook
  <2> QED BY <2>3, <2>4, <2>5 DEF hooks, inits, jit, built
<1>16. ASSUME NEW t \in Targets, EnterTrampoline(t) PROVE TypeOK'
  <2>1. op[t].b \in Backups BY <1>16 DEF EnterTrampoline, Step
  <2>2. Tramp(op[t].b) \in Entry BY <2>1, Entries
  <2>3. entry' \in [Methods -> Entry] BY <1>16, <2>2 DEF EnterTrampoline, SetEntryPoint
  <2>4. op' \in [Targets -> [pc : OpPcs, b : Backups \cup {None}]]
    BY <1>16, <2>1 DEF EnterTrampoline, Step, Idle, OpPcs
  <2> QED BY <1>16, <2>3, <2>4 DEF EnterTrampoline, hooks, inits, jit, built
<1>3. ASSUME NEW t \in Targets, RecordHooked(t) PROVE TypeOK'
  <2>1. op[t].b \in Backups BY <1>3 DEF RecordHooked, Step
  <2>2. hooked_classes_' \subseteq Targets BY <1>3, SMT DEF RecordHooked
  <2>3. hooked_methods_' \in [Methods -> Methods \cup {None}] BY <1>3, <2>1 DEF RecordHooked
  <2>4. op' \in [Targets -> [pc : OpPcs, b : Backups \cup {None}]]
    BY <1>3, <2>1 DEF RecordHooked, Step, Idle, OpPcs
  <2> QED BY <1>3, <2>2, <2>3, <2>4 DEF RecordHooked, hooks, inits, jit, built
<1>4. ASSUME NEW t \in Targets, RecordJitMovement(t) \/ RecordBackup(t) PROVE TypeOK'
  <2>1. op' \in [Targets -> [pc : OpPcs, b : Backups \cup {None}]]
    BY <1>4, SMTT(30) DEF RecordJitMovement, RecordBackup, Step, Idle, OpPcs
  <2> QED BY <1>4, <2>1, SMT DEF RecordJitMovement, RecordBackup, hooks, inits, jit, built
<1>5. ASSUME NEW t \in Targets, UnHook(t) PROVE TypeOK'
  BY <1>5 DEF UnHook, OpPcs, hooks, inits, jit, built
<1>6. ASSUME NEW t \in Targets, EraseBackup(t) PROVE TypeOK'
  BY <1>6 DEF EraseBackup, Step, Idle, OpPcs, hooks, inits, jit, built
<1>7. ASSUME NEW t \in Targets, DoUnHook(t) PROVE TypeOK'
  BY <1>7, SMTT(30) DEF DoUnHook, Step, SetEntryPoint, Idle, OpPcs, hooks, inits, jit, built
<1>8. ASSUME NEW t \in Targets, Deoptimize(t) PROVE TypeOK'
  <2>1. entry' \in [Methods -> Entry] BY <1>8, Entries, SMTT(30) DEF Deoptimize, SetEntryPoint
  <2>2. deopt' \in [Targets -> [pc : {"idle", "backup", "entry"}, b : Methods \cup {None}]]
    <3>1. hooked_methods_[t] \in Methods \cup {None} OBVIOUS
    <3>2. PICK d \in [pc : {"idle", "backup", "entry"}, b : Methods \cup {None}] :
            deopt' = [deopt EXCEPT ![t] = d]
      BY <1>8, <3>1 DEF Deoptimize, Idle, IsHooked
    <3> QED BY <3>2
  <2> QED BY <1>8, <2>1, <2>2 DEF Deoptimize, hooks, inits, jit, built
<1>9. ASSUME NEW c \in Classes, SetStatus(c) PROVE TypeOK'
  BY <1>9, SMT DEF SetStatus, Pc, hooks, inits, jit, built
<1>10. ASSUME NEW c \in Classes, NEW compiled \in BOOLEAN, FixupStaticTrampolines(c, compiled)
       PROVE TypeOK'
  BY <1>10, Entries, ZenonT(30) DEF FixupStaticTrampolines, Pc, hooks, inits, jit, built
<1>11. ASSUME NEW c \in Classes, NEW m \in Methods, RestoreBackup(c, m) PROVE TypeOK'
  BY <1>11, SMT DEF RestoreBackup, SetEntryPoint, IsHooked, IsDeoptimized, hooks, inits, jit, built
<1>12. ASSUME NEW c \in Classes, Propagate(c) \/ Restored(c) PROVE TypeOK'
  <2>1. entry' \in [Methods -> Entry] BY <1>12, Entries, SMTT(30) DEF Propagate, Restored, PassOn
  <2>2. CASE Propagate(c)
    <3>1. /\ backup_methods_' = [backup_methods_ EXCEPT ![class[c].m] = None]
          /\ class' = [class EXCEPT ![c] = Pc("fixed")]
      BY <2>2 DEF Propagate
    <3> QED BY <2>1, <2>2, <3>1, SMT DEF Propagate, Pc, hooks, inits, jit, built
  <2>3. CASE Restored(c)
    BY <2>1, <2>3 DEF Restored, Pc, hooks, inits, jit, built
  <2> QED BY <1>12, <2>2, <2>3
<1>13. ASSUME NEW m \in Methods, NEW code \in QuickCode(m), UpdateMethodsCode(m, code) PROVE TypeOK'
  <2>1. code \in Entry BY Entries, SMT DEF QuickCode
  <2>2. MaybeUseBackupMethod(m, code) \in Methods BY DEF MaybeUseBackupMethod, IsHooked
  <2>3. PICK k \in Methods : instr' = [m |-> k, code |-> code]
    BY <1>13, <2>2 DEF UpdateMethodsCode
  <2> QED BY <1>13, <2>1, <2>3, SMTT(30) DEF UpdateMethodsCode, hooks, inits, jit, built
<1>14. ASSUME SetMethodsCode PROVE TypeOK'
  <2>1. entry' \in [Methods -> Entry] BY <1>14 DEF SetMethodsCode, SetEntryPoint
  <2> QED BY <1>14, <2>1 DEF SetMethodsCode, NoInstr, hooks, inits, jit, built
<1>15. ASSUME GarbageCollectCache PROVE TypeOK'
  BY <1>15 DEF GarbageCollectCache, hooks, inits, jit, built
<1> HIDE DEF TypeOK, IInv, Bookkeeping
<1> QED
  BY <1>1, <1>2, <1>3, <1>4, <1>5, <1>6, <1>7, <1>8, <1>9, <1>10, <1>11, <1>12, <1>13, <1>14, <1>15,
     <1>16 DEF Calls, Runtime

\* Every step of Hook, UnHook, Deoptimize and the ART hooks keeps Bookkeeping.
LEMMA Books ==
  ASSUME IInv, TypeOK',
         (\E t \in Targets : Calls(t)) \/ Runtime \/ GarbageCollectCache
  PROVE  Bookkeeping'
<1> USE Sets DEF TypeOK, IInv, Bookkeeping, ClassOf
<1>1. ASSUME NEW t \in Targets, Hook(t) PROVE Bookkeeping'
  BY <1>1, SMTT(30) DEF Hook, OpPcs, hooks, inits, jit, built
<1>2. ASSUME NEW t \in Targets, NEW ok \in BOOLEAN, DoHook(t, ok) PROVE Bookkeeping'
  BY <1>2, SMTT(30) DEF DoHook, Step, Idle, SetEntryPoint, OpPcs, hooks, inits, jit, built
<1>17. ASSUME NEW t \in Targets, EnterTrampoline(t) PROVE Bookkeeping'
  BY <1>17, SMTT(30) DEF EnterTrampoline, Step, SetEntryPoint, OpPcs, hooks, inits, jit, built
<1>3. ASSUME NEW t \in Targets, RecordHooked(t) PROVE Bookkeeping'
  BY <1>3, SMTT(30) DEF RecordHooked, Step, OpPcs, hooks, inits, jit, built
<1>4. ASSUME NEW t \in Targets, RecordJitMovement(t) \/ RecordBackup(t) PROVE Bookkeeping'
  BY <1>4, SMTT(30) DEF RecordJitMovement, RecordBackup, Step, Idle, OpPcs, hooks, inits, jit, built
<1>5. ASSUME NEW t \in Targets, UnHook(t) PROVE Bookkeeping'
  BY <1>5, SMTT(30) DEF UnHook, OpPcs, hooks, inits, jit, built
<1>6. ASSUME NEW t \in Targets, EraseBackup(t) PROVE Bookkeeping'
  BY <1>6, SMTT(30) DEF EraseBackup, Step, OpPcs, hooks, inits, jit, built
<1>7. ASSUME NEW t \in Targets, DoUnHook(t) PROVE Bookkeeping'
  BY <1>7, SMTT(30) DEF DoUnHook, Step, Idle, SetEntryPoint, OpPcs, hooks, inits, jit, built
<1>8. ASSUME NEW t \in Targets, Deoptimize(t) PROVE Bookkeeping'
  <2>1. PICK d : d = deopt'[t] OBVIOUS
  <2>2. /\ \A u \in Targets : u # t => deopt'[u] = deopt[u]
        /\ d.pc = "entry" => d.b \in Backups \cup {t}
    BY <1>8, <2>1, SMTT(30) DEF Deoptimize, Idle, IsHooked, OpPcs
  <2>3. UNCHANGED <<hooks, inits, op, instr>> BY <1>8 DEF Deoptimize
  <2> QED BY <2>1, <2>2, <2>3, SMTT(30) DEF hooks, inits
<1>9. ASSUME NEW c \in Classes, SetStatus(c) PROVE Bookkeeping'
  BY <1>9, SMTT(30) DEF SetStatus, Pc, OpPcs, hooks, inits, jit, built
<1>10. ASSUME NEW c \in Classes, NEW compiled \in BOOLEAN, FixupStaticTrampolines(c, compiled)
       PROVE Bookkeeping'
  BY <1>10, SMTT(30) DEF FixupStaticTrampolines, Pc, OpPcs, hooks, inits, jit, built
<1>11. ASSUME NEW c \in Classes, NEW m \in Methods, RestoreBackup(c, m) PROVE Bookkeeping'
  BY <1>11, SMTT(30) DEF RestoreBackup, IsHooked, SetEntryPoint, OpPcs, hooks, inits, jit, built
<1>12. ASSUME NEW c \in Classes, Propagate(c) PROVE Bookkeeping'
  BY <1>12, SMTT(30) DEF Propagate, Pc, PassOn, OpPcs, hooks, inits, jit, built
<1>13. ASSUME NEW c \in Classes, Restored(c) PROVE Bookkeeping'
  BY <1>13, SMTT(30) DEF Restored, Pc, OpPcs, hooks, inits, jit, built
<1>14. ASSUME NEW m \in Methods, NEW code \in QuickCode(m), UpdateMethodsCode(m, code)
       PROVE Bookkeeping'
  <2>1. code \in Entry BY Entries, SMTT(30) DEF QuickCode
  <2> QED
    BY <1>14, <2>1, SMTT(30) DEF UpdateMethodsCode, MaybeUseBackupMethod, IsHooked, hooks, inits, jit, built
<1>15. ASSUME SetMethodsCode PROVE Bookkeeping'
  BY <1>15, SMTT(30) DEF SetMethodsCode, NoInstr, SetEntryPoint, OpPcs, hooks, inits, jit, built
<1>16. ASSUME GarbageCollectCache PROVE Bookkeeping'
  BY <1>16, SMT DEF GarbageCollectCache, OpPcs, hooks, inits, jit, built
<1> HIDE DEF TypeOK, IInv, Bookkeeping
<1> QED
  BY <1>1, <1>2, <1>3, <1>4, <1>5, <1>6, <1>7, <1>8, <1>9, <1>10, <1>11, <1>12, <1>13, <1>14, <1>15, <1>16,
     <1>17 DEF Calls, Runtime

\* Only static methods are kept by BackupClassMethods and restored.
LEMMA Statics ==
  ASSUME IInv, TypeOK',
         (\E t \in Targets : Calls(t)) \/ Runtime \/ GarbageCollectCache
  PROVE  KeptStatic'
<1> USE Sets DEF TypeOK, ClassOf, KeptStatic
<1>0. TypeOK /\ KeptStatic BY DEF IInv
<1>1. ASSUME NEW t \in Targets, Calls(t) PROVE KeptStatic'
  BY <1>0, <1>1, ZenonT(30)
     DEF Calls, Hook, DoHook, EnterTrampoline, RecordHooked, RecordJitMovement,
         RecordBackup, UnHook, EraseBackup, DoUnHook, Deoptimize, inits
<1>2. ASSUME NEW c \in Classes, SetStatus(c) PROVE KeptStatic'
  <2>1. \A t \in Targets : IsStatic(t) <=> t \in Static BY DEF IsStatic
  <2>2. \A t \in Targets : backup_methods_'[t] # None => backup_methods_[t] # None \/ t \in Static
    BY <1>2, <2>1 DEF SetStatus
  <2>3. class' = [class EXCEPT ![c] = Pc("saved")] BY <1>2, ZenonT(30) DEF SetStatus
  <2>4. class'[0].pc = "restore" => class'[0] = class[0] BY <1>0, <2>3, SMTT(30) DEF Pc
  <2> QED BY <1>0, <2>2, <2>4
<1>3. ASSUME NEW c \in Classes, NEW compiled \in BOOLEAN, FixupStaticTrampolines(c, compiled)
       PROVE KeptStatic'
  BY <1>0, <1>3, SMTT(30) DEF FixupStaticTrampolines, Pc
<1>4. ASSUME NEW c \in Classes, NEW m \in Methods, RestoreBackup(c, m) PROVE KeptStatic'
  BY <1>0, <1>4, SMTT(30) DEF RestoreBackup
<1>5. ASSUME NEW c \in Classes, Propagate(c) PROVE KeptStatic'
  <2>1. /\ backup_methods_' = [backup_methods_ EXCEPT ![class[c].m] = None]
        /\ class' = [class EXCEPT ![c] = Pc("fixed")]
    BY <1>5, ZenonT(30) DEF Propagate
  <2> QED BY <1>0, <2>1, SMT DEF Pc
<1>6. ASSUME NEW c \in Classes, Restored(c) PROVE KeptStatic'
  BY <1>0, <1>6, SMT DEF Restored, Pc
<1>7. ASSUME NEW m \in Methods, NEW code \in QuickCode(m), UpdateMethodsCode(m, code)
       PROVE KeptStatic'
  BY <1>0, <1>7 DEF UpdateMethodsCode, inits
<1>8. ASSUME SetMethodsCode \/ GarbageCollectCache PROVE KeptStatic'
  BY <1>0, <1>8 DEF SetMethodsCode, GarbageCollectCache, inits
<1> HIDE DEF TypeOK, KeptStatic
<1> QED
  BY <1>1, <1>2, <1>3, <1>4, <1>5, <1>6, <1>7, <1>8 DEF Runtime

\* IInv holds before the first hook.
LEMMA Initial == Init => IInv
<1> SUFFICES ASSUME Init PROVE IInv
  OBVIOUS
<1> USE Sets, Entries
<1>1. PICK done \in BOOLEAN :
        /\ class = [c \in Classes |-> Pc(IF c = 0 /\ done THEN "initialized" ELSE "loaded")]
        /\ entry = [m \in Methods |-> IF m \in Targets /\ (m \notin Static \/ done)
                                      THEN Jit(m) ELSE Resolve]
  BY DEF Init
<1>2. entry \in [Methods -> Entry] BY <1>1
<1>3. class \in [Classes -> [pc : {"loaded", "saved", "fixed", "restore", "initialized"},
                            m : Methods \cup {None}, new : Entry \cup {None},
                            deopt : BOOLEAN, b : Backups \cup {None}]]
  BY <1>1 DEF Pc
<1>4. \A c \in Classes : class[c].pc \in {"loaded", "initialized"} BY <1>1 DEF Pc
<1>5. TypeOK BY <1>2, <1>3, LSPlantAssumption, SMT DEF Init, TypeOK, Idle, NoInstr, OpPcs
<1>6. Bookkeeping /\ KeptStatic BY <1>4 DEF Init, Bookkeeping, KeptStatic, Idle, NoInstr
<1>7. \A t \in Targets : ~Overlap(t) /\ Guarded(t)
  BY <1>4 DEF Init, Overlap, Guarded, Idle, NoInstr
<1>8. \A t \in Targets : ~Exposed(t) BY DEF Init, Exposed, Kept
<1> QED BY <1>5, <1>6, <1>7, <1>8 DEF IInv
-----------------------------------------------------------------------------
\* A step that leaves a call on t overlapping another change puts t in raced.
LEMMA Marking ==
  ASSUME TypeOK, TypeOK', raced' = raced \cup {t \in Targets : Disturbed(t)'},
         NEW t \in Targets
  PROVE  Overlap(t)' => t \in raced'
  BY Sets DEF Overlap, Disturbed, Settled, Touched, Fixing, IsStatic, ClassOf, TypeOK

\* What Guarded(x) depends on; hooked_methods_[x] may also become None.
LEMMA SameView ==
  ASSUME NEW x \in Targets, Guarded(x),
         op'[x].pc = "recordHooked" => op[x].pc = "recordHooked" /\ op'[x].b = op[x].b,
         entry'[x] = entry[x],
         hooked_methods_'[x] # None =>
           /\ hooked_methods_'[x] = hooked_methods_[x]
           /\ backup_methods_'[x] = backup_methods_[x] /\ class'[0] = class[0]
           /\ instr'.m = x => instr'.m = instr.m /\ instr'.code = instr.code
           /\ deopt'[x].pc = "entry" => deopt'[x] = deopt[x]
  PROVE  Guarded(x)'
  BY DEF Guarded, Fixing, Initialising

\* Guarded(x) says nothing of a target that is not hooked and not being recorded.
LEMMA NotHooked ==
  ASSUME NEW x \in Targets, op'[x].pc # "recordHooked", hooked_methods_'[x] = None
  PROVE  Guarded(x)'
  BY DEF Guarded

\* A step of a call keeps the trampoline of a target on which nothing overlapped.
LEMMA CallGuards ==
  ASSUME IInv, NEW t \in Targets, Calls(t),
         NEW x \in Targets, x \notin Excused, ~Overlap(x)'
  PROVE  Guarded(x)'
<1>0. Guarded(x) /\ ~Overlap(x)
  BY DEF IInv, Excused
<1>1. /\ DOMAIN entry = Methods /\ DOMAIN hooked_methods_ = Methods
      /\ DOMAIN op = Targets /\ DOMAIN deopt = Targets
  BY DEF IInv, TypeOK
<1>2. x \in Methods /\ t \in Methods /\ x \notin Backups /\ x # None
  BY Sets
<1>3. /\ op[t].pc # "idle" => op[t].b \in Backups
      /\ op[t].pc \in {"doHook", "setEntry", "recordHooked", "eraseBackup", "doUnHook"} =>
           hooked_methods_[t] = None
      /\ deopt[t].pc = "entry" => deopt[t].b \in Backups \cup {t}
      /\ hooked_methods_[t] \in Backups \cup {None}
  BY DEF IInv, Bookkeeping
<1>4. CASE Hook(t)
  <2>1. CASE t = x
    BY <1>1, <1>4, <2>1, NotHooked DEF Hook, hooks
  <2>2. CASE t # x
    BY <1>0, <1>1, <1>4, <2>2, SameView DEF Hook, hooks, inits
  <2> QED BY <2>1, <2>2
<1>5. ASSUME NEW ok \in BOOLEAN, DoHook(t, ok) PROVE Guarded(x)'
  <2>0. op[t].pc = "doHook" /\ op[t].b \in Backups /\ hooked_methods_[t] = None
    BY <1>3, <1>5, ZenonT(30) DEF DoHook, Step
  <2>1. CASE t = x /\ ok /\ "SuspendAll" \in installed
    <3>1. /\ op'[x] = [pc |-> "recordHooked", b |-> op[x].b]
          /\ entry'[x] = Tramp(op[x].b) /\ hooked_methods_'[x] = None
      BY <1>1, <1>2, <1>5, <2>0, <2>1 DEF DoHook, Step, hooks
    <3> QED BY <3>1, SMT DEF Guarded
  <2>2. CASE t = x /\ ~(ok /\ "SuspendAll" \in installed)
    <3>1. op'[x].pc \in {"idle", "setEntry"} /\ hooked_methods_'[x] = None
      BY <1>1, <1>5, <2>0, <2>2, SMT DEF DoHook, Step, Idle, hooks
    <3> QED BY <3>1, NotHooked
  <2>3. CASE t # x
    <3>1. op'[x] = op[x] BY <1>1, <1>5, <2>3 DEF DoHook, Step
    <3>2. entry'[x] = entry[x] BY <1>1, <1>2, <1>5, <2>0, <2>3 DEF DoHook, SetEntryPoint
    <3> QED BY <1>0, <1>5, <3>1, <3>2, SameView DEF DoHook, hooks, inits
  <2> QED BY <2>1, <2>2, <2>3
<1>12. CASE EnterTrampoline(t)
  <2>0. op[t].pc = "setEntry" /\ op[t].b \in Backups /\ hooked_methods_[t] = None
    BY <1>3, <1>12, ZenonT(30) DEF EnterTrampoline, Step
  <2>1. CASE t = x
    <3>1. /\ op'[x] = [pc |-> "recordHooked", b |-> op[x].b]
          /\ entry'[x] = Tramp(op[x].b) /\ hooked_methods_'[x] = None
      BY <1>1, <1>2, <1>12, <2>0, <2>1 DEF EnterTrampoline, Step, SetEntryPoint, hooks
    <3> QED BY <3>1, SMT DEF Guarded
  <2>2. CASE t # x
    <3>1. op'[x] = op[x] BY <1>1, <1>12, <2>2 DEF EnterTrampoline, Step
    <3>2. entry'[x] = entry[x] BY <1>1, <1>2, <1>12, <2>2 DEF EnterTrampoline, SetEntryPoint
    <3> QED BY <1>0, <1>12, <3>1, <3>2, SameView DEF EnterTrampoline, hooks, inits
  <2> QED BY <2>1, <2>2
<1>6. CASE RecordHooked(t)
  <2>0. op[t].pc = "recordHooked" /\ op[t].b \in Backups
    BY <1>3, <1>6 DEF RecordHooked, Step
  <2>1. CASE t = x
    <3>1. /\ op'[x].pc = "recordJit" /\ hooked_methods_'[x] = op[x].b /\ entry' = entry
          /\ deopt' = deopt /\ instr' = instr
      BY <1>1, <1>2, <1>6, <2>0, <2>1 DEF RecordHooked, Step
    <3>2. ~Fixing(x)' /\ instr'.m # x /\ deopt'[x].pc = "idle"
      BY <3>1 DEF Overlap
    <3>3. entry[x] = Tramp(op[x].b) BY <1>0, <2>0, <2>1 DEF Guarded
    <3> QED BY <3>1, <3>2, <3>3 DEF Guarded
  <2>2. CASE t # x
    <3>1. op'[x] = op[x] /\ hooked_methods_'[x] = hooked_methods_[x]
      BY <1>1, <1>2, <1>6, <2>0, <2>2 DEF RecordHooked, Step
    <3> QED BY <1>0, <1>6, <3>1, SameView DEF RecordHooked, inits
  <2> QED BY <2>1, <2>2
<1>7. CASE RecordJitMovement(t) \/ RecordBackup(t)
  <2>1. op'[x].pc = "recordHooked" => op'[x] = op[x]
    BY <1>1, <1>7, SMT DEF RecordJitMovement, RecordBackup, Step, Idle
  <2> QED BY <1>0, <1>7, <2>1, SameView, ZenonT(30) DEF RecordJitMovement, RecordBackup, hooks, inits
<1>8. CASE UnHook(t)
  <2>1. /\ op'[x].pc = "recordHooked" => op'[x] = op[x]
        /\ hooked_methods_'[x] # None => hooked_methods_'[x] = hooked_methods_[x]
    BY <1>1, <1>2, <1>8 DEF UnHook
  <2> QED BY <1>0, <1>8, <2>1, SameView DEF UnHook, inits
<1>9. CASE EraseBackup(t)
  <2>1. /\ op'[x].pc = "recordHooked" => op'[x] = op[x]
        /\ hooked_methods_'[x] = hooked_methods_[x]
    BY <1>1, <1>2, <1>3, <1>9 DEF EraseBackup, Step
  <2> QED BY <1>0, <1>9, <2>1, SameView DEF EraseBackup, inits
<1>10. CASE DoUnHook(t)
  <2>1. CASE t = x
    BY <1>1, <1>3, <1>10, <2>1, NotHooked DEF DoUnHook, Step, Idle, hooks
  <2>2. CASE t # x
    <3>1. op'[x] = op[x] /\ entry'[x] = entry[x]
      BY <1>1, <1>2, <1>10, <2>2 DEF DoUnHook, Step, SetEntryPoint
    <3> QED BY <1>0, <1>10, <3>1, SameView DEF DoUnHook, hooks, inits
  <2> QED BY <2>1, <2>2
<1>11. CASE Deoptimize(t)
  <2>0. /\ hooked_methods_' = hooked_methods_ /\ op' = op /\ instr' = instr
        /\ class' = class /\ backup_methods_' = backup_methods_
    BY <1>11 DEF Deoptimize, hooks, inits
  <2>1. CASE t # x
    <3>1. deopt'[x] = deopt[x] BY <1>1, <1>11, <2>1 DEF Deoptimize
    <3>2. entry'[x] = entry[x]
      BY <1>1, <1>2, <1>3, <1>11, <2>1 DEF Deoptimize, SetEntryPoint
    <3> QED BY <1>0, <2>0, <3>1, <3>2, SameView
  <2>2. CASE t = x /\ deopt[t].pc = "idle"
    <3>1. deopt'[x].pc = "backup" /\ entry' = entry
      BY <1>1, <1>11, <2>2, SMT DEF Deoptimize
    <3> QED BY <1>0, <2>0, <3>1, SameView
  <2>3. CASE t = x /\ deopt[t].pc = "backup"
    <3>1. /\ entry' = entry
          /\ deopt'[x].b = IF hooked_methods_[x] = None THEN x ELSE hooked_methods_[x]
      BY <1>1, <1>11, <2>3, SMT DEF Deoptimize, IsHooked
    <3> QED BY <1>0, <2>0, <3>1 DEF Guarded, Fixing, Initialising
  <2>4. CASE t = x /\ deopt[t].pc = "entry"
    <3>1. deopt'[x].pc = "idle" /\ entry' = [entry EXCEPT ![deopt[x].b] = Interp]
      BY <1>1, <1>11, <2>4, SMT DEF Deoptimize, SetEntryPoint, Idle
    <3>2. CASE hooked_methods_[x] = None
      <4>1. op[x].pc = "idle" BY <1>0, <2>4 DEF Overlap
      <4> QED BY <2>0, <3>2, <4>1, NotHooked
    <3>3. CASE hooked_methods_[x] # None
      <4>1. deopt[x].b = hooked_methods_[x] BY <1>0, <2>4, <3>3 DEF Guarded
      <4>2. entry'[x] = entry[x] BY <1>1, <1>2, <1>3, <2>4, <3>1, <3>3, <4>1
      <4> QED BY <1>0, <2>0, <3>1, <4>2, SameView
    <3> QED BY <3>2, <3>3
  <2> QED BY <1>11, <2>1, <2>2, <2>3, <2>4 DEF Deoptimize
<1> QED BY <1>4, <1>5, <1>6, <1>7, <1>8, <1>9, <1>10, <1>11, <1>12 DEF Calls

\* A step of ART or of a hook in it keeps the trampoline in place, or among the
\* entry points that RestoreBackup will put back.
LEMMA ArtGuards ==
  ASSUME IInv, Runtime \/ GarbageCollectCache, installed' = installed,
         NEW x \in Targets, x \notin Excused, ~Overlap(x)', ~Exposed(x)'
  PROVE  Guarded(x)'
<1>0. Guarded(x) /\ ~Overlap(x) /\ ~Exposed(x)
  BY DEF IInv, Excused
<1>1. /\ DOMAIN entry = Methods /\ DOMAIN class = Classes /\ DOMAIN backup_methods_ = Methods
      /\ hooked_methods_[x] \in Backups \cup {None}
  BY DEF IInv, TypeOK, Bookkeeping
<1>2. /\ x \in Methods /\ x \notin Backups /\ x # None /\ 0 \in Classes /\ ClassOf(x) = 0
      /\ IsStatic(x) <=> x \in Static
  BY Sets DEF IsStatic, ClassOf
<1>3. x \in hooked_classes_ <=> hooked_methods_[x] # None \/ op[x].pc = "eraseBackup"
  BY DEF IInv, Bookkeeping
<1>4. backup_methods_[x] # None \/ (class[0].pc = "restore" /\ class[0].m = x) => x \in Static
  BY DEF IInv, KeptStatic
<1>5. ASSUME NEW c \in Classes, SetStatus(c) PROVE Guarded(x)'
  <2>0. /\ class' = [class EXCEPT ![c] = Pc("saved")] /\ class[c].pc = "loaded"
        /\ entry' = entry /\ hooked_methods_' = hooked_methods_ /\ op' = op /\ deopt' = deopt
        /\ instr' = instr
    BY <1>5 DEF SetStatus, hooks
  <2>1. backup_methods_'[x] =
          IF PutsBack /\ c = 0 /\ x \in Static /\ x \in Kept THEN entry[x]
          ELSE backup_methods_[x]
    BY <1>2, <1>5 DEF SetStatus
  <2>2. CASE c # 0
    <3>1. class'[0] = class[0] BY <1>1, <1>2, <2>0, <2>2
    <3> QED BY <1>0, <2>0, <2>1, <2>2, <3>1, SameView
  <2>3. CASE c = 0 /\ hooked_methods_[x] = None
    BY <1>0, <2>0, <2>3 DEF Guarded
  <2>4. CASE c = 0 /\ hooked_methods_[x] # None
    <3>1. class'[0].pc = "saved" BY <1>1, <2>0, <2>4 DEF Pc
    <3>2. ~Fixing(x) /\ entry[x] = Tramp(hooked_methods_[x])
      BY <1>0, <2>0, <2>4 DEF Guarded, Fixing, Initialising
    <3>3. x \in Static => backup_methods_'[x] = entry[x]
      <4>1. x \in Kept /\ x \in Kept' BY <1>3, <1>5, <2>4 DEF Kept, SetStatus, hooks
      <4>2. x \in Static => PutsBack
        BY <1>2, <3>1, <4>1 DEF Exposed, PutsBack, IsStatic, ClassOf, Initialising
      <4> QED BY <2>1, <2>4, <4>1, <4>2
    <3> QED BY <1>0, <2>0, <2>4, <3>1, <3>2, <3>3 DEF Guarded, Fixing, Initialising
  <2> QED BY <2>2, <2>3, <2>4
<1>6. ASSUME NEW c \in Classes, NEW compiled \in BOOLEAN, FixupStaticTrampolines(c, compiled)
      PROVE Guarded(x)'
  <2>0. /\ class' = [class EXCEPT ![c] = Pc(IF "FixupStaticTrampolines" \in installed
                                            THEN "fixed" ELSE "initialized")]
        /\ class[c].pc = "saved"
        /\ hooked_methods_' = hooked_methods_ /\ op' = op /\ deopt' = deopt /\ instr' = instr
        /\ backup_methods_' = backup_methods_
    BY <1>6 DEF FixupStaticTrampolines, hooks
  <2>1. c # 0 \/ x \notin Static => entry'[x] = entry[x]
    BY <1>2, <1>6 DEF FixupStaticTrampolines
  <2>2. CASE c # 0
    <3>1. class'[0] = class[0] BY <1>1, <1>2, <2>0, <2>2
    <3> QED BY <1>0, <2>0, <2>1, <2>2, <3>1, SameView
  <2>3. CASE c = 0
    <3>1. class'[0].pc = IF "FixupStaticTrampolines" \in installed THEN "fixed" ELSE "initialized"
      BY <1>1, <2>0, <2>3 DEF Pc
    <3>2. Fixing(x) <=> x \in Static BY <2>0, <2>3 DEF Fixing, Initialising
    <3>3. op[x].pc # "recordHooked" \/ x \notin Static BY <1>0, <3>2 DEF Overlap
    <3>4. CASE x \notin Static
      <4>1. ~Fixing(x)' BY <3>4 DEF Fixing
      <4> QED BY <1>0, <2>0, <2>1, <3>2, <3>4, <4>1 DEF Guarded
    <3>5. CASE x \in Static /\ hooked_methods_[x] = None
      BY <2>0, <3>3, <3>5 DEF Guarded
    <3>6. CASE x \in Static /\ hooked_methods_[x] # None
      <4>1. x \in Kept BY <1>3, <3>6 DEF Kept
      <4>2. PutsBack BY <1>0, <1>2, <3>2, <3>6, <4>1 DEF Exposed, Fixing
      <4>3. class'[0].pc = "fixed" BY <3>1, <4>2 DEF PutsBack
      <4>4. Fixing(x)' BY <3>6, <4>3 DEF Fixing, Initialising
      <4> QED BY <1>0, <2>0, <2>3, <3>2, <3>3, <3>6, <4>3, <4>4 DEF Guarded
    <3> QED BY <3>4, <3>5, <3>6
  <2> QED BY <2>2, <2>3
<1>7. ASSUME NEW c \in Classes, NEW m \in Methods, RestoreBackup(c, m) PROVE Guarded(x)'
  <2>0. /\ hooked_methods_' = hooked_methods_ /\ op' = op /\ deopt' = deopt /\ instr' = instr
        /\ backup_methods_' = backup_methods_ /\ backup_methods_[m] # None
        /\ entry' = [entry EXCEPT ![m] = backup_methods_[m]]
        /\ class' = [class EXCEPT ![c] = [pc |-> "restore", m |-> m, new |-> entry[m],
                                          deopt |-> IsDeoptimized(m), b |-> IsHooked(m)]]
        /\ class[c].pc = "fixed" /\ ClassOf(m) = c
    BY <1>7 DEF RestoreBackup, SetEntryPoint, hooks
  <2>1. CASE c # 0
    <3>1. m # x BY <1>2, <2>0, <2>1
    <3>2. class'[0] = class[0] /\ entry'[x] = entry[x] BY <1>1, <1>2, <2>0, <2>1, <3>1
    <3> QED BY <1>0, <2>0, <3>2, SameView
  <2>2. CASE c = 0
    <3>1. class'[0].pc = "restore" /\ class'[0].m = m /\ class'[0].b = IsHooked(m)
      BY <1>1, <2>0, <2>2
    <3>2. Fixing(x) <=> x \in Static BY <2>0, <2>2 DEF Fixing, Initialising
    <3>3. Fixing(x)' <=> x \in Static BY <3>1 DEF Fixing, Initialising
    <3>4. CASE m = x
      <4>1. entry'[x] = backup_methods_[x] /\ IsHooked(m) = hooked_methods_[x]
        BY <1>1, <1>2, <2>0, <3>4 DEF IsHooked
      <4>2. x \in Static BY <1>4, <2>0, <3>4
      <4>3. op[x].pc # "recordHooked" BY <1>0, <3>2, <4>2 DEF Overlap
      <4> QED BY <1>0, <2>0, <3>1, <3>2, <3>3, <3>4, <4>1, <4>2, <4>3 DEF Guarded
    <3>5. CASE m # x
      <4>1. entry'[x] = entry[x] BY <1>1, <1>2, <2>0, <3>5
      <4> QED BY <1>0, <2>0, <2>2, <3>1, <3>2, <3>3, <3>5, <4>1 DEF Guarded
    <3> QED BY <3>4, <3>5
  <2> QED BY <2>1, <2>2
<1>8. ASSUME NEW c \in Classes, Propagate(c) PROVE Guarded(x)'
  <2>0. /\ hooked_methods_' = hooked_methods_ /\ op' = op /\ deopt' = deopt /\ instr' = instr
        /\ backup_methods_' = [backup_methods_ EXCEPT ![class[c].m] = None]
        /\ class' = [class EXCEPT ![c] = Pc("fixed")] /\ class[c].pc = "restore"
        /\ entry' = IF PassOn(class[c]) THEN [entry EXCEPT ![class[c].b] = class[c].new]
                    ELSE IF class[c].b = None /\ class[c].deopt /\ class[c].new # Interp
                    THEN [entry EXCEPT ![class[c].m] = Interp] ELSE entry
    BY <1>8 DEF Propagate, hooks
  <2>1. class[c].b \in Backups \cup {None} /\ ClassOf(class[c].m) = c
    BY <2>0 DEF IInv, TypeOK, Bookkeeping
  <2>2. class[c].m # x \/ class[c].b # None => entry'[x] = entry[x]
    BY <1>1, <1>2, <2>0, <2>1 DEF PassOn
  <2>3. class[c].m # x => backup_methods_'[x] = backup_methods_[x]
    BY <1>1, <1>2, <2>0
  <2>4. CASE c # 0
    <3>1. class[c].m # x BY <1>2, <2>1, <2>4
    <3>2. class'[0] = class[0] BY <1>1, <1>2, <2>0, <2>4
    <3> QED BY <1>0, <2>0, <2>2, <2>3, <3>1, <3>2, SameView
  <2>5. CASE c = 0
    <3>1. class'[0].pc = "fixed" BY <1>1, <2>0, <2>5 DEF Pc
    <3>2. Fixing(x) <=> x \in Static BY <2>0, <2>5 DEF Fixing, Initialising
    <3>3. Fixing(x)' <=> x \in Static BY <3>1 DEF Fixing, Initialising
    <3>4. CASE class[0].m = x
      <4>1. x \in Static /\ backup_methods_'[x] = None BY <1>1, <1>2, <1>4, <2>0, <2>5, <3>4
      <4>2. op[x].pc # "recordHooked" BY <1>0, <3>2, <4>1 DEF Overlap
      <4>3. hooked_methods_[x] # None =>
              entry[x] = Tramp(hooked_methods_[x]) /\ class[0].b = hooked_methods_[x]
        BY <1>0, <2>0, <2>5, <3>2, <3>4, <4>1 DEF Guarded
      <4> QED BY <1>0, <2>0, <2>2, <2>5, <3>1, <3>2, <3>3, <4>1, <4>2, <4>3 DEF Guarded
    <3>5. CASE class[0].m # x
      BY <1>0, <2>0, <2>2, <2>3, <2>5, <3>1, <3>2, <3>3, <3>5 DEF Guarded
    <3> QED BY <3>4, <3>5
  <2> QED BY <2>4, <2>5
<1>9. ASSUME NEW c \in Classes, Restored(c) PROVE Guarded(x)'
  <2>0. /\ hooked_methods_' = hooked_methods_ /\ op' = op /\ deopt' = deopt /\ instr' = instr
        /\ backup_methods_' = backup_methods_ /\ entry' = entry
        /\ class' = [class EXCEPT ![c] = Pc("initialized")] /\ class[c].pc = "fixed"
    BY <1>9 DEF Restored, hooks
  <2>1. CASE c # 0
    <3>1. class'[0] = class[0] BY <1>1, <1>2, <2>0, <2>1
    <3> QED BY <1>0, <2>0, <3>1, SameView
  <2>2. CASE c = 0
    <3>1. ~Fixing(x)' BY <1>1, <2>0, <2>2 DEF Fixing, Initialising, Pc
    <3>2. Fixing(x) <=> x \in Static BY <2>0, <2>2 DEF Fixing, Initialising
    <3>3. backup_methods_[x] = None BY <1>2, <1>9, <2>2 DEF Restored
    <3>4. hooked_methods_[x] # None => Tramp(hooked_methods_[x]) # None
      BY <1>1, Sets, Entries
    <3>5. hooked_methods_[x] # None => entry[x] = Tramp(hooked_methods_[x])
      BY <1>0, <1>1, <3>2, <3>3, <3>4 DEF Guarded
    <3> QED BY <1>0, <2>0, <3>1, <3>5 DEF Guarded
  <2> QED BY <2>1, <2>2
<1>10. ASSUME NEW m \in Methods, NEW code \in QuickCode(m), UpdateMethodsCode(m, code)
       PROVE Guarded(x)'
  <2>0. /\ hooked_methods_' = hooked_methods_ /\ op' = op /\ deopt' = deopt
        /\ backup_methods_' = backup_methods_ /\ entry' = entry /\ class' = class
        /\ Kept' = Kept
    BY <1>10 DEF UpdateMethodsCode, hooks, inits, Kept
  <2>1. instr'.code = code /\ instr'.m \in {m, MaybeUseBackupMethod(m, code)}
    BY <1>10, SMT DEF UpdateMethodsCode
  <2>2. CASE instr'.m = x /\ hooked_methods_[x] # None
    <3>1. m = x
      BY <1>2, <2>1, <2>2, Sets DEF MaybeUseBackupMethod, IsHooked, IInv, Bookkeeping
    <3>2. x \in Kept BY <1>3, <2>2 DEF Kept
    <3>3. "Instrumentation" \in installed BY <2>0, <2>2, <3>2 DEF Exposed
    <3>4. instr'.m = MaybeUseBackupMethod(x, code) BY <1>10, <3>1, <3>3, SMT DEF UpdateMethodsCode
    <3>5. ~Fixing(x) BY <2>0, <2>2 DEF Overlap, Fixing, Initialising
    <3>6. entry[x] = Tramp(hooked_methods_[x]) BY <1>0, <2>2, <3>5 DEF Guarded
    <3>7. instr'.code = Tramp(hooked_methods_[x])
      BY <1>1, <1>2, <2>1, <2>2, <3>4, <3>6 DEF MaybeUseBackupMethod, IsHooked
    <3> QED BY <1>0, <2>0, <3>7 DEF Guarded, Fixing, Initialising
  <2>3. CASE hooked_methods_[x] = None
    BY <1>0, <2>0, <2>3 DEF Guarded
  <2>4. CASE instr'.m # x
    BY <1>0, <2>0, <2>4, SameView
  <2> QED BY <2>2, <2>3, <2>4
<1>11. CASE SetMethodsCode
  <2>0. /\ hooked_methods_' = hooked_methods_ /\ op' = op /\ deopt' = deopt /\ class' = class
        /\ backup_methods_' = backup_methods_ /\ instr' = NoInstr
        /\ entry' = [entry EXCEPT ![instr.m] = instr.code]
    BY <1>11 DEF SetMethodsCode, SetEntryPoint, hooks, inits
  <2>1. instr'.m # x BY <1>2, <2>0 DEF NoInstr
  <2>2. CASE instr.m # x
    <3>1. entry'[x] = entry[x] BY <1>1, <1>2, <2>0, <2>2
    <3> QED BY <1>0, <2>0, <2>1, <3>1, SameView
  <2>3. CASE instr.m = x
    <3>1. entry'[x] = instr.code BY <1>1, <1>2, <2>0, <2>3
    <3>2. op[x].pc # "recordHooked" BY <1>0, <2>3 DEF Overlap
    <3> QED BY <1>0, <2>0, <2>1, <2>3, <3>1, <3>2 DEF Guarded, Fixing, Initialising
  <2> QED BY <2>2, <2>3
<1>12. CASE GarbageCollectCache
  BY <1>0, <1>12, SameView DEF GarbageCollectCache, hooks, inits
<1> QED BY <1>5, <1>6, <1>7, <1>8, <1>9, <1>10, <1>11, <1>12 DEF Runtime

\* IInv is inductive.
LEMMA Inductive == IInv /\ [Next]_vars => IInv'
<1> SUFFICES ASSUME IInv, [Next]_vars PROVE IInv'
  OBVIOUS
<1>1. CASE Next
  <2>1. /\ raced \subseteq raced' /\ raced' \subseteq Targets /\ installed' = installed
        /\ exposed' = exposed \cup {t \in Targets : Exposed(t)'}
        /\ (\E t \in Targets : Calls(t)) \/ Runtime \/ GarbageCollectCache
    BY <1>1 DEF Next, IInv, TypeOK
  <2>2. TypeOK' BY <2>1, Types
  <2>3. Bookkeeping' BY <2>1, <2>2, Books
  <2>4. KeptStatic' BY <2>1, <2>2, Statics
  <2>5. ASSUME NEW t \in Targets PROVE Overlap(t)' => t \in raced'
    <3>1. CASE raced' = raced \cup {x \in Targets : Disturbed(x)'}
      BY <2>2, <3>1, Marking DEF IInv
    <3>2. CASE GarbageCollectCache
      BY <2>1, <3>2 DEF IInv, Overlap, Fixing, Initialising, GarbageCollectCache, inits
    <3> QED BY <1>1, <3>1, <3>2 DEF Next
  <2>6. ASSUME NEW t \in Targets PROVE Exposed(t)' => t \in exposed'
    BY <2>1
  <2>7. ASSUME NEW t \in Targets, t \notin Excused' PROVE Guarded(t)'
    <3>1. t \notin Excused /\ ~Overlap(t)' /\ ~Exposed(t)'
      BY <2>1, <2>5, <2>6, <2>7, ZenonT(30) DEF Excused
    <3> QED BY <2>1, <3>1, CallGuards, ArtGuards
  <2> QED BY <2>2, <2>3, <2>4, <2>5, <2>6, <2>7 DEF IInv
<1>2. CASE UNCHANGED vars
  <2>1. TypeOK' /\ Bookkeeping' /\ KeptStatic'
    BY <1>2, SMT DEF vars, hooks, inits, jit, built, IInv, TypeOK, Bookkeeping, KeptStatic
  <2>2. ASSUME NEW t \in Targets
        PROVE  /\ Overlap(t)' <=> Overlap(t)
               /\ Exposed(t)' <=> Exposed(t)
               /\ Guarded(t)' <=> Guarded(t)
    <3>1. /\ Overlap(t)' <=> Overlap(t)
          /\ Guarded(t)' <=> Guarded(t)
      BY <1>2 DEF vars, hooks, inits, Overlap, Fixing, Initialising, Guarded
    <3>2. Exposed(t)' <=> Exposed(t)
      BY <1>2 DEF vars, hooks, inits, built, Exposed, PutsBack, Kept, IsStatic, Initialising
    <3> QED BY <3>1, <3>2
  <2> QED BY <1>2, <2>1, <2>2 DEF vars, IInv, Excused
<1> QED BY <1>1, <1>2

\* HookLive: a hooked method keeps the trampoline of its hook (DoHook,
\* RecordHooked) through the initialisation of its class (BackupClassMethods,
\* RestoreBackup), the instrumentation and Deoptimize, for any number of
\* targets and hooks and whatever InitNative found in ART, as long as no two
\* changes of it overlapped and ART did not change it past a missing hook.
THEOREM LSPlantHookLive == Spec => []HookLive
<1>1. IInv => HookLive
  BY Sets DEF IInv, Excused, HookLive, Quiet, AtRest, Settled, Touched, Guarded, Fixing, IsStatic, ClassOf
<1> QED BY <1>1, Initial, Inductive, PTL DEF Spec
-----------------------------------------------------------------------------
(* What the backup runs: OriginalRuns and DeoptimizedStays.  A backup belongs *)
(* to the target it was built for, and only calls and updates of that target  *)
(* write to it.                                                               *)

\* Backups are new when they are built.
Built == \A b \in Backups : builtFor[b] # None => b <= last

\* The calls on t work on t and on backups of t.
Works(t) ==
    /\ op[t].pc # "idle" => builtFor[op[t].b] = t
    /\ hooked_methods_[t] # None =>
         /\ builtFor[hooked_methods_[t]] = t
         /\ op[t].pc = "idle" => hooked_methods_[t] \in deoptimized_
    /\ deopt[t].pc = "entry" /\ deopt[t].b # t => builtFor[deopt[t].b] = t

\* RestoreBackup works on a method that is kept, and on a backup of it.
Restores(c) ==
    class[c].pc = "restore" =>
      /\ backup_methods_[class[c].m] # None
      /\ class[c].b # None => builtFor[class[c].b] = class[c].m

\* Entry points are kept while the class is initialised.
KeptMeanwhile ==
    \A m \in Methods : backup_methods_[m] # None =>
      IsStatic(m) /\ Initialising(ClassOf(m)) /\ PutsBack

\* The JIT code of a hooked method is its backup's, or will be; not that of a
\* backup that is being made.
Moved(t) ==
    /\ owner[t] = t \/ (owner[t] \in Backups /\ builtFor[owner[t]] = t)
    /\ \A b \in Backups : <<t, b>> \in jit_movements_ => builtFor[b] = t
    /\ MovesJitCode /\ hooked_methods_[t] # None /\ op[t].pc # "recordJit" =>
         owner[t] # t \/ <<t, hooked_methods_[t]>> \in jit_movements_
    /\ op[t].pc = "doHook" => owner[t] # op[t].b /\ <<t, op[t].b>> \notin jit_movements_

Belongs ==
    /\ Built /\ KeptMeanwhile
    /\ \A t \in Targets : Works(t) /\ Moved(t)
    /\ \A c \in Classes : Restores(c)

\* The method that has the original of t; the JIT code is another backup's.
Mine(t) == IF op[t].pc \in {"setEntry", "recordHooked", "eraseBackup", "doUnHook"} THEN op[t].b
           ELSE IF hooked_methods_[t] = None THEN t ELSE hooked_methods_[t]
Left(t) == owner[t] \notin {t, Mine(t)} \/ ~MovesJitCode

Chosen(t) == {Code(t), Interp}
Given(t)  == {Code(t), Interp, Resolve}
Original(t, e) == e \in Given(t) \/ (e = Jit(t) /\ (t \in freed => Left(t)))

\* ART has replaced the entry point of m and RestoreBackup will put it back; and
\* nobody will.
Pending(m) == LET r == class[ClassOf(m)] IN
    backup_methods_[m] # None /\ (r.pc = "fixed" \/ (r.pc = "restore" /\ r.m # m))
Lost(m) == IsStatic(m) /\ class[ClassOf(m)].pc = "saved" /\ backup_methods_[m] = None

\* Method m runs the original of t, or will when its class is initialised.
Runs(t, m) ==
    /\ Original(t, entry[m]) \/ (m # t /\ Pending(m))
    /\ backup_methods_[m] # None => Original(t, backup_methods_[m])
    /\ m # t => ~Lost(m)
    /\ Pending(t) => entry[t] \in Chosen(t)
    /\ class[0].pc = "restore" /\ class[0].m = t => class[0].new \in Chosen(t)
    /\ instr.m = m => instr.code \in Given(t) \/ (m = t /\ instr.code = entry[t])
    /\ deopt[t].pc = "entry" => deopt[t].b = m

\* The same of the interpreter, when t is deoptimized.
Interprets(t, m) ==
    t \in deoptimized_ /\ deopt[t].pc = "idle" =>
      /\ entry[m] = Interp \/ Pending(m)
      /\ backup_methods_[m] # None => backup_methods_[m] = Interp
      /\ ~Lost(m) /\ instr.m # m
      /\ class[0].pc = "restore" /\ class[0].m = t => class[0].deopt

Sound(t) == Runs(t, Mine(t)) /\ Interprets(t, Mine(t))

OriginalsInv ==
    /\ IInv /\ Belongs
    /\ \A t \in Targets : Disturbed(t) => t \in raced
    /\ \A t \in Targets \ Excused : Sound(t)

\* Of any backups there is a first.
LEMMA LeastBackup ==
  ASSUME NEW S, S \subseteq Backups, S # {}
  PROVE  (CHOOSE b \in S : \A y \in S : b <= y) \in S
<1>1. S \subseteq Nat BY SMT DEF Backups
<1>2. PICK R : R = OpToRel(<, Nat) OBVIOUS
<1>3. IsWellFoundedOn(R, Nat) BY <1>2, NatLessThanWellFounded
<1>4. PICK b \in S : \A y \in S : <<y, b>> \notin R BY <1>1, <1>3, WFMin
<1>5. \A y \in S : ~(y < b) BY <1>1, <1>2, <1>4 DEF OpToRel
<1>6. \A y \in S : b <= y BY <1>1, <1>5, SMT
<1> QED BY <1>6

\* What was built for a target stays built for it.
LEMMA Grows ==
  ASSUME OriginalsInv, (\E t \in Targets : Calls(t)) \/ Runtime \/ GarbageCollectCache
  PROVE  \A b \in Backups : builtFor[b] # None => builtFor'[b] = builtFor[b]
<1>1. ASSUME NEW t \in Targets, Hook(t)
      PROVE  \A b \in Backups : builtFor[b] # None => builtFor'[b] = builtFor[b]
  <2>1. \A b \in Backups : builtFor[b] # None => b # last + 1
    BY LSPlantAssumption, SMT DEF OriginalsInv, Belongs, Built, IInv, TypeOK, Backups
  <2>2. builtFor' = [builtFor EXCEPT ![last + 1] = t] /\ DOMAIN builtFor = Backups
    BY <1>1 DEF Hook, OriginalsInv, IInv, TypeOK
  <2> QED BY <2>1, <2>2
<1> QED
  BY <1>1, ZenonT(30)
     DEF Calls, Runtime, DoHook, EnterTrampoline, RecordHooked, RecordJitMovement,
         RecordBackup, UnHook, EraseBackup, DoUnHook, Deoptimize, SetStatus,
         FixupStaticTrampolines, RestoreBackup, Propagate, Restored, UpdateMethodsCode,
         SetMethodsCode, GarbageCollectCache, built

\* What Moved depends on.
LEMMA SameMoved ==
  ASSUME NEW t \in Targets, Moved(t), owner'[t] = owner[t], installed' = installed,
         \A b \in Backups : builtFor[b] = t => builtFor'[b] = t,
         \A b : <<t, b>> \in jit_movements_' <=> <<t, b>> \in jit_movements_,
         hooked_methods_'[t] # None /\ op'[t].pc # "recordJit" =>
           hooked_methods_'[t] = hooked_methods_[t] /\ op[t].pc # "recordJit",
         op'[t].pc = "doHook" => op'[t] = op[t]
  PROVE  Moved(t)'
  BY DEF Moved, MovesJitCode

\* What Works depends on.
LEMMA SameWorks ==
  ASSUME NEW t \in Targets, Works(t), op'[t] \in {op[t], Idle}, deopt'[t] = deopt[t],
         \A b \in Backups : builtFor[b] = t => builtFor'[b] = t,
         op[t].pc # "idle" => op[t].b \in Backups,
         hooked_methods_[t] \in Backups \cup {None},
         deopt[t].pc = "entry" => deopt[t].b \in Backups \cup {t},
         hooked_methods_'[t] # None =>
           hooked_methods_'[t] = hooked_methods_[t] /\ op'[t].pc = op[t].pc,
         \A b : b \in deoptimized_ => b \in deoptimized_'
  PROVE  Works(t)'
<1>1. op'[t].pc # "idle" => op'[t] = op[t] BY SMT DEF Idle
<1> QED BY <1>1 DEF Works

\* A call on t keeps what its steps work on, and so what the others' do.
LEMMA CallWorks ==
  ASSUME OriginalsInv, IInv', installed' = installed, NEW t \in Targets, Calls(t)
  PROVE  Built' /\ \A x \in Targets : Works(x)' /\ Moved(x)'
<1>0. /\ \A x \in Targets, b \in Backups : builtFor[b] = x => builtFor'[b] = x
      /\ Built /\ \A x \in Targets : Works(x) /\ Moved(x)
  BY Grows, Sets DEF OriginalsInv, Belongs
<1>1. /\ DOMAIN op = Targets /\ DOMAIN deopt = Targets /\ DOMAIN hooked_methods_ = Methods
      /\ \A x \in Targets : x \in Methods /\ x \notin Backups /\ x # None
  BY Sets, ZenonT(30) DEF OriginalsInv, IInv, TypeOK
<1>2. \A x \in Targets :
        /\ op[x].pc # "idle" => op[x].b \in Backups
        /\ hooked_methods_[x] \in Backups \cup {None}
        /\ deopt[x].pc = "entry" => deopt[x].b \in Backups \cup {x}
        /\ op[x].pc \in {"doHook", "setEntry", "recordHooked", "eraseBackup", "doUnHook"} =>
             hooked_methods_[x] = None
        /\ op[x].pc \in {"recordJit", "recordDeoptimized"} => hooked_methods_[x] = op[x].b
  BY DEF OriginalsInv, IInv, Bookkeeping
<1>3. ASSUME NEW x \in Targets, x # t PROVE Works(x)' /\ Moved(x)'
  <2>1. op'[x] = op[x]
    BY <1>1, <1>3
       DEF Calls, Hook, DoHook, EnterTrampoline, RecordHooked, RecordJitMovement,
           RecordBackup, UnHook, EraseBackup, DoUnHook, Deoptimize, Step
  <2>2. deopt'[x] = deopt[x]
    BY <1>1, <1>3
       DEF Calls, Hook, DoHook, EnterTrampoline, RecordHooked, RecordJitMovement,
           RecordBackup, UnHook, EraseBackup, DoUnHook, Deoptimize
  <2>3. hooked_methods_'[x] = hooked_methods_[x]
    <3>1. CASE RecordHooked(t)
      BY <1>1, <1>2, <1>3, <3>1, SMT DEF RecordHooked, Step
    <3>2. CASE UnHook(t)
      BY <1>1, <1>3, <3>2, ZenonT(30) DEF UnHook
    <3>3. CASE EraseBackup(t)
      BY <1>1, <1>2, <1>3, <3>3, SMT DEF EraseBackup, Step
    <3> QED
      BY <3>1, <3>2, <3>3
         DEF Calls, Hook, DoHook, EnterTrampoline, RecordJitMovement, RecordBackup,
             DoUnHook, Deoptimize, hooks
  <2>4. \A b : b \in deoptimized_ => b \in deoptimized_'
    BY DEF Calls, Hook, DoHook, EnterTrampoline, RecordHooked, RecordJitMovement,
           RecordBackup, UnHook, EraseBackup, DoUnHook, Deoptimize
  <2>5. owner' = owner /\ \A b : <<x, b>> \in jit_movements_' <=> <<x, b>> \in jit_movements_
    BY <1>3
       DEF Calls, Hook, DoHook, EnterTrampoline, RecordHooked, RecordJitMovement,
           RecordBackup, UnHook, EraseBackup, DoUnHook, Deoptimize, jit
  <2>6. Works(x)' BY <1>0, <1>2, <2>1, <2>2, <2>3, <2>4, SameWorks
  <2>7. Moved(x)' BY <1>0, <2>1, <2>3, <2>5, SameMoved
  <2> QED BY <2>6, <2>7
<1>4. CASE Hook(t)
  <2>0. last + 1 \in Backups /\ last \in Nat
    BY <1>4, LSPlantAssumption, SMT DEF Hook, Backups, OriginalsInv, IInv, TypeOK
  <2>1. /\ op'[t] = [pc |-> "doHook", b |-> last + 1] /\ builtFor'[last + 1] = t
        /\ builtFor' = [builtFor EXCEPT ![last + 1] = t] /\ last' = last + 1
        /\ deopt' = deopt /\ hooked_methods_' = hooked_methods_ /\ hooked_methods_[t] = None
        /\ owner' = owner /\ jit_movements_' = jit_movements_
    BY <1>1, <1>4, <2>0, ZenonT(30) DEF Hook, OriginalsInv, IInv, TypeOK, hooks, jit
  <2>2. Built' BY <1>0, <2>0, <2>1, SMT DEF Built, Backups, OriginalsInv, IInv, TypeOK
  <2>3. Works(t)' BY <1>0, <1>1, <1>2, <2>1, SMT DEF Works
  <2>4. Moved(t)'
    <3>1. \A b \in Backups : builtFor[b] = t => b # last + 1
      BY <1>0, <1>1, <2>0, SMT DEF Built
    <3>2. owner[t] # last + 1 /\ <<t, last + 1>> \notin jit_movements_
      <4>1. Moved(t) BY <1>0, <1>1
      <4>4. t # last + 1 BY <1>1, <2>0, Sets, SMT
      <4>2. owner[t] # last + 1 BY <3>1, <4>1, <4>4 DEF Moved
      <4>3. <<t, last + 1>> \notin jit_movements_ BY <2>0, <3>1, <4>1 DEF Moved
      <4> QED BY <4>2, <4>3
    <3>3. op'[t].b = last + 1 BY <2>1, SMT
    <3>4. \A b \in Backups : builtFor[b] = t => builtFor'[b] = t BY <2>0, <2>1, <3>1, SMT
    <3>5. Moved(t) BY <1>0, <1>1
    <3>6. owner[t] = t \/ (owner[t] \in Backups /\ builtFor'[owner[t]] = t) BY <3>4, <3>5 DEF Moved
    <3>7. \A b \in Backups : <<t, b>> \in jit_movements_ => builtFor'[b] = t BY <3>4, <3>5 DEF Moved
    <3> QED BY <2>1, <3>2, <3>3, <3>6, <3>7 DEF Moved
  <2> QED BY <1>3, <2>2, <2>3, <2>4, ZenonT(30)
<1>5. ASSUME NEW ok \in BOOLEAN, DoHook(t, ok) PROVE Built' /\ Works(t)' /\ Moved(t)'
  <2>1. /\ op[t].pc = "doHook"
        /\ op'[t] \in {Idle, [pc |-> "recordHooked", b |-> op[t].b], [pc |-> "setEntry", b |-> op[t].b]}
        /\ UNCHANGED <<hooked_methods_, deoptimized_, deopt, builtFor, last, owner, jit_movements_>>
    BY <1>1, <1>5 DEF DoHook, Step, hooks, built, jit
  <2>2. Built' BY <1>0, <2>1 DEF Built
  <2>3. Works(t)' BY <1>0, <1>2, <2>1, SMTT(30) DEF Works, Idle
  <2>4. op'[t].pc # "doHook" BY <2>1, SMT DEF Idle
  <2>5. Moved(t)' BY <1>0, <1>2, <2>1, <2>4, SameMoved
  <2> QED BY <2>2, <2>3, <2>5
<1>12. CASE EnterTrampoline(t)
  <2>1. /\ op[t].pc = "setEntry" /\ op'[t] = [pc |-> "recordHooked", b |-> op[t].b]
        /\ UNCHANGED <<hooked_methods_, deoptimized_, deopt, builtFor, last, owner, jit_movements_>>
    BY <1>1, <1>12 DEF EnterTrampoline, Step, hooks, built, jit
  <2>2. Built' BY <1>0, <2>1 DEF Built
  <2>3. Works(t)' BY <1>0, <1>2, <2>1, SMTT(30) DEF Works
  <2>4. op'[t].pc # "doHook" BY <2>1, SMT
  <2>5. Moved(t)' BY <1>0, <1>2, <2>1, <2>4, SameMoved
  <2> QED BY <1>3, <2>2, <2>3, <2>5, ZenonT(30)
<1>6. CASE RecordHooked(t)
  <2>1. /\ op[t].pc = "recordHooked" /\ op'[t] = [pc |-> "recordJit", b |-> op[t].b]
        /\ hooked_methods_'[t] = op[t].b
        /\ UNCHANGED <<deoptimized_, deopt, builtFor, last, owner, jit_movements_>>
    BY <1>1, <1>2, <1>6 DEF RecordHooked, Step, built, jit
  <2>2. op'[t].pc = "recordJit" BY <2>1, SMT
  <2>3. Moved(t)' BY <1>0, <2>1, <2>2, SameMoved
  <2>4. Built' BY <1>0, <2>1 DEF Built
  <2>5. Works(t)' BY <1>0, <1>2, <2>1, <2>2, SMTT(30) DEF Works
  <2> QED BY <1>3, <2>3, <2>4, <2>5
<1>7. CASE RecordJitMovement(t)
  <2>1. /\ op[t].pc = "recordJit" /\ op'[t] = [pc |-> "recordDeoptimized", b |-> op[t].b]
        /\ jit_movements_' = jit_movements_ \cup {<<t, op[t].b>>}
        /\ UNCHANGED <<hooked_methods_, deoptimized_, deopt, builtFor, last, owner>>
    BY <1>1, <1>7 DEF RecordJitMovement, Step, built, hooks
  <2>5. op'[t].pc = "recordDeoptimized" BY <2>1, SMT
  <2>2. Moved(t)' BY <1>0, <1>2, <2>1, <2>5, ZenonT(30) DEF Works, Moved
  <2>3. Built' BY <1>0, <2>1 DEF Built
  <2>4. Works(t)' BY <1>0, <1>2, <2>1, SMTT(30) DEF Works
  <2> QED BY <1>3, <2>2, <2>3, <2>4
<1>8. CASE RecordBackup(t)
  <2>1. /\ op[t].pc = "recordDeoptimized" /\ op'[t] = Idle
        /\ deoptimized_' = deoptimized_ \cup {op[t].b}
        /\ UNCHANGED <<hooked_methods_, deopt, builtFor, last, owner, jit_movements_>>
    BY <1>1, <1>8 DEF RecordBackup, Step, built, hooks, jit
  <2>2. Built' BY <1>0, <2>1 DEF Built
  <2>5. op'[t].pc # "doHook" BY <2>1, SMT DEF Idle
  <2>3. Moved(t)' BY <1>0, <2>1, <2>5, SameMoved
  <2>4. Works(t)' BY <1>0, <1>2, <2>1, SMTT(30) DEF Works, Idle
  <2> QED BY <1>3, <2>2, <2>3, <2>4
<1>9. CASE UnHook(t)
  <2>1. /\ op'[t] = [pc |-> "eraseBackup", b |-> hooked_methods_[t]]
        /\ hooked_methods_[t] # None /\ hooked_methods_'[t] = None
        /\ UNCHANGED <<deoptimized_, deopt, builtFor, last, owner, jit_movements_>>
    BY <1>1, <1>9 DEF UnHook, built, jit
  <2>5. op'[t].pc # "doHook" BY <2>1, SMT
  <2>2. Moved(t)' BY <1>0, <2>1, <2>5, SameMoved
  <2>3. Built' BY <1>0, <2>1, ZenonT(30) DEF Built
  <2>4. Works(t)' BY <1>0, <1>2, <2>1, SMTT(30) DEF Works
  <2> QED BY <1>3, <2>2, <2>3, <2>4
<1>10. CASE EraseBackup(t) \/ DoUnHook(t)
  <2>1. /\ op[t].pc \in {"eraseBackup", "doUnHook"}
        /\ op'[t] \in {Idle, [pc |-> "doUnHook", b |-> op[t].b]}
        /\ hooked_methods_'[t] = None
        /\ UNCHANGED <<deoptimized_, deopt, builtFor, last, owner, jit_movements_>>
    BY <1>1, <1>2, <1>10, ZenonT(30) DEF EraseBackup, DoUnHook, Step, built, hooks, jit
  <2>2. Built' BY <1>0, <2>1 DEF Built
  <2>5. op'[t].pc # "doHook" BY <2>1, SMT DEF Idle
  <2>3. Moved(t)' BY <1>0, <2>1, <2>5, SameMoved
  <2>4. Works(t)' BY <1>0, <1>2, <2>1, SMTT(30) DEF Works, Idle
  <2> QED BY <1>3, <2>2, <2>3, <2>4
<1>11. CASE Deoptimize(t)
  <2>1. /\ UNCHANGED <<op, hooked_methods_, builtFor, last, owner, jit_movements_>>
        /\ \A b : b \in deoptimized_ => b \in deoptimized_'
        /\ deopt'[t].pc = "entry" => deopt'[t].b \in {t, hooked_methods_[t]} /\ deopt'[t].b # None
    <3>1. UNCHANGED <<op, hooked_methods_, builtFor, last, owner, jit_movements_>>
      BY <1>11 DEF Deoptimize, built, hooks, jit
    <3>2. \A b : b \in deoptimized_ => b \in deoptimized_' BY <1>11, ZenonT(30) DEF Deoptimize
    <3>3. deopt'[t].pc = "entry" => deopt'[t].b \in {t, hooked_methods_[t]} /\ deopt'[t].b # None
      BY <1>1, <1>11, SMTT(30) DEF Deoptimize, IsHooked, Idle
    <3> QED BY <3>1, <3>2, <3>3
  <2>2. Built' /\ Moved(t)' BY <1>0, <2>1, SameMoved DEF Built
  <2>3. Works(t)' BY <1>0, <1>2, <2>1 DEF Works
  <2> QED BY <1>3, <2>2, <2>3
<1> QED
  BY <1>3, <1>4, <1>5, <1>6, <1>7, <1>8, <1>9, <1>10, <1>11, <1>12 DEF Calls

\* Calls leave alone what is kept and restored.
LEMMA CallLeaves ==
  ASSUME OriginalsInv, installed' = installed, NEW t \in Targets, Calls(t)
  PROVE  KeptMeanwhile' /\ \A c \in Classes : Restores(c)'
<1>0. /\ UNCHANGED <<class, backup_methods_>>
      /\ KeptMeanwhile /\ \A c \in Classes : Restores(c)
  BY DEF OriginalsInv, Belongs, Calls, Hook, DoHook, EnterTrampoline, RecordHooked,
         RecordJitMovement, RecordBackup, UnHook, EraseBackup, DoUnHook, Deoptimize, inits
<1>1. \A b \in Backups : builtFor[b] # None => builtFor'[b] = builtFor[b]
  BY Grows
<1>2. /\ None \notin Methods /\ None \notin Static
      /\ \A c \in Classes : /\ class[c].b \in Backups \cup {None}
                            /\ class[c].pc = "restore" => class[c].m \in Methods
  BY Sets DEF OriginalsInv, IInv, TypeOK, Bookkeeping
<1>3. KeptMeanwhile'
  BY <1>0, <1>1, <1>2 DEF KeptMeanwhile, IsStatic, Initialising, PutsBack
<1>5. ASSUME NEW c \in Classes PROVE Restores(c)'
  BY <1>0, <1>1, <1>2 DEF Restores
<1> QED BY <1>3, <1>5

\* ART and the hooks in it keep the calls' methods apart.
LEMMA ArtWorks ==
  ASSUME OriginalsInv, installed' = installed, Runtime \/ GarbageCollectCache
  PROVE  Built' /\ \A x \in Targets : Works(x)' /\ Moved(x)'
<1>0. Built /\ \A x \in Targets : Works(x) /\ Moved(x)
  BY DEF OriginalsInv, Belongs
<1>1. UNCHANGED <<hooked_methods_, deoptimized_, op, deopt, last, builtFor>>
  BY DEF Runtime, SetStatus, FixupStaticTrampolines, RestoreBackup, Propagate, Restored,
         UpdateMethodsCode, SetMethodsCode, GarbageCollectCache, hooks, built
<1>2. Built' /\ \A x \in Targets : Works(x)'
  BY <1>0, <1>1 DEF Built, Works
<1>3. CASE Runtime
  <2>1. owner' = owner /\ jit_movements_' = jit_movements_
    BY <1>3 DEF Runtime, SetStatus, FixupStaticTrampolines, RestoreBackup, Propagate, Restored,
         UpdateMethodsCode, SetMethodsCode, jit
  <2>2. \A x \in Targets : Moved(x)' BY <1>0, <1>1, <2>1, SameMoved
  <2> QED BY <1>2, <2>2
<1>4. CASE GarbageCollectCache
  <2>1. ASSUME NEW x \in Targets PROVE Moved(x)'
    <3>1. PICK moves : moves = {b \in Backups : <<x, b>> \in jit_movements_} OBVIOUS
    <3>2. PICK first : first = CHOOSE b \in moves : \A y \in moves : b <= y OBVIOUS
    <3>3. /\ owner'[x] = IF MovesJitCode /\ owner[x] = x /\ moves # {} THEN first ELSE owner[x]
          /\ moves # {} => first \in Backups /\ <<x, first>> \in jit_movements_
      <4>1. owner'[x] = IF MovesJitCode /\ owner[x] = x /\ moves # {} THEN first ELSE owner[x]
        <5>1. PICK to : to = MoveObsoleteMethods(x) OBVIOUS
        <5>2. to = IF "MoveObsoleteMethod" \in installed /\ owner[x] = x /\ moves # {} THEN first
                   ELSE owner[x]
          BY <3>1, <3>2, <5>1, SMT DEF MoveObsoleteMethods
        <5>3. owner'[x] = IF "GarbageCollectCache" \in installed THEN to ELSE owner[x]
          BY <1>4, <5>1 DEF GarbageCollectCache
        <5> QED BY <5>2, <5>3 DEF MovesJitCode
      <4>2. moves # {} => first \in moves BY <3>1, <3>2, LeastBackup
      <4> QED BY <3>1, <4>1, <4>2, ZenonT(30)
    <3>4. jit_movements_' \in {{}, jit_movements_} BY <1>4 DEF GarbageCollectCache
    <3>5. owner'[x] = owner[x] \/ (owner'[x] \in Backups /\ builtFor[owner'[x]] = x)
      <4>1. CASE owner'[x] = owner[x] BY <4>1
      <4>2. CASE owner'[x] # owner[x]
        <5>1. owner'[x] = first /\ first \in Backups /\ <<x, first>> \in jit_movements_ BY <3>3, <4>2
        <5>2. Moved(x) BY <1>0
        <5>3. builtFor[first] = x BY <5>1, <5>2 DEF Moved
        <5> QED BY <5>1, <5>3
      <4> QED BY <4>1, <4>2
    <3>6. MovesJitCode /\ hooked_methods_[x] # None /\ op[x].pc # "recordJit" => owner'[x] # x
      <4>1. hooked_methods_[x] \in Backups \cup {None} /\ x \notin Backups
        BY Sets DEF OriginalsInv, IInv, Bookkeeping
      <4>2. <<x, hooked_methods_[x]>> \in jit_movements_ /\ hooked_methods_[x] # None => moves # {}
        BY <3>1, <4>1
      <4>3. CASE owner[x] = x
        <5>1. MovesJitCode /\ hooked_methods_[x] # None /\ op[x].pc # "recordJit" => moves # {}
          BY <1>0, <4>2, <4>3 DEF Moved
        <5>2. MovesJitCode /\ moves # {} => owner'[x] = first /\ first # x BY <3>3, <4>1, <4>3
        <5> QED BY <5>1, <5>2
      <4>4. CASE owner[x] # x BY <3>3, <4>4
      <4> QED BY <4>3, <4>4
    <3>7. op[x].pc = "doHook" => owner'[x] # op[x].b /\ <<x, op[x].b>> \notin jit_movements_'
      BY <1>0, <3>3, <3>4 DEF Moved
    <3>8. MovesJitCode' <=> MovesJitCode BY DEF MovesJitCode
    <3>9. \A b : <<x, b>> \in jit_movements_' => <<x, b>> \in jit_movements_ BY <3>4
    <3> QED BY <1>0, <1>1, <3>5, <3>6, <3>7, <3>8, <3>9 DEF Moved
  <2> QED BY <1>2, <2>1
<1> QED BY <1>3, <1>4

\* What a step of ART keeps and restores.
LEMMA ArtKeeps ==
  ASSUME OriginalsInv, installed' = installed, IInv', Runtime \/ GarbageCollectCache
  PROVE  KeptMeanwhile' /\ \A c \in Classes : Restores(c)'
<1>0. KeptMeanwhile /\ \A c \in Classes : Restores(c)
  BY DEF OriginalsInv, Belongs
<1>1. /\ UNCHANGED <<hooked_methods_, builtFor>> /\ (PutsBack' <=> PutsBack)
      /\ \A m : IsStatic(m)' <=> IsStatic(m)
  BY DEF Runtime, SetStatus, FixupStaticTrampolines, RestoreBackup, Propagate, Restored,
         UpdateMethodsCode, SetMethodsCode, GarbageCollectCache, hooks, built, IsStatic,
         PutsBack
<1>2. /\ DOMAIN class = Classes /\ DOMAIN backup_methods_ = Methods /\ None \notin Methods
      /\ \A m \in Methods : ClassOf(m) \in Classes
      /\ \A c \in Classes : class[c].pc = "restore" =>
           class[c].m \in Methods /\ ClassOf(class[c].m) = c
      /\ \A t \in Targets : hooked_methods_[t] \in Backups \cup {None}
      /\ \A t \in Targets : hooked_methods_[t] # None => builtFor[hooked_methods_[t]] = t
  <2>1. /\ DOMAIN class = Classes /\ DOMAIN backup_methods_ = Methods /\ None \notin Methods
        /\ \A m \in Methods : ClassOf(m) \in Classes
    BY Sets DEF OriginalsInv, IInv, TypeOK, ClassOf
  <2>2. /\ \A c \in Classes : class[c].pc = "restore" =>
             class[c].m \in Methods /\ ClassOf(class[c].m) = c
        /\ \A t \in Targets : hooked_methods_[t] \in Backups \cup {None}
    BY DEF OriginalsInv, IInv, Bookkeeping
  <2>3. \A t \in Targets : hooked_methods_[t] # None => builtFor[hooked_methods_[t]] = t
    BY DEF OriginalsInv, Belongs, Works
  <2> QED BY <2>1, <2>2, <2>3
<1>3. ASSUME NEW c \in Classes, SetStatus(c)
      PROVE  KeptMeanwhile' /\ \A d \in Classes : Restores(d)'
  <2>1. /\ class' = [class EXCEPT ![c] = Pc("saved")] /\ class[c].pc = "loaded"
        /\ \A m \in Methods : backup_methods_'[m] =
             IF PutsBack /\ ClassOf(m) = c /\ IsStatic(m) /\ m \in Kept
             THEN entry[m] ELSE backup_methods_[m]
    BY <1>3 DEF SetStatus
  <2>2. /\ \A d \in Classes : d # c => class'[d] = class[d]
        /\ class'[c].pc = "saved"
    BY <1>2, <2>1 DEF Pc
  <2>3. KeptMeanwhile' BY <1>0, <1>1, <1>2, <2>1, <2>2, ZenonT(30) DEF KeptMeanwhile, Initialising
  <2>5. ASSUME NEW d \in Classes PROVE Restores(d)'
    BY <1>0, <1>1, <1>2, <2>1, <2>2, ZenonT(30) DEF Restores
  <2> QED BY <2>3, <2>5
<1>4. ASSUME NEW c \in Classes, NEW compiled \in BOOLEAN, FixupStaticTrampolines(c, compiled)
      PROVE  KeptMeanwhile' /\ \A d \in Classes : Restores(d)'
  <2>1. /\ class' = [class EXCEPT ![c] = Pc(IF "FixupStaticTrampolines" \in installed
                                            THEN "fixed" ELSE "initialized")]
        /\ class[c].pc = "saved" /\ backup_methods_' = backup_methods_
    BY <1>4 DEF FixupStaticTrampolines
  <2>2. /\ \A d \in Classes : d # c => class'[d] = class[d]
        /\ class'[c].pc = IF "FixupStaticTrampolines" \in installed THEN "fixed" ELSE "initialized"
    BY <1>2, <2>1 DEF Pc
  <2>3. \A d \in Classes : PutsBack => (Initialising(d)' <=> Initialising(d))
    BY <2>1, <2>2 DEF Initialising, PutsBack
  <2>4. KeptMeanwhile' BY <1>0, <1>1, <1>2, <2>1, <2>3 DEF KeptMeanwhile
  <2>6. class'[c].pc # "restore" BY <2>2
  <2>5. ASSUME NEW d \in Classes PROVE Restores(d)'
    BY <1>0, <1>1, <2>1, <2>2, <2>6 DEF Restores
  <2> QED BY <2>4, <2>5
<1>5. ASSUME NEW c \in Classes, NEW m \in Methods, RestoreBackup(c, m)
      PROVE  KeptMeanwhile' /\ \A d \in Classes : Restores(d)'
  <2>1. /\ class' = [class EXCEPT ![c] = [pc |-> "restore", m |-> m, new |-> entry[m],
                                          deopt |-> IsDeoptimized(m), b |-> IsHooked(m)]]
        /\ class[c].pc = "fixed"
        /\ backup_methods_' = backup_methods_ /\ backup_methods_[m] # None
    BY <1>5 DEF RestoreBackup
  <2>2. /\ \A d \in Classes : d # c => class'[d] = class[d]
        /\ class'[c].pc = "restore" /\ class'[c].m = m /\ class'[c].b = IsHooked(m)
    BY <1>2, <2>1
  <2>3. \A d \in Classes : Initialising(d)' <=> Initialising(d)
    BY <2>1, <2>2 DEF Initialising
  <2>4. KeptMeanwhile' BY <1>0, <1>1, <1>2, <2>1, <2>3 DEF KeptMeanwhile
  <2>5. ASSUME NEW d \in Classes PROVE Restores(d)'
    BY <1>0, <1>1, <1>2, <2>1, <2>2 DEF Restores, IsHooked
  <2> QED BY <2>4, <2>5
<1>6. ASSUME NEW c \in Classes, Propagate(c)
      PROVE  KeptMeanwhile' /\ \A d \in Classes : Restores(d)'
  <2>1. /\ class' = [class EXCEPT ![c] = Pc("fixed")] /\ class[c].pc = "restore"
        /\ backup_methods_' = [backup_methods_ EXCEPT ![class[c].m] = None]
    BY <1>6 DEF Propagate
  <2>2. /\ \A d \in Classes : d # c => class'[d] = class[d]
        /\ class'[c].pc = "fixed"
    BY <1>2, <2>1 DEF Pc
  <2>3. \A d \in Classes : Initialising(d)' <=> Initialising(d)
    BY <2>1, <2>2 DEF Initialising
  <2>4. \A m \in Methods : /\ backup_methods_'[m] # None => backup_methods_[m] # None
                           /\ m # class[c].m => backup_methods_'[m] = backup_methods_[m]
    BY <1>2, <2>1
  <2>5. KeptMeanwhile' BY <1>0, <1>1, <1>2, <2>1, <2>3, <2>4 DEF KeptMeanwhile
  <2>6. ASSUME NEW d \in Classes PROVE Restores(d)'
    <3>1. class'[d].pc = "restore" => d # c /\ class'[d] = class[d] BY <2>2
    <3>2. d # c /\ class[d].pc = "restore" => backup_methods_'[class[d].m] = backup_methods_[class[d].m]
      BY <1>2, <2>1, <2>4, SMTT(30)
    <3> QED BY <1>0, <1>1, <3>1, <3>2 DEF Restores
  <2> QED BY <2>5, <2>6
<1>7. ASSUME NEW c \in Classes, Restored(c)
      PROVE  KeptMeanwhile' /\ \A d \in Classes : Restores(d)'
  <2>1. /\ class' = [class EXCEPT ![c] = Pc("initialized")] /\ class[c].pc = "fixed"
        /\ backup_methods_' = backup_methods_
        /\ \A m \in Methods : ClassOf(m) = c => backup_methods_[m] = None
    BY <1>7 DEF Restored
  <2>2. /\ \A d \in Classes : d # c => class'[d] = class[d]
        /\ class'[c].pc = "initialized"
    BY <1>2, <2>1 DEF Pc
  <2>3. KeptMeanwhile' BY <1>0, <1>1, <1>2, <2>1, <2>2 DEF KeptMeanwhile, Initialising
  <2>4. ASSUME NEW d \in Classes PROVE Restores(d)'
    BY <1>0, <1>1, <2>1, <2>2 DEF Restores
  <2> QED BY <2>3, <2>4
<1>8. ASSUME NEW m \in Methods, NEW code \in QuickCode(m), UpdateMethodsCode(m, code)
      PROVE  KeptMeanwhile' /\ \A d \in Classes : Restores(d)'
  BY <1>0, <1>1, <1>8 DEF UpdateMethodsCode, inits, KeptMeanwhile, Restores, Initialising
<1>9. ASSUME SetMethodsCode \/ GarbageCollectCache
      PROVE  KeptMeanwhile' /\ \A d \in Classes : Restores(d)'
  BY <1>0, <1>1, <1>9
     DEF SetMethodsCode, GarbageCollectCache, inits, KeptMeanwhile, Restores, Initialising
<1> QED BY <1>3, <1>4, <1>5, <1>6, <1>7, <1>8, <1>9 DEF Runtime

-----------------------------------------------------------------------------
\* The original of t is with t or with a backup built for it.
LEMMA MineTouched ==
  ASSUME OriginalsInv, NEW t \in Targets
  PROVE  /\ Mine(t) \in Touched(t) /\ Touched(t) \subseteq Methods
         /\ Mine(t) # t => Mine(t) \in Backups /\ builtFor[Mine(t)] = t
<1>1. /\ op[t].pc # "idle" => op[t].b \in Backups
      /\ hooked_methods_[t] \in Backups \cup {None}
      /\ Works(t)
  BY DEF OriginalsInv, IInv, Bookkeeping, Belongs
<1>2. Mine(t) # t => Mine(t) \in Backups /\ builtFor[Mine(t)] = t
  BY <1>1 DEF Mine, Works
<1> QED BY <1>2, Sets DEF Touched

\* No method of t is kept, restored or updated.
Calm(t) ==
    \A m \in Touched(t) : /\ backup_methods_[m] = None /\ instr.m # m
                          /\ IsStatic(m) => ~Initialising(ClassOf(m))

\* A call on x that overlapped nothing finds x calm and leaves it calm.
LEMMA CallCalm ==
  ASSUME OriginalsInv, KeptMeanwhile', NEW x \in Targets, x \notin Excused, Calls(x), ~Disturbed(x)'
  PROVE  /\ Calm(x)' /\ \A m \in Touched(x) : backup_methods_[m] = None
         /\ op[x].pc = "idle" \/ deopt[x].pc = "idle"
         /\ op'[x].pc = "idle" \/ deopt'[x].pc = "idle"
<1>0. ~Disturbed(x) /\ KeptMeanwhile BY DEF OriginalsInv, Belongs, Excused
<1>1. /\ UNCHANGED <<class, backup_methods_, instr>>
      /\ Hook(x) \/ builtFor' = builtFor
      /\ DOMAIN op = Targets /\ DOMAIN deopt = Targets
  BY DEF Calls, Hook, DoHook, EnterTrampoline, RecordHooked, RecordJitMovement,
         RecordBackup, UnHook, EraseBackup, DoUnHook, Deoptimize, inits, built,
         OriginalsInv, IInv, TypeOK
<1>2. /\ \A m \in Touched(x) : m \in Methods
      /\ \A m \in Touched(x)' : m \in Methods
  BY Sets DEF Touched
<1>3. CASE op'[x].pc # "idle" \/ deopt'[x].pc # "idle"
  <2>1. Calm(x)' BY <1>2, <1>3 DEF Disturbed, Settled, Calm, KeptMeanwhile
  <2>2. \A m \in Touched(x) : m \in Touched(x)'
    <3>1. \A b \in Backups : builtFor[b] # None => builtFor'[b] = builtFor[b] BY Grows
    <3> QED BY <3>1, Sets DEF Touched
  <2>3. \A m \in Touched(x) : backup_methods_[m] = None BY <1>1, <2>1, <2>2 DEF Calm
  <2> QED BY <1>0, <2>1, <2>3 DEF Disturbed
<1>4. CASE (op[x].pc # "idle" \/ deopt[x].pc # "idle") /\ builtFor' = builtFor
  <2>1. Calm(x) BY <1>0, <1>2, <1>4 DEF Disturbed, Settled, Calm, KeptMeanwhile
  <2>2. /\ Touched(x)' = Touched(x)
        /\ \A m : IsStatic(m)' <=> IsStatic(m)
        /\ \A c : Initialising(c)' <=> Initialising(c)
    BY <1>1, <1>4 DEF Touched, IsStatic, Initialising
  <2>3. Calm(x)' BY <1>1, <2>1, <2>2 DEF Calm
  <2> QED BY <1>0, <2>1, <2>3 DEF Calm, Disturbed
<1>5. Hook(x) \/ UnHook(x) => op'[x].pc # "idle"
  BY <1>1, SMTT(30) DEF Hook, UnHook
<1>6. deopt[x].pc = "idle" /\ Deoptimize(x) => deopt'[x].pc # "idle"
  BY <1>1, SMT DEF Deoptimize
<1> QED
  BY <1>1, <1>3, <1>4, <1>5, <1>6, ZenonT(30)
     DEF Calls, DoHook, EnterTrampoline, RecordHooked, RecordJitMovement, RecordBackup,
         EraseBackup, DoUnHook, Step

\* Sound(x) of a target nothing is under way on.
LEMMA CalmSound ==
  ASSUME Belongs', NEW x \in Targets, Calm(x)', NEW n, n \in Touched(x)', Mine(x)' = n,
         Original(x, entry[n])', deopt'[x].pc = "entry" => deopt'[x].b = n,
         x \in deoptimized_' /\ deopt'[x].pc = "idle" => entry'[n] = Interp
  PROVE  Sound(x)'
<1>2. x \in Touched(x)' /\ 0 \in Classes BY Sets DEF Touched
<1>3. backup_methods_'[n] = None /\ instr'.m # n /\ backup_methods_'[x] = None
  BY <1>2 DEF Calm
<1>4. ~Pending(n)' /\ ~Pending(x)' BY <1>3 DEF Pending
<1>5. ~Lost(n)' BY <1>2 DEF Calm, Lost, Initialising
<1>6. class'[0].pc = "restore" => class'[0].m # x
  BY <1>2, <1>3 DEF Belongs, Restores
<1>7. Runs(x, n)' BY <1>3, <1>4, <1>5, <1>6 DEF Runs
<1>8. Interprets(x, n)' BY <1>3, <1>4, <1>5, <1>6 DEF Interprets
<1> QED BY <1>7, <1>8 DEF Sound, Runs, Interprets

\* What Sound(x) depends on: nothing of other targets.
LEMMA SameSound ==
  ASSUME OriginalsInv, installed' = installed, owner' = owner, NEW x \in Targets, Sound(x),
         op'[x] = op[x], deopt'[x] = deopt[x], hooked_methods_'[x] = hooked_methods_[x],
         \A b \in Backups : builtFor[b] = x => builtFor'[b] = x,
         \A m \in Touched(x) : /\ entry'[m] = entry[m] /\ backup_methods_'[m] = backup_methods_[m]
                               /\ class'[ClassOf(m)] = class[ClassOf(m)],
         \A m \in Touched(x) : instr'.m = m => instr'.m = instr.m /\ instr'.code = instr.code,
         x \in freed' => x \in freed, x \in deoptimized_' => x \in deoptimized_
  PROVE  Sound(x)'
<1>1. PICK m : m = Mine(x) OBVIOUS
<1>2. Mine(x)' = m BY <1>1 DEF Mine
<1>3. /\ m \in Touched(x) /\ x \in Touched(x) /\ ClassOf(x) = 0
      /\ m # x => m \in Backups /\ builtFor[m] = x
  BY <1>1, MineTouched DEF Touched, ClassOf
<1>4. Left(x)' <=> Left(x) BY <1>1, <1>2 DEF Left, MovesJitCode
<1>5. /\ entry'[m] = entry[m] /\ entry'[x] = entry[x] /\ class'[0] = class[0]
      /\ backup_methods_'[m] = backup_methods_[m] /\ backup_methods_'[x] = backup_methods_[x]
      /\ class'[ClassOf(m)] = class[ClassOf(m)]
      /\ instr'.m = m => instr'.m = instr.m /\ instr'.code = instr.code
  BY <1>3
<1>6. /\ Pending(m)' <=> Pending(m)
      /\ Pending(x)' <=> Pending(x)
  BY <1>3, <1>5 DEF Pending
<1>7. Lost(m)' <=> Lost(m)
  <2>1. IsStatic(m)' <=> IsStatic(m) BY <1>3, Sets DEF IsStatic
  <2> QED BY <1>5, <2>1 DEF Lost
<1>8. \A e : Original(x, e) => Original(x, e)' BY <1>4 DEF Original
<1>9. Runs(x, m)' BY <1>1, <1>5, <1>6, <1>7, <1>8 DEF Sound, Runs
<1>10. Interprets(x, m)' BY <1>1, <1>5, <1>6, <1>7 DEF Sound, Interprets
<1> QED BY <1>2, <1>9, <1>10 DEF Sound, Runs, Interprets

\* A call on t does not touch another target's methods.
LEMMA OtherSound ==
  ASSUME OriginalsInv, installed' = installed, NEW t \in Targets, Calls(t),
         NEW x \in Targets, x # t, Sound(x)
  PROVE  Sound(x)'
<1>1. /\ DOMAIN entry = Methods /\ DOMAIN op = Targets /\ DOMAIN deopt = Targets
      /\ DOMAIN hooked_methods_ = Methods /\ x \in Methods /\ x \notin Backups
  BY Sets DEF OriginalsInv, IInv, TypeOK
<1>2. /\ op[t].pc # "idle" => op[t].b \in Backups /\ builtFor[op[t].b] = t
      /\ deopt[t].pc = "entry" => deopt[t].b = t \/ builtFor[deopt[t].b] = t
      /\ hooked_methods_[t] \in Backups \cup {None}
  BY DEF OriginalsInv, IInv, Bookkeeping, Belongs, Works
<1>3. \A m \in Touched(x) : m \in Methods /\ m # t /\ (m = x \/ (m \in Backups /\ builtFor[m] = x))
  BY Sets, SMTT(30) DEF Touched
<1>4. \A m \in Touched(x) : entry'[m] = entry[m]
  <2>1. ASSUME NEW m \in Touched(x), NEW ok \in BOOLEAN, DoHook(t, ok) PROVE entry'[m] = entry[m]
    <3>1. op[t].b # m BY <1>2, <1>3, <2>1, Sets DEF DoHook, Step
    <3> QED BY <1>1, <1>3, <2>1, <3>1 DEF DoHook, SetEntryPoint
  <2>4. ASSUME NEW m \in Touched(x), EnterTrampoline(t) PROVE entry'[m] = entry[m]
    BY <1>1, <1>3, <2>4 DEF EnterTrampoline, SetEntryPoint
  <2>2. ASSUME NEW m \in Touched(x), DoUnHook(t) PROVE entry'[m] = entry[m]
    BY <1>1, <1>3, <2>2 DEF DoUnHook, SetEntryPoint
  <2>3. ASSUME NEW m \in Touched(x), Deoptimize(t) PROVE entry'[m] = entry[m]
    <3>1. deopt[t].pc = "entry" => deopt[t].b # m
      <4>1. deopt[t].pc = "entry" => deopt[t].b \in Backups \cup {t} BY DEF OriginalsInv, IInv, Bookkeeping
      <4> QED BY <1>1, <1>2, <1>3, <4>1
    <3> QED BY <1>1, <1>3, <2>3, <3>1 DEF Deoptimize, SetEntryPoint
  <2> QED
    BY <2>1, <2>2, <2>3, <2>4
       DEF Calls, Hook, RecordHooked, RecordJitMovement, RecordBackup, UnHook, EraseBackup
<1>5. op'[x] = op[x]
  BY <1>1
     DEF Calls, Hook, DoHook, EnterTrampoline, RecordHooked, RecordJitMovement,
         RecordBackup, UnHook, EraseBackup, DoUnHook, Deoptimize, Step
<1>6. /\ deopt'[x] = deopt[x] /\ UNCHANGED <<class, backup_methods_, instr, freed, owner>>
  <2>1. deopt'[x] = deopt[x]
    BY <1>1
       DEF Calls, Hook, DoHook, EnterTrampoline, RecordHooked, RecordJitMovement,
           RecordBackup, UnHook, EraseBackup, DoUnHook, Deoptimize
  <2>2. UNCHANGED <<class, backup_methods_, instr, freed, owner>>
    BY DEF Calls, Hook, DoHook, EnterTrampoline, RecordHooked, RecordJitMovement,
           RecordBackup, UnHook, EraseBackup, DoUnHook, Deoptimize, inits, jit
  <2> QED BY <2>1, <2>2
<1>7. hooked_methods_'[x] = hooked_methods_[x]
  <2>1. CASE RecordHooked(t)
    BY <1>1, <1>2, <2>1, SMT DEF RecordHooked, Step
  <2>2. CASE UnHook(t)
    BY <1>1, <2>2 DEF UnHook
  <2>3. CASE EraseBackup(t)
    BY <1>1, <1>2, <2>3, SMTT(30) DEF EraseBackup, Step
  <2> QED
    BY <2>1, <2>2, <2>3, ZenonT(30)
       DEF Calls, Hook, DoHook, EnterTrampoline, RecordJitMovement, RecordBackup, DoUnHook,
           Deoptimize, hooks
<1>8. x \in deoptimized_' => x \in deoptimized_
  <2>1. CASE RecordBackup(t) BY <1>1, <1>2, <2>1 DEF RecordBackup, Step
  <2> QED
    BY <2>1
       DEF Calls, Hook, DoHook, EnterTrampoline, RecordHooked, RecordJitMovement, UnHook,
           EraseBackup, DoUnHook, Deoptimize
<1>9. \A b \in Backups : builtFor[b] = x => builtFor'[b] = x
  BY Grows, Sets
<1> QED BY <1>4, <1>5, <1>6, <1>7, <1>8, <1>9, SameSound

\* A call on x hands the original from x to the backup and back, and deoptimizes it there.
LEMMA CallSound ==
  ASSUME OriginalsInv, Belongs', installed' = installed,
         NEW x \in Targets, x \notin Excused, Calls(x), ~Disturbed(x)'
  PROVE  Sound(x)'
<1>1. /\ DOMAIN entry = Methods /\ DOMAIN op = Targets /\ DOMAIN deopt = Targets
      /\ DOMAIN hooked_methods_ = Methods /\ x \in Methods /\ x \notin Backups /\ x # None
      /\ \A b \in Backups : b \in Methods /\ b # None
  BY Sets, ZenonT(30) DEF OriginalsInv, IInv, TypeOK
<1>2. /\ op[x].pc # "idle" => op[x].b \in Backups /\ builtFor[op[x].b] = x
      /\ hooked_methods_[x] \in Backups \cup {None}
      /\ hooked_methods_[x] # None => builtFor[hooked_methods_[x]] = x
      /\ op[x].pc \in {"doHook", "setEntry", "recordHooked", "eraseBackup", "doUnHook"} =>
           hooked_methods_[x] = None
      /\ op[x].pc \in {"recordJit", "recordDeoptimized"} => hooked_methods_[x] = op[x].b
  BY DEF OriginalsInv, IInv, Bookkeeping, Belongs, Works
<1>3. /\ Calm(x)' /\ \A m \in Touched(x) : backup_methods_[m] = None
      /\ op[x].pc = "idle" \/ deopt[x].pc = "idle"
      /\ op'[x].pc = "idle" \/ deopt'[x].pc = "idle"
  BY CallCalm DEF Belongs
<1>4. PICK m : m = Mine(x) OBVIOUS
<1>5. /\ Original(x, entry[m])
      /\ deopt[x].pc = "entry" => deopt[x].b = m
      /\ x \in deoptimized_ /\ deopt[x].pc = "idle" => entry[m] = Interp
  <2>1. backup_methods_[m] = None BY <1>3, <1>4, MineTouched
  <2>2. ~Pending(m) /\ Sound(x) BY <2>1 DEF Pending, OriginalsInv
  <2> QED BY <1>4, <2>2 DEF Sound, Runs, Interprets
<1>6. \A b \in Backups : builtFor[b] = x => builtFor'[b] = x
  BY Grows, Sets
<1> DEFINE Backup(n) == n = x \/ (n \in Backups /\ builtFor'[n] = x)
<1>7. ASSUME NEW n, Mine(x)' = n, Backup(n), owner' = owner,
             n \in {x, m} \/ owner[x] # n, entry'[n] = entry[m], freed' = freed,
             deopt' = deopt, deopt[x].pc = "entry" => n = m,
             x \in deoptimized_' => x \in deoptimized_
      PROVE  Sound(x)'
  <2>1. n \in Touched(x)' BY <1>7 DEF Touched
  <2>5. Left(x) => Left(x)' BY <1>4, <1>7 DEF Left, MovesJitCode
  <2>2. Original(x, entry[n])' BY <1>5, <1>7, <2>5 DEF Original
  <2>3. x \in deoptimized_' /\ deopt'[x].pc = "idle" => entry'[n] = Interp BY <1>5, <1>7
  <2>4. deopt'[x].pc = "entry" => deopt'[x].b = n BY <1>5, <1>7
  <2> QED BY <1>3, <1>7, <2>1, <2>2, <2>3, <2>4, CalmSound
<1>8. CASE Hook(x)
  <2>1. /\ UNCHANGED <<entry, hooked_methods_, deoptimized_, freed, owner, deopt>> /\ hooked_methods_[x] = None
        /\ op[x].pc = "idle" /\ op'[x] = [pc |-> "doHook", b |-> last + 1]
    BY <1>1, <1>8, ZenonT(30) DEF Hook, hooks, jit
  <2>2. Mine(x)' = x /\ m = x BY <1>4, <2>1, SMT DEF Mine
  <2> QED BY <1>7, <2>1, <2>2
<1>9. ASSUME NEW ok \in BOOLEAN, DoHook(x, ok) PROVE Sound(x)'
  <2>1. /\ UNCHANGED <<hooked_methods_, deoptimized_, freed, owner, deopt, builtFor>>
        /\ hooked_methods_[x] = None /\ op[x].pc = "doHook" /\ op[x].b \in Backups
        /\ builtFor[op[x].b] = x
    BY <1>2, <1>9 DEF DoHook, Step, hooks, jit, built
  <2>2. m = x BY <1>4, <2>1 DEF Mine
  <2>3. deopt[x].pc = "idle" BY <1>3, <2>1
  <2>4. CASE ok
    <3>1. op'[x].pc \in {"recordHooked", "setEntry"} /\ op'[x].b = op[x].b
      BY <1>1, <1>9, <2>4, SMT DEF DoHook, Step
    <3>2. entry'[op[x].b] = entry[x] BY <1>1, <1>9, <2>1, <2>4, SMTT(30) DEF DoHook, SetEntryPoint
    <3>3. Mine(x)' = op[x].b BY <3>1 DEF Mine
    <3>4. owner[x] # op[x].b BY <2>1 DEF OriginalsInv, Belongs, Moved
    <3> QED BY <1>7, <2>1, <2>2, <2>3, <3>2, <3>3, <3>4
  <2>5. CASE ~ok
    <3>1. op'[x] = Idle /\ entry' = entry BY <1>1, <1>9, <2>5, ZenonT(30) DEF DoHook, Step
    <3>2. Mine(x)' = x BY <2>1, <3>1, SMTT(30) DEF Mine, Idle
    <3> QED BY <1>7, <2>1, <2>2, <2>3, <3>1, <3>2
  <2> QED BY <2>4, <2>5
<1>16. CASE EnterTrampoline(x)
  <2>1. /\ UNCHANGED <<hooked_methods_, deoptimized_, freed, owner, deopt, builtFor>>
        /\ op[x].pc = "setEntry" /\ op'[x] = [pc |-> "recordHooked", b |-> op[x].b]
        /\ op[x].b \in Backups /\ builtFor[op[x].b] = x
        /\ entry' = [entry EXCEPT ![x] = Tramp(op[x].b)]
    BY <1>1, <1>2, <1>16, ZenonT(30) DEF EnterTrampoline, Step, SetEntryPoint, hooks, jit, built
  <2>2. Mine(x)' = op[x].b /\ m = op[x].b BY <1>4, <2>1, SMTT(30) DEF Mine
  <2>3. entry'[op[x].b] = entry[op[x].b] BY <1>1, <2>1
  <2> QED BY <1>7, <2>1, <2>2, <2>3
<1>10. CASE RecordHooked(x)
  <2>1. /\ UNCHANGED <<entry, deoptimized_, freed, owner, deopt, builtFor>>
        /\ op[x].pc = "recordHooked" /\ op'[x] = [pc |-> "recordJit", b |-> op[x].b]
        /\ op[x].b \in Backups /\ builtFor[op[x].b] = x /\ hooked_methods_'[x] = op[x].b
    BY <1>1, <1>2, <1>10, ZenonT(30) DEF RecordHooked, Step, jit, built
  <2>2. Mine(x)' = op[x].b /\ m = op[x].b BY <1>1, <1>4, <2>1, SMTT(30) DEF Mine
  <2> QED BY <1>7, <2>1, <2>2
<1>11. CASE RecordJitMovement(x) \/ RecordBackup(x)
  <2>1. /\ UNCHANGED <<entry, freed, owner, deopt, builtFor, hooked_methods_>>
        /\ op[x].pc \in {"recordJit", "recordDeoptimized"}
        /\ op'[x].pc \in {"idle", "recordDeoptimized"}
        /\ hooked_methods_[x] = op[x].b /\ op[x].b \in Backups /\ builtFor[op[x].b] = x
        /\ deoptimized_' \in {deoptimized_, deoptimized_ \cup {op[x].b}}
    BY <1>1, <1>2, <1>11, SMT DEF RecordJitMovement, RecordBackup, Step, Idle, jit, built, hooks
  <2>2. Mine(x)' = op[x].b /\ m = op[x].b BY <1>1, <1>4, <2>1 DEF Mine
  <2>4. x \in deoptimized_' => x \in deoptimized_ BY <1>1, <2>1
  <2> QED BY <1>7, <2>1, <2>2, <2>4, ZenonT(30)
<1>12. CASE UnHook(x)
  <2>1. /\ UNCHANGED <<entry, deoptimized_, freed, owner, deopt, builtFor>>
        /\ op[x].pc = "idle" /\ op'[x] = [pc |-> "eraseBackup", b |-> hooked_methods_[x]]
        /\ hooked_methods_[x] # None /\ hooked_methods_'[x] = None
    BY <1>1, <1>12, ZenonT(30) DEF UnHook, jit, built
  <2>2. Mine(x)' = hooked_methods_[x] /\ m = hooked_methods_[x] BY <1>4, <2>1, SMTT(30) DEF Mine
  <2> QED BY <1>2, <1>7, <2>1, <2>2
<1>13. CASE EraseBackup(x)
  <2>1. /\ UNCHANGED <<entry, deoptimized_, freed, owner, deopt, builtFor>>
        /\ op[x].pc = "eraseBackup" /\ op'[x] = [pc |-> "doUnHook", b |-> op[x].b]
        /\ hooked_methods_[x] = None /\ hooked_methods_'[x] = None
        /\ op[x].b \in Backups /\ builtFor[op[x].b] = x
    BY <1>1, <1>2, <1>13, ZenonT(30) DEF EraseBackup, Step, jit, built
  <2>2. Mine(x)' = op[x].b /\ m = op[x].b BY <1>4, <2>1, SMTT(30) DEF Mine
  <2> QED BY <1>7, <2>1, <2>2
<1>14. CASE DoUnHook(x)
  <2>1. /\ UNCHANGED <<deoptimized_, freed, owner, deopt, builtFor, hooked_methods_>>
        /\ op[x].pc = "doUnHook" /\ op'[x] = Idle /\ hooked_methods_[x] = None
        /\ entry'[x] = entry[op[x].b]
    BY <1>1, <1>2, <1>14 DEF DoUnHook, Step, SetEntryPoint, jit, built, hooks
  <2>2. Mine(x)' = x /\ m = op[x].b BY <1>4, <2>1, SMTT(30) DEF Mine, Idle
  <2>4. deopt[x].pc = "idle" BY <1>3, <2>1
  <2> QED BY <1>7, <2>1, <2>2, <2>4
<1>15. CASE Deoptimize(x)
  <2>1. UNCHANGED <<op, freed, owner, builtFor, hooked_methods_>>
    BY <1>15 DEF Deoptimize, jit, built, hooks
  <2>2. Mine(x)' = m /\ (Left(x)' <=> Left(x)) /\ m \in Touched(x)'
    BY <1>4, <2>1, MineTouched DEF Mine, Left, MovesJitCode, Touched
  <2>3. CASE deopt[x].pc = "idle"
    <3>1. deopt'[x].pc = "backup" /\ entry' = entry BY <1>1, <1>15, <2>3, SMT DEF Deoptimize
    <3>2. Original(x, entry[m])' BY <1>5, <2>1, <2>2, <3>1 DEF Original
    <3> QED BY <1>3, <2>2, <3>1, <3>2, CalmSound, ZenonT(30)
  <2>4. CASE deopt[x].pc = "backup"
    <3>1. /\ deopt'[x].pc = "entry" /\ entry' = entry
          /\ deopt'[x].b = IF hooked_methods_[x] = None THEN x ELSE hooked_methods_[x]
      BY <1>1, <1>15, <2>4, SMT DEF Deoptimize, IsHooked
    <3>2. deopt'[x].b = m BY <1>3, <1>4, <2>4, <3>1 DEF Mine
    <3>3. Original(x, entry[m])' BY <1>5, <2>1, <2>2, <3>1 DEF Original
    <3> QED BY <1>3, <2>2, <3>1, <3>2, <3>3, CalmSound, ZenonT(30)
  <2>5. CASE deopt[x].pc = "entry"
    <3>1. deopt'[x].pc = "idle" /\ entry' = [entry EXCEPT ![m] = Interp]
      BY <1>1, <1>5, <1>15, <2>5, SMTT(30) DEF Deoptimize, SetEntryPoint, Idle
    <3>2. entry'[m] = Interp BY <1>1, <1>4, <3>1, MineTouched
    <3>3. Original(x, entry[m])' BY <3>2 DEF Original, Given
    <3> QED BY <1>3, <2>2, <3>1, <3>2, <3>3, CalmSound, ZenonT(30)
  <2> QED BY <1>15, <2>3, <2>4, <2>5 DEF Deoptimize
<1> QED
  BY <1>8, <1>9, <1>10, <1>11, <1>12, <1>13, <1>14, <1>15, <1>16 DEF Calls

\* ART changes nothing that a call on x works on.
LEMMA ArtLeaves ==
  ASSUME OriginalsInv, Runtime, NEW x \in Targets, NEW m, m = Mine(x), Runs(x, m)', Interprets(x, m)'
  PROVE  Sound(x)'
<1>1. UNCHANGED <<op, hooked_methods_>>
  BY DEF Runtime, SetStatus, FixupStaticTrampolines, RestoreBackup, Propagate, Restored,
         UpdateMethodsCode, SetMethodsCode, hooks
<1>2. Mine(x)' = m BY <1>1 DEF Mine
<1> QED BY <1>2 DEF Sound, Runs, Interprets

\* BackupClassMethods keeps the entry points of the methods that need it.
LEMMA SetStatusSound ==
  ASSUME OriginalsInv, installed' = installed, NEW c \in Classes, SetStatus(c),
         NEW x \in Targets, Sound(x), ~Disturbed(x)', ~Exposed(x)'
  PROVE  Sound(x)'
<1>1. PICK m : m = Mine(x) OBVIOUS
<1>2. /\ m \in Methods /\ x \in Methods /\ ClassOf(x) = 0 /\ 0 \in Classes /\ ClassOf(m) \in Classes
      /\ m \in Touched(x)
      /\ m # x => m \in Backups /\ builtFor[m] = x
  BY <1>1, MineTouched, Sets DEF ClassOf
<1>3. Runs(x, m) /\ Interprets(x, m) BY <1>1 DEF Sound
<1>4. /\ class' = [class EXCEPT ![c] = Pc("saved")] /\ class[c].pc = "loaded" /\ DOMAIN class = Classes
      /\ UNCHANGED <<entry, hooked_methods_, op, deopt, instr, builtFor, deoptimized_, freed, owner>>
  BY DEF SetStatus, hooks, built, jit, OriginalsInv, IInv, TypeOK
<1>5. class'[c].pc = "saved" /\ \A d \in Classes : d # c => class'[d] = class[d]
  BY <1>4 DEF Pc
<1>6. /\ Left(x)' <=> Left(x)
      /\ Touched(x)' = Touched(x)
      /\ \A y : IsStatic(y)' <=> IsStatic(y)
  BY <1>4 DEF Left, MovesJitCode, Mine, Touched, IsStatic
<1>7. ASSUME NEW y \in Methods
      PROVE  /\ \/ backup_methods_'[y] = backup_methods_[y]
                \/ backup_methods_'[y] = entry[y] /\ ClassOf(y) = c
             /\ PutsBack /\ ClassOf(y) = c /\ IsStatic(y) /\ y \in Kept => backup_methods_'[y] = entry[y]
             /\ ClassOf(y) = c => backup_methods_[y] = None /\ ~Pending(y) /\ ~Pending(y)'
             /\ ClassOf(y) # c => (Pending(y)' <=> Pending(y)) /\ (Lost(y)' <=> Lost(y))
  <2>1. backup_methods_'[y] =
          IF PutsBack /\ ClassOf(y) = c /\ IsStatic(y) /\ y \in Kept THEN entry[y]
          ELSE backup_methods_[y]
    BY DEF SetStatus
  <2>2. ClassOf(y) = c => backup_methods_[y] = None
    BY <1>4 DEF OriginalsInv, Belongs, KeptMeanwhile, Initialising
  <2>3. ClassOf(y) \in Classes BY Sets DEF ClassOf
  <2>4. ClassOf(y) = c => ~Pending(y) /\ ~Pending(y)' BY <1>5, <2>2 DEF Pending
  <2>5. ClassOf(y) # c => (Pending(y)' <=> Pending(y)) /\ (Lost(y)' <=> Lost(y))
    BY <1>5, <1>6, <2>1, <2>3 DEF Pending, Lost
  <2> QED BY <2>1, <2>2, <2>4, <2>5
<1>8. \A e : Original(x, e)' <=> Original(x, e) BY <1>4, <1>6 DEF Original
<1>9. ASSUME ClassOf(m) = c, m # x \/ x \in deoptimized_ PROVE ~Lost(m)'
  <2>1. CASE ~IsStatic(m) BY <1>6, <2>1 DEF Lost
  <2>2. CASE IsStatic(m)
    <3>1. op[x].pc = "idle"
      BY <1>2, <1>4, <1>5, <1>6, <1>9, <2>2 DEF Disturbed, Settled, Initialising
    <3>2. m # x => m = hooked_methods_[x] /\ m # None BY <1>1, <1>2, <3>1, Sets DEF Mine
    <3>3. m # x => m \in deoptimized_ BY <3>1, <3>2 DEF OriginalsInv, Belongs, Works
    <3>4. m \in Kept /\ m \in Kept' BY <1>4, <1>9, <3>3 DEF Kept
    <3>7. m \in {x, hooked_methods_'[x]} BY <1>4, <3>2
    <3>8. PutsBack
      BY <1>5, <1>6, <1>9, <2>2, <3>4, <3>7 DEF Exposed, Initialising, PutsBack
    <3>5. backup_methods_'[m] = entry[m] BY <1>2, <1>7, <1>9, <2>2, <3>4, <3>8
    <3>6. entry[m] \in Entry BY <1>2 DEF OriginalsInv, IInv, TypeOK
    <3> QED BY <3>5, <3>6, Entries DEF Lost
  <2> QED BY <2>1, <2>2
<1>10. class'[0].pc = "restore" => class'[0] = class[0] BY <1>2, <1>5
<1>11. Runs(x, m)'
  <2>1. Original(x, entry[m])' \/ (m # x /\ Pending(m)') BY <1>2, <1>3, <1>4, <1>7, <1>8 DEF Runs
  <2>2. backup_methods_'[m] # None => Original(x, backup_methods_[m])'
    BY <1>2, <1>3, <1>4, <1>7, <1>8 DEF Runs, Original
  <2>3. m # x => ~Lost(m)' BY <1>2, <1>3, <1>7, <1>9 DEF Runs
  <2>4. Pending(x)' => entry'[x] \in Chosen(x) BY <1>2, <1>3, <1>4, <1>7 DEF Runs
  <2> QED BY <1>3, <1>4, <1>10, <2>1, <2>2, <2>3, <2>4 DEF Runs
<1>12. Interprets(x, m)'
  <2>1. SUFFICES ASSUME x \in deoptimized_, deopt[x].pc = "idle" PROVE Interprets(x, m)'
    BY <1>4 DEF Interprets
  <2>2. entry[m] = Interp \/ Pending(m)' BY <1>2, <1>3, <1>7, <2>1 DEF Interprets
  <2>3. backup_methods_'[m] # None => backup_methods_'[m] = Interp
    BY <1>2, <1>3, <1>7, <2>1 DEF Interprets
  <2>4. ~Lost(m)' BY <1>2, <1>3, <1>7, <1>9, <2>1 DEF Interprets
  <2> QED BY <1>3, <1>4, <1>10, <2>1, <2>2, <2>3, <2>4 DEF Interprets
<1> QED BY <1>1, <1>11, <1>12, ArtLeaves DEF Runtime

\* ART replaces entry points; those that must not be lost are kept.
LEMMA FixupSound ==
  ASSUME OriginalsInv, installed' = installed,
         NEW c \in Classes, NEW compiled \in BOOLEAN, FixupStaticTrampolines(c, compiled),
         NEW x \in Targets, Sound(x), ~Disturbed(x)
  PROVE  Sound(x)'
<1>1. PICK m : m = Mine(x) OBVIOUS
<1>2. /\ m \in Methods /\ x \in Methods /\ ClassOf(x) = 0 /\ 0 \in Classes /\ x \notin Backups
      /\ m # x => m \in Backups /\ builtFor[m] = x
  BY <1>1, MineTouched, Sets DEF ClassOf
<1>3. Runs(x, m) /\ Interprets(x, m) BY <1>1 DEF Sound
<1>4. /\ class' = [class EXCEPT ![c] = Pc(IF "FixupStaticTrampolines" \in installed
                                          THEN "fixed" ELSE "initialized")]
      /\ class[c].pc = "saved" /\ DOMAIN class = Classes
      /\ UNCHANGED <<backup_methods_, op, hooked_methods_, deopt, instr, builtFor, deoptimized_, freed, owner>>
  BY DEF FixupStaticTrampolines, hooks, built, jit, OriginalsInv, IInv, TypeOK
<1>5. /\ class'[c].pc = IF "FixupStaticTrampolines" \in installed THEN "fixed" ELSE "initialized"
      /\ \A d \in Classes : d # c => class'[d] = class[d]
  BY <1>4 DEF Pc
<1>6. /\ Left(x)' <=> Left(x)
      /\ \A y : IsStatic(y)' <=> IsStatic(y)
  BY <1>4 DEF Left, MovesJitCode, Mine, IsStatic
<1>7. ASSUME NEW y \in Methods
      PROVE  /\ ClassOf(y) # c \/ ~IsStatic(y) => entry'[y] = entry[y]
             /\ ClassOf(y) = c /\ IsStatic(y) => entry'[y] \in {Code(y), Interp}
             /\ ClassOf(y) = c => ~Pending(y) /\ (Pending(y)' <=> backup_methods_[y] # None)
             /\ ClassOf(y) # c => (Pending(y)' <=> Pending(y)) /\ (Lost(y)' <=> Lost(y))
             /\ ClassOf(y) = c => ~Lost(y)'
             /\ ClassOf(y) = c /\ IsStatic(y) /\ ~Lost(y) => Pending(y)'
  <2>1. /\ ClassOf(y) # c \/ ~IsStatic(y) => entry'[y] = entry[y]
        /\ ClassOf(y) = c /\ IsStatic(y) => entry'[y] \in {Code(y), Interp}
    BY DEF FixupStaticTrampolines
  <2>2. ClassOf(y) \in Classes BY Sets DEF ClassOf
  <2>3. ClassOf(y) = c => ~Pending(y) /\ (Pending(y)' <=> backup_methods_[y] # None)
    <3>1. backup_methods_[y] # None => "FixupStaticTrampolines" \in installed
      BY DEF OriginalsInv, Belongs, KeptMeanwhile, PutsBack
    <3> QED BY <1>4, <1>5, <3>1 DEF Pending
  <2>4. ClassOf(y) # c => (Pending(y)' <=> Pending(y)) /\ (Lost(y)' <=> Lost(y))
    BY <1>4, <1>5, <1>6, <2>2 DEF Pending, Lost
  <2>5. ClassOf(y) = c => ~Lost(y)' BY <1>5 DEF Lost
  <2>6. ClassOf(y) = c /\ IsStatic(y) /\ ~Lost(y) => backup_methods_[y] # None
    BY <1>4 DEF Lost
  <2> QED BY <2>1, <2>3, <2>4, <2>5, <2>6
<1>8. \A e : Original(x, e)' <=> Original(x, e) BY <1>4, <1>6 DEF Original
<1>9. class'[0].pc = "restore" => class'[0] = class[0] BY <1>2, <1>5
<1>10. instr.m = x => c # 0 \/ ~IsStatic(x)
  BY <1>2, <1>4 DEF Disturbed, Settled, Touched, Initialising
<1>11. Runs(x, m)'
  <2>1. Original(x, entry[m])' \/ (m # x /\ Pending(m)')
    <3>1. CASE ClassOf(m) # c \/ ~IsStatic(m)
      <4>1. entry'[m] = entry[m] /\ (Pending(m) => Pending(m)') BY <1>2, <1>7, <3>1
      <4> QED BY <1>3, <1>8, <4>1 DEF Runs, Original
    <3>2. CASE ClassOf(m) = c /\ IsStatic(m) /\ m = x
      <4>1. entry'[x] \in {Code(x), Interp} BY <1>2, <1>7, <3>2
      <4> QED BY <3>2, <4>1 DEF Original, Given
    <3>3. CASE ClassOf(m) = c /\ IsStatic(m) /\ m # x
      BY <1>2, <1>3, <1>7, <3>3 DEF Runs
    <3> QED BY <3>1, <3>2, <3>3
  <2>2. backup_methods_'[m] # None => Original(x, backup_methods_[m])'
    BY <1>3, <1>4, <1>8 DEF Runs, Original
  <2>3. m # x => ~Lost(m)' BY <1>2, <1>3, <1>7 DEF Runs
  <2>4. Pending(x)' => entry'[x] \in Chosen(x)
    <3>1. backup_methods_[x] # None => IsStatic(x) BY <1>2 DEF OriginalsInv, Belongs, KeptMeanwhile
    <3>2. CASE c = 0 BY <1>2, <1>7, <3>1, <3>2 DEF Chosen
    <3>3. CASE c # 0 BY <1>2, <1>3, <1>7, <3>3 DEF Runs
    <3> QED BY <3>2, <3>3
  <2>5. instr'.m = m => instr'.code \in Given(x) \/ (m = x /\ instr'.code = entry'[x])
    BY <1>2, <1>3, <1>4, <1>7, <1>10 DEF Runs
  <2> QED BY <1>3, <1>4, <1>9, <2>1, <2>2, <2>3, <2>4, <2>5 DEF Runs
<1>12. Interprets(x, m)'
  <2>1. SUFFICES ASSUME x \in deoptimized_, deopt[x].pc = "idle" PROVE Interprets(x, m)'
    BY <1>4 DEF Interprets
  <2>2. ~Lost(m) /\ (entry[m] = Interp \/ Pending(m)) BY <1>3, <2>1 DEF Interprets
  <2>3. entry'[m] = Interp \/ Pending(m)' BY <1>2, <1>7, <2>2
  <2>4. ~Lost(m)' BY <1>2, <1>7, <2>2
  <2> QED BY <1>3, <1>4, <1>9, <2>1, <2>3, <2>4 DEF Interprets
<1> QED BY <1>1, <1>11, <1>12, ArtLeaves DEF Runtime

\* RestoreBackup puts back the original, and notes the code that ART chose.
LEMMA RestoreSound ==
  ASSUME OriginalsInv, installed' = installed, NEW c \in Classes, NEW y \in Methods, RestoreBackup(c, y),
         NEW x \in Targets, Sound(x), ~Disturbed(x)
  PROVE  Sound(x)'
<1>1. PICK m : m = Mine(x) OBVIOUS
<1>2. /\ m \in Methods /\ x \in Methods /\ ClassOf(x) = 0 /\ 0 \in Classes /\ x \notin Backups
      /\ m # x => m \in Backups /\ ClassOf(m) = m /\ m # 0
  <2>1. 0 \notin Backups BY SMT DEF Backups
  <2> QED BY <1>1, <2>1, MineTouched, Sets, ZenonT(30) DEF ClassOf
<1>3. Runs(x, m) /\ Interprets(x, m) BY <1>1 DEF Sound
<1>4. /\ class' = [class EXCEPT ![c] = [pc |-> "restore", m |-> y, new |-> entry[y],
                                        deopt |-> IsDeoptimized(y), b |-> IsHooked(y)]]
      /\ class[c].pc = "fixed" /\ ClassOf(y) = c /\ backup_methods_[y] # None
      /\ DOMAIN class = Classes /\ DOMAIN entry = Methods
      /\ entry' = [entry EXCEPT ![y] = backup_methods_[y]]
      /\ UNCHANGED <<backup_methods_, op, hooked_methods_, deopt, instr, builtFor, deoptimized_, freed, owner>>
  BY DEF RestoreBackup, SetEntryPoint, hooks, built, jit, OriginalsInv, IInv, TypeOK
<1>5. /\ class'[c].pc = "restore" /\ class'[c].m = y /\ class'[c].new = entry[y]
      /\ class'[c].deopt = IsDeoptimized(y)
      /\ \A d \in Classes : d # c => class'[d] = class[d]
  BY <1>4
<1>6. /\ Left(x)' <=> Left(x)
      /\ \A z : IsStatic(z)' <=> IsStatic(z)
  BY <1>4 DEF Left, MovesJitCode, Mine, IsStatic
<1>7. ASSUME NEW z \in Methods
      PROVE  /\ z # y => entry'[z] = entry[z] /\ (Pending(z)' <=> Pending(z))
             /\ z = y => entry'[z] = backup_methods_[z] /\ Pending(z) /\ ~Pending(z)'
             /\ Lost(z)' => Lost(z)
  <2>1. ClassOf(z) \in Classes BY Sets DEF ClassOf
  <2>2. z # y => entry'[z] = entry[z] BY <1>4
  <2>3. z = y => entry'[z] = backup_methods_[z] /\ Pending(z) /\ ~Pending(z)'
    BY <1>4, <1>5 DEF Pending
  <2>4. z # y => (Pending(z)' <=> Pending(z))
    <3>1. CASE ClassOf(z) = c BY <1>4, <1>5, <3>1 DEF Pending
    <3>2. CASE ClassOf(z) # c BY <1>4, <1>5, <2>1, <3>2 DEF Pending
    <3> QED BY <3>1, <3>2
  <2>5. Lost(z)' => Lost(z)
    <3>1. CASE ClassOf(z) = c BY <1>5, <3>1 DEF Lost
    <3>2. CASE ClassOf(z) # c BY <1>4, <1>5, <1>6, <2>1, <3>2 DEF Lost
    <3> QED BY <3>1, <3>2
  <2> QED BY <2>2, <2>3, <2>4, <2>5
<1>8. \A e : Original(x, e)' <=> Original(x, e) BY <1>4, <1>6 DEF Original
<1>9. instr.m = x => x # y
  <2>1. x = y => IsStatic(x) /\ Initialising(ClassOf(x))
    BY <1>2, <1>4 DEF OriginalsInv, Belongs, KeptMeanwhile
  <2> QED BY <2>1 DEF Disturbed, Settled, Touched
<1>10. Runs(x, m)'
  <2>1. Original(x, entry[m])' \/ (m # x /\ Pending(m)')
    <3>1. CASE m # y
      <4>1. entry'[m] = entry[m] /\ (Pending(m)' <=> Pending(m)) BY <1>2, <1>7, <3>1
      <4> QED BY <1>3, <1>8, <4>1 DEF Runs, Original
    <3>2. CASE m = y
      <4>1. entry'[m] = backup_methods_[m] /\ backup_methods_[m] # None BY <1>2, <1>4, <1>7, <3>2
      <4> QED BY <1>3, <1>8, <4>1 DEF Runs, Original
    <3> QED BY <3>1, <3>2
  <2>2. backup_methods_'[m] # None => Original(x, backup_methods_[m])'
    BY <1>3, <1>4, <1>8 DEF Runs, Original
  <2>3. m # x => ~Lost(m)' BY <1>2, <1>3, <1>7 DEF Runs
  <2>4. Pending(x)' => entry'[x] \in Chosen(x) BY <1>2, <1>3, <1>7 DEF Runs
  <2>5. class'[0].pc = "restore" /\ class'[0].m = x => class'[0].new \in Chosen(x)
    <3>1. CASE c = 0
      <4>1. x = y => entry[y] \in Chosen(x) BY <1>2, <1>3, <1>7 DEF Runs
      <4> QED BY <1>5, <3>1, <4>1
    <3>2. CASE c # 0 BY <1>2, <1>3, <1>5, <3>2 DEF Runs
    <3> QED BY <3>1, <3>2
  <2>6. instr'.m = m => instr'.code \in Given(x) \/ (m = x /\ instr'.code = entry'[x])
    BY <1>2, <1>3, <1>4, <1>7, <1>9 DEF Runs
  <2> QED BY <1>3, <1>4, <2>1, <2>2, <2>3, <2>4, <2>5, <2>6 DEF Runs
<1>11. Interprets(x, m)'
  <2>1. SUFFICES ASSUME x \in deoptimized_, deopt[x].pc = "idle" PROVE Interprets(x, m)'
    BY <1>4 DEF Interprets
  <2>2. /\ ~Lost(m) /\ (entry[m] = Interp \/ Pending(m))
        /\ backup_methods_[m] # None => backup_methods_[m] = Interp
        /\ class[0].pc = "restore" /\ class[0].m = x => class[0].deopt
    BY <1>3, <2>1 DEF Interprets
  <2>3. entry'[m] = Interp \/ Pending(m)'
    <3>1. CASE m # y BY <1>2, <1>7, <2>2, <3>1
    <3>2. CASE m = y BY <1>2, <1>4, <1>7, <2>2, <3>2
    <3> QED BY <3>1, <3>2
  <2>4. ~Lost(m)' BY <1>2, <1>7, <2>2
  <2>5. class'[0].pc = "restore" /\ class'[0].m = x => class'[0].deopt
    <3>1. CASE c = 0 BY <1>5, <2>1, <3>1 DEF IsDeoptimized
    <3>2. CASE c # 0 BY <1>2, <1>5, <2>2, <3>2
    <3> QED BY <3>1, <3>2
  <2> QED BY <1>3, <1>4, <2>1, <2>3, <2>4, <2>5 DEF Interprets
<1> QED BY <1>1, <1>10, <1>11, ArtLeaves DEF Runtime

\* The code ART chose for a target goes to its backup, unless it is deoptimized.
LEMMA PropagateSound ==
  ASSUME OriginalsInv, installed' = installed, NEW c \in Classes, Propagate(c),
         NEW x \in Targets, Sound(x), ~Disturbed(x)
  PROVE  Sound(x)'
<1>1. PICK m : m = Mine(x) OBVIOUS
<1>2. /\ m \in Methods /\ x \in Methods /\ ClassOf(x) = 0 /\ 0 \in Classes /\ x \notin Backups
      /\ m # x => m \in Backups /\ builtFor[m] = x
      /\ None \notin Backups
  BY <1>1, MineTouched, Sets DEF ClassOf
<1>3. Runs(x, m) /\ Interprets(x, m) BY <1>1 DEF Sound
<1>4. PICK r : r = class[c] OBVIOUS
<1>5. /\ class' = [class EXCEPT ![c] = Pc("fixed")] /\ r.pc = "restore"
      /\ DOMAIN class = Classes /\ DOMAIN entry = Methods /\ DOMAIN backup_methods_ = Methods
      /\ backup_methods_' = [backup_methods_ EXCEPT ![r.m] = None]
      /\ entry' = IF PassOn(r) THEN [entry EXCEPT ![r.b] = r.new]
                  ELSE IF r.b = None /\ r.deopt /\ r.new # Interp
                  THEN [entry EXCEPT ![r.m] = Interp] ELSE entry
      /\ UNCHANGED <<op, hooked_methods_, deopt, instr, builtFor, deoptimized_, freed, owner>>
  BY <1>4 DEF Propagate, hooks, built, jit, OriginalsInv, IInv, TypeOK
<1>6. /\ r.m \in Methods /\ ClassOf(r.m) = c /\ r.b \in Backups \cup {None}
      /\ r.b # None => builtFor[r.b] = r.m
  <2>1. r.m \in Methods /\ ClassOf(r.m) = c BY <1>4, <1>5 DEF OriginalsInv, IInv, Bookkeeping
  <2>2. r.b \in Backups \cup {None} BY <1>4 DEF OriginalsInv, IInv, TypeOK
  <2>3. r.b # None => builtFor[r.b] = r.m BY <1>4, <1>5 DEF OriginalsInv, Belongs, Restores
  <2> QED BY <2>1, <2>2, <2>3
<1>7. class'[c].pc = "fixed" /\ \A d \in Classes : d # c => class'[d] = class[d]
  BY <1>5 DEF Pc
<1>8. /\ Left(x)' <=> Left(x)
      /\ \A z : IsStatic(z)' <=> IsStatic(z)
  BY <1>5 DEF Left, MovesJitCode, Mine, IsStatic
<1>9. ASSUME NEW z \in Methods
      PROVE  /\ z # r.m => (Pending(z)' <=> Pending(z)) /\ backup_methods_'[z] = backup_methods_[z]
             /\ z = r.m => ~Pending(z) /\ ~Pending(z)' /\ backup_methods_'[z] = None
             /\ Lost(z)' => Lost(z)
  <2>1. ClassOf(z) \in Classes BY Sets DEF ClassOf
  <2>2. z # r.m => backup_methods_'[z] = backup_methods_[z] BY <1>5
  <2>3. z = r.m => ~Pending(z) /\ ~Pending(z)' /\ backup_methods_'[z] = None
    BY <1>4, <1>5, <1>6 DEF Pending
  <2>4. z # r.m => (Pending(z)' <=> Pending(z))
    <3>1. CASE ClassOf(z) = c BY <1>4, <1>5, <1>7, <2>2, <3>1 DEF Pending
    <3>2. CASE ClassOf(z) # c BY <1>7, <2>1, <2>2, <3>2 DEF Pending
    <3> QED BY <3>1, <3>2
  <2>5. Lost(z)' => Lost(z)
    <3>1. CASE ClassOf(z) = c BY <1>7, <3>1 DEF Lost
    <3>2. CASE ClassOf(z) # c
      <4>1. z # r.m BY <1>6, <3>2
      <4> QED BY <1>7, <1>8, <2>1, <2>2, <3>2, <4>1 DEF Lost
    <3> QED BY <3>1, <3>2
  <2> QED BY <2>2, <2>3, <2>4, <2>5
<1>10. \A e : Original(x, e)' <=> Original(x, e) BY <1>5, <1>8 DEF Original
<1>11. ASSUME NEW z \in Methods
       PROVE  \/ entry'[z] = entry[z]
              \/ entry'[z] = Interp /\ z = r.m /\ ~PassOn(r)
              \/ entry'[z] = r.new /\ z = r.b /\ z \in Backups /\ builtFor[z] = r.m /\ ~r.deopt
  <2>1. CASE PassOn(r)
    <3>1. entry' = [entry EXCEPT ![r.b] = r.new] BY <1>5, <2>1
    <3>2. r.b \in Backups /\ builtFor[r.b] = r.m /\ ~r.deopt BY <1>6, <2>1 DEF PassOn
    <3> QED BY <1>5, <3>1, <3>2
  <2>2. CASE ~PassOn(r)
    <3>1. entry' = [entry EXCEPT ![r.m] = Interp] \/ entry' = entry BY <1>5, <2>2
    <3> QED BY <1>5, <2>2, <3>1
  <2> QED BY <2>1, <2>2
<1>12. r.m = x => c = 0 /\ r.new \in Chosen(x) /\ (x \in deoptimized_ /\ deopt[x].pc = "idle" => r.deopt)
  <2>1. r.m = x => c = 0 BY <1>2, <1>6
  <2> QED BY <1>3, <1>4, <1>5, <2>1 DEF Runs, Interprets
<1>13. instr.m = x => r.m # x
  <2>1. backup_methods_[r.m] # None BY <1>4, <1>5 DEF OriginalsInv, Belongs, Restores
  <2>2. r.m = x => IsStatic(x) /\ Initialising(ClassOf(x))
    BY <1>2, <2>1 DEF OriginalsInv, Belongs, KeptMeanwhile
  <2> QED BY <2>2 DEF Disturbed, Settled, Touched
<1>14. r.m = x => ~Pending(x)' BY <1>2, <1>9
<1>15. r.m # x => entry'[x] = entry[x] BY <1>2, <1>11
<1>16. m \in Backups /\ builtFor[m] = r.m => r.m = x BY <1>2
<1>17. class'[0].pc # "restore" \/ class'[0] = class[0] BY <1>2, <1>7
<1>18. Runs(x, m)'
  <2>1. Original(x, entry[m])' \/ (m # x /\ Pending(m)')
    <3>1. CASE entry'[m] = entry[m]
      <4>1. Pending(m) => Pending(m)' BY <1>2, <1>9
      <4> QED BY <1>3, <1>10, <3>1, <4>1 DEF Runs, Original
    <3>2. CASE entry'[m] = Interp BY <3>2 DEF Original, Given
    <3>3. CASE entry'[m] = r.new /\ r.m = x BY <1>12, <3>3 DEF Original, Given, Chosen
    <3> QED BY <1>2, <1>11, <1>16, <3>1, <3>2, <3>3
  <2>2. backup_methods_'[m] # None => Original(x, backup_methods_[m])'
    <3>1. backup_methods_'[m] # None => backup_methods_'[m] = backup_methods_[m] BY <1>2, <1>9
    <3> QED BY <1>3, <1>10, <3>1 DEF Runs, Original
  <2>3. m # x => ~Lost(m)' BY <1>2, <1>3, <1>9 DEF Runs
  <2>4. Pending(x)' => entry'[x] \in Chosen(x)
    BY <1>2, <1>3, <1>9, <1>14, <1>15 DEF Runs
  <2>5. instr'.m = m => instr'.code \in Given(x) \/ (m = x /\ instr'.code = entry'[x])
    BY <1>3, <1>5, <1>13, <1>15 DEF Runs
  <2> QED BY <1>3, <1>5, <1>17, <2>1, <2>2, <2>3, <2>4, <2>5 DEF Runs
<1>19. Interprets(x, m)'
  <2>1. SUFFICES ASSUME x \in deoptimized_, deopt[x].pc = "idle" PROVE Interprets(x, m)'
    BY <1>5 DEF Interprets
  <2>2. /\ ~Lost(m) /\ (entry[m] = Interp \/ Pending(m))
        /\ backup_methods_[m] # None => backup_methods_[m] = Interp
    BY <1>3, <2>1 DEF Interprets
  <2>3. entry'[m] = Interp \/ Pending(m)'
    <3>1. entry'[m] = entry[m] \/ entry'[m] = Interp
      BY <1>2, <1>11, <1>12, <1>16, <2>1
    <3>2. Pending(m) => Pending(m)' BY <1>2, <1>9
    <3> QED BY <2>2, <3>1, <3>2
  <2>4. ~Lost(m)' BY <1>2, <1>9, <2>2
  <2>5. backup_methods_'[m] # None => backup_methods_'[m] = Interp BY <1>2, <1>9, <2>2
  <2> QED BY <1>3, <1>5, <1>17, <2>1, <2>3, <2>4, <2>5 DEF Interprets
<1> QED BY <1>1, <1>18, <1>19, ArtLeaves DEF Runtime

\* When a class is initialised nothing of it is kept any more.
LEMMA RestoredSound ==
  ASSUME OriginalsInv, installed' = installed, NEW c \in Classes, Restored(c), NEW x \in Targets, Sound(x)
  PROVE  Sound(x)'
<1>1. PICK m : m = Mine(x) OBVIOUS
<1>2. /\ m \in Methods /\ x \in Methods /\ ClassOf(x) = 0 /\ 0 \in Classes
  BY <1>1, MineTouched, Sets DEF ClassOf
<1>3. Runs(x, m) /\ Interprets(x, m) BY <1>1 DEF Sound
<1>4. /\ class' = [class EXCEPT ![c] = Pc("initialized")] /\ DOMAIN class = Classes
      /\ \A z \in Methods : ClassOf(z) = c => backup_methods_[z] = None
      /\ UNCHANGED <<entry, backup_methods_, op, hooked_methods_, deopt, instr, builtFor,
                     deoptimized_, freed, owner>>
  BY DEF Restored, hooks, built, jit, OriginalsInv, IInv, TypeOK
<1>5. class'[c].pc = "initialized" /\ \A d \in Classes : d # c => class'[d] = class[d]
  BY <1>4 DEF Pc
<1>6. /\ Left(x)' <=> Left(x)
      /\ \A z : IsStatic(z)' <=> IsStatic(z)
  BY <1>4 DEF Left, MovesJitCode, Mine, IsStatic
<1>7. ASSUME NEW z \in Methods PROVE (Pending(z)' <=> Pending(z)) /\ (Lost(z)' => Lost(z))
  <2>1. ClassOf(z) \in Classes BY Sets DEF ClassOf
  <2>2. CASE ClassOf(z) = c BY <1>4, <1>5, <2>2 DEF Pending, Lost
  <2>3. CASE ClassOf(z) # c BY <1>4, <1>5, <1>6, <2>1, <2>3 DEF Pending, Lost
  <2> QED BY <2>2, <2>3
<1>8. \A e : Original(x, e)' <=> Original(x, e) BY <1>4, <1>6 DEF Original
<1>9. class'[0].pc # "restore" \/ class'[0] = class[0] BY <1>2, <1>5
<1>10. Runs(x, m)'
  <2>1. Original(x, entry[m])' <=> Original(x, entry[m]) BY <1>4, <1>8 DEF Original
  <2>2. Original(x, backup_methods_[m])' <=> Original(x, backup_methods_[m])
    BY <1>4, <1>8 DEF Original
  <2> QED BY <1>2, <1>3, <1>4, <1>7, <1>9, <2>1, <2>2 DEF Runs
<1>11. Interprets(x, m)' BY <1>2, <1>3, <1>4, <1>7, <1>9 DEF Interprets
<1> QED BY <1>1, <1>10, <1>11, ArtLeaves DEF Runtime

\* MaybeUseBackupMethod turns an update of a hooked target to its backup.
LEMMA UpdateSound ==
  ASSUME OriginalsInv, installed' = installed,
         NEW y \in Methods, NEW code \in QuickCode(y), UpdateMethodsCode(y, code),
         NEW x \in Targets, Sound(x), ~Disturbed(x)', ~Exposed(x)'
  PROVE  Sound(x)'
<1>1. PICK m : m = Mine(x) OBVIOUS
<1>2. /\ m \in Methods /\ x \in Methods /\ x \notin Backups /\ m \in Touched(x)
      /\ m # x => m \in Backups /\ builtFor[m] = x /\ m \notin Targets
      /\ None \notin Methods
  BY <1>1, MineTouched, Sets
<1>3. Runs(x, m) /\ Interprets(x, m) BY <1>1 DEF Sound
<1>4. UNCHANGED <<entry, class, backup_methods_, op, hooked_methods_, hooked_classes_, deopt, builtFor,
                  deoptimized_, freed, owner>>
  BY DEF UpdateMethodsCode, hooks, built, jit, inits
<1>5. PICK k : k = instr'.m OBVIOUS
<1>6. /\ instr'.m = k /\ instr'.code = code
      /\ k = y \/ (y \in Targets /\ k = hooked_methods_[y] /\ k # None /\ entry[y] # code)
      /\ k = y \/ y \notin deoptimized_
  <2>1. /\ instr'.code = code /\ k \in {y, MaybeUseBackupMethod(y, code)}
        /\ k = y \/ y \notin deoptimized_
    BY <1>5, SMT DEF UpdateMethodsCode, IsDeoptimized
  <2> QED BY <1>5, <2>1 DEF MaybeUseBackupMethod, IsHooked
<1>13. k = m /\ k \in {x, hooked_methods_[x]} => y \notin deoptimized_ \/ k # y
  <2>1. CASE "Instrumentation" \in installed BY <2>1 DEF UpdateMethodsCode, IsDeoptimized
  <2>2. CASE "Instrumentation" \notin installed
    <3>1. k \in {x, hooked_methods_[x]} => k \notin Kept' BY <1>4, <1>6, <2>2 DEF Exposed
    <3> QED BY <1>4, <3>1 DEF Kept
  <2> QED BY <2>1, <2>2
<1>7. code = entry[y] \/ code \in Given(y)
  BY DEF QuickCode, Given
<1>8. ASSUME k = m PROVE y = x /\ (k = x \/ entry[x] # code)
  <2>1. CASE k # y
    <3>1. hooked_methods_[y] = k /\ y \in Targets /\ k # None /\ entry[y] # code BY <1>6, <2>1
    <3>2. k \in Backups /\ builtFor[k] = y
      BY <3>1 DEF OriginalsInv, IInv, Bookkeeping, Belongs, Works
    <3> QED BY <1>2, <1>8, <3>1, <3>2
  <2>2. CASE k = y /\ m # x
    <3>1. op[x].pc = "idle"
      <4>1. Touched(x)' = Touched(x) BY <1>4 DEF Touched
      <4> QED BY <1>2, <1>4, <1>6, <1>8, <4>1 DEF Disturbed
    <3>2. m = hooked_methods_[x] /\ m # None BY <1>1, <1>2, <2>2, <3>1 DEF Mine
    <3>3. m \in deoptimized_ BY <3>1, <3>2 DEF OriginalsInv, Belongs, Works
    <3> QED BY <1>8, <1>13, <2>2, <3>2, <3>3
  <2> QED BY <1>8, <2>1, <2>2
<1>9. /\ Left(x)' <=> Left(x)
      /\ \A z : (Pending(z)' <=> Pending(z)) /\ (Lost(z)' <=> Lost(z))
  BY <1>4 DEF Left, MovesJitCode, Mine, IsStatic, Pending, Lost
<1>10. \A e : Original(x, e)' <=> Original(x, e) BY <1>4, <1>9 DEF Original
<1>11. Runs(x, m)'
  <2>1. Original(x, entry[m])' <=> Original(x, entry[m]) BY <1>4, <1>10 DEF Original
  <2>2. Original(x, backup_methods_[m])' <=> Original(x, backup_methods_[m])
    BY <1>4, <1>10 DEF Original
  <2>3. instr'.m = m => instr'.code \in Given(x) \/ (m = x /\ instr'.code = entry'[x])
    BY <1>4, <1>6, <1>7, <1>8
  <2> QED BY <1>3, <1>4, <1>9, <2>1, <2>2, <2>3 DEF Runs
<1>12. Interprets(x, m)'
  <2>1. x \in deoptimized_ => instr'.m # m
    <3>1. CASE k = m /\ k = y BY <1>6, <1>8, <1>13, <3>1
    <3>2. CASE k = m /\ k # y BY <1>6, <1>8, <3>2
    <3> QED BY <1>6, <3>1, <3>2
  <2> QED BY <1>3, <1>4, <1>9, <2>1 DEF Interprets
<1> QED BY <1>1, <1>11, <1>12, ArtLeaves DEF Runtime

\* SetMethodsCode writes what the update was given.
LEMMA SetMethodsCodeSound ==
  ASSUME OriginalsInv, installed' = installed, SetMethodsCode, NEW x \in Targets, Sound(x), ~Disturbed(x)
  PROVE  Sound(x)'
<1>1. PICK m : m = Mine(x) OBVIOUS
<1>2. /\ m \in Methods /\ x \in Methods /\ ClassOf(x) = 0 /\ x \notin Backups
      /\ None \notin Methods
  BY <1>1, MineTouched, Sets DEF ClassOf
<1>3. Runs(x, m) /\ Interprets(x, m) BY <1>1 DEF Sound
<1>4. /\ instr' = NoInstr /\ entry' = [entry EXCEPT ![instr.m] = instr.code]
      /\ instr.m # None /\ DOMAIN entry = Methods
      /\ UNCHANGED <<class, backup_methods_, op, hooked_methods_, deopt, builtFor,
                     deoptimized_, freed, owner>>
  BY DEF SetMethodsCode, SetEntryPoint, hooks, built, jit, inits, OriginalsInv, IInv, TypeOK
<1>5. instr'.m # m BY <1>2, <1>4 DEF NoInstr
<1>6. /\ Left(x)' <=> Left(x)
      /\ \A z : (Pending(z)' <=> Pending(z)) /\ (Lost(z)' <=> Lost(z))
  BY <1>4 DEF Left, MovesJitCode, Mine, IsStatic, Pending, Lost
<1>7. \A e : Original(x, e)' <=> Original(x, e) BY <1>4, <1>6 DEF Original
<1>8. \A z \in Methods : entry'[z] = IF z = instr.m THEN instr.code ELSE entry[z] BY <1>4
<1>9. Pending(x)' => entry'[x] \in Chosen(x)
  <2>1. CASE instr.m = x
    <3>1. IsStatic(x) => ~Initialising(ClassOf(x)) BY <2>1 DEF Disturbed, Settled, Touched
    <3>2. backup_methods_[x] = None BY <1>2, <3>1 DEF OriginalsInv, Belongs, KeptMeanwhile
    <3> QED BY <1>6, <3>2 DEF Pending
  <2>2. CASE instr.m # x BY <1>2, <1>3, <1>6, <1>8, <2>2 DEF Runs
  <2> QED BY <2>1, <2>2
<1>10. Runs(x, m)'
  <2>1. Original(x, entry[m])' \/ (m # x /\ Pending(m)')
    <3>1. CASE entry'[m] = entry[m] BY <1>3, <1>6, <1>7, <3>1 DEF Runs, Original
    <3>2. CASE entry'[m] # entry[m]
      <4>1. entry'[m] \in Given(x) BY <1>2, <1>3, <1>8, <3>2 DEF Runs
      <4> QED BY <4>1 DEF Original, Given
    <3> QED BY <3>1, <3>2
  <2>2. Original(x, backup_methods_[m])' <=> Original(x, backup_methods_[m])
    BY <1>4, <1>7 DEF Original
  <2> QED BY <1>3, <1>4, <1>5, <1>6, <1>9, <2>1, <2>2 DEF Runs
<1>11. Interprets(x, m)'
  <2>1. instr.m # m => entry'[m] = entry[m] BY <1>2, <1>8
  <2> QED BY <1>3, <1>4, <1>5, <1>6, <2>1 DEF Interprets
<1> QED BY <1>1, <1>10, <1>11, ArtLeaves DEF Runtime

\* The collector does not free the JIT code that the backup still runs.
LEMMA CollectSound ==
  ASSUME OriginalsInv, installed' = installed, GarbageCollectCache,
         NEW x \in Targets, Sound(x), op[x].pc = "idle", Settled(x)
  PROVE  Sound(x)'
<1>1. PICK m : m = Mine(x) OBVIOUS
<1>2. /\ m \in Touched(x) /\ m \in Methods /\ None \notin Backups
      /\ m = IF hooked_methods_[x] = None THEN x ELSE hooked_methods_[x]
  BY <1>1, MineTouched, Sets DEF Mine
<1>3. Runs(x, m) /\ Interprets(x, m) BY <1>1 DEF Sound
<1>4. /\ freed' = freed \cup {t \in Targets : entry[owner'[t]] # Jit(t)}
      /\ UNCHANGED <<entry, class, backup_methods_, op, hooked_methods_, deopt, instr, builtFor,
                     deoptimized_>>
  BY DEF GarbageCollectCache, hooks, built, inits
<1>5. /\ Mine(x)' = m
      /\ \A z : (Pending(z)' <=> Pending(z)) /\ (Lost(z)' <=> Lost(z))
  BY <1>1, <1>4 DEF Mine, IsStatic, Pending, Lost
<1>6. backup_methods_[m] = None
  BY <1>2 DEF Settled, OriginalsInv, Belongs, KeptMeanwhile
<1>7. ~Left(x)' => owner'[x] = m /\ ~Left(x)
  <2>1. Moved(x)' BY ArtWorks
  <2>2. MovesJitCode' <=> MovesJitCode BY DEF MovesJitCode
  <2>6. MovesJitCode => jit_movements_' = {} BY DEF MovesJitCode, GarbageCollectCache
  <2>3. MovesJitCode /\ hooked_methods_[x] # None => owner'[x] # x
    BY <1>4, <2>1, <2>2, <2>6 DEF Moved
  <2>4. ~Left(x)' => owner'[x] = m BY <1>2, <1>5, <2>2, <2>3 DEF Left
  <2>5. owner'[x] = owner[x] \/ owner[x] = x
    BY DEF GarbageCollectCache, MoveObsoleteMethods
  <2> QED BY <1>1, <1>5, <2>2, <2>4, <2>5 DEF Left
<1>8. Original(x, entry[m])'
  <2>1. Original(x, entry[m]) BY <1>3, <1>6 DEF Runs, Pending
  <2>2. CASE entry[m] \in Given(x) BY <1>4, <2>2 DEF Original, Given
  <2>3. CASE entry[m] = Jit(x) /\ entry[m] \notin Given(x)
    <3>1. ~Left(x)' => x \notin freed /\ entry[owner'[x]] = Jit(x) BY <1>7, <2>1, <2>3 DEF Original
    <3>2. ~Left(x)' => x \notin freed' BY <1>4, <3>1
    <3> QED BY <1>4, <1>5, <2>3, <3>2 DEF Original
  <2> QED BY <2>1, <2>2, <2>3 DEF Original
<1>9. Runs(x, m)' BY <1>3, <1>4, <1>5, <1>6, <1>8 DEF Runs
<1>10. Interprets(x, m)' BY <1>3, <1>4, <1>5 DEF Interprets
<1> QED BY <1>5, <1>9, <1>10 DEF Sound, Runs, Interprets

\* OriginalsInv holds at first.
LEMMA OriginalsInitial == Init => OriginalsInv
<1> SUFFICES ASSUME Init PROVE OriginalsInv OBVIOUS
<1>1. IInv BY Initial
<1>2. /\ \A m \in Methods : backup_methods_[m] = None /\ hooked_methods_[m] = None
      /\ \A b \in Backups : builtFor[b] = None
      /\ \A t \in Targets : op[t] = Idle /\ deopt[t] = Idle /\ owner[t] = t /\ t \in Methods
      /\ \A c \in Classes : class[c].pc \in {"loaded", "initialized"}
      /\ instr = NoInstr /\ jit_movements_ = {} /\ freed = {} /\ deoptimized_ = {}
  <2>1. \A c \in Classes : class[c].pc \in {"loaded", "initialized"} BY SMT DEF Init, Pc
  <2> QED BY <2>1, Sets DEF Init
<1>3. instr.m = None /\ Idle.pc = "idle" BY <1>2 DEF NoInstr, Idle
<1>4. Belongs
  <2>1. None \notin Targets /\ None \notin Methods BY Sets
  <2>2. Built BY <1>2 DEF Built
  <2>3. KeptMeanwhile BY <1>2 DEF KeptMeanwhile
  <2>4. ASSUME NEW t \in Targets PROVE Works(t) /\ Moved(t)
    <3>1. op[t].pc = "idle" /\ deopt[t].pc = "idle" /\ hooked_methods_[t] = None /\ owner[t] = t
          /\ jit_movements_ = {}
      BY <1>2, <1>3 DEF Init
    <3> QED BY <3>1 DEF Works, Moved
  <2>5. \A c \in Classes : Restores(c) BY <1>2 DEF Restores
  <2> QED BY <2>2, <2>3, <2>4, <2>5 DEF Belongs
<1>5. ASSUME NEW t \in Targets PROVE ~Disturbed(t)
  BY <1>2, <1>3, Sets DEF Disturbed, Touched
<1>6. ASSUME NEW t \in Targets PROVE Sound(t)
  <2>1. Mine(t) = t BY <1>2, <1>3 DEF Mine
  <2>2. entry[t] \in {Jit(t), Resolve} BY Sets DEF Init
  <2>3. ClassOf(t) = 0 /\ 0 \in Classes /\ t # None BY Sets DEF ClassOf
  <2>4. Original(t, entry[t]) BY <1>2, <2>2 DEF Original, Given
  <2>5. ~Pending(t) BY <1>2 DEF Pending
  <2> QED BY <1>2, <1>3, <2>1, <2>3, <2>4, <2>5 DEF Sound, Runs, Interprets
<1> QED BY <1>1, <1>4, <1>5, <1>6 DEF OriginalsInv

\* A step of ART keeps the original, where no call was disturbed.
LEMMA RuntimeSound ==
  ASSUME OriginalsInv, installed' = installed, Runtime,
         NEW x \in Targets, Sound(x), ~Disturbed(x), ~Disturbed(x)', ~Exposed(x)'
  PROVE  Sound(x)'
  BY SetStatusSound, FixupSound, RestoreSound, PropagateSound, RestoredSound, UpdateSound,
     SetMethodsCodeSound DEF Runtime

\* Every step keeps OriginalsInv.
LEMMA OriginalsInductive == OriginalsInv /\ [Next]_vars => OriginalsInv'
<1> SUFFICES ASSUME OriginalsInv, [Next]_vars PROVE OriginalsInv' OBVIOUS
<1>1. IInv' BY Inductive DEF OriginalsInv
<1>2. CASE Next
  <2>1. /\ raced \subseteq raced' /\ installed' = installed
        /\ exposed' = exposed \cup {t \in Targets : Exposed(t)'}
        /\ (\E t \in Targets : Calls(t)) \/ Runtime \/ GarbageCollectCache
    BY <1>2 DEF Next
  <2>2. Belongs'
    <3>1. CASE \E t \in Targets : Calls(t) BY <1>1, <2>1, <3>1, CallWorks, CallLeaves DEF Belongs
    <3>2. CASE Runtime \/ GarbageCollectCache BY <1>1, <2>1, <3>2, ArtWorks, ArtKeeps DEF Belongs
    <3> QED BY <2>1, <3>1, <3>2
  <2>3. CASE /\ (\E t \in Targets : Calls(t)) \/ Runtime
             /\ raced' = raced \cup {t \in Targets : Disturbed(t)'}
    <3>1. \A t \in Targets : Disturbed(t)' => t \in raced' BY <2>3
    <3>2. ASSUME NEW x \in Targets, x \notin Excused' PROVE Sound(x)'
      <4>1. x \notin Excused /\ ~Disturbed(x)' /\ ~Exposed(x)' BY <2>1, <3>1, <3>2 DEF Excused
      <4>2. Sound(x) /\ ~Disturbed(x) BY <4>1 DEF OriginalsInv, Excused
      <4> QED BY <2>1, <2>2, <2>3, <4>1, <4>2, CallSound, OtherSound, RuntimeSound
    <3> QED BY <1>1, <2>2, <3>1, <3>2 DEF OriginalsInv
  <2>4. CASE /\ GarbageCollectCache
             /\ raced' = raced \cup {t \in Targets : op[t].pc # "idle" \/ ~Settled(t)}
    <3>1. \A t \in Targets : Disturbed(t)' <=> Disturbed(t)
      BY <2>4 DEF GarbageCollectCache, inits, built, Disturbed, Settled, Touched, IsStatic, Initialising
    <3>2. \A t \in Targets : Disturbed(t)' => t \in raced' BY <2>1, <3>1 DEF OriginalsInv
    <3>3. \A x \in Targets \ Excused' : Sound(x)'
      BY <2>1, <2>4, CollectSound DEF OriginalsInv, Excused
    <3> QED BY <1>1, <2>2, <3>2, <3>3 DEF OriginalsInv
  <2> QED BY <1>2, <2>3, <2>4 DEF Next
<1>3. CASE UNCHANGED vars
  <2>1. Belongs'
    <3>1. Belongs BY DEF OriginalsInv
    <3>2. Built' /\ KeptMeanwhile'
      BY <1>3, <3>1
         DEF vars, inits, built, Belongs, Built, KeptMeanwhile, IsStatic, Initialising, PutsBack
    <3>3. \A t \in Targets : Works(t)' /\ Moved(t)'
      BY <1>3, <3>1 DEF vars, hooks, jit, built, Belongs, Works, Moved, MovesJitCode
    <3>4. \A c \in Classes : Restores(c)'
      BY <1>3, <3>1 DEF vars, inits, built, Belongs, Restores
    <3> QED BY <3>2, <3>3, <3>4 DEF Belongs
  <2>2. \A t \in Targets : Disturbed(t)' <=> Disturbed(t)
    BY <1>3 DEF vars, inits, built, Disturbed, Settled, Touched, IsStatic, Initialising
  <2>3. ASSUME NEW t \in Targets, Sound(t) PROVE Sound(t)'
    BY <1>3, <2>3, SameSound DEF vars, hooks, inits, jit, built
  <2>4. raced' = raced /\ Excused' = Excused BY <1>3 DEF vars, Excused
  <2> QED BY <1>1, <2>1, <2>2, <2>3, <2>4 DEF OriginalsInv
<1> QED BY <1>2, <1>3

\* OriginalRuns: a target that is not hooked, and the backup of one that is, runs
\* the target's own code (DoHook, Propagate, MaybeUseBackupMethod), and code of
\* the JIT only while it is not freed (MoveObsoleteMethods), if LSPlant could hook
\* the collections, or after it went to the backup of a hook that is gone.
THEOREM LSPlantOriginalRuns == Spec => []OriginalRuns
<1>1. ASSUME OriginalsInv, NEW t \in Targets, Quiet(t)
      PROVE  RunsOriginal(IF hooked_methods_[t] = None THEN t ELSE hooked_methods_[t], t)
  <2>1. PICK m : m = IF hooked_methods_[t] = None THEN t ELSE hooked_methods_[t] OBVIOUS
  <2>2. Mine(t) = m BY <1>1, <2>1 DEF Quiet, AtRest, Mine
  <2>3. m \in Touched(t) /\ m \in Methods BY <1>1, <2>2, MineTouched
  <2>4. backup_methods_[m] = None
    BY <1>1, <2>3 DEF Quiet, AtRest, Settled, OriginalsInv, Belongs, KeptMeanwhile
  <2>5. Original(t, entry[m]) BY <1>1, <2>2, <2>4 DEF Quiet, AtRest, OriginalsInv, Excused, Sound, Runs, Pending
  <2>6. Left(t) => LeftBehind(t) \/ ~MovesJitCode
    <3>1. Moved(t) BY <1>1 DEF OriginalsInv, Belongs
    <3> QED BY <2>1, <2>2, <3>1, Sets DEF Left, LeftBehind, Moved
  <2>7. RunsOriginal(m, t) BY <2>5, <2>6 DEF Original, Given, RunsOriginal
  <2> QED BY <2>1, <2>7
<1>2. OriginalsInv => OriginalRuns BY <1>1 DEF OriginalRuns
<1> QED BY <1>2, OriginalsInitial, OriginalsInductive, PTL DEF Spec

\* DeoptimizedStays: a deoptimized target, or its backup, stays with the
\* interpreter through hooks, the initialisation of its class and updates.
THEOREM LSPlantDeoptimizedStays == Spec => []DeoptimizedStays
<1>1. ASSUME OriginalsInv, NEW t \in Targets, Quiet(t), deopt[t].pc = "idle", IsDeoptimized(t)
      PROVE  entry[IF hooked_methods_[t] = None THEN t ELSE hooked_methods_[t]] = Interp
  <2>1. PICK m : m = IF hooked_methods_[t] = None THEN t ELSE hooked_methods_[t] OBVIOUS
  <2>2. Mine(t) = m BY <1>1, <2>1 DEF Quiet, AtRest, Mine
  <2>3. m \in Touched(t) /\ m \in Methods BY <1>1, <2>2, MineTouched
  <2>4. backup_methods_[m] = None
    BY <1>1, <2>3 DEF Quiet, AtRest, Settled, OriginalsInv, Belongs, KeptMeanwhile
  <2>5. entry[m] = Interp
    BY <1>1, <2>2, <2>4 DEF Quiet, AtRest, OriginalsInv, Excused, Sound, Interprets, Pending, IsDeoptimized
  <2> QED BY <2>1, <2>5
<1>2. OriginalsInv => DeoptimizedStays BY <1>1 DEF DeoptimizedStays
<1> QED BY <1>2, OriginalsInitial, OriginalsInductive, PTL DEF Spec
=============================================================================
