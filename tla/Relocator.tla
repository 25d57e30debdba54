------------------------------ MODULE Relocator ------------------------------
(***************************************************************************)
(* RelocateInstructions (relocator.cpp) and the Assembler it writes with:  *)
(* the instructions under a jump patch are rewritten for another address,  *)
(* followed by a branch back and by the literals their code loads.         *)
(*                                                                         *)
(* Then a processor runs the function's first instructions at their own    *)
(* address (orig), and another the rewritten ones at theirs (reloc).  An   *)
(* instruction is a record of the fields of its encoding; addresses count  *)
(* words of 4 bytes.                                                       *)
(***************************************************************************)
EXTENDS Integers, Sequences

CONSTANTS
    Insts,          \* instructions a function may begin with
    Sizes,          \* words that jump patches overwrite: 1, 3 and 4
    SrcAddr,        \* where the function is
    DstAddr,        \* where the relocated code goes
    PageSize,       \* words in a page, for ADRP
    XRegs, VRegs,   \* the numbers of the general and the SIMD registers
    States          \* registers and flags that a function is called with

\* Registers by number; SIMD registers are other registers.
Reg(n, v) == <<IF v = 1 THEN "v" ELSE "x", n>>
X17 == Reg(17, 0)
LR  == Reg(30, 0)
Registers == {Reg(n, 0) : n \in XRegs} \cup {Reg(n, 1) : n \in VRegs}

ASSUME RelocatorAssumption ==
    /\ Sizes \subseteq Nat \ {0}
    /\ SrcAddr \in Nat /\ DstAddr \in Nat /\ PageSize \in Nat \ {0}
    /\ {0, 17, 30} \subseteq XRegs /\ XRegs \subseteq Nat /\ VRegs \subseteq Nat
    /\ States \subseteq [regs : [Registers -> Int], flags : [0..6 -> BOOLEAN]]

\* The instructions that keep their effect: conditions can fail (AL and NV, which
\* have no inverse, are not conditions), literals go to general registers,
\* and the scratch and the link register, which the code needs, are not read.
Relocatable ==
    LET Read == XRegs \ {17, 30} IN
    [op : {"B", "BL"}, imm : Int]
    \cup [op : {"BCond"}, cond : 0..13, imm : Int]
    \cup [op : {"CB", "TB"}, neg : BOOLEAN, rt : Read, imm : Int]
    \cup [op : {"LdrLit"}, v : {0}, opc : {0, 1}, rt : XRegs, imm : Int]
    \cup [op : {"ADR", "ADRP"}, rt : XRegs, imm : Int]
    \cup [op : {"ADD"}, rt : Read, imm : {0}]

VARIABLES
    count,          \* target_count
    prog,           \* the instructions at SrcAddr that were read
    code,           \* the words of the buffer
    labels,         \* labels_: the words that load a literal, and the literals
    starts,         \* where in code each instruction's begins (auxiliary)
    orig,           \* the first processor's states, one after the other
    reloc           \* the second processor

vars == <<count, prog, code, labels, starts, orig, reloc>>
-----------------------------------------------------------------------------
(* Assembler *)

\* LDR X17, literal; imm is filled in by Finalize.
LdrX17      == [op |-> "LdrLit", v |-> 0, opc |-> 1, rt |-> 17, imm |-> 0]
BR(rn)      == [op |-> "BR", rn |-> rn]
BLR(rn)     == [op |-> "BLR", rn |-> rn]
MOV(rd, rn) == [op |-> "MOV", rd |-> rd, rn |-> rn]
LdrReg(rt, rn, opc) == [op |-> "LdrReg", rt |-> rt, rn |-> rn, opc |-> opc]
NOP == [op |-> "NOP"]

\* Words, and a label for the one at place at; without a label at is 0.
Piece(words, at, value) == [words |-> words, at |-> at, value |-> value]

\* Mutation: the branch after the load is left out.
EmitLdrX17Only(target) == Piece(<<LdrX17>>, 1, target)

EmitLdrX17Branch(target) == Piece(<<LdrX17, BR(17)>>, 1, target)
EmitLdrLRBranch(target)  == Piece(<<LdrX17, MOV(30, 17), BLR(30)>>, 1, target)

PlaceDataLabel(p) ==
    IF p.at = 0 THEN labels ELSE Append(labels, [at |-> Len(code) + p.at, value |-> p.value])

\* Pad the code to 8 bytes, append one doubleword per label in the order the
\* labels were placed, and point each LDR at its doubleword.
Finalize(words, labs) ==
    LET size == Len(words) + (Len(words) % 2)
        Labelled(j) == {k \in DOMAIN labs : labs[k].at = j}
        Data(j) == IF j % 2 = 1 THEN [op |-> "data", value |-> labs[(j + 1) \div 2].value]
                   ELSE [op |-> "data"]
    IN [j \in 1..size + 2 * Len(labs) |->
          IF j > size THEN Data(j - size)
          ELSE IF j > Len(words) THEN NOP
          ELSE IF Labelled(j) = {} THEN words[j]
          ELSE [words[j] EXCEPT !.imm = size + 2 * (CHOOSE k \in Labelled(j) : TRUE) - 1 - j]]
-----------------------------------------------------------------------------
(* RelocateInstructions *)

Page(addr) == addr - (addr % PageSize)

InvertCond(cond) == IF cond % 2 = 0 THEN cond + 1 ELSE cond - 1

\* Mutation: the skip is one word short.
SkipTwo(inst) ==
    IF inst.op = "BCond" THEN [inst EXCEPT !.cond = InvertCond(@), !.imm = 2]
    ELSE [inst EXCEPT !.neg = ~@, !.imm = 2]

\* The inverted branch that skips the two words of EmitLdrX17Branch.
Inverted(inst) ==
    IF inst.op = "BCond" THEN [inst EXCEPT !.cond = InvertCond(@), !.imm = 3]
    ELSE [inst EXCEPT !.neg = ~@, !.imm = 3]

\* The code for the instruction inst at address pc.  IsLdrLiteral ignores the
\* SIMD bit, so opc alone decides how a literal load is rewritten.
Relocate(inst, pc) ==
    LET target == pc + inst.imm IN
    CASE inst.op = "B" -> EmitLdrX17Branch(target)
      [] inst.op = "BL" -> EmitLdrLRBranch(target)
      [] inst.op \in {"BCond", "CB", "TB"} ->
           Piece(<<Inverted(inst)>> \o EmitLdrX17Branch(target).words, 2, target)
      [] inst.op = "LdrLit" /\ inst.opc \in {0, 1} ->
           Piece(<<LdrX17, LdrReg(inst.rt, 17, inst.opc)>>, 1, target)
      [] inst.op = "ADR" -> Piece(<<LdrX17, MOV(inst.rt, 17)>>, 1, target)
      [] inst.op = "ADRP" ->
           Piece(<<LdrX17, MOV(inst.rt, 17)>>, 1, Page(pc) + inst.imm * PageSize)
      [] OTHER -> Piece(<<inst>>, 0, 0)

\* Mutation: 16 bytes are taken to be enough.
BlockTight(n) == (n * 16 + 16) \div 4

\* HookInstall's block: 20 bytes per overwritten instruction and 64 more.
Block(n) == (n * 20 + 64) \div 4
-----------------------------------------------------------------------------
(* The processor *)

\* What memory holds at an address: a literal of the relocated code, or
\* something that tells the address and the width of the access.
Memory(addr, opc) ==
    IF addr - DstAddr + 1 \in DOMAIN code THEN code[addr - DstAddr + 1].value
    ELSE addr + 1000 * (opc + 1)

\* Conditions come in pairs, one the negation of the other; 14 and 15 hold.
Holds(cond, flags) == cond \in {14, 15} \/ flags[cond \div 2] = (cond % 2 = 0)

Next_(m) == [m EXCEPT !.pc = @ + 1]
Set(m, r, val) == [m EXCEPT !.pc = @ + 1, !.regs[r] = val]
BranchIf(m, b, imm) == [m EXCEPT !.pc = IF b THEN @ + imm ELSE @ + 1]

\* A call: the callee's effects, and its return to the link register.
CallTo(m, target) ==
    [m EXCEPT !.pc = @ + 1, !.calls = Append(@, target),
              !.regs = [@ EXCEPT ![LR] = m.pc + 1, ![Reg(0, 0)] = 1, ![X17] = 0]]

Execute(w, m) ==
    CASE w.op = "B" -> [m EXCEPT !.pc = @ + w.imm]
      [] w.op = "BL" -> CallTo(m, m.pc + w.imm)
      [] w.op = "BCond" -> BranchIf(m, Holds(w.cond, m.flags), w.imm)
      [] w.op = "CB" -> BranchIf(m, (m.regs[Reg(w.rt, 0)] = 0) # w.neg, w.imm)
      [] w.op = "TB" -> BranchIf(m, (m.regs[Reg(w.rt, 0)] % 2 = 0) # w.neg, w.imm)
      [] w.op = "LdrLit" -> Set(m, Reg(w.rt, w.v), Memory(m.pc + w.imm, w.opc))
      [] w.op = "LdrReg" -> Set(m, Reg(w.rt, 0), Memory(m.regs[Reg(w.rn, 0)], w.opc))
      [] w.op = "ADR" -> Set(m, Reg(w.rt, 0), m.pc + w.imm)
      [] w.op = "ADRP" -> Set(m, Reg(w.rt, 0), Page(m.pc) + w.imm * PageSize)
      [] w.op = "MOV" -> Set(m, Reg(w.rd, 0), m.regs[Reg(w.rn, 0)])
      [] w.op = "BR" -> [m EXCEPT !.pc = m.regs[Reg(w.rn, 0)]]
      [] w.op = "BLR" -> CallTo(m, m.regs[Reg(w.rn, 0)])
      [] w.op = "ADD" -> Set(m, Reg(w.rt, 0), m.regs[Reg(w.rt, 0)] + 1)
      [] w.op = "NOP" -> Next_(m)

Machine(pc, s) == [pc |-> pc, flags |-> s.flags, calls |-> <<>>, regs |-> s.regs]

Running == orig # <<>>
Now     == orig[Len(orig)]
InOrig  == Now.pc - SrcAddr + 1 \in DOMAIN prog
InReloc == reloc.pc - DstAddr + 1 \in DOMAIN code
-----------------------------------------------------------------------------
Init ==
    /\ count \in Sizes /\ prog = <<>> /\ code = <<>> /\ labels = <<>> /\ starts = <<0>>
    /\ orig = <<>> /\ reloc = <<>>

\* One turn of the loop: read an instruction, write its code.
RelocateOne(inst) ==
    LET p == Relocate(inst, SrcAddr + Len(prog)) IN
    /\ Len(prog) < count
    /\ prog' = Append(prog, inst)
    /\ code' = code \o p.words /\ labels' = PlaceDataLabel(p)
    /\ starts' = Append(starts, Len(code'))
    /\ UNCHANGED <<count, orig, reloc>>

\* After the loop: the branch to the first instruction that is not overwritten,
\* and Finalize.  The code is complete and both processors begin.
Complete(s) ==
    LET p == EmitLdrX17Branch(SrcAddr + Len(prog)) IN
    /\ Len(prog) = count /\ ~Running
    /\ code' = Finalize(code \o p.words, PlaceDataLabel(p)) /\ labels' = <<>>
    /\ starts' = Append(starts, Len(code) + Len(p.words))
    /\ orig' = <<Machine(SrcAddr, s)>> /\ reloc' = Machine(DstAddr, s)
    /\ UNCHANGED <<count, prog>>

StepOrig ==
    /\ Running /\ InOrig
    /\ orig' = Append(orig, Execute(prog[Now.pc - SrcAddr + 1], Now))
    /\ UNCHANGED <<count, prog, code, labels, starts, reloc>>

StepReloc ==
    /\ Running /\ ~InOrig /\ InReloc
    /\ code[reloc.pc - DstAddr + 1].op # "data"
    /\ reloc' = Execute(code[reloc.pc - DstAddr + 1], reloc)
    /\ UNCHANGED <<count, prog, code, labels, starts, orig>>

Next ==
    \/ \E inst \in Insts : RelocateOne(inst)
    \/ \E s \in States : Complete(s)
    \/ StepOrig \/ StepReloc

Spec == Init /\ [][Next]_vars

\* Branches leave the overwritten words, and neither they nor literals, nor the
\* function, are in the block that is allocated for the relocated code.
Apart ==
    \A n \in Sizes : \A k \in 1..n :
      LET src == SrcAddr..SrcAddr + n
          dst == DstAddr..DstAddr + Block(n) - 1
      IN /\ src \cap dst = {}
         /\ \A inst \in Insts :
              LET target == SrcAddr + k - 1 + inst.imm IN
              /\ inst.op \in {"B", "BCond", "CB", "TB"} =>
                   target \notin dst \cup (SrcAddr..SrcAddr + n - 1)
              /\ inst.op = "LdrLit" => target \notin dst
-----------------------------------------------------------------------------
(* Properties *)

\* The relocated code does what the overwritten instructions do: it leaves for
\* the same address, having made the same calls, with the same flags and
\* registers.  Only the scratch register, and the link register once a call has
\* set it, may differ.
Equivalent ==
    Running /\ ~InOrig /\ ~InReloc =>
      /\ reloc.pc = Now.pc /\ reloc.calls = Now.calls /\ reloc.flags = Now.flags
      /\ \A r \in Registers \ {X17, LR} : reloc.regs[r] = Now.regs[r]
      /\ Now.calls = <<>> => reloc.regs[LR] = Now.regs[LR]

\* The processor never runs into the literals behind the code.
NoDataExecuted ==
    Running /\ InReloc => code[reloc.pc - DstAddr + 1].op # "data"

\* The code and its literals fit the block that HookInstall allocates for them
\* ("each 4-byte instruction expands to ~20 bytes when relocated").
FitsBlock == Len(code) <= Block(Len(prog))
=============================================================================
