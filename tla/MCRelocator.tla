---------------------------- MODULE MCRelocator ----------------------------
(* Instances of Relocator for TLC. *)
EXTENDS Relocator

Branches ==
    {[op |-> "B", imm |-> 9], [op |-> "B", imm |-> -7], [op |-> "BL", imm |-> 20]}
    \cup [op : {"BCond"}, cond : {0, 1}, imm : {-5}]
    \cup [op : {"CB"}, neg : BOOLEAN, rt : {0}, imm : {11}]
    \cup [op : {"TB"}, neg : {TRUE}, rt : {0}, imm : {-6}]

Addresses ==
    {[op |-> "ADR", rt |-> 0, imm |-> 13], [op |-> "ADRP", rt |-> 0, imm |-> -1]}

\* LDR Xt and LDR Wt.
Loads == [op : {"LdrLit"}, v : {0}, opc : {0, 1}, rt : {0}, imm : {15}]

\* LDR St and LDR Dt.
SimdLoads == [op : {"LdrLit"}, v : {1}, opc : {0, 1}, rt : {0}, imm : {15}]

Others == {[op |-> "ADD", rt |-> 0, imm |-> 0]}

\* x0 is an operand; the flags make every first condition of a pair hold, or none.
MCStates ==
    {[regs |-> [r \in Registers |-> IF r = LR THEN 7 ELSE IF r = Reg(0, 0) THEN x0 ELSE 0],
      flags |-> [c \in 0..6 |-> z]] : x0 \in {0, 1}, z \in BOOLEAN}

MCInsts == Branches \cup Addresses \cup Loads \cup Others
MCSimd  == SimdLoads \cup Others
=============================================================================
