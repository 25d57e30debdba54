--------------------------- MODULE RelocatorProofs ---------------------------
(***************************************************************************)
(* What RelocateInstructions promises, for any number of instructions, in  *)
(* any order and wherever the code goes: the code fits its block whatever  *)
(* the instructions are, and the instructions of Relocatable keep their    *)
(* effect.  CodeInv is the inductive invariant of the code (where each     *)
(* instruction's piece lies in it), RunInv the one of the two processors   *)
(* (at which word of which piece the second one is, and what it shares     *)
(* with the state in which the first one reached that instruction).        *)
(***************************************************************************)
EXTENDS Relocator, SequenceTheorems, TLAPS

\* The leaves are for Zenon unless they say SMT.
USE Zenon

(* The pieces *)

\* The words that relocation writes, before Finalize, and the literals.
Words ==
    Insts \cup {Inverted(i) : i \in Insts} \cup {LdrX17, BR(17), BLR(30), MOV(30, 17)}
          \cup {MOV(i.rt, 17) : i \in Insts} \cup {LdrReg(i.rt, 17, i.opc) : i \in Insts}
Values == {Relocate(i, SrcAddr + k).value : i \in Insts, k \in Nat}
          \cup {SrcAddr + k : k \in Nat} \cup {0}
Labels == [at : Nat, value : Values]

\* One to three words, of which one may be labelled: with its literal the
\* piece takes at most five words.
WellFormed(p) ==
    /\ p.words \in Seq(Words) /\ Len(p.words) \in 1..3 /\ p.at \in 0..Len(p.words)
    /\ p.value \in Values
    /\ p.at # 0 => p.words[p.at] = LdrX17
    /\ p.at # 0 => Len(p.words) + 2 <= 5

\* The fields of a piece.
LEMMA PieceFields ==
  ASSUME NEW words, NEW at, NEW value, NEW p, p = Piece(words, at, value)
  PROVE  p.words = words /\ p.at = at /\ p.value = value
BY DEF Piece

\* What each instruction is rewritten to.
LEMMA Rewritten ==
  ASSUME NEW inst, NEW pc, NEW p, p = Relocate(inst, pc)
  PROVE  /\ inst.op = "B" => p = Piece(<<LdrX17, BR(17)>>, 1, pc + inst.imm)
         /\ inst.op = "BL" => p = Piece(<<LdrX17, MOV(30, 17), BLR(30)>>, 1, pc + inst.imm)
         /\ inst.op \in {"BCond", "CB", "TB"} =>
              p = Piece(<<Inverted(inst), LdrX17, BR(17)>>, 2, pc + inst.imm)
         /\ inst.op = "LdrLit" /\ inst.opc \in {0, 1} =>
              p = Piece(<<LdrX17, LdrReg(inst.rt, 17, inst.opc)>>, 1, pc + inst.imm)
         /\ inst.op = "ADR" => p = Piece(<<LdrX17, MOV(inst.rt, 17)>>, 1, pc + inst.imm)
         /\ inst.op = "ADRP" =>
              p = Piece(<<LdrX17, MOV(inst.rt, 17)>>, 1, Page(pc) + inst.imm * PageSize)
         /\ /\ inst.op \notin {"B", "BL", "BCond", "CB", "TB", "ADR", "ADRP"}
            /\ ~(inst.op = "LdrLit" /\ inst.opc \in {0, 1})
            => p = Piece(<<inst>>, 0, 0)
<1>1. <<Inverted(inst)>> \o <<LdrX17, BR(17)>> = <<Inverted(inst), LdrX17, BR(17)>>
  <2> DEFINE S == {Inverted(inst), LdrX17, BR(17)}
  <2>1. \A s, t \in Seq(S) : /\ s \o t \in Seq(S) /\ Len(s \o t) = Len(s) + Len(t)
                            /\ \A i \in 1..Len(s) + Len(t) :
                                 (s \o t)[i] = IF i <= Len(s) THEN s[i] ELSE t[i - Len(s)]
    BY ConcatProperties
  <2>2. <<Inverted(inst)>> \in Seq(S) /\ <<LdrX17, BR(17)>> \in Seq(S)
    BY SMT
  <2> DEFINE u == <<Inverted(inst), LdrX17, BR(17)>>
             w == <<Inverted(inst)>> \o <<LdrX17, BR(17)>>
  <2>3. u \in Seq(S) /\ Len(u) = 3
    BY SMT
  <2>4. w \in Seq(S) /\ Len(w) = 3
    BY <2>1, <2>2, SMT
  <2>5. w[1] = u[1] /\ w[2] = u[2] /\ w[3] = u[3]
    BY <2>1, <2>2, SMT
  <2>6. \A i \in 1..Len(w) : w[i] = u[i]
    <3> SUFFICES ASSUME NEW i \in 1..Len(w) PROVE w[i] = u[i]
      OBVIOUS
    <3>1. i = 1 \/ i = 2 \/ i = 3
      BY <2>4, SMT
    <3> HIDE DEF u, w
    <3> QED
      BY <2>5, <3>1
  <2> HIDE DEF u, w, S
  <2> QED
    BY <2>3, <2>4, <2>6, SeqEqual DEF u, w
<1>2. \A target : /\ EmitLdrX17Branch(target) = Piece(<<LdrX17, BR(17)>>, 1, target)
                  /\ EmitLdrX17Branch(target).words = <<LdrX17, BR(17)>>
                  /\ EmitLdrLRBranch(target) = Piece(<<LdrX17, MOV(30, 17), BLR(30)>>, 1, target)
  BY DEF EmitLdrX17Branch, EmitLdrLRBranch, Piece
<1> QED
  BY <1>1, <1>2 DEF Relocate

\* Whatever the instruction, the piece is well formed.
LEMMA PieceWellFormed ==
  ASSUME NEW inst \in Insts, NEW k \in Nat
  PROVE  WellFormed(Relocate(inst, SrcAddr + k))
<1>0. PICK p : p = Relocate(inst, SrcAddr + k)
  OBVIOUS
<1>1. p.value \in Values
  BY <1>0, SMT DEF Values
<1>r. PICK pc : pc = SrcAddr + k
  OBVIOUS
<1>rr. p = Relocate(inst, pc)
  BY <1>0, <1>r
<1>2. /\ inst \in Words /\ Inverted(inst) \in Words /\ LdrX17 \in Words /\ BR(17) \in Words
      /\ BLR(30) \in Words /\ MOV(30, 17) \in Words /\ MOV(inst.rt, 17) \in Words
      /\ LdrReg(inst.rt, 17, inst.opc) \in Words
  BY DEF Words
<1>3. \A a \in Words, v \in Values : WellFormed(Piece(<<a>>, 0, v))
  BY SMT DEF WellFormed, Piece
<1>4. \A b \in Words, v \in Values : WellFormed(Piece(<<LdrX17, b>>, 1, v))
  BY <1>2, SMT DEF WellFormed, Piece
<1>5. \A b, c \in Words, v \in Values : WellFormed(Piece(<<LdrX17, b, c>>, 1, v))
  BY <1>2, SMT DEF WellFormed, Piece
<1>6. \A a, c \in Words, v \in Values : WellFormed(Piece(<<a, LdrX17, c>>, 2, v))
  BY <1>2, SMT DEF WellFormed, Piece
<1>7. \A w, at, v : p = Piece(w, at, v) => v \in Values
  <2> SUFFICES ASSUME NEW w, NEW at, NEW v, p = Piece(w, at, v) PROVE v \in Values
    OBVIOUS
  <2>1. Piece(w, at, v).value = v
    BY DEF Piece
  <2> QED
    BY <1>1, <2>1
<1> SUFFICES WellFormed(p)
  BY <1>0
<1>8. CASE inst.op = "B"
  <2>1. p = Piece(<<LdrX17, BR(17)>>, 1, pc + inst.imm)
    BY <1>rr, <1>8, Rewritten
  <2> QED
    BY <1>2, <1>4, <1>7, <2>1
<1>9. CASE inst.op = "BL"
  <2>1. p = Piece(<<LdrX17, MOV(30, 17), BLR(30)>>, 1, pc + inst.imm)
    BY <1>rr, <1>9, Rewritten
  <2> QED
    BY <1>2, <1>5, <1>7, <2>1
<1>10. CASE inst.op \in {"BCond", "CB", "TB"}
  <2>1. p = Piece(<<Inverted(inst), LdrX17, BR(17)>>, 2, pc + inst.imm)
    BY <1>rr, <1>10, Rewritten
  <2> QED
    BY <1>2, <1>6, <1>7, <2>1
<1>11. CASE inst.op = "LdrLit" /\ inst.opc \in {0, 1}
  <2>1. p = Piece(<<LdrX17, LdrReg(inst.rt, 17, inst.opc)>>, 1, pc + inst.imm)
    BY <1>rr, <1>11, Rewritten
  <2> QED
    BY <1>2, <1>4, <1>7, <2>1
<1>12. CASE inst.op = "ADR"
  <2>1. p = Piece(<<LdrX17, MOV(inst.rt, 17)>>, 1, pc + inst.imm)
    BY <1>rr, <1>12, Rewritten
  <2> QED
    BY <1>2, <1>4, <1>7, <2>1
<1>13. CASE inst.op = "ADRP"
  <2>1. p = Piece(<<LdrX17, MOV(inst.rt, 17)>>, 1, Page(pc) + inst.imm * PageSize)
    BY <1>rr, <1>13, Rewritten
  <2> QED
    BY <1>2, <1>4, <1>7, <2>1
<1>14. CASE /\ inst.op \notin {"B", "BL", "BCond", "CB", "TB", "ADR", "ADRP"}
            /\ ~(inst.op = "LdrLit" /\ inst.opc \in {0, 1})
  <2>1. p = Piece(<<inst>>, 0, 0)
    BY <1>rr, <1>14, Rewritten
  <2> QED
    BY <1>2, <1>3, <1>7, <2>1
<1> QED
  BY <1>0, <1>8, <1>9, <1>10, <1>11, <1>12, <1>13, <1>14

\* And so is the branch back.
LEMMA BackWellFormed ==
  ASSUME NEW k \in Nat
  PROVE  WellFormed(EmitLdrX17Branch(SrcAddr + k))
<1>1. SrcAddr + k \in Values
  BY SMT DEF Values
<1>2. LdrX17 \in Words /\ BR(17) \in Words
  BY DEF Words
<1> QED
  BY <1>1, <1>2, SMT DEF WellFormed, EmitLdrX17Branch, Piece
-----------------------------------------------------------------------------
(* The code *)

\* The k-th instruction and its piece; the branch back is what a branch to
\* itself behind the others would be.
Back      == [op |-> "B", imm |-> 0]
InstOf(k) == IF k <= Len(prog) THEN prog[k] ELSE Back
PieceOf(k) == Relocate(InstOf(k), SrcAddr + (k - 1))

\* The words of p follow the word s, and the labels among them are p's.
Placed(p, s, words, labs) ==
    /\ s \in Nat /\ s + Len(p.words) <= Len(words)
    /\ \A j \in 1..Len(p.words) : words[s + j] = p.words[j]
    /\ p.at # 0 => \E l \in 1..Len(labs) : labs[l].at = s + p.at
    /\ \A l \in 1..Len(labs), j \in 1..Len(p.words) :
         labs[l].at = s + j => j = p.at /\ labs[l].value = p.value

\* After Finalize: the labelled word loads the literal.
Loads17(s, c, value) ==
    \E x \in Int : /\ c[s] = [LdrX17 EXCEPT !.imm = x]
                  /\ s + x \in 1..Len(c) /\ c[s + x].value = value
Ready(p, s, c) ==
    /\ s \in Nat /\ s + Len(p.words) <= Len(c)
    /\ \A j \in 1..Len(p.words) : j # p.at => c[s + j] = p.words[j]
    /\ p.at # 0 => Loads17(s + p.at, c, p.value)

\* The next piece is placed behind the others, which stay where they are.
LEMMA Emits ==
  ASSUME code \in Seq(Words), labels \in Seq(Labels), NEW p, WellFormed(p),
         \A l \in 1..Len(labels) : labels[l].at <= Len(code),
         NEW c, NEW labs, c = code \o p.words, labs = PlaceDataLabel(p)
  PROVE  /\ c \in Seq(Words) /\ labs \in Seq(Labels)
         /\ Len(c) = Len(code) + Len(p.words)
         /\ Len(c) + 2 * Len(labs) <= Len(code) + 2 * Len(labels) + 5
         /\ \A l \in 1..Len(labs) : labs[l].at <= Len(c)
         /\ Placed(p, Len(code), c, labs)
         /\ \A q, s : WellFormed(q) /\ Placed(q, s, code, labels) => Placed(q, s, c, labs)
<1>1. /\ c \in Seq(Words) /\ Len(c) = Len(code) + Len(p.words)
      /\ \A i \in 1..Len(code) + Len(p.words) :
           c[i] = IF i <= Len(code) THEN code[i] ELSE p.words[i - Len(code)]
  BY ConcatProperties DEF WellFormed
<1>2. Len(code) \in Nat /\ Len(labels) \in Nat /\ Len(p.words) \in 1..3
      /\ p.at \in 0..Len(p.words)
  BY SMT DEF WellFormed
<1>3. /\ \A i \in 1..Len(code) : c[i] = code[i]
      /\ \A j \in 1..Len(p.words) : c[Len(code) + j] = p.words[j]
  BY <1>1, <1>2, SMT
<1>4. /\ labs \in Seq(Labels) /\ Len(labs) = IF p.at = 0 THEN Len(labels) ELSE Len(labels) + 1
      /\ \A l \in 1..Len(labels) : labs[l] = labels[l]
      /\ p.at # 0 => /\ labs[Len(labels) + 1].at = Len(code) + p.at
                     /\ labs[Len(labels) + 1].value = p.value
  <2>1. CASE p.at = 0
    BY <2>1, SMT DEF PlaceDataLabel
  <2>2. CASE p.at # 0
    <3> DEFINE new == [at |-> Len(code) + p.at, value |-> p.value]
    <3>1. new \in Labels /\ new.at = Len(code) + p.at /\ new.value = p.value
      BY <1>2, SMT DEF Labels, WellFormed
    <3>2. labs = Append(labels, new)
      BY <2>2 DEF PlaceDataLabel
    <3> HIDE DEF new
    <3> QED
      BY <1>2, <2>2, <3>1, <3>2, AppendProperties, SMTT(30)
  <2> QED
    BY <2>1, <2>2
<1>5. \A l \in 1..Len(labels) : labels[l].at \in Nat
  <2>1. \A x \in Labels : x.at \in Nat
    BY DEF Labels
  <2> QED
    BY <2>1, ElementOfSeq
<1>6. Len(c) + 2 * Len(labs) <= Len(code) + 2 * Len(labels) + 5
  <2>1. Len(labs) = Len(labels) \/ Len(labs) = Len(labels) + 1
    BY <1>4
  <2>2. Len(c) = Len(code) + Len(p.words)
    BY <1>1
  <2>3. \A a, b, d, e \in Nat : (d = b \/ d = b + 1) /\ e <= 3 => (a + e) + 2 * d <= a + 2 * b + 5
    BY SMT
  <2>4. Len(p.words) \in Nat /\ Len(p.words) <= 3
    <3>1. \A n \in 1..3 : n \in Nat /\ n <= 3
      BY SMT
    <3> QED
      BY <1>2, <3>1
  <2>5. Len(labs) \in Nat
    BY <1>2, <2>1, SMT
  <2> QED
    BY <1>2, <2>1, <2>2, <2>3, <2>4, <2>5
<1>7. \A l \in 1..Len(labs) : labs[l].at <= Len(c)
  <2> SUFFICES ASSUME NEW l \in 1..Len(labs) PROVE labs[l].at <= Len(c)
    OBVIOUS
  <2>1. Len(c) = Len(code) + Len(p.words)
    BY <1>1
  <2>2. CASE l \in 1..Len(labels)
    <3>1. labs[l] = labels[l] /\ labels[l].at \in Nat /\ labels[l].at <= Len(code)
      BY <1>4, <1>5, <2>2
    <3> QED
      BY <1>2, <2>1, <3>1, SMT
  <2>3. CASE ~(l \in 1..Len(labels))
    <3>1. p.at # 0 /\ l = Len(labels) + 1
      BY <1>2, <1>4, <2>3, SMT
    <3>2. labs[l].at = Len(code) + p.at
      BY <1>4, <3>1
    <3> QED
      BY <1>2, <2>1, <3>2, SMT
  <2> QED
    BY <2>2, <2>3
<1>8. Placed(p, Len(code), c, labs)
  <2>1. p.at # 0 => \E l \in 1..Len(labs) : labs[l].at = Len(code) + p.at
    BY <1>2, <1>4, SMT
  <2>2. ASSUME NEW l \in 1..Len(labs), NEW j \in 1..Len(p.words), labs[l].at = Len(code) + j
        PROVE  j = p.at /\ labs[l].value = p.value
    <3>1. ~(l \in 1..Len(labels))
      BY <1>2, <1>4, <1>5, <2>2, SMT
    <3>2. p.at # 0 /\ l = Len(labels) + 1
      BY <1>2, <1>4, <3>1, SMT
    <3> QED
      BY <1>2, <1>4, <2>2, <3>2, SMT
  <2> QED
    BY <1>1, <1>2, <1>3, <2>1, <2>2, SMT DEF Placed
<1>9. ASSUME NEW q, NEW s, WellFormed(q), Placed(q, s, code, labels)
      PROVE  Placed(q, s, c, labs)
  <2>1. s \in Nat /\ Len(q.words) \in 1..3 /\ s + Len(q.words) <= Len(code)
    BY <1>9 DEF WellFormed, Placed
  <2>2. \A j \in 1..Len(q.words) : c[s + j] = q.words[j]
    BY <1>2, <1>3, <1>9, <2>1, SMTT(30) DEF Placed
  <2>3. q.at # 0 => \E l \in 1..Len(labs) : labs[l].at = s + q.at
    BY <1>2, <1>4, <1>9, SMT DEF Placed
  <2>4. ASSUME NEW l \in 1..Len(labs), NEW j \in 1..Len(q.words), labs[l].at = s + j
        PROVE  j = q.at /\ labs[l].value = q.value
    <3>1. l \in 1..Len(labels)
      BY <1>2, <1>4, <2>1, <2>4, SMTT(30)
    <3> QED
      BY <1>4, <1>9, <2>4, <3>1 DEF Placed
  <2> QED
    BY <1>1, <1>2, <2>1, <2>2, <2>3, <2>4, SMTT(30) DEF Placed
<1> QED
  BY <1>1, <1>4, <1>6, <1>7, <1>8, <1>9

\* Finalize makes the placed pieces ready.
LEMMA Finalizes ==
  ASSUME NEW c \in Seq(Words), NEW labs \in Seq(Labels), NEW f, f = Finalize(c, labs)
  PROVE  /\ DOMAIN f = 1..Len(f) /\ Len(f) \in Nat
         /\ Len(f) <= Len(c) + 1 + 2 * Len(labs)
         /\ \A p, s : WellFormed(p) /\ Placed(p, s, c, labs) => Ready(p, s, f)
<1> DEFINE size == Len(c) + (Len(c) % 2)
           Labelled(j) == {k \in DOMAIN labs : labs[k].at = j}
           k(j) == CHOOSE x \in Labelled(j) : TRUE
<1>1. /\ Len(c) \in Nat /\ Len(labs) \in Nat /\ size \in Nat
      /\ Len(c) <= size /\ size <= Len(c) + 1 /\ DOMAIN labs = 1..Len(labs)
  BY SMT
<1>2. PICK n \in Nat : n = size + 2 * Len(labs)
  BY <1>1, SMT
<1>3. DOMAIN f = 1..n
  BY <1>2 DEF Finalize
<1>4. Len(f) = n
  <2>1. PICK S : S = {f[j] : j \in 1..n}
    OBVIOUS
  <2>2. f = [j \in 1..n |-> f[j]]
    BY <1>2, <1>3 DEF Finalize
  <2>3. f \in [1..n -> S]
    BY <2>1, <2>2
  <2> QED
    BY <1>3, <2>3, SMT
<1>5. ASSUME NEW j \in 1..Len(c), Labelled(j) = {}
      PROVE  f[j] = c[j]
  <2>1. j \in 1..n /\ ~(j > size) /\ ~(j > Len(c))
    BY <1>1, <1>2, SMT
  <2> QED
    BY <1>2, <1>5, <2>1 DEF Finalize
<1>6. ASSUME NEW j \in 1..Len(c), Labelled(j) # {}
      PROVE  f[j] = [c[j] EXCEPT !.imm = size + 2 * k(j) - 1 - j]
  <2>1. j \in 1..n /\ ~(j > size) /\ ~(j > Len(c))
    BY <1>1, <1>2, SMT
  <2> QED
    BY <1>2, <1>6, <2>1 DEF Finalize
<1>7. ASSUME NEW l \in 1..Len(labs)
      PROVE  /\ size + 2 * l - 1 \in 1..n
             /\ f[size + 2 * l - 1].value = labs[l].value
  <2>1. PICK j : j = size + 2 * l - 1
    OBVIOUS
  <2>2. j \in 1..n /\ j > size /\ (j - size) % 2 = 1 /\ ((j - size) + 1) \div 2 = l
    BY <1>1, <1>2, <2>1, SMT
  <2>3. f[j] = [op |-> "data", value |-> labs[((j - size) + 1) \div 2].value]
    BY <1>2, <2>2 DEF Finalize
  <2> QED
    BY <2>1, <2>2, <2>3, SMT
<1>8. ASSUME NEW p, NEW s, WellFormed(p), Placed(p, s, c, labs)
      PROVE  Ready(p, s, f)
  <2>1. /\ s \in Nat /\ Len(p.words) \in 1..3 /\ s + Len(p.words) <= Len(c)
        /\ p.at \in 0..Len(p.words)
    BY <1>8 DEF WellFormed, Placed
  <2>2. ASSUME NEW j \in 1..Len(p.words), j # p.at
        PROVE  f[s + j] = p.words[j]
    <3>1. s + j \in 1..Len(c)
      BY <1>1, <2>1, SMTT(30)
    <3>2. Labelled(s + j) = {}
      BY <1>1, <1>8, <2>2 DEF Placed
    <3> QED
      BY <1>5, <1>8, <3>1, <3>2 DEF Placed
  <2>3. ASSUME p.at # 0
        PROVE  Loads17(s + p.at, f, p.value)
    <3>1. PICK i : i = s + p.at
      OBVIOUS
    <3>2. i \in 1..Len(c) /\ p.at \in 1..Len(p.words)
      <4>1. PICK len \in 1..3, at \in 0..3 : len = Len(p.words) /\ at = p.at /\ at <= len
        <5>1. \A x \in 1..3 : \A y \in 0..x : y \in 0..3 /\ y <= x
          BY SMT
        <5> QED
          BY <2>1, <5>1
      <4>2. PICK n2 \in Nat : n2 = Len(c) /\ s \in Nat /\ s + len <= n2
        BY <1>1, <2>1, <4>1
      <4>3. at # 0 /\ at <= len /\ s \in Nat /\ s + len <= n2
        BY <2>3, <4>1, <4>2
      <4>4. s + at \in 1..n2 /\ at \in 1..len
        BY <4>3, SMT
      <4> QED
        BY <3>1, <4>1, <4>2, <4>4
    <3>3. PICK l \in 1..Len(labs) : labs[l].at = i
      BY <1>8, <2>3, <3>1 DEF Placed
    <3>4. Labelled(i) # {}
      BY <1>1, <3>3
    <3>5. k(i) \in 1..Len(labs) /\ labs[k(i)].at = i
      BY <1>1, <3>4
    <3>6. labs[k(i)].value = p.value
      BY <1>8, <3>1, <3>2, <3>5 DEF Placed
    <3>7. c[i] = LdrX17
      BY <1>8, <2>3, <3>1, <3>2 DEF Placed, WellFormed
    <3>8. f[i] = [LdrX17 EXCEPT !.imm = size + 2 * k(i) - 1 - i]
      BY <1>6, <3>2, <3>4, <3>7
    <3>9. PICK x : x = size + 2 * k(i) - 1 - i
      OBVIOUS
    <3>10. x \in Int /\ i + x = size + 2 * k(i) - 1
      BY <1>1, <3>2, <3>5, <3>9, SMTT(30)
    <3>11. i + x \in 1..n /\ f[i + x].value = p.value
      BY <1>7, <3>5, <3>6, <3>10
    <3> QED
      BY <1>4, <3>1, <3>8, <3>9, <3>10, <3>11 DEF Loads17
  <2>4. s + Len(p.words) <= n
    BY <1>1, <1>2, <2>1, SMTT(30)
  <2> QED
    BY <1>4, <2>1, <2>2, <2>3, <2>4 DEF Ready
<1>9. n <= Len(c) + 1 + 2 * Len(labs)
  BY <1>1, <1>2, SMT
<1> QED
  BY <1>2, <1>3, <1>4, <1>8, <1>9
-----------------------------------------------------------------------------
(* The processor *)

Machines == [pc : Int, flags : [0..6 -> BOOLEAN], calls : Seq(Int), regs : [Registers -> Int]]

\* m2 is m after a step to the next word that put v into register g.
Sets(m, m2, g, v) ==
    /\ m2 \in Machines /\ m2.pc = m.pc + 1 /\ m2.flags = m.flags /\ m2.calls = m.calls
    /\ m2.regs[g] = v /\ \A h \in Registers \ {g} : m2.regs[h] = m.regs[h]

\* m2 is m after a branch.
Jumps(m, m2, addr) ==
    /\ m2 \in Machines /\ m2.pc = addr /\ m2.flags = m.flags /\ m2.calls = m.calls
    /\ m2.regs = m.regs

\* The registers are different registers.
LEMMA Regs ==
  /\ X17 \in Registers /\ LR \in Registers /\ X17 # LR /\ Reg(0, 0) \in Registers
  /\ Reg(0, 0) # X17 /\ Reg(0, 0) # LR /\ X17 = Reg(17, 0) /\ LR = Reg(30, 0)
  /\ \A n \in XRegs : /\ Reg(n, 0) \in Registers
                      /\ n # 17 => Reg(n, 0) # X17
                      /\ n # 30 => Reg(n, 0) # LR
<1>1. 0 \in XRegs /\ 17 \in XRegs /\ 30 \in XRegs
  BY RelocatorAssumption
<1>2. \A n \in XRegs : Reg(n, 0) \in Registers
  BY DEF Registers
<1>3. \A n1, n2 : Reg(n1, 0) = Reg(n2, 0) => n1 = n2
  BY DEF Reg
<1>4. 0 # 17 /\ 0 # 30 /\ 17 # 30
  BY SMT
<1> QED
  BY <1>1, <1>2, <1>3, <1>4 DEF X17, LR

\* Set changes one register and goes on.
LEMMA SetSets ==
  ASSUME NEW m \in Machines, NEW g \in Registers, NEW v \in Int
  PROVE  Sets(m, Set(m, g, v), g, v)
<1>1. PICK f : f = [m.regs EXCEPT ![g] = v]
  OBVIOUS
<1>2. f \in [Registers -> Int] /\ f[g] = v /\ \A h \in Registers \ {g} : f[h] = m.regs[h]
  BY <1>1 DEF Machines
<1>3. PICK x \in Int : x = m.pc + 1
  BY SMT DEF Machines
<1>4. PICK m2 : m2 = [m EXCEPT !.pc = x, !.regs = f]
  OBVIOUS
<1>5. m2 = Set(m, g, v)
  BY <1>1, <1>3, <1>4 DEF Set
<1>6. m2 \in Machines
  BY <1>2, <1>4 DEF Machines
<1>7. /\ m2.pc = x /\ m2.regs = f
  BY <1>4, SMT DEF Machines
<1>8. m2.flags = m.flags /\ m2.calls = m.calls
  BY <1>4, SMT DEF Machines
<1> QED
  BY <1>2, <1>3, <1>5, <1>6, <1>7, <1>8 DEF Sets

\* A jump changes the program counter only.
LEMMA JumpJumps ==
  ASSUME NEW m \in Machines, NEW addr \in Int
  PROVE  Jumps(m, [m EXCEPT !.pc = addr], addr)
BY DEF Jumps, Machines

\* The instructions by their fields.
LEMMA Fields ==
  ASSUME NEW i \in Relocatable
  PROVE  /\ i.op \in {"B", "BL", "BCond", "CB", "TB", "LdrLit", "ADR", "ADRP", "ADD"}
         /\ i.imm \in Int
         /\ i.op = "BCond" => i \in [op : {"BCond"}, cond : 0..13, imm : Int]
         /\ i.op \in {"CB", "TB"} =>
              i \in [op : {"CB", "TB"}, neg : BOOLEAN, rt : XRegs \ {17, 30}, imm : Int]
         /\ i.op = "LdrLit" => i.v = 0 /\ i.opc \in {0, 1} /\ i.rt \in XRegs
         /\ i.op \in {"ADR", "ADRP"} => i.rt \in XRegs
         /\ i.op = "ADD" => i.rt \in XRegs \ {17, 30}
<1>1. CASE i \in [op : {"B", "BL"}, imm : Int]
  BY <1>1, SMT
<1>2. CASE i \in [op : {"BCond"}, cond : 0..13, imm : Int]
  BY <1>2, SMT
<1>3. CASE i \in [op : {"CB", "TB"}, neg : BOOLEAN, rt : XRegs \ {17, 30}, imm : Int]
  BY <1>3, SMT
<1>4. CASE i \in [op : {"LdrLit"}, v : {0}, opc : {0, 1}, rt : XRegs, imm : Int]
  BY <1>4, SMT
<1>5. CASE i \in [op : {"ADR", "ADRP"}, rt : XRegs, imm : Int]
  BY <1>5, SMT
<1>6. CASE i \in [op : {"ADD"}, rt : XRegs \ {17, 30}, imm : {0}]
  BY <1>6, SMT
<1> QED
  BY <1>1, <1>2, <1>3, <1>4, <1>5, <1>6 DEF Relocatable

\* The literals are addresses.
LEMMA ValueInt ==
  ASSUME NEW i \in Relocatable, NEW pc \in Int, NEW p, p = Relocate(i, pc)
  PROVE  p.value \in Int
<1>1. i.imm \in Int /\ PageSize \in Int /\ PageSize > 0
  BY Fields, RelocatorAssumption, SMT
<1>2. pc + i.imm \in Int /\ Page(pc) + i.imm * PageSize \in Int /\ 0 \in Int
  <2>1. pc % PageSize \in Int
    BY <1>1, SMT
  <2>2. i.imm * PageSize \in Int
    BY <1>1, SMT
  <2> QED
    BY <1>1, <2>1, <2>2, SMT DEF Page
<1>3. \A w, at, v : Piece(w, at, v).value = v
  BY DEF Piece
<1>4. \E w, at, v : p = Piece(w, at, v) /\ v \in {pc + i.imm, Page(pc) + i.imm * PageSize, 0}
  <2>1. CASE i.op = "B"
    <3>1. p = Piece(<<LdrX17, BR(17)>>, 1, pc + i.imm)
      BY <2>1, Rewritten
    <3> QED
      BY <3>1
  <2>2. CASE i.op = "BL"
    <3>1. p = Piece(<<LdrX17, MOV(30, 17), BLR(30)>>, 1, pc + i.imm)
      BY <2>2, Rewritten
    <3> QED
      BY <3>1
  <2>3. CASE i.op \in {"BCond", "CB", "TB"}
    <3>1. p = Piece(<<Inverted(i), LdrX17, BR(17)>>, 2, pc + i.imm)
      BY <2>3, Rewritten
    <3> QED
      BY <3>1
  <2>4. CASE i.op = "LdrLit"
    <3>1. p = Piece(<<LdrX17, LdrReg(i.rt, 17, i.opc)>>, 1, pc + i.imm)
      BY <2>4, Rewritten, Fields, ZenonT(30)
    <3> QED
      BY <3>1
  <2>5. CASE i.op = "ADR"
    <3>1. p = Piece(<<LdrX17, MOV(i.rt, 17)>>, 1, pc + i.imm)
      BY <2>5, Rewritten
    <3> QED
      BY <3>1
  <2>6. CASE i.op = "ADRP"
    <3>1. p = Piece(<<LdrX17, MOV(i.rt, 17)>>, 1, Page(pc) + i.imm * PageSize)
      BY <2>6, Rewritten
    <3> QED
      BY <3>1
  <2>7. CASE i.op = "ADD"
    <3>1. p = Piece(<<i>>, 0, 0)
      BY <2>7, Rewritten, ZenonT(30)
    <3> QED
      BY <3>1
  <2> QED
    BY <2>1, <2>2, <2>3, <2>4, <2>5, <2>6, <2>7, Fields
<1>5. PICK w, at, v : p = Piece(w, at, v) /\ v \in {pc + i.imm, Page(pc) + i.imm * PageSize, 0}
  BY <1>4
<1>6. v \in Int
  BY <1>2, <1>5
<1>7. p.value = v
  BY <1>3, <1>5, SMT
<1> QED
  BY <1>6, <1>7

\* m2 is m after a call that came back.
Called(m, m2, target) ==
    /\ m2 \in Machines /\ m2.pc = m.pc + 1 /\ m2.flags = m.flags
    /\ m2.calls = Append(m.calls, target) /\ m2.regs[Reg(0, 0)] = 1
    /\ \A h \in Registers \ {LR, Reg(0, 0), X17} : m2.regs[h] = m.regs[h]

\* A call records its target and changes the registers a call may change.
LEMMA CallCalls ==
  ASSUME NEW m \in Machines, NEW target \in Int
  PROVE  Called(m, CallTo(m, target), target)
<1>1. PICK x \in Int : x = m.pc + 1
  BY SMT DEF Machines
<1>2. PICK f : f = [m.regs EXCEPT ![LR] = x, ![Reg(0, 0)] = 1, ![X17] = 0]
  OBVIOUS
<1>3. m.regs \in [Registers -> Int] /\ m.calls \in Seq(Int)
  BY DEF Machines
<1>4. f \in [Registers -> Int] /\ f[Reg(0, 0)] = 1
  <2>1. PICK g : g = [m.regs EXCEPT ![LR] = x]
    OBVIOUS
  <2>2. PICK h : h = [g EXCEPT ![Reg(0, 0)] = 1]
    OBVIOUS
  <2>3. f = [h EXCEPT ![X17] = 0]
    BY <1>2, <2>1, <2>2
  <2>4. g \in [Registers -> Int] /\ 1 \in Int /\ 0 \in Int
    <3>1. 1 \in Int /\ 0 \in Int
      BY SMT
    <3> QED
      BY <1>3, <2>1, <3>1, Regs
  <2>5. h \in [Registers -> Int] /\ h[Reg(0, 0)] = 1
    BY <2>2, <2>4, Regs
  <2> QED
    BY <2>3, <2>4, <2>5, Regs
<1>5. \A h \in Registers \ {LR, Reg(0, 0), X17} : f[h] = m.regs[h]
  BY <1>2, <1>3, Regs, SMT
<1>6. PICK c \in Seq(Int) : c = Append(m.calls, target)
  <2>1. Append(m.calls, target) \in Seq(Int)
    BY <1>3, AppendProperties
  <2> QED
    BY <2>1
<1>7. PICK m2 : m2 = [m EXCEPT !.pc = x, !.calls = c, !.regs = f]
  OBVIOUS
<1>8. m2 = CallTo(m, target)
  BY <1>1, <1>2, <1>6, <1>7 DEF CallTo
<1>9. m2 \in Machines
  BY <1>4, <1>7 DEF Machines
<1>10. m2.pc = x /\ m2.regs = f /\ m2.calls = c
  BY <1>7, SMT DEF Machines
<1>11. m2.flags = m.flags
  BY <1>7, SMT DEF Machines
<1> QED
  BY <1>1, <1>4, <1>5, <1>6, <1>8, <1>9, <1>10, <1>11 DEF Called

\* The processors agree, but for the scratch and the link register, or but for
\* the scratch register and for a link register that a call has set.
Same(r, o) ==
    /\ r.flags = o.flags /\ r.calls = o.calls
    /\ \A h \in Registers \ {X17, LR} : r.regs[h] = o.regs[h]
SameLR(r, o) == o.calls = <<>> => r.regs[LR] = o.regs[LR]

Conditional(inst) == inst.op \in {"BCond", "CB", "TB"}

\* Within the piece p of inst, d words of it behind: r knows what it loaded,
\* and o, before inst, is going to branch if the inverted branch did not.
Inside(inst, p, d, r, o) ==
    /\ Same(r, o)
    /\ IF inst.op = "BL" /\ d = 2 THEN r.regs[LR] = p.value ELSE SameLR(r, o)
    /\ p.at # 0 /\ d >= p.at => r.regs[X17] = p.value
    /\ Conditional(inst) /\ d >= 1 => Jumps(o, Execute(inst, o), p.value)

\* r is at the word d of the piece of inst, o at inst.
AtWord(inst, pc, p, s, d, r, o) ==
    /\ inst \in Relocatable /\ pc \in Int /\ p = Relocate(inst, pc)
    /\ r \in Machines /\ o \in Machines /\ o.pc = pc
    /\ Ready(p, s, code) /\ Len(p.words) \in 1..3 /\ d \in 0..Len(p.words) - 1
    /\ r.pc = DstAddr + (s + d)
    /\ DOMAIN code = 1..Len(code) /\ Len(code) \in Nat
    /\ Inside(inst, p, d, r, o)
    /\ inst.op = "LdrLit" => (pc + inst.imm) - DstAddr + 1 \notin DOMAIN code

\* r has done what o does in one step: both go on behind it, or both branch.
Finished(inst, pc, p, s, r, o) ==
    /\ o \in Machines /\ Same(r, o) /\ SameLR(r, o)
    /\ \/ r.pc = DstAddr + (s + Len(p.words)) /\ o.pc = pc + 1
       \/ r.pc = o.pc /\ o.pc = pc + inst.imm /\ (inst.op = "B" \/ Conditional(inst))

\* The word at d brings r to the next word or to the end of the piece.
Advances(inst, pc, p, s, d, r, o) ==
    LET w  == code[s + d + 1]
        r2 == Execute(w, r)
    IN /\ w.op # "data" /\ r2 \in Machines
       /\ \/ /\ d + 1 < Len(p.words) /\ r2.pc = DstAddr + (s + (d + 1))
             /\ Inside(inst, p, d + 1, r2, o)
          \/ Finished(inst, pc, p, s, r2, Execute(inst, o))

\* The word is the one that was written, or the load of the literal.
LEMMA WordRead ==
  ASSUME NEW inst, NEW pc, NEW p, NEW s, NEW d, NEW r, NEW o, AtWord(inst, pc, p, s, d, r, o)
  PROVE  /\ s \in Nat /\ d \in Nat /\ DstAddr \in Nat /\ r.pc \in Int
         /\ d + 1 # p.at => code[s + d + 1] = p.words[d + 1]
         /\ d + 1 = p.at => code[s + d + 1].op # "data"
                            /\ Sets(r, Execute(code[s + d + 1], r), X17, p.value)
<1>1. s \in Nat /\ d \in Nat /\ DstAddr \in Nat /\ r.pc \in Int
  <2>1. s \in Nat /\ d \in 0..Len(p.words) - 1 /\ Len(p.words) \in 1..3 /\ r \in Machines
    BY DEF AtWord, Ready
  <2>2. r.pc \in Int
    BY <2>1 DEF Machines
  <2>3. PICK n \in 1..3 : d \in 0..n - 1
    BY <2>1
  <2>4. d \in Nat
    BY <2>3, SMT
  <2> QED
    BY <2>1, <2>2, <2>4, RelocatorAssumption
<1>2. d + 1 # p.at => code[s + d + 1] = p.words[d + 1]
  <2>1. PICK n : n = Len(p.words)
    OBVIOUS
  <2>2. d \in 0..n - 1 /\ \A j \in 1..n : j # p.at => code[s + j] = p.words[j]
    BY <2>1 DEF AtWord, Ready
  <2>4. n \in Int
    BY <2>1, SMT DEF AtWord
  <2>3. d + 1 \in 1..n /\ s + (d + 1) = s + d + 1
    BY <1>1, <2>2, <2>4, SMT
  <2> QED
    BY <2>2, <2>3, <2>4
<1>3. ASSUME d + 1 = p.at
      PROVE  code[s + d + 1].op # "data" /\ Sets(r, Execute(code[s + d + 1], r), X17, p.value)
  <2>1. PICK i : i = s + d + 1
    OBVIOUS
  <2>2. i = s + p.at /\ i \in Nat /\ p.at # 0
    BY <1>1, <1>3, <2>1, SMT
  <2>3. PICK x \in Int : code[i] = [LdrX17 EXCEPT !.imm = x] /\ i + x \in 1..Len(code)
                         /\ code[i + x].value = p.value
    BY <2>2 DEF AtWord, Ready, Loads17
  <2>4. PICK w : w = code[i]
    OBVIOUS
  <2>5. w.op = "LdrLit" /\ w.v = 0 /\ w.opc = 1 /\ w.rt = 17 /\ w.imm = x
    BY <2>3, <2>4, SMT DEF LdrX17
  <2>6. (r.pc + x) - DstAddr + 1 = i + x
    BY <1>1, <2>1, SMT DEF AtWord
  <2>7. Memory(r.pc + x, 1) = p.value
    <3>1. PICK a : a = r.pc + x
      OBVIOUS
    <3>2. a - DstAddr + 1 = i + x /\ i + x \in DOMAIN code
      BY <2>3, <2>6, <3>1 DEF AtWord
    <3>3. Memory(a, 1) = code[i + x].value
      BY <3>2, ZenonT(30) DEF Memory
    <3> QED
      BY <2>3, <3>1, <3>3
  <2>8. Execute(w, r) = Set(r, Reg(17, 0), Memory(r.pc + x, 1))
    BY <2>5, SMT DEF Execute
  <2>9. p.value \in Int
    BY ValueInt DEF AtWord
  <2>10. r \in Machines
    BY DEF AtWord
  <2> QED
    BY <2>1, <2>4, <2>5, <2>7, <2>8, <2>9, <2>10, SetSets, Regs, ZenonT(30)
<1> QED
  BY <1>1, <1>2, <1>3

\* Steps of the two processors that keep them the same.
LEMMA ScratchSame ==
  ASSUME NEW r, NEW r2, NEW o, NEW v, Sets(r, r2, X17, v), Same(r, o)
  PROVE  Same(r2, o) /\ (SameLR(r, o) => SameLR(r2, o))
BY Regs, ZenonT(30) DEF Sets, Same, SameLR

\* The same value into the same register.
LEMMA BothSet ==
  ASSUME NEW r, NEW r2, NEW o, NEW o2, NEW g \in Registers, NEW v,
         Sets(r, r2, g, v), Sets(o, o2, g, v), Same(r, o), SameLR(r, o)
  PROVE  Same(r2, o2) /\ SameLR(r2, o2)
<1>1. r2.flags = o2.flags /\ r2.calls = o2.calls
  BY DEF Sets, Same
<1>2. ASSUME NEW h \in Registers \ {X17, LR}
      PROVE  r2.regs[h] = o2.regs[h]
  <2>1. CASE h = g
    BY <2>1 DEF Sets
  <2>2. CASE h # g
    BY <2>2 DEF Sets, Same
  <2> QED
    BY <2>1, <2>2
<1>3. SameLR(r2, o2)
  <2>1. CASE LR = g
    BY <2>1 DEF Sets, SameLR
  <2>2. CASE LR # g
    BY <2>2, Regs, ZenonT(30) DEF Sets, SameLR
  <2> QED
    BY <2>1, <2>2
<1> QED
  BY <1>1, <1>2, <1>3 DEF Same

\* A jump to the same address.
LEMMA BothJump ==
  ASSUME NEW r, NEW r2, NEW o, NEW o2, NEW a, NEW b, Jumps(r, r2, a), Jumps(o, o2, b),
         Same(r, o), SameLR(r, o)
  PROVE  Same(r2, o2) /\ SameLR(r2, o2)
BY DEF Jumps, Same, SameLR

\* The load of the literal.
LEMMA LoadAdvances ==
  ASSUME NEW inst, NEW pc, NEW p, NEW s, NEW d, NEW r, NEW o, AtWord(inst, pc, p, s, d, r, o),
         d + 1 = p.at, p.at < Len(p.words), inst.op = "BL" => p.at = 1,
         Conditional(inst) => p.at = 2
  PROVE  Advances(inst, pc, p, s, d, r, o)
<1>1. PICK w, r2 : w = code[s + d + 1] /\ r2 = Execute(w, r)
  OBVIOUS
<1>2. w.op # "data" /\ Sets(r, r2, X17, p.value)
  BY <1>1, WordRead, SMT
<1>3. s \in Nat /\ d \in Nat /\ DstAddr \in Nat /\ r.pc = DstAddr + (s + d)
  BY WordRead DEF AtWord
<1>4. r2 \in Machines /\ r2.pc = DstAddr + (s + (d + 1)) /\ r2.regs[X17] = p.value
  <2>1. r2 \in Machines /\ r2.pc = r.pc + 1 /\ r2.regs[X17] = p.value
    BY <1>2 DEF Sets
  <2> QED
    BY <1>3, <2>1, SMT
<1>5. Inside(inst, p, d, r, o)
  BY DEF AtWord
<1>6. Same(r2, o) /\ (SameLR(r, o) => SameLR(r2, o))
  BY <1>2, <1>5, ScratchSame DEF Inside
<1>7. ~(inst.op = "BL" /\ d = 2) /\ ~(inst.op = "BL" /\ d + 1 = 2) /\ (Conditional(inst) => d >= 1)
  BY <1>3, SMT
<1>8. Inside(inst, p, d + 1, r2, o)
  BY <1>4, <1>5, <1>6, <1>7 DEF Inside
<1>9. d + 1 < Len(p.words)
  OBVIOUS
<1> QED
  BY <1>1, <1>2, <1>4, <1>8, <1>9 DEF Advances

\* The branch through the scratch register.
LEMMA BranchAdvances ==
  ASSUME NEW inst, NEW pc, NEW p, NEW s, NEW d, NEW r, NEW o, AtWord(inst, pc, p, s, d, r, o),
         inst.op = "B" \/ Conditional(inst), p.value = pc + inst.imm,
         p.words[d + 1] = BR(17), d + 1 # p.at, p.at # 0, d >= p.at, d >= 1
  PROVE  Advances(inst, pc, p, s, d, r, o)
<1>1. PICK w, r2 : w = code[s + d + 1] /\ r2 = Execute(w, r)
  OBVIOUS
<1>2. w.op = "BR" /\ w.rn = 17
  BY <1>1, WordRead, SMT DEF BR
<1>3. Inside(inst, p, d, r, o) /\ r \in Machines /\ o \in Machines /\ p.value \in Int /\ o.pc = pc
  BY ValueInt DEF AtWord
<1>4. r.regs[X17] = p.value /\ Same(r, o) /\ SameLR(r, o)
  <2>1. ~(inst.op = "BL")
    BY SMT DEF Conditional
  <2> QED
    BY <1>3, <2>1 DEF Inside
<1>5. r2 = [r EXCEPT !.pc = r.regs[Reg(17, 0)]]
  BY <1>1, <1>2, SMT DEF Execute
<1>6. Jumps(r, r2, p.value)
  BY <1>3, <1>4, <1>5, JumpJumps, Regs
<1>7. Jumps(o, Execute(inst, o), p.value)
  <2>1. CASE inst.op = "B"
    <3>1. Execute(inst, o) = [o EXCEPT !.pc = o.pc + inst.imm]
      BY <2>1, SMT DEF Execute
    <3> QED
      BY <1>3, <3>1, JumpJumps
  <2>2. CASE Conditional(inst)
    BY <1>3, <2>2 DEF Inside
  <2> QED
    BY <2>1, <2>2
<1>8. PICK o2 : o2 = Execute(inst, o)
  OBVIOUS
<1>9. Same(r2, o2) /\ SameLR(r2, o2) /\ r2 \in Machines /\ o2 \in Machines
      /\ r2.pc = o2.pc /\ o2.pc = pc + inst.imm
  BY <1>4, <1>6, <1>7, <1>8, BothJump DEF Jumps
<1>10. Finished(inst, pc, p, s, r2, o2)
  BY <1>9 DEF Finished
<1>11. w.op # "data"
  BY <1>2
<1> QED
  BY <1>1, <1>8, <1>9, <1>10, <1>11 DEF Advances

\* A last word that puts the same value into the same register.
LEMMA SetAdvances ==
  ASSUME NEW inst, NEW pc, NEW p, NEW s, NEW d, NEW r, NEW o, AtWord(inst, pc, p, s, d, r, o),
         inst.op # "BL", NEW g \in Registers, NEW v, d + 1 = Len(p.words),
         code[s + d + 1].op # "data", Sets(r, Execute(code[s + d + 1], r), g, v),
         Sets(o, Execute(inst, o), g, v)
  PROVE  Advances(inst, pc, p, s, d, r, o)
<1>1. PICK w, r2, o2 : w = code[s + d + 1] /\ r2 = Execute(w, r) /\ o2 = Execute(inst, o)
  OBVIOUS
<1>2. Sets(r, r2, g, v) /\ Sets(o, o2, g, v)
  BY <1>1
<1>3. Same(r, o) /\ SameLR(r, o) /\ o.pc = pc /\ r.pc = DstAddr + (s + d)
  BY DEF AtWord, Inside
<1>4. s \in Nat /\ d \in Nat /\ DstAddr \in Nat
  BY WordRead
<1>5. Same(r2, o2) /\ SameLR(r2, o2)
  BY <1>2, <1>3, BothSet
<1>6. r2 \in Machines /\ o2 \in Machines /\ r2.pc = r.pc + 1 /\ o2.pc = pc + 1
  BY <1>2, <1>3 DEF Sets
<1>7. r2.pc = DstAddr + (s + Len(p.words))
  BY <1>3, <1>4, <1>6, SMT
<1> QED
  BY <1>1, <1>5, <1>6, <1>7 DEF Advances, Finished
-----------------------------------------------------------------------------
(* One step, instruction by instruction *)

\* B: the literal is the target.
LEMMA RunB ==
  ASSUME NEW inst, NEW pc, NEW p, NEW s, NEW d, NEW r, NEW o, AtWord(inst, pc, p, s, d, r, o),
         inst.op = "B"
  PROVE  Advances(inst, pc, p, s, d, r, o)
<1>1. p = Piece(<<LdrX17, BR(17)>>, 1, pc + inst.imm)
  BY Rewritten DEF AtWord
<1>2. p.words = <<LdrX17, BR(17)>> /\ p.at = 1 /\ p.value = pc + inst.imm
  BY <1>1, PieceFields, SMT
<1>3. Len(p.words) = 2 /\ p.words[2] = BR(17)
  BY <1>2, SMT
<1>4. d = 0 \/ d = 1
  <2>1. d \in 0..2 - 1
    BY <1>3 DEF AtWord
  <2> QED
    BY <2>1, SMT
<1>5. CASE d = 0
  <2>1. d + 1 = p.at /\ p.at < Len(p.words) /\ p.at = 1 /\ ~Conditional(inst)
    BY <1>2, <1>3, <1>5, SMT DEF Conditional
  <2> QED
    BY <2>1, LoadAdvances
<1>6. CASE d = 1
  <2>1. d + 1 = 2 /\ d + 1 # p.at /\ p.at # 0 /\ d >= p.at /\ d >= 1
    BY <1>2, <1>6, SMT
  <2>2. p.words[d + 1] = BR(17)
    BY <1>3, <2>1
  <2> QED
    BY <1>2, <2>1, <2>2, BranchAdvances
<1> QED
  BY <1>4, <1>5, <1>6

\* BL: the call returns behind the piece.
LEMMA RunBL ==
  ASSUME NEW inst, NEW pc, NEW p, NEW s, NEW d, NEW r, NEW o, AtWord(inst, pc, p, s, d, r, o),
         inst.op = "BL"
  PROVE  Advances(inst, pc, p, s, d, r, o)
<1>1. p = Piece(<<LdrX17, MOV(30, 17), BLR(30)>>, 1, pc + inst.imm)
  BY Rewritten DEF AtWord
<1>2. p.words = <<LdrX17, MOV(30, 17), BLR(30)>> /\ p.at = 1 /\ p.value = pc + inst.imm
  BY <1>1, PieceFields, SMT
<1>3. Len(p.words) = 3 /\ p.words[2] = MOV(30, 17) /\ p.words[3] = BLR(30)
  BY <1>2, SMT
<1>4. d = 0 \/ d = 1 \/ d = 2
  <2>1. d \in 0..3 - 1
    BY <1>3 DEF AtWord
  <2> QED
    BY <2>1, SMT
<1>5. r \in Machines /\ o \in Machines /\ p.value \in Int /\ o.pc = pc /\ Inside(inst, p, d, r, o)
      /\ s \in Nat /\ DstAddr \in Nat /\ r.pc = DstAddr + (s + d)
  BY ValueInt, WordRead DEF AtWord
<1>6. ~Conditional(inst)
  BY DEF Conditional
<1>7. CASE d = 0
  <2>1. d + 1 = p.at /\ p.at < Len(p.words) /\ p.at = 1 /\ ~Conditional(inst)
    BY <1>2, <1>3, <1>6, <1>7, SMT
  <2> QED
    BY <2>1, LoadAdvances
<1>8. CASE d = 1
  <2>1. d + 1 = 2 /\ d + 1 # p.at /\ p.at # 0 /\ d >= p.at
    BY <1>2, <1>8, SMT
  <2>2. PICK w, r2 : w = code[s + d + 1] /\ r2 = Execute(w, r)
    OBVIOUS
  <2>3. w = MOV(30, 17)
    BY <1>3, <2>1, <2>2, WordRead, SMT
  <2>4. w.op = "MOV" /\ w.rd = 30 /\ w.rn = 17
    BY <2>3 DEF MOV
  <2>5. r2 = Set(r, LR, r.regs[X17])
    BY <2>2, <2>4, SMT DEF Execute, X17, LR
  <2>6. r.regs[X17] = p.value /\ Same(r, o)
    BY <1>5, <2>1 DEF Inside
  <2>7. Sets(r, r2, LR, p.value)
    BY <1>5, <2>5, <2>6, SetSets, Regs
  <2>8. r2 \in Machines /\ r2.regs[LR] = p.value /\ r2.regs[X17] = p.value /\ r2.pc = r.pc + 1
    BY <2>6, <2>7, Regs DEF Sets
  <2>9. Same(r2, o)
    BY <2>6, <2>7 DEF Same, Sets
  <2>10. r2.pc = DstAddr + (s + (d + 1)) /\ d + 1 < Len(p.words)
    BY <1>3, <1>5, <1>8, <2>8, SMT
  <2>11. Inside(inst, p, d + 1, r2, o)
    BY <1>6, <2>1, <2>8, <2>9 DEF Inside
  <2>12. w.op # "data"
    BY <2>4
  <2> QED
    BY <2>2, <2>8, <2>10, <2>11, <2>12 DEF Advances
<1>9. CASE d = 2
  <2>1. d + 1 = 3 /\ d + 1 # p.at
    BY <1>2, <1>9, SMT
  <2>2. PICK w, r2, o2 : w = code[s + d + 1] /\ r2 = Execute(w, r) /\ o2 = Execute(inst, o)
    OBVIOUS
  <2>3. w = BLR(30)
    BY <1>3, <2>1, <2>2, WordRead, SMT
  <2>4. w.op = "BLR" /\ w.rn = 30
    BY <2>3 DEF BLR
  <2>5. r2 = CallTo(r, r.regs[LR])
    BY <2>2, <2>4, SMT DEF Execute, LR
  <2>6. r.regs[LR] = p.value /\ Same(r, o)
    BY <1>5, <1>9, ZenonT(30) DEF Inside
  <2>7. o2 = CallTo(o, p.value)
    BY <1>2, <1>5, <2>2, SMTT(30) DEF Execute
  <2>8. Called(r, r2, p.value) /\ Called(o, o2, p.value)
    BY <1>5, <2>5, <2>6, <2>7, CallCalls
  <2>9. Same(r2, o2)
    <3>1. r2.flags = o2.flags /\ r2.calls = o2.calls
      BY <2>6, <2>8 DEF Called, Same
    <3>2. \A h \in Registers \ {X17, LR} : r2.regs[h] = o2.regs[h]
      BY <2>6, <2>8 DEF Called, Same
    <3> QED
      BY <3>1, <3>2 DEF Same
  <2>10. SameLR(r2, o2)
    <3>1. o2.calls = Append(o.calls, p.value) /\ o.calls \in Seq(Int)
      BY <1>5, <2>8 DEF Called, Machines
    <3>2. o2.calls # <<>>
      BY <1>5, <3>1, AppendProperties, EmptySeq, SMTT(30)
    <3> QED
      BY <3>2 DEF SameLR
  <2>11. r2 \in Machines /\ o2 \in Machines /\ r2.pc = r.pc + 1 /\ o2.pc = pc + 1
    BY <1>5, <2>8 DEF Called
  <2>12. r2.pc = DstAddr + (s + Len(p.words))
    BY <1>3, <1>5, <1>9, <2>11, SMT
  <2>13. w.op # "data"
    BY <2>4
  <2> QED
    BY <2>2, <2>9, <2>10, <2>11, <2>12, <2>13 DEF Advances, Finished
<1> QED
  BY <1>4, <1>7, <1>8, <1>9

\* The conditions of a pair exclude each other.
LEMMA InvertedHolds ==
  ASSUME NEW cond \in 0..13, NEW flags \in [0..6 -> BOOLEAN]
  PROVE  Holds(InvertCond(cond), flags) <=> ~Holds(cond, flags)
<1>1. PICK c : c = InvertCond(cond)
  OBVIOUS
<1>2. /\ c \in 0..13 /\ c \div 2 = cond \div 2 /\ cond \div 2 \in 0..6
      /\ (c % 2 = 0) <=> ~(cond % 2 = 0)
  BY <1>1, SMT DEF InvertCond
<1>3. ~(c \in {14, 15}) /\ ~(cond \in {14, 15})
  BY <1>2, SMT
<1>4. flags[cond \div 2] \in BOOLEAN
  BY <1>2
<1> QED
  BY <1>1, <1>2, <1>3, <1>4 DEF Holds

\* The inverted branch is taken when the branch is not.
LEMMA Opposite ==
  ASSUME NEW inst \in Relocatable, Conditional(inst), NEW r \in Machines, NEW o \in Machines,
         Same(r, o)
  PROVE  /\ Inverted(inst).op # "data"
         /\ \E b \in BOOLEAN : /\ Execute(Inverted(inst), r) = BranchIf(r, ~b, 3)
                               /\ Execute(inst, o) = BranchIf(o, b, inst.imm)
<1>1. PICK w : w = Inverted(inst)
  OBVIOUS
<1>2. CASE inst.op = "BCond"
  <2>1. inst \in [op : {"BCond"}, cond : 0..13, imm : Int]
    BY <1>2, Fields
  <2>2. w.op = "BCond" /\ w.cond = InvertCond(inst.cond) /\ w.imm = 3
    BY <1>1, <1>2, <2>1, SMT DEF Inverted
  <2>3. inst.cond \in 0..13 /\ o.flags \in [0..6 -> BOOLEAN] /\ r.flags = o.flags
    BY <2>1 DEF Same, Machines
  <2>4. PICK b \in BOOLEAN : b = Holds(inst.cond, o.flags)
    BY DEF Holds
  <2>5. PICK nb \in BOOLEAN : nb = Holds(w.cond, r.flags)
    BY DEF Holds
  <2>6. nb = ~b
    BY <2>2, <2>3, <2>4, <2>5, InvertedHolds
  <2>7. Execute(w, r) = BranchIf(r, nb, 3)
    BY <2>2, <2>5, SMTT(30) DEF Execute
  <2>8. Execute(inst, o) = BranchIf(o, b, inst.imm)
    BY <1>2, <2>4, SMT DEF Execute
  <2>9. w.op # "data"
    BY <2>2
  <2> QED
    BY <1>1, <2>6, <2>7, <2>8, <2>9
<1>3. ASSUME inst.op \in {"CB", "TB"}
      PROVE  /\ w.op = inst.op /\ w.rt = inst.rt /\ w.neg = ~inst.neg /\ w.imm = 3
             /\ inst.neg \in BOOLEAN /\ r.regs[Reg(inst.rt, 0)] = o.regs[Reg(inst.rt, 0)]
  <2>1. inst \in [op : {"CB", "TB"}, neg : BOOLEAN, rt : XRegs \ {17, 30}, imm : Int]
    BY <1>3, Fields
  <2>2. inst.op # "BCond"
    BY <1>3
  <2>3. w = [inst EXCEPT !.neg = ~inst.neg, !.imm = 3]
    BY <1>1, <2>2 DEF Inverted
  <2>4. w.op = inst.op /\ w.rt = inst.rt /\ w.imm = 3
    BY <2>1, <2>3, SMT
  <2>5. w.neg = ~inst.neg
    BY <2>1, <2>3
  <2>6. Reg(inst.rt, 0) \in Registers \ {X17, LR}
    BY <2>1, Regs
  <2>7. inst.neg \in BOOLEAN
    BY <2>1
  <2> QED
    BY <2>4, <2>5, <2>6, <2>7 DEF Same
<1>4. CASE inst.op = "CB"
  <2>1. PICK x : x = o.regs[Reg(inst.rt, 0)]
    OBVIOUS
  <2>2. PICK b \in BOOLEAN : b = ((x = 0) # inst.neg)
    OBVIOUS
  <2>3. PICK nb \in BOOLEAN : nb = ((x = 0) # w.neg)
    OBVIOUS
  <2>4. nb = ~b
    BY <1>3, <1>4, <2>2, <2>3
  <2>5. Execute(w, r) = BranchIf(r, (r.regs[Reg(w.rt, 0)] = 0) # w.neg, w.imm)
    BY <1>3, <1>4, SMTT(30) DEF Execute
  <2>6. Execute(inst, o) = BranchIf(o, (o.regs[Reg(inst.rt, 0)] = 0) # inst.neg, inst.imm)
    BY <1>4, SMT DEF Execute
  <2>7. Execute(w, r) = BranchIf(r, ~b, 3)
    BY <1>3, <1>4, <2>1, <2>3, <2>4, <2>5
  <2>8. w.op # "data"
    BY <1>3, <1>4
  <2> QED
    BY <1>1, <2>1, <2>2, <2>6, <2>7, <2>8
<1>5. CASE inst.op = "TB"
  <2>1. PICK x : x = o.regs[Reg(inst.rt, 0)]
    OBVIOUS
  <2>2. PICK b \in BOOLEAN : b = ((x % 2 = 0) # inst.neg)
    OBVIOUS
  <2>3. PICK nb \in BOOLEAN : nb = ((x % 2 = 0) # w.neg)
    OBVIOUS
  <2>4. nb = ~b
    BY <1>3, <1>5, <2>2, <2>3
  <2>5. Execute(w, r) = BranchIf(r, (r.regs[Reg(w.rt, 0)] % 2 = 0) # w.neg, w.imm)
    BY <1>3, <1>5, SMTT(30) DEF Execute
  <2>6. Execute(inst, o) = BranchIf(o, (o.regs[Reg(inst.rt, 0)] % 2 = 0) # inst.neg, inst.imm)
    BY <1>5, SMT DEF Execute
  <2>7. Execute(w, r) = BranchIf(r, ~b, 3)
    BY <1>3, <1>5, <2>1, <2>3, <2>4, <2>5
  <2>8. w.op # "data"
    BY <1>3, <1>5
  <2> QED
    BY <1>1, <2>1, <2>2, <2>6, <2>7, <2>8
<1> QED
  BY <1>2, <1>4, <1>5 DEF Conditional

\* B.cond, CBZ/CBNZ, TBZ/TBNZ: the inverted branch skips the long one.
LEMMA RunConditional ==
  ASSUME NEW inst, NEW pc, NEW p, NEW s, NEW d, NEW r, NEW o, AtWord(inst, pc, p, s, d, r, o),
         Conditional(inst)
  PROVE  Advances(inst, pc, p, s, d, r, o)
<1>1. p = Piece(<<Inverted(inst), LdrX17, BR(17)>>, 2, pc + inst.imm)
  BY Rewritten DEF AtWord, Conditional
<1>2. p.words = <<Inverted(inst), LdrX17, BR(17)>> /\ p.at = 2 /\ p.value = pc + inst.imm
  BY <1>1, PieceFields, SMT
<1>3. Len(p.words) = 3 /\ p.words[1] = Inverted(inst) /\ p.words[3] = BR(17)
  BY <1>2, SMT
<1>4. d = 0 \/ d = 1 \/ d = 2
  <2>1. d \in 0..3 - 1
    BY <1>3 DEF AtWord
  <2> QED
    BY <2>1, SMT
<1>5. r \in Machines /\ o \in Machines /\ p.value \in Int /\ o.pc = pc /\ Inside(inst, p, d, r, o)
      /\ s \in Nat /\ DstAddr \in Nat /\ r.pc = DstAddr + (s + d) /\ inst \in Relocatable
      /\ pc \in Int
  BY ValueInt, WordRead DEF AtWord
<1>6. inst.op # "BL"
  BY SMT DEF Conditional
<1>7. CASE d = 0
  <2>1. d + 1 = 1 /\ d + 1 # p.at /\ ~(d + 1 >= p.at)
    BY <1>2, <1>7, SMT
  <2>2. PICK w, r2, o2 : w = code[s + d + 1] /\ r2 = Execute(w, r) /\ o2 = Execute(inst, o)
    OBVIOUS
  <2>3. w = Inverted(inst)
    BY <1>3, <2>1, <2>2, WordRead, SMT
  <2>4. Same(r, o) /\ SameLR(r, o)
    BY <1>5, <1>6 DEF Inside
  <2>5. PICK b \in BOOLEAN : /\ r2 = BranchIf(r, ~b, 3)
                             /\ o2 = BranchIf(o, b, inst.imm)
    <3>1. \E b \in BOOLEAN : /\ Execute(Inverted(inst), r) = BranchIf(r, ~b, 3)
                            /\ Execute(inst, o) = BranchIf(o, b, inst.imm)
      BY <1>5, <2>4, Opposite
    <3> QED
      BY <2>2, <2>3, <3>1
  <2>6. w.op # "data"
    BY <1>5, <2>3, <2>4, Opposite
  <2>7. r.pc + 1 \in Int /\ r.pc + 3 \in Int /\ pc + 1 \in Int
    <3>1. r.pc \in Int
      BY WordRead
    <3> QED
      BY <1>5, <3>1, SMT
  <2>8. CASE b
    <3>1. r2 = [r EXCEPT !.pc = r.pc + 1] /\ o2 = [o EXCEPT !.pc = p.value]
      BY <1>2, <1>5, <2>5, <2>8 DEF BranchIf
    <3>2. Jumps(r, r2, r.pc + 1) /\ Jumps(o, o2, p.value)
      BY <1>5, <2>7, <3>1, JumpJumps
    <3>3. Same(r2, o) /\ SameLR(r2, o) /\ r2 \in Machines /\ r2.pc = r.pc + 1
      BY <2>4, <3>2 DEF Jumps, Same, SameLR
    <3>4. Inside(inst, p, d + 1, r2, o)
      BY <1>6, <2>1, <2>2, <3>2, <3>3 DEF Inside
    <3>5. r2.pc = DstAddr + (s + (d + 1)) /\ d + 1 < Len(p.words)
      BY <1>3, <1>5, <1>7, <3>3, SMT
    <3> QED
      BY <2>2, <2>6, <3>3, <3>4, <3>5 DEF Advances
  <2>9. CASE ~b
    <3>1. r2 = [r EXCEPT !.pc = r.pc + 3] /\ o2 = [o EXCEPT !.pc = pc + 1]
      BY <1>5, <2>5, <2>9 DEF BranchIf
    <3>2. Jumps(r, r2, r.pc + 3) /\ Jumps(o, o2, pc + 1)
      BY <1>5, <2>7, <3>1, JumpJumps
    <3>3. Same(r2, o2) /\ SameLR(r2, o2)
      BY <2>4, <3>2, BothJump
    <3>4. r2 \in Machines /\ o2 \in Machines /\ r2.pc = r.pc + 3 /\ o2.pc = pc + 1
      BY <3>2 DEF Jumps
    <3>5. r2.pc = DstAddr + (s + Len(p.words))
      BY <1>3, <1>5, <1>7, <3>4, SMT
    <3> QED
      BY <2>2, <2>6, <3>3, <3>4, <3>5 DEF Advances, Finished
  <2> QED
    BY <2>8, <2>9
<1>8. CASE d = 1
  <2>1. d + 1 = p.at /\ p.at < Len(p.words) /\ p.at = 2
    BY <1>2, <1>3, <1>8, SMT
  <2> QED
    BY <1>6, <2>1, LoadAdvances
<1>9. CASE d = 2
  <2>1. d + 1 = 3 /\ d + 1 # p.at /\ p.at # 0 /\ d >= p.at /\ d >= 1
    BY <1>2, <1>9, SMT
  <2>2. p.words[d + 1] = BR(17)
    BY <1>3, <2>1
  <2> QED
    BY <1>2, <2>1, <2>2, BranchAdvances
<1> QED
  BY <1>4, <1>7, <1>8, <1>9

\* LDR (literal): the address of the literal, then the load from it.
LEMMA RunLdrLit ==
  ASSUME NEW inst, NEW pc, NEW p, NEW s, NEW d, NEW r, NEW o, AtWord(inst, pc, p, s, d, r, o),
         inst.op = "LdrLit"
  PROVE  Advances(inst, pc, p, s, d, r, o)
<1>1. inst.v = 0 /\ inst.opc \in {0, 1} /\ inst.rt \in XRegs /\ inst.imm \in Int
  BY Fields DEF AtWord
<1>2. p = Piece(<<LdrX17, LdrReg(inst.rt, 17, inst.opc)>>, 1, pc + inst.imm)
  BY <1>1, Rewritten DEF AtWord
<1>3. p.words = <<LdrX17, LdrReg(inst.rt, 17, inst.opc)>> /\ p.at = 1 /\ p.value = pc + inst.imm
  BY <1>2, PieceFields, SMT
<1>4. Len(p.words) = 2 /\ p.words[2] = LdrReg(inst.rt, 17, inst.opc)
  BY <1>3, SMT
<1>5. d = 0 \/ d = 1
  <2>1. d \in 0..2 - 1
    BY <1>4 DEF AtWord
  <2> QED
    BY <2>1, SMT
<1>6. CASE d = 0
  <2>1. d + 1 = p.at /\ p.at < Len(p.words) /\ p.at = 1 /\ ~Conditional(inst)
    BY <1>3, <1>4, <1>6, SMT DEF Conditional
  <2> QED
    BY <2>1, LoadAdvances
<1>7. CASE d = 1
  <2>1. d + 1 = 2 /\ d + 1 # p.at /\ p.at # 0 /\ d >= p.at
    BY <1>3, <1>7, SMT
  <2>2. PICK w, v, g : /\ w = code[s + d + 1] /\ v = Memory(pc + inst.imm, inst.opc)
                       /\ g = Reg(inst.rt, 0)
    OBVIOUS
  <2>3. w = LdrReg(inst.rt, 17, inst.opc)
    BY <1>4, <2>1, <2>2, WordRead, SMT
  <2>4. w.op = "LdrReg" /\ w.rt = inst.rt /\ w.rn = 17 /\ w.opc = inst.opc
    BY <2>3 DEF LdrReg
  <2>5. r.regs[X17] = pc + inst.imm
    BY <1>3, <2>1 DEF AtWord, Inside
  <2>6. r \in Machines /\ o \in Machines /\ o.pc = pc /\ pc \in Int
    BY DEF AtWord
  <2>7. v \in Int
    <3>1. v = (pc + inst.imm) + 1000 * (inst.opc + 1)
      BY <2>2 DEF Memory, AtWord
    <3> QED
      BY <1>1, <2>6, <3>1, SMTT(30)
  <2>8. Execute(w, r) = Set(r, g, v)
    BY <2>2, <2>4, <2>5, SMTT(30) DEF Execute, X17
  <2>9. Execute(inst, o) = Set(o, g, v)
    BY <1>1, <2>2, <2>6, SMT DEF Execute
  <2>10. g \in Registers
    BY <1>1, <2>2, Regs
  <2>11. Sets(r, Execute(w, r), g, v) /\ Sets(o, Execute(inst, o), g, v)
    BY <2>6, <2>7, <2>8, <2>9, <2>10, SetSets
  <2>12. w.op # "data" /\ inst.op # "BL" /\ d + 1 = Len(p.words)
    BY <1>4, <2>1, <2>4
  <2> QED
    BY <2>2, <2>10, <2>11, <2>12, SetAdvances
<1> QED
  BY <1>5, <1>6, <1>7

\* ADR and ADRP: the address is the literal, and the scratch register is moved.
LEMMA RunAdr ==
  ASSUME NEW inst, NEW pc, NEW p, NEW s, NEW d, NEW r, NEW o, AtWord(inst, pc, p, s, d, r, o),
         inst.op \in {"ADR", "ADRP"}
  PROVE  Advances(inst, pc, p, s, d, r, o)
<1>1. inst.rt \in XRegs /\ r \in Machines /\ o \in Machines /\ o.pc = pc /\ p.value \in Int
  BY Fields, ValueInt DEF AtWord
<1>2. PICK v : /\ p = Piece(<<LdrX17, MOV(inst.rt, 17)>>, 1, v)
               /\ Execute(inst, o) = Set(o, Reg(inst.rt, 0), v)
  <2>1. CASE inst.op = "ADR"
    <3>1. p = Piece(<<LdrX17, MOV(inst.rt, 17)>>, 1, pc + inst.imm)
      BY <2>1, Rewritten DEF AtWord
    <3>2. Execute(inst, o) = Set(o, Reg(inst.rt, 0), pc + inst.imm)
      BY <1>1, <2>1, SMT DEF Execute
    <3> QED
      BY <3>1, <3>2
  <2>2. CASE inst.op = "ADRP"
    <3>1. p = Piece(<<LdrX17, MOV(inst.rt, 17)>>, 1, Page(pc) + inst.imm * PageSize)
      BY <2>2, Rewritten DEF AtWord
    <3>2. Execute(inst, o) = Set(o, Reg(inst.rt, 0), Page(pc) + inst.imm * PageSize)
      BY <1>1, <2>2, SMTT(30) DEF Execute
    <3> QED
      BY <3>1, <3>2
  <2> QED
    BY <2>1, <2>2
<1>3. p.words = <<LdrX17, MOV(inst.rt, 17)>> /\ p.at = 1 /\ p.value = v
  BY <1>2, PieceFields, SMT
<1>4. Len(p.words) = 2 /\ p.words[2] = MOV(inst.rt, 17)
  BY <1>3, SMT
<1>5. d = 0 \/ d = 1
  <2>1. d \in 0..2 - 1
    BY <1>4 DEF AtWord
  <2> QED
    BY <2>1, SMT
<1>6. CASE d = 0
  <2>1. d + 1 = p.at /\ p.at < Len(p.words) /\ p.at = 1 /\ ~Conditional(inst)
    BY <1>3, <1>4, <1>6, SMT DEF Conditional
  <2> QED
    BY <2>1, LoadAdvances
<1>7. CASE d = 1
  <2>1. d + 1 = 2 /\ d + 1 # p.at /\ p.at # 0 /\ d >= p.at
    BY <1>3, <1>7, SMT
  <2>2. PICK w, g : w = code[s + d + 1] /\ g = Reg(inst.rt, 0)
    OBVIOUS
  <2>3. w = MOV(inst.rt, 17)
    BY <1>4, <2>1, <2>2, WordRead, SMT
  <2>4. w.op = "MOV" /\ w.rd = inst.rt /\ w.rn = 17
    BY <2>3 DEF MOV
  <2>5. r.regs[X17] = v
    BY <1>3, <2>1 DEF AtWord, Inside
  <2>6. Execute(w, r) = Set(r, g, v)
    BY <2>2, <2>4, <2>5, SMTT(30) DEF Execute, X17
  <2>7. g \in Registers
    BY <1>1, <2>2, Regs
  <2>8. Sets(r, Execute(w, r), g, v) /\ Sets(o, Execute(inst, o), g, v)
    BY <1>1, <1>2, <1>3, <2>2, <2>6, <2>7, SetSets
  <2>9. w.op # "data" /\ inst.op # "BL" /\ d + 1 = Len(p.words)
    BY <1>4, <2>1, <2>4
  <2> QED
    BY <2>2, <2>7, <2>8, <2>9, SetAdvances
<1> QED
  BY <1>5, <1>6, <1>7

\* ADD: the instruction itself is copied.
LEMMA RunAdd ==
  ASSUME NEW inst, NEW pc, NEW p, NEW s, NEW d, NEW r, NEW o, AtWord(inst, pc, p, s, d, r, o),
         inst.op = "ADD"
  PROVE  Advances(inst, pc, p, s, d, r, o)
<1>1. inst.rt \in XRegs \ {17, 30} /\ r \in Machines /\ o \in Machines /\ Same(r, o)
  <2>1. inst \in Relocatable /\ r \in Machines /\ o \in Machines /\ Same(r, o)
    BY DEF AtWord, Inside
  <2> QED
    BY <2>1, Fields
<1>2. p = Piece(<<inst>>, 0, 0)
  BY Rewritten, ZenonT(30) DEF AtWord
<1>3. p.words = <<inst>> /\ p.at = 0
  BY <1>2, PieceFields, SMT
<1>4. Len(p.words) = 1 /\ p.words[1] = inst
  BY <1>3, SMT
<1>5. d = 0
  <2>1. d \in 0..1 - 1
    BY <1>4 DEF AtWord
  <2> QED
    BY <2>1, SMT
<1>6. d + 1 = 1 /\ d + 1 # p.at
  BY <1>3, <1>5, SMT
<1>7. PICK w, g : w = code[s + d + 1] /\ g = Reg(inst.rt, 0)
  OBVIOUS
<1>8. w = inst
  BY <1>4, <1>6, <1>7, WordRead, SMT
<1>9. g \in Registers \ {X17, LR}
  BY <1>1, <1>7, Regs
<1>10. r.regs[g] = o.regs[g]
  BY <1>1, <1>9 DEF Same
<1>11. o.regs[g] + 1 \in Int
  <2>1. o.regs \in [Registers -> Int]
    BY <1>1 DEF Machines
  <2>2. o.regs[g] \in Int
    BY <1>9, <2>1
  <2> QED
    BY <2>2, SMT
<1>12. Execute(w, r) = Set(r, g, o.regs[g] + 1) /\ Execute(inst, o) = Set(o, g, o.regs[g] + 1)
  BY <1>7, <1>8, <1>10, SMT DEF Execute
<1>13. Sets(r, Execute(w, r), g, o.regs[g] + 1) /\ Sets(o, Execute(inst, o), g, o.regs[g] + 1)
  BY <1>1, <1>9, <1>11, <1>12, SetSets
<1>14. w.op # "data" /\ inst.op # "BL" /\ d + 1 = Len(p.words)
  BY <1>4, <1>6, <1>8
<1> QED
  BY <1>7, <1>9, <1>13, <1>14, SetAdvances

\* Whatever the instruction.
LEMMA Runs ==
  ASSUME NEW inst, NEW pc, NEW p, NEW s, NEW d, NEW r, NEW o, AtWord(inst, pc, p, s, d, r, o)
  PROVE  Advances(inst, pc, p, s, d, r, o)
<1>1. inst.op \in {"B", "BL", "BCond", "CB", "TB", "LdrLit", "ADR", "ADRP", "ADD"}
  BY Fields DEF AtWord
<1>2. CASE inst.op \in {"BCond", "CB", "TB"}
  BY <1>2, RunConditional DEF Conditional
<1> QED
  BY <1>1, <1>2, RunB, RunBL, RunLdrLit, RunAdr, RunAdd
-----------------------------------------------------------------------------
(* The code is what the pieces say *)

Types ==
    /\ count \in Sizes /\ prog \in Seq(Insts) /\ Len(prog) <= count /\ starts \in Seq(Nat)
    /\ \E S : orig \in Seq(S)

\* While the code is written, and when it is complete.
Building ==
    /\ code \in Seq(Words) /\ labels \in Seq(Labels)
    /\ Len(code) + 2 * Len(labels) <= 5 * Len(prog)
    /\ \A l \in 1..Len(labels) : labels[l].at <= Len(code)
    /\ Len(starts) = Len(prog) + 1 /\ starts[1] = 0 /\ starts[Len(prog) + 1] = Len(code)
    /\ \A k \in 1..Len(prog) : /\ Placed(PieceOf(k), starts[k], code, labels)
                               /\ starts[k + 1] = starts[k] + Len(PieceOf(k).words)
Built ==
    /\ Len(prog) = count /\ starts[1] = 0
    /\ DOMAIN code = 1..Len(code) /\ Len(code) \in Nat /\ Len(code) <= 5 * Len(prog) + 6
    /\ \A k \in 1..Len(prog) + 1 : Ready(PieceOf(k), starts[k], code)
    /\ \A k \in 1..Len(prog) : starts[k + 1] = starts[k] + Len(PieceOf(k).words)

CodeInv == Types /\ (~Running => Building) /\ (Running => Built)

\* The branch back is the piece of a B, of offset 0, behind the instructions.
LEMMA BackPiece ==
  ASSUME NEW n \in Nat
  PROVE  Relocate(Back, SrcAddr + n) = EmitLdrX17Branch(SrcAddr + n)
<1>1. Back.op = "B" /\ Back.imm = 0
  BY DEF Back
<1>2. SrcAddr + n + 0 = SrcAddr + n
  BY RelocatorAssumption, SMT
<1>3. Relocate(Back, SrcAddr + n) = Piece(<<LdrX17, BR(17)>>, 1, SrcAddr + n)
  BY <1>1, <1>2, Rewritten, ZenonT(30)
<1> QED
  BY <1>3 DEF EmitLdrX17Branch

\* Every piece is well formed.
LEMMA Pieces ==
  ASSUME prog \in Seq(Insts), NEW k \in 1..Len(prog) + 1
  PROVE  WellFormed(PieceOf(k))
<1>1. PICK n \in Nat : n = k - 1
  BY SMT
<1>2. CASE k <= Len(prog)
  <2>1. InstOf(k) \in Insts
    <3>1. k \in 1..Len(prog)
      BY <1>2, SMT
    <3> QED
      BY <1>2, <3>1, SMT DEF InstOf
  <2> QED
    BY <1>1, <2>1, PieceWellFormed DEF PieceOf
<1>3. CASE ~(k <= Len(prog))
  BY <1>1, <1>3, BackPiece, BackWellFormed DEF PieceOf, InstOf
<1> QED
  BY <1>2, <1>3

\* Nothing is relocated yet.
LEMMA CodeInitial == Init => CodeInv
<1> SUFFICES ASSUME Init PROVE CodeInv
  OBVIOUS
<1>1. Len(prog) = 0 /\ Len(code) = 0 /\ Len(labels) = 0 /\ Len(starts) = 1 /\ starts[1] = 0
  BY DEF Init
<1>2. prog \in Seq(Insts) /\ code \in Seq(Words) /\ labels \in Seq(Labels) /\ starts \in Seq(Nat)
  BY SMT DEF Init
<1>3. Types
  <2>1. orig \in Seq({})
    BY SMT DEF Init
  <2>2. 0 <= count /\ count \in Sizes
    BY RelocatorAssumption, SMT DEF Init
  <2> QED
    BY <1>1, <1>2, <2>1, <2>2 DEF Types
<1>4. ~Running
  BY DEF Init, Running
<1>5. Building
  BY <1>1, <1>2, SMT DEF Building
<1> QED
  BY <1>3, <1>4, <1>5 DEF CodeInv

\* One pass of the loop places one more piece.
LEMMA CodeRelocateOne ==
  ASSUME CodeInv, NEW inst \in Insts, RelocateOne(inst)
  PROVE  CodeInv'
<1>1. PICK p : p = Relocate(inst, SrcAddr + Len(prog))
  OBVIOUS
<1>2. /\ Len(prog) < count /\ prog' = Append(prog, inst) /\ code' = code \o p.words
      /\ labels' = PlaceDataLabel(p) /\ starts' = Append(starts, Len(code'))
      /\ count' = count /\ orig' = orig /\ reloc' = reloc
  BY <1>1 DEF RelocateOne
<1>3. PICK n \in Nat : n = Len(prog)
  BY SMT DEF CodeInv, Types
<1>4. /\ count \in Nat /\ prog \in Seq(Insts) /\ starts \in Seq(Nat)
  BY RelocatorAssumption DEF CodeInv, Types
<1>5. ~Running
  BY <1>2, <1>3, <1>4, SMT DEF CodeInv, Built
<1>6. Building
  BY <1>5 DEF CodeInv
<1>7. WellFormed(p)
  BY <1>1, <1>3, PieceWellFormed
<1>8. /\ code' \in Seq(Words) /\ labels' \in Seq(Labels)
      /\ Len(code') = Len(code) + Len(p.words)
      /\ Len(code') + 2 * Len(labels') <= Len(code) + 2 * Len(labels) + 5
      /\ \A l \in 1..Len(labels') : labels'[l].at <= Len(code')
      /\ Placed(p, Len(code), code', labels')
      /\ \A q, s : WellFormed(q) /\ Placed(q, s, code, labels) => Placed(q, s, code', labels')
  <2>1. PICK c, labs : c = code \o p.words /\ labs = PlaceDataLabel(p)
    OBVIOUS
  <2>2. code \in Seq(Words) /\ labels \in Seq(Labels)
        /\ \A l \in 1..Len(labels) : labels[l].at <= Len(code)
    BY <1>6 DEF Building
  <2>3. c = code' /\ labs = labels'
    BY <1>2, <2>1
  <2> QED
    BY <1>7, <2>1, <2>2, <2>3, Emits
<1>9. /\ prog' \in Seq(Insts) /\ Len(prog') = n + 1 /\ prog'[n + 1] = inst
      /\ \A k \in 1..n : prog'[k] = prog[k]
  BY <1>2, <1>3, <1>4, AppendProperties, SMT
<1>10. Len(code') \in Nat /\ Len(code) \in Nat /\ Len(labels) \in Nat /\ Len(labels') \in Nat
  BY <1>6, <1>8, LenProperties DEF Building
<1>11. Len(starts) = n + 1 /\ starts[1] = 0 /\ starts[n + 1] = Len(code)
  BY <1>3, <1>6 DEF Building
<1>12. /\ starts' \in Seq(Nat) /\ Len(starts') = n + 2 /\ starts'[n + 2] = Len(code')
       /\ \A k \in 1..n + 1 : starts'[k] = starts[k]
  <2>1. PICK x \in Nat : x = Len(code')
    BY <1>10
  <2>2. starts' = Append(starts, x) /\ (n + 1) + 1 = n + 2
    BY <1>2, <1>3, <2>1, SMT
  <2> QED
    BY <1>4, <1>11, <2>1, <2>2, AppendProperties, SMTT(30)
<1>13. ASSUME NEW k \in 1..n
       PROVE  PieceOf(k)' = PieceOf(k)
  <2>1. InstOf(k)' = InstOf(k)
    BY <1>3, <1>9, <1>13, SMT DEF InstOf
  <2> QED
    BY <2>1 DEF PieceOf
<1>14. PieceOf(n + 1)' = p
  <2>1. InstOf(n + 1)' = inst /\ (n + 1) - 1 = n
    BY <1>3, <1>9, SMT DEF InstOf
  <2> QED
    BY <1>1, <1>3, <2>1 DEF PieceOf
<1>15. ASSUME NEW k \in 1..n + 1
       PROVE  /\ Placed(PieceOf(k)', starts'[k], code', labels')
              /\ starts'[k + 1] = starts'[k] + Len(PieceOf(k)'.words)
  <2>1. CASE k \in 1..n
    <3>1. /\ Placed(PieceOf(k), starts[k], code, labels)
          /\ starts[k + 1] = starts[k] + Len(PieceOf(k).words)
      BY <1>3, <1>6, <2>1 DEF Building
    <3>2. k \in 1..Len(prog) + 1 /\ k + 1 \in 1..n + 1
      BY <1>3, <2>1, SMT
    <3>3. WellFormed(PieceOf(k))
      BY <1>4, <3>2, Pieces
    <3> QED
      BY <1>8, <1>12, <1>13, <2>1, <3>1, <3>2, <3>3
  <2>2. CASE k = n + 1
    <3>1. k + 1 = n + 2
      BY <1>3, <2>2, SMT
    <3> QED
      BY <1>8, <1>11, <1>12, <1>14, <2>2, <3>1
  <2> QED
    BY <2>1, <2>2, SMT
<1>16. Types'
  <2>1. n + 1 <= count
    BY <1>2, <1>3, <1>4, SMT
  <2>2. \E S : orig' \in Seq(S)
    BY <1>2 DEF CodeInv, Types
  <2> QED
    BY <1>2, <1>9, <1>12, <2>1, <2>2 DEF CodeInv, Types
<1>17. Building'
  <2>1. Len(code') + 2 * Len(labels') <= 5 * Len(prog')
    <3>1. Len(code) + 2 * Len(labels) <= 5 * n
      BY <1>3, <1>6 DEF Building
    <3>2. \A a, b, c, d \in Nat :
            a + 2 * b <= 5 * n /\ c + 2 * d <= a + 2 * b + 5 => c + 2 * d <= 5 * (n + 1)
      BY SMT
    <3> QED
      BY <1>8, <1>9, <1>10, <3>1, <3>2
  <2>2. starts'[1] = 0 /\ (n + 1) + 1 = n + 2
    BY <1>11, <1>12, SMT
  <2> QED
    BY <1>8, <1>9, <1>12, <1>15, <2>1, <2>2 DEF Building
<1>18. ~Running'
  BY <1>2, <1>5 DEF Running
<1> QED
  BY <1>16, <1>17, <1>18 DEF CodeInv

\* The branch back and Finalize make every piece ready.
LEMMA CodeComplete ==
  ASSUME CodeInv, NEW s \in States, Complete(s)
  PROVE  CodeInv' /\ Running'
<1>1. PICK p : p = EmitLdrX17Branch(SrcAddr + Len(prog))
  OBVIOUS
<1>2. /\ Len(prog) = count /\ ~Running /\ code' = Finalize(code \o p.words, PlaceDataLabel(p))
      /\ starts' = Append(starts, Len(code) + Len(p.words))
      /\ orig' = <<Machine(SrcAddr, s)>> /\ count' = count /\ prog' = prog
  BY <1>1 DEF Complete
<1>3. PICK n \in Nat : n = Len(prog)
  BY SMT DEF CodeInv, Types
<1>4. Building /\ prog \in Seq(Insts) /\ starts \in Seq(Nat)
  BY <1>2 DEF CodeInv, Types
<1>5. WellFormed(p)
  BY <1>1, <1>3, BackWellFormed
<1>6. PICK c, labs : c = code \o p.words /\ labs = PlaceDataLabel(p)
  OBVIOUS
<1>7. /\ c \in Seq(Words) /\ labs \in Seq(Labels)
      /\ Len(c) = Len(code) + Len(p.words)
      /\ Len(c) + 2 * Len(labs) <= Len(code) + 2 * Len(labels) + 5
      /\ Placed(p, Len(code), c, labs)
      /\ \A q, x : WellFormed(q) /\ Placed(q, x, code, labels) => Placed(q, x, c, labs)
  <2>1. code \in Seq(Words) /\ labels \in Seq(Labels)
        /\ \A l \in 1..Len(labels) : labels[l].at <= Len(code)
    BY <1>4 DEF Building
  <2> QED
    BY <1>5, <1>6, <2>1, Emits
<1>8. /\ DOMAIN code' = 1..Len(code') /\ Len(code') \in Nat
      /\ Len(code') <= Len(c) + 1 + 2 * Len(labs)
      /\ \A q, x : WellFormed(q) /\ Placed(q, x, c, labs) => Ready(q, x, code')
  <2>1. PICK f : f = Finalize(c, labs)
    OBVIOUS
  <2>2. f = code'
    BY <1>2, <1>6, <2>1
  <2> QED
    BY <1>7, <2>1, <2>2, Finalizes
<1>9. Len(code) \in Nat /\ Len(labels) \in Nat /\ Len(c) \in Nat /\ Len(labs) \in Nat
  BY <1>4, <1>7, LenProperties DEF Building
<1>10. Len(starts) = n + 1 /\ starts[1] = 0 /\ starts[n + 1] = Len(code)
  BY <1>3, <1>4 DEF Building
<1>11. starts' \in Seq(Nat) /\ \A k \in 1..n + 1 : starts'[k] = starts[k]
  <2>1. PICK x \in Nat : x = Len(code) + Len(p.words)
    BY <1>7, <1>9
  <2>2. starts' = Append(starts, x)
    BY <1>2, <2>1
  <2> QED
    BY <1>4, <1>10, <2>2, AppendProperties, SMT
<1>12. \A k : PieceOf(k)' = PieceOf(k)
  BY <1>2 DEF PieceOf, InstOf
<1>13. PieceOf(n + 1) = p
  <2>1. InstOf(n + 1) = Back /\ (n + 1) - 1 = n
    BY <1>3, SMT DEF InstOf
  <2> QED
    BY <1>1, <1>3, <2>1, BackPiece DEF PieceOf
<1>14. ASSUME NEW k \in 1..n + 1
       PROVE  Ready(PieceOf(k)', starts'[k], code')
  <2>1. CASE k \in 1..n
    <3>1. Placed(PieceOf(k), starts[k], code, labels)
      BY <1>3, <1>4, <2>1 DEF Building
    <3>2. WellFormed(PieceOf(k))
      BY <1>3, <1>4, Pieces
    <3> QED
      BY <1>7, <1>8, <1>11, <1>12, <3>1, <3>2
  <2>2. CASE k = n + 1
    BY <1>5, <1>7, <1>8, <1>10, <1>11, <1>12, <1>13, <2>2
  <2> QED
    BY <2>1, <2>2, SMT
<1>15. ASSUME NEW k \in 1..n
       PROVE  starts'[k + 1] = starts'[k] + Len(PieceOf(k)'.words)
  <2>1. starts[k + 1] = starts[k] + Len(PieceOf(k).words)
    BY <1>3, <1>4 DEF Building
  <2>2. k \in 1..n + 1 /\ k + 1 \in 1..n + 1
    BY SMT
  <2> QED
    BY <1>11, <1>12, <2>1, <2>2
<1>16. Len(code') <= 5 * n + 6
  <2>1. Len(code) + 2 * Len(labels) <= 5 * n
    BY <1>3, <1>4 DEF Building
  <2>2. \A a, b, d, e, f \in Nat :
          a + 2 * b <= 5 * n /\ d + 2 * e <= a + 2 * b + 5 /\ f <= d + 1 + 2 * e => f <= 5 * n + 6
    BY SMT
  <2> QED
    BY <1>7, <1>8, <1>9, <2>1, <2>2
<1>17. orig' \in Seq({Machine(SrcAddr, s)}) /\ Running'
  BY <1>2, SMT DEF Running
<1>18. Types'
  BY <1>2, <1>11, <1>17 DEF CodeInv, Types
<1>19. Built'
  <2>1. starts'[1] = 0
    BY <1>10, <1>11, SMT
  <2> QED
    BY <1>2, <1>3, <1>8, <1>14, <1>15, <1>16, <2>1 DEF Built
<1> QED
  BY <1>17, <1>18, <1>19 DEF CodeInv

\* Every step keeps the invariant of the code.
LEMMA CodeInductive ==
  ASSUME CodeInv, [Next]_vars
  PROVE  CodeInv'
<1>1. ASSUME UNCHANGED <<count, prog, code, labels, starts>>, Running' = Running,
             \E S : orig' \in Seq(S)
      PROVE  CodeInv'
  <2>1. \A k : PieceOf(k)' = PieceOf(k)
    BY <1>1 DEF PieceOf, InstOf
  <2>2. Types'
    BY <1>1 DEF CodeInv, Types
  <2>3. Building => Building'
    BY <1>1, <2>1 DEF Building
  <2>4. Built => Built'
    BY <1>1, <2>1 DEF Built
  <2> QED
    BY <1>1, <2>2, <2>3, <2>4 DEF CodeInv
<1>2. CASE StepOrig
  <2>1. PICK x : orig' = Append(orig, x)
    BY <1>2 DEF StepOrig
  <2>2. PICK S : orig \in Seq(S)
    BY DEF CodeInv, Types
  <2>3. PICK T : T = S \cup {x}
    OBVIOUS
  <2>4. orig \in Seq(T) /\ x \in T
    BY <2>2, <2>3, SMT
  <2>5. orig' \in Seq(T) /\ Len(orig') = Len(orig) + 1 /\ Len(orig) \in Nat
    BY <2>1, <2>4, AppendProperties, SMT
  <2>6. orig' # <<>> /\ Running
    BY <1>2, <2>5, SMT DEF StepOrig
  <2> QED
    BY <1>1, <1>2, <2>5, <2>6 DEF StepOrig, Running
<1>3. CASE StepReloc
  BY <1>1, <1>3 DEF StepReloc, Running, CodeInv, Types
<1>4. CASE UNCHANGED vars
  BY <1>1, <1>4 DEF vars, Running, CodeInv, Types
<1> QED
  BY <1>2, <1>3, <1>4, CodeRelocateOne, CodeComplete DEF Next

\* The relocated code, its padding and its literals fit the block that
\* HookInstall allocates, whatever the instructions are.
THEOREM RelocatorFitsBlock == Spec => []FitsBlock
<1>1. CodeInv => FitsBlock
  <2> SUFFICES ASSUME CodeInv PROVE FitsBlock
    OBVIOUS
  <2>1. PICK n \in Nat : n = Len(prog)
    BY SMT DEF CodeInv, Types
  <2>2. Len(code) \in Nat /\ Len(code) <= 5 * n + 6
    <3>1. CASE Running
      BY <2>1, <3>1 DEF CodeInv, Built
    <3>2. CASE ~Running
      <4>1. Len(code) \in Nat /\ Len(labels) \in Nat /\ Len(code) + 2 * Len(labels) <= 5 * n
        BY <2>1, <3>2, LenProperties DEF CodeInv, Building
      <4> QED
        BY <4>1, SMT
    <3> QED
      BY <3>1, <3>2
  <2>3. 5 * n + 6 <= Block(n) /\ Block(n) \in Nat
    BY SMT DEF Block
  <2> QED
    BY <2>1, <2>2, <2>3, SMT DEF FitsBlock
<1> QED
  BY <1>1, CodeInitial, CodeInductive, PTL DEF Spec
-----------------------------------------------------------------------------
(* The two processors *)

\* The first processor has run one instruction after the other.
Trace ==
    /\ orig \in Seq(Machines) /\ Len(orig) \in 1..Len(prog) + 1
    /\ \A k \in 1..Len(orig) - 1 : /\ orig[k].pc = SrcAddr + (k - 1)
                                   /\ orig[k + 1] = Execute(prog[k], orig[k])
    /\ InOrig => Now.pc = SrcAddr + (Len(orig) - 1)

\* The second one is in the piece of the k-th instruction, with what the first
\* one had before it; or both have left.
Where(k, d) ==
    /\ k \in 1..Len(prog) + 1 /\ k <= Len(orig)
    /\ AtWord(InstOf(k), SrcAddr + (k - 1), PieceOf(k), starts[k], d, reloc, orig[k])
Out ==
    /\ ~InOrig /\ ~InReloc /\ reloc.pc = Now.pc /\ Same(reloc, Now) /\ SameLR(reloc, Now)

RunInv == Running => Trace /\ ((\E k, d : Where(k, d)) \/ Out)

\* What is apart from the code.
LEMMA Far ==
  ASSUME Apart, NEW n \in Sizes, NEW len \in Nat, len <= 5 * n + 6
  PROVE  /\ (SrcAddr + n) - DstAddr + 1 \notin 1..len
         /\ \A k \in 1..n, inst \in Insts : inst.imm \in Int =>
              LET t == (SrcAddr + (k - 1)) + inst.imm IN
              /\ inst.op = "LdrLit" => t - DstAddr + 1 \notin 1..len
              /\ inst.op \in {"B", "BCond", "CB", "TB"} => /\ t - DstAddr + 1 \notin 1..len
                                                           /\ t - SrcAddr + 1 \notin 1..n
<1>1. n \in Nat /\ n >= 1 /\ SrcAddr \in Nat /\ DstAddr \in Nat /\ 1 \in 1..n
  BY RelocatorAssumption, SMT
<1>2. Block(n) \in Nat /\ len <= Block(n)
  BY <1>1, SMT DEF Block
<1>3. PICK b \in Nat : b = Block(n)
  BY <1>2
<1>4. (SrcAddr..SrcAddr + n) \cap (DstAddr..DstAddr + b - 1) = {}
  BY <1>1, <1>3 DEF Apart
<1>5. (SrcAddr + n) - DstAddr + 1 \notin 1..len
  <2>1. SrcAddr + n \in SrcAddr..SrcAddr + n
    BY <1>1, SMT
  <2>2. SrcAddr + n \notin DstAddr..DstAddr + b - 1
    BY <1>4, <2>1
  <2> QED
    BY <1>1, <1>2, <1>3, <2>2, SMTT(30)
<1>6. ASSUME NEW k \in 1..n, NEW inst \in Insts, inst.imm \in Int, NEW t,
             t = (SrcAddr + (k - 1)) + inst.imm
      PROVE  /\ inst.op = "LdrLit" => t - DstAddr + 1 \notin 1..len
             /\ inst.op \in {"B", "BCond", "CB", "TB"} => /\ t - DstAddr + 1 \notin 1..len
                                                          /\ t - SrcAddr + 1 \notin 1..n
  <2>1. t = SrcAddr + k - 1 + inst.imm /\ t \in Int
    BY <1>1, <1>6, SMT
  <2>2. /\ inst.op \in {"B", "BCond", "CB", "TB"} =>
             t \notin (DstAddr..DstAddr + b - 1) \cup (SrcAddr..SrcAddr + n - 1)
        /\ inst.op = "LdrLit" => t \notin DstAddr..DstAddr + b - 1
    BY <1>3, <2>1 DEF Apart
  <2>3. t \notin DstAddr..DstAddr + b - 1 => t - DstAddr + 1 \notin 1..len
    BY <1>1, <1>2, <1>3, <2>1, SMTT(30)
  <2>4. t \notin SrcAddr..SrcAddr + n - 1 => t - SrcAddr + 1 \notin 1..n
    BY <1>1, <2>1, SMT
  <2> QED
    BY <2>2, <2>3, <2>4
<1> QED
  BY <1>5, <1>6

\* A processor at the beginning of a piece.
LEMMA AtStart ==
  ASSUME Insts \subseteq Relocatable, Apart, CodeInv', Running', NEW k \in 1..Len(prog') + 1,
         NEW r \in Machines, NEW o \in Machines, o.pc = SrcAddr + (k - 1),
         r.pc = DstAddr + starts'[k], Same(r, o), SameLR(r, o)
  PROVE  AtWord(InstOf(k), SrcAddr + (k - 1), PieceOf(k), starts[k], 0, r, o)'
<1>1. /\ Built' /\ prog' \in Seq(Insts) /\ count' \in Sizes
  BY DEF CodeInv, Types
<1>2. PICK n \in Sizes : n = Len(prog')
  BY <1>1 DEF Built
<1>3. n \in Nat /\ SrcAddr \in Nat /\ DstAddr \in Nat
  BY RelocatorAssumption
<1>4. PICK inst, pc, p, s : inst = InstOf(k)' /\ pc = SrcAddr + (k - 1) /\ p = PieceOf(k)' /\ s = starts'[k]
  OBVIOUS
<1>5. /\ inst \in Relocatable
      /\ k <= n => inst \in Insts
      /\ ~(k <= n) => inst = Back
  <2>1. /\ InstOf(k)' = IF k <= n THEN prog'[k] ELSE Back
    BY <1>2 DEF InstOf
  <2>2. Back \in Relocatable
    <3>1. Back \in [op : {"B", "BL"}, imm : Int]
      BY SMT DEF Back
    <3> QED
      BY <3>1 DEF Relocatable
  <2>3. k <= n => k \in 1..Len(prog')
    BY <1>2, <1>3, SMT
  <2>4. k <= n => prog'[k] \in Insts
    BY <1>1, <2>3, SMT
  <2> QED
    BY <1>4, <2>1, <2>2, <2>4
<1>6. pc \in Int /\ p = Relocate(inst, pc)
  <2>1. p = Relocate(inst, pc)
    BY <1>4 DEF PieceOf
  <2>2. pc \in Int
    BY <1>2, <1>3, <1>4, SMT
  <2> QED
    BY <2>1, <2>2
<1>7. Ready(p, s, code') /\ DOMAIN code' = 1..Len(code') /\ Len(code') \in Nat
      /\ Len(code') <= 5 * n + 6
  BY <1>1, <1>2, <1>4 DEF Built
<1>8. WellFormed(p)
  <2>1. PICK j \in Nat : j = k - 1
    BY <1>2, <1>3, SMT
  <2>2. p = Relocate(inst, SrcAddr + j)
    BY <1>4, <1>6, <2>1
  <2>3. CASE k <= n
    BY <1>5, <2>2, <2>3, PieceWellFormed
  <2>4. CASE ~(k <= n)
    BY <1>5, <2>2, <2>4, BackPiece, BackWellFormed
  <2> QED
    BY <2>3, <2>4
<1>9. Len(p.words) \in 1..3 /\ p.at \in 0..Len(p.words)
  BY <1>8 DEF WellFormed
<1>10. 0 \in 0..Len(p.words) - 1 /\ ~(p.at # 0 /\ 0 >= p.at)
  <2>1. PICK len \in 1..3 : len = Len(p.words)
    BY <1>9
  <2>2. PICK at \in 0..len : at = p.at
    BY <1>9, <2>1
  <2>3. \A x \in 1..3, y \in 0..3 : 0 \in 0..x - 1 /\ ~(y # 0 /\ 0 >= y)
    BY SMT
  <2>4. at \in 0..3
    <3>1. \A x \in 1..3 : \A y \in 0..x : y \in 0..3
      BY SMT
    <3> QED
      BY <2>1, <2>2, <3>1
  <2> QED
    BY <2>1, <2>2, <2>3, <2>4
<1>12. Inside(inst, p, 0, r, o)'
  <2>1. ~(0 = 2) /\ ~(0 >= 1)
    BY SMT
  <2> QED
    BY <1>10, <2>1 DEF Inside
<1>13. inst.op = "LdrLit" => (pc + inst.imm) - DstAddr + 1 \notin DOMAIN code'
  <2>1. CASE k <= n
    <3>1. k \in 1..n /\ inst.imm \in Int /\ inst \in Insts
      BY <1>2, <1>5, <2>1, Fields, SMTT(30)
    <3> QED
      BY <1>4, <1>7, <3>1, Far
  <2>2. CASE ~(k <= n)
    BY <1>5, <2>2, SMT DEF Back
  <2> QED
    BY <2>1, <2>2
<1>14. s = starts'[k] /\ r.pc = DstAddr + (s + 0)
  <2>1. s \in Nat
    BY <1>7 DEF Ready
  <2> QED
    BY <1>3, <1>4, <2>1, SMT
<1>15. AtWord(inst, pc, p, s, 0, r, o)'
  BY <1>4, <1>5, <1>6, <1>7, <1>9, <1>10, <1>12, <1>13, <1>14 DEF AtWord
<1> QED
  BY <1>4, <1>15

\* A step of the first processor goes on, or branches away.
LEMMA OrigStep ==
  ASSUME NEW inst \in Relocatable, NEW o \in Machines,
         inst.op = "LdrLit" => (o.pc + inst.imm) - DstAddr + 1 \notin DOMAIN code
  PROVE  LET o2 == Execute(inst, o) IN
         /\ o2 \in Machines
         /\ o2.pc = o.pc + 1 \/ (o2.pc = o.pc + inst.imm /\ inst.op \in {"B", "BCond", "CB", "TB"})
<1>1. PICK o2 : o2 = Execute(inst, o)
  OBVIOUS
<1>2. inst.imm \in Int /\ o.pc \in Int
  BY Fields DEF Machines
<1>3. o.pc + inst.imm \in Int /\ o.pc + 1 \in Int
  BY <1>2, SMT
<1>4. CASE inst.op = "B"
  <2>1. o2 = [o EXCEPT !.pc = o.pc + inst.imm]
    BY <1>1, <1>4, SMTT(30) DEF Execute
  <2>2. Jumps(o, o2, o.pc + inst.imm)
    BY <1>3, <2>1, JumpJumps
  <2> QED
    BY <1>1, <1>4, <2>2 DEF Jumps
<1>5. CASE inst.op = "BL"
  <2>1. o2 = CallTo(o, o.pc + inst.imm)
    BY <1>1, <1>5, SMTT(30) DEF Execute
  <2>2. Called(o, o2, o.pc + inst.imm)
    BY <1>3, <2>1, CallCalls
  <2> QED
    BY <1>1, <2>2 DEF Called
<1>6. CASE inst.op \in {"BCond", "CB", "TB"}
  <2>1. Conditional(inst) /\ Same(o, o)
    BY <1>6 DEF Conditional, Same
  <2>2. PICK b \in BOOLEAN : o2 = BranchIf(o, b, inst.imm)
    BY <1>1, <2>1, Opposite
  <2>3. CASE b
    <3>1. o2 = [o EXCEPT !.pc = o.pc + inst.imm]
      BY <2>2, <2>3 DEF BranchIf
    <3>2. Jumps(o, o2, o.pc + inst.imm)
      BY <1>3, <3>1, JumpJumps
    <3> QED
      BY <1>1, <1>6, <3>2 DEF Jumps
  <2>4. CASE ~b
    <3>1. o2 = [o EXCEPT !.pc = o.pc + 1]
      BY <2>2, <2>4 DEF BranchIf
    <3>2. Jumps(o, o2, o.pc + 1)
      BY <1>3, <3>1, JumpJumps
    <3> QED
      BY <1>1, <3>2 DEF Jumps
  <2> QED
    BY <2>3, <2>4
<1>7. ASSUME NEW g \in Registers, NEW v \in Int, o2 = Set(o, g, v)
      PROVE  o2 \in Machines /\ o2.pc = o.pc + 1
  <2>1. Sets(o, o2, g, v)
    BY <1>7, SetSets
  <2> QED
    BY <2>1 DEF Sets
<1>8. inst.op \in {"LdrLit", "ADR", "ADRP", "ADD"} => Reg(inst.rt, 0) \in Registers
  BY Fields, Regs
<1>9. CASE inst.op = "LdrLit"
  <2>1. inst.v = 0 /\ inst.opc \in {0, 1}
    BY <1>9, Fields
  <2>2. PICK v : v = Memory(o.pc + inst.imm, inst.opc)
    OBVIOUS
  <2>3. v = (o.pc + inst.imm) + 1000 * (inst.opc + 1)
    BY <1>9, <2>2, ZenonT(30) DEF Memory
  <2>4. v \in Int
    BY <1>3, <2>1, <2>3, SMT
  <2>5. o2 = Set(o, Reg(inst.rt, 0), v)
    BY <1>1, <1>9, <2>1, <2>2, SMT DEF Execute
  <2> QED
    BY <1>1, <1>7, <1>8, <1>9, <2>4, <2>5
<1>10. CASE inst.op = "ADR"
  <2>1. o2 = Set(o, Reg(inst.rt, 0), o.pc + inst.imm)
    BY <1>1, <1>10, SMTT(30) DEF Execute
  <2> QED
    BY <1>1, <1>3, <1>7, <1>8, <1>10, <2>1
<1>11. CASE inst.op = "ADRP"
  <2>1. PICK pc : pc = o.pc
    OBVIOUS
  <2>2. PICK p : p = Relocate(inst, pc)
    OBVIOUS
  <2>3. p = Piece(<<LdrX17, MOV(inst.rt, 17)>>, 1, Page(pc) + inst.imm * PageSize)
    BY <1>11, <2>2, Rewritten
  <2>4. Page(pc) + inst.imm * PageSize \in Int
    <3>1. p.value \in Int
      BY <1>2, <2>1, <2>2, ValueInt
    <3>2. p.value = Page(pc) + inst.imm * PageSize
      BY <2>3, PieceFields, SMTT(30)
    <3> QED
      BY <3>1, <3>2
  <2>5. o2 = Set(o, Reg(inst.rt, 0), Page(pc) + inst.imm * PageSize)
    BY <1>1, <1>11, <2>1, SMTT(30) DEF Execute
  <2> QED
    BY <1>1, <1>7, <1>8, <1>11, <2>4, <2>5
<1>12. CASE inst.op = "ADD"
  <2>1. PICK g \in Registers : g = Reg(inst.rt, 0)
    BY <1>8, <1>12
  <2>2. o.regs \in [Registers -> Int]
    BY DEF Machines
  <2>3. PICK v : v = o.regs[g] + 1
    OBVIOUS
  <2>4. v \in Int
    BY <2>2, <2>3, SMTT(30)
  <2>5. o2 = Set(o, g, v)
    BY <1>1, <1>12, <2>1, <2>3, SMTT(30) DEF Execute
  <2> QED
    BY <1>1, <1>7, <2>4, <2>5
<1> QED
  BY <1>4, <1>5, <1>6, <1>9, <1>10, <1>11, <1>12, Fields

\* The two processors begin together.
LEMMA RunComplete ==
  ASSUME Insts \subseteq Relocatable, Apart, CodeInv, NEW s \in States, Complete(s)
  PROVE  RunInv'
<1>1. CodeInv' /\ Running'
  BY CodeComplete
<1>2. /\ orig' = <<Machine(SrcAddr, s)>> /\ reloc' = Machine(DstAddr, s) /\ prog' = prog
      /\ count' = count /\ Len(prog) = count
  BY DEF Complete
<1>3. PICK o, r : o = Machine(SrcAddr, s) /\ r = Machine(DstAddr, s)
  OBVIOUS
<1>4. s.regs \in [Registers -> Int] /\ s.flags \in [0..6 -> BOOLEAN]
  BY RelocatorAssumption
<1>5. SrcAddr \in Int /\ DstAddr \in Int /\ <<>> \in Seq(Int)
  BY RelocatorAssumption, SMTT(30)
<1>6. o \in Machines /\ r \in Machines
  BY <1>3, <1>4, <1>5, SMT DEF Machine, Machines
<1>7. /\ o.pc = SrcAddr /\ r.pc = DstAddr /\ r.flags = o.flags /\ r.calls = o.calls
      /\ r.regs = o.regs
  BY <1>3 DEF Machine
<1>8. Same(r, o) /\ SameLR(r, o)
  BY <1>7 DEF Same, SameLR
<1>9. count \in Nat /\ count >= 1
  BY RelocatorAssumption, SMT DEF CodeInv, Types
<1>10. 1 \in 1..Len(prog') + 1 /\ SrcAddr + (1 - 1) = SrcAddr
  BY <1>2, <1>5, <1>9, SMTT(30)
<1>11. starts'[1] = 0 /\ DstAddr + 0 = DstAddr
  BY <1>1, <1>5, SMT DEF CodeInv, Built
<1>12. AtWord(InstOf(1), SrcAddr + (1 - 1), PieceOf(1), starts[1], 0, r, o)'
  BY <1>1, <1>6, <1>7, <1>8, <1>10, <1>11, AtStart
<1>13. Len(orig') = 1 /\ orig'[1] = o /\ reloc' = r /\ orig' \in Seq(Machines)
  BY <1>2, <1>3, <1>6, SMTT(30)
<1>14. Where(1, 0)'
  BY <1>10, <1>12, <1>13, SMT DEF Where
<1>15. Trace'
  <2>1. Now' = o /\ SrcAddr + (1 - 1) = o.pc
    BY <1>7, <1>10, <1>13 DEF Now
  <2>2. 1 \in 1..Len(prog') + 1 /\ 1..1 - 1 = {}
    BY <1>10, SMTT(30)
  <2> QED
    BY <1>13, <2>1, <2>2 DEF Trace
<1> QED
  BY <1>14, <1>15 DEF RunInv

\* Execution depends on the code for its literals only.
LEMMA ExecuteSame ==
  ASSUME code' = code, NEW w, NEW x
  PROVE  Execute(w, x)' = Execute(w, x)
<1>1. ASSUME NEW a, NEW b PROVE Memory(a, b)' = Memory(a, b)
  BY ZenonT(30) DEF Memory
<1>2. /\ Memory(x.pc + w.imm, w.opc)' = Memory(x.pc + w.imm, w.opc)
      /\ Memory(x.regs[Reg(w.rn, 0)], w.opc)' = Memory(x.regs[Reg(w.rn, 0)], w.opc)
  BY <1>1
<1> QED
  BY <1>2, SMTT(30) DEF Execute

\* The first processor goes on, and the second has not begun.
LEMMA RunStepOrig ==
  ASSUME Insts \subseteq Relocatable, Apart, CodeInv, RunInv, StepOrig
  PROVE  RunInv'
<1>1. /\ Running /\ InOrig /\ orig' = Append(orig, Execute(prog[Now.pc - SrcAddr + 1], Now))
      /\ UNCHANGED <<count, prog, code, labels, starts, reloc>>
  BY DEF StepOrig
<1>2. Trace /\ Built /\ prog \in Seq(Insts) /\ count \in Sizes
  BY <1>1 DEF RunInv, CodeInv, Types
<1>3. PICK k, d : Where(k, d)
  BY <1>1 DEF RunInv, Out
<1>4. PICK n \in Sizes : n = Len(prog)
  BY <1>2 DEF Built
<1>5. n \in Nat /\ SrcAddr \in Nat /\ DstAddr \in Nat
  BY RelocatorAssumption
<1>6. PICK m \in 1..n + 1 : m = Len(orig)
  BY <1>2, <1>4 DEF Trace
<1>7. PICK o : o = Now
  OBVIOUS
<1>8. o = orig[m] /\ o \in Machines /\ o.pc = SrcAddr + (m - 1)
  <2>1. m \in 1..Len(orig) /\ orig \in Seq(Machines)
    BY <1>2, <1>5, <1>6, SMT DEF Trace
  <2>2. o = orig[m] /\ orig[m] \in Machines
    BY <1>6, <1>7, <2>1, SMT DEF Now
  <2> QED
    BY <1>1, <1>2, <1>6, <1>7, <2>2 DEF Trace
<1>9. o.pc - SrcAddr + 1 = m
  BY <1>5, <1>6, <1>8, SMT
<1>10. m \in 1..n
  BY <1>1, <1>2, <1>4, <1>7, <1>9, SMT DEF InOrig
<1>11. PICK inst \in Insts : inst = prog[m]
  BY <1>2, <1>4, <1>10, SMTT(30)
<1>12. PICK o2 : o2 = Execute(inst, o)
  OBVIOUS
<1>13. orig' = Append(orig, o2)
  BY <1>1, <1>7, <1>9, <1>11, <1>12
<1>14. inst \in Relocatable /\ inst.imm \in Int
  BY Fields
<1>15. DOMAIN code = 1..Len(code) /\ Len(code) \in Nat /\ Len(code) <= 5 * n + 6
  BY <1>2, <1>4 DEF Built
<1>16. PICK t : t = (SrcAddr + (m - 1)) + inst.imm
  OBVIOUS
<1>17. /\ inst.op = "LdrLit" => t - DstAddr + 1 \notin DOMAIN code
       /\ inst.op \in {"B", "BCond", "CB", "TB"} => t - SrcAddr + 1 \notin 1..n
  BY <1>10, <1>14, <1>15, <1>16, Far
<1>18. /\ o2 \in Machines
       /\ o2.pc = o.pc + 1 \/ (o2.pc = t /\ inst.op \in {"B", "BCond", "CB", "TB"})
  BY <1>8, <1>12, <1>14, <1>16, <1>17, OrigStep
<1>19. /\ orig' \in Seq(Machines) /\ Len(orig') = m + 1 /\ orig'[m + 1] = o2
       /\ \A i \in 1..m : orig'[i] = orig[i]
  BY <1>2, <1>6, <1>13, <1>18, AppendProperties, SMTT(30) DEF Trace
<1>20. Trace'
  <2>1. m + 1 \in 1..n + 1 /\ (m + 1) - 1 = m
    BY <1>5, <1>10, SMTT(30)
  <2>2. ASSUME NEW i \in 1..m
        PROVE  /\ orig'[i].pc = SrcAddr + (i - 1)
               /\ orig'[i + 1] = Execute(prog[i], orig'[i])
    <3>1. CASE i \in 1..m - 1
      <4>1. i \in 1..m /\ i + 1 \in 1..m
        BY <1>5, <1>10, <3>1, SMTT(30)
      <4>2. orig[i].pc = SrcAddr + (i - 1) /\ orig[i + 1] = Execute(prog[i], orig[i])
        BY <1>2, <1>6, <3>1 DEF Trace
      <4> QED
        BY <1>19, <4>1, <4>2
    <3>2. CASE i = m
      BY <1>8, <1>11, <1>12, <1>19, <3>2
    <3> QED
      BY <1>5, <1>10, <3>1, <3>2, SMTT(30)
  <2>4. \A w, x : Execute(w, x)' = Execute(w, x)
    BY <1>1, ExecuteSame
  <2>5. Now' = o2
    BY <1>19 DEF Now
  <2>6. InOrig' => o2.pc = SrcAddr + m
    <3>1. InOrig' => o2.pc - SrcAddr + 1 \in 1..n
      BY <1>1, <1>2, <1>4, <2>5, SMTT(30) DEF InOrig
    <3>2. o.pc + 1 = SrcAddr + m
      BY <1>5, <1>8, <1>10, SMTT(30)
    <3> QED
      BY <1>17, <1>18, <3>1, <3>2
  <2>7. \A i \in 1..m : orig'[i + 1] = Execute(prog[i], orig[i])'
    <3> SUFFICES ASSUME NEW i \in 1..m PROVE orig'[i + 1] = Execute(prog[i], orig[i])'
      OBVIOUS
    <3>1. PICK w, x : w = prog[i] /\ x = orig'[i] /\ w = prog'[i]
      BY <1>1
    <3>2. orig'[i + 1] = Execute(w, x)
      BY <2>2, <3>1
    <3>3. Execute(w, x)' = Execute(w, x)
      BY <2>4
    <3> QED
      BY <3>1, <3>2, <3>3
  <2> QED
    BY <1>1, <1>4, <1>19, <2>1, <2>2, <2>5, <2>6, <2>7 DEF Trace
<1>21. Where(k, d)'
  <2>1. PICK inst2, pc, p, s, x : /\ inst2 = InstOf(k) /\ pc = SrcAddr + (k - 1) /\ p = PieceOf(k)
                                  /\ s = starts[k] /\ x = orig[k]
    OBVIOUS
  <2>2. k \in 1..n + 1 /\ k <= m /\ AtWord(inst2, pc, p, s, d, reloc, x)
    BY <1>3, <1>4, <1>6, <2>1 DEF Where
  <2>3. k \in 1..m /\ k <= m + 1
    BY <1>5, <1>10, <2>2, SMTT(30)
  <2>4. PICK r : r = reloc
    OBVIOUS
  <2>5. AtWord(inst2, pc, p, s, d, r, x)'
    <3>1. AtWord(inst2, pc, p, s, d, r, x)
      BY <2>2, <2>4
    <3>2. \A w, y : Execute(w, y)' = Execute(w, y)
      BY <1>1, ExecuteSame
    <3>3. Inside(inst2, p, d, r, x)'
      BY <3>1, <3>2 DEF AtWord, Inside
    <3> QED
      BY <1>1, <3>1, <3>3 DEF AtWord
  <2>6. /\ inst2 = InstOf(k)' /\ p = PieceOf(k)' /\ s = starts'[k] /\ x = orig'[k] /\ r = reloc'
    BY <1>1, <1>19, <2>1, <2>3, <2>4 DEF InstOf, PieceOf
  <2> QED
    BY <1>1, <1>4, <1>19, <2>1, <2>2, <2>3, <2>5, <2>6 DEF Where
<1> QED
  BY <1>20, <1>21 DEF RunInv

\* The second processor goes on within a piece, to the next piece, or leaves as
\* the first one did.
LEMMA RunStepReloc ==
  ASSUME Insts \subseteq Relocatable, Apart, CodeInv, CodeInv', RunInv, StepReloc
  PROVE  RunInv'
<1>1. /\ Running /\ ~InOrig /\ InReloc
      /\ reloc' = Execute(code[reloc.pc - DstAddr + 1], reloc)
      /\ UNCHANGED <<count, prog, code, labels, starts, orig>>
  BY DEF StepReloc
<1>2. Trace /\ Built /\ prog \in Seq(Insts) /\ count \in Sizes
  BY <1>1 DEF RunInv, CodeInv, Types
<1>3. PICK k, d : Where(k, d)
  BY <1>1 DEF RunInv, Out
<1>4. PICK n \in Sizes : n = Len(prog)
  BY <1>2 DEF Built
<1>5. n \in Nat /\ SrcAddr \in Nat /\ DstAddr \in Nat
  BY RelocatorAssumption
<1>6. PICK m \in 1..n + 1 : m = Len(orig)
  BY <1>2, <1>4 DEF Trace
<1>7. PICK inst, pc, p, s, o, r : /\ inst = InstOf(k) /\ pc = SrcAddr + (k - 1) /\ p = PieceOf(k)
                                  /\ s = starts[k] /\ o = orig[k] /\ r = reloc
  OBVIOUS
<1>8. k \in 1..n + 1 /\ k <= m /\ AtWord(inst, pc, p, s, d, r, o)
  BY <1>3, <1>4, <1>6, <1>7 DEF Where
<1>9. PICK r2, o2 : r2 = reloc' /\ o2 = Execute(inst, o)
  OBVIOUS
<1>10. r2 = Execute(code[s + d + 1], r)
  <2>1. s \in Nat /\ d \in Nat /\ r.pc = DstAddr + (s + d)
    BY <1>8, WordRead DEF AtWord
  <2>2. r.pc - DstAddr + 1 = s + d + 1
    BY <1>5, <2>1, SMTT(30)
  <2> QED
    BY <1>1, <1>7, <1>9, <2>2
<1>11. /\ r2 \in Machines
       /\ \/ /\ d + 1 < Len(p.words) /\ r2.pc = DstAddr + (s + (d + 1))
             /\ Inside(inst, p, d + 1, r2, o)
          \/ Finished(inst, pc, p, s, r2, o2)
  BY <1>8, <1>9, <1>10, Runs DEF Advances
<1>12. \A w, x : Execute(w, x)' = Execute(w, x)
  BY <1>1, ExecuteSame
<1>13. Trace'
  <2>1. \A i : Execute(prog[i], orig[i])' = Execute(prog[i], orig[i])
    <3> SUFFICES ASSUME NEW i PROVE Execute(prog[i], orig[i])' = Execute(prog[i], orig[i])
      OBVIOUS
    <3>1. PICK w, x : w = prog[i] /\ x = orig[i] /\ w = prog'[i] /\ x = orig'[i]
      BY <1>1
    <3>2. Execute(w, x)' = Execute(w, x)
      BY <1>12
    <3> QED
      BY <3>1, <3>2
  <2>2. Now' = Now /\ InOrig' = InOrig
    BY <1>1 DEF Now, InOrig
  <2> QED
    BY <1>1, <1>2, <2>1, <2>2 DEF Trace
<1>14. /\ InstOf(k)' = inst /\ PieceOf(k)' = p /\ starts'[k] = s /\ orig'[k] = o
       /\ Len(prog') = n /\ Len(orig') = m /\ Now' = orig[m] /\ Running'
  BY <1>1, <1>4, <1>6, <1>7 DEF InstOf, PieceOf, Now, Running
<1>15. CASE /\ d + 1 < Len(p.words) /\ r2.pc = DstAddr + (s + (d + 1))
            /\ Inside(inst, p, d + 1, r2, o)
  <2>1. Inside(inst, p, d + 1, r2, o)'
    BY <1>12, <1>15 DEF Inside
  <2>2. d + 1 \in 0..Len(p.words) - 1
    <3>1. PICK len \in 1..3 : len = Len(p.words)
      BY <1>8 DEF AtWord
    <3>2. d \in 0..len - 1 /\ d + 1 < len
      BY <1>8, <1>15, <3>1 DEF AtWord
    <3>3. d + 1 \in 0..len - 1
      BY <3>2, SMT
    <3> QED
      BY <3>1, <3>3
  <2>3. AtWord(inst, pc, p, s, d + 1, r2, o)'
    BY <1>1, <1>8, <1>11, <1>15, <2>1, <2>2 DEF AtWord
  <2>4. Where(k, d + 1)'
    BY <1>7, <1>8, <1>9, <1>14, <2>3 DEF Where
  <2> QED
    BY <1>13, <2>4 DEF RunInv
<1>16. ASSUME Finished(inst, pc, p, s, r2, o2), o2 = orig[k + 1], k \in 1..n, k + 1 <= m,
              r2.pc = DstAddr + (s + Len(p.words)), o2.pc = pc + 1
       PROVE  RunInv'
  <2>1. starts'[k + 1] = s + Len(p.words)
    BY <1>1, <1>2, <1>4, <1>7, <1>16, ZenonT(30) DEF Built
  <2>2. k + 1 \in 1..Len(prog') + 1 /\ SrcAddr + ((k + 1) - 1) = pc + 1
    BY <1>5, <1>7, <1>14, <1>16, SMTT(30)
  <2>3. Same(r2, o2) /\ SameLR(r2, o2) /\ o2 \in Machines
    BY <1>16 DEF Finished
  <2>4. AtWord(InstOf(k + 1), SrcAddr + ((k + 1) - 1), PieceOf(k + 1), starts[k + 1], 0, r2, o2)'
    <3>1. r2.pc = DstAddr + starts'[k + 1] /\ o2.pc = SrcAddr + ((k + 1) - 1)
      BY <1>16, <2>1, <2>2
    <3>2. PICK k2 : k2 = k + 1
      OBVIOUS
    <3>3. AtWord(InstOf(k2), SrcAddr + (k2 - 1), PieceOf(k2), starts[k2], 0, r2, o2)'
      BY <1>11, <1>14, <2>2, <2>3, <3>1, <3>2, AtStart
    <3> QED
      BY <3>2, <3>3
  <2>5. Where(k + 1, 0)'
    BY <1>1, <1>9, <1>14, <1>16, <2>2, <2>4 DEF Where
  <2> QED
    BY <1>13, <2>5 DEF RunInv
<1>17. ASSUME r2.pc = orig[m].pc, Same(r2, orig[m]), SameLR(r2, orig[m]),
              r2.pc - DstAddr + 1 \notin DOMAIN code
       PROVE  RunInv'
  <2>1. ~InOrig'
    BY <1>1 DEF InOrig, Now
  <2>2. ~InReloc'
    BY <1>1, <1>9, <1>17 DEF InReloc
  <2>3. Out'
    BY <1>9, <1>14, <1>17, <2>1, <2>2 DEF Out, Same, SameLR
  <2> QED
    BY <1>13, <2>3 DEF RunInv
<1>18. o.pc = pc /\ o \in Machines /\ inst \in Relocatable /\ inst.imm \in Int
  BY <1>8, Fields DEF AtWord
<1>19. DOMAIN code = 1..Len(code) /\ Len(code) \in Nat /\ Len(code) <= 5 * n + 6
  BY <1>2, <1>4 DEF Built
<1>20. Now = orig[m] /\ DOMAIN prog = 1..n
  BY <1>2, <1>4, <1>6, SMTT(30) DEF Now
<1>21. CASE Finished(inst, pc, p, s, r2, o2) /\ k \in 1..n
  <2>1. inst = prog[k] /\ inst \in Insts
    <3>1. inst = prog[k]
      BY <1>4, <1>7, <1>21, SMTT(30) DEF InstOf
    <3> QED
      BY <1>2, <1>4, <1>21, <3>1, SMTT(30)
  <2>2. k # m
    <3>1. pc - SrcAddr + 1 = k
      BY <1>5, <1>7, <1>21, SMTT(30)
    <3> QED
      BY <1>1, <1>7, <1>18, <1>20, <1>21, <3>1 DEF InOrig
  <2>3. k \in 1..m - 1 /\ k + 1 <= m
    BY <1>5, <1>8, <1>21, <2>2, SMTT(30)
  <2>4. o2 = orig[k + 1]
    BY <1>2, <1>6, <1>7, <1>9, <2>1, <2>3 DEF Trace
  <2>5. CASE r2.pc = DstAddr + (s + Len(p.words)) /\ o2.pc = pc + 1
    BY <1>16, <1>21, <2>3, <2>4, <2>5
  <2>6. CASE r2.pc = o2.pc /\ o2.pc = pc + inst.imm /\ (inst.op = "B" \/ Conditional(inst))
    <3>1. inst.op \in {"B", "BCond", "CB", "TB"}
      BY <2>6 DEF Conditional
    <3>2. o2.pc - DstAddr + 1 \notin 1..Len(code) /\ o2.pc - SrcAddr + 1 \notin 1..n
      BY <1>7, <1>18, <1>19, <1>21, <2>1, <2>6, <3>1, Far, ZenonT(30)
    <3>3. k + 1 = m
      <4> SUFFICES ASSUME k + 1 # m PROVE FALSE
        OBVIOUS
      <4>1. k + 1 \in 1..m - 1 /\ k + 1 \in 1..n
        BY <1>5, <1>6, <1>21, <2>3, SMTT(30)
      <4>2. o2.pc = SrcAddr + ((k + 1) - 1)
        BY <1>2, <1>6, <2>4, <4>1 DEF Trace
      <4>3. o2.pc - SrcAddr + 1 = k + 1
        BY <1>5, <1>21, <4>2, SMTT(30)
      <4> QED
        BY <3>2, <4>1, <4>3
    <3> QED
      BY <1>17, <1>19, <1>21, <2>4, <2>6, <3>2, <3>3 DEF Finished
  <2> QED
    BY <1>21, <2>5, <2>6 DEF Finished
<1>22. CASE Finished(inst, pc, p, s, r2, o2) /\ ~(k \in 1..n)
  <2>1. k = n + 1 /\ m = n + 1
    BY <1>5, <1>6, <1>8, <1>22, SMTT(30)
  <2>2. inst = Back /\ inst.op = "B" /\ inst.imm = 0 /\ pc = SrcAddr + n /\ pc + inst.imm = pc
    <3>1. inst = Back
      BY <1>4, <1>5, <1>7, <2>1, SMTT(30) DEF InstOf
    <3>2. inst.op = "B" /\ inst.imm = 0
      BY <3>1 DEF Back
    <3>3. pc = SrcAddr + n
      BY <1>5, <1>7, <2>1, SMTT(30)
    <3> QED
      BY <1>5, <3>1, <3>2, <3>3, SMTT(30)
  <2>3. o2 = [o EXCEPT !.pc = pc]
    <3>1. o2 = [o EXCEPT !.pc = o.pc + inst.imm]
      BY <1>9, <2>2, SMTT(30) DEF Execute
    <3> QED
      BY <1>18, <2>2, <3>1
  <2>4. Jumps(o, o2, pc)
    <3>1. pc \in Int
      BY <1>5, <2>2, SMTT(30)
    <3> QED
      BY <1>18, <2>3, <3>1, JumpJumps
  <2>5. o2.pc = pc /\ o2.flags = o.flags /\ o2.calls = o.calls /\ o2.regs = o.regs
    BY <2>4 DEF Jumps
  <2>6. r2.pc = pc
    <3>1. pc # pc + 1
      BY <1>5, <2>2, SMTT(30)
    <3> QED
      BY <1>22, <2>5, <3>1 DEF Finished
  <2>7. Same(r2, o) /\ SameLR(r2, o)
    BY <1>22, <2>5 DEF Finished, Same, SameLR
  <2>8. r2.pc - DstAddr + 1 \notin DOMAIN code
    BY <1>19, <2>2, <2>6, Far
  <2>9. o = orig[m]
    BY <1>7, <2>1
  <2> QED
    BY <1>17, <1>18, <2>6, <2>7, <2>8, <2>9
<1> QED
  BY <1>11, <1>15, <1>21, <1>22

\* Every step keeps the invariant of the two processors.
LEMMA RunInductive ==
  ASSUME Insts \subseteq Relocatable, Apart, CodeInv, CodeInv', RunInv, [Next]_vars
  PROVE  RunInv'
<1>1. ASSUME NEW inst \in Insts, RelocateOne(inst) PROVE RunInv'
  <2>1. count \in Nat /\ Len(prog) \in Nat
    BY RelocatorAssumption, SMTT(30) DEF CodeInv, Types
  <2>2. ~Running
    BY <1>1, <2>1, SMT DEF RelocateOne, CodeInv, Built
  <2> QED
    BY <1>1, <2>2 DEF RelocateOne, Running, RunInv
<1>2. CASE UNCHANGED vars
  <2>1. /\ code' = code /\ orig' = orig /\ prog' = prog /\ reloc' = reloc /\ starts' = starts
        /\ count' = count /\ labels' = labels
    BY <1>2 DEF vars
  <2>2. \A w, x : Execute(w, x)' = Execute(w, x)
    BY <2>1, ExecuteSame
  <2>3. SUFFICES ASSUME Running' PROVE RunInv'
    BY DEF RunInv
  <2>4. Trace /\ ((\E k, d : Where(k, d)) \/ Out)
    BY <2>1, <2>3 DEF RunInv, Running
  <2>5. Trace'
    <3>1. \A i : Execute(prog[i], orig[i])' = Execute(prog[i], orig[i])
      <4> SUFFICES ASSUME NEW i PROVE Execute(prog[i], orig[i])' = Execute(prog[i], orig[i])
        OBVIOUS
      <4>1. PICK w, x : w = prog[i] /\ x = orig[i] /\ w = prog'[i] /\ x = orig'[i]
        BY <2>1
      <4>2. Execute(w, x)' = Execute(w, x)
        BY <2>2
      <4> QED
        BY <4>1, <4>2
    <3>2. Now' = Now /\ InOrig' = InOrig
      BY <2>1 DEF Now, InOrig
    <3> QED
      BY <2>1, <2>4, <3>1, <3>2 DEF Trace
  <2>6. ASSUME NEW k, NEW d, Where(k, d) PROVE Where(k, d)'
    <3>1. PICK inst, pc, p, s, o, r : /\ inst = InstOf(k) /\ pc = SrcAddr + (k - 1) /\ p = PieceOf(k)
                                      /\ s = starts[k] /\ o = orig[k] /\ r = reloc
      OBVIOUS
    <3>2. /\ inst = InstOf(k)' /\ p = PieceOf(k)' /\ s = starts'[k] /\ o = orig'[k] /\ r = reloc'
      BY <2>1, <3>1 DEF InstOf, PieceOf
    <3>3. AtWord(inst, pc, p, s, d, r, o)
      BY <2>6, <3>1 DEF Where
    <3>4. Inside(inst, p, d, r, o)'
      BY <2>2, <3>3 DEF AtWord, Inside
    <3>5. AtWord(inst, pc, p, s, d, r, o)'
      BY <2>1, <3>3, <3>4 DEF AtWord
    <3> QED
      BY <2>1, <2>6, <3>1, <3>2, <3>5 DEF Where
  <2>7. Out => Out'
    BY <2>1 DEF Out, InOrig, InReloc, Now, Same, SameLR
  <2> QED
    BY <2>4, <2>5, <2>6, <2>7 DEF RunInv
<1> QED
  BY <1>1, <1>2, RunComplete, RunStepOrig, RunStepReloc DEF Next

\* Both invariants hold throughout.
LEMMA RunAlways ==
  ASSUME Insts \subseteq Relocatable, Apart
  PROVE  Spec => [](CodeInv /\ RunInv)
<1>1. Init => CodeInv /\ RunInv
  <2>1. Init => ~Running
    BY DEF Init, Running
  <2> QED
    BY <2>1, CodeInitial DEF RunInv
<1>2. CodeInv /\ RunInv /\ [Next]_vars => (CodeInv /\ RunInv)'
  BY CodeInductive, RunInductive
<1> QED
  BY <1>1, <1>2, PTL DEF Spec

\* The relocated code does what the overwritten instructions do, however many
\* there are and in whatever order, with any registers and flags.
THEOREM RelocatorEquivalent ==
  ASSUME Insts \subseteq Relocatable, Apart
  PROVE  Spec => []Equivalent
<1>1. CodeInv /\ RunInv => Equivalent
  <2> SUFFICES ASSUME CodeInv, RunInv, Running, ~InOrig, ~InReloc
               PROVE  /\ reloc.pc = Now.pc /\ reloc.calls = Now.calls /\ reloc.flags = Now.flags
                      /\ \A r \in Registers \ {X17, LR} : reloc.regs[r] = Now.regs[r]
                      /\ Now.calls = <<>> => reloc.regs[LR] = Now.regs[LR]
    BY DEF Equivalent
  <2>1. ASSUME NEW k, NEW d, Where(k, d) PROVE FALSE
    <3>1. PICK inst, pc, p, s, o : AtWord(inst, pc, p, s, d, reloc, o)
      BY <2>1 DEF Where
    <3>2. /\ s \in Nat /\ d \in Nat /\ DstAddr \in Nat /\ reloc.pc = DstAddr + (s + d)
      BY <3>1, WordRead DEF AtWord
    <3>3. PICK len \in 1..3 : len = Len(p.words)
      BY <3>1 DEF AtWord
    <3>4. d \in 0..len - 1 /\ s + len <= Len(code) /\ DOMAIN code = 1..Len(code) /\ Len(code) \in Nat
      BY <3>1, <3>3 DEF AtWord, Ready
    <3>5. reloc.pc - DstAddr + 1 \in 1..Len(code)
      BY <3>2, <3>4, SMT
    <3> QED
      BY <3>4, <3>5 DEF InReloc
  <2>2. Out
    BY <2>1 DEF RunInv
  <2> QED
    BY <2>2 DEF Out, Same, SameLR
<1> QED
  BY <1>1, RunAlways, PTL

\* The processor never runs into the literals behind the relocated code.
THEOREM RelocatorNoDataExecuted ==
  ASSUME Insts \subseteq Relocatable, Apart
  PROVE  Spec => []NoDataExecuted
<1>1. CodeInv /\ RunInv => NoDataExecuted
  <2> SUFFICES ASSUME CodeInv, RunInv, Running, InReloc
               PROVE  code[reloc.pc - DstAddr + 1].op # "data"
    BY DEF NoDataExecuted
  <2>1. PICK k, d : Where(k, d)
    BY DEF RunInv, Out
  <2>2. PICK inst, pc, p, s, o : AtWord(inst, pc, p, s, d, reloc, o)
    BY <2>1 DEF Where
  <2>3. PICK r : r = reloc
    OBVIOUS
  <2>4. code[s + d + 1].op # "data"
    BY <2>2, <2>3, Runs DEF Advances
  <2>5. s \in Nat /\ d \in Nat /\ DstAddr \in Nat /\ reloc.pc = DstAddr + (s + d)
    BY <2>2, WordRead DEF AtWord
  <2>6. reloc.pc - DstAddr + 1 = s + d + 1
    BY <2>5, SMT
  <2> QED
    BY <2>4, <2>6
<1> QED
  BY <1>1, RunAlways, PTL
=============================================================================
