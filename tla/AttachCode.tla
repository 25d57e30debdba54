----------------------------- MODULE AttachCode -----------------------------
(***************************************************************************)
(* The code that Interceptor.attach puts in front of a function            *)
(* (js_interceptor.cpp, generate_trampolines): save the registers, call    *)
(* dispatch_on_enter, restore, call the original, and the same again for   *)
(* dispatch_on_leave.                                                      *)
(*                                                                         *)
(* The module is a processor that runs this code once.  Stack addresses    *)
(* count doublewords from the caller's SP.  What a called function may     *)
(* change under the ARM64 calling convention, it changes: the registers    *)
(* x0-x18, x30 and q0-q7, and the stack below SP.                          *)
(***************************************************************************)
EXTENDS Integers, Sequences

VARIABLES
    m,              \* the processor: pc, x, q, sp, mem; the calls it made and
                    \* the registers and SP the original was called with
    enter,          \* the argument registers that onEnter replaces
    leave           \* does onLeave replace the result?

vars == <<m, enter, leave>>

\* A doubleword: its origin, a number and, for a SIMD register, the half.
Val(kind, n) == <<kind, n, 0>>
Junk == Val("junk", 0)
Simd(kind, n) == <<<<kind, n, 0>>, <<kind, n, 1>>>>
-----------------------------------------------------------------------------
(* The frame, in doublewords: AttachEntry*, x0..x18, q0..q7 *)

kOffEntry == 0
kOffX0 == 1

\* Mutation: one register fewer is counted.
OffV0Short == 1 + 18

kOffV0 == 1 + 19
kSaveSize == 1 + 19 + 8 * 2
-----------------------------------------------------------------------------
(* generate_trampolines *)

STR(i, off) == [op |-> "STR", r |-> i, off |-> off]
LDR(i, off) == [op |-> "LDR", r |-> i, off |-> off]
\* The offset of a SIMD access is encoded in units of 16 bytes.
STRQ(i, off) == [op |-> "STRQ", r |-> i, off |-> 2 * (off \div 2)]
LDRQ(i, off) == [op |-> "LDRQ", r |-> i, off |-> 2 * (off \div 2)]
AddSP(n) == [op |-> "ADDSP", n |-> n]
MovImm(rd, val) == [op |-> "MOVIMM", rd |-> rd, val |-> val]
MOV(rd, rn) == [op |-> "MOV", rd |-> rd, rn |-> rn]
MovX0SP == [op |-> "MOVSP"]
BLR(rn) == [op |-> "BLR", rn |-> rn]
\* STP X19, X30, [SP, #-16]! and LDP X19, X30, [SP], #16
STP == [op |-> "STP"]
LDP == [op |-> "LDP"]
RET == [op |-> "RET"]

\* A saved context, the call of the dispatcher with its address, and back.
Dispatch(fn) ==
    <<AddSP(-kSaveSize)>>
    \o [i \in 1..19 |-> STR(i - 1, kOffX0 + i - 1)]
    \o [i \in 1..8 |-> STRQ(i - 1, kOffV0 + 2 * (i - 1))]
    \o <<MovImm(16, Val("entry", 0)), STR(16, kOffEntry), MovImm(16, Val(fn, 0)), MovX0SP,
         BLR(16)>>
    \o [i \in 1..19 |-> LDR(i - 1, kOffX0 + i - 1)]
    \o [i \in 1..8 |-> LDRQ(i - 1, kOffV0 + 2 * (i - 1))]
    \o <<AddSP(kSaveSize)>>

Trampoline ==
    <<STP>> \o Dispatch("enter")
    \o <<LDP, STP, MOV(19, 30), MovImm(16, Val("orig", 0)), BLR(16), MOV(30, 19)>>
    \o Dispatch("leave") \o <<LDP, RET>>
-----------------------------------------------------------------------------
(* The processor and what the code calls *)

Slots == -80..3

\* dispatch_on_enter and dispatch_on_leave: the values the callbacks return
\* are written over the saved registers of the frame at x0.
DispatchOnEnter(mem, base) ==
    IF mem[base + kOffEntry] # Val("entry", 0) THEN mem
    ELSE [s \in Slots |-> IF s - base - kOffX0 \in enter
                          THEN Val("js", s - base - kOffX0) ELSE mem[s]]

DispatchOnLeave(mem, base) ==
    IF mem[base + kOffEntry] # Val("entry", 0) \/ ~leave THEN mem
    ELSE [mem EXCEPT ![base + kOffX0] = Val("js", 0)]

\* The registers after a call: a result of the original, or nothing of use.
Called(kind) ==
    [m EXCEPT !.pc = @ + 1, !.calls = Append(@, kind),
              !.x = [i \in DOMAIN @ |-> IF i = 30 THEN Val("pc", m.pc + 1)
                                        ELSE IF i = 19 THEN @[i] ELSE Val(kind, i)],
              !.q = [i \in DOMAIN @ |-> Simd(kind, i)]]

Below(mem) == [s \in Slots |-> IF s < m.sp THEN Junk ELSE mem[s]]

CallTo(fn, base) ==
    CASE fn = "enter" -> [Called("junk") EXCEPT !.mem = Below(DispatchOnEnter(@, base))]
      [] fn = "leave" -> [Called("junk") EXCEPT !.mem = Below(DispatchOnLeave(@, base))]
      [] fn = "orig" -> [Called("result") EXCEPT !.mem = Below(@), !.args = <<m.x, m.q, m.sp>>]

Store(s, v) == [m EXCEPT !.pc = @ + 1, !.mem[s] = v]
Load(r, v) == [m EXCEPT !.pc = @ + 1, !.x[r] = v]

Execute(w) ==
    CASE w.op = "STR" -> Store(m.sp + w.off, m.x[w.r])
      [] w.op = "LDR" -> Load(w.r, m.mem[m.sp + w.off])
      [] w.op = "STRQ" -> [m EXCEPT !.pc = @ + 1, !.mem[m.sp + w.off] = m.q[w.r][1],
                                    !.mem[m.sp + w.off + 1] = m.q[w.r][2]]
      [] w.op = "LDRQ" -> [m EXCEPT !.pc = @ + 1, !.q[w.r] =
                                    <<m.mem[m.sp + w.off], m.mem[m.sp + w.off + 1]>>]
      [] w.op = "ADDSP" -> [m EXCEPT !.pc = @ + 1, !.sp = @ + w.n]
      [] w.op = "MOVIMM" -> Load(w.rd, w.val)
      [] w.op = "MOV" -> Load(w.rd, m.x[w.rn])
      [] w.op = "MOVSP" -> Load(0, Val("sp", m.sp))
      [] w.op = "BLR" -> CallTo(m.x[w.rn][1], m.x[0][2])
      [] w.op = "STP" -> [m EXCEPT !.pc = @ + 1, !.sp = @ - 2,
                                   !.mem[m.sp - 2] = m.x[19], !.mem[m.sp - 1] = m.x[30]]
      [] w.op = "LDP" -> [m EXCEPT !.pc = @ + 1, !.sp = @ + 2,
                                   !.x[19] = m.mem[m.sp], !.x[30] = m.mem[m.sp + 1]]
      [] w.op = "RET" -> [m EXCEPT !.pc = m.x[30][2]]

\* The caller's return address is 0.
Init ==
    /\ m = [pc |-> 1, sp |-> 0, calls |-> <<>>, args |-> <<>>,
            x |-> [i \in 0..19 \cup {30} |-> IF i = 30 THEN Val("pc", 0) ELSE Val("x", i)],
            q |-> [i \in 0..7 |-> Simd("q", i)],
            mem |-> [s \in Slots |-> IF s < 0 THEN Junk ELSE Val("caller", s)]]
    /\ enter \in {{}, 0..7} \cup {{i} : i \in 0..7}
    /\ leave \in BOOLEAN

Step ==
    /\ m.pc \in DOMAIN Trampoline
    /\ m' = Execute(Trampoline[m.pc])
    /\ UNCHANGED <<enter, leave>>

Next == Step

Spec == Init /\ [][Next]_vars
-----------------------------------------------------------------------------
(* Properties *)

\* A trampoline in front of a function passes its registers on: the original
\* is called with every register of the call that it may read (x0-x18, q0-q7),
\* but for the ones onEnter replaced and x16, which holds its address, and with
\* SP two doublewords down, at the saved x19 and x30; the caller gets all
\* registers of the original back, but for the x0 that onLeave replaced, and
\* its own x19, SP and stack, after one call of each function; and SP stays
\* aligned to 16 bytes.
RegistersKept ==
    /\ m.sp % 2 = 0
    /\ \A s \in Slots : s >= 0 => m.mem[s] = Val("caller", s)
    /\ m.args # <<>> =>
         /\ \A i \in 0..18 \ {16} : m.args[1][i] = Val(IF i \in enter THEN "js" ELSE "x", i)
         /\ \A i \in 0..7 : m.args[2][i] = Simd("q", i)
         /\ m.args[3] = -2 /\ m.mem[-2] = Val("x", 19) /\ m.mem[-1] = Val("pc", 0)
    /\ m.pc \notin DOMAIN Trampoline =>
         /\ m.pc = 0 /\ m.sp = 0 /\ m.x[19] = Val("x", 19) /\ Len(m.calls) = 3
         /\ \A i \in 0..18 : m.x[i] = Val(IF i = 0 /\ leave THEN "js" ELSE "result", i)
         /\ \A i \in 0..7 : m.q[i] = Simd("result", i)

\* The original runs with the SP of the caller, as a comment of
\* generate_trampolines has it ("so SP is unchanged when orig_func's PACIASP
\* executes"), and so finds the arguments that the caller passed on the stack.
SPUnchanged == m.args # <<>> => m.args[3] = 0
=============================================================================
