------------------------------ MODULE Assembler ------------------------------
(***************************************************************************)
(* A small assembler for the programs of the TLC instances: the            *)
(* instructions of ArmInstruction by their mnemonics, condition "always".  *)
(***************************************************************************)
EXTENDS ArmInstruction

B(offset)  == [op |-> "B", cond |-> ALWAYS, link |-> FALSE, offset |-> offset % WordSize]
BL(offset) == [B(offset) EXCEPT !.link = TRUE]
(* A branch at address `at' to address `to': it reads its own address + 8.  *)
Goto(at, to) == B(to - (at + 8))
Swi        == [op |-> "SWI", cond |-> ALWAYS, halt |-> FALSE]
Halt       == [Swi EXCEPT !.halt = TRUE]
Coproc     == [op |-> "COPROC", cond |-> ALWAYS]
Mrs(rd, spsr) == [op |-> "MRS", cond |-> ALWAYS, spsr |-> spsr, rd |-> rd]
Msr(spsr, c, f, imm) ==
  [op |-> "MSR", cond |-> ALWAYS, spsr |-> spsr, c |-> c, f |-> f,
   rm |-> NoReg, imm |-> imm, rotate |-> 0]
Dp(code, s, rd, rn, rm, imm) ==
  [op |-> "DP", cond |-> ALWAYS, s |-> s, code |-> code, rd |-> rd, rn |-> rn,
   rm |-> rm, imm |-> imm, shift |-> LSL, amount |-> 0, rs |-> NoReg,
   rotate |-> 0]
Mov(rd, imm)    == Dp("MOV", FALSE, rd, 0, NoReg, imm)
MovsPcLr        == Dp("MOV", TRUE, PC, 0, LR, 0)
SubsPcLr(k)     == Dp("SUB", TRUE, PC, LR, NoReg, k)
Ldst(l, b, p, w, rd, rn, imm) ==
  [op |-> "LDST", cond |-> ALWAYS, p |-> p, u |-> TRUE, w |-> w, l |-> l,
   b |-> b, rd |-> rd, rn |-> rn, rm |-> NoReg, shift |-> LSL, amount |-> 0,
   imm |-> imm]
Misc(kind, rd, rn, imm, junk) ==
  [op |-> "MISC", cond |-> ALWAYS, p |-> TRUE, u |-> TRUE, w |-> FALSE,
   kind |-> kind, rd |-> rd, rn |-> rn, rm |-> NoReg, imm |-> imm, junk |-> junk]
Ldm(l, s, p, u, w, rn, list, junk) ==
  [op |-> "LDM", cond |-> ALWAYS, p |-> p, u |-> u, w |-> w, l |-> l, s |-> s,
   rn |-> rn, list |-> list, junk |-> junk]
Push(list)      == Ldm(FALSE, FALSE, TRUE, FALSE, TRUE, SP, list, 0)
Pop(list)       == Ldm(TRUE, FALSE, FALSE, TRUE, TRUE, SP, list, 0)
=============================================================================
