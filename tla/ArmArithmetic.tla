---------------------------- MODULE ArmArithmetic ----------------------------
(***************************************************************************)
(* What programs rely on when they compute: comparisons followed by a      *)
(* conditional instruction, and numbers of two words, whose carry goes     *)
(* from one instruction to the next through the status register.  Like the *)
(* properties of ArmTransfer these are stated in every reachable state of  *)
(* ArmMachine about the instructions that could be executed there next.    *)
(***************************************************************************)
EXTENDS ArmMachine

Operands == 0 .. 3      \* the registers that are compared and shifted

DataOp(code, s, rd, rn, rm) ==
  [op |-> "DP", cond |-> ALWAYS, s |-> s, code |-> code, rd |-> rd, rn |-> rn,
   rm |-> rm, shift |-> LSL, amount |-> 0, rs |-> NoReg, imm |-> 0, rotate |-> 0]

Shifting(ins, shift, amount, rs) ==
  [ins EXCEPT !.shift = shift, !.amount = amount, !.rs = rs]

Then(p, ins1, ins2) == arm_data_processing(arm_data_processing(p, ins1), ins2)

Reg(p, r) == arm_read_register(p, r)

-----------------------------------------------------------------------------
(* A comparison decides: after CMP the condition codes EQ, HS, HI, GE and  *)
(* GT (and their complements, the odd numbers) hold exactly when the two   *)
(* numbers, without or with a sign, are in that relation.  The flags come  *)
(* from dp_carry and overflow_from_sub, the conditions from                *)
(* instruction_check_condition: two files that must agree at every         *)
(* boundary of the word.                                                   *)

SignedValue(x) == IF Negative(x) THEN x - WordSize ELSE x

Relations(x, y) ==
  [cond \in {0, 2, 8, 10, 12} |->
     CASE cond = 0  -> x = y
       [] cond = 2  -> x >= y
       [] cond = 8  -> x > y
       [] cond = 10 -> SignedValue(x) >= SignedValue(y)
       [] cond = 12 -> SignedValue(x) > SignedValue(y)]

ComparisonDecides ==
  \A rn, rm \in Operands :
    LET q == arm_data_processing(core, DataOp("CMP", TRUE, 0, rn, rm))
    IN  \A cond \in {0, 2, 8, 10, 12} :
          /\ instruction_check_condition(q, cond)
               <=> Relations(Reg(core, rn), Reg(core, rm))[cond]
          /\ instruction_check_condition(q, cond + 1)
               <=> ~instruction_check_condition(q, cond)

-----------------------------------------------------------------------------
(* Numbers of two words: r1 r0 and r3 r2. *)

Pair(p, low, high) == <<Reg(p, low), Reg(p, high)>>

Below(a, b) == a[2] < b[2] \/ (a[2] = b[2] /\ a[1] < b[1])

(* Addition and subtraction of two words, low words first: ADDS with ADCS  *)
(* and SUBS with SBC undo each other, and the final carry says exactly     *)
(* when the sum has left the range (it is then below either operand).  The *)
(* carry is written by update_nzcv in one instruction and read by arm_read_c *)
(* in the next.                                                            *)
WideArithmetic ==
  LET sum  == Then(core, DataOp("ADD", TRUE, 0, 0, 2), DataOp("ADC", TRUE, 1, 1, 3))
      back == Then(sum,  DataOp("SUB", TRUE, 0, 0, 2), DataOp("SBC", FALSE, 1, 1, 3))
  IN  /\ Pair(back, 0, 1) = Pair(core, 0, 1)
      /\ FlagC(sum.cpsr) = 1 <=> Below(Pair(sum, 0, 1), Pair(core, 0, 1))
      /\ FlagC(sum.cpsr) = 1 <=> Below(Pair(sum, 0, 1), Pair(core, 2, 3))

(* A number of two words is halved by MOVS r1, r1, LSR #1 and              *)
(* MOVS r0, r0, RRX: doubling the result with ADDS and ADC, then adding    *)
(* the bit that fell out into the carry, gives the number back, whatever   *)
(* the carry was before (dp_lsr, dp_ror_rrx and dp_carry agree about which *)
(* bit goes through C).                                                    *)
WideHalving ==
  LET half   == Then(core, Shifting(DataOp("MOV", TRUE, 1, 0, 1), LSR, 1, NoReg),
                           Shifting(DataOp("MOV", TRUE, 0, 0, 0), ROR, 0, NoReg))
      double == Then(half, DataOp("ADC", TRUE, 0, 0, 0), DataOp("ADC", TRUE, 1, 1, 1))
  IN  /\ Pair(double, 0, 1) = Pair(core, 0, 1)
      /\ FlagC(double.cpsr) = 0

-----------------------------------------------------------------------------
(* The reference of the shifts that arm_data_processing.c keeps in a       *)
(* comment, lines 654-734, under "do not delete until the tests pass"      *)
(* (610).  Only what it says of a count of zero: an immediate zero is a    *)
(* right shift by the whole word (656-658, 682-688) or a rotation through  *)
(* the carry (713-715), a register that holds zero leaves the operand and  *)
(* the carry alone (666-668, 696-698, 723-725).                            *)

ZeroCountReference(p, shift, rm, rs) ==
  LET op == Reg(p, rm)
  IN  CASE rs # NoReg                  -> Shifted(op, FlagC(p.cpsr))
        [] rs = NoReg /\ shift = LSR   -> Shifted(0, Sign(op))
        [] rs = NoReg /\ shift = ASR   ->
             Shifted(IF Sign(op) = 1 THEN WordSize - 1 ELSE 0, Sign(op))
        [] rs = NoReg /\ shift = ROR   -> Shifted(RRX(p, op), get_bit(op, 0))

(* The shifter does what that reference says for a count of zero. *)
ZeroCountsAsReferenced ==
  \A shift \in {LSR, ASR, ROR}, rm \in Operands, rs \in Operands \cup {NoReg} :
    (rs = NoReg \/ Reg(core, rs) % 256 = 0) =>
      get_shifted(core, Shifting(DataOp("MOV", TRUE, 0, 0, rm), shift, 0, rs))
        = ZeroCountReference(core, shift, rm, rs)
=============================================================================
