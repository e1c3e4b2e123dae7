------------------------- MODULE ArmArithmetic_proof -------------------------
(***************************************************************************)
(* Comparisons and sums of two words, for every width of the words, every  *)
(* program and every content of the registers.                             *)
(***************************************************************************)
EXTENDS ArmArithmetic, ArmMachine_proof

(* The four flags are found again in the number that packs them.           *)
Packed(n, z, c, v) ==
  (IF n THEN 8 ELSE 0) + (IF z THEN 4 ELSE 0) + (IF c THEN 2 ELSE 0) + (IF v THEN 1 ELSE 0)

Unpacked(f, n, z, c, v) ==
  /\ f \in 0 .. 15
  /\ (f \div 8) % 2 = 1 <=> n
  /\ (f \div 4) % 2 = 1 <=> z
  /\ (f \div 2) % 2 = 1 <=> c
  /\ f % 2 = 1 <=> v

(* update_nzcv packs the flags so that arm_read_n to arm_read_v find them. *)
LEMMA FlagsPacked ==
  \A n, z, c, v \in BOOLEAN : Unpacked(Packed(n, z, c, v), n, z, c, v)
BY DEF Packed, Unpacked

(* What the four flags of the arithmetic operations and of a move say.     *)
Additive == {"CMP", "ADD", "ADC", "SUB", "SBC"}
Flagged  == Additive \cup {"MOV"}

FlagsWritten(psr, q, code, x, y, carry) ==
  q.cpsr = [psr EXCEPT !.flags =
              dp_flags(psr, code, x, y, dp_result(psr, code, x, y), carry)]

(* The flags that an operation leaves, read one by one.                    *)
LEMMA FlagsRead ==
  ASSUME NEW psr \in PSR, NEW code \in Flagged, NEW x \in Word, NEW y \in Word,
         NEW carry, NEW q,
         FlagsWritten(psr, q, code, x, y, carry)
  PROVE  /\ q.cpsr.flags \in 0 .. 15
         /\ FlagN(q.cpsr) = 1 <=> Negative(dp_result(psr, code, x, y))
         /\ FlagZ(q.cpsr) = 1 <=> dp_result(psr, code, x, y) = 0
         /\ FlagC(q.cpsr) = 1 <=> dp_carry(psr, code, x, y, carry)
         /\ FlagV(q.cpsr) = 1 <=> dp_overflow(psr, code, x, y, dp_result(psr, code, x, y))
<1> DEFINE res == dp_result(psr, code, x, y)
           f   == dp_flags(psr, code, x, y, res, carry)
           n == Negative(res)
           z == res = 0
           c == dp_carry(psr, code, x, y, carry)
           v == dp_overflow(psr, code, x, y, res)
<1>1. f = Packed(n, z, c, v)
  BY DEF dp_flags, Packed
<1>2. n \in BOOLEAN /\ z \in BOOLEAN
  BY DEF Negative
<1>3. c \in BOOLEAN
  <2>1. x \in Int /\ y \in Int /\ FlagC(psr) \in Int /\ WordSize \in Nat
    BY WordInt DEF FlagC, PSR
  <2>2. (y + FlagC(psr)) % WordSize \in Int
    BY <2>1, Wraps, WordInt
  <2> DEFINE late == (y + FlagC(psr)) % WordSize
  <2>3. /\ (x >= y) \in BOOLEAN /\ (x + y >= WordSize) \in BOOLEAN
        /\ (x + y + FlagC(psr) >= WordSize) \in BOOLEAN /\ (x >= late) \in BOOLEAN
        /\ (carry = 1) \in BOOLEAN
    BY <2>1, <2>2
  <2>4. \/ c = (x >= y) \/ c = (x + y >= WordSize)
        \/ c = (x + y + FlagC(psr) >= WordSize) \/ c = (x >= late)
        \/ c = (carry = 1)
    BY DEF dp_carry, Flagged, Additive, Logical
  <2> HIDE DEF c, late
  <2> QED
    BY <2>3, <2>4, Zenon
<1>4. v \in BOOLEAN
  BY DEF dp_overflow, overflow_from_add, overflow_from_sub, Flagged, Additive, Logical
<1>5. q.cpsr.flags = f
  BY DEF PSR, FlagsWritten
<1> HIDE DEF n, z, c, v, f
<1>6. Unpacked(f, n, z, c, v)
  BY <1>1, <1>2, <1>3, <1>4, FlagsPacked, Zenon
<1>7. /\ FlagN(q.cpsr) = (f \div 8) % 2 /\ FlagZ(q.cpsr) = (f \div 4) % 2
      /\ FlagC(q.cpsr) = (f \div 2) % 2 /\ FlagV(q.cpsr) = f % 2
  BY <1>5 DEF FlagN, FlagZ, FlagC, FlagV
<1>8. /\ n <=> Negative(dp_result(psr, code, x, y))
      /\ z <=> dp_result(psr, code, x, y) = 0
      /\ c <=> dp_carry(psr, code, x, y, carry)
      /\ v <=> dp_overflow(psr, code, x, y, dp_result(psr, code, x, y))
  BY DEF n, z, c, v
<1> QED
  BY <1>5, <1>6, <1>7, <1>8, Zenon DEF Unpacked

-----------------------------------------------------------------------------
(* A register operand that is not shifted. *)
LEMMA PlainOperand ==
  ASSUME NEW p \in Core, NEW code, NEW s, NEW rd, NEW rn \in RegNumber,
         NEW rm \in RegNumber
  PROVE  ShifterOperand(p, DataOp(code, s, rd, rn, rm)).value = Reg(p, rm)
<1> DEFINE ins == DataOp(code, s, rd, rn, rm)
<1>1. /\ ins.rm = rm /\ ins.rm # NoReg /\ ins.rs = NoReg
      /\ ins.shift = LSL /\ ins.amount = 0
  BY DEF DataOp, NoReg, RegNumber
<1>2. Reg(p, rm) \in Word
  BY ReadRegisterType DEF Reg
<1>3. Reg(p, rm) % WordSize = Reg(p, rm)
  BY <1>2, OneTurn, WordInt
<1> HIDE DEF ins
<1>4. get_shifted(p, ins) = Shifted(arm_read_register(p, rm), FlagC(p.cpsr))
  BY <1>1 DEF get_shifted, LSL, LSR, ASR, ROR
<1> QED
  BY <1>1, <1>3, <1>4 DEF ShifterOperand, Shifted, Reg, ins

(* CMP writes the four flags and nothing else. *)
LEMMA CompareEffect ==
  ASSUME NEW p \in Core, NEW rn \in RegNumber, NEW rm \in RegNumber
  PROVE  \E carry :
           FlagsWritten(p.cpsr, arm_data_processing(p, DataOp("CMP", TRUE, 0, rn, rm)),
                        "CMP", Reg(p, rn), Reg(p, rm), carry)
<1> DEFINE ins == DataOp("CMP", TRUE, 0, rn, rm)
           op2 == ShifterOperand(p, ins)
           value == dp_result(p.cpsr, "CMP", Reg(p, rn), Reg(p, rm))
           flags == dp_flags(p.cpsr, "CMP", Reg(p, rn), Reg(p, rm), value, op2.carry)
<1>1. ins.code = "CMP" /\ ins.rn = rn
  BY DEF DataOp
<1>2. op2.value = Reg(p, rm)
  BY PlainOperand
<1> HIDE DEF ins, op2
<1>3. arm_data_processing(p, ins) = update_nzcv(p, flags)
  BY <1>1, <1>2 DEF arm_data_processing, dp_operation, dp_write, Tests, Reg, op2
<1>4. update_nzcv(p, flags).cpsr = [p.cpsr EXCEPT !.flags = flags]
  BY FlagsType, UpdateFlags DEF update_nzcv, Core
<1> QED
  BY <1>3, <1>4 DEF ins, FlagsWritten

(* What the conditions of a comparison read. *)
LEMMA Conditions ==
  ASSUME NEW q
  PROVE  /\ instruction_check_condition(q, 0) <=> FlagZ(q.cpsr) = 1
         /\ instruction_check_condition(q, 2) <=> FlagC(q.cpsr) = 1
         /\ instruction_check_condition(q, 8) <=> FlagC(q.cpsr) = 1 /\ FlagZ(q.cpsr) # 1
         /\ instruction_check_condition(q, 10) <=> (FlagN(q.cpsr) = 1 <=> FlagV(q.cpsr) = 1)
         /\ instruction_check_condition(q, 12) <=>
              FlagZ(q.cpsr) # 1 /\ (FlagN(q.cpsr) = 1 <=> FlagV(q.cpsr) = 1)
         /\ \A cond \in {0, 2, 8, 10, 12} :
              instruction_check_condition(q, cond + 1) <=> ~instruction_check_condition(q, cond)
<1> DEFINE n == FlagN(q.cpsr) = 1
           z == FlagZ(q.cpsr) = 1
           c == FlagC(q.cpsr) = 1
           v == FlagV(q.cpsr) = 1
           holds == <<z, c, n, v, c /\ ~z, n = v, ~z /\ n = v, TRUE>>
<1>1. \A cond \in 0 .. 15 :
        instruction_check_condition(q, cond) = (holds[(cond \div 2) + 1] = (cond % 2 = 0))
  BY DEF instruction_check_condition
<1>2. /\ n \in BOOLEAN /\ z \in BOOLEAN /\ c \in BOOLEAN /\ v \in BOOLEAN
  OBVIOUS
<1>3. /\ holds[1] = z /\ holds[2] = c /\ holds[5] = (c /\ ~z)
      /\ holds[6] = (n = v) /\ holds[7] = (~z /\ n = v)
  OBVIOUS
<1>4. /\ instruction_check_condition(q, 0) = (holds[1] = TRUE)
      /\ instruction_check_condition(q, 1) = (holds[1] = FALSE)
      /\ instruction_check_condition(q, 2) = (holds[2] = TRUE)
      /\ instruction_check_condition(q, 3) = (holds[2] = FALSE)
      /\ instruction_check_condition(q, 8) = (holds[5] = TRUE)
      /\ instruction_check_condition(q, 9) = (holds[5] = FALSE)
      /\ instruction_check_condition(q, 10) = (holds[6] = TRUE)
      /\ instruction_check_condition(q, 11) = (holds[6] = FALSE)
      /\ instruction_check_condition(q, 12) = (holds[7] = TRUE)
      /\ instruction_check_condition(q, 13) = (holds[7] = FALSE)
  <2> HIDE DEF holds
  <2>1. \A cond \in 0 .. 15, i \in 1 .. 8 :
          (cond \div 2) + 1 = i =>
            instruction_check_condition(q, cond) = (holds[i] = (cond % 2 = 0))
    BY <1>1, Zenon
  <2>2. /\ (0 \div 2) + 1 = 1 /\ (1 \div 2) + 1 = 1
        /\ (2 \div 2) + 1 = 2 /\ (3 \div 2) + 1 = 2
        /\ (8 \div 2) + 1 = 5 /\ (9 \div 2) + 1 = 5
        /\ (10 \div 2) + 1 = 6 /\ (11 \div 2) + 1 = 6
        /\ (12 \div 2) + 1 = 7 /\ (13 \div 2) + 1 = 7
    OBVIOUS
  <2>3. /\ \A k \in {0, 1, 2, 3, 8, 9, 10, 11, 12, 13} : k \in 0 .. 15
        /\ \A k \in {1, 2, 5, 6, 7} : k \in 1 .. 8
    OBVIOUS
  <2>4. /\ (0 % 2 = 0) = TRUE /\ (1 % 2 = 0) = FALSE
        /\ (2 % 2 = 0) = TRUE /\ (3 % 2 = 0) = FALSE
        /\ (8 % 2 = 0) = TRUE /\ (9 % 2 = 0) = FALSE
        /\ (10 % 2 = 0) = TRUE /\ (11 % 2 = 0) = FALSE
        /\ (12 % 2 = 0) = TRUE /\ (13 % 2 = 0) = FALSE
    OBVIOUS
  <2>5. /\ instruction_check_condition(q, 0) = (holds[1] = TRUE)
        /\ instruction_check_condition(q, 1) = (holds[1] = FALSE)
    BY <2>1, <2>2, <2>3, <2>4, Zenon
  <2>6. /\ instruction_check_condition(q, 2) = (holds[2] = TRUE)
        /\ instruction_check_condition(q, 3) = (holds[2] = FALSE)
    BY <2>1, <2>2, <2>3, <2>4, Zenon
  <2>7. /\ instruction_check_condition(q, 8) = (holds[5] = TRUE)
        /\ instruction_check_condition(q, 9) = (holds[5] = FALSE)
    BY <2>1, <2>2, <2>3, <2>4, Zenon
  <2>8. /\ instruction_check_condition(q, 10) = (holds[6] = TRUE)
        /\ instruction_check_condition(q, 11) = (holds[6] = FALSE)
    BY <2>1, <2>2, <2>3, <2>4, Zenon
  <2>9. /\ instruction_check_condition(q, 12) = (holds[7] = TRUE)
        /\ instruction_check_condition(q, 13) = (holds[7] = FALSE)
    BY <2>1, <2>2, <2>3, <2>4, Zenon
  <2> QED
    BY <2>5, <2>6, <2>7, <2>8, <2>9, Zenon
<1>5. \A cond \in {0, 2, 8, 10, 12} : cond + 1 \in {1, 3, 9, 11, 13}
  OBVIOUS
<1> HIDE DEF holds, n, z, c, v
<1>6. /\ instruction_check_condition(q, 0) = z
      /\ instruction_check_condition(q, 1) = ~z
      /\ instruction_check_condition(q, 2) = c
      /\ instruction_check_condition(q, 3) = ~c
      /\ instruction_check_condition(q, 8) = (c /\ ~z)
      /\ instruction_check_condition(q, 9) = ~(c /\ ~z)
      /\ instruction_check_condition(q, 10) = (n = v)
      /\ instruction_check_condition(q, 11) = ~(n = v)
      /\ instruction_check_condition(q, 12) = (~z /\ n = v)
      /\ instruction_check_condition(q, 13) = ~(~z /\ n = v)
  BY <1>2, <1>3, <1>4, Zenon
<1>7. \A cond \in {0, 2, 8, 10, 12} :
        instruction_check_condition(q, cond + 1) <=> ~instruction_check_condition(q, cond)
  <2>1. 0 + 1 = 1 /\ 2 + 1 = 3 /\ 8 + 1 = 9 /\ 10 + 1 = 11 /\ 12 + 1 = 13
    OBVIOUS
  <2> QED
    BY <1>6, <2>1, Zenon
<1> QED
  BY <1>2, <1>6, <1>7, Zenon DEF n, z, c, v

(* N = V after a subtraction orders the numbers with a sign.               *)
LEMMA SignedOrder ==
  ASSUME NEW x \in Word, NEW y \in Word, NEW res, res = (x - y) % WordSize
  PROVE  /\ (Negative(res) <=> overflow_from_sub(x, y, res))
              <=> SignedValue(x) >= SignedValue(y)
         /\ res = 0 <=> x = y
         /\ SignedValue(x) = SignedValue(y) <=> x = y
<1>1. x \in 0 .. WordSize - 1 /\ y \in 0 .. WordSize - 1 /\ WordSize \in Nat
  BY Sizes DEF Word
<1>2. res = IF x >= y THEN x - y ELSE x - y + WordSize
  BY OneTurn
<1> HIDE DEF WordSize
<1> QED
  BY <1>1, <1>2 DEF Negative, overflow_from_sub, SignedValue

-----------------------------------------------------------------------------
(* The registers that are compared and added are registers.                *)
LEMMA OperandRegisters == \A r \in Operands : r \in RegNumber
BY DEF Operands, RegNumber

(* A comparison decides in every state of the right type.                  *)
LEMMA Comparison ==
  ASSUME TypeOK
  PROVE  ComparisonDecides
<1> SUFFICES ASSUME NEW rn \in Operands, NEW rm \in Operands
             PROVE  LET q == arm_data_processing(core, DataOp("CMP", TRUE, 0, rn, rm))
                    IN  \A cond \in {0, 2, 8, 10, 12} :
                          /\ instruction_check_condition(q, cond)
                               <=> Relations(Reg(core, rn), Reg(core, rm))[cond]
                          /\ instruction_check_condition(q, cond + 1)
                               <=> ~instruction_check_condition(q, cond)
  BY DEF ComparisonDecides
<1> DEFINE q == arm_data_processing(core, DataOp("CMP", TRUE, 0, rn, rm))
           x == Reg(core, rn)
           y == Reg(core, rm)
           res == (x - y) % WordSize
<1>1. core \in Core /\ core.cpsr \in PSR
  BY CoreFields DEF TypeOK
<1>2. x \in Word /\ y \in Word
  BY <1>1, OperandRegisters, ReadRegisterType DEF Reg
<1>3. PICK carry : FlagsWritten(core.cpsr, q, "CMP", x, y, carry)
  BY <1>1, OperandRegisters, CompareEffect
<1> HIDE DEF q, x, y
<1>4. "CMP" \in Flagged
  BY DEF Flagged, Additive
<1>5. /\ dp_result(core.cpsr, "CMP", x, y) = res
      /\ dp_carry(core.cpsr, "CMP", x, y, carry) = (x >= y)
      /\ dp_overflow(core.cpsr, "CMP", x, y, res) = overflow_from_sub(x, y, res)
  BY DEF dp_result, dp_carry, dp_overflow, Logical
<1>6. /\ FlagN(q.cpsr) = 1 <=> Negative(res)
      /\ FlagZ(q.cpsr) = 1 <=> res = 0
      /\ FlagC(q.cpsr) = 1 <=> x >= y
      /\ FlagV(q.cpsr) = 1 <=> overflow_from_sub(x, y, res)
  <2>1. /\ FlagN(q.cpsr) = 1 <=> Negative(dp_result(core.cpsr, "CMP", x, y))
        /\ FlagZ(q.cpsr) = 1 <=> dp_result(core.cpsr, "CMP", x, y) = 0
        /\ FlagC(q.cpsr) = 1 <=> dp_carry(core.cpsr, "CMP", x, y, carry)
        /\ FlagV(q.cpsr) = 1 <=>
             dp_overflow(core.cpsr, "CMP", x, y, dp_result(core.cpsr, "CMP", x, y))
    BY <1>1, <1>2, <1>3, <1>4, FlagsRead, Zenon
  <2> QED
    BY <2>1, <1>5, Zenon
<1>7. /\ (Negative(res) <=> overflow_from_sub(x, y, res))
           <=> SignedValue(x) >= SignedValue(y)
      /\ res = 0 <=> x = y
      /\ SignedValue(x) = SignedValue(y) <=> x = y
  <2> HIDE DEF res
  <2> QED
    BY <1>2, SignedOrder DEF res
<1> HIDE DEF res
<1>8. /\ x > y <=> x >= y /\ x # y
      /\ SignedValue(x) > SignedValue(y) <=>
           SignedValue(x) >= SignedValue(y) /\ SignedValue(x) # SignedValue(y)
  BY <1>2, WordInt DEF SignedValue
<1>9. /\ instruction_check_condition(q, 0) <=> x = y
      /\ instruction_check_condition(q, 2) <=> x >= y
      /\ instruction_check_condition(q, 8) <=> x > y
      /\ instruction_check_condition(q, 10) <=> SignedValue(x) >= SignedValue(y)
      /\ instruction_check_condition(q, 12) <=> SignedValue(x) > SignedValue(y)
  BY <1>6, <1>7, <1>8, Conditions, Zenon
<1>10. /\ Relations(x, y)[0] = (x = y)
       /\ Relations(x, y)[2] = (x >= y)
       /\ Relations(x, y)[8] = (x > y)
       /\ Relations(x, y)[10] = (SignedValue(x) >= SignedValue(y))
       /\ Relations(x, y)[12] = (SignedValue(x) > SignedValue(y))
  BY DEF Relations
<1>11. \A cond \in {0, 2, 8, 10, 12} :
         instruction_check_condition(q, cond) <=> Relations(x, y)[cond]
  BY <1>9, <1>10, Zenon
<1> QED
  BY <1>11, Conditions DEF q, x, y

(* After CMP every condition decides the relation of the two numbers, with *)
(* and without sign, for every width of the words and in every reachable   *)
(* state (cmp, overflow_from_sub, instruction_check_condition).            *)
THEOREM ComparisonHolds == Spec => []ComparisonDecides
<1>1. TypeOK => ComparisonDecides
  BY Comparison
<1> QED
  BY <1>1, TypeCorrect, PTL

-----------------------------------------------------------------------------
(* The registers that are added have no banks. *)
LEMMA RegIsStorage ==
  ASSUME NEW p \in Core, NEW r \in Operands
  PROVE  /\ Reg(p, r) = p.storage[r]
         /\ registers(p.cpsr.mode, r) = r
         /\ Reg(p, r) \in Word
<1>1. registers(p.cpsr.mode, r) = r /\ r # PC
  BY DEF registers, Operands, SP, LR, PC
<1>2. Reg(p, r) \in Word
  BY OperandRegisters, ReadRegisterType DEF Reg
<1> QED
  BY <1>1, <1>2 DEF Reg, arm_read_register

(* One instruction of a long sum or difference: what it writes and what it *)
(* leaves alone.                                                           *)
Calculated(p, q, code, s, rd, rn, rm) ==
  /\ q \in Core
  /\ Reg(q, rd) = dp_result(p.cpsr, code, Reg(p, rn), Reg(p, rm))
  /\ \A r \in Operands \ {rd} : Reg(q, r) = Reg(p, r)
  /\ s => \E carry : FlagsWritten(p.cpsr, q, code, Reg(p, rn), Reg(p, rm), carry)

Carrying == {"ADD", "ADC", "SUB", "SBC"}

(* Addition and subtraction write their destination and the flags.         *)
LEMMA DataOpEffect ==
  ASSUME NEW p \in Core, NEW code \in Carrying, NEW s \in BOOLEAN,
         NEW rd \in Operands, NEW rn \in Operands, NEW rm \in Operands
  PROVE  Calculated(p, arm_data_processing(p, DataOp(code, s, rd, rn, rm)),
                  code, s, rd, rn, rm)
<1> DEFINE ins == DataOp(code, s, rd, rn, rm)
           op2 == ShifterOperand(p, ins)
           value == dp_result(p.cpsr, code, Reg(p, rn), Reg(p, rm))
           flags == dp_flags(p.cpsr, code, Reg(p, rn), Reg(p, rm), value, op2.carry)
           mid   == IF s THEN update_nzcv(p, flags) ELSE p
           q     == arm_write_register(mid, rd, value)
<1>1. /\ ins.code = code /\ ins.rn = rn /\ ins.rd = rd /\ ins.s = s
      /\ code \notin Tests /\ code \notin {"MOV", "MVN"} /\ code \in Codes
      /\ rd # PC
  BY DEF DataOp, Tests, Carrying, Codes, Operands, PC
<1>2. rn \in RegNumber /\ rm \in RegNumber /\ rd \in RegNumber
  BY OperandRegisters
<1>3. op2.value = Reg(p, rm)
  BY <1>2, PlainOperand
<1>4. Reg(p, rn) \in Word /\ Reg(p, rm) \in Word
  BY RegIsStorage
<1>5. value \in Word
  BY <1>1, <1>4, ResultType
<1>6. flags \in 0 .. 15 /\ 0 \in Bit
  BY FlagsType DEF Bit
<1> HIDE DEF ins, op2, value, flags
<1>7. arm_data_processing(p, ins) = q
  BY <1>1, <1>3 DEF arm_data_processing, dp_operation, dp_write, Reg, op2, value, flags
<1>8. StatusWritten(p, update_nzcv(p, flags), [p.cpsr EXCEPT !.flags = flags])
  BY <1>6, UpdateFlags
<1>9. /\ mid \in Core /\ mid.storage = p.storage /\ mid.cpsr.mode = p.cpsr.mode
      /\ s => mid.cpsr = [p.cpsr EXCEPT !.flags = flags]
  <2>1. p.cpsr \in PSR
    BY CoreFields
  <2>2. [p.cpsr EXCEPT !.flags = flags].mode = p.cpsr.mode
    BY <2>1 DEF PSR
  <2> QED
    BY <1>8, <2>2 DEF StatusWritten
<1> HIDE DEF mid
<1>10. RegisterWritten(mid, q, rd, value)
  BY <1>2, <1>5, <1>9, WriteRegister
<1> HIDE DEF q
<1>11. /\ q \in Core /\ q.cpsr = mid.cpsr
       /\ q.storage[rd] = value
       /\ \A r \in Operands \ {rd} : q.storage[r] = p.storage[r]
  <2>1. registers(mid.cpsr.mode, rd) = rd
    BY <1>9, RegIsStorage
  <2>2. Operands \subseteq 0 .. 30
    BY DEF Operands
  <2> QED
    BY <1>9, <1>10, <2>1, <2>2 DEF RegisterWritten
<1>12. /\ Reg(q, rd) = value
       /\ \A r \in Operands \ {rd} : Reg(q, r) = Reg(p, r)
  BY <1>11, RegIsStorage
<1>13. s => FlagsWritten(p.cpsr, q, code, Reg(p, rn), Reg(p, rm), op2.carry)
  BY <1>9, <1>11 DEF FlagsWritten, flags, value
<1> QED
  BY <1>7, <1>11, <1>12, <1>13 DEF Calculated, ins, value

(* The carry of a long sum or difference in numbers.                       *)
CarryFrom(p, q, code, rn, rm) ==
  /\ FlagC(q.cpsr) \in Bit
  /\ code = "ADD" =>
       (FlagC(q.cpsr) = 1 <=> Reg(p, rn) + Reg(p, rm) >= WordSize)
  /\ code = "ADC" =>
       (FlagC(q.cpsr) = 1 <=> Reg(p, rn) + Reg(p, rm) + FlagC(p.cpsr) >= WordSize)
  /\ code = "SUB" => (FlagC(q.cpsr) = 1 <=> Reg(p, rn) >= Reg(p, rm))

(* add, adc and sub set C to the carry of the numbers they add or subtract. *)
LEMMA CarryOf ==
  ASSUME NEW p \in Core, NEW q, NEW code \in Carrying, NEW rd, NEW rn \in Operands,
         NEW rm \in Operands, Calculated(p, q, code, TRUE, rd, rn, rm)
  PROVE  CarryFrom(p, q, code, rn, rm)
<1> DEFINE x == Reg(p, rn)
           y == Reg(p, rm)
<1>1. PICK carry : FlagsWritten(p.cpsr, q, code, x, y, carry)
  BY DEF Calculated
<1>2. x \in Word /\ y \in Word /\ p.cpsr \in PSR /\ code \in Flagged
  BY RegIsStorage, CoreFields DEF Carrying, Flagged, Additive
<1> HIDE DEF x, y
<1>3. FlagC(q.cpsr) = 1 <=> dp_carry(p.cpsr, code, x, y, carry)
  BY <1>1, <1>2, FlagsRead, Zenon
<1>4. /\ code = "ADD" => dp_carry(p.cpsr, code, x, y, carry) = (x + y >= WordSize)
      /\ code = "ADC" => dp_carry(p.cpsr, code, x, y, carry)
                           = (x + y + FlagC(p.cpsr) >= WordSize)
      /\ code = "SUB" => dp_carry(p.cpsr, code, x, y, carry) = (x >= y)
  BY DEF dp_carry, Logical
<1>5. FlagC(q.cpsr) \in Bit
  BY FlagCType DEF Calculated
<1> QED
  BY <1>3, <1>4, <1>5, Zenon DEF x, y, CarryFrom

(* The arithmetic of a sum of two words and of the difference that undoes  *)
(* it: c1 and c2 are the carries, c3 is the carry of the lower difference. *)
LEMMA WideNumbers ==
  ASSUME NEW a0 \in Word, NEW a1 \in Word, NEW b0 \in Word, NEW b1 \in Word,
         NEW c1 \in Bit, NEW c2 \in Bit, NEW c3 \in Bit, NEW s0, NEW s1,
         s0 = (a0 + b0) % WordSize,        c1 = 1 <=> a0 + b0 >= WordSize,
         s1 = (a1 + b1 + c1) % WordSize,   c2 = 1 <=> a1 + b1 + c1 >= WordSize,
         c3 = 1 <=> s0 >= b0
  PROVE  /\ (s0 - b0) % WordSize = a0
         /\ (s1 - b1 - (1 - c3)) % WordSize = a1
         /\ c2 = 1 <=> s1 < a1 \/ (s1 = a1 /\ s0 < a0)
         /\ c2 = 1 <=> s1 < b1 \/ (s1 = b1 /\ s0 < b0)
<1>1. /\ a0 \in 0 .. WordSize - 1 /\ a1 \in 0 .. WordSize - 1
      /\ b0 \in 0 .. WordSize - 1 /\ b1 \in 0 .. WordSize - 1
      /\ WordSize \in Nat /\ WordSize > 0
      /\ c1 \in 0 .. 1 /\ c2 \in 0 .. 1 /\ c3 \in 0 .. 1
  BY Sizes DEF Word, Bit
<1> HIDE DEF WordSize
<1>2. s0 = a0 + b0 - c1 * WordSize
  <2>1. (a0 + b0) % WordSize = IF a0 + b0 >= WordSize THEN a0 + b0 - WordSize ELSE a0 + b0
    BY <1>1, WithinOneTurn
  <2>2. CASE c1 = 1
    BY <1>1, <2>1, <2>2
  <2>3. CASE c1 = 0
    BY <1>1, <2>1, <2>3
  <2> QED
    BY <1>1, <2>2, <2>3
<1>3. s1 = a1 + b1 + c1 - c2 * WordSize
  <2>1. (a1 + b1 + c1) % WordSize =
          IF a1 + b1 + c1 >= WordSize THEN a1 + b1 + c1 - WordSize ELSE a1 + b1 + c1
    BY <1>1, WithinOneTurn
  <2>2. CASE c2 = 1
    BY <1>1, <2>1, <2>2
  <2>3. CASE c2 = 0
    BY <1>1, <2>1, <2>3
  <2> QED
    BY <1>1, <2>2, <2>3
<1>4. c3 = 1 - c1
  <2>1. CASE c1 = 1
    BY <1>1, <1>2, <2>1
  <2>2. CASE c1 = 0
    BY <1>1, <1>2, <2>2
  <2> QED
    BY <1>1, <2>1, <2>2
<1>5. (s0 - b0) % WordSize = a0
  <2>1. CASE c1 = 1
    <3>1. s0 - b0 = a0 - WordSize
      BY <1>1, <1>2, <2>1
    <3> QED
      BY <1>1, <3>1, WithinOneTurn
  <2>2. CASE c1 = 0
    <3>1. s0 - b0 = a0
      BY <1>1, <1>2, <2>2
    <3> QED
      BY <1>1, <3>1, WithinOneTurn
  <2> QED
    BY <1>1, <2>1, <2>2
<1>6. (s1 - b1 - (1 - c3)) % WordSize = a1
  <2>1. CASE c2 = 1
    <3>1. s1 - b1 - (1 - c3) = a1 - WordSize
      BY <1>1, <1>3, <1>4, <2>1
    <3> QED
      BY <1>1, <3>1, WithinOneTurn
  <2>2. CASE c2 = 0
    <3>1. s1 - b1 - (1 - c3) = a1
      BY <1>1, <1>3, <1>4, <2>2
    <3> QED
      BY <1>1, <3>1, WithinOneTurn
  <2> QED
    BY <1>1, <2>1, <2>2
<1>7. /\ c2 = 1 <=> s1 < a1 \/ (s1 = a1 /\ s0 < a0)
      /\ c2 = 1 <=> s1 < b1 \/ (s1 = b1 /\ s0 < b0)
  <2>1. CASE c1 = 1 /\ c2 = 1
    BY <1>1, <1>2, <1>3, <2>1
  <2>2. CASE c1 = 1 /\ c2 = 0
    BY <1>1, <1>2, <1>3, <2>2
  <2>3. CASE c1 = 0 /\ c2 = 1
    BY <1>1, <1>2, <1>3, <2>3
  <2>4. CASE c1 = 0 /\ c2 = 0
    BY <1>1, <1>2, <1>3, <2>4
  <2> QED
    BY <1>1, <2>1, <2>2, <2>3, <2>4
<1> QED
  BY <1>5, <1>6, <1>7

(* Sums and differences of two words in every state of the right type.     *)
LEMMA WideSum ==
  ASSUME TypeOK
  PROVE  WideArithmetic
<1> DEFINE q1 == arm_data_processing(core, DataOp("ADD", TRUE, 0, 0, 2))
           q2 == arm_data_processing(q1, DataOp("ADC", TRUE, 1, 1, 3))
           q3 == arm_data_processing(q2, DataOp("SUB", TRUE, 0, 0, 2))
           q4 == arm_data_processing(q3, DataOp("SBC", FALSE, 1, 1, 3))
           a0 == Reg(core, 0)
           a1 == Reg(core, 1)
           b0 == Reg(core, 2)
           b1 == Reg(core, 3)
           s0 == Reg(q2, 0)
           s1 == Reg(q2, 1)
           c1 == FlagC(q1.cpsr)
           c2 == FlagC(q2.cpsr)
           c3 == FlagC(q3.cpsr)
<1>0. core \in Core
  BY DEF TypeOK
<1>1. /\ 0 \in Operands /\ 1 \in Operands /\ 2 \in Operands /\ 3 \in Operands
      /\ "ADD" \in Carrying /\ "ADC" \in Carrying /\ "SUB" \in Carrying
      /\ "SBC" \in Carrying
  BY DEF Operands, Carrying
<1>2. Calculated(core, q1, "ADD", TRUE, 0, 0, 2)
  BY <1>0, <1>1, DataOpEffect
<1> HIDE DEF q1
<1>3. Calculated(q1, q2, "ADC", TRUE, 1, 1, 3)
  BY <1>1, <1>2, DataOpEffect DEF Calculated
<1> HIDE DEF q2
<1>4. Calculated(q2, q3, "SUB", TRUE, 0, 0, 2)
  BY <1>1, <1>3, DataOpEffect DEF Calculated
<1> HIDE DEF q3
<1>5. Calculated(q3, q4, "SBC", FALSE, 1, 1, 3)
  <2>1. q3 \in Core /\ FALSE \in BOOLEAN
    BY <1>4 DEF Calculated
  <2> QED
    BY <1>1, <2>1, DataOpEffect
<1> HIDE DEF q4
<1>6. q1 \in Core /\ q2 \in Core /\ q3 \in Core /\ q4 \in Core
  BY <1>2, <1>3, <1>4, <1>5 DEF Calculated
<1>7. /\ Reg(q1, 0) = (a0 + b0) % WordSize
      /\ Reg(q1, 1) = a1 /\ Reg(q1, 2) = b0 /\ Reg(q1, 3) = b1
  BY <1>1, <1>2 DEF Calculated, dp_result
<1>8. /\ s1 = (a1 + b1 + c1) % WordSize
      /\ s0 = (a0 + b0) % WordSize /\ Reg(q2, 2) = b0 /\ Reg(q2, 3) = b1
  BY <1>1, <1>3, <1>7 DEF Calculated, dp_result
<1>9. /\ Reg(q3, 0) = (s0 - b0) % WordSize
      /\ Reg(q3, 1) = s1 /\ Reg(q3, 2) = b0 /\ Reg(q3, 3) = b1
  BY <1>1, <1>4, <1>8 DEF Calculated, dp_result
<1>10. /\ Reg(q4, 1) = (s1 - b1 - (1 - c3)) % WordSize
       /\ Reg(q4, 0) = (s0 - b0) % WordSize
  BY <1>1, <1>5, <1>9 DEF Calculated, dp_result
<1>11. c1 \in Bit /\ (c1 = 1 <=> a0 + b0 >= WordSize)
  BY <1>0, <1>1, <1>2, CarryOf DEF CarryFrom
<1>12. c2 \in Bit /\ (c2 = 1 <=> a1 + b1 + c1 >= WordSize)
  <2>1. c2 \in Bit /\ (c2 = 1 <=> Reg(q1, 1) + Reg(q1, 3) + FlagC(q1.cpsr) >= WordSize)
    <3>1. CarryFrom(q1, q2, "ADC", 1, 3)
      BY <1>1, <1>3, <1>6, CarryOf, Zenon
    <3> QED
      BY <3>1 DEF CarryFrom
  <2> QED
    BY <1>7, <2>1
<1>13. c3 \in Bit /\ (c3 = 1 <=> s0 >= b0)
  <2>1. c3 \in Bit /\ (c3 = 1 <=> Reg(q2, 0) >= Reg(q2, 2))
    BY <1>1, <1>4, <1>6, CarryOf DEF CarryFrom
  <2> QED
    BY <1>8, <2>1
<1>14. a0 \in Word /\ a1 \in Word /\ b0 \in Word /\ b1 \in Word
  BY <1>0, <1>1, RegIsStorage
<1> HIDE DEF a0, a1, b0, b1, s0, s1, c1, c2, c3
<1>15. /\ (s0 - b0) % WordSize = a0
       /\ (s1 - b1 - (1 - c3)) % WordSize = a1
       /\ c2 = 1 <=> s1 < a1 \/ (s1 = a1 /\ s0 < a0)
       /\ c2 = 1 <=> s1 < b1 \/ (s1 = b1 /\ s0 < b0)
  BY <1>8, <1>11, <1>12, <1>13, <1>14, WideNumbers
<1>16. Pair(q4, 0, 1) = Pair(core, 0, 1)
  BY <1>10, <1>15 DEF Pair, a0, a1
<1>17. /\ FlagC(q2.cpsr) = 1 <=> Below(Pair(q2, 0, 1), Pair(core, 0, 1))
       /\ FlagC(q2.cpsr) = 1 <=> Below(Pair(q2, 0, 1), Pair(core, 2, 3))
  BY <1>15 DEF Pair, Below, a0, a1, b0, b1, s0, s1, c2
<1> QED
  BY <1>16, <1>17 DEF WideArithmetic, Then, q1, q2, q3, q4

(* Sums of two words carry exactly when they leave the range and are       *)
(* undone by differences of two words, for every width of the words and in *)
(* every reachable state (add, adc, sub, sbc, update_nzcv, arm_read_c).    *)
THEOREM WideArithmeticHolds == Spec => []WideArithmetic
<1>1. TypeOK => WideArithmetic
  BY WideSum
<1> QED
  BY <1>1, TypeCorrect, PTL
-----------------------------------------------------------------------------
(* What MOVS leaves: the operand in its destination, and C as the shifter  *)
(* has put it out.                                                         *)
ShiftedInto(p, q, rd, op2) ==
  /\ q \in Core
  /\ Reg(q, rd) = op2.value
  /\ \A r \in Operands \ {rd} : Reg(q, r) = Reg(p, r)
  /\ FlagC(q.cpsr) \in Bit
  /\ FlagC(q.cpsr) = 1 <=> op2.carry = 1

(* MOVS writes its destination and the flags. *)
LEMMA MoveEffect ==
  ASSUME NEW p \in Core, NEW rd \in Operands, NEW rm \in Operands,
         NEW shift \in Shift, NEW amount \in Amount, NEW op2,
         op2 = ShifterOperand(p, Shifting(DataOp("MOV", TRUE, rd, 0, rm),
                                          shift, amount, NoReg)),
         op2.value \in Word
  PROVE  ShiftedInto(p, arm_data_processing(p, Shifting(DataOp("MOV", TRUE, rd, 0, rm),
                                                  shift, amount, NoReg)), rd, op2)
<1> DEFINE ins   == Shifting(DataOp("MOV", TRUE, rd, 0, rm), shift, amount, NoReg)
           value == op2.value
           flags == dp_flags(p.cpsr, "MOV", 0, value, value, op2.carry)
           mid   == update_nzcv(p, flags)
           q     == arm_write_register(mid, rd, value)
<1>1. /\ ins.code = "MOV" /\ ins.rd = rd /\ ins.s = TRUE
      /\ "MOV" \notin Tests /\ rd # PC
  BY DEF DataOp, Shifting, Tests, Operands, PC
<1>2. rd \in RegNumber /\ 0 \in Word /\ p.cpsr \in PSR /\ "MOV" \in Flagged
  BY OperandRegisters, WordInt, CoreFields DEF Flagged
<1>3. dp_result(p.cpsr, "MOV", 0, value) = value
  BY DEF dp_result
<1>4. flags \in 0 .. 15 /\ 0 \in Bit
  <2>1. flags \in 0 .. 15
    BY FlagsType
  <2> HIDE DEF flags
  <2> QED
    BY <2>1 DEF Bit
<1> HIDE DEF ins, value, flags
<1>5. arm_data_processing(p, ins) = q
  BY <1>1, <1>3 DEF arm_data_processing, dp_operation, dp_write, ins, value, flags
<1>6. StatusWritten(p, mid, [p.cpsr EXCEPT !.flags = flags])
  BY <1>4, UpdateFlags
<1>7. /\ mid \in Core /\ mid.storage = p.storage /\ mid.cpsr.mode = p.cpsr.mode
      /\ mid.cpsr = [p.cpsr EXCEPT !.flags = flags]
  <2>1. [p.cpsr EXCEPT !.flags = flags].mode = p.cpsr.mode
    BY <1>2 DEF PSR
  <2> QED
    BY <1>6, <2>1 DEF StatusWritten
<1> HIDE DEF mid
<1>8. value \in Word
  BY DEF value
<1>9. RegisterWritten(mid, q, rd, value)
  BY <1>2, <1>7, <1>8, WriteRegister
<1> HIDE DEF q
<1>10. /\ q \in Core /\ q.cpsr = mid.cpsr
       /\ q.storage[rd] = value
       /\ \A r \in Operands \ {rd} : q.storage[r] = p.storage[r]
  <2>1. registers(mid.cpsr.mode, rd) = rd
    BY <1>7, RegIsStorage
  <2>2. Operands \subseteq 0 .. 30
    BY DEF Operands
  <2> QED
    BY <1>7, <1>9, <2>1, <2>2 DEF RegisterWritten
<1>11. /\ Reg(q, rd) = value
       /\ \A r \in Operands \ {rd} : Reg(q, r) = Reg(p, r)
  BY <1>10, RegIsStorage
<1>12. FlagsWritten(p.cpsr, q, "MOV", 0, value, op2.carry)
  BY <1>3, <1>7, <1>10 DEF FlagsWritten, flags
<1>13. FlagC(q.cpsr) = 1 <=> dp_carry(p.cpsr, "MOV", 0, value, op2.carry)
  BY <1>2, <1>8, <1>12, FlagsRead, Zenon
<1>14. dp_carry(p.cpsr, "MOV", 0, value, op2.carry) = (op2.carry = 1)
  BY DEF dp_carry, Logical
<1>15. FlagC(q.cpsr) \in Bit
  BY <1>10, FlagCType
<1>16. FlagC(q.cpsr) = 1 <=> op2.carry = 1
  BY <1>13, <1>14, Zenon
<1> QED
  BY <1>5, <1>10, <1>11, <1>15, <1>16 DEF ShiftedInto, ins, value

(* A shift by one, and a rotation through the carry.                       *)
LEMMA ShiftByOne ==
  ASSUME NEW p \in Core, NEW code, NEW rd, NEW rm \in Operands
  PROVE  /\ ShifterOperand(p, Shifting(DataOp(code, TRUE, rd, 0, rm), LSR, 1, NoReg))
              = Shifted(Reg(p, rm) \div 2, Reg(p, rm) % 2)
         /\ ShifterOperand(p, Shifting(DataOp(code, TRUE, rd, 0, rm), ROR, 0, NoReg))
              = Shifted((FlagC(p.cpsr) * (WordSize \div 2)) + (Reg(p, rm) \div 2),
                        Reg(p, rm) % 2)
<1> DEFINE lsr1 == Shifting(DataOp(code, TRUE, rd, 0, rm), LSR, 1, NoReg)
           rrx  == Shifting(DataOp(code, TRUE, rd, 0, rm), ROR, 0, NoReg)
           x    == Reg(p, rm)
<1>1. /\ lsr1.rm = rm /\ lsr1.rs = NoReg /\ lsr1.shift = LSR /\ lsr1.amount = 1
      /\ rrx.rm = rm /\ rrx.rs = NoReg /\ rrx.shift = ROR /\ rrx.amount = 0
      /\ rm # NoReg
  BY DEF DataOp, Shifting, NoReg, Operands
<1>2. 1 < WordBits
  BY WidthAssumption
<1>3. x \in Nat
  BY RegIsStorage, WordInt
<1>4. x \div 2^1 = x \div 2 /\ get_bit(x, 0) = x % 2 /\ get_bit(x, 1 - 1) = x % 2
  <2>1. 2^1 = 2 /\ 2^0 = 1 /\ 1 - 1 = 0
    BY SMT
  <2>2. x \div 1 = x
    BY <1>3
  <2> QED
    BY <2>1, <2>2 DEF get_bit
<1> HIDE DEF lsr1, rrx, x
<1>5. get_shifted(p, lsr1) = dp_lsr(p, x, 1)
  BY <1>1 DEF get_shifted, LSL, LSR, ASR, ROR, Reg, x
<1>6. get_shifted(p, rrx) = dp_ror_rrx(p, x, 0)
  BY <1>1 DEF get_shifted, LSL, LSR, ASR, ROR, Reg, x
<1>7. dp_lsr(p, x, 1) = Shifted(x \div 2, x % 2)
  BY <1>2, <1>4 DEF dp_lsr
<1>8. dp_ror_rrx(p, x, 0)
        = Shifted((FlagC(p.cpsr) * (WordSize \div 2)) + (x \div 2), x % 2)
  BY <1>4 DEF dp_ror_rrx, RRX
<1> QED
  BY <1>1, <1>5, <1>6, <1>7, <1>8 DEF ShifterOperand, lsr1, rrx, x

(* The arithmetic of halving and doubling: k1 and k0 are the bits that     *)
(* fall out, h1 and h0 the halves, d1 and d0 their doubles, c1 and c2 the  *)
(* carries of the doubling.                                                *)
LEMMA HalvingNumbers ==
  ASSUME NEW a0 \in Word, NEW a1 \in Word, NEW k0 \in Bit, NEW k1 \in Bit,
         NEW c1 \in Bit, NEW c2 \in Bit, NEW h0, NEW h1,
         h1 = (a1 \div 2) % WordSize,                          k1 = 1 <=> a1 % 2 = 1,
         h0 = ((k1 * (WordSize \div 2)) + (a0 \div 2)) % WordSize, k0 = 1 <=> a0 % 2 = 1,
         c1 = 1 <=> h0 + h0 + k0 >= WordSize,
         c2 = 1 <=> h1 + h1 + c1 >= WordSize
  PROVE  /\ h0 \in Word /\ h1 \in Word
         /\ (h0 + h0 + k0) % WordSize = a0
         /\ (h1 + h1 + c1) % WordSize = a1
         /\ c2 = 0
<1>1. PICK w \in Nat : WordSize = 4 * w
  BY WordsOfFour
<1>2. /\ a0 \in 0 .. (4 * w) - 1 /\ a1 \in 0 .. (4 * w) - 1
      /\ k0 \in 0 .. 1 /\ k1 \in 0 .. 1 /\ c1 \in 0 .. 1 /\ c2 \in 0 .. 1
      /\ WordSize \in Nat /\ WordSize > 0 /\ Word = 0 .. WordSize - 1
  BY <1>1, Sizes DEF Word, Bit
<1> HIDE DEF WordSize
<1>3. WordSize \div 2 = 2 * w
  BY <1>1
<1>4. /\ a0 = 2 * (a0 \div 2) + k0 /\ a1 = 2 * (a1 \div 2) + k1
      /\ a0 \div 2 \in 0 .. (2 * w) - 1 /\ a1 \div 2 \in 0 .. (2 * w) - 1
  BY <1>2
<1>5. h1 = a1 \div 2
  BY <1>1, <1>2, <1>4, WithinOneTurn
<1>6. h0 = (k1 * (2 * w)) + (a0 \div 2)
  <2>1. CASE k1 = 0
    BY <1>1, <1>2, <1>3, <1>4, <2>1, WithinOneTurn
  <2>2. CASE k1 = 1
    BY <1>1, <1>2, <1>3, <1>4, <2>2, WithinOneTurn
  <2> QED
    BY <1>2, <2>1, <2>2
<1>7. h0 + h0 + k0 = (k1 * WordSize) + a0
  <2>1. CASE k1 = 0
    BY <1>1, <1>2, <1>4, <1>6, <2>1
  <2>2. CASE k1 = 1
    BY <1>1, <1>2, <1>4, <1>6, <2>2
  <2> QED
    BY <1>2, <2>1, <2>2
<1>8. c1 = k1 /\ (h0 + h0 + k0) % WordSize = a0
  <2>1. CASE k1 = 0
    BY <1>1, <1>2, <1>7, <2>1, WithinOneTurn
  <2>2. CASE k1 = 1
    BY <1>1, <1>2, <1>7, <2>2, WithinOneTurn
  <2> QED
    BY <1>2, <2>1, <2>2
<1>9. h1 + h1 + c1 = a1
  BY <1>2, <1>4, <1>5, <1>8
<1>10. c2 = 0 /\ (h1 + h1 + c1) % WordSize = a1
  BY <1>1, <1>2, <1>9, WithinOneTurn
<1>11. h0 \in Word /\ h1 \in Word
  <2>1. CASE k1 = 0
    BY <1>1, <1>2, <1>4, <1>5, <1>6, <2>1
  <2>2. CASE k1 = 1
    BY <1>1, <1>2, <1>4, <1>5, <1>6, <2>2
  <2> QED
    BY <1>2, <2>1, <2>2
<1> QED
  BY <1>8, <1>10, <1>11

(* Halving and doubling in every state of the right type.                  *)
LEMMA WideHalf ==
  ASSUME TypeOK
  PROVE  WideHalving
<1> DEFINE i1 == Shifting(DataOp("MOV", TRUE, 1, 0, 1), LSR, 1, NoReg)
           i2 == Shifting(DataOp("MOV", TRUE, 0, 0, 0), ROR, 0, NoReg)
           q1 == arm_data_processing(core, i1)
           q2 == arm_data_processing(q1, i2)
           q3 == arm_data_processing(q2, DataOp("ADC", TRUE, 0, 0, 0))
           q4 == arm_data_processing(q3, DataOp("ADC", TRUE, 1, 1, 1))
           a0 == Reg(core, 0)
           a1 == Reg(core, 1)
           k1 == FlagC(q1.cpsr)
           k0 == FlagC(q2.cpsr)
           c1 == FlagC(q3.cpsr)
           c2 == FlagC(q4.cpsr)
           h0 == Reg(q2, 0)
           h1 == Reg(q2, 1)
           op1 == Shifted(a1 \div 2, a1 % 2)
           op2 == Shifted((k1 * (WordSize \div 2)) + (Reg(q1, 0) \div 2), Reg(q1, 0) % 2)
<1>0. core \in Core
  BY DEF TypeOK
<1>1. /\ 0 \in Operands /\ 1 \in Operands /\ "ADC" \in Carrying /\ TRUE \in BOOLEAN
      /\ LSR \in Shift /\ ROR \in Shift /\ 0 \in Amount /\ 1 \in Amount
  BY WidthAssumption DEF Operands, Carrying, LSR, ROR, Shift, Amount
<1>2. a0 \in Word /\ a1 \in Word
  BY <1>0, <1>1, RegIsStorage
<1>3. ShiftedInto(core, q1, 1, op1)
  <2>1. op1 = ShifterOperand(core, i1)
    BY <1>0, <1>1, ShiftByOne
  <2>2. op1.value \in Word
    <3>1. (a1 \div 2) % WordSize \in Word
      BY <1>2, WordInt, Wraps
    <3> QED
      BY <3>1 DEF Shifted
  <2> HIDE DEF op1
  <2> QED
    BY <1>0, <1>1, <2>1, <2>2, MoveEffect
<1>4. /\ q1 \in Core /\ Reg(q1, 1) = op1.value /\ Reg(q1, 0) = a0
      /\ k1 \in Bit /\ (k1 = 1 <=> op1.carry = 1)
  <2>1. 0 \in Operands \ {1}
    BY <1>1
  <2> QED
    BY <1>3, <2>1 DEF ShiftedInto
<1> HIDE DEF q1
<1>5. ShiftedInto(q1, q2, 0, op2)
  <2>1. op2 = ShifterOperand(q1, i2)
    BY <1>1, <1>4, ShiftByOne
  <2>2. op2.value \in Word
    <3>1. k1 \in Int /\ WordSize \div 2 \in Int /\ Reg(q1, 0) \div 2 \in Int
      BY <1>2, <1>4, WordInt DEF Bit
    <3> HIDE DEF k1
    <3>2. (k1 * (WordSize \div 2)) + (Reg(q1, 0) \div 2) \in Int
      BY <3>1
    <3>3. ((k1 * (WordSize \div 2)) + (Reg(q1, 0) \div 2)) % WordSize \in Word
      BY <3>2, Wraps
    <3> QED
      BY <3>3 DEF Shifted
  <2> HIDE DEF op2
  <2> QED
    BY <1>1, <1>4, <2>1, <2>2, MoveEffect
<1>6. /\ q2 \in Core /\ h0 = op2.value /\ h1 = Reg(q1, 1)
      /\ k0 \in Bit /\ (k0 = 1 <=> op2.carry = 1)
  <2>1. 1 \in Operands \ {0}
    BY <1>1
  <2> QED
    BY <1>5, <2>1 DEF ShiftedInto
<1> HIDE DEF q2
<1>7. /\ h1 = (a1 \div 2) % WordSize /\ (k1 = 1 <=> a1 % 2 = 1)
      /\ h0 = ((k1 * (WordSize \div 2)) + (a0 \div 2)) % WordSize
      /\ (k0 = 1 <=> a0 % 2 = 1)
  <2> HIDE DEF h0, h1, k0, k1, a0, a1
  <2> QED
    BY <1>4, <1>6 DEF Shifted
<1>8. Calculated(q2, q3, "ADC", TRUE, 0, 0, 0)
  BY <1>1, <1>6, DataOpEffect
<1> HIDE DEF q3
<1>9. CarryFrom(q2, q3, "ADC", 0, 0)
  BY <1>1, <1>6, <1>8, CarryOf, Zenon
<1>10. Calculated(q3, q4, "ADC", TRUE, 1, 1, 1)
  BY <1>1, <1>8, DataOpEffect DEF Calculated
<1> HIDE DEF q4
<1>11. CarryFrom(q3, q4, "ADC", 1, 1)
  BY <1>1, <1>8, <1>10, CarryOf, Zenon DEF Calculated
<1>12. /\ Reg(q3, 0) = (h0 + h0 + k0) % WordSize /\ Reg(q3, 1) = h1
       /\ c1 \in Bit /\ (c1 = 1 <=> h0 + h0 + k0 >= WordSize)
  BY <1>1, <1>8, <1>9 DEF Calculated, CarryFrom, dp_result
<1>13. /\ Reg(q4, 1) = (h1 + h1 + c1) % WordSize /\ Reg(q4, 0) = Reg(q3, 0)
       /\ c2 \in Bit /\ (c2 = 1 <=> h1 + h1 + c1 >= WordSize)
  BY <1>1, <1>10, <1>11, <1>12 DEF Calculated, CarryFrom, dp_result
<1> HIDE DEF a0, a1, k0, k1, h0, h1, c1, c2
<1>14. /\ (h0 + h0 + k0) % WordSize = a0
       /\ (h1 + h1 + c1) % WordSize = a1
       /\ c2 = 0
  BY <1>2, <1>4, <1>6, <1>7, <1>12, <1>13, HalvingNumbers
<1>15. Pair(q4, 0, 1) = Pair(core, 0, 1) /\ FlagC(q4.cpsr) = 0
  BY <1>12, <1>13, <1>14 DEF Pair, a0, a1, c2
<1> QED
  BY <1>15 DEF WideHalving, Then, q1, q2, q3, q4

(* A number of two words that is halved through the carry and doubled with *)
(* the bit that fell out is the number again, for every width of the words *)
(* and in every reachable state (dp_lsr, dp_ror_rrx, dp_carry, adc).       *)
THEOREM WideHalvingHolds == Spec => []WideHalving
<1>1. TypeOK => WideHalving
  BY WideHalf
<1> QED
  BY <1>1, TypeCorrect, PTL
=============================================================================
