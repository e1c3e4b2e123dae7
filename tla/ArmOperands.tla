----------------------------- MODULE ArmOperands -----------------------------
(***************************************************************************)
(* The operands that an instruction computes from its fields and from the  *)
(* registers: the shifts and rotations of util.c, the shifter of           *)
(* arm_data_processing.c with its carry, and the scaled offsets of         *)
(* arm_load_store.c.                                                       *)
(*                                                                         *)
(* Fields: rm is the register, or NoReg when the operand is the immediate  *)
(* imm, rotated by twice `rotate'; `shift' is LSL, LSR, ASR or ROR by      *)
(* `amount', or by the register rs when rs is not NoReg.  A shift count    *)
(* has eight bits whatever the width of the words.                         *)
(***************************************************************************)
EXTENDS ArmCore

CONSTANT WordBits      \* width of a uint32_t

ASSUME WidthAssumption ==
  /\ WordBits \in Nat /\ WordBits >= 16
  /\ WordSize = 2^WordBits

NoReg == 16

LSL == 0
LSR == 1
ASR == 2
ROR == 3

Shift    == 0 .. 3
Amount   == 0 .. WordBits - 1            \* five bits in the program
Rotation == 0 .. (WordBits \div 2) - 1   \* four bits

get_bit(x, i) == (x \div 2^i) % 2
Sign(x)       == get_bit(x, WordBits - 1)

-----------------------------------------------------------------------------
(* util.c.  asr is never called with 0.  A shift by the width of the word  *)
(* is undefined in C; the processors that build the simulator take the     *)
(* count modulo the width, which makes ror a rotation for every count.     *)

asr(value, n) ==
  ((value \div 2^n) + (IF Sign(value) = 1 THEN WordSize - 2^(WordBits - n) ELSE 0))
    % WordSize

ror(value, n) ==
  LET k == n % WordBits
  IN  IF k = 0 THEN value
      ELSE ((value \div 2^k) + (value * 2^(WordBits - k))) % WordSize

-----------------------------------------------------------------------------
(* The shifter: a value and the carry that comes out.                      *)

Shifted(value, carry) == [value |-> value % WordSize, carry |-> carry]

dp_lsl(p, op, n) ==
  IF n = 0 THEN Shifted(op, FlagC(p.cpsr))
  ELSE IF n < WordBits THEN Shifted(op * 2^n, get_bit(op, WordBits - n))
  ELSE Shifted(0, IF n = WordBits THEN get_bit(op, 0) ELSE 0)

(* Mutant: the carry is the lowest bit that stays. *)
dp_lsr_late_carry(p, op, n) ==
  IF n = 0 THEN Shifted(op, FlagC(p.cpsr))
  ELSE IF n < WordBits THEN Shifted(op \div 2^n, get_bit(op, n))
  ELSE Shifted(0, IF n = WordBits THEN Sign(op) ELSE 0)

dp_lsr(p, op, n) ==
  IF n = 0 THEN Shifted(op, FlagC(p.cpsr))
  ELSE IF n < WordBits THEN Shifted(op \div 2^n, get_bit(op, n - 1))
  ELSE Shifted(0, IF n = WordBits THEN Sign(op) ELSE 0)

dp_asr(p, op, n) ==
  IF n = 0 THEN Shifted(op, FlagC(p.cpsr))
  ELSE IF n < WordBits THEN Shifted(asr(op, n), get_bit(op, n - 1))
  ELSE Shifted(IF Sign(op) = 1 THEN WordSize - 1 ELSE 0, Sign(op))

(* Rotation through the carry flag: it becomes the top bit.                *)
RRX(p, op) == (FlagC(p.cpsr) * (WordSize \div 2)) + (op \div 2)

(* A count of zero is RRX, also when it comes from a register.             *)
dp_ror_rrx(p, op, n) ==
  IF n = 0 THEN Shifted(RRX(p, op), get_bit(op, 0))
  ELSE IF n % WordBits = 0 THEN Shifted(op, Sign(op))
  ELSE Shifted(ror(op, n), get_bit(op, (n % WordBits) - 1))

get_immediate(p, ins) ==
  LET res == ror(ins.imm, 2 * ins.rotate)
  IN  Shifted(res, IF ins.rotate = 0 THEN FlagC(p.cpsr) ELSE Sign(res))

(* For a left shift the count is tested in bits 11 to 7 of the encoding    *)
(* also when these hold the number of rs: LSL by r0 does not shift.        *)
get_shifted(p, ins) ==
  LET shift_imm == IF ins.rs = NoReg THEN ins.amount ELSE 2 * ins.rs
      value     == IF ins.rs = NoReg THEN ins.amount
                   ELSE arm_read_register(p, ins.rs) % 256
      op        == arm_read_register(p, ins.rm)
  IN  CASE ins.shift = LSL /\ shift_imm = 0 -> Shifted(op, FlagC(p.cpsr))
        [] ins.shift = LSL /\ shift_imm # 0 -> dp_lsl(p, op, value)
        [] ins.shift = LSR -> dp_lsr(p, op, value)
        [] ins.shift = ASR -> dp_asr(p, op, value)
        [] ins.shift = ROR -> dp_ror_rrx(p, op, value)

(* The second operand of a data processing instruction. *)
ShifterOperand(p, ins) ==
  IF ins.rm = NoReg THEN get_immediate(p, ins) ELSE get_shifted(p, ins)

-----------------------------------------------------------------------------
(* The register offset of a word or byte transfer.                         *)
scaled_shift(p, shift, shift_imm, val_rm) ==
  CASE shift = LSL -> (val_rm * 2^shift_imm) % WordSize
    [] shift = LSR -> IF shift_imm # 0 THEN (val_rm \div 2^shift_imm) % WordSize ELSE 0
    [] shift = ASR -> IF shift_imm # 0 THEN asr(val_rm, shift_imm)
                      ELSE IF Sign(val_rm) = 1 THEN WordSize - 1 ELSE 0
    [] shift = ROR -> IF shift_imm # 0 THEN ror(val_rm, shift_imm)
                      ELSE RRX(p, val_rm) % WordSize
=============================================================================
