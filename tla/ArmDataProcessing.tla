-------------------------- MODULE ArmDataProcessing --------------------------
(***************************************************************************)
(* The sixteen data processing operations of arm_data_processing.c.        *)
(***************************************************************************)
EXTENDS ArmOperands

Tests   == {"TST", "TEQ", "CMP", "CMN"}
Logical == {"AND", "EOR", "TST", "TEQ", "ORR", "MOV", "BIC", "MVN"}
Codes   == Logical \cup {"SUB", "RSB", "ADD", "ADC", "SBC", "RSC", "CMP", "CMN"}

-----------------------------------------------------------------------------
(* Bitwise operations, byte by byte; a gate maps two clear bits to a clear *)
(* one, so the bits above a narrow byte stay clear.                        *)

ByteGate(Gate(_, _), x, y) ==
  LET bit(i) == Gate(get_bit(x, i), get_bit(y, i)) * 2^i
  IN  (bit(0) + bit(1) + bit(2) + bit(3) + bit(4) + bit(5) + bit(6) + bit(7))
        % ByteSize

WordGate(Gate(_, _), x, y) ==
  WordOf([i \in 0 .. 3 |-> ByteGate(Gate, ByteOf(x, i), ByteOf(y, i))])

BitAnd(a, b) == a * b
BitEor(a, b) == (a + b) % 2
BitOrr(a, b) == a + b - (a * b)
BitBic(a, b) == a * (1 - b)

-----------------------------------------------------------------------------
(* Mutant: the carry does not reach the upper word of a sum. *)
dp_result_no_carry(psr, code, op1, op2) ==
  CASE code \in {"AND", "TST"} -> WordGate(BitAnd, op1, op2)
    [] code \in {"EOR", "TEQ"} -> WordGate(BitEor, op1, op2)
    [] code \in {"SUB", "CMP", "SBC"} -> (op1 - op2) % WordSize
    [] code \in {"RSB", "RSC"} -> (op2 - op1) % WordSize
    [] code \in {"ADD", "CMN", "ADC"} -> (op1 + op2) % WordSize
    [] code = "ORR" -> WordGate(BitOrr, op1, op2)
    [] code = "MOV" -> op2
    [] code = "BIC" -> WordGate(BitBic, op1, op2)
    [] code = "MVN" -> WordSize - 1 - op2

(* res, cut to 32 bits as it is when it is written or tested for zero.     *)
dp_result(psr, code, op1, op2) ==
  CASE code \in {"AND", "TST"} -> WordGate(BitAnd, op1, op2)
    [] code \in {"EOR", "TEQ"} -> WordGate(BitEor, op1, op2)
    [] code \in {"SUB", "CMP"} -> (op1 - op2) % WordSize
    [] code = "RSB"            -> (op2 - op1) % WordSize
    [] code \in {"ADD", "CMN"} -> (op1 + op2) % WordSize
    [] code = "ADC"            -> (op1 + op2 + FlagC(psr)) % WordSize
    [] code = "SBC"            -> (op1 - op2 - (1 - FlagC(psr))) % WordSize
    [] code = "RSC"            -> (op2 - op1 - (1 - FlagC(psr))) % WordSize
    [] code = "ORR"            -> WordGate(BitOrr, op1, op2)
    [] code = "MOV"            -> op2
    [] code = "BIC"            -> WordGate(BitBic, op1, op2)
    [] code = "MVN"            -> WordSize - 1 - op2

(* res > UINT_MAX is decided in 64 bits, op2+c is cut to 32.               *)
dp_carry(psr, code, op1, op2, shift_carry_out) ==
  LET c == FlagC(psr)
  IN  CASE code \in Logical        -> shift_carry_out = 1
        [] code \in {"SUB", "CMP"} -> op1 >= op2
        [] code = "RSB"            -> op2 >= op1
        [] code \in {"ADD", "CMN"} -> op1 + op2 >= WordSize
        [] code = "ADC"            -> op1 + op2 + c >= WordSize
        [] code = "SBC"            -> op1 >= (op2 + c) % WordSize
        [] code = "RSC"            -> op2 >= (op1 + c) % WordSize

Negative(w) == 2 * w >= WordSize

overflow_from_add(op1, op2, res) ==
  Negative(op1) = Negative(op2) /\ Negative(op1) # Negative(res)

(* Mutant: the operands of equal signs overflow. *)
overflow_from_sub_as_add(op1, op2, res) ==
  Negative(op1) = Negative(op2) /\ Negative(op1) # Negative(res)

overflow_from_sub(op1, op2, res) ==
  Negative(op1) # Negative(op2) /\ Negative(op1) # Negative(res)

dp_overflow(psr, code, op1, op2, res) ==
  LET c == FlagC(psr)
  IN  CASE code \in Logical        -> FlagV(psr) = 1
        [] code \in {"SUB", "CMP"} -> overflow_from_sub(op1, op2, res)
        [] code = "RSB"            -> overflow_from_sub(op2, op1, res)
        [] code \in {"ADD", "CMN"} -> overflow_from_add(op1, op2, res)
        [] code = "ADC" -> overflow_from_add(op1, (op2 + c) % WordSize, res)
        [] code = "SBC" -> overflow_from_sub(op1, (op2 - (1 - c)) % WordSize, res)
        [] code = "RSC" -> overflow_from_sub(op2, (op1 - (1 - c)) % WordSize, res)

dp_flags(psr, code, op1, op2, res, shift_carry_out) ==
  (IF Negative(res) THEN 8 ELSE 0) + (IF res = 0 THEN 4 ELSE 0)
  + (IF dp_carry(psr, code, op1, op2, shift_carry_out) THEN 2 ELSE 0)
  + (IF dp_overflow(psr, code, op1, op2, res) THEN 1 ELSE 0)

(* With S set and the program counter as destination the status register   *)
(* is restored, before the program counter is written.                     *)
dp_write(p, ins, flags, value) ==
  LET test == ins.code \in Tests
      q    == IF test \/ (ins.s /\ ins.rd # PC) THEN update_nzcv(p, flags)
              ELSE IF ins.s /\ arm_current_mode_has_spsr(p)
              THEN arm_write_cpsr(p, arm_read_spsr(p))
              ELSE p
  IN  IF test THEN q ELSE arm_write_register(q, ins.rd, value)

dp_operation(p, ins, op1, op2) ==
  LET value == dp_result(p.cpsr, ins.code, op1, op2.value)
      flags == dp_flags(p.cpsr, ins.code, op1, op2.value, value, op2.carry)
  IN  dp_write(p, ins, flags, value)

(* Both forms, with a shifted register and with a rotated immediate. *)
arm_data_processing(p, ins) ==
  dp_operation(p, ins,
    IF ins.code \in {"MOV", "MVN"} THEN 0 ELSE arm_read_register(p, ins.rn),
    ShifterOperand(p, ins))
=============================================================================
