---------------------------- MODULE ArmInstruction ----------------------------
(***************************************************************************)
(* Execution of one instruction: arm_instruction.c with the handlers of    *)
(* arm_branch_other.c.                                                     *)
(*                                                                         *)
(* An instruction is the record of its decoded fields; `op' is the handler *)
(* that instruction_get_handler selects for it.                            *)
(***************************************************************************)
EXTENDS ArmException, ArmDataProcessing, ArmLoadStore

Condition == 0 .. 15
ALWAYS    == 14
NEVER     == 15      \* "undefined" in the source

BranchInstr   == [op : {"B"}, cond : Condition, link : BOOLEAN, offset : Word]
SwiInstr      == [op : {"SWI"}, cond : Condition, halt : BOOLEAN]
CoprocInstr   == [op : {"COPROC"}, cond : Condition]
MrsInstr      == [op : {"MRS"}, cond : Condition, spsr : BOOLEAN, rd : RegNumber]
MsrInstr      == [op : {"MSR"}, cond : Condition, spsr : BOOLEAN, c : BOOLEAN,
                  f : BOOLEAN, rm : 0 .. NoReg, imm : 0 .. 255,
                  rotate : Rotation]
DataInstr     == [op : {"DP"}, cond : Condition, s : BOOLEAN,
                  code : Codes, rd : RegNumber, rn : RegNumber,
                  rm : 0 .. NoReg, shift : Shift, amount : Amount,
                  rs : 0 .. NoReg, imm : 0 .. 255, rotate : Rotation]
SingleInstr   == [op : {"LDST"}, cond : Condition, p : BOOLEAN, u : BOOLEAN,
                  w : BOOLEAN, l : BOOLEAN, b : BOOLEAN, rd : RegNumber,
                  rn : RegNumber, rm : 0 .. NoReg, shift : Shift,
                  amount : Amount, imm : 0 .. 4095]
MiscInstr     == [op : {"MISC"}, cond : Condition, p : BOOLEAN, u : BOOLEAN,
                  w : BOOLEAN, kind : 0 .. 7, rd : RegNumber,
                  rn : RegNumber, rm : 0 .. NoReg, imm : 0 .. 255, junk : Word]
MultipleInstr == [op : {"LDM"}, cond : Condition, p : BOOLEAN, u : BOOLEAN,
                  w : BOOLEAN, l : BOOLEAN, s : BOOLEAN, rn : RegNumber,
                  list : SUBSET RegNumber, junk : Word]

Instr ==
  BranchInstr \cup SwiInstr \cup CoprocInstr \cup MrsInstr \cup MsrInstr
    \cup DataInstr \cup SingleInstr \cup MiscInstr \cup MultipleInstr

-----------------------------------------------------------------------------
(* instruction_check_condition, without its -1 for condition 15.           *)
instruction_check_condition(p, cond) ==
  LET n == FlagN(p.cpsr) = 1
      z == FlagZ(p.cpsr) = 1
      c == FlagC(p.cpsr) = 1
      v == FlagV(p.cpsr) = 1
      holds == <<z, c, n, v, c /\ ~z, n = v, ~z /\ n = v, TRUE>>[(cond \div 2) + 1]
  IN  holds = (cond % 2 = 0)

-----------------------------------------------------------------------------
(* Mutant: the target address is not reduced to 32 bits. *)
arm_branch_unwrapped(p, mem, ins) ==
  LET val_pc == arm_read_register(p, PC)
      linked == IF ins.link THEN arm_write_register(p, LR, (val_pc - 4) % WordSize)
                ELSE p
  IN  Outcome(arm_write_register(linked, PC, val_pc + ins.offset), mem, NO_EXCEPTION)

arm_branch(p, mem, ins) ==
  LET val_pc == arm_read_register(p, PC)
      linked == IF ins.link THEN arm_write_register(p, LR, (val_pc - 4) % WordSize)
                ELSE p
  IN  Outcome(arm_write_register(linked, PC, (val_pc + ins.offset) % WordSize),
              mem, NO_EXCEPTION)

(* swi 0x123456 ends the simulator. *)
arm_coprocessor_others_swi(p, mem, ins) ==
  IF ins.halt THEN [Outcome(p, mem, NO_EXCEPTION) EXCEPT !.process = "exited"]
  ELSE Outcome(p, mem, SOFTWARE_INTERRUPT)

arm_mrs(p, mem, ins) ==
  Outcome(arm_write_register(p, ins.rd,
            WordOfPSR(IF ins.spsr THEN arm_read_spsr(p) ELSE p.cpsr)),
          mem, NO_EXCEPTION)

UserMask  == {"flags"}
StateMask == {"T"}

(* Mutant: PrivMask is the whole control byte but T. *)
PrivMask_interrupts == {"mode", "I", "F"}

PrivMask  == {"mode"}       \* four bits of it, 0xF

(* The fields in the bytes that the C and F bits of an MSR select.         *)
byte_mask(ins) == (IF ins.c THEN {"mode", "T", "F", "I"} ELSE {})
                    \cup (IF ins.f THEN {"flags"} ELSE {})

(* (psr & ~mask) | (operand & mask)                                        *)
Masked(psr, operand, mask) ==
  [psr EXCEPT !.flags = IF "flags" \in mask THEN operand.flags ELSE @,
              !.mode  = IF "mode" \in mask THEN ((@ \div 16) * 16) + (operand.mode % 16)
                        ELSE @,
              !.I     = IF "I" \in mask THEN operand.I ELSE @,
              !.F     = IF "F" \in mask THEN operand.F ELSE @,
              !.T     = IF "T" \in mask THEN operand.T ELSE @]

(* The immediate goes through an int8_t, which extends its sign.           *)
MsrOperand(p, ins) ==
  IF ins.rm # NoReg THEN arm_read_register(p, ins.rm)
  ELSE ror(IF ins.imm >= 128 THEN WordSize - 256 + ins.imm ELSE ins.imm,
           2 * ins.rotate)

arm_msr(p, mem, ins) ==
  LET operand == PSROf(MsrOperand(p, ins))
      Masked_cpsr(mask) ==
        arm_write_cpsr(p, Masked(p.cpsr, operand, byte_mask(ins) \cap mask))
      Masked_spsr(mask) ==
        arm_write_spsr(p, Masked(arm_read_spsr(p), operand, byte_mask(ins) \cap mask))
      q == IF ins.spsr
           THEN IF arm_current_mode_has_spsr(p)
                THEN Masked_spsr(UserMask \cup PrivMask \cup StateMask) ELSE p
           ELSE IF ~arm_in_a_privileged_mode(p) THEN Masked_cpsr(UserMask)
           ELSE IF operand.T = 0 THEN Masked_cpsr(UserMask \cup PrivMask)
           ELSE Masked_cpsr({})
  IN  Outcome(q, mem, NO_EXCEPTION)

-----------------------------------------------------------------------------
(* instruction_get_handler and the call of the handler.                    *)
Handle(p, mem, ins) ==
  CASE ins.op = "B"      -> arm_branch(p, mem, ins)
    [] ins.op = "SWI"    -> arm_coprocessor_others_swi(p, mem, ins)
    [] ins.op = "COPROC" -> Outcome(p, mem, UNDEFINED_INSTRUCTION)
    [] ins.op = "MRS"    -> arm_mrs(p, mem, ins)
    [] ins.op = "MSR"    -> arm_msr(p, mem, ins)
    [] ins.op = "DP"     -> Outcome(arm_data_processing(p, ins), mem, NO_EXCEPTION)
    [] ins.op = "LDST"   -> arm_load_store(p, mem, ins)
    [] ins.op = "MISC"   -> arm_load_store_miscellaneous(p, mem, ins)
    [] ins.op = "LDM"    -> arm_load_store_multiple(p, mem, ins)

(* `ins' is the instruction in the fetched word; it plays no part when the *)
(* fetch fails.                                                            *)
arm_execute_instruction(p, mem, ins) ==
  LET q == arm_fetch(p)
  IN  IF FetchFails(p) THEN Outcome(q, mem, PREFETCH_ABORT)
      ELSE IF ins.cond = NEVER THEN Outcome(q, mem, UNDEFINED_INSTRUCTION)
      ELSE IF ~instruction_check_condition(q, ins.cond)
      THEN Outcome(q, mem, NO_EXCEPTION)
      ELSE Handle(q, mem, ins)

(* An instruction that ends with a result code raises that exception.      *)
WithException(o) ==
  IF o.result = NO_EXCEPTION \/ o.process # "running" THEN o
  ELSE [o EXCEPT !.core = arm_exception(o.core, o.result)]

arm_step(p, mem, ins) == WithException(arm_execute_instruction(p, mem, ins))
=============================================================================
