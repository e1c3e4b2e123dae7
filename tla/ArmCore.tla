------------------------------- MODULE ArmCore -------------------------------
(***************************************************************************)
(* The processor state of arm_core.c: banked registers, saved status       *)
(* registers and the current status register, and the functions through    *)
(* which every other file reads and writes them.                           *)
(*                                                                         *)
(* A core is a record                                                      *)
(*    storage : the 31 physical registers (registers_storage),             *)
(*    spsr    : one saved status register for each of the 32 mode numbers, *)
(*    cpsr    : the current status register.                               *)
(* A status register keeps the fields on which the simulator decides: mode *)
(* (bits 4..0), T (5), F (6), I (7), E (9) and the four flags N, Z, C, V   *)
(* (31..28) as one number.  The other bits (8 and 27..10) are left out:    *)
(* garbage of malloc or of a G packet that MRS, g packets and the copies   *)
(* between CPSR and SPSR carry along, but that changes nothing else.  The  *)
(* cycle counter only appears in traces and is left out.                   *)
(***************************************************************************)
EXTENDS Memory

CONSTANTS VectorBase,   \* address of the first exception vector, 0x1000
          StackBase,    \* stack pointer given to user mode by a reset, 0x10000
          StackStep     \* distance between the reset stacks, 0x100

USR == 16
FIQ == 17
IRQ == 18
SVC == 19
ABT == 23
UND == 27
SYS == 31

Modes == {USR, FIQ, IRQ, SVC, ABT, UND, SYS}

NO_EXCEPTION          == 0
RESET                 == 1
UNDEFINED_INSTRUCTION == 2
SOFTWARE_INTERRUPT    == 3
PREFETCH_ABORT        == 4
DATA_ABORT            == 5
INTERRUPT             == 6
FAST_INTERRUPT        == 7

SP == 13
LR == 14
PC == 15

ASSUME CoreAssumption ==
  /\ VectorBase \in Nat /\ VectorBase + 28 < WordSize
  /\ StackBase \in Nat /\ StackStep \in Nat
  /\ StackBase + 6 * StackStep < WordSize

ModeNumber == 0 .. 31
RegNumber  == 0 .. 15
Bit        == 0 .. 1

PSR == [mode : ModeNumber, T : Bit, F : Bit, I : Bit, E : Bit, flags : 0 .. 15]

Core == [storage : [0 .. 30 -> Word], spsr : [ModeNumber -> PSR], cpsr : PSR]

-----------------------------------------------------------------------------
(* Layout of a status register in a word.  The flags are the four most     *)
(* significant bits of the word, whatever its width.                       *)

FlagUnit == WordSize \div 16

WordOfPSR(psr) ==
  psr.mode + 32 * psr.T + 64 * psr.F + 128 * psr.I + 512 * psr.E
    + FlagUnit * psr.flags

PSROf(w) == [mode  |-> w % 32,            T |-> (w \div 32) % 2,
             F     |-> (w \div 64) % 2,   I |-> (w \div 128) % 2,
             E     |-> (w \div 512) % 2,  flags |-> (w \div FlagUnit) % 16]

FlagN(psr) == (psr.flags \div 8) % 2
FlagZ(psr) == (psr.flags \div 4) % 2
FlagC(psr) == (psr.flags \div 2) % 2
FlagV(psr) == psr.flags % 2

-----------------------------------------------------------------------------
(* Mutant: arm_create gives IRQ mode the bank of UND mode. *)
registers_irq_in_und_bank(mode, reg) ==
  IF mode = FIQ /\ reg \in 8 .. 14 THEN reg + 16
  ELSE IF reg \notin {SP, LR} THEN reg
  ELSE IF mode = SVC THEN reg + 3
  ELSE IF mode = ABT THEN reg + 5
  ELSE IF mode \in {UND, IRQ} THEN reg + 7
  ELSE reg

(* The physical register that `reg' names in `mode': the pointer table     *)
(* filled by arm_create.  Mode numbers without a bank of their own, the    *)
(* invalid ones included, use the user registers.                          *)
registers(mode, reg) ==
  IF mode = FIQ /\ reg \in 8 .. 14 THEN reg + 16
  ELSE IF reg \notin {SP, LR} THEN reg
  ELSE IF mode = SVC THEN reg + 3
  ELSE IF mode = ABT THEN reg + 5
  ELSE IF mode = UND THEN reg + 7
  ELSE IF mode = IRQ THEN reg + 9
  ELSE reg

(* The mode whose bank a physical register belongs to. *)
Owner(r) == IF r \in 16 .. 17 THEN SVC
            ELSE IF r \in 18 .. 19 THEN ABT
            ELSE IF r \in 20 .. 21 THEN UND
            ELSE IF r \in 22 .. 23 THEN IRQ
            ELSE FIQ

(* Mutant: only system mode is thought to lack an SPSR. *)
has_spsr_in_user_mode(p) == p.cpsr.mode # SYS

arm_current_mode_has_spsr(p) == p.cpsr.mode \notin {USR, SYS}
arm_in_a_privileged_mode(p)  == p.cpsr.mode # USR

(* value & 0xFFFFFFFD *)
ClearBit1(v) == IF (v \div 2) % 2 = 1 THEN v - 2 ELSE v

arm_read_register(p, reg) ==
  LET value == p.storage[registers(p.cpsr.mode, reg)]
  IN  IF reg = PC THEN ClearBit1((value + 4) % WordSize) ELSE value

arm_read_usr_register(p, reg) ==
  IF reg = PC THEN ClearBit1((p.storage[reg] + 4) % WordSize)
  ELSE p.storage[reg]

arm_read_spsr(p) == p.spsr[p.cpsr.mode]

arm_write_register(p, reg, value) ==
  [p EXCEPT !.storage[registers(p.cpsr.mode, reg)] = value]

arm_write_usr_register(p, reg, value) == [p EXCEPT !.storage[reg] = value]

arm_write_cpsr(p, psr) == [p EXCEPT !.cpsr = psr]

arm_write_spsr(p, psr) == [p EXCEPT !.spsr[p.cpsr.mode] = psr]

arm_address_current_instruction(p) == (arm_read_register(p, PC) - 8) % WordSize
arm_address_next_instruction(p)    == (arm_read_register(p, PC) - 4) % WordSize

(* The E bit selects the byte order of fetches and of data accesses.       *)
BigEndian(p) == p.cpsr.E = 1

(* The fetch reads the word at the program counter and moves the program   *)
(* counter to the following word, also when the read is out of bounds.     *)
FetchAddress(p) == (arm_read_register(p, PC) - 4) % WordSize
FetchFails(p)   == ~InBounds(FetchAddress(p), 4)
arm_fetch(p)    ==
  arm_write_register(p, PC, (FetchAddress(p) + 4) % WordSize)

update_nzcv(p, flags)  == [p EXCEPT !.cpsr.flags = flags]
update_flag_t(p, t)    == [p EXCEPT !.cpsr.T = t]
=============================================================================
