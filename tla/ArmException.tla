----------------------------- MODULE ArmException -----------------------------
(***************************************************************************)
(* Exception entry, arm_exception.c.  Every handler is a function of the   *)
(* core.  The simulator is built with BIG_ENDIAN_SIMULATOR (Makefile.am),  *)
(* so CP15_reg1_EEbit is 1; High_vectors_configured is 0.                  *)
(***************************************************************************)
EXTENDS ArmCore

CP15_reg1_EEbit == 1

Vector == [RESET |-> 0, UND |-> 4, SWI |-> 8, PABT |-> 12, DABT |-> 16,
           IRQ |-> 24, FIQ |-> 28]

(* Where the handlers that run in a mode start. *)
VectorsOf(mode) == {VectorBase + v : v \in
  CASE mode = SVC -> {Vector.SWI}
    [] mode = ABT -> {Vector.PABT, Vector.DABT}
    [] mode = UND -> {Vector.UND}
    [] mode = IRQ -> {Vector.IRQ}
    [] mode = FIQ -> {Vector.FIQ}}

arm_branch_exception_vector(p, vector) ==
  arm_write_register(p, PC, VectorBase + vector)

(* Mutant: the status is saved after the switch to the new mode. *)
EnterException_saves_late(p, mode, link, vector) ==
  LET entered == [p EXCEPT !.cpsr.mode = mode, !.cpsr.T = 0, !.cpsr.I = 1,
                           !.cpsr.E = CP15_reg1_EEbit]
      linked  == arm_write_register(entered, LR, link)
      stacked == arm_write_register(linked, SP, arm_read_register(p, SP))
      saved   == arm_write_spsr(stacked, entered.cpsr)
  IN  arm_branch_exception_vector(saved, vector)

(* Mutant: entry leaves normal interrupts enabled. *)
EnterException_keeps_irq(p, mode, link, vector) ==
  LET entered == [p EXCEPT !.cpsr.mode = mode, !.cpsr.T = 0,
                           !.cpsr.E = CP15_reg1_EEbit]
      linked  == arm_write_register(entered, LR, link)
      stacked == arm_write_register(linked, SP, arm_read_register(p, SP))
      saved   == arm_write_spsr(stacked, p.cpsr)
  IN  arm_branch_exception_vector(saved, vector)

(* What the six handlers have in common: switch to the mode of the         *)
(* exception with normal interrupts off, put the return address in its LR, *)
(* the interrupted stack pointer in its SP and the interrupted status in   *)
(* its SPSR, and branch.                                                   *)
EnterException(p, mode, link, vector) ==
  LET entered == [p EXCEPT !.cpsr.mode = mode, !.cpsr.T = 0, !.cpsr.I = 1,
                           !.cpsr.E = CP15_reg1_EEbit]
      linked  == arm_write_register(entered, LR, link)
      stacked == arm_write_register(linked, SP, arm_read_register(p, SP))
      saved   == arm_write_spsr(stacked, p.cpsr)
  IN  arm_branch_exception_vector(saved, vector)

(* cpsr = set_bits(cpsr, 4, 0, mode); arm_write_cpsr; arm_write_register(SP) *)
SetStack(p, mode, k) ==
  arm_write_register([p EXCEPT !.cpsr.mode = mode], SP, StackBase + k * StackStep)

(* The user stack is written first and overwritten by the system one, which *)
(* is the same register.  T is left as it was.                              *)
handle_reset(p) ==
  LET masks == [p EXCEPT !.cpsr.F = 0, !.cpsr.I = 0,
                         !.cpsr.E = CP15_reg1_EEbit]
      usr   == SetStack(masks, USR, 0)
      fiq   == SetStack(usr, FIQ, 1)
      irq   == SetStack(fiq, IRQ, 2)
      svc   == SetStack(irq, SVC, 3)
      abt   == SetStack(svc, ABT, 4)
      und   == SetStack(abt, UND, 5)
      sys   == SetStack(und, SYS, 6)
  IN  arm_branch_exception_vector([sys EXCEPT !.cpsr.mode = SVC], Vector.RESET)

handle_undefined_instruction(p) ==
  EnterException(p, UND, arm_address_next_instruction(p), Vector.UND)

handle_software_interrup(p) ==
  EnterException(p, SVC, arm_address_next_instruction(p), Vector.SWI)

handle_prefetch_abord(p) ==
  EnterException(p, ABT, (arm_address_current_instruction(p) + 4) % WordSize,
                 Vector.PABT)

(* Mutant: the link of a prefetch abort. *)
handle_data_abort_short_link(p) ==
  EnterException(p, ABT, (arm_address_current_instruction(p) + 4) % WordSize,
                 Vector.DABT)

handle_data_abort(p) ==
  EnterException(p, ABT, (arm_address_current_instruction(p) + 8) % WordSize,
                 Vector.DABT)

(* Mutant: the link of a software interrupt. *)
handle_irq_short_link(p) ==
  IF p.cpsr.I = 1 THEN p
  ELSE EnterException(p, IRQ, arm_address_next_instruction(p), Vector.IRQ)

handle_irq(p) ==
  IF p.cpsr.I = 1 THEN p
  ELSE EnterException(p, IRQ, (arm_address_next_instruction(p) + 4) % WordSize,
                      Vector.IRQ)

handle_fiq(p) ==
  IF p.cpsr.F = 1 THEN p
  ELSE LET entered == EnterException(p, FIQ,
                        (arm_address_next_instruction(p) + 4) % WordSize,
                        Vector.FIQ)
       IN  [entered EXCEPT !.cpsr.F = 1]

arm_exception(p, exception) ==
  CASE exception = RESET                 -> handle_reset(p)
    [] exception = UNDEFINED_INSTRUCTION -> handle_undefined_instruction(p)
    [] exception = SOFTWARE_INTERRUPT    -> handle_software_interrup(p)
    [] exception = PREFETCH_ABORT        -> handle_prefetch_abord(p)
    [] exception = DATA_ABORT            -> handle_data_abort(p)
    [] exception = INTERRUPT             -> handle_irq(p)
    [] exception = FAST_INTERRUPT        -> handle_fiq(p)
    [] OTHER                             -> p

(* arm_create: the block is malloc'ed, so everything that the reset does    *)
(* not write keeps an arbitrary value.                                      *)
arm_create(storage, spsr, cpsr) ==
  handle_reset([storage |-> storage, spsr |-> spsr, cpsr |-> cpsr])
=============================================================================
