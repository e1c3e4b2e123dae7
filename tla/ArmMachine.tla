------------------------------ MODULE ArmMachine ------------------------------
(***************************************************************************)
(* The processor as the threads of the simulator drive it: the gdb thread  *)
(* executes one instruction at a time (arm_step), the irq thread raises    *)
(* the exception whose number it has read (arm_exception).  Both hold the  *)
(* lock of the simulator meanwhile, so each is one step here; who holds    *)
(* the lock when is the business of module Simulator.                      *)
(*                                                                         *)
(* The program is not fixed: Program[a] is the set of instructions that    *)
(* may be found at address a, chosen anew at every fetch.                  *)
(***************************************************************************)
EXTENDS ArmInstruction

CONSTANTS Program,        \* Program[a]: what may be fetched at address a
          IrqBytes,       \* the bytes a client of the irq port sends
          GarbageStorage, \* what malloc leaves in the registers,
          GarbageStatus,  \*   in the status registers
          GarbageMemory   \*   and in the memory

ASSUME MachineAssumption ==
  /\ Program \in [Address -> SUBSET Instr]
  /\ IrqBytes \subseteq 0 .. 255
  /\ GarbageStorage \subseteq [0 .. 30 -> Word]
  /\ GarbageStatus \subseteq PSR
  /\ GarbageMemory \subseteq Contents

VARIABLES core,              \* the arm_core
          mem,               \* the bytes of the memory
          target_exception,  \* gdb->target_exception: result of the last step
          process            \* "running", "exited" or "aborted" by an assert

vars == <<core, mem, target_exception, process>>

Exceptions == 0 .. 7

TypeOK ==
  /\ core \in Core
  /\ mem \in Contents
  /\ target_exception \in Exceptions
  /\ process \in {"running", "exited", "aborted"}

Init ==
  /\ \E g \in GarbageStorage, s \in GarbageStatus :
       core = arm_create(g, [m \in ModeNumber |-> s], s)
  /\ mem \in GarbageMemory
  /\ target_exception = NO_EXCEPTION
  /\ process = "running"

(* What the fetch can bring.  An instruction is only a place holder when   *)
(* the fetch fails.                                                        *)
Fetched(p) == IF FetchFails(p) THEN {[op |-> "COPROC", cond |-> ALWAYS]}
              ELSE Program[FetchAddress(p)]

Becomes(o) ==
  /\ core' = o.core
  /\ mem' = o.mem
  /\ target_exception' =
       IF o.process = "running" THEN o.result ELSE target_exception
  /\ process' = o.process

Step(ins) ==
  /\ process = "running"
  /\ Becomes(arm_step(core, mem, ins))

Interrupt(irq) ==
  /\ process = "running"
  /\ core' = arm_exception(core, irq)
  /\ UNCHANGED <<mem, target_exception, process>>

Next == \/ \E ins \in Fetched(core) : Step(ins)
        \/ \E irq \in IrqBytes : Interrupt(irq)

Spec == Init /\ [][Next]_vars

-----------------------------------------------------------------------------
(* Vocabulary of the properties: what a user program must not reach.       *)

Mode(p) == p.cpsr.mode

Control(psr) == <<psr.mode, psr.I, psr.F, psr.E>>

Confined(p, q) ==
  /\ Control(q.cpsr) = Control(p.cpsr)
  /\ q.spsr = p.spsr
  /\ \A r \in 16 .. 30 : q.storage[r] = p.storage[r]

(* q is reached from p by taking an exception: interrupts off, at a vector *)
(* of the new mode, the user status saved there, and no bank but the SP    *)
(* and LR of that mode touched.                                            *)
Entered(p, q) ==
  /\ Mode(q) \in {SVC, ABT, UND, IRQ, FIQ}
  /\ q.cpsr.I = 1
  /\ q.cpsr.T = 0
  /\ q.storage[PC] \in VectorsOf(Mode(q))
  /\ Control(q.spsr[Mode(q)]) = Control(p.cpsr)
  /\ \A m \in ModeNumber \ {Mode(q)} : q.spsr[m] = p.spsr[m]
  /\ \A r \in 16 .. 30 :
       r \notin {registers(Mode(q), SP), registers(Mode(q), LR)} =>
         q.storage[r] = p.storage[r]
  /\ arm_read_register(q, SP) = q.storage[SP]

Reset(p, q) ==
  /\ q.storage[PC] = VectorBase + Vector.RESET
  /\ Mode(q) = SVC
  /\ q.spsr = p.spsr

-----------------------------------------------------------------------------
(* User mode is a cage: no sequence of instructions of an unprivileged     *)
(* program, with or without interrupts from the other thread, changes its  *)
(* mode, its interrupt masks, the data endianness, a saved status register *)
(* or a banked register of another mode, other than by entering an         *)
(* exception handler at its vector (the privilege tests of arm_msr, of the *)
(* S forms of data processing and of ldm3, and the bank table).            *)
UserConfined ==
  [][Mode(core) = USR =>
       \/ Confined(core, core')
       \/ Entered(core, core')
       \/ Reset(core, core')]_vars

(* A bank belongs to its mode: whatever the program does, in any mode, a   *)
(* step that changes a banked register or an SPSR is taken in its mode, or *)
(* enters that mode through an exception.                                  *)
BanksPrivate ==
  [][Reset(core, core') \/
     /\ \A r \in 16 .. 30 :
          core'.storage[r] # core.storage[r] =>
            \/ Owner(r) = Mode(core)
            \/ /\ Owner(r) = Mode(core')
               /\ r \in {registers(Mode(core'), SP), registers(Mode(core'), LR)}
               /\ core'.storage[PC] \in VectorsOf(Mode(core'))
     /\ \A m \in ModeNumber :
          core'.spsr[m] # core.spsr[m] => m \in {Mode(core), Mode(core')}]_vars

(* Interrupts once masked stay masked until the handler returns: I or F    *)
(* goes from 1 to 0 only when a step restores the whole SPSR of the        *)
(* current mode (and perhaps takes an abort in the restored state, ldm3),  *)
(* or at a reset.  In particular no MSR does it.                           *)
MasksReopenedByReturn ==
  [][(\/ core.cpsr.I = 1 /\ core'.cpsr.I = 0
      \/ core.cpsr.F = 1 /\ core'.cpsr.F = 0) =>
       \/ Reset(core, core')
       \/ /\ arm_current_mode_has_spsr(core)
          /\ LET saved == arm_read_spsr(core)
             IN  \/ core'.cpsr = saved
                 \/ /\ Mode(core') = ABT
                    /\ core'.storage[PC] \in VectorsOf(ABT)
                    /\ core'.spsr[ABT] = saved]_vars

(* "Disable fast interrupts", "Disable normal interrupts": the comments of *)
(* handle_reset (arm_exception.c:63-64).  The reset code runs with both    *)
(* masks set, so that no interrupt comes before the system is ready.       *)
ResetMasksInterrupts ==
  core.storage[PC] = VectorBase + Vector.RESET =>
    core.cpsr.F = 1 /\ core.cpsr.I = 1
=============================================================================
