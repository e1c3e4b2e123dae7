------------------------------ MODULE ArmFrames ------------------------------
(***************************************************************************)
(* Nested exceptions, from the moment the reset code has gone to user      *)
(* mode.  The machine is that of ArmMachine, unchanged.  Whether a program *)
(* gets back what an exception took from it is up to the simulator and to  *)
(* the handlers: what handlers have to do is stated as hypotheses about    *)
(* the Program, HandlersOrderly and HandlersRestore.  The registers of     *)
(* Scratch are those that handlers overwrite without saving them, as the   *)
(* ones of Examples/demoIntteruption.s do with r4 and r5.                  *)
(*                                                                         *)
(* `frames' and `entered' are history variables: the context of every      *)
(* program that has been interrupted and not resumed yet, and what the     *)
(* handler that interrupted it found.                                      *)
(***************************************************************************)
EXTENDS ArmMachine, SequencesExt

CONSTANTS Boot,     \* the instructions the reset code executes to start a program
          Scratch   \* registers that handlers need not hand back

VARIABLES frames, entered

fvars == <<vars, frames, entered>>

(* The registers that handlers owe to the programs they interrupt.         *)
Owed == (0 .. 14) \ Scratch

(* What a program sees of the processor and may rely on.                   *)
Context(p) == [psr  |-> p.cpsr,
               pc   |-> FetchAddress(p),
               regs |-> [r \in Owed |-> arm_read_register(p, r)]]

(* The registers that a handler shares with the program it interrupts, and *)
(* has to hand back.                                                       *)
Shared(mode) == {r \in Owed : registers(mode, r) = r}

Entry(p) == [vector |-> p.storage[PC] - VectorBase,
             link   |-> arm_read_register(p, LR),
             shared |-> [r \in Shared(Mode(p)) |-> p.storage[r]]]

NextAddress(a) == (a + 4) % WordSize

(* Software interrupts and undefined instructions resume after the         *)
(* instruction that raised them, aborts at it.                             *)
ResumeContext(p, exception) ==
  IF exception \in {SOFTWARE_INTERRUPT, UNDEFINED_INSTRUCTION}
  THEN [Context(p) EXCEPT !.pc = NextAddress(FetchAddress(p))]
  ELSE Context(p)

(* The core after the reset and the code that starts the user program.     *)
Booted(g, s, m) == FoldLeft(LAMBDA p, ins : arm_step(p, m, ins).core,
                            arm_create(g, [mode \in ModeNumber |-> s], s), Boot)

ASSUME BootAssumption ==
  \A g \in GarbageStorage, s \in GarbageStatus, m \in GarbageMemory :
    /\ Booted(g, s, m) \in Core
    /\ Mode(Booted(g, s, m)) = USR
    /\ Booted(g, s, m).cpsr.I = 0 /\ Booted(g, s, m).cpsr.F = 0

FInit == /\ \E g \in GarbageStorage, s \in GarbageStatus, m \in GarbageMemory :
              core = Booted(g, s, m) /\ mem = m
         /\ target_exception = NO_EXCEPTION
         /\ process = "running"
         /\ frames = <<>> /\ entered = <<>>

Interrupted(context) == /\ frames' = Append(frames, context)
                        /\ entered' = Append(entered, Entry(core'))

Returned == frames' = Front(frames) /\ entered' = Front(entered)

FStep(ins) ==
  /\ Step(ins)
  /\ IF process' # "running" THEN UNCHANGED <<frames, entered>>
     ELSE IF target_exception' # NO_EXCEPTION
     THEN Interrupted(ResumeContext(core, target_exception'))
     ELSE IF Mode(core') # Mode(core) THEN Returned
     ELSE UNCHANGED <<frames, entered>>

(* A masked interrupt leaves no trace: it is dropped, not kept pending.    *)
FInterrupt(irq) ==
  /\ Interrupt(irq)
  /\ IF core' = core THEN UNCHANGED <<frames, entered>> ELSE Interrupted(Context(core))

FNext == \/ \E ins \in Fetched(core) : FStep(ins)
         \/ \E irq \in IrqBytes : FInterrupt(irq)

FSpec == FInit /\ [][FNext]_fvars

-----------------------------------------------------------------------------
(* The modes of the active handlers, outermost first. *)
Active(i) == IF i = Len(frames) THEN Mode(core) ELSE frames[i + 1].psr.mode

(* No handler writes its mode or SPSR with MSR, or causes an exception of  *)
(* a mode that is active; a FIQ handler causes none.  What raises an       *)
(* exception has left the status register alone.                           *)
Orderly(ins) ==
  LET o == arm_execute_instruction(core, mem, ins)
  IN  /\ Mode(core) # USR /\ ins.op = "MSR" => ~ins.c /\ ~ins.spsr
      /\ o.result # NO_EXCEPTION /\ o.process = "running" =>
           /\ o.core.cpsr = core.cpsr
           /\ Mode(core) # FIQ
           /\ \A i \in 1 .. Len(frames) : Mode(core') # Active(i)

(* Where a handler returns to: its link, less the #n of its SUBS. *)
ReturnAddress(entry) ==
  LET n == IF entry.vector = Vector.DABT THEN 8
           ELSE IF entry.vector \in {Vector.PABT, Vector.IRQ, Vector.FIQ} THEN 4
           ELSE 0
  IN  (entry.link - n) % WordSize

(* A handler returns where it should and leaves the registers that it      *)
(* shares with the program it interrupted as it found them; no handler     *)
(* loads the user bank; no transfer ends in a failing assert; what raises  *)
(* an exception has done nothing else.                                     *)
Restoring(ins) ==
  LET o == arm_execute_instruction(core, mem, ins)
  IN  /\ o.process # "aborted"
      /\ Mode(core) # USR /\ ins.op = "LDM" => ~ins.l \/ ~ins.s \/ PC \in ins.list
      /\ o.result # NO_EXCEPTION => o.core = arm_fetch(core)
      /\ o.result = NO_EXCEPTION /\ Mode(core') # Mode(core) =>
           /\ core'.storage[PC] = ReturnAddress(Last(entered))
           /\ \A r \in Shared(Mode(core)) : core'.storage[r] = Last(entered).shared[r]

(* The hypotheses of the theorems about nesting.  The client of the irq    *)
(* port sends no reset and no exception that only instructions cause.      *)
Intended == IrqBytes \ 1 .. 5

HandlersOrderly ==
  [][\/ \E ins \in Fetched(core) : FStep(ins) /\ Orderly(ins)
     \/ \E irq \in Intended : FInterrupt(irq)]_fvars

(* Handlers that hand back what they owe, as those of the demonstration    *)
(* program do for SWI, IRQ and FIQ when r4 and r5 are scratch              *)
(* (Examples/demoIntteruption.s:38-42, 52-68).  They can only if LR, SP    *)
(* and the registers they find on entry let them, whatever interrupts them *)
(* (arm_exception.c, and the multiple transfers to their stack).           *)
HandlersRestore ==
  [][\/ \E ins \in Fetched(core) : FStep(ins) /\ Orderly(ins) /\ Restoring(ins)
     \/ \E irq \in Intended : FInterrupt(irq)]_fvars

-----------------------------------------------------------------------------
Contexts == INSTANCE ContextStack
              WITH now <- Context(core), stack <- frames, Following <- NextAddress

(* Every return resumes exactly the context interrupted last: status       *)
(* register with flags, T and masks, program counter, the registers that   *)
(* handlers owe, through any nesting of software interrupts, undefined     *)
(* instructions, data aborts, IRQs and FIQs (the LR offsets, SPSR and bank *)
(* switches of arm_exception.c against the S forms of                      *)
(* arm_data_processing.c, and the pushes of handlers on the stack they     *)
(* inherit).                                                               *)
ResumesContext == Contexts!Spec

(* The SPSR and LR of an active handler are not reused before it returns:  *)
(* each frame's status register is still in the SPSR of the mode that      *)
(* interrupted it, and no mode is active twice.                            *)
SavedInBanks ==
  process = "running" =>
    \A i \in 1 .. Len(frames) :
      /\ core.spsr[Active(i)] = frames[i].psr
      /\ \A j \in 1 .. Len(frames) : Active(i) = Active(j) => i = j

(* An IRQ never interrupts a handler, and nothing but the first frame may  *)
(* belong to an IRQ; a FIQ handler is interrupted by no interrupt.         *)
InterruptsNest ==
  process = "running" =>
    \A i \in 1 .. Len(frames) :
      /\ Active(i) = IRQ => i = 1
      /\ Active(i) = FIQ => i = Len(frames)
=============================================================================
