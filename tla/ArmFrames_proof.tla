---------------------------- MODULE ArmFrames_proof ----------------------------
(***************************************************************************)
(* Nested exceptions for every program whose handlers are orderly: the     *)
(* SPSR of each active handler keeps the status it will restore, and no    *)
(* mode is entered twice.  When the handlers also restore what they share  *)
(* with the program they interrupt, exceptions nest like procedure calls.  *)
(***************************************************************************)
EXTENDS ArmFrames, ArmMachine_proof, SequenceTheorems

Frame == [psr : PSR, pc : Word, regs : [Owed -> Word]]

(* The mode of the handler that interrupted fs[i], when p is running.      *)
ActiveIn(p, fs, i) == IF i = Len(fs) THEN Mode(p) ELSE fs[i + 1].psr.mode

-----------------------------------------------------------------------------
(* The inductive invariant, in three parts. *)

(* Each active handler has a mode of its own, whose SPSR holds what it     *)
(* will restore; the first one interrupted user mode.                      *)
SavedIn(p, fs) ==
  /\ fs = <<>> => Mode(p) = USR
  /\ fs # <<>> => fs[1].psr.mode = USR
  /\ \A i \in 1 .. Len(fs) :
       /\ ActiveIn(p, fs, i) \in Entering
       /\ p.spsr[ActiveIn(p, fs, i)] = fs[i].psr
       /\ \A j \in 1 .. Len(fs) : ActiveIn(p, fs, i) = ActiveIn(p, fs, j) => i = j

(* A handler runs with I set, and had it set when it was interrupted; a    *)
(* FIQ handler runs with F set.                                            *)
MaskedIn(p, fs) ==
  /\ fs # <<>> => p.cpsr.I = 1
  /\ \A i \in 2 .. Len(fs) : fs[i].psr.I = 1
  /\ Mode(p) = FIQ => p.cpsr.F = 1

(* Only the first handler can be that of an IRQ, only the last of a FIQ.   *)
OrderedIn(p, fs) ==
  \A i \in 1 .. Len(fs) :
    /\ ActiveIn(p, fs, i) = IRQ => i = 1
    /\ ActiveIn(p, fs, i) = FIQ => i = Len(fs)

NestedIn(p, fs) == SavedIn(p, fs) /\ MaskedIn(p, fs) /\ OrderedIn(p, fs)

FramesInv ==
  /\ TypeOK
  /\ frames \in Seq(Frame)
  /\ process = "running" => NestedIn(core, frames)

-----------------------------------------------------------------------------
(* Putting a frame on the stack and taking one off. *)

(* The frames of a stack to which one has been added. *)
LEMMA Pushed ==
  ASSUME NEW S, NEW fs \in Seq(S), NEW frame \in S
  PROVE  LET gs == Append(fs, frame)
         IN  /\ gs \in Seq(S) /\ Len(gs) = Len(fs) + 1 /\ Len(fs) \in Nat
             /\ gs # <<>>
             /\ \A i \in 1 .. Len(fs) : gs[i] = fs[i]
             /\ gs[Len(fs) + 1] = frame
             /\ fs = <<>> <=> Len(fs) = 0
<1>1. Len(fs) \in Nat /\ (fs = <<>> <=> Len(fs) = 0)
  BY LenProperties, EmptySeq
<1> QED
  BY <1>1, AppendProperties

(* The frames of a stack from which the last one has been taken. *)
LEMMA Popped ==
  ASSUME NEW S, NEW fs \in Seq(S), fs # <<>>
  PROVE  LET gs == Front(fs)
         IN  /\ gs \in Seq(S) /\ Len(gs) = Len(fs) - 1 /\ Len(fs) \in Nat \ {0}
             /\ \A i \in 1 .. Len(gs) : gs[i] = fs[i]
             /\ gs = <<>> <=> Len(fs) = 1
<1> DEFINE n  == Len(fs)
           gs == SubSeq(fs, 1, n - 1)
<1>1. n \in Nat \ {0} /\ \A i \in 1 .. n : fs[i] \in S
  BY LenProperties, EmptySeq, ElementOfSeq
<1>2. 1 \in Int /\ n - 1 \in Int /\ \A i \in 1 .. n - 1 : fs[i] \in S
  BY <1>1
<1> HIDE DEF n
<1>3. /\ gs \in Seq(S)
      /\ Len(gs) = IF 1 <= n - 1 THEN n - 1 - 1 + 1 ELSE 0
      /\ \A i \in 1 .. n - 1 - 1 + 1 : gs[i] = fs[1 + i - 1]
  BY <1>2, SubSeqProperties
<1> HIDE DEF gs
<1>4. Len(gs) = n - 1
  BY <1>1, <1>3
<1>5. \A i \in 1 .. Len(gs) : gs[i] = fs[i]
  BY <1>1, <1>3, <1>4
<1>6. gs = <<>> <=> Len(gs) = 0
  BY <1>3, LenProperties, EmptySeq
<1>7. Front(fs) = gs
  BY DEF Front, gs, n
<1> QED
  BY <1>1, <1>3, <1>4, <1>5, <1>6, <1>7 DEF n

-----------------------------------------------------------------------------
(* The invariant through the three ways in which the stack can move.       *)

(* What changes neither an SPSR nor mode, I or F.                          *)
LEMMA RunNested ==
  ASSUME NEW p, NEW q, NEW fs, NestedIn(p, fs), StatusKept(p, q)
  PROVE  NestedIn(q, fs)
<1>1. Mode(q) = Mode(p) /\ q.spsr = p.spsr /\ q.cpsr.I = p.cpsr.I /\ q.cpsr.F = p.cpsr.F
  BY DEF StatusKept, Mode
<1>2. \A i : ActiveIn(q, fs, i) = ActiveIn(p, fs, i)
  BY <1>1 DEF ActiveIn
<1>3. SavedIn(q, fs)
  BY <1>1, <1>2 DEF NestedIn, SavedIn
<1>4. MaskedIn(q, fs)
  BY <1>1 DEF NestedIn, MaskedIn
<1>5. OrderedIn(q, fs)
  BY <1>2 DEF NestedIn, OrderedIn
<1> QED
  BY <1>3, <1>4, <1>5 DEF NestedIn

(* The entry of a handler whose mode is free.                              *)
Fits(p, fs, mode) ==
  /\ Mode(p) # FIQ
  /\ mode = IRQ => fs = <<>>
  /\ \A i \in 1 .. Len(fs) : ActiveIn(p, fs, i) # mode

(* The modes of the handlers below an exception are those above the        *)
(* exception before it.                                                    *)
LEMMA EnterActive ==
  ASSUME NEW p, NEW q, NEW fs \in Seq(Frame), NEW frame \in Frame, frame.psr = p.cpsr
  PROVE  LET gs == Append(fs, frame)
         IN  /\ ActiveIn(q, gs, Len(fs) + 1) = Mode(q)
             /\ \A i \in 1 .. Len(fs) : ActiveIn(q, gs, i) = ActiveIn(p, fs, i)
<1> DEFINE gs == Append(fs, frame)
           n  == Len(fs)
<1>1. /\ Len(gs) = n + 1 /\ n \in Nat /\ gs[n + 1] = frame
      /\ \A i \in 1 .. n : gs[i] = fs[i]
  BY Pushed
<1> HIDE DEF gs, n
<1>2. ActiveIn(q, gs, n + 1) = Mode(q)
  BY <1>1 DEF ActiveIn
<1>3. ASSUME NEW i \in 1 .. n PROVE ActiveIn(q, gs, i) = ActiveIn(p, fs, i)
  <2>1. i # n + 1 /\ i \in Nat
    BY <1>1
  <2>2. ActiveIn(q, gs, i) = gs[i + 1].psr.mode
    BY <1>1, <2>1 DEF ActiveIn
  <2>3. CASE i = n
    BY <1>1, <2>2, <2>3 DEF ActiveIn, Mode, n
  <2>4. CASE i # n
    <3>1. i + 1 \in 1 .. n
      BY <1>1, <2>1, <2>4
    <3> QED
      BY <1>1, <2>2, <2>4, <3>1 DEF ActiveIn, n
  <2> QED
    BY <2>3, <2>4
<1> QED
  BY <1>2, <1>3 DEF gs, n

(* An exception that is taken in a mode that is free.                      *)
LEMMA EnterNested ==
  ASSUME NEW p, NEW mid, NEW q, NEW fs \in Seq(Frame), NEW frame \in Frame,
         NestedIn(p, fs), Fits(p, fs, Mode(q)), Took(mid, q),
         mid.cpsr = p.cpsr, mid.spsr = p.spsr, frame.psr = p.cpsr,
         Mode(q) = FIQ => q.cpsr.F = 1,
         p.cpsr.mode \in ModeNumber
  PROVE  NestedIn(q, Append(fs, frame))
<1> DEFINE gs == Append(fs, frame)
           n  == Len(fs)
<1>1. /\ Len(gs) = n + 1 /\ n \in Nat /\ gs[n + 1] = frame /\ gs # <<>>
      /\ \A i \in 1 .. n : gs[i] = fs[i]
      /\ fs = <<>> <=> n = 0
  BY Pushed
<1>2. /\ ActiveIn(q, gs, n + 1) = Mode(q)
      /\ \A i \in 1 .. n : ActiveIn(q, gs, i) = ActiveIn(p, fs, i)
  BY EnterActive
<1>3. /\ Mode(q) \in Entering /\ q.spsr[Mode(q)] = p.cpsr /\ q.cpsr.I = 1
      /\ \A m \in ModeNumber \ {Mode(q)} : q.spsr[m] = p.spsr[m]
  BY DEF Took, Mode
<1>4. \A i \in 1 .. n : ActiveIn(p, fs, i) # Mode(q)
  BY DEF Fits, n
<1> HIDE DEF gs, n
<1>5. \A i \in 1 .. n + 1 : i = n + 1 \/ i \in 1 .. n
  BY <1>1
<1>6. SavedIn(q, gs)
  <2>1. gs[1].psr.mode = USR
    <3>1. CASE n = 0
      <4>1. Mode(p) = USR /\ gs[1] = frame
        BY <1>1, <3>1 DEF NestedIn, SavedIn
      <4> QED
        BY <4>1 DEF Mode
    <3>2. CASE n # 0
      <4>1. 1 \in 1 .. n
        BY <1>1, <3>2
      <4> QED
        BY <1>1, <3>2, <4>1 DEF NestedIn, SavedIn
    <3> QED
      BY <3>1, <3>2
  <2>2. ASSUME NEW i \in 1 .. n + 1
        PROVE  /\ ActiveIn(q, gs, i) \in Entering
               /\ q.spsr[ActiveIn(q, gs, i)] = gs[i].psr
    <3>1. CASE i = n + 1
      BY <1>1, <1>2, <1>3, <3>1
    <3>2. CASE i \in 1 .. n
      <4>1. /\ ActiveIn(p, fs, i) \in Entering
            /\ p.spsr[ActiveIn(p, fs, i)] = fs[i].psr
        BY <3>2 DEF NestedIn, SavedIn, n
      <4>2. Entering \subseteq ModeNumber
        BY DEF Entering, ModeNumber, SVC, ABT, UND, IRQ, FIQ
      <4> QED
        BY <1>1, <1>2, <1>3, <1>4, <3>2, <4>1, <4>2
    <3> QED
      BY <1>5, <3>1, <3>2
  <2>3. ASSUME NEW i \in 1 .. n + 1, NEW j \in 1 .. n + 1,
               ActiveIn(q, gs, i) = ActiveIn(q, gs, j)
        PROVE  i = j
    <3>1. CASE i \in 1 .. n /\ j \in 1 .. n
      BY <1>2, <2>3, <3>1 DEF NestedIn, SavedIn, n
    <3> QED
      BY <1>2, <1>4, <1>5, <2>3, <3>1
  <2> QED
    BY <1>1, <2>1, <2>2, <2>3 DEF SavedIn
<1>7. MaskedIn(q, gs)
  <2>1. ASSUME NEW i \in 2 .. n + 1 PROVE gs[i].psr.I = 1
    <3>1. CASE i = n + 1
      BY <1>1, <2>1, <3>1 DEF NestedIn, MaskedIn
    <3>2. CASE i \in 2 .. n
      <4>1. i \in 1 .. n
        BY <1>1, <3>2
      <4> QED
        BY <1>1, <3>2, <4>1 DEF NestedIn, MaskedIn, n
    <3> QED
      BY <1>1, <3>1, <3>2
  <2> QED
    BY <1>1, <1>3, <2>1 DEF MaskedIn
<1>8. OrderedIn(q, gs)
  <2>1. ASSUME NEW i \in 1 .. n + 1
        PROVE  /\ ActiveIn(q, gs, i) = IRQ => i = 1
               /\ ActiveIn(q, gs, i) = FIQ => i = n + 1
    <3>1. CASE i = n + 1
      BY <1>1, <1>2, <3>1 DEF Fits
    <3>2. CASE i \in 1 .. n
      <4>1. /\ ActiveIn(p, fs, i) = IRQ => i = 1
            /\ ActiveIn(p, fs, i) = FIQ => i = n
        BY <3>2 DEF NestedIn, OrderedIn, n
      <4>2. ActiveIn(p, fs, n) = Mode(p)
        BY DEF ActiveIn, n
      <4> QED
        BY <1>2, <3>2, <4>1, <4>2 DEF Fits
    <3> QED
      BY <1>5, <3>1, <3>2
  <2> QED
    BY <1>1, <2>1 DEF OrderedIn
<1> QED
  BY <1>6, <1>7, <1>8 DEF NestedIn, gs

(* The handler that ran in p has returned in q to what it interrupted.     *)
ReturnedTo(p, q, fs) ==
  /\ Mode(q) # Mode(p)
  /\ q.cpsr = fs[Len(fs)].psr
  /\ \A i \in 1 .. Len(fs) - 1 : ActiveIn(q, Front(fs), i) = ActiveIn(p, fs, i)
  /\ NestedIn(q, Front(fs))

(* The return of the handler that runs restores its SPSR.                  *)
LEMMA ReturnNested ==
  ASSUME NEW p, NEW q, NEW fs \in Seq(Frame), fs # <<>>,
         NestedIn(p, fs), q.spsr = p.spsr, q.cpsr = p.spsr[Mode(p)]
  PROVE  ReturnedTo(p, q, fs)
<1> DEFINE gs == Front(fs)
           n  == Len(fs)
<1>1. /\ Len(gs) = n - 1 /\ n \in Nat \ {0}
      /\ \A i \in 1 .. n - 1 : gs[i] = fs[i]
      /\ gs = <<>> <=> n = 1
  BY Popped
<1>2. /\ fs[1].psr.mode = USR
      /\ \A i \in 1 .. n :
           /\ ActiveIn(p, fs, i) \in Entering
           /\ p.spsr[ActiveIn(p, fs, i)] = fs[i].psr
           /\ \A j \in 1 .. n : ActiveIn(p, fs, i) = ActiveIn(p, fs, j) => i = j
  BY DEF NestedIn, SavedIn
<1>3. /\ \A i \in 2 .. n : fs[i].psr.I = 1
      /\ \A i \in 1 .. n : /\ ActiveIn(p, fs, i) = IRQ => i = 1
                           /\ ActiveIn(p, fs, i) = FIQ => i = n
  BY DEF NestedIn, MaskedIn, OrderedIn
<1>4. ActiveIn(p, fs, n) = Mode(p)
  BY DEF ActiveIn, n
<1> HIDE DEF gs, n
<1>5. q.cpsr = fs[n].psr /\ Mode(p) \in Entering
  BY <1>1, <1>2, <1>4
<1>6. n # 1 => Mode(q) = ActiveIn(p, fs, n - 1)
  <2>1. n # 1 => n - 1 # n /\ n - 1 + 1 = n
    BY <1>1
  <2> QED
    BY <1>5, <2>1 DEF ActiveIn, Mode, n
<1>7. n = 1 => Mode(q) = USR
  BY <1>2, <1>5 DEF Mode
<1>8. Mode(q) # Mode(p) /\ (n # 1 => Mode(q) # FIQ)
  <2>1. CASE n = 1
    BY <1>5, <1>7, <2>1 DEF Entering, USR, SVC, ABT, UND, IRQ, FIQ
  <2>2. CASE n # 1
    <3>1. n - 1 \in 1 .. n /\ n \in 1 .. n /\ n - 1 # n
      BY <1>1, <2>2
    <3>2. ActiveIn(p, fs, n - 1) # ActiveIn(p, fs, n) /\ ActiveIn(p, fs, n - 1) # FIQ
      BY <1>2, <1>3, <3>1
    <3> QED
      BY <1>4, <1>6, <2>2, <3>2
  <2> QED
    BY <2>1, <2>2
<1>9. ASSUME NEW i \in 1 .. n - 1 PROVE ActiveIn(q, gs, i) = ActiveIn(p, fs, i)
  <2>1. CASE i = n - 1
    BY <1>1, <1>6, <2>1 DEF ActiveIn
  <2>2. CASE i # n - 1
    <3>1. i + 1 \in 1 .. n - 1 /\ i # n
      BY <1>1, <2>2
    <3> QED
      BY <1>1, <2>2, <3>1 DEF ActiveIn, n
  <2> QED
    BY <2>1, <2>2
<1>10. \A i \in 1 .. n - 1 : i \in 1 .. n
  BY <1>1
<1>11. SavedIn(q, gs)
  <2>1. n # 1 => gs[1] = fs[1]
    BY <1>1
  <2> QED
    BY <1>1, <1>2, <1>7, <1>9, <1>10, <2>1 DEF SavedIn
<1>12. MaskedIn(q, gs)
  <2>1. n # 1 => q.cpsr.I = 1
    BY <1>1, <1>3, <1>5
  <2>2. \A i \in 2 .. n - 1 : i \in 2 .. n /\ i \in 1 .. n - 1
    BY <1>1
  <2>3. Mode(q) # FIQ
    BY <1>7, <1>8 DEF USR, FIQ
  <2> QED
    BY <1>1, <1>3, <2>1, <2>2, <2>3 DEF MaskedIn
<1>13. OrderedIn(q, gs)
  <2>1. \A i \in 1 .. n - 1 : i # n
    BY <1>1
  <2>2. \A i \in 1 .. n - 1 : /\ ActiveIn(q, gs, i) = IRQ => i = 1
                             /\ ActiveIn(q, gs, i) # FIQ
    <3> TAKE i \in 1 .. n - 1
    <3>1. /\ ActiveIn(p, fs, i) = IRQ => i = 1
          /\ ActiveIn(p, fs, i) = FIQ => i = n
      BY <1>3, <1>10
    <3> QED
      BY <1>9, <2>1, <3>1
  <2> QED
    BY <1>1, <2>2 DEF OrderedIn
<1> QED
  BY <1>5, <1>8, <1>9, <1>11, <1>12, <1>13 DEF NestedIn, ReturnedTo, gs, n

-----------------------------------------------------------------------------
(* One step of the gdb thread. *)

(* What handlers owe are registers, the program counter not among them.    *)
LEMMA OwedRegisters == \A r \in Owed : r \in 0 .. 14
BY DEF Owed

(* A context is a frame. *)
LEMMA ContextType ==
  ASSUME NEW p \in Core, NEW exception
  PROVE  /\ Context(p) \in Frame /\ ResumeContext(p, exception) \in Frame
         /\ Context(p).psr = p.cpsr /\ ResumeContext(p, exception).psr = p.cpsr
<1>1. \A r \in Owed : arm_read_register(p, r) \in Word
  <2>1. \A r \in Owed : r \in RegNumber
    BY OwedRegisters DEF RegNumber
  <2> QED
    BY <2>1, ReadRegisterType
<1>2. p.cpsr \in PSR /\ FetchAddress(p) \in Word /\ NextAddress(FetchAddress(p)) \in Word
  BY CoreFields, CurrentIsFetched, NextIsFetched DEF NextAddress
<1>3. Context(p) \in Frame /\ Context(p).psr = p.cpsr
  <2> HIDE DEF FetchAddress
  <2> QED
    BY <1>1, <1>2 DEF Context, Frame
<1>4. LET c == [Context(p) EXCEPT !.pc = NextAddress(FetchAddress(p))]
      IN  c \in Frame /\ c.psr = Context(p).psr
  BY <1>2, <1>3 DEF Frame
<1> QED
  BY <1>3, <1>4 DEF ResumeContext

(* What an instruction raises: the mode, the link and the vector.          *)
Raises(p, q, result) ==
  LET here == arm_address_current_instruction(p)
      next == arm_address_next_instruction(p)
  IN  \/ /\ result = UNDEFINED_INSTRUCTION
         /\ TookAt(p, q, UND, next, Vector.UND)
      \/ /\ result = SOFTWARE_INTERRUPT
         /\ TookAt(p, q, SVC, next, Vector.SWI)
      \/ /\ result = PREFETCH_ABORT
         /\ TookAt(p, q, ABT, (here + 4) % WordSize, Vector.PABT)
      \/ /\ result = DATA_ABORT
         /\ TookAt(p, q, ABT, (here + 8) % WordSize, Vector.DABT)

(* Exceptions 2 to 5 are raised so. *)
LEMMA ExceptionRaises ==
  ASSUME NEW p \in Core, NEW result \in 2 .. 5
  PROVE  Raises(p, arm_exception(p, result), result)
<1> USE DEF RESET, UNDEFINED_INSTRUCTION, SOFTWARE_INTERRUPT, PREFETCH_ABORT,
            DATA_ABORT, INTERRUPT, FAST_INTERRUPT
<1>1. CASE result = UNDEFINED_INSTRUCTION
  <2>1. arm_exception(p, result) = handle_undefined_instruction(p)
    BY <1>1 DEF arm_exception
  <2> QED
    BY <1>1, <2>1, HandlersTook DEF Raises
<1>2. CASE result = SOFTWARE_INTERRUPT
  <2>1. arm_exception(p, result) = handle_software_interrup(p)
    BY <1>2 DEF arm_exception
  <2> QED
    BY <1>2, <2>1, HandlersTook DEF Raises
<1>3. CASE result = PREFETCH_ABORT
  <2>1. arm_exception(p, result) = handle_prefetch_abord(p)
    BY <1>3 DEF arm_exception
  <2> QED
    BY <1>3, <2>1, HandlersTook DEF Raises
<1>4. CASE result = DATA_ABORT
  <2>1. arm_exception(p, result) = handle_data_abort(p)
    BY <1>4 DEF arm_exception
  <2> QED
    BY <1>4, <2>1, HandlersTook DEF Raises
<1> QED
  BY <1>1, <1>2, <1>3, <1>4

(* In whatever way it is raised, the exception takes one of three modes.   *)
LEMMA RaisedTook ==
  ASSUME NEW p, NEW q, NEW result, Raises(p, q, result)
  PROVE  Took(p, q) /\ Mode(q) \in {UND, SVC, ABT}
BY DEF Raises, TookAt, Mode

(* The three ways in which an instruction of an orderly handler can go on. *)
Wrote(p, q, bank) == \A r \in 0 .. 30 : q.storage[r] # p.storage[r] => r \in bank

Ran(bank) == /\ StatusKept(core, core') /\ Wrote(core, core', bank)
             /\ UNCHANGED <<frames, entered>>

CameBack(bank) == /\ core'.cpsr = core.spsr[Mode(core)] /\ core'.spsr = core.spsr
                  /\ Wrote(core, core', bank)
                  /\ frames # <<>> /\ Returned

Raised(mid) == /\ mid \in Core /\ mid.cpsr = core.cpsr /\ mid.spsr = core.spsr
               /\ Raises(mid, core', target_exception')
               /\ Fits(core, frames, Mode(core')) /\ Mode(core') # FIQ
               /\ Interrupted(ResumeContext(core, target_exception'))

(* A step goes on in one of these ways, or ends the process. *)
LEMMA StepMoves ==
  ASSUME FramesInv, NEW ins \in Fetched(core), FStep(ins), Orderly(ins)
  PROVE  LET o    == arm_execute_instruction(core, mem, ins)
             bank == WritableBank(core.cpsr.mode, ins)
         IN  /\ core \in Core /\ mem \in Contents /\ ins \in Instr /\ process' = o.process
             /\ \/ /\ process' # "running" /\ UNCHANGED <<frames, entered>>
                   /\ o.process # "aborted" => StatusKept(core, core')
                \/ process' = "running" /\ o.result = NO_EXCEPTION /\ Ran(bank)
                \/ /\ process' = "running" /\ o.result = NO_EXCEPTION
                   /\ Mode(core') # Mode(core) /\ CameBack(bank)
                \/ /\ process' = "running" /\ o.result # NO_EXCEPTION /\ Raised(o.core)
<1> DEFINE o    == arm_execute_instruction(core, mem, ins)
           bank == WritableBank(core.cpsr.mode, ins)
           q    == arm_exception(o.core, o.result)
<1>1. /\ core \in Core /\ mem \in Contents /\ ins \in Instr
      /\ process = "running" /\ NestedIn(core, frames) /\ frames \in Seq(Frame)
  BY FetchedType DEF FramesInv, TypeOK, FStep, Step
<1>2. Steady(core, o, bank)
  <2>1. ~WritesControl(core, ins)
    BY DEF Orderly, WritesControl, Mode
  <2> QED
    BY <1>1, <2>1, ExecuteSteady
<1>3. /\ process' = o.process /\ o \in Outcomes
      /\ o.process = "running" => target_exception' = o.result
      /\ core' = IF o.result = NO_EXCEPTION \/ o.process # "running" THEN o.core ELSE q
  <2> DEFINE s == arm_step(core, mem, ins)
  <2>1. o \in Outcomes
    BY <1>2 DEF Steady
  <2> HIDE DEF q
  <2>2. s = IF o.result = NO_EXCEPTION \/ o.process # "running" THEN o
            ELSE [o EXCEPT !.core = q]
    BY DEF arm_step, WithException, q
  <2> HIDE DEF o, s
  <2>3. LET e == [o EXCEPT !.core = q]
        IN  e.core = q /\ e.process = o.process /\ e.result = o.result
    BY <2>1 DEF Outcomes
  <2> QED
    BY <2>1, <2>2, <2>3 DEF FStep, Step, Becomes, s
<1>4. o.result # NO_EXCEPTION /\ o.process = "running" =>
        /\ o.core.cpsr = core.cpsr
        /\ Mode(core) # FIQ
        /\ \A i \in 1 .. Len(frames) : Mode(core') # Active(i)
  BY DEF Orderly
<1>5. /\ \A i : ActiveIn(core, frames, i) = Active(i)
      /\ frames = <<>> => Mode(core) = USR
  BY <1>1 DEF Active, ActiveIn, NestedIn, SavedIn
<1> HIDE DEF o, q, bank
<1>6. CASE process' # "running"
  <2>1. core' = o.core /\ UNCHANGED <<frames, entered>>
    BY <1>3, <1>6 DEF FStep
  <2>2. o.process # "aborted" => StatusKept(core, core')
    <3>1. o.process \in {"running", "exited", "aborted"}
      BY <1>3 DEF Outcomes, Processes
    <3> QED
      BY <1>2, <1>3, <1>6, <2>1, <3>1 DEF Steady, Restored
  <2> QED
    BY <1>1, <1>3, <1>6, <2>1, <2>2 DEF o
<1>7. CASE process' = "running" /\ o.result = NO_EXCEPTION
  <2>1. /\ core' = o.core /\ target_exception' = NO_EXCEPTION
        /\ Wrote(core, core', bank)
    BY <1>2, <1>3, <1>7 DEF Steady, Wrote
  <2>2. CASE StatusKept(core, o.core)
    <3>1. Mode(core') = Mode(core)
      BY <2>1, <2>2 DEF StatusKept, Mode
    <3>2. UNCHANGED <<frames, entered>>
      BY <1>7, <2>1, <3>1 DEF FStep
    <3>3. Ran(bank)
      BY <2>1, <2>2, <3>2 DEF Ran
    <3> QED
      BY <1>1, <1>3, <1>7, <3>3 DEF o, bank
  <2>3. CASE Restored(core, o)
    <3>1. /\ core'.cpsr = core.spsr[Mode(core)] /\ core'.spsr = core.spsr
          /\ Mode(core) # USR
      BY <2>1, <2>3 DEF Restored, arm_read_spsr, arm_current_mode_has_spsr, Mode
    <3>2. Mode(core') # Mode(core)
      BY <1>1, <1>5, <3>1, ReturnNested DEF ReturnedTo
    <3>3. Returned
      BY <1>7, <2>1, <3>2 DEF FStep
    <3>4. CameBack(bank)
      BY <1>5, <2>1, <3>1, <3>3 DEF CameBack
    <3> QED
      BY <1>1, <1>3, <1>7, <3>2, <3>4 DEF o, bank
  <2> QED
    BY <1>2, <2>2, <2>3 DEF Steady
<1>8. CASE process' = "running" /\ o.result # NO_EXCEPTION
  <2>1. /\ core' = q /\ target_exception' # NO_EXCEPTION /\ target_exception' = o.result
        /\ o.core \in Core /\ o.result \in 2 .. 5
    BY <1>3, <1>8 DEF Outcomes, Results
  <2>2. Raises(o.core, core', target_exception')
    BY <2>1, ExceptionRaises DEF q
  <2>3. o.core.cpsr = core.cpsr /\ o.core.spsr = core.spsr
    BY <1>2, <1>3, <1>4, <1>8 DEF Steady, StatusKept, Restored
  <2>4. Interrupted(ResumeContext(core, target_exception'))
    BY <1>8, <2>1 DEF FStep
  <2>5. Mode(core') \in {UND, SVC, ABT}
    BY <2>2, RaisedTook
  <2>6. Fits(core, frames, Mode(core')) /\ Mode(core') # FIQ
    BY <1>3, <1>4, <1>5, <1>8, <2>5 DEF Fits, UND, SVC, ABT, IRQ, FIQ
  <2>7. Raised(o.core)
    BY <2>1, <2>2, <2>3, <2>4, <2>6 DEF Raised
  <2> QED
    BY <1>1, <1>3, <1>8, <2>7 DEF o
<1> QED
  BY <1>6, <1>7, <1>8

(* The frame that an exception of an instruction adds.                     *)
LEMMA RaisedNested ==
  ASSUME NEW mid, Raised(mid), core \in Core, frames \in Seq(Frame), NestedIn(core, frames)
  PROVE  NestedIn(core', frames') /\ frames' \in Seq(Frame)
<1> DEFINE frame == ResumeContext(core, target_exception')
<1>1. frames' = Append(frames, frame)
  BY DEF Raised, Interrupted
<1>2. frame \in Frame /\ frame.psr = core.cpsr
  BY ContextType
<1> HIDE DEF frame
<1>3. /\ Took(mid, core') /\ mid.cpsr = core.cpsr /\ mid.spsr = core.spsr
      /\ Fits(core, frames, Mode(core')) /\ Mode(core') # FIQ
      /\ core.cpsr.mode \in ModeNumber
  BY RaisedTook, CoreFields DEF Raised
<1> QED
  BY <1>1, <1>2, <1>3, EnterNested, Pushed

(* A step of an orderly handler keeps the invariant.                       *)
LEMMA StepNested ==
  ASSUME FramesInv, NEW ins \in Fetched(core), FStep(ins), Orderly(ins)
  PROVE  FramesInv'
<1> DEFINE o    == arm_execute_instruction(core, mem, ins)
           bank == WritableBank(core.cpsr.mode, ins)
<1>1. /\ core \in Core /\ ins \in Instr /\ frames \in Seq(Frame)
      /\ \/ process' # "running" /\ UNCHANGED frames
         \/ process' = "running" /\ (Ran(bank) \/ CameBack(bank) \/ Raised(o.core))
  BY StepMoves DEF FramesInv
<1>2. TypeOK'
  BY <1>1, StepTransition DEF FramesInv, FStep
<1>3. NestedIn(core, frames)
  BY DEF FramesInv, FStep, Step
<1> HIDE DEF o, bank
<1>4. CASE process' # "running" /\ UNCHANGED frames
  BY <1>1, <1>2, <1>4 DEF FramesInv
<1>5. CASE Ran(bank)
  BY <1>1, <1>2, <1>3, <1>5, RunNested DEF FramesInv, Ran
<1>6. CASE CameBack(bank)
  BY <1>1, <1>2, <1>3, <1>6, ReturnNested, Popped
     DEF FramesInv, CameBack, Returned, ReturnedTo
<1>7. CASE Raised(o.core)
  BY <1>1, <1>2, <1>3, <1>7, RaisedNested DEF FramesInv
<1> QED
  BY <1>1, <1>4, <1>5, <1>6, <1>7

-----------------------------------------------------------------------------
(* One step of the irq thread. *)

(* An interrupt that a client of the port means: IRQ, FIQ or none.         *)
LEMMA IntendedInterrupt ==
  ASSUME NEW p \in Core, NEW irq \in Intended
  PROVE  LET q    == arm_exception(p, irq)
             link == (arm_address_next_instruction(p) + 4) % WordSize
         IN  \/ q = p
             \/ p.cpsr.I = 0 /\ TookAt(p, q, IRQ, link, Vector.IRQ)
             \/ /\ p.cpsr.F = 0 /\ TookAt(p, q, FIQ, link, Vector.FIQ)
                /\ q.cpsr.F = 1
<1>1. arm_exception(p, irq) \in {p, handle_irq(p), handle_fiq(p)}
  BY DEF arm_exception, Intended, RESET, UNDEFINED_INSTRUCTION, SOFTWARE_INTERRUPT,
         PREFETCH_ABORT, DATA_ABORT, INTERRUPT, FAST_INTERRUPT
<1>2. /\ p.cpsr.I = 1 => handle_irq(p) = p
      /\ p.cpsr.F = 1 => handle_fiq(p) = p
  BY DEF handle_irq, handle_fiq
<1>3. p.cpsr.I \in {0, 1} /\ p.cpsr.F \in {0, 1}
  BY CoreFields DEF PSR, Bit
<1>4. LET link == (arm_address_next_instruction(p) + 4) % WordSize
      IN  /\ p.cpsr.I = 0 => TookAt(p, handle_irq(p), IRQ, link, Vector.IRQ)
          /\ p.cpsr.F = 0 => /\ TookAt(p, handle_fiq(p), FIQ, link, Vector.FIQ)
                             /\ handle_fiq(p).cpsr.F = 1
  BY HandlersTook
<1> QED
  BY <1>1, <1>2, <1>3, <1>4

(* An interrupt taken finds its mode free. *)
LEMMA InterruptFits ==
  ASSUME NEW p, NEW fs \in Seq(Frame), NestedIn(p, fs), NEW mode,
         \/ mode = IRQ /\ p.cpsr.I = 0
         \/ mode = FIQ /\ p.cpsr.F = 0
  PROVE  Fits(p, fs, mode)
<1>1. fs # <<>> => p.cpsr.I = 1 /\ Len(fs) \in Nat
  BY LenProperties DEF NestedIn, MaskedIn
<1>2. /\ fs = <<>> => Len(fs) = 0 /\ Mode(p) = USR
      /\ Mode(p) = FIQ => p.cpsr.F = 1
  BY EmptySeq DEF NestedIn, SavedIn, MaskedIn
<1>3. CASE fs = <<>>
  BY <1>2, <1>3 DEF Fits, USR, FIQ
<1>4. CASE fs # <<>>
  <2>1. mode = FIQ /\ p.cpsr.F = 0 /\ Mode(p) # FIQ
    BY <1>1, <1>2, <1>4
  <2>2. \A i \in 1 .. Len(fs) : ActiveIn(p, fs, i) = FIQ => i = Len(fs)
    BY DEF NestedIn, OrderedIn
  <2>3. ActiveIn(p, fs, Len(fs)) = Mode(p)
    BY DEF ActiveIn
  <2> QED
    BY <1>4, <2>1, <2>2, <2>3 DEF Fits, IRQ, FIQ
<1> QED
  BY <1>3, <1>4

(* An interrupt keeps the invariant. *)
LEMMA InterruptNested ==
  ASSUME FramesInv, NEW irq \in Intended, FInterrupt(irq)
  PROVE  FramesInv'
<1>1. /\ core \in Core /\ process = "running" /\ process' = process
      /\ core' = arm_exception(core, irq)
      /\ NestedIn(core, frames) /\ frames \in Seq(Frame) /\ core.cpsr.mode \in ModeNumber
  BY CoreFields DEF FramesInv, TypeOK, FInterrupt, Interrupt
<1>2. TypeOK'
  BY InterruptTransition DEF FramesInv, FInterrupt, Intended
<1>3. CASE core' = core
  BY <1>1, <1>2, <1>3 DEF FramesInv, FInterrupt
<1>4. CASE core' # core
  <2>1. /\ Took(core, core')
        /\ \/ Mode(core') = IRQ /\ core.cpsr.I = 0
           \/ Mode(core') = FIQ /\ core.cpsr.F = 0 /\ core'.cpsr.F = 1
    BY <1>1, <1>4, IntendedInterrupt DEF TookAt, Mode
  <2>2. Fits(core, frames, Mode(core')) /\ (Mode(core') = FIQ => core'.cpsr.F = 1)
    <3>1. Mode(core') = FIQ => core'.cpsr.F = 1
      BY <2>1 DEF IRQ, FIQ
    <3> QED
      BY <1>1, <2>1, <3>1, InterruptFits
  <2>3. frames' = Append(frames, Context(core))
    BY <1>4 DEF FInterrupt, Interrupted
  <2>4. Context(core) \in Frame /\ Context(core).psr = core.cpsr
    BY <1>1, ContextType
  <2>5. NestedIn(core', frames')
    BY <1>1, <2>1, <2>2, <2>3, <2>4, EnterNested
  <2>6. frames' \in Seq(Frame)
    BY <1>1, <2>3, <2>4, Pushed
  <2> QED
    BY <1>2, <2>5, <2>6 DEF FramesInv
<1> QED
  BY <1>3, <1>4

-----------------------------------------------------------------------------
(* The invariant along every behaviour of orderly handlers.                *)

(* A program that has just been started has been interrupted by nothing.   *)
LEMMA InitNested == ASSUME FInit PROVE FramesInv
<1>1. PICK g \in GarbageStorage, s \in GarbageStatus, m \in GarbageMemory :
        core = Booted(g, s, m) /\ mem = m
  BY DEF FInit
<1>2. core \in Core /\ Mode(core) = USR
  BY <1>1, BootAssumption
<1>3. mem \in Contents
  BY <1>1, MachineAssumption
<1>4. /\ target_exception = 0 /\ process = "running" /\ frames = <<>>
  BY DEF FInit, NO_EXCEPTION
<1>5. TypeOK
  BY <1>2, <1>3, <1>4 DEF TypeOK, Exceptions
<1>6. frames \in Seq(Frame) /\ Len(frames) = 0
  BY <1>4, EmptySeq
<1>7. NestedIn(core, frames)
  BY <1>2, <1>4, <1>6 DEF NestedIn, SavedIn, MaskedIn, OrderedIn, USR, FIQ
<1> QED
  BY <1>5, <1>6, <1>7 DEF FramesInv

(* What the properties say is part of the invariant.                       *)
LEMMA InvSaysSaved == FramesInv => SavedInBanks /\ InterruptsNest
<1> SUFFICES ASSUME FramesInv, process = "running"
             PROVE  SavedInBanks /\ InterruptsNest
  BY DEF SavedInBanks, InterruptsNest
<1>1. \A i : ActiveIn(core, frames, i) = Active(i)
  BY DEF Active, ActiveIn
<1> QED
  BY <1>1 DEF FramesInv, NestedIn, SavedIn, OrderedIn, SavedInBanks, InterruptsNest

Ordered == \/ \E ins \in Fetched(core) : FStep(ins) /\ Orderly(ins)
           \/ \E irq \in Intended : FInterrupt(irq)

(* The invariant is inductive. *)
LEMMA OrderedNested == FramesInv /\ [Ordered]_fvars => FramesInv'
<1>1. ASSUME FramesInv, Ordered PROVE FramesInv'
  BY <1>1, StepNested, InterruptNested DEF Ordered
<1>2. ASSUME FramesInv, UNCHANGED fvars PROVE FramesInv'
  BY <1>2 DEF fvars, vars, FramesInv, TypeOK
<1> QED
  BY <1>1, <1>2

(* It holds of every behaviour whose handlers are orderly.                 *)
LEMMA FramesInvHolds == FSpec /\ HandlersOrderly => []FramesInv
<1>1. HandlersOrderly <=> [][Ordered]_fvars
  BY DEF HandlersOrderly, Ordered
<1> QED
  BY <1>1, InitNested, OrderedNested, PTL DEF FSpec

(* Whatever the program, its memory and the interrupts that come, as long  *)
(* as no handler writes its mode or SPSR and none causes an exception of a *)
(* mode that is active: what each of them will restore is still in its     *)
(* SPSR (EnterException, the S forms of data processing, ldm3).            *)
THEOREM SavedInBanksHolds == FSpec /\ HandlersOrderly => []SavedInBanks
BY FramesInvHolds, InvSaysSaved, PTL

(* In all these behaviours interrupts nest as their masks promise.         *)
THEOREM InterruptsNestHolds == FSpec /\ HandlersOrderly => []InterruptsNest
BY FramesInvHolds, InvSaysSaved, PTL

-----------------------------------------------------------------------------
(* The registers and the program counter of the programs interrupted.      *)

(* A bank of its own. *)
Interruptible == {USR} \cup (Entering \ {FIQ})

(* The registers that a mode does not share are out of the reach of every  *)
(* other mode than theirs (the bank table of arm_create).                  *)
LEMMA BankApart ==
  ASSUME NEW a \in Entering, NEW m \in Interruptible, m # a,
         NEW r \in Owed, r \notin Shared(a)
  PROVE  registers(m, r) \in (0 .. 30) \ {PC} /\ registers(m, r) \notin Names(a)
<1>1. /\ m \in ModeNumber /\ a \in ModeNumber /\ r \in RegNumber
      /\ registers(m, r) \in 0 .. 30
  <2>1. /\ m \in ModeNumber /\ a \in ModeNumber /\ r \in RegNumber
    BY OwedRegisters
       DEF Interruptible, Entering, ModeNumber, RegNumber, USR, SVC, ABT, UND, IRQ, FIQ
  <2> QED
    BY <2>1, RegistersType
<1>2. registers(m, r) = r \/ registers(m, r) \in 16 .. 30
  BY DEF registers, Interruptible, Entering, USR, SVC, ABT, UND, IRQ, FIQ, SP, LR
<1>3. CASE registers(m, r) \in 16 .. 30
  <2>1. Owner(registers(m, r)) = m
    BY <1>1, <1>3, OwnerOfBank
  <2>2. \A reg \in RegNumber :
          registers(a, reg) \in 16 .. 30 => Owner(registers(a, reg)) = a
    BY <1>1, OwnerOfBank
  <2>3. registers(m, r) \notin Names(a)
    BY <1>3, <2>1, <2>2 DEF Names
  <2> QED
    BY <1>1, <1>3, <2>3 DEF PC
<1>4. CASE registers(m, r) = r
  <2>1. registers(a, r) # r
    BY DEF Shared
  <2>2. \A reg \in RegNumber : registers(a, reg) = reg \/ registers(a, reg) \in 16 .. 30
    BY DEF registers, RegNumber, Entering, SVC, ABT, UND, IRQ, FIQ, SP, LR
  <2>3. r \notin Names(a)
    BY <2>1, <2>2, OwedRegisters DEF Names
  <2> QED
    BY <1>4, <2>3, OwedRegisters DEF PC
<1> QED
  BY <1>2, <1>3, <1>4

(* Whatever mode is entered, it has SP and LR of its own; all but FIQ have *)
(* no other register of their own.                                         *)
LEMMA SharedRegisters ==
  ASSUME NEW a \in Entering, NEW r \in Owed
  PROVE  /\ r \in {SP, LR} => r \notin Shared(a)
         /\ a # FIQ /\ r \notin {SP, LR} => r \in Shared(a)
         /\ r \in Shared(a) => r \notin {SP, LR}
BY OwedRegisters DEF Shared, registers, Entering, SVC, ABT, UND, IRQ, FIQ, SP, LR

(* A register that an entered mode shares is the same in the other modes.  *)
LEMMA SharedSame ==
  ASSUME NEW a \in Entering, NEW m \in Interruptible, NEW r \in Shared(a)
  PROVE  /\ registers(m, r) = r /\ r \in Owed
         /\ r \notin {PC, registers(a, SP), registers(a, LR)}
<1>1. r \in Owed /\ r \notin {SP, LR}
  BY SharedRegisters DEF Shared
<1> QED
  BY <1>1, OwedRegisters
     DEF registers, Interruptible, Entering, USR, SVC, ABT, UND, IRQ, FIQ, SP, LR, PC

(* What the return of a handler needs: its link leads to where the program *)
(* was interrupted, it found the shared registers as they were, and the    *)
(* others still are as they were.                                          *)
ResumesIn(p, mode, frame, entry) ==
  /\ ReturnAddress(entry) = frame.pc /\ FetchedFrom(frame.pc) = frame.pc
  /\ \A r \in Shared(mode) : entry.shared[r] = frame.regs[r]
  /\ \A r \in Owed \ Shared(mode) :
       p.storage[registers(frame.psr.mode, r)] = frame.regs[r]

ReturnsIn(p, fs, es) ==
  /\ Len(es) = Len(fs)
  /\ \A i \in 1 .. Len(fs) : ResumesIn(p, ActiveIn(p, fs, i), fs[i], es[i])

(* The program that an active handler interrupted ran in a mode that is    *)
(* not that of a handler above it.                                         *)
LEMMA FrameModes ==
  ASSUME NEW p, NEW fs \in Seq(Frame), NestedIn(p, fs), NEW i \in 1 .. Len(fs)
  PROVE  /\ fs[i].psr.mode \in Interruptible
         /\ fs[i].psr.mode # Mode(p)
         /\ \A mode \in Entering : Fits(p, fs, mode) => fs[i].psr.mode # mode
         /\ fs # <<>> /\ ActiveIn(p, fs, i) \in Entering /\ Mode(p) \in Entering
         /\ i # Len(fs) => ActiveIn(p, fs, i) # FIQ
<1> DEFINE n == Len(fs)
<1>1. n \in Nat /\ (n = 0 <=> fs = <<>>) /\ ActiveIn(p, fs, n) = Mode(p)
  BY LenProperties, EmptySeq DEF ActiveIn
<1> HIDE DEF n
<1>2. i \in 1 .. n /\ n \in 1 .. n /\ fs # <<>>
  <2>1. i \in 1 .. n
    BY DEF n
  <2> QED
    BY <1>1, <2>1
<1>3. /\ fs[1].psr.mode = USR
      /\ \A j \in 1 .. n : ActiveIn(p, fs, j) \in Entering
      /\ \A j, k \in 1 .. n : ActiveIn(p, fs, j) = ActiveIn(p, fs, k) => j = k
      /\ \A j \in 1 .. n : ActiveIn(p, fs, j) = FIQ => j = n
  BY <1>2 DEF NestedIn, SavedIn, OrderedIn, n
<1>4. USR \notin Entering
  BY DEF USR, Entering, SVC, ABT, UND, IRQ, FIQ
<1>5. CASE i = 1
  BY <1>1, <1>2, <1>3, <1>4, <1>5 DEF Interruptible, n
<1>6. CASE i # 1
  <2>1. i - 1 \in 1 .. n /\ i - 1 # n /\ i - 1 + 1 = i
    BY <1>1, <1>2, <1>6
  <2>2. fs[i].psr.mode = ActiveIn(p, fs, i - 1)
    BY <2>1 DEF ActiveIn, n
  <2>3. /\ ActiveIn(p, fs, i - 1) \in Entering /\ ActiveIn(p, fs, i - 1) # FIQ
        /\ ActiveIn(p, fs, i - 1) # ActiveIn(p, fs, n)
    BY <1>2, <1>3, <2>1
  <2>4. \A mode \in Entering : Fits(p, fs, mode) => ActiveIn(p, fs, i - 1) # mode
    BY <2>1 DEF Fits, n
  <2> QED
    BY <1>1, <1>2, <1>3, <2>2, <2>3, <2>4 DEF Interruptible, n
<1> QED
  BY <1>5, <1>6

(* A frame stays resumable as long as the registers put away in the bank   *)
(* of its mode are left alone.                                             *)
LEMMA ResumesStill ==
  ASSUME NEW p, NEW q, NEW mode, NEW frame, NEW entry, ResumesIn(p, mode, frame, entry),
         \A r \in Owed \ Shared(mode) :
           q.storage[registers(frame.psr.mode, r)] = p.storage[registers(frame.psr.mode, r)]
  PROVE  ResumesIn(q, mode, frame, entry)
BY DEF ResumesIn

(* Under the handler that runs, every frame keeps what it needs, if only   *)
(* registers of the bank of that handler change.                           *)
LEMMA ResumesUnder ==
  ASSUME NEW p, NEW q, NEW fs \in Seq(Frame), NEW es,
         NestedIn(p, fs), ReturnsIn(p, fs, es), Wrote(p, q, Names(Mode(p))),
         NEW i \in 1 .. Len(fs)
  PROVE  ResumesIn(q, ActiveIn(p, fs, i), fs[i], es[i])
<1> DEFINE a == ActiveIn(p, fs, i)
           m == fs[i].psr.mode
<1>1. /\ m \in Interruptible /\ m # Mode(p) /\ a \in Entering /\ Mode(p) \in Entering
      /\ a = FIQ => i = Len(fs)
      /\ i = Len(fs) => a = Mode(p)
  BY FrameModes DEF ActiveIn
<1>2. ResumesIn(p, a, fs[i], es[i])
  BY DEF ReturnsIn
<1> HIDE DEF a, m
<1>3. ASSUME NEW r \in Owed \ Shared(a)
      PROVE  q.storage[registers(m, r)] = p.storage[registers(m, r)]
  <2>1. r \notin Shared(Mode(p))
    <3>1. CASE a = FIQ
      BY <1>1, <3>1
    <3>2. CASE a # FIQ
      BY <1>1, <3>2, SharedRegisters
    <3> QED
      BY <3>1, <3>2
  <2>2. registers(m, r) \in 0 .. 30 /\ registers(m, r) \notin Names(Mode(p))
    BY <1>1, <2>1, BankApart
  <2> QED
    BY <2>2 DEF Wrote
<1> QED
  BY <1>2, <1>3, ResumesStill DEF a, m

(* An instruction of the handler that runs.                                *)
LEMMA RunReturns ==
  ASSUME NEW p, NEW q, NEW fs \in Seq(Frame), NEW es,
         NestedIn(p, fs), ReturnsIn(p, fs, es), StatusKept(p, q),
         fs # <<>> => Wrote(p, q, Names(Mode(p)))
  PROVE  ReturnsIn(q, fs, es)
<1>1. \A i : ActiveIn(q, fs, i) = ActiveIn(p, fs, i)
  BY DEF StatusKept, ActiveIn, Mode
<1>2. ASSUME NEW i \in 1 .. Len(fs)
      PROVE  ResumesIn(q, ActiveIn(p, fs, i), fs[i], es[i])
  <2>1. fs # <<>>
    BY FrameModes
  <2> QED
    BY <2>1, ResumesUnder
<1> QED
  BY <1>1, <1>2 DEF ReturnsIn

(* The handler that runs returns: the frames below keep what they need.    *)
LEMMA ReturnReturns ==
  ASSUME NEW p, NEW q, NEW fs \in Seq(Frame), NEW S, NEW es \in Seq(S), fs # <<>>,
         NestedIn(p, fs), ReturnsIn(p, fs, es), q.spsr = p.spsr, q.cpsr = p.spsr[Mode(p)],
         Wrote(p, q, Names(Mode(p)))
  PROVE  ReturnsIn(q, Front(fs), Front(es)) /\ Front(es) \in Seq(S)
<1> DEFINE n == Len(fs)
<1>1. /\ Len(Front(fs)) = n - 1 /\ n \in Nat \ {0}
      /\ \A i \in 1 .. n - 1 : Front(fs)[i] = fs[i]
  BY Popped
<1>2. Len(es) = n /\ es # <<>>
  <2>1. Len(es) = n
    BY DEF ReturnsIn
  <2> QED
    BY <1>1, <2>1, EmptySeq
<1>3. /\ Len(Front(es)) = n - 1 /\ Front(es) \in Seq(S)
      /\ \A i \in 1 .. n - 1 : Front(es)[i] = es[i]
  BY <1>2, Popped
<1>4. \A i \in 1 .. n - 1 : ActiveIn(q, Front(fs), i) = ActiveIn(p, fs, i)
  <2>1. ReturnedTo(p, q, fs)
    BY ReturnNested
  <2> QED
    BY <2>1 DEF ReturnedTo
<1>5. ASSUME NEW i \in 1 .. n - 1
      PROVE  ResumesIn(q, ActiveIn(p, fs, i), fs[i], es[i])
  <2>1. i \in 1 .. n
    BY <1>1
  <2> QED
    BY <2>1, ResumesUnder
<1> QED
  BY <1>1, <1>3, <1>4, <1>5 DEF ReturnsIn

(* The core of a program interrupted at a given frame. *)
At(p, frame) == /\ p.cpsr = frame.psr
                /\ FetchAddress(p) = frame.pc
                /\ \A r \in Owed : arm_read_register(p, r) = frame.regs[r]

(* A core at a frame has the context of the frame. *)
LEMMA AtContext ==
  ASSUME NEW p, NEW frame \in Frame, At(p, frame)
  PROVE  Context(p) = frame
<1>1. frame = [psr |-> frame.psr, pc |-> frame.pc, regs |-> frame.regs]
  BY DEF Frame
<1>2. frame.regs = [r \in Owed |-> frame.regs[r]]
  BY DEF Frame
<1>3. [r \in Owed |-> arm_read_register(p, r)] = [r \in Owed |-> frame.regs[r]]
  BY DEF At
<1> QED
  BY <1>1, <1>2, <1>3 DEF Context, At

(* The handler that runs returns as it should: the program it interrupted  *)
(* finds its context.                                                      *)
LEMMA ReturnResumes ==
  ASSUME NEW p, NEW q \in Core, NEW fs \in Seq(Frame), NEW es, fs # <<>>,
         NestedIn(p, fs), ReturnsIn(p, fs, es), q.spsr = p.spsr, q.cpsr = p.spsr[Mode(p)],
         Wrote(p, q, Names(Mode(p))),
         q.storage[PC] = ReturnAddress(Last(es)),
         \A r \in Shared(Mode(p)) : q.storage[r] = Last(es).shared[r]
  PROVE  Context(q) = Last(fs)
<1> DEFINE n == Len(fs)
           f == fs[n]
           e == es[n]
           m == f.psr.mode
<1>1. n \in Nat \ {0} /\ n \in 1 .. n
  BY Popped
<1>2. f \in Frame
  BY <1>1, ElementOfSeq
<1>3. q.cpsr = f.psr /\ ActiveIn(p, fs, n) = Mode(p)
  <2>1. ReturnedTo(p, q, fs)
    BY ReturnNested
  <2> QED
    BY <2>1 DEF ReturnedTo, ActiveIn
<1>4. Last(fs) = f /\ Last(es) = e /\ ResumesIn(p, Mode(p), f, e)
  BY <1>1, <1>3 DEF Last, ReturnsIn
<1>5. m \in Interruptible /\ m # Mode(p) /\ Mode(p) \in Entering
  BY <1>1, FrameModes
<1> HIDE DEF n, f, e, m
<1>6. FetchAddress(q) = f.pc
  BY <1>4, FetchedFromStorage DEF ResumesIn
<1>7. ASSUME NEW r \in Owed PROVE arm_read_register(q, r) = f.regs[r]
  <2>1. arm_read_register(q, r) = q.storage[registers(m, r)]
    BY <1>3, OwedRegisters DEF arm_read_register, PC, m
  <2>2. CASE r \in Shared(Mode(p))
    <3>1. registers(m, r) = r
      BY <1>5, <2>2, SharedSame
    <3> QED
      BY <1>4, <2>1, <2>2, <3>1 DEF ResumesIn
  <2>3. CASE r \notin Shared(Mode(p))
    <3>1. registers(m, r) \in 0 .. 30 /\ registers(m, r) \notin Names(Mode(p))
      BY <1>5, <2>3, BankApart
    <3>2. q.storage[registers(m, r)] = p.storage[registers(m, r)]
      BY <3>1 DEF Wrote
    <3>3. p.storage[registers(m, r)] = f.regs[r]
      BY <1>4, <2>3 DEF ResumesIn, m
    <3> QED
      BY <2>1, <3>2, <3>3
  <2> QED
    BY <2>2, <2>3
<1> QED
  BY <1>2, <1>3, <1>4, <1>6, <1>7, AtContext DEF At

(* Where the links lead: k bytes on, and k bytes back.                     *)
LEMMA LinkBack ==
  ASSUME NEW x \in Word, NEW k \in {0, 4, 8}
  PROVE  (((x + k) % WordSize) - k) % WordSize = x
<1>1. x \in Nat /\ x < WordSize /\ WordSize \in Nat /\ k \in Int /\ -k \in Int
  BY Sizes DEF Word
<1> HIDE DEF WordSize
<1>2. (x + k) % WordSize \in Int /\ x % WordSize = x
  BY <1>1
<1>3. (((x + k) % WordSize) + (-k)) % WordSize = (x + k + (-k)) % WordSize
  BY <1>1, WrapOnTheWay DEF WordSize
<1>4. ((x + k) % WordSize) + (-k) = ((x + k) % WordSize) - k /\ x + k + (-k) = x
  BY <1>1, <1>2
<1> QED
  BY <1>2, <1>3, <1>4

(* The link of an exception leads back to the frame it adds. *)
Leads(link, vector, pc) ==
  /\ ReturnAddress([vector |-> vector, link |-> link]) = pc
  /\ FetchedFrom(pc) = pc

(* The entry that an exception records: its vector, its link and what the  *)
(* handler finds in the registers it shares.                               *)
LEMMA EntryRecorded ==
  ASSUME NEW mid, NEW q, NEW mode, NEW link, NEW vector, TookAt(mid, q, mode, link, vector),
         vector \in Nat
  PROVE  /\ ReturnAddress(Entry(q)) = ReturnAddress([vector |-> vector, link |-> link])
         /\ Entry(q).shared = [r \in Shared(mode) |-> q.storage[r]]
<1>1. q.storage[PC] - VectorBase = vector
  <2>1. q.storage[PC] = VectorBase + vector
    BY DEF TookAt
  <2> QED
    BY <2>1, CoreAssumption
<1>2. Entry(q).vector = vector
  BY <1>1 DEF Entry
<1>3. Entry(q).link = link
  BY DEF Entry, TookAt, arm_read_register, LR, PC
<1>4. Entry(q).shared = [r \in Shared(mode) |-> q.storage[r]]
  BY DEF Entry, TookAt, Mode
<1> QED
  BY <1>2, <1>3, <1>4 DEF ReturnAddress

(* An exception is entered: the new frame can be resumed, and the frames   *)
(* below it as before.                                                     *)
LEMMA EnterReturns ==
  ASSUME NEW p \in Core, NEW mid, NEW q, NEW fs \in Seq(Frame), NEW frame \in Frame,
         NEW S, NEW es \in Seq(S), Entry(q) \in S,
         NestedIn(p, fs), ReturnsIn(p, fs, es), Fits(p, fs, Mode(q)),
         \A r \in (0 .. 30) \ {PC} : mid.storage[r] = p.storage[r],
         mid.cpsr = p.cpsr,
         NEW mode, NEW link, NEW vector \in Nat, TookAt(mid, q, mode, link, vector),
         frame.psr = p.cpsr, frame.regs = Context(p).regs, Leads(link, vector, frame.pc)
  PROVE  ReturnsIn(q, Append(fs, frame), Append(es, Entry(q))) /\ Append(es, Entry(q)) \in Seq(S)
<1> DEFINE n  == Len(fs)
           gs == Append(fs, frame)
           hs == Append(es, Entry(q))
           m  == p.cpsr.mode
<1>1. /\ Len(gs) = n + 1 /\ n \in Nat /\ gs[n + 1] = frame
      /\ \A i \in 1 .. n : gs[i] = fs[i]
  BY Pushed
<1>2. Len(es) = n
  BY DEF ReturnsIn
<1>3. /\ Len(hs) = n + 1 /\ hs[n + 1] = Entry(q) /\ hs \in Seq(S)
      /\ \A i \in 1 .. n : hs[i] = es[i]
  BY <1>2, Pushed
<1>4. /\ ActiveIn(q, gs, n + 1) = mode
      /\ \A i \in 1 .. n : ActiveIn(q, gs, i) = ActiveIn(p, fs, i)
  <2>1. Mode(q) = mode
    BY DEF TookAt, Mode
  <2> QED
    BY <2>1, EnterActive
<1>5. /\ mode \in Entering /\ Mode(q) = mode
      /\ \A r \in (0 .. 30) \ {PC, registers(mode, SP), registers(mode, LR)} :
           q.storage[r] = mid.storage[r]
  BY DEF TookAt, Took, Mode
<1>6. registers(mode, SP) \in Names(mode) /\ registers(mode, LR) \in Names(mode)
  BY DEF Names, RegNumber, SP, LR
<1>7. \A r \in (0 .. 30) \ {PC} : r \notin Names(mode) => q.storage[r] = p.storage[r]
  BY <1>5, <1>6
<1> HIDE DEF n, gs, hs
<1>8. m \in Interruptible /\ m # mode
  <2>1. m # FIQ /\ (fs = <<>> => m = USR)
    BY DEF Fits, Mode, NestedIn, SavedIn
  <2>2. fs # <<>> => n \in 1 .. n /\ ActiveIn(p, fs, n) = m
    BY <1>1, EmptySeq, LenProperties DEF n, ActiveIn, Mode
  <2>3. \A i \in 1 .. n : ActiveIn(p, fs, i) \in Entering /\ ActiveIn(p, fs, i) # mode
    BY <1>5 DEF NestedIn, SavedIn, Fits, n
  <2>4. USR \notin Entering
    BY DEF USR, Entering, SVC, ABT, UND, IRQ, FIQ
  <2> QED
    BY <1>5, <2>1, <2>2, <2>3, <2>4 DEF Interruptible
<1>9. ASSUME NEW i \in 1 .. n
      PROVE  ResumesIn(q, ActiveIn(p, fs, i), fs[i], es[i])
  <2> DEFINE a == ActiveIn(p, fs, i)
             l == fs[i].psr.mode
  <2>1. /\ l \in Interruptible /\ l # mode /\ a \in Entering
        /\ i # n => a # FIQ
        /\ i = n => a = Mode(p)
    BY <1>5, FrameModes DEF n, ActiveIn
  <2>2. a # FIQ
    BY <2>1 DEF Fits
  <2>3. ResumesIn(p, a, fs[i], es[i])
    BY DEF ReturnsIn, n
  <2> HIDE DEF a, l
  <2>4. ASSUME NEW r \in Owed \ Shared(a)
        PROVE  q.storage[registers(l, r)] = p.storage[registers(l, r)]
    <3>1. r \notin Shared(mode)
      BY <1>5, <2>1, <2>2, SharedRegisters
    <3>2. registers(l, r) \in (0 .. 30) \ {PC} /\ registers(l, r) \notin Names(mode)
      BY <1>5, <2>1, <3>1, BankApart
    <3> QED
      BY <1>7, <3>2
  <2> QED
    BY <2>3, <2>4, ResumesStill DEF a, l
<1>10. ResumesIn(q, mode, frame, Entry(q))
  <2>1. /\ ReturnAddress(Entry(q)) = frame.pc /\ FetchedFrom(frame.pc) = frame.pc
        /\ Entry(q).shared = [r \in Shared(mode) |-> q.storage[r]]
    BY EntryRecorded DEF Leads
  <2>2. ASSUME NEW r \in Owed PROVE frame.regs[r] = p.storage[registers(m, r)]
    <3>1. frame.regs[r] = arm_read_register(p, r)
      BY DEF Context
    <3>2. r # PC
      <4>1. r \in 0 .. 14
        BY OwedRegisters
      <4> QED
        BY <4>1 DEF PC
    <3> QED
      BY <3>1, <3>2 DEF arm_read_register
  <2>3. ASSUME NEW r \in Shared(mode) PROVE q.storage[r] = frame.regs[r]
    <3>1. /\ registers(m, r) = r /\ r \in Owed
          /\ r \notin {PC, registers(mode, SP), registers(mode, LR)}
      BY <1>5, <1>8, SharedSame
    <3>2. q.storage[r] = mid.storage[r] /\ mid.storage[r] = p.storage[r]
      <4>1. r \in (0 .. 30) \ {PC}
        BY <3>1, OwedRegisters
      <4> QED
        BY <1>5, <3>1, <4>1
    <3> QED
      BY <2>2, <3>1, <3>2
  <2>4. ASSUME NEW r \in Owed \ Shared(mode)
        PROVE  q.storage[registers(m, r)] = frame.regs[r]
    <3>1. registers(m, r) \in (0 .. 30) \ {PC} /\ registers(m, r) \notin Names(mode)
      BY <1>5, <1>8, BankApart
    <3> QED
      BY <1>7, <2>2, <3>1
  <2> QED
    BY <2>1, <2>3, <2>4 DEF ResumesIn
<1>11. \A i \in 1 .. n + 1 : i = n + 1 \/ i \in 1 .. n
  BY <1>1
<1>12. \A i \in 1 .. n + 1 : ResumesIn(q, ActiveIn(q, gs, i), gs[i], hs[i])
  BY <1>1, <1>3, <1>4, <1>9, <1>10, <1>11
<1> QED
  BY <1>1, <1>3, <1>12 DEF ReturnsIn, gs, hs

-----------------------------------------------------------------------------
(* The links of the exceptions. *)

(* After a software interrupt or an undefined instruction, the next        *)
(* instruction; after an abort, the instruction itself.                    *)
LEMMA RaisedLeads ==
  ASSUME NEW p \in Core, NEW q, NEW result \in 2 .. 5, Raises(arm_fetch(p), q, result)
  PROVE  \E mode, link, vector :
           /\ vector \in Nat /\ TookAt(arm_fetch(p), q, mode, link, vector)
           /\ Leads(link, vector, ResumeContext(p, result).pc)
<1> DEFINE mid  == arm_fetch(p)
           F    == FetchAddress(p)
           here == arm_address_current_instruction(mid)
           next == arm_address_next_instruction(mid)
<1>1. /\ here = F /\ F \in Word /\ FetchedFrom(F) = F
      /\ next = NextAddress(F) /\ next \in Word /\ FetchedFrom(next) = next
  BY CurrentIsFetched, NextIsFetched DEF NextAddress
<1>2. /\ result \in {UNDEFINED_INSTRUCTION, SOFTWARE_INTERRUPT} =>
           ResumeContext(p, result).pc = next
      /\ result \in {PREFETCH_ABORT, DATA_ABORT} => ResumeContext(p, result).pc = F
  <2> HIDE DEF F
  <2>1. Context(p).pc = F /\ [Context(p) EXCEPT !.pc = NextAddress(F)].pc = NextAddress(F)
    BY DEF Context, F
  <2> QED
    BY <1>1, <2>1 DEF ResumeContext, F, UNDEFINED_INSTRUCTION, SOFTWARE_INTERRUPT,
       PREFETCH_ABORT, DATA_ABORT
<1> HIDE DEF mid, F, here, next
<1>3. /\ Leads(next, Vector.UND, next) /\ Leads(next, Vector.SWI, next)
      /\ Leads((F + 4) % WordSize, Vector.PABT, F)
      /\ Leads((F + 8) % WordSize, Vector.DABT, F)
  <2>1. \A x \in Word : /\ (x - 0) % WordSize = x
                        /\ (((x + 4) % WordSize) - 4) % WordSize = x
                        /\ (((x + 8) % WordSize) - 8) % WordSize = x
    <3> TAKE x \in Word
    <3>1. (((x + 4) % WordSize) - 4) % WordSize = x /\ (((x + 8) % WordSize) - 8) % WordSize = x
      BY LinkBack
    <3>2. x \in Nat /\ x < WordSize /\ WordSize \in Nat
      BY Sizes DEF Word
    <3> HIDE DEF WordSize
    <3>3. (x - 0) % WordSize = x
      BY <3>2
    <3> QED
      BY <3>1, <3>3
  <2> HIDE DEF WordSize
  <2> QED
    BY <1>1, <2>1 DEF Leads, ReturnAddress, Vector
<1>4. Vector.UND \in Nat /\ Vector.SWI \in Nat /\ Vector.PABT \in Nat /\ Vector.DABT \in Nat
  BY DEF Vector
<1>5. \/ /\ result = UNDEFINED_INSTRUCTION
         /\ TookAt(mid, q, UND, next, Vector.UND)
      \/ /\ result = SOFTWARE_INTERRUPT
         /\ TookAt(mid, q, SVC, next, Vector.SWI)
      \/ /\ result = PREFETCH_ABORT
         /\ TookAt(mid, q, ABT, (F + 4) % WordSize, Vector.PABT)
      \/ /\ result = DATA_ABORT
         /\ TookAt(mid, q, ABT, (F + 8) % WordSize, Vector.DABT)
  BY <1>1 DEF Raises, mid, here, next
<1> QED
  BY <1>2, <1>3, <1>4, <1>5 DEF mid

(* After an interrupt, the instruction that was about to be fetched.       *)
LEMMA InterruptLeads ==
  ASSUME NEW p \in Core, NEW vector \in {Vector.IRQ, Vector.FIQ}
  PROVE  Leads((arm_address_next_instruction(p) + 4) % WordSize, vector, Context(p).pc)
<1> DEFINE F == FetchAddress(p)
<1>1. arm_address_next_instruction(p) = F /\ Context(p).pc = F
  BY DEF arm_address_next_instruction, FetchAddress, Context
<1>2. F \in Word /\ FetchedFrom(F) = F
  BY CurrentIsFetched
<1> HIDE DEF F
<1>3. (((F + 4) % WordSize) - 4) % WordSize = F
  BY <1>2, LinkBack
<1> HIDE DEF WordSize
<1> QED
  BY <1>1, <1>2, <1>3 DEF Leads, ReturnAddress, Vector

-----------------------------------------------------------------------------
(* The whole invariant of handlers that restore. *)

Entries == {Entry(p) : p \in Core}

ReturnsInv ==
  /\ FramesInv
  /\ entered \in Seq(Entries)
  /\ process = "running" => ReturnsIn(core, frames, entered)

(* What handlers may write is the bank of their mode: the user bank is     *)
(* loaded by user programs only.                                           *)
LEMMA RestoringBank ==
  ASSUME core \in Core, NEW ins, Restoring(ins), Mode(core) # USR,
         NEW q, Wrote(core, q, WritableBank(core.cpsr.mode, ins))
  PROVE  Wrote(core, q, Names(Mode(core)))
<1>1. ~LoadsUserBank(ins)
  BY DEF Restoring, LoadsUserBank
<1> QED
  BY <1>1 DEF Wrote, WritableBank, Mode

(* A fetch writes no register but the program counter.                     *)
LEMMA FetchWrites ==
  ASSUME NEW p \in Core
  PROVE  /\ \A r \in (0 .. 30) \ {PC} : arm_fetch(p).storage[r] = p.storage[r]
         /\ arm_fetch(p).cpsr = p.cpsr
<1>1. RegisterWritten(p, arm_fetch(p), PC, (FetchAddress(p) + 4) % WordSize)
  BY CurrentIsFetched
<1>2. registers(p.cpsr.mode, PC) = PC
  BY CoreFields, RegistersType DEF RegNumber, PC
<1> QED
  BY <1>1, <1>2 DEF RegisterWritten

(* A step that restores what it should keeps the invariant, and is a step  *)
(* of the stack of contexts.                                               *)
LEMMA StepReturns ==
  ASSUME ReturnsInv, NEW ins \in Fetched(core), FStep(ins), Orderly(ins), Restoring(ins)
  PROVE  ReturnsInv' /\ Contexts!Next
<1> DEFINE o    == arm_execute_instruction(core, mem, ins)
           bank == WritableBank(core.cpsr.mode, ins)
<1>1. /\ core \in Core /\ frames \in Seq(Frame) /\ entered \in Seq(Entries)
      /\ process = "running" /\ NestedIn(core, frames)
      /\ ReturnsIn(core, frames, entered)
  BY DEF ReturnsInv, FramesInv, TypeOK, FStep, Step
<1>2. FramesInv' /\ core' \in Core
  BY StepNested DEF ReturnsInv, FramesInv, TypeOK
<1>3. /\ \/ /\ process' # "running" /\ UNCHANGED <<frames, entered>>
            /\ StatusKept(core, core')
         \/ process' = "running" /\ o.result = NO_EXCEPTION /\ Ran(bank)
         \/ /\ process' = "running" /\ o.result = NO_EXCEPTION
            /\ Mode(core') # Mode(core) /\ CameBack(bank)
         \/ /\ process' = "running" /\ o.result # NO_EXCEPTION /\ Raised(o.core)
  BY StepMoves DEF ReturnsInv, Restoring
<1>4. /\ o.result # NO_EXCEPTION => o.core = arm_fetch(core)
      /\ o.result = NO_EXCEPTION /\ Mode(core') # Mode(core) =>
           /\ core'.storage[PC] = ReturnAddress(Last(entered))
           /\ \A r \in Shared(Mode(core)) : core'.storage[r] = Last(entered).shared[r]
  BY DEF Restoring
<1>5. \/ Mode(core) # USR /\ (Wrote(core, core', bank) => Wrote(core, core', Names(Mode(core))))
      \/ frames = <<>>
  <2>1. frames # <<>> => Mode(core) # USR
    <3>1. frames # <<>> => Len(frames) \in 1 .. Len(frames)
      BY <1>1, LenProperties, EmptySeq
    <3>2. frames # <<>> => Mode(core) \in Entering
      BY <1>1, <3>1, FrameModes
    <3> QED
      BY <3>2 DEF USR, Entering, SVC, ABT, UND, IRQ, FIQ
  <2> QED
    BY <1>1, <2>1, RestoringBank
<1>6. StatusKept(core, core') /\ UNCHANGED frames => Contexts!Next
  BY DEF StatusKept, Context, Contexts!Next, Contexts!Run, Contexts!Privilege
<1> HIDE DEF o, bank
<1>7. CASE process' # "running" /\ UNCHANGED <<frames, entered>> /\ StatusKept(core, core')
  BY <1>1, <1>2, <1>6, <1>7 DEF ReturnsInv
<1>8. CASE process' = "running" /\ Ran(bank)
  <2>1. ReturnsIn(core', frames, entered)
    BY <1>1, <1>5, <1>8, RunReturns DEF Ran
  <2> QED
    BY <1>1, <1>2, <1>6, <1>8, <2>1 DEF ReturnsInv, Ran
<1>9. CASE /\ process' = "running" /\ o.result = NO_EXCEPTION
           /\ Mode(core') # Mode(core) /\ CameBack(bank)
  <2>1. /\ core'.spsr = core.spsr /\ core'.cpsr = core.spsr[Mode(core)] /\ frames # <<>>
        /\ Wrote(core, core', Names(Mode(core)))
        /\ frames' = Front(frames) /\ entered' = Front(entered)
    BY <1>5, <1>9 DEF CameBack, Returned
  <2>2. ReturnsIn(core', frames', entered') /\ entered' \in Seq(Entries)
    BY <1>1, <2>1, ReturnReturns
  <2>3. Context(core') = Last(frames)
    BY <1>1, <1>2, <1>4, <1>9, <2>1, ReturnResumes
  <2>4. Contexts!Next
    <3>1. Context(core)' = Last(frames)
      BY <2>3 DEF Context
    <3>2. Contexts!Resume
      BY <2>1, <3>1 DEF Contexts!Resume, Contexts!Last, Contexts!Front, Last, Front
    <3> QED
      BY <3>2 DEF Contexts!Next
  <2> QED
    BY <1>2, <2>2, <2>4 DEF ReturnsInv
<1>10. CASE process' = "running" /\ o.result # NO_EXCEPTION /\ Raised(o.core)
  <2> DEFINE mid   == arm_fetch(core)
             frame == ResumeContext(core, target_exception')
  <2>1. /\ Raises(mid, core', target_exception') /\ Fits(core, frames, Mode(core'))
        /\ frames' = Append(frames, frame) /\ entered' = Append(entered, Entry(core'))
    BY <1>4, <1>10 DEF Raised, Interrupted
  <2>2. target_exception' \in 2 .. 5
    BY <2>1 DEF Raises, UNDEFINED_INSTRUCTION, SOFTWARE_INTERRUPT, PREFETCH_ABORT, DATA_ABORT
  <2>3. PICK mode, link, vector :
          /\ vector \in Nat /\ TookAt(mid, core', mode, link, vector)
          /\ Leads(link, vector, frame.pc)
    BY <1>1, <2>1, <2>2, RaisedLeads
  <2>4. frame \in Frame /\ frame.psr = core.cpsr /\ frame.regs = Context(core).regs
    BY <1>1, ContextType DEF ResumeContext, Frame
  <2>5. \A r \in (0 .. 30) \ {PC} : mid.storage[r] = core.storage[r]
    BY <1>1, FetchWrites
  <2>6. mid.cpsr = core.cpsr /\ Entry(core') \in Entries
    BY <1>1, <1>2, FetchWrites DEF Entries
  <2>7. Contexts!Next
    <3>1. core'.cpsr.I = 1
      BY <2>3 DEF TookAt, Took
    <3>2. \E pc \in {Context(core).pc, NextAddress(Context(core).pc)} :
            frame = [Context(core) EXCEPT !.pc = pc]
      BY <1>1, ContextType DEF ResumeContext, Frame, Context
    <3> HIDE DEF frame
    <3> QED
      BY <2>1, <3>1, <3>2 DEF Contexts!Next, Contexts!Enter, Context
  <2> HIDE DEF mid, frame
  <2>8. ReturnsIn(core', frames', entered') /\ entered' \in Seq(Entries)
    BY <1>1, <2>1, <2>3, <2>4, <2>5, <2>6, EnterReturns
  <2> QED
    BY <1>2, <2>7, <2>8 DEF ReturnsInv
<1> QED
  BY <1>3, <1>7, <1>8, <1>9, <1>10

(* So does an interrupt, whatever it finds. *)
LEMMA InterruptReturns ==
  ASSUME ReturnsInv, NEW irq \in Intended, FInterrupt(irq)
  PROVE  ReturnsInv' /\ Contexts!Next
<1> DEFINE link == (arm_address_next_instruction(core) + 4) % WordSize
           frame == Context(core)
<1>1. /\ core \in Core /\ frames \in Seq(Frame) /\ entered \in Seq(Entries)
      /\ process' = "running" /\ NestedIn(core, frames)
      /\ core' = arm_exception(core, irq)
      /\ ReturnsIn(core, frames, entered)
  BY DEF ReturnsInv, FramesInv, TypeOK, FInterrupt, Interrupt
<1>2. FramesInv' /\ core' \in Core
  BY InterruptNested DEF ReturnsInv, FramesInv, TypeOK
<1>3. CASE core' = core
  <2>1. UNCHANGED <<frames, entered>>
    BY <1>3 DEF FInterrupt
  <2>2. Contexts!Next
    BY <1>3, <2>1 DEF Context, Contexts!Next, Contexts!Run, Contexts!Privilege
  <2> QED
    BY <1>1, <1>2, <1>3, <2>1, <2>2 DEF ReturnsInv
<1>4. CASE core' # core
  <2>1. frames' = Append(frames, frame) /\ entered' = Append(entered, Entry(core'))
    BY <1>4 DEF FInterrupt, Interrupted
  <2>2. \/ core.cpsr.I = 0 /\ TookAt(core, core', IRQ, link, Vector.IRQ)
        \/ core.cpsr.F = 0 /\ TookAt(core, core', FIQ, link, Vector.FIQ)
    BY <1>1, <1>4, IntendedInterrupt
  <2>3. Vector.IRQ \in Nat /\ Vector.FIQ \in Nat
    BY DEF Vector
  <2>4. /\ Leads(link, Vector.IRQ, frame.pc) /\ Leads(link, Vector.FIQ, frame.pc)
        /\ frame \in Frame /\ frame.psr = core.cpsr
    BY <1>1, ContextType, InterruptLeads
  <2>5. Contexts!Next
    <3>1. core'.cpsr.I = 1
      BY <2>2 DEF TookAt, Took
    <3>2. frame = [frame EXCEPT !.pc = frame.pc]
      BY <2>4 DEF Frame
    <3>3. Context(core)'.psr = core'.cpsr
      BY DEF Context
    <3> QED
      BY <2>1, <3>1, <3>2, <3>3 DEF Contexts!Next, Contexts!Enter
  <2> HIDE DEF link, frame
  <2>6. Entry(core') \in Entries
    BY <1>2 DEF Entries
  <2>7. frame.regs = Context(core).regs
    BY DEF frame
  <2>8. PICK mode, vector :
          /\ vector \in Nat /\ TookAt(core, core', mode, link, vector)
          /\ Leads(link, vector, frame.pc) /\ Fits(core, frames, mode)
    BY <1>1, <2>2, <2>3, <2>4, InterruptFits
  <2>9. Mode(core') = mode
    BY <2>8 DEF TookAt, Mode
  <2>10. ReturnsIn(core', frames', entered') /\ entered' \in Seq(Entries)
    BY <1>1, <2>1, <2>4, <2>6, <2>7, <2>8, <2>9, EnterReturns
  <2> QED
    BY <1>2, <2>5, <2>10 DEF ReturnsInv
<1> QED
  BY <1>3, <1>4

(* Nothing has been interrupted yet, and interrupts are enabled.           *)
LEMMA InitReturns == ASSUME FInit PROVE ReturnsInv /\ Contexts!Init
<1>1. FramesInv /\ frames = <<>> /\ entered = <<>>
  BY InitNested DEF FInit
<1>2. ReturnsIn(core, frames, entered) /\ entered \in Seq(Entries)
  BY <1>1, EmptySeq DEF ReturnsIn
<1>3. core.cpsr.I = 0 /\ core.cpsr.F = 0
  BY BootAssumption DEF FInit
<1> QED
  BY <1>1, <1>2, <1>3 DEF ReturnsInv, Context, Contexts!Init

RestoredNext == \/ \E ins \in Fetched(core) : FStep(ins) /\ Orderly(ins) /\ Restoring(ins)
                \/ \E irq \in Intended : FInterrupt(irq)

(* The invariant is inductive, and each step a step of the stack.          *)
LEMMA RestoredReturns ==
  ReturnsInv /\ [RestoredNext]_fvars =>
    ReturnsInv' /\ [Contexts!Next]_<<Context(core), frames>>
<1>1. ASSUME ReturnsInv, RestoredNext PROVE ReturnsInv' /\ Contexts!Next
  BY <1>1, StepReturns, InterruptReturns DEF RestoredNext
<1>2. ASSUME ReturnsInv, UNCHANGED fvars
      PROVE  ReturnsInv' /\ UNCHANGED <<Context(core), frames>>
  BY <1>2 DEF fvars, vars, ReturnsInv, FramesInv, TypeOK, Context
<1> QED
  BY <1>1, <1>2

(* Exceptions nest like procedure calls, whatever the program, its memory  *)
(* and the interrupts: if each handler hands back what it shares and goes  *)
(* to its link less the #n of its exception, every return resumes exactly  *)
(* the context interrupted last.  That SPSR, LR, SP and the banks hold     *)
(* what this takes until then is the simulator's part.                     *)
THEOREM ContextsResumed == FSpec /\ HandlersRestore => ResumesContext
<1>1. HandlersRestore <=> [][RestoredNext]_fvars
  BY DEF HandlersRestore, RestoredNext
<1>2. FInit => ReturnsInv /\ Contexts!Init
  BY InitReturns
<1> QED
  BY <1>1, <1>2, RestoredReturns, PTL DEF FSpec, ResumesContext, Contexts!Spec
=============================================================================
