----------------------------- MODULE ArmLoadStore -----------------------------
(***************************************************************************)
(* Load and store instructions, arm_load_store.c.  A handler takes the     *)
(* core, the memory and the decoded instruction and returns an Outcome:    *)
(* the new core and memory, the exception number that the C handler        *)
(* returns, and whether the process is still running - an assert that      *)
(* fails, or exit, ends it.                                                *)
(*                                                                         *)
(* An instruction is the record of its decoded fields; a Boolean field is  *)
(* a bit of the encoding: p (24, index before), u (23, add), w (21, write  *)
(* back), l (20, load).  `junk' stands for the C variable that a failed or *)
(* partial read leaves uninitialised: any value.                           *)
(***************************************************************************)
EXTENDS ArmOperands, FiniteSets

Outcome(p, mem, result) ==
  [core |-> p, mem |-> mem, result |-> result, process |-> "running"]

(* Mutants: an address computed in more than 32 bits; a base that always   *)
(* moves upwards.                                                          *)
Signed_unwrapped(u, base, offset) == IF u THEN base + offset ELSE base - offset

Signed_upwards(u, base, offset) == (base + offset) % WordSize

Signed(u, base, offset) == (IF u THEN base + offset ELSE base - offset) % WordSize


-----------------------------------------------------------------------------
(* Single transfers                                                        *)

ldr(p, mem, rd, address) ==
  IF ~InBounds(address, 4) THEN Outcome(p, mem, DATA_ABORT)
  ELSE LET value == memory_read_word(mem, BigEndian(p), address)
       IN  IF rd = PC
           THEN Outcome(arm_write_register(update_flag_t(p, value % 2), PC,
                                           value - (value % 2)),
                        mem, NO_EXCEPTION)
           ELSE Outcome(arm_write_register(p, rd, value), mem, NO_EXCEPTION)

str(p, mem, rd, address) ==
  Outcome(p, memory_write_word(mem, BigEndian(p), address, arm_read_register(p, rd)),
          IF InBounds(address, 4) THEN NO_EXCEPTION ELSE DATA_ABORT)

ldrb(p, mem, rd, address) ==
  IF ~InBounds(address, 1) THEN Outcome(p, mem, DATA_ABORT)
  ELSE Outcome(arm_write_register(p, rd, memory_read_byte(mem, address)),
               mem, NO_EXCEPTION)

strb(p, mem, rd, address) ==
  Outcome(p, memory_write_byte(mem, address, arm_read_register(p, rd) % ByteSize),
          IF InBounds(address, 1) THEN NO_EXCEPTION ELSE DATA_ABORT)

ldrh(p, mem, rd, address) ==
  IF ~InBounds(address, 2) THEN Outcome(p, mem, DATA_ABORT)
  ELSE Outcome(arm_write_register(p, rd, memory_read_half(mem, BigEndian(p), address)),
               mem, NO_EXCEPTION)

strh(p, mem, rd, address) ==
  Outcome(p, memory_write_half(mem, BigEndian(p), address,
                               arm_read_register(p, rd) % HalfSize),
          IF InBounds(address, 2) THEN NO_EXCEPTION ELSE DATA_ABORT)

(* The half word lands in the low half of an uninitialised uint32_t; the   *)
(* mask 0X0000FFFFF of the positive case keeps four bits of the junk.      *)
ldrsh(p, mem, rd, address, junk) ==
  IF ~InBounds(address, 2) THEN Outcome(p, mem, DATA_ABORT)
  ELSE LET half  == memory_read_half(mem, BigEndian(p), address)
           value == IF 2 * half >= HalfSize THEN WordSize - HalfSize + half
                    ELSE half + (HalfSize * (junk % 16))
       IN  Outcome(arm_write_register(p, rd, value), mem, NO_EXCEPTION)

(* Both masks are applied to a uint8_t, which they leave as it is.         *)
ldrsb(p, mem, rd, address) == ldrb(p, mem, rd, address)

ldrd(p, mem, rd, address) ==
  IF rd % 2 = 1 \/ rd = LR \/ address % 4 # 0 THEN Outcome(p, mem, NO_EXCEPTION)
  ELSE IF ~InBounds(address, 4) THEN Outcome(p, mem, DATA_ABORT)
  ELSE LET low  == arm_write_register(p, rd, memory_read_word(mem, BigEndian(p), address))
           next == (address + 4) % WordSize
       IN  IF ~InBounds(next, 4) THEN Outcome(low, mem, DATA_ABORT)
           ELSE Outcome(arm_write_register(low, rd + 1,
                                           memory_read_word(mem, BigEndian(p), next)),
                        mem, NO_EXCEPTION)

strd(p, mem, rd, address) ==
  IF rd % 2 = 1 \/ rd = LR \/ address % 8 # 0 THEN Outcome(p, mem, NO_EXCEPTION)
  ELSE IF ~InBounds(address, 4) THEN Outcome(p, mem, DATA_ABORT)
  ELSE str(p, memory_write_word(mem, BigEndian(p), address, arm_read_register(p, rd)),
           rd + 1, (address + 4) % WordSize)

-----------------------------------------------------------------------------
(* Addressing: offset, pre-indexed and post-indexed forms.  The base is    *)
(* written back before the access is attempted.  Index before = 0 with     *)
(* write back = 1 is refused as undefined.                                 *)

Moved(p, ins, offset)  == Signed(ins.u, arm_read_register(p, ins.rn), offset)
Target(p, ins, offset) ==
  IF ins.p THEN Moved(p, ins, offset) ELSE arm_read_register(p, ins.rn)
Indexed(p, ins, offset) ==
  IF ins.p /\ ~ins.w THEN p
  ELSE arm_write_register(p, ins.rn, Moved(p, ins, offset))

(* The offset of a word or byte transfer, and of the other ones.           *)
ScaledOffset(p, ins) ==
  IF ins.rm = NoReg THEN ins.imm
  ELSE scaled_shift(p, ins.shift, ins.amount, arm_read_register(p, ins.rm))

PlainOffset(p, ins) ==
  IF ins.rm = NoReg THEN ins.imm ELSE arm_read_register(p, ins.rm)

arm_load_store(p, mem, ins) ==
  IF ~ins.p /\ ins.w THEN Outcome(p, mem, UNDEFINED_INSTRUCTION)
  ELSE LET q == Indexed(p, ins, ScaledOffset(p, ins))
           a == Target(p, ins, ScaledOffset(p, ins))
       IN  CASE ins.l  /\ ins.b  -> ldrb(q, mem, ins.rd, a)
             [] ins.l  /\ ~ins.b -> ldr(q, mem, ins.rd, a)
             [] ~ins.l /\ ins.b  -> strb(q, mem, ins.rd, a)
             [] ~ins.l /\ ~ins.b -> str(q, mem, ins.rd, a)

(* kind is codage3_bits(ins, 20, 6, 5); 0 and 4, the encodings of the      *)
(* multiplications and swaps, fall through to "impossible".                *)
arm_load_store_miscellaneous(p, mem, ins) ==
  IF ~ins.p /\ ins.w THEN Outcome(p, mem, UNDEFINED_INSTRUCTION)
  ELSE LET q == Indexed(p, ins, PlainOffset(p, ins))
           a == Target(p, ins, PlainOffset(p, ins))
       IN  CASE ins.kind = 1 -> strh(q, mem, ins.rd, a)
             [] ins.kind = 2 -> ldrd(q, mem, ins.rd, a)
             [] ins.kind = 3 -> strd(q, mem, ins.rd, a)
             [] ins.kind = 5 -> ldrh(q, mem, ins.rd, a)
             [] ins.kind = 6 -> ldrsb(q, mem, ins.rd, a)
             [] ins.kind = 7 -> ldrsh(q, mem, ins.rd, a, ins.junk)
             [] OTHER        -> Outcome(q, mem, NO_EXCEPTION)

-----------------------------------------------------------------------------
(* Multiple transfers.  The loops visit the listed registers in increasing *)
(* order at increasing addresses and stop after the first failing access:  *)
(* Slot is the address a register is given, Done the registers reached     *)
(* whose access and all earlier ones succeeded.                            *)

Slot(list, start, i) ==
  (start + 4 * Cardinality({j \in list : j < i})) % WordSize

Done(list, start) ==
  {i \in list : \A j \in list : j <= i => InBounds(Slot(list, start, j), 4)}

(* Accesses made before the loop stops, the failing one included.          *)
Attempts(list, start) ==
  LET done == Done(list, start)
  IN  Cardinality(done) + (IF done = list THEN 0 ELSE 1)

(* assert(e_add == (address - 4)) *)
Asserted(outcome, start, end, attempts) ==
  IF end = (start + 4 * attempts - 4) % WordSize THEN outcome
  ELSE [outcome EXCEPT !.process = "aborted"]

LoadedWord(p, mem, list, start, i) ==
  memory_read_word(mem, BigEndian(p), Slot(list, start, i))

(* Mutant: the user registers are written through the current bank. *)
Loaded_in_current_bank(p, mem, list, start, done, mode) ==
  [p EXCEPT !.storage = [r \in 0 .. 30 |->
     IF \E i \in done : registers(p.cpsr.mode, i) = r
     THEN LoadedWord(p, mem, list, start,
                     CHOOSE i \in done : registers(p.cpsr.mode, i) = r)
     ELSE p.storage[r]]]

(* The register file after loading `done' into the registers of `mode'.    *)
Loaded(p, mem, list, start, done, mode) ==
  [p EXCEPT !.storage = [r \in 0 .. 30 |->
     IF \E i \in done : registers(mode, i) = r
     THEN LoadedWord(p, mem, list, start,
                     CHOOSE i \in done : registers(mode, i) = r)
     ELSE p.storage[r]]]

Failure(list, done) == IF done = list THEN NO_EXCEPTION ELSE DATA_ABORT

(* The memory after storing reg[i] for each i of `done'.                   *)
Stored(p, mem, list, start, done, reg) ==
  [a \in Address |->
     IF \E i \in done : a \in Slot(list, start, i) .. Slot(list, start, i) + 3
     THEN LET i == CHOOSE j \in done :
                     a \in Slot(list, start, j) .. Slot(list, start, j) + 3
              s == Slot(list, start, i)
          IN  ByteOf(reg[i], IF BigEndian(p) THEN s + 3 - a ELSE a - s)
     ELSE mem[a]]

(* The value variable when the program counter's word cannot be read: the  *)
(* last word loaded, or junk if there was none.                            *)
LastValue(p, mem, list, start, junk) ==
  IF list = {} THEN junk
  ELSE LoadedWord(p, mem, list, start, CHOOSE i \in list : \A j \in list : j <= i)

(* The program counter and T are written even when their word cannot be    *)
(* read: ldm1 does not test the result of that access.                     *)
ldm1(p, mem, list, start, end, junk) ==
  LET low    == list \ {PC}
      done   == Done(low, start)
      loaded == Loaded(p, mem, low, start, done, p.cpsr.mode)
      slot   == Slot(list, start, PC)
      value  == IF InBounds(slot, 4)
                THEN memory_read_word(mem, BigEndian(p), slot)
                ELSE LastValue(p, mem, low, start, junk)
  IN  IF done = low /\ PC \in list
      THEN Asserted(Outcome(arm_write_register(update_flag_t(loaded, value % 2),
                                               PC, value - (value % 2)),
                            mem,
                            IF InBounds(slot, 4) THEN NO_EXCEPTION ELSE DATA_ABORT),
                    start, end, Cardinality(list))
      ELSE Asserted(Outcome(loaded, mem, Failure(low, done)),
                    start, end, Attempts(low, start))

stm1(p, mem, list, start, end) ==
  LET done == Done(list, start)
  IN  Asserted(Outcome(p, Stored(p, mem, list, start, done,
                                 [i \in RegNumber |-> arm_read_register(p, i)]),
                       Failure(list, done)),
               start, end, Attempts(list, start))

(* ldm2 and stm2 use the user registers; their list has no PC.             *)
ldm2(p, mem, list, start, end) ==
  LET done == Done(list, start)
  IN  Asserted(Outcome(Loaded(p, mem, list, start, done, USR), mem,
                       Failure(list, done)),
               start, end, Attempts(list, start))

stm2(p, mem, list, start, end) ==
  LET done == Done(list, start)
  IN  Asserted(Outcome(p, Stored(p, mem, list, start, done,
                                 [i \in RegNumber |-> arm_read_usr_register(p, i)]),
                       Failure(list, done)),
               start, end, Attempts(list, start))

(* The status register is restored between the last general register and  *)
(* the program counter: the latter is read with the restored E bit.        *)
ldm3(p, mem, list, start, end) ==
  LET low    == list \ {PC}
      done   == Done(low, start)
      loaded == Loaded(p, mem, low, start, done, p.cpsr.mode)
      back   == IF arm_current_mode_has_spsr(loaded)
                THEN arm_write_cpsr(loaded, arm_read_spsr(loaded)) ELSE loaded
      slot   == Slot(list, start, PC)
  IN  IF done # low
      THEN Asserted(Outcome(loaded, mem, DATA_ABORT), start, end, Attempts(low, start))
      ELSE Asserted(IF InBounds(slot, 4)
                    THEN Outcome(arm_write_register(back, PC,
                                   memory_read_word(mem, BigEndian(back), slot)),
                                 mem, NO_EXCEPTION)
                    ELSE Outcome(back, mem, DATA_ABORT),
                    start, end, Cardinality(list))

(* The block of n words lies above (u) or below the base, and the base is  *)
(* left out (p) or taken in.                                               *)
arm_load_store_multiple(p, mem, ins) ==
  LET size  == 4 * Cardinality(ins.list)
      base  == arm_read_register(p, ins.rn)
      start == CASE ins.u  /\ ins.p  -> (base + 4) % WordSize
                 [] ins.u  /\ ~ins.p -> base
                 [] ~ins.u /\ ins.p  -> (base - size) % WordSize
                 [] ~ins.u /\ ~ins.p -> (base - size + 4) % WordSize
      end   == CASE ins.u  /\ ins.p  -> (base + size) % WordSize
                 [] ins.u  /\ ~ins.p -> (base + size - 4) % WordSize
                 [] ~ins.u /\ ins.p  -> (base - 4) % WordSize
                 [] ~ins.u /\ ~ins.p -> base
      q     == IF ins.w THEN arm_write_register(p, ins.rn, Signed(ins.u, base, size))
               ELSE p
  IN  CASE ~ins.s /\ ~ins.l -> stm1(q, mem, ins.list, start, end)
        [] ~ins.s /\ ins.l  -> ldm1(q, mem, ins.list, start, end, ins.junk)
        [] ins.s /\ ~ins.l /\ PC \notin ins.list
                            -> stm2(q, mem, ins.list, start, end)
        [] ins.s /\ ~ins.l /\ PC \in ins.list
                            -> Outcome(q, mem, NO_EXCEPTION)    \* "impossible"
        [] ins.s /\ ins.l /\ PC \notin ins.list
                            -> ldm2(q, mem, ins.list, start, end)
        [] ins.s /\ ins.l /\ PC \in ins.list
                            -> ldm3(q, mem, ins.list, start, end)
=============================================================================
