---------------------------- MODULE ArmMachine_proof ----------------------------
(***************************************************************************)
(* The properties of ArmMachine for every program, every memory and every  *)
(* content of the malloc'ed core.                                          *)
(*                                                                         *)
(* First what any instruction can do to the core and to the memory,        *)
(* whatever its operands (ArmInstruction): values stay in their types,     *)
(* only the bank and the SPSR of the current mode are written, user mode   *)
(* cannot change its control bits, and the interrupt masks change only by  *)
(* restoring the SPSR.  Then the machine: TypeOK is inductive; the three   *)
(* action properties follow from what one step may do (Transition).        *)
(***************************************************************************)
EXTENDS ArmMachine, ArmCore_proof

Results   == {NO_EXCEPTION} \cup 2 .. 5
Processes == {"running", "exited", "aborted"}
Outcomes  == [core : Core, mem : Contents, result : Results, process : Processes]

-----------------------------------------------------------------------------
(* The physical registers that the instructions of a mode can name. *)
Names(mode) == {registers(mode, reg) : reg \in RegNumber}

(* q is p after writes to registers of p's mode, and to flags and T.       *)
Kept(p, q) ==
  /\ q \in Core
  /\ q.spsr = p.spsr
  /\ q.cpsr.mode = p.cpsr.mode /\ q.cpsr.I = p.cpsr.I
  /\ q.cpsr.F = p.cpsr.F /\ q.cpsr.E = p.cpsr.E
  /\ \A r \in 0 .. 30 : q.storage[r] # p.storage[r] => r \in Names(p.cpsr.mode)

(* Doing nothing keeps banks, SPSRs and control bits.                      *)
LEMMA KeptRefl == ASSUME NEW p \in Core PROVE Kept(p, p)
BY DEF Kept

(* Two steps that keep the control bits and other banks keep them together. *)
LEMMA KeptTrans ==
  ASSUME NEW p, NEW q, NEW s, Kept(p, q), Kept(q, s)
  PROVE  Kept(p, s)
BY DEF Kept

(* The bank table gives each banked register to one mode.                  *)
LEMMA OwnerOfBank ==
  ASSUME NEW mode \in ModeNumber, NEW reg \in RegNumber,
         registers(mode, reg) \in 16 .. 30
  PROVE  Owner(registers(mode, reg)) = mode
BY DEF Owner, registers, ModeNumber, RegNumber, FIQ, SVC, ABT, UND, IRQ, SP, LR

(* Writing a register of the current mode touches no other bank.           *)
LEMMA WrittenKept ==
  ASSUME NEW p \in Core, NEW reg \in RegNumber, NEW value \in Word
  PROVE  Kept(p, arm_write_register(p, reg, value))
<1>1. RegisterWritten(p, arm_write_register(p, reg, value), reg, value)
  BY WriteRegister
<1>2. p.cpsr.mode \in ModeNumber
  BY CoreFields
<1> QED
  BY <1>1, <1>2 DEF RegisterWritten, Kept, Names

(* Writing the flags or T keeps mode, masks and byte order.                *)
LEMMA FlagsKept ==
  ASSUME NEW p \in Core, NEW flags \in 0 .. 15, NEW t \in Bit
  PROVE  Kept(p, update_nzcv(p, flags)) /\ Kept(p, update_flag_t(p, t))
<1>1. p.cpsr \in PSR
  BY CoreFields
<1>2. \A s \in PSR : LET a == [s EXCEPT !.flags = flags]
                        b == [s EXCEPT !.T = t]
                    IN  /\ a.mode = s.mode /\ a.I = s.I /\ a.F = s.F /\ a.E = s.E
                        /\ b.mode = s.mode /\ b.I = s.I /\ b.F = s.F /\ b.E = s.E
  BY DEF PSR
<1>3. Kept(p, update_nzcv(p, flags))
  <2>1. StatusWritten(p, update_nzcv(p, flags), [p.cpsr EXCEPT !.flags = flags])
    BY UpdateFlags DEF Bit
  <2> QED
    BY <1>1, <1>2, <2>1 DEF StatusWritten, Kept
<1>4. Kept(p, update_flag_t(p, t))
  <2>1. StatusWritten(p, update_flag_t(p, t), [p.cpsr EXCEPT !.T = t])
    BY UpdateFlags
  <2> QED
    BY <1>1, <1>2, <2>1 DEF StatusWritten, Kept
<1> QED
  BY <1>3, <1>4

(* An outcome of well-formed parts whose core is Kept.                     *)
Fine(p, o) == Kept(p, o.core) /\ o \in Outcomes

(* An outcome made of a kept core and a result is fine.                    *)
LEMMA FineOutcome ==
  ASSUME NEW p, NEW q, NEW memory \in Contents, NEW result \in Results, Kept(p, q)
  PROVE  Fine(p, Outcome(q, memory, result))
BY DEF Fine, Kept, Outcomes, Outcome, Processes

(* What is fine after a step that keeps everything is fine before it.      *)
LEMMA FineAfter ==
  ASSUME NEW p, NEW q, NEW o, Kept(p, q), Fine(q, o)
  PROVE  Fine(p, o)
BY KeptTrans DEF Fine

(* Every result of a handler is an exception number.                       *)
LEMMA ResultCodes ==
  /\ NO_EXCEPTION \in Results /\ UNDEFINED_INSTRUCTION \in Results
  /\ SOFTWARE_INTERRUPT \in Results /\ PREFETCH_ABORT \in Results
  /\ DATA_ABORT \in Results
BY DEF Results, UNDEFINED_INSTRUCTION, SOFTWARE_INTERRUPT, PREFETCH_ABORT, DATA_ABORT

(* Bytes and halves are words. *)
LEMMA Widths == Byte \subseteq Word /\ Half \subseteq Word /\ Word \subseteq Int
             /\ Word \subseteq Nat
BY Sizes DEF Byte, Half, Word

-----------------------------------------------------------------------------
(* The program counter *)

(* Addresses whose bit 1 is clear stay so from word to word.               *)
Straight(x) == x \in Word /\ (x \div 2) % 2 = 0

(* The word after one and the word before it, and what arm_fetch makes of it. *)
LEMMA StraightOn ==
  ASSUME NEW x, Straight(x)
  PROVE  Straight((x + 4) % WordSize) /\ Straight((x - 4) % WordSize) /\ ClearBit1(x) = x
<1>1. PICK w \in Nat : WordSize = 4 * w
  BY WordsOfFour
<1>2. /\ x \in Nat /\ x < 4 * w /\ (x \div 2) % 2 = 0 /\ x \in Word /\ 4 \in Word
      /\ w >= 16384
  BY <1>1, Sizes DEF Straight, Word
<1>3. /\ (x - 4) % WordSize = IF x >= 4 THEN x - 4 ELSE x - 4 + 4 * w
      /\ (x + 4) % WordSize = IF x + 4 >= 4 * w THEN x + 4 - 4 * w ELSE x + 4
  <2>1. /\ (x - 4) % WordSize = IF x >= 4 THEN x - 4 ELSE x - 4 + WordSize
        /\ (x + 4) % WordSize = IF x + 4 >= WordSize THEN x + 4 - WordSize ELSE x + 4
    BY <1>2, OneTurn
  <2> HIDE DEF WordSize
  <2> QED
    BY <1>1, <1>2, <2>1
<1>4. (x - 4) % WordSize \in Word /\ (x + 4) % WordSize \in Word
  BY <1>2, Wraps
<1> HIDE DEF WordSize
<1>5. (((x - 4) % WordSize) \div 2) % 2 = 0
  BY <1>2, <1>3
<1>6. (((x + 4) % WordSize) \div 2) % 2 = 0
  BY <1>2, <1>3
<1>7. ClearBit1(x) = x
  BY <1>2 DEF ClearBit1
<1> QED
  BY <1>4, <1>5, <1>6, <1>7 DEF Straight

(* A fetch clears bit 1 of the address. *)
LEMMA FetchIsStraight == ASSUME NEW p \in Core PROVE Straight(FetchAddress(p))
<1> DEFINE u == (p.storage[PC] + 4) % WordSize
           x == ClearBit1(u)
<1>1. u \in Word
  <2>1. p.storage[PC] \in Int
    BY FetchedFromStorage, Widths
  <2>2. p.storage[PC] + 4 \in Int
    BY <2>1
  <2> QED
    BY <2>2, Wraps
<1>2. FetchAddress(p) = (x - 4) % WordSize
  BY FetchedFromStorage DEF FetchedFrom
<1> HIDE DEF u
<1>3. x \in Word
  BY <1>1, ClearBit1Type
<1>4. (x \div 2) % 2 = 0
  <2>1. u \in Nat
    BY <1>1, Widths
  <2> QED
    BY <2>1 DEF ClearBit1
<1> HIDE DEF x
<1> QED
  BY <1>2, <1>3, <1>4, StraightOn DEF Straight

(* Set to such an address, the program counter fetches from there.         *)
LEMMA StraightFetched == ASSUME NEW x, Straight(x) PROVE FetchedFrom(x) = x
<1> DEFINE n == (x + 4) % WordSize
<1>1. Straight(n) /\ x \in Int
  BY StraightOn, Widths DEF Straight
<1>2. ClearBit1(n) = n /\ n \in Int
  BY <1>1, StraightOn, Widths DEF Straight
<1>3. (n + (-4)) % WordSize = (x + 4 + (-4)) % WordSize
  BY <1>1, WrapOnTheWay
<1>4. x % WordSize = x
  <2>1. x \in Nat /\ x < WordSize /\ WordSize \in Nat
    BY Sizes DEF Straight, Word
  <2> HIDE DEF WordSize
  <2> QED
    BY <2>1
<1>5. FetchedFrom(x) = (n - 4) % WordSize
  BY <1>2 DEF FetchedFrom
<1>6. n - 4 = n + (-4) /\ x + 4 + (-4) = x
  BY <1>1, <1>2
<1> QED
  BY <1>3, <1>4, <1>5, <1>6

(* The instruction that has been fetched is the current one, and it is     *)
(* fetched again when the program counter is set to its address.           *)
LEMMA CurrentIsFetched ==
  ASSUME NEW p \in Core
  PROVE  /\ FetchAddress(p) \in Word
         /\ FetchedFrom(FetchAddress(p)) = FetchAddress(p)
         /\ RegisterWritten(p, arm_fetch(p), PC, (FetchAddress(p) + 4) % WordSize)
         /\ arm_address_current_instruction(arm_fetch(p)) = FetchAddress(p)
<1> DEFINE F == FetchAddress(p)
           n == (F + 4) % WordSize
           q == arm_fetch(p)
<1>1. F \in Word /\ FetchedFrom(F) = F
  BY FetchedFromStorage, FetchedFromFetched
<1>2. Straight(F)
  BY FetchIsStraight
<1> HIDE DEF F
<1>3. Straight(n)
  BY <1>2, StraightOn
<1>4. RegisterWritten(p, q, PC, n)
  <2>1. n \in Word /\ PC \in RegNumber
    BY <1>3 DEF Straight, PC, RegNumber
  <2> QED
    BY <2>1, WriteRegister DEF arm_fetch, F
<1> HIDE DEF n, q
<1>5. arm_read_register(q, PC) = (n + 4) % WordSize
  <2>1. registers(p.cpsr.mode, PC) = PC
    BY CoreFields, RegistersType DEF RegNumber, PC
  <2>2. arm_read_register(q, PC) = ClearBit1((n + 4) % WordSize)
    BY <1>4, <2>1 DEF RegisterWritten, arm_read_register
  <2> QED
    BY <1>3, <2>2, StraightOn
<1>6. (((n + 4) % WordSize) - 8) % WordSize = F
  <2>1. n \in Int /\ F \in Int /\ (n + 4) % WordSize \in Int
    <3>1. n \in Int /\ F \in Int
      BY <1>1, <1>3, Widths DEF Straight
    <3>2. (n + 4) % WordSize \in Word
      BY <3>1, Wraps
    <3> QED
      BY <3>1, <3>2, Widths
  <2>2. (((n + 4) % WordSize) + (-8)) % WordSize = (n + 4 + (-8)) % WordSize
    BY <2>1, WrapOnTheWay
  <2>3. (n + (-4)) % WordSize = (F + 4 + (-4)) % WordSize
    BY <2>1, WrapOnTheWay DEF n
  <2>4. /\ ((n + 4) % WordSize) + (-8) = ((n + 4) % WordSize) - 8
        /\ n + 4 + (-8) = n + (-4) /\ F + 4 + (-4) = F
    BY <2>1
  <2>5. F % WordSize = F
    <3>1. F \in Nat /\ F < WordSize /\ WordSize \in Nat
      BY <1>1, Sizes DEF Word
    <3> HIDE DEF WordSize
    <3> QED
      BY <3>1
  <2> QED
    BY <2>2, <2>3, <2>4, <2>5
<1> QED
  BY <1>1, <1>4, <1>5, <1>6 DEF arm_address_current_instruction, F, n, q

(* After the fetch, the next instruction is the word after.                *)
LEMMA NextIsFetched ==
  ASSUME NEW p \in Core
  PROVE  LET n == (FetchAddress(p) + 4) % WordSize
         IN  /\ n \in Word /\ FetchedFrom(n) = n
             /\ arm_address_next_instruction(arm_fetch(p)) = n
<1> DEFINE n == (FetchAddress(p) + 4) % WordSize
           q == arm_fetch(p)
<1>1. Straight(n) /\ RegisterWritten(p, q, PC, n)
  BY FetchIsStraight, StraightOn, CurrentIsFetched
<1> HIDE DEF n, q
<1>2. FetchedFrom(n) = n
  BY <1>1, StraightFetched
<1>3. q \in Core /\ q.storage[PC] = n
  <2>1. registers(p.cpsr.mode, PC) = PC
    BY CoreFields, RegistersType DEF RegNumber, PC
  <2> QED
    BY <1>1, <2>1 DEF RegisterWritten
<1>4. FetchAddress(q) = n
  BY <1>2, <1>3, FetchedFromStorage
<1> QED
  BY <1>1, <1>2, <1>4 DEF Straight, FetchAddress, arm_address_next_instruction, n, q

-----------------------------------------------------------------------------
(* Single transfers *)

(* To write a loaded value into a register is an effect of the kind allowed. *)
LEMMA LoadIsFine ==
  ASSUME NEW p \in Core, NEW memory \in Contents, NEW rd \in RegNumber,
         NEW value \in Word
  PROVE  Fine(p, Outcome(arm_write_register(p, rd, value), memory, NO_EXCEPTION))
BY WrittenKept, FineOutcome, ResultCodes

(* A failing access that writes nothing is fine.                           *)
LEMMA AbortIsFine ==
  ASSUME NEW p \in Core, NEW memory \in Contents
  PROVE  Fine(p, Outcome(p, memory, DATA_ABORT)) /\ Fine(p, Outcome(p, memory, NO_EXCEPTION))
BY KeptRefl, FineOutcome, ResultCodes

(* A load of the program counter also sets T. *)
LEMMA PCLoadKept ==
  ASSUME NEW p \in Core, NEW value \in Word
  PROVE  Kept(p, arm_write_register(update_flag_t(p, value % 2), PC, value - (value % 2)))
<1>1. value % 2 \in Bit /\ value - (value % 2) \in Word
  BY Sizes DEF Word, Bit
<1>2. Kept(p, update_flag_t(p, value % 2))
  BY <1>1, FlagsKept
<1>3. update_flag_t(p, value % 2) \in Core /\ PC \in RegNumber
  BY <1>2 DEF Kept, PC, RegNumber
<1> QED
  BY <1>1, <1>2, <1>3, WrittenKept, KeptTrans

(* ldr writes its destination, or the program counter and T, or nothing.   *)
LEMMA LdrFine ==
  ASSUME NEW p \in Core, NEW memory \in Contents, NEW rd \in RegNumber,
         NEW address \in Word
  PROVE  Fine(p, ldr(p, memory, rd, address))
<1>1. CASE ~InBounds(address, 4)
  BY <1>1, AbortIsFine DEF ldr
<1>2. CASE InBounds(address, 4)
  <2> DEFINE value == memory_read_word(memory, BigEndian(p), address)
  <2>1. value \in Word
    BY <1>2, ReadType, Widths DEF BigEndian
  <2> HIDE DEF value
  <2>2. CASE rd = PC
    BY <1>2, <2>1, <2>2, PCLoadKept, FineOutcome, ResultCodes DEF ldr, value
  <2>3. CASE rd # PC
    BY <1>2, <2>1, <2>3, LoadIsFine DEF ldr, value
  <2> QED
    BY <2>2, <2>3
<1> QED
  BY <1>1, <1>2

(* str changes the memory only.                                            *)
LEMMA StrFine ==
  ASSUME NEW p \in Core, NEW memory \in Contents, NEW rd \in RegNumber,
         NEW address \in Word
  PROVE  Fine(p, str(p, memory, rd, address))
<1>1. arm_read_register(p, rd) \in Int /\ address \in Nat
  BY ReadRegisterType, Widths
<1>2. memory_write_word(memory, BigEndian(p), address, arm_read_register(p, rd)) \in Contents
  BY <1>1, WriteType DEF BigEndian
<1> QED
  BY <1>2, KeptRefl, FineOutcome, ResultCodes DEF str

(* ldrb and strbt, which is a load, write their destination or nothing.    *)
LEMMA LdrbFine ==
  ASSUME NEW p \in Core, NEW memory \in Contents, NEW rd \in RegNumber,
         NEW address \in Word
  PROVE  Fine(p, ldrb(p, memory, rd, address)) /\ Fine(p, ldrsb(p, memory, rd, address))
<1>1. CASE ~InBounds(address, 1)
  BY <1>1, AbortIsFine DEF ldrb, ldrsb
<1>2. CASE InBounds(address, 1)
  <2> DEFINE value == memory_read_byte(memory, address)
  <2>1. value \in Word
    <3>1. address \in Nat /\ TRUE \in BOOLEAN
      BY Widths
    <3> QED
      BY <1>2, <3>1, ReadType, Widths
  <2> HIDE DEF value
  <2> QED
    BY <1>2, <2>1, LoadIsFine DEF ldrb, ldrsb, value
<1> QED
  BY <1>1, <1>2

(* strb changes the memory only.                                           *)
LEMMA StrbFine ==
  ASSUME NEW p \in Core, NEW memory \in Contents, NEW rd \in RegNumber,
         NEW address \in Word
  PROVE  Fine(p, strb(p, memory, rd, address))
<1> DEFINE value == arm_read_register(p, rd) % ByteSize
<1>1. value \in Byte /\ value \in Int /\ address \in Nat
  BY ReadRegisterType, WrapsByte, Widths DEF Byte
<1> HIDE DEF value
<1>2. memory_write_byte(memory, address, value) \in Contents
  BY <1>1, WriteType
<1> QED
  BY <1>2, KeptRefl, FineOutcome, ResultCodes DEF strb, value

(* ldrh writes its destination or nothing.                                 *)
LEMMA LdrhFine ==
  ASSUME NEW p \in Core, NEW memory \in Contents, NEW rd \in RegNumber,
         NEW address \in Word
  PROVE  Fine(p, ldrh(p, memory, rd, address))
<1>1. CASE ~InBounds(address, 2)
  BY <1>1, AbortIsFine DEF ldrh
<1>2. CASE InBounds(address, 2)
  <2> DEFINE value == memory_read_half(memory, BigEndian(p), address)
  <2>1. value \in Word
    BY <1>2, ReadType, Widths DEF BigEndian
  <2> HIDE DEF value
  <2> QED
    BY <1>2, <2>1, LoadIsFine DEF ldrh, value
<1> QED
  BY <1>1, <1>2

(* strh changes the memory only.                                           *)
LEMMA StrhFine ==
  ASSUME NEW p \in Core, NEW memory \in Contents, NEW rd \in RegNumber,
         NEW address \in Word
  PROVE  Fine(p, strh(p, memory, rd, address))
<1> DEFINE value == arm_read_register(p, rd) % HalfSize
<1>1. value \in Int /\ address \in Nat
  <2>1. arm_read_register(p, rd) \in Int
    BY ReadRegisterType, Widths
  <2>2. value \in Half
    BY <2>1, WrapsHalf
  <2> QED
    BY <2>2, Widths
<1> HIDE DEF value
<1>2. memory_write_half(memory, BigEndian(p), address, value) \in Contents
  BY <1>1, WriteType DEF BigEndian
<1> QED
  BY <1>2, KeptRefl, FineOutcome, ResultCodes DEF strh, value

(* The sign extension and the junk that ldrsh leaves still make a word.    *)
LEMMA LdrshFine ==
  ASSUME NEW p \in Core, NEW memory \in Contents, NEW rd \in RegNumber,
         NEW address \in Word, NEW junk \in Word
  PROVE  Fine(p, ldrsh(p, memory, rd, address, junk))
<1>1. CASE ~InBounds(address, 2)
  BY <1>1, AbortIsFine DEF ldrsh
<1>2. CASE InBounds(address, 2)
  <2> DEFINE half  == memory_read_half(memory, BigEndian(p), address)
             value == IF 2 * half >= HalfSize THEN WordSize - HalfSize + half
                      ELSE half + (HalfSize * (junk % 16))
  <2>1. half \in Half
    BY <1>2, ReadType, Widths DEF BigEndian
  <2> HIDE DEF half
  <2>2. value \in Word
    <3>1. half \in Nat /\ half <= HalfSize - 1 /\ junk \in Nat
      BY <2>1, Widths, Sizes DEF Half
    <3> DEFINE n == junk % 16
    <3>2. n \in 0 .. 15
      BY <3>1
    <3> HIDE DEF n
    <3>3. HalfSize * n \in Nat /\ HalfSize * n <= HalfSize * 15
      BY <3>2, Sizes
    <3>4. HalfSize * 16 <= WordSize
      BY Sizes DEF WordSize
    <3>5. half + HalfSize * n \in 0 .. WordSize - 1
      BY <3>1, <3>3, <3>4, Sizes
    <3>6. WordSize - HalfSize + half \in 0 .. WordSize - 1
      BY <3>1, Sizes
    <3> QED
      BY <3>5, <3>6 DEF n, Word
  <2> HIDE DEF value
  <2>3. Fine(p, Outcome(arm_write_register(p, rd, value), memory, NO_EXCEPTION))
    BY <2>2, LoadIsFine
  <2> QED
    BY <1>2, <2>3, Zenon DEF ldrsh, value, half
<1> QED
  BY <1>1, <1>2

(* ldrd writes two registers of the current mode at most.                  *)
LEMMA LdrdFine ==
  ASSUME NEW p \in Core, NEW memory \in Contents, NEW rd \in RegNumber,
         NEW address \in Word
  PROVE  Fine(p, ldrd(p, memory, rd, address))
<1> DEFINE refused == rd % 2 = 1 \/ rd = LR \/ address % 4 # 0
           first == memory_read_word(memory, BigEndian(p), address)
           low   == arm_write_register(p, rd, first)
           next  == (address + 4) % WordSize
           second == memory_read_word(memory, BigEndian(p), next)
<1>1. next \in Word
  BY Wraps, Widths
<1> HIDE DEF next, refused
<1>2. CASE refused \/ ~InBounds(address, 4)
  BY <1>2, AbortIsFine DEF ldrd, refused
<1>3. CASE ~refused /\ InBounds(address, 4)
  <2>1. first \in Word
    BY <1>3, ReadType, Widths DEF BigEndian
  <2> HIDE DEF first
  <2>2. Kept(p, low) /\ low \in Core
    BY <2>1, WrittenKept DEF Kept
  <2> HIDE DEF low
  <2>3. CASE ~InBounds(next, 4)
    <3>1. ldrd(p, memory, rd, address) = Outcome(low, memory, DATA_ABORT)
      BY <1>3, <2>3 DEF ldrd, refused, low, first, next
    <3> QED
      BY <2>2, <3>1, FineOutcome, ResultCodes
  <2>4. CASE InBounds(next, 4)
    <3>1. second \in Word
      BY <1>1, <2>4, ReadType, Widths DEF BigEndian
    <3> HIDE DEF second
    <3>2. rd + 1 \in RegNumber
      BY <1>3 DEF refused, RegNumber, LR
    <3>3. Kept(p, arm_write_register(low, rd + 1, second))
      BY <2>2, <3>1, <3>2, WrittenKept, KeptTrans
    <3>4. ldrd(p, memory, rd, address)
            = Outcome(arm_write_register(low, rd + 1, second), memory, NO_EXCEPTION)
      BY <1>3, <2>4 DEF ldrd, refused, low, first, next, second
    <3> QED
      BY <3>3, <3>4, FineOutcome, ResultCodes
  <2> QED
    BY <2>3, <2>4
<1> QED
  BY <1>2, <1>3

(* strd changes the memory only.                                           *)
LEMMA StrdFine ==
  ASSUME NEW p \in Core, NEW memory \in Contents, NEW rd \in RegNumber,
         NEW address \in Word
  PROVE  Fine(p, strd(p, memory, rd, address))
<1> DEFINE refused == rd % 2 = 1 \/ rd = LR \/ address % 8 # 0
           stored  == memory_write_word(memory, BigEndian(p), address,
                                        arm_read_register(p, rd))
           next    == (address + 4) % WordSize
<1>1. next \in Word
  BY Wraps, Widths
<1>2. stored \in Contents
  <2>1. arm_read_register(p, rd) \in Int /\ address \in Nat
    BY ReadRegisterType, Widths
  <2> QED
    BY <2>1, WriteType DEF BigEndian
<1> HIDE DEF next, refused, stored
<1>3. CASE refused \/ ~InBounds(address, 4)
  BY <1>3, AbortIsFine DEF strd, refused
<1>4. CASE ~refused /\ InBounds(address, 4)
  <2>1. rd + 1 \in RegNumber
    BY <1>4 DEF refused, RegNumber, LR
  <2>2. strd(p, memory, rd, address) = str(p, stored, rd + 1, next)
    BY <1>4 DEF strd, refused, stored, next
  <2> QED
    BY <1>1, <1>2, <2>1, <2>2, StrFine
<1> QED
  BY <1>3, <1>4

-----------------------------------------------------------------------------
(* Addressing *)

(* A twelve-bit immediate is a word. *)
LEMMA ImmediateType == ASSUME NEW i PROVE i \in 0 .. 4095 => i \in Word
BY Sizes DEF Word

(* The offsets of the single transfers are words.                          *)
LEMMA OffsetType ==
  ASSUME NEW p \in Core, NEW ins, ins.rm \in 0 .. NoReg
  PROVE  /\ ins.imm \in 0 .. 255 => PlainOffset(p, ins) \in Word
         /\ ins.imm \in 0 .. 4095 /\ ins.shift \in Shift /\ ins.amount \in Amount =>
              ScaledOffset(p, ins) \in Word
<1>1. ins.rm # NoReg => arm_read_register(p, ins.rm) \in Word
  BY ReadRegisterType DEF NoReg, RegNumber
<1>2. 0 .. 255 \subseteq Word
  BY Sizes DEF Word
<1>3. ins.imm \in 0 .. 255 => PlainOffset(p, ins) \in Word
  BY <1>1, <1>2 DEF PlainOffset
<1>4. ins.imm \in 0 .. 4095 => ins.imm \in Word
  BY ImmediateType
<1>5. ins.shift \in Shift /\ ins.amount \in Amount /\ ins.rm # NoReg =>
        ScaledOffset(p, ins) \in Word
  BY <1>1, ScaledShiftType DEF ScaledOffset
<1>6. ins.rm = NoReg => ScaledOffset(p, ins) = ins.imm
  BY DEF ScaledOffset
<1> QED
  BY <1>3, <1>4, <1>5, <1>6

(* An address with an offset added or subtracted is a word.                *)
LEMMA SignedType ==
  ASSUME NEW u, NEW base \in Int, NEW offset \in Int
  PROVE  Signed(u, base, offset) \in Word
<1>1. (base + offset) % WordSize \in Word /\ (base - offset) % WordSize \in Word
  BY Wraps
<1> QED
  BY <1>1 DEF Signed

(* Accessed and written back addresses are words.                          *)
LEMMA AddressType ==
  ASSUME NEW p \in Core, NEW ins, ins.rn \in RegNumber, NEW offset \in Word
  PROVE  Target(p, ins, offset) \in Word /\ Kept(p, Indexed(p, ins, offset))
<1>1. arm_read_register(p, ins.rn) \in Word
  BY ReadRegisterType
<1>2. Moved(p, ins, offset) \in Word
  BY <1>1, SignedType, Widths DEF Moved
<1>3. Target(p, ins, offset) \in Word
  BY <1>1, <1>2 DEF Target
<1>4. Kept(p, Indexed(p, ins, offset))
  BY <1>2, KeptRefl, WrittenKept DEF Indexed
<1> QED
  BY <1>3, <1>4

(* arm_load_store keeps banks, SPSRs and control bits.                     *)
LEMMA LoadStoreFine ==
  ASSUME NEW p \in Core, NEW memory \in Contents, NEW ins \in SingleInstr
  PROVE  Fine(p, arm_load_store(p, memory, ins))
<1> DEFINE q == Indexed(p, ins, ScaledOffset(p, ins))
           a == Target(p, ins, ScaledOffset(p, ins))
<1>1. /\ ins.p \in BOOLEAN /\ ins.w \in BOOLEAN /\ ins.l \in BOOLEAN /\ ins.b \in BOOLEAN
      /\ ins.rd \in RegNumber /\ ins.rn \in RegNumber /\ ins.rm \in 0 .. NoReg
      /\ ins.imm \in 0 .. 4095 /\ ins.shift \in Shift /\ ins.amount \in Amount
  BY DEF SingleInstr
<1>2. a \in Word /\ Kept(p, q)
  BY <1>1, OffsetType, AddressType
<1>3. q \in Core
  BY <1>2 DEF Kept
<1> HIDE DEF q, a
<1>4. CASE ~ins.p /\ ins.w
  BY <1>4, KeptRefl, FineOutcome, ResultCodes DEF arm_load_store
<1>5. CASE ~(~ins.p /\ ins.w)
  <2>1. /\ Fine(q, ldrb(q, memory, ins.rd, a)) /\ Fine(q, ldr(q, memory, ins.rd, a))
        /\ Fine(q, strb(q, memory, ins.rd, a)) /\ Fine(q, str(q, memory, ins.rd, a))
    BY <1>1, <1>2, <1>3, LdrbFine, LdrFine, StrbFine, StrFine
  <2>2. arm_load_store(p, memory, ins) \in
          {ldrb(q, memory, ins.rd, a), ldr(q, memory, ins.rd, a),
           strb(q, memory, ins.rd, a), str(q, memory, ins.rd, a)}
    BY <1>1, <1>5 DEF arm_load_store, q, a
  <2> QED
    BY <1>2, <2>1, <2>2, FineAfter
<1> QED
  BY <1>4, <1>5

(* arm_load_store_miscellaneous keeps banks, SPSRs and control bits.       *)
LEMMA MiscellaneousFine ==
  ASSUME NEW p \in Core, NEW memory \in Contents, NEW ins \in MiscInstr
  PROVE  Fine(p, arm_load_store_miscellaneous(p, memory, ins))
<1> DEFINE q == Indexed(p, ins, PlainOffset(p, ins))
           a == Target(p, ins, PlainOffset(p, ins))
<1>1. /\ ins.p \in BOOLEAN /\ ins.w \in BOOLEAN /\ ins.kind \in 0 .. 7
      /\ ins.rd \in RegNumber /\ ins.rn \in RegNumber /\ ins.rm \in 0 .. NoReg
      /\ ins.imm \in 0 .. 255 /\ ins.junk \in Word
  BY DEF MiscInstr
<1>2. a \in Word /\ Kept(p, q)
  BY <1>1, OffsetType, AddressType
<1>3. q \in Core
  BY <1>2 DEF Kept
<1> HIDE DEF q, a
<1>4. CASE ~ins.p /\ ins.w
  BY <1>4, KeptRefl, FineOutcome, ResultCodes DEF arm_load_store_miscellaneous
<1>5. CASE ~(~ins.p /\ ins.w)
  <2>1. /\ Fine(q, strh(q, memory, ins.rd, a)) /\ Fine(q, ldrd(q, memory, ins.rd, a))
        /\ Fine(q, strd(q, memory, ins.rd, a)) /\ Fine(q, ldrh(q, memory, ins.rd, a))
        /\ Fine(q, ldrsb(q, memory, ins.rd, a))
        /\ Fine(q, ldrsh(q, memory, ins.rd, a, ins.junk))
        /\ Fine(q, Outcome(q, memory, NO_EXCEPTION))
    BY <1>1, <1>2, <1>3, StrhFine, LdrdFine, StrdFine, LdrhFine, LdrbFine,
       LdrshFine, AbortIsFine
  <2>2. arm_load_store_miscellaneous(p, memory, ins) \in
          {strh(q, memory, ins.rd, a), ldrd(q, memory, ins.rd, a), strd(q, memory, ins.rd, a),
           ldrh(q, memory, ins.rd, a), ldrsb(q, memory, ins.rd, a),
           ldrsh(q, memory, ins.rd, a, ins.junk), Outcome(q, memory, NO_EXCEPTION)}
    BY <1>1, <1>5 DEF arm_load_store_miscellaneous, q, a
  <2> QED
    BY <1>2, <2>1, <2>2, FineAfter
<1> QED
  BY <1>4, <1>5

-----------------------------------------------------------------------------
(* Multiple transfers *)

(* The registers of a list can be counted. *)
LEMMA CountType ==
  ASSUME NEW S \in SUBSET RegNumber
  PROVE  IsFiniteSet(S) /\ Cardinality(S) \in Nat
<1>1. IsFiniteSet(RegNumber)
  <2>1. 0 \in Int /\ 15 \in Int
    OBVIOUS
  <2>2. IsFiniteSet(0 .. 15)
    BY <2>1, FS_Interval
  <2> QED
    BY <2>2 DEF RegNumber
<1>2. IsFiniteSet(S)
  BY <1>1, FS_Subset
<1> QED
  BY <1>2, FS_CardinalityType

(* The address of every register of a multiple transfer is a word.         *)
LEMMA SlotType ==
  ASSUME NEW list \in SUBSET RegNumber, NEW start \in Word, NEW i \in RegNumber
  PROVE  Slot(list, start, i) \in Word
<1> DEFINE S == {j \in list : j < i}
<1>1. Cardinality(S) \in Nat
  <2>1. S \in SUBSET RegNumber
    OBVIOUS
  <2> HIDE DEF S
  <2> QED
    BY <2>1, CountType
<1> HIDE DEF S
<1>2. start + 4 * Cardinality(S) \in Int
  BY <1>1, Widths
<1>3. (start + 4 * Cardinality(S)) % WordSize \in Word
  BY <1>2, Wraps
<1> QED
  BY <1>3 DEF Slot, S

(* The registers that the loop has loaded or stored are in the list and    *)
(* their words in bounds.                                                  *)
LEMMA DoneFacts ==
  ASSUME NEW list \in SUBSET RegNumber, NEW start \in Word
  PROVE  /\ Done(list, start) \in SUBSET list
         /\ \A i \in Done(list, start) : InBounds(Slot(list, start, i), 4)
<1> SUFFICES ASSUME NEW i \in Done(list, start)
             PROVE  InBounds(Slot(list, start, i), 4)
  BY DEF Done
<1>1. i \in list /\ i <= i
  BY DEF Done, RegNumber
<1> QED
  BY <1>1 DEF Done

(* What a multiple load reads is a word.                                   *)
LEMMA LoadedWordType ==
  ASSUME NEW p \in Core, NEW memory \in Contents, NEW list \in SUBSET RegNumber,
         NEW start \in Word, NEW i \in RegNumber, InBounds(Slot(list, start, i), 4)
  PROVE  LoadedWord(p, memory, list, start, i) \in Word
<1>1. Slot(list, start, i) \in Nat
  BY SlotType, Widths
<1> QED
  BY <1>1, ReadType DEF LoadedWord, BigEndian

(* A multiple load writes registers that `mode' names, and nothing else.   *)
LEMMA LoadedRegisters ==
  ASSUME NEW p \in Core, NEW memory \in Contents, NEW list \in SUBSET RegNumber,
         NEW start \in Word, NEW done \in SUBSET list, NEW mode,
         \A i \in done : InBounds(Slot(list, start, i), 4)
  PROVE  LET q == Loaded(p, memory, list, start, done, mode)
         IN  /\ q \in Core /\ q.cpsr = p.cpsr /\ q.spsr = p.spsr
             /\ \A r \in 0 .. 30 : q.storage[r] # p.storage[r] => r \in Names(mode)
<1> DEFINE word(r) == IF \E i \in done : registers(mode, i) = r
                      THEN LoadedWord(p, memory, list, start,
                             CHOOSE i \in done : registers(mode, i) = r)
                      ELSE p.storage[r]
           storage == [r \in 0 .. 30 |-> word(r)]
<1>1. p.storage \in [0 .. 30 -> Word]
  BY CoreFields
<1>2. \A r \in 0 .. 30 : word(r) \in Word
  <2> TAKE r \in 0 .. 30
  <2>1. CASE \E i \in done : registers(mode, i) = r
    <3> DEFINE k == CHOOSE i \in done : registers(mode, i) = r
    <3>1. k \in done
      BY <2>1
    <3> HIDE DEF k
    <3>2. k \in RegNumber /\ InBounds(Slot(list, start, k), 4)
      BY <3>1
    <3>3. LoadedWord(p, memory, list, start, k) \in Word
      BY <3>2, LoadedWordType
    <3> QED
      BY <2>1, <3>3 DEF k
  <2>2. CASE ~\E i \in done : registers(mode, i) = r
    BY <1>1, <2>2
  <2> QED
    BY <2>1, <2>2
<1>3. \A r \in 0 .. 30 : word(r) # p.storage[r] => r \in Names(mode)
  BY DEF Names
<1> HIDE DEF word
<1>4. storage \in [0 .. 30 -> Word]
  BY <1>2
<1>5. Loaded(p, memory, list, start, done, mode) = [p EXCEPT !.storage = storage]
  BY DEF Loaded, word
<1>6. \A r \in 0 .. 30 : storage[r] = word(r)
  OBVIOUS
<1> HIDE DEF storage
<1>7. /\ [p EXCEPT !.storage = storage] \in Core
      /\ [p EXCEPT !.storage = storage].storage = storage
      /\ [p EXCEPT !.storage = storage].cpsr = p.cpsr
      /\ [p EXCEPT !.storage = storage].spsr = p.spsr
  BY <1>4 DEF Core
<1> QED
  BY <1>3, <1>5, <1>6, <1>7

(* Loading into the current bank. *)
LEMMA LoadedKept ==
  ASSUME NEW p \in Core, NEW memory \in Contents, NEW list \in SUBSET RegNumber,
         NEW start \in Word, NEW done \in SUBSET list,
         \A i \in done : InBounds(Slot(list, start, i), 4)
  PROVE  Kept(p, Loaded(p, memory, list, start, done, p.cpsr.mode))
BY LoadedRegisters DEF Kept

(* A multiple store keeps the memory well-formed.                          *)
LEMMA StoredType ==
  ASSUME NEW p \in Core, NEW memory \in Contents, NEW list \in SUBSET RegNumber,
         NEW start \in Word, NEW done \in SUBSET list, NEW reg \in [RegNumber -> Word]
  PROVE  Stored(p, memory, list, start, done, reg) \in Contents
<1> DEFINE in(i, a) == a \in Slot(list, start, i) .. Slot(list, start, i) + 3
           k(a)     == CHOOSE j \in done : in(j, a)
           digit(a) == IF BigEndian(p) THEN Slot(list, start, k(a)) + 3 - a
                       ELSE a - Slot(list, start, k(a))
           byte(a)  == IF \E i \in done : in(i, a) THEN ByteOf(reg[k(a)], digit(a))
                       ELSE memory[a]
<1>1. ASSUME NEW a \in Address, \E i \in done : in(i, a)
      PROVE  ByteOf(reg[k(a)], digit(a)) \in Byte
  <2>1. k(a) \in done /\ in(k(a), a)
    BY <1>1
  <2> HIDE DEF k
  <2>2. k(a) \in RegNumber
    BY <2>1
  <2>3. Slot(list, start, k(a)) \in Int /\ a \in Int
    <3>1. a \in Int
      BY Sizes DEF Address
    <3>2. \A i \in RegNumber : Slot(list, start, i) \in Word
      BY SlotType
    <3> QED
      BY <2>2, <3>1, <3>2, Widths
  <2>4. digit(a) \in 0 .. 3
    BY <2>1, <2>3
  <2>5. reg[k(a)] \in Int
    BY <2>2, Widths
  <2> HIDE DEF digit
  <2> QED
    BY <2>4, <2>5, ByteOfType
<1>2. \A a \in Address : byte(a) \in Byte
  <2> TAKE a \in Address
  <2>1. CASE \E i \in done : in(i, a)
    BY <1>1, <2>1
  <2>2. CASE ~\E i \in done : in(i, a)
    BY <2>2 DEF Contents
  <2> QED
    BY <2>1, <2>2
<1>3. Stored(p, memory, list, start, done, reg) = [a \in Address |-> byte(a)]
  BY Zenon DEF Stored
<1> HIDE DEF byte
<1> QED
  BY <1>2, <1>3 DEF Contents

(* Whatever the assert says, the outcome is fine.                          *)
LEMMA AssertedFine ==
  ASSUME NEW p, NEW q, Kept(p, q), NEW memory \in Contents, NEW result \in Results,
         NEW start, NEW end, NEW attempts
  PROVE  Fine(p, Asserted(Outcome(q, memory, result), start, end, attempts))
BY DEF Fine, Kept, Outcomes, Asserted, Outcome, Processes

(* A nonempty list has a last register.                                    *)
LEMMA LastExists ==
  ASSUME NEW list \in SUBSET RegNumber, list # {}
  PROVE  \E i \in list : \A j \in list : j <= i
<1> DEFINE goal == \E i \in list : \A j \in list : j <= i
<1>1. \A i \in list : (\A j \in list : j <= i) => goal
  OBVIOUS
<1> HIDE DEF goal
<1>2. \A i \in 0 .. 15 : (i \in list /\ \A j \in list : j <= i) => goal
  BY <1>1
<1>3. \A i \in 1 .. 16 : (\A j \in list : j < i) => goal \/ (\A j \in list : j < i - 1)
  BY <1>2 DEF RegNumber
<1>4. \A j \in list : j < 16
  BY DEF RegNumber
<1>5. goal \/ (\A j \in list : j < 12)
  BY <1>3, <1>4
<1>6. goal \/ (\A j \in list : j < 8)
  BY <1>3, <1>5
<1>7. goal \/ (\A j \in list : j < 4)
  BY <1>3, <1>6
<1>8. goal \/ (\A j \in list : j < 0)
  BY <1>3, <1>7
<1>9. PICK j \in list : TRUE
  OBVIOUS
<1>10. ~(j < 0)
  BY <1>9 DEF RegNumber
<1>11. goal
  BY <1>8, <1>10
<1> QED
  BY <1>11 DEF goal

(* The value that ldm1 writes when the last word is out of bounds.         *)
LEMMA LastValueType ==
  ASSUME NEW p \in Core, NEW memory \in Contents, NEW list \in SUBSET RegNumber,
         NEW start \in Word, NEW junk \in Word,
         \A i \in list : InBounds(Slot(list, start, i), 4)
  PROVE  LastValue(p, memory, list, start, junk) \in Word
<1>1. CASE list = {}
  BY <1>1 DEF LastValue
<1>2. CASE list # {}
  <2> DEFINE last == CHOOSE i \in list : \A j \in list : j <= i
  <2>1. last \in list
    <3>1. \E i \in list : \A j \in list : j <= i
      BY <1>2, LastExists
    <3> QED
      BY <3>1
  <2> HIDE DEF last
  <2>2. LoadedWord(p, memory, list, start, last) \in Word
    BY <2>1, LoadedWordType
  <2> QED
    BY <1>2, <2>2 DEF LastValue, last
<1> QED
  BY <1>1, <1>2

(* stm1 changes memory and base register only.                             *)
LEMMA Stm1Fine ==
  ASSUME NEW p \in Core, NEW memory \in Contents, NEW list \in SUBSET RegNumber,
         NEW start \in Word, NEW end
  PROVE  Fine(p, stm1(p, memory, list, start, end))
<1> DEFINE done == Done(list, start)
           reg  == [i \in RegNumber |-> arm_read_register(p, i)]
           stored == Stored(p, memory, list, start, done, reg)
<1>1. done \in SUBSET list /\ reg \in [RegNumber -> Word]
  BY DoneFacts, ReadRegisterType
<1> HIDE DEF done, reg
<1>2. stored \in Contents
  BY <1>1, StoredType
<1> HIDE DEF stored
<1>3. Failure(list, done) \in Results
  BY ResultCodes DEF Failure
<1>4. Kept(p, p)
  BY KeptRefl
<1> QED
  BY <1>2, <1>3, <1>4, AssertedFine DEF stm1, stored, reg, done

(* stm2 changes memory and base register only.                             *)
LEMMA Stm2Fine ==
  ASSUME NEW p \in Core, NEW memory \in Contents, NEW list \in SUBSET RegNumber,
         NEW start \in Word, NEW end
  PROVE  Fine(p, stm2(p, memory, list, start, end))
<1> DEFINE done == Done(list, start)
           reg  == [i \in RegNumber |-> arm_read_usr_register(p, i)]
           stored == Stored(p, memory, list, start, done, reg)
<1>1. done \in SUBSET list /\ reg \in [RegNumber -> Word]
  BY DoneFacts, ReadRegisterType
<1> HIDE DEF done, reg
<1>2. stored \in Contents
  BY <1>1, StoredType
<1> HIDE DEF stored
<1>3. Failure(list, done) \in Results
  BY ResultCodes DEF Failure
<1>4. Kept(p, p)
  BY KeptRefl
<1> QED
  BY <1>2, <1>3, <1>4, AssertedFine DEF stm2, stored, reg, done

(* ldm1 writes registers of the current mode, and T with the program counter. *)
LEMMA Ldm1Fine ==
  ASSUME NEW p \in Core, NEW memory \in Contents, NEW list \in SUBSET RegNumber,
         NEW start \in Word, NEW end, NEW junk \in Word
  PROVE  Fine(p, ldm1(p, memory, list, start, end, junk))
<1> DEFINE low    == list \ {PC}
           done   == Done(low, start)
           loaded == Loaded(p, memory, low, start, done, p.cpsr.mode)
           slot   == Slot(list, start, PC)
           value  == IF InBounds(slot, 4)
                     THEN memory_read_word(memory, BigEndian(p), slot)
                     ELSE LastValue(p, memory, low, start, junk)
           result == IF InBounds(slot, 4) THEN NO_EXCEPTION ELSE DATA_ABORT
           o      == ldm1(p, memory, list, start, end, junk)
<1>1. low \in SUBSET RegNumber /\ PC \in RegNumber
  BY DEF PC, RegNumber
<1> HIDE DEF low
<1>2. /\ done \in SUBSET low
      /\ \A i \in done : InBounds(Slot(low, start, i), 4)
  BY <1>1, DoneFacts
<1>3. slot \in Nat
  BY <1>1, SlotType, Widths
<1> HIDE DEF done, slot
<1>4. Kept(p, loaded)
  BY <1>1, <1>2, LoadedKept
<1> HIDE DEF loaded
<1>5. CASE ~(done = low /\ PC \in list)
  <2>1. Failure(low, done) \in Results
    BY ResultCodes DEF Failure
  <2>2. o = Asserted(Outcome(loaded, memory, Failure(low, done)), start, end,
                     Attempts(low, start))
    BY <1>5 DEF ldm1, low, done, loaded
  <2> HIDE DEF o
  <2> QED
    BY <1>4, <2>1, <2>2, AssertedFine DEF o
<1>6. CASE done = low /\ PC \in list
  <2>1. value \in Word
    <3>1. InBounds(slot, 4) => memory_read_word(memory, BigEndian(p), slot) \in Word
      BY <1>3, ReadType, Widths DEF BigEndian
    <3>2. LastValue(p, memory, low, start, junk) \in Word
      BY <1>1, <1>2, <1>6, LastValueType
    <3> QED
      BY <3>1, <3>2
  <2>2. result \in Results
    BY ResultCodes
  <2>3. o = Asserted(Outcome(arm_write_register(update_flag_t(loaded, value % 2), PC,
                                                value - (value % 2)),
                             memory, result),
                     start, end, Cardinality(list))
    BY <1>6 DEF ldm1, low, done, loaded, slot
  <2> HIDE DEF value, result, o
  <2>4. Kept(p, arm_write_register(update_flag_t(loaded, value % 2), PC,
                                   value - (value % 2)))
    <3>1. loaded \in Core
      BY <1>4 DEF Kept
    <3> QED
      BY <1>4, <2>1, <3>1, PCLoadKept, KeptTrans
  <2> QED
    BY <2>2, <2>3, <2>4, AssertedFine DEF o
<1> QED
  BY <1>5, <1>6

-----------------------------------------------------------------------------
(* What an instruction may do.  It writes registers of the bank of its     *)
(* mode and the SPSR of its mode; it leaves the masks and E alone, and in  *)
(* user mode the mode too; or it restores the SPSR, whole.                 *)
Restored(p, o) ==
  /\ arm_current_mode_has_spsr(p)
  /\ o.core.cpsr = arm_read_spsr(p)
  /\ o.core.spsr = p.spsr
  /\ o.result \in {NO_EXCEPTION, DATA_ABORT}
  /\ o.process # "exited"

ControlKept(p, q) ==
  /\ q.cpsr.I = p.cpsr.I /\ q.cpsr.F = p.cpsr.F /\ q.cpsr.E = p.cpsr.E
  /\ p.cpsr.mode = USR => q.cpsr.mode = USR

BanksKept(p, q) ==
  \A r \in 16 .. 30 : q.storage[r] # p.storage[r] => Owner(r) = p.cpsr.mode

SavedKept(p, q) ==
  \A m \in ModeNumber :
    q.spsr[m] # p.spsr[m] => m = p.cpsr.mode /\ arm_current_mode_has_spsr(p)

Effect(p, o) ==
  /\ o \in Outcomes
  /\ BanksKept(p, o.core)
  /\ SavedKept(p, o.core)
  /\ ControlKept(p, o.core) \/ Restored(p, o)

(* An instruction other than MSR changes the status registers only by      *)
(* restoring the SPSR, and no register but those of a set `bank'.          *)
StatusKept(p, q) ==
  /\ q.spsr = p.spsr
  /\ q.cpsr.mode = p.cpsr.mode /\ q.cpsr.I = p.cpsr.I
  /\ q.cpsr.F = p.cpsr.F /\ q.cpsr.E = p.cpsr.E

Steady(p, o, bank) ==
  /\ o \in Outcomes
  /\ \A r \in 0 .. 30 : o.core.storage[r] # p.storage[r] => r \in bank
  /\ StatusKept(p, o.core) \/ Restored(p, o)

(* A steady outcome has the effect of an instruction.                      *)
LEMMA SteadyEffect ==
  ASSUME NEW p \in Core, NEW o, NEW bank, Steady(p, o, bank),
         bank \subseteq Names(p.cpsr.mode) \cup 0 .. 15
  PROVE  Effect(p, o)
<1>1. p.cpsr.mode \in ModeNumber
  BY CoreFields
<1>2. BanksKept(p, o.core)
  BY <1>1, OwnerOfBank DEF Steady, BanksKept, Names
<1>3. SavedKept(p, o.core)
  BY DEF Steady, StatusKept, Restored, SavedKept
<1>4. StatusKept(p, o.core) => ControlKept(p, o.core)
  BY DEF StatusKept, ControlKept
<1> QED
  BY <1>2, <1>3, <1>4 DEF Steady, Effect

(* A handler that keeps everything is steady.                              *)
LEMMA FineSteady ==
  ASSUME NEW p, NEW o, Fine(p, o)
  PROVE  Steady(p, o, Names(p.cpsr.mode))
BY DEF Fine, Kept, Steady, StatusKept

(* A handler that keeps everything has the effect of an instruction.       *)
LEMMA FineEffect == ASSUME NEW p \in Core, NEW o, Fine(p, o) PROVE Effect(p, o)
BY FineSteady, SteadyEffect

(* The base is written back, or the program counter moved, first.          *)
LEMMA SteadyAfter ==
  ASSUME NEW p, NEW q, NEW o, NEW bank, Kept(p, q), Steady(q, o, bank),
         Names(p.cpsr.mode) \subseteq bank
  PROVE  Steady(p, o, bank)
<1>1. Restored(q, o) => Restored(p, o)
  BY DEF Kept, Restored, arm_current_mode_has_spsr, arm_read_spsr
<1>2. StatusKept(q, o.core) => StatusKept(p, o.core)
  BY DEF Kept, StatusKept
<1>3. \A r \in 0 .. 30 : o.core.storage[r] # p.storage[r] => r \in bank
  BY DEF Kept, Steady
<1> QED
  BY <1>1, <1>2, <1>3 DEF Steady

(* The same for any effect. *)
LEMMA EffectAfter ==
  ASSUME NEW p \in Core, NEW q, NEW o, Kept(p, q), Effect(q, o)
  PROVE  Effect(p, o)
<1>1. BanksKept(p, o.core)
  <2>1. p.cpsr.mode \in ModeNumber
    BY CoreFields
  <2> QED
    BY <2>1, OwnerOfBank DEF Kept, Names, Effect, BanksKept
<1>2. SavedKept(p, o.core)
  BY DEF Kept, Effect, SavedKept, arm_current_mode_has_spsr
<1>3. ControlKept(q, o.core) => ControlKept(p, o.core)
  BY DEF Kept, ControlKept
<1>4. Restored(q, o) => Restored(p, o)
  BY DEF Kept, Restored, arm_current_mode_has_spsr, arm_read_spsr
<1> QED
  BY <1>1, <1>2, <1>3, <1>4 DEF Effect

(* The status register is restored, then the program counter written.      *)
LEMMA RestoredSteady ==
  ASSUME NEW p \in Core, NEW back, NEW value \in Word, NEW memory \in Contents,
         back = IF arm_current_mode_has_spsr(p)
                THEN arm_write_cpsr(p, arm_read_spsr(p)) ELSE p
  PROVE  LET bank == Names(p.cpsr.mode)
         IN  /\ back \in Core
             /\ Steady(p, Outcome(arm_write_register(back, PC, value), memory, NO_EXCEPTION),
                       bank)
             /\ Steady(p, Outcome(back, memory, DATA_ABORT), bank)
<1> DEFINE bank == Names(p.cpsr.mode)
<1>0. PC \in RegNumber
  BY DEF PC, RegNumber
<1>1. CASE ~arm_current_mode_has_spsr(p)
  <2>1. back = p
    BY <1>1
  <2>2. Kept(p, p) /\ Kept(p, arm_write_register(p, PC, value))
    BY <1>0, KeptRefl, WrittenKept
  <2>3. /\ Fine(p, Outcome(arm_write_register(p, PC, value), memory, NO_EXCEPTION))
        /\ Fine(p, Outcome(p, memory, DATA_ABORT))
    BY <2>2, FineOutcome, ResultCodes
  <2> QED
    BY <2>1, <2>3, FineSteady
<1>2. CASE arm_current_mode_has_spsr(p)
  <2> DEFINE q == arm_write_register(back, PC, value)
  <2>1. StatusWritten(p, back, arm_read_spsr(p))
    BY <1>2, CoreFields, WriteStatus DEF arm_read_spsr
  <2>2. back \in Core
    BY <2>1 DEF StatusWritten
  <2>3. RegisterWritten(back, q, PC, value)
    BY <1>0, <2>2, WriteRegister
  <2>4. registers(back.cpsr.mode, PC) = PC /\ registers(p.cpsr.mode, PC) = PC
    BY <2>2, CoreFields, RegistersType, <1>0 DEF PC
  <2> HIDE DEF q
  <2>5. /\ \A r \in 0 .. 30 : q.storage[r] # p.storage[r] => r \in bank
        /\ \A r \in 0 .. 30 : back.storage[r] # p.storage[r] => r \in bank
    BY <1>0, <2>1, <2>3, <2>4 DEF Names, StatusWritten, RegisterWritten
  <2>6. /\ q.spsr = p.spsr /\ back.spsr = p.spsr
        /\ q.cpsr = arm_read_spsr(p) /\ back.cpsr = arm_read_spsr(p)
        /\ q \in Core
    BY <2>1, <2>3 DEF StatusWritten, RegisterWritten
  <2>7. /\ Outcome(q, memory, NO_EXCEPTION) \in Outcomes
        /\ Outcome(back, memory, DATA_ABORT) \in Outcomes
    BY <2>2, <2>6, ResultCodes DEF Outcomes, Outcome, Processes
  <2>8. /\ Restored(p, Outcome(q, memory, NO_EXCEPTION))
        /\ Restored(p, Outcome(back, memory, DATA_ABORT))
    BY <1>2, <2>6 DEF Restored, Outcome
  <2>9. Outcome(q, memory, NO_EXCEPTION).core = q /\ Outcome(back, memory, DATA_ABORT).core = back
    BY DEF Outcome
  <2> HIDE DEF bank
  <2>10. Steady(p, Outcome(q, memory, NO_EXCEPTION), bank)
    BY <2>5, <2>7, <2>8, <2>9 DEF Steady
  <2>11. Steady(p, Outcome(back, memory, DATA_ABORT), bank)
    BY <2>5, <2>7, <2>8, <2>9 DEF Steady
  <2> QED
    BY <2>2, <2>10, <2>11 DEF q, bank
<1> QED
  BY <1>1, <1>2

(* The assert can only end the process.                                    *)
LEMMA AssertedSteady ==
  ASSUME NEW p, NEW q, NEW memory, NEW result, NEW bank,
         Steady(p, Outcome(q, memory, result), bank),
         NEW start, NEW end, NEW attempts
  PROVE  Steady(p, Asserted(Outcome(q, memory, result), start, end, attempts), bank)
<1> DEFINE o == Outcome(q, memory, result)
           a == Asserted(o, start, end, attempts)
<1>1. /\ a.core = o.core /\ a.mem = o.mem /\ a.result = o.result
      /\ a.process \in {o.process, "aborted"}
  BY DEF Asserted, Outcome
<1>2. a \in {o, [o EXCEPT !.process = "aborted"]}
  BY DEF Asserted
<1> HIDE DEF a, o
<1>3. a \in Outcomes
  <2>1. o \in Outcomes
    BY DEF Steady, o
  <2>2. [o EXCEPT !.process = "aborted"] \in Outcomes
    BY <2>1 DEF Outcomes, Processes
  <2> QED
    BY <1>2, <2>1, <2>2
<1> QED
  BY <1>1, <1>3 DEF Steady, Restored, o, a

(* ldm2 writes registers of the user bank.                                 *)
LEMMA Ldm2Steady ==
  ASSUME NEW p \in Core, NEW memory \in Contents, NEW list \in SUBSET RegNumber,
         NEW start \in Word, NEW end
  PROVE  Steady(p, ldm2(p, memory, list, start, end), Names(USR))
<1> DEFINE done   == Done(list, start)
           loaded == Loaded(p, memory, list, start, done, USR)
<1>1. /\ done \in SUBSET list
      /\ \A i \in done : InBounds(Slot(list, start, i), 4)
  BY DoneFacts
<1> HIDE DEF done
<1>2. /\ loaded \in Core /\ loaded.cpsr = p.cpsr /\ loaded.spsr = p.spsr
      /\ \A r \in 0 .. 30 : loaded.storage[r] # p.storage[r] => r \in Names(USR)
  BY <1>1, LoadedRegisters
<1> HIDE DEF loaded
<1>3. Failure(list, done) \in Results
  BY ResultCodes DEF Failure
<1>4. Steady(p, Outcome(loaded, memory, Failure(list, done)), Names(USR))
  BY <1>2, <1>3 DEF Steady, StatusKept, Outcomes, Outcome, Processes
<1> QED
  BY <1>4, AssertedSteady DEF ldm2, loaded, done

(* ldm3 restores the whole SPSR, or aborts before it does.                 *)
LEMMA Ldm3Steady ==
  ASSUME NEW p \in Core, NEW memory \in Contents, NEW list \in SUBSET RegNumber,
         NEW start \in Word, NEW end
  PROVE  Steady(p, ldm3(p, memory, list, start, end), Names(p.cpsr.mode))
<1> DEFINE low    == list \ {PC}
           done   == Done(low, start)
           loaded == Loaded(p, memory, low, start, done, p.cpsr.mode)
           back   == IF arm_current_mode_has_spsr(loaded)
                     THEN arm_write_cpsr(loaded, arm_read_spsr(loaded)) ELSE loaded
           slot   == Slot(list, start, PC)
           value  == memory_read_word(memory, BigEndian(back), slot)
           o      == ldm3(p, memory, list, start, end)
           bank   == Names(p.cpsr.mode)
<1>1. low \in SUBSET RegNumber /\ PC \in RegNumber
  BY DEF PC, RegNumber
<1> HIDE DEF low
<1>2. /\ done \in SUBSET low
      /\ \A i \in done : InBounds(Slot(low, start, i), 4)
  BY <1>1, DoneFacts
<1>3. slot \in Nat
  BY <1>1, SlotType, Widths
<1> HIDE DEF done, slot
<1>4. Kept(p, loaded)
  BY <1>1, <1>2, LoadedKept
<1> HIDE DEF loaded
<1>5. loaded \in Core /\ Names(loaded.cpsr.mode) = bank
  BY <1>4 DEF Kept
<1>6. CASE done # low
  <2>1. o = Asserted(Outcome(loaded, memory, DATA_ABORT), start, end, Attempts(low, start))
    BY <1>6 DEF ldm3, low, done, loaded
  <2> HIDE DEF o
  <2>2. DATA_ABORT \in Results
    BY ResultCodes
  <2> QED
    BY <1>4, <2>1, <2>2, AssertedFine, FineSteady DEF o
<1>7. CASE done = low /\ InBounds(slot, 4)
  <2>1. value \in Word
    BY <1>3, <1>7, ReadType, Widths DEF BigEndian
  <2>2. o = Asserted(Outcome(arm_write_register(back, PC, value), memory, NO_EXCEPTION),
                     start, end, Cardinality(list))
    BY <1>7 DEF ldm3, low, done, loaded, slot
  <2>3. Steady(loaded, Outcome(arm_write_register(back, PC, value), memory, NO_EXCEPTION), bank)
    <3> HIDE DEF value
    <3> QED
      BY <1>5, <2>1, RestoredSteady
  <2> HIDE DEF value, o, back
  <2> QED
    BY <1>4, <2>2, <2>3, SteadyAfter, AssertedSteady DEF o
<1>8. CASE done = low /\ ~InBounds(slot, 4)
  <2>1. o = Asserted(Outcome(back, memory, DATA_ABORT), start, end, Cardinality(list))
    BY <1>8 DEF ldm3, low, done, loaded, slot
  <2>2. Steady(loaded, Outcome(back, memory, DATA_ABORT), bank)
    <3>1. 0 \in Word
      BY Sizes DEF Word
    <3> QED
      BY <1>5, <3>1, RestoredSteady
  <2> HIDE DEF o, back
  <2> QED
    BY <1>4, <2>1, <2>2, SteadyAfter, AssertedSteady DEF o
<1> QED
  BY <1>6, <1>7, <1>8

(* The multiple load that ends in ldm2, and what an instruction can write. *)
LoadsUserBank(ins) == ins.op = "LDM" /\ ins.l /\ ins.s /\ PC \notin ins.list

WritableBank(mode, ins) ==
  Names(mode) \cup (IF LoadsUserBank(ins) THEN Names(USR) ELSE {})

(* A set of writable registers may be larger.                              *)
LEMMA SteadyMore ==
  ASSUME NEW p, NEW o, NEW bank, NEW more, Steady(p, o, bank), bank \subseteq more
  PROVE  Steady(p, o, more)
BY DEF Steady

(* arm_load_store_multiple is steady: only ldm3 restores, only ldm2 writes *)
(* another bank than the one of the mode.                                  *)
LEMMA MultipleSteady ==
  ASSUME NEW p \in Core, NEW memory \in Contents, NEW ins \in MultipleInstr
  PROVE  Steady(p, arm_load_store_multiple(p, memory, ins), WritableBank(p.cpsr.mode, ins))
<1> DEFINE n     == Cardinality(ins.list)
           size  == 4 * n
           base  == arm_read_register(p, ins.rn)
           start == CASE ins.u  /\ ins.p  -> (base + 4) % WordSize
                      [] ins.u  /\ ~ins.p -> base
                      [] ~ins.u /\ ins.p  -> (base - size) % WordSize
                      [] ~ins.u /\ ~ins.p -> (base - size + 4) % WordSize
           end   == CASE ins.u  /\ ins.p  -> (base + size) % WordSize
                      [] ins.u  /\ ~ins.p -> (base + size - 4) % WordSize
                      [] ~ins.u /\ ins.p  -> (base - 4) % WordSize
                      [] ~ins.u /\ ~ins.p -> base
           moved == Signed(ins.u, base, size)
           q     == IF ins.w THEN arm_write_register(p, ins.rn, moved) ELSE p
           o     == arm_load_store_multiple(p, memory, ins)
           bank  == WritableBank(p.cpsr.mode, ins)
<1>1. /\ ins.p \in BOOLEAN /\ ins.u \in BOOLEAN /\ ins.w \in BOOLEAN
      /\ ins.l \in BOOLEAN /\ ins.s \in BOOLEAN /\ ins.rn \in RegNumber
      /\ ins.list \in SUBSET RegNumber /\ ins.junk \in Word
  BY DEF MultipleInstr
<1>2. n \in Nat
  BY <1>1, CountType
<1> HIDE DEF n
<1>3. base \in Word
  BY <1>1, ReadRegisterType
<1> HIDE DEF base
<1>4. size \in Int /\ base \in Int
  BY <1>2, <1>3, Widths
<1> HIDE DEF size
<1>5. start \in Word
  <2>1. /\ (base + 4) % WordSize \in Word /\ (base - size) % WordSize \in Word
        /\ (base - size + 4) % WordSize \in Word
    BY <1>4, Wraps
  <2> QED
    BY <1>1, <1>3, <2>1
<1>6. moved \in Word
  BY <1>4, SignedType
<1> HIDE DEF moved
<1>7. Kept(p, q) /\ q \in Core
  <2>1. Kept(p, q)
    BY <1>1, <1>6, KeptRefl, WrittenKept
  <2> QED
    BY <2>1 DEF Kept
<1>8. \/ /\ o \in {stm1(q, memory, ins.list, start, end),
                   ldm1(q, memory, ins.list, start, end, ins.junk),
                   stm2(q, memory, ins.list, start, end), Outcome(q, memory, NO_EXCEPTION)}
      \/ /\ o = ldm2(q, memory, ins.list, start, end)
         /\ LoadsUserBank(ins)
      \/ o = ldm3(q, memory, ins.list, start, end)
  <2> HIDE DEF start, end, q
  <2>1. o = CASE ~ins.s /\ ~ins.l -> stm1(q, memory, ins.list, start, end)
              [] ~ins.s /\ ins.l  -> ldm1(q, memory, ins.list, start, end, ins.junk)
              [] ins.s /\ ~ins.l /\ PC \notin ins.list
                                  -> stm2(q, memory, ins.list, start, end)
              [] ins.s /\ ~ins.l /\ PC \in ins.list
                                  -> Outcome(q, memory, NO_EXCEPTION)
              [] ins.s /\ ins.l /\ PC \notin ins.list
                                  -> ldm2(q, memory, ins.list, start, end)
              [] ins.s /\ ins.l /\ PC \in ins.list
                                  -> ldm3(q, memory, ins.list, start, end)
    BY Zenon DEF arm_load_store_multiple, start, end, q, moved, size, n, base
  <2>2. ins.op = "LDM"
    BY DEF MultipleInstr
  <2> HIDE DEF o
  <2> QED
    BY <1>1, <2>1, <2>2 DEF LoadsUserBank
<1> HIDE DEF start, end, q, o
<1>9. q.cpsr.mode = p.cpsr.mode
  BY <1>7 DEF Kept
<1>10. /\ Steady(q, stm1(q, memory, ins.list, start, end), Names(q.cpsr.mode))
       /\ Steady(q, ldm1(q, memory, ins.list, start, end, ins.junk), Names(q.cpsr.mode))
       /\ Steady(q, stm2(q, memory, ins.list, start, end), Names(q.cpsr.mode))
       /\ Steady(q, Outcome(q, memory, NO_EXCEPTION), Names(q.cpsr.mode))
       /\ Steady(q, ldm2(q, memory, ins.list, start, end), Names(USR))
       /\ Steady(q, ldm3(q, memory, ins.list, start, end), Names(q.cpsr.mode))
  BY <1>1, <1>5, <1>7, Stm1Fine, Ldm1Fine, Stm2Fine, Ldm2Steady, AbortIsFine,
     FineSteady, Ldm3Steady
<1>11. Names(p.cpsr.mode) \subseteq bank /\ (LoadsUserBank(ins) => Names(USR) \subseteq bank)
  BY DEF WritableBank
<1> HIDE DEF bank
<1>12. Steady(q, o, bank)
  BY <1>8, <1>9, <1>10, <1>11, SteadyMore
<1> QED
  BY <1>7, <1>11, <1>12, SteadyAfter DEF o, bank

-----------------------------------------------------------------------------
(* Branches, software interrupts, status registers                         *)

(* A branch writes the program counter and the link register. *)
LEMMA BranchFine ==
  ASSUME NEW p \in Core, NEW memory \in Contents, NEW ins \in BranchInstr
  PROVE  Fine(p, arm_branch(p, memory, ins))
<1> DEFINE pc     == arm_read_register(p, PC)
           linked == IF ins.link THEN arm_write_register(p, LR, (pc - 4) % WordSize)
                     ELSE p
           target == (pc + ins.offset) % WordSize
<1>1. ins.offset \in Word /\ PC \in RegNumber /\ LR \in RegNumber
  BY DEF BranchInstr, PC, LR, RegNumber
<1>2. pc \in Int
  BY <1>1, ReadRegisterType, Widths
<1> HIDE DEF pc
<1>3. target \in Word /\ (pc - 4) % WordSize \in Word
  <2>1. ins.offset \in Int
    BY <1>1, Widths
  <2>2. pc + ins.offset \in Int /\ pc - 4 \in Int
    BY <1>2, <2>1
  <2> QED
    BY <2>2, Wraps
<1> HIDE DEF target
<1>4. Kept(p, linked)
  BY <1>1, <1>3, KeptRefl, WrittenKept
<1>5. arm_branch(p, memory, ins) = Outcome(arm_write_register(linked, PC, target), memory,
                                        NO_EXCEPTION)
  BY DEF arm_branch, pc, target
<1> HIDE DEF linked
<1>6. Kept(p, arm_write_register(linked, PC, target))
  <2>1. linked \in Core
    BY <1>4 DEF Kept
  <2> QED
    BY <1>1, <1>3, <1>4, <2>1, WrittenKept, KeptTrans
<1> QED
  BY <1>5, <1>6, FineOutcome, ResultCodes

(* swi and the halting swi change no state of the processor.               *)
LEMMA SwiFine ==
  ASSUME NEW p \in Core, NEW memory \in Contents, NEW ins
  PROVE  /\ Fine(p, arm_coprocessor_others_swi(p, memory, ins))
         /\ Fine(p, Outcome(p, memory, UNDEFINED_INSTRUCTION))
<1>1. Fine(p, Outcome(p, memory, UNDEFINED_INSTRUCTION))
  BY KeptRefl, FineOutcome, ResultCodes
<1>2. Fine(p, Outcome(p, memory, SOFTWARE_INTERRUPT))
  BY KeptRefl, FineOutcome, ResultCodes
<1>3. Fine(p, [Outcome(p, memory, NO_EXCEPTION) EXCEPT !.process = "exited"])
  BY KeptRefl, ResultCodes DEF Fine, Kept, Outcomes, Outcome, Processes
<1> QED
  BY <1>1, <1>2, <1>3 DEF arm_coprocessor_others_swi

(* mrs writes its destination.                                             *)
LEMMA MrsFine ==
  ASSUME NEW p \in Core, NEW memory \in Contents, NEW ins \in MrsInstr
  PROVE  Fine(p, arm_mrs(p, memory, ins))
<1> DEFINE psr == IF ins.spsr THEN arm_read_spsr(p) ELSE p.cpsr
<1>1. psr \in PSR /\ ins.rd \in RegNumber
  BY CoreFields DEF arm_read_spsr, MrsInstr
<1> HIDE DEF psr
<1>2. WordOfPSR(psr) \in Word
  BY <1>1, WordOfPSRType
<1> QED
  BY <1>1, <1>2, LoadIsFine DEF arm_mrs, psr

(* The masks of arm_msr: none reaches I, F or E.                           *)
LEMMA MaskedType ==
  ASSUME NEW psr \in PSR, NEW operand \in PSR,
         NEW mask \in SUBSET (UserMask \cup PrivMask \cup StateMask)
  PROVE  LET m == Masked(psr, operand, mask)
         IN  /\ m \in PSR
             /\ m.I = psr.I /\ m.F = psr.F /\ m.E = psr.E
             /\ "mode" \notin mask => m.mode = psr.mode
<1> DEFINE mode  == IF "mode" \in mask THEN ((psr.mode \div 16) * 16) + (operand.mode % 16)
                    ELSE psr.mode
           flags == IF "flags" \in mask THEN operand.flags ELSE psr.flags
           bit   == IF "T" \in mask THEN operand.T ELSE psr.T
           a     == [psr EXCEPT !.flags = flags]
           b     == [a EXCEPT !.mode = mode]
           d     == [b EXCEPT !.T = bit]
<1>1. mode \in ModeNumber /\ ("mode" \notin mask => mode = psr.mode)
  <2>1. psr.mode \in 0 .. 31 /\ operand.mode \in 0 .. 31
    BY DEF PSR, ModeNumber
  <2>2. ((psr.mode \div 16) * 16) + (operand.mode % 16) \in 0 .. 31
    BY <2>1
  <2> QED
    BY <2>1, <2>2 DEF ModeNumber
<1>2. flags \in 0 .. 15 /\ bit \in Bit
  BY DEF PSR
<1>3. Masked(psr, operand, mask) = d
  <2>1. "I" \notin mask /\ "F" \notin mask
    BY DEF UserMask, PrivMask, StateMask
  <2> QED
    BY <2>1 DEF Masked, PSR
<1> HIDE DEF mode, flags, bit
<1>4. /\ a \in PSR /\ a.I = psr.I /\ a.F = psr.F /\ a.E = psr.E
  BY <1>2 DEF PSR
<1> HIDE DEF a
<1>5. /\ b \in PSR /\ b.I = a.I /\ b.F = a.F /\ b.E = a.E /\ b.mode = mode
  BY <1>1, <1>4 DEF PSR
<1> HIDE DEF b
<1>6. /\ d \in PSR /\ d.I = b.I /\ d.F = b.F /\ d.E = b.E /\ d.mode = b.mode
  BY <1>2, <1>5 DEF PSR
<1> QED
  BY <1>1, <1>3, <1>4, <1>5, <1>6

(* What arm_msr takes its fields from.                                     *)
LEMMA MsrOperandType ==
  ASSUME NEW p \in Core, NEW ins \in MsrInstr
  PROVE  MsrOperand(p, ins) \in Word
<1>1. ins.rm \in 0 .. NoReg /\ ins.imm \in 0 .. 255 /\ ins.rotate \in Rotation
  BY DEF MsrInstr
<1>2. ins.rm # NoReg => arm_read_register(p, ins.rm) \in Word
  BY <1>1, ReadRegisterType DEF NoReg, RegNumber
<1>3. (IF ins.imm >= 128 THEN WordSize - 256 + ins.imm ELSE ins.imm) \in Word
  BY <1>1, Sizes DEF Word
<1>4. 2 * ins.rotate \in Nat
  BY <1>1, WidthAssumption DEF Rotation
<1> QED
  BY <1>2, <1>3, <1>4, RorType DEF MsrOperand

(* msr keeps the masks, and the mode of an unprivileged program.           *)
LEMMA MsrEffect ==
  ASSUME NEW p \in Core, NEW memory \in Contents, NEW ins \in MsrInstr
  PROVE  Effect(p, arm_msr(p, memory, ins))
<1> DEFINE operand == PSROf(MsrOperand(p, ins))
           saved == Masked(arm_read_spsr(p), operand,
                           byte_mask(ins) \cap (UserMask \cup PrivMask \cup StateMask))
           user  == Masked(p.cpsr, operand, byte_mask(ins) \cap UserMask)
           priv  == Masked(p.cpsr, operand, byte_mask(ins) \cap (UserMask \cup PrivMask))
           none  == Masked(p.cpsr, operand, byte_mask(ins) \cap {})
           q     == arm_msr(p, memory, ins).core
<1>1. operand \in PSR
  BY MsrOperandType, PSROfType
<1>2. p.cpsr \in PSR /\ arm_read_spsr(p) \in PSR
  BY CoreFields DEF arm_read_spsr
<1> HIDE DEF operand
<1>3. saved \in PSR
  BY <1>1, <1>2, MaskedType
<1>4. /\ user \in PSR /\ user.I = p.cpsr.I /\ user.F = p.cpsr.F /\ user.E = p.cpsr.E
      /\ user.mode = p.cpsr.mode
  <2>1. "mode" \notin byte_mask(ins) \cap UserMask
    BY DEF UserMask
  <2> QED
    BY <1>1, <1>2, <2>1, MaskedType
<1>5. priv \in PSR /\ priv.I = p.cpsr.I /\ priv.F = p.cpsr.F /\ priv.E = p.cpsr.E
  BY <1>1, <1>2, MaskedType
<1>6. /\ none \in PSR /\ none.I = p.cpsr.I /\ none.F = p.cpsr.F /\ none.E = p.cpsr.E
       /\ none.mode = p.cpsr.mode
  BY <1>1, <1>2, MaskedType
<1> HIDE DEF saved, user, priv, none
<1>7. arm_msr(p, memory, ins) = Outcome(q, memory, NO_EXCEPTION)
  BY DEF arm_msr, Outcome
<1>8. \/ q = p
      \/ arm_current_mode_has_spsr(p) /\ q = arm_write_spsr(p, saved)
      \/ q = arm_write_cpsr(p, user)
      \/ q = arm_write_cpsr(p, none)
      \/ p.cpsr.mode # USR /\ q = arm_write_cpsr(p, priv)
  BY DEF arm_msr, Outcome, arm_in_a_privileged_mode, saved, user, priv, none, operand
<1> HIDE DEF q
<1>9. q \in Core /\ BanksKept(p, q) /\ SavedKept(p, q) /\ ControlKept(p, q)
  <2>1. CASE q = p
    BY <2>1 DEF BanksKept, SavedKept, ControlKept
  <2>2. CASE arm_current_mode_has_spsr(p) /\ q = arm_write_spsr(p, saved)
    <3>1. SavedStatusWritten(p, q, saved)
      BY <1>3, <2>2, WriteStatus
    <3> QED
      BY <2>2, <3>1 DEF SavedStatusWritten, BanksKept, SavedKept, ControlKept
  <2>3. CASE q = arm_write_cpsr(p, user)
    <3>1. StatusWritten(p, q, user)
      BY <1>4, <2>3, WriteStatus
    <3> QED
      BY <1>4, <3>1 DEF StatusWritten, BanksKept, SavedKept, ControlKept
  <2>4. CASE p.cpsr.mode # USR /\ q = arm_write_cpsr(p, priv)
    <3>1. StatusWritten(p, q, priv)
      BY <1>5, <2>4, WriteStatus
    <3> QED
      BY <1>5, <2>4, <3>1 DEF StatusWritten, BanksKept, SavedKept, ControlKept
  <2>5. CASE q = arm_write_cpsr(p, none)
    <3>1. StatusWritten(p, q, none)
      BY <1>6, <2>5, WriteStatus
    <3> QED
      BY <1>6, <3>1 DEF StatusWritten, BanksKept, SavedKept, ControlKept
  <2> QED
    BY <1>8, <2>1, <2>2, <2>3, <2>4, <2>5
<1>10. Outcome(q, memory, NO_EXCEPTION) \in Outcomes /\ Outcome(q, memory, NO_EXCEPTION).core = q
  BY <1>9, ResultCodes DEF Outcomes, Outcome, Processes
<1> QED
  BY <1>7, <1>9, <1>10 DEF Effect

-----------------------------------------------------------------------------
(* Data processing                                                         *)

(* Data processing writes a register and flags, or restores the SPSR. *)
LEMMA DataProcessingSteady ==
  ASSUME NEW p \in Core, NEW memory \in Contents, NEW ins \in DataInstr
  PROVE  Steady(p, Outcome(arm_data_processing(p, ins), memory, NO_EXCEPTION),
                Names(p.cpsr.mode))
<1> DEFINE op1   == IF ins.code \in {"MOV", "MVN"} THEN 0 ELSE arm_read_register(p, ins.rn)
           op2   == ShifterOperand(p, ins)
           test  == ins.code \in Tests
           value == dp_result(p.cpsr, ins.code, op1, op2.value)
           flags == dp_flags(p.cpsr, ins.code, op1, op2.value, value, op2.carry)
           set   == update_nzcv(p, flags)
           back  == IF arm_current_mode_has_spsr(p)
                    THEN arm_write_cpsr(p, arm_read_spsr(p)) ELSE p
           o     == Outcome(arm_data_processing(p, ins), memory, NO_EXCEPTION)
<1>1. /\ ins.code \in Codes /\ ins.s \in BOOLEAN
      /\ ins.rd \in RegNumber /\ ins.rn \in RegNumber /\ ins.rm \in 0 .. NoReg
      /\ ins.shift \in Shift /\ ins.amount \in Amount /\ ins.rs \in 0 .. NoReg
      /\ ins.imm \in 0 .. 255 /\ ins.rotate \in Rotation
  BY DEF DataInstr
<1>2. op1 \in Word /\ op2.value \in Word
  <2>1. op1 \in Word
    BY <1>1, ReadRegisterType, WordInt
  <2>2. op2 \in ShifterResult
    BY <1>1, ShifterOperandType
  <2> QED
    BY <2>1, <2>2 DEF ShifterResult
<1> HIDE DEF op1, op2
<1>3. value \in Word
  BY <1>1, <1>2, ResultType
<1>4. flags \in 0 .. 15
  BY FlagsType
<1> HIDE DEF value, flags
<1>5. Kept(p, set)
  <2>1. 0 \in Bit
    BY DEF Bit
  <2> QED
    BY <1>4, <2>1, FlagsKept
<1>6. set \in Core
  BY <1>5 DEF Kept
<1>7. CASE test
  <2>1. o = Outcome(set, memory, NO_EXCEPTION)
    BY <1>7 DEF arm_data_processing, dp_operation, dp_write, value, flags, op1, op2
  <2> HIDE DEF o, set
  <2> QED
    BY <1>5, <2>1, FineOutcome, ResultCodes, FineSteady DEF o
<1>8. CASE ~test /\ ins.s /\ ins.rd # PC
  <2>1. o = Outcome(arm_write_register(set, ins.rd, value), memory, NO_EXCEPTION)
    BY <1>8 DEF arm_data_processing, dp_operation, dp_write, value, flags, op1, op2
  <2> HIDE DEF o, set
  <2>2. Kept(p, arm_write_register(set, ins.rd, value))
    BY <1>1, <1>3, <1>5, <1>6, WrittenKept, KeptTrans
  <2> QED
    BY <2>1, <2>2, FineOutcome, ResultCodes, FineSteady DEF o
<1>9. CASE ~test /\ ~ins.s
  <2>1. o = Outcome(arm_write_register(p, ins.rd, value), memory, NO_EXCEPTION)
    BY <1>9 DEF arm_data_processing, dp_operation, dp_write, value, op1, op2
  <2> HIDE DEF o
  <2> QED
    BY <1>1, <1>3, <2>1, LoadIsFine, FineSteady DEF o
<1>10. CASE ~test /\ ins.s /\ ins.rd = PC
  <2>1. o = Outcome(arm_write_register(back, PC, value), memory, NO_EXCEPTION)
    BY <1>10 DEF arm_data_processing, dp_operation, dp_write, value, op1, op2
  <2> HIDE DEF o
  <2> QED
    BY <1>3, <2>1, RestoredSteady DEF o
<1> QED
  BY <1>7, <1>8, <1>9, <1>10

-----------------------------------------------------------------------------
(* Any instruction, fetched and executed                                   *)

(* MSR can be told by its fields to leave mode and SPSR alone, and cannot  *)
(* reach them in user mode.                                                *)
WritesControl(p, ins) == ins.op = "MSR" /\ (ins.c \/ ins.spsr) /\ p.cpsr.mode # USR

(* Any other MSR writes the flags of the current status register at most.  *)
LEMMA FlagsMsrSteady ==
  ASSUME NEW p \in Core, NEW memory \in Contents, NEW ins \in MsrInstr, ~WritesControl(p, ins)
  PROVE  Steady(p, arm_msr(p, memory, ins), Names(p.cpsr.mode))
<1> DEFINE operand  == PSROf(MsrOperand(p, ins))
           masks    == {UserMask, UserMask \cup PrivMask, {}}
           psr(m)   == Masked(p.cpsr, operand, byte_mask(ins) \cap m)
           q        == arm_msr(p, memory, ins).core
<1>1. operand \in PSR /\ p.cpsr \in PSR
  BY MsrOperandType, PSROfType, CoreFields
<1>2. ins.op = "MSR"
  BY DEF MsrInstr
<1>3. arm_msr(p, memory, ins) = Outcome(q, memory, NO_EXCEPTION)
  BY DEF arm_msr, Outcome
<1>4. q = p \/ \E m \in masks : /\ q = arm_write_cpsr(p, psr(m))
                              /\ "mode" \notin byte_mask(ins) \cap m
  <2>1. ~(ins.spsr /\ arm_current_mode_has_spsr(p))
    BY <1>2 DEF WritesControl, arm_current_mode_has_spsr
  <2>2. \/ q = p \/ q = arm_write_cpsr(p, psr(UserMask)) \/ q = arm_write_cpsr(p, psr({}))
        \/ q = arm_write_cpsr(p, psr(UserMask \cup PrivMask)) /\ p.cpsr.mode # USR
    BY <2>1 DEF arm_msr, Outcome, arm_in_a_privileged_mode
  <2>3. "mode" \notin UserMask /\ "mode" \notin {}
    BY DEF UserMask
  <2>4. p.cpsr.mode # USR => "mode" \notin byte_mask(ins)
    BY <1>2 DEF WritesControl, byte_mask
  <2> HIDE DEF q, psr
  <2> QED
    BY <2>2, <2>3, <2>4
<1>5. \A m \in masks : byte_mask(ins) \cap m \in SUBSET (UserMask \cup PrivMask \cup StateMask)
  OBVIOUS
<1> HIDE DEF q, operand, masks
<1>6. q = p \/ \E s \in PSR : /\ q = arm_write_cpsr(p, s)
                            /\ s.mode = p.cpsr.mode /\ s.I = p.cpsr.I
                            /\ s.F = p.cpsr.F /\ s.E = p.cpsr.E
  <2>1. ASSUME NEW m \in masks, "mode" \notin byte_mask(ins) \cap m
        PROVE  /\ psr(m) \in PSR /\ psr(m).mode = p.cpsr.mode
               /\ psr(m).I = p.cpsr.I /\ psr(m).F = p.cpsr.F /\ psr(m).E = p.cpsr.E
    BY <1>1, <1>5, <2>1, MaskedType
  <2> HIDE DEF psr
  <2> QED
    BY <1>4, <2>1
<1>7. q \in Core /\ q.storage = p.storage /\ StatusKept(p, q)
  <2>1. CASE q = p
    BY <2>1 DEF StatusKept
  <2>2. CASE q # p
    <3>1. PICK s \in PSR : /\ q = arm_write_cpsr(p, s)
                           /\ s.mode = p.cpsr.mode /\ s.I = p.cpsr.I
                           /\ s.F = p.cpsr.F /\ s.E = p.cpsr.E
      BY <1>6, <2>2
    <3>2. StatusWritten(p, q, s)
      BY <3>1, WriteStatus
    <3> QED
      BY <3>1, <3>2 DEF StatusWritten, StatusKept
  <2> QED
    BY <2>1, <2>2
<1>8. Outcome(q, memory, NO_EXCEPTION) \in Outcomes /\ Outcome(q, memory, NO_EXCEPTION).core = q
  BY <1>7, ResultCodes DEF Outcomes, Outcome, Processes
<1> QED
  BY <1>3, <1>7, <1>8 DEF Steady

(* Every handler is steady, that of MSR when it leaves the control bits.   *)
LEMMA HandleSteady ==
  ASSUME NEW p \in Core, NEW memory \in Contents, NEW ins \in Instr, ~WritesControl(p, ins)
  PROVE  Steady(p, Handle(p, memory, ins), WritableBank(p.cpsr.mode, ins))
<1> DEFINE o    == Handle(p, memory, ins)
           bank == WritableBank(p.cpsr.mode, ins)
<1>0. Names(p.cpsr.mode) \subseteq bank
  BY DEF WritableBank
<1>1. CASE ins \in BranchInstr
  <2>1. o = arm_branch(p, memory, ins)
    BY <1>1 DEF BranchInstr, Handle
  <2> HIDE DEF o, bank
  <2> QED
    BY <1>0, <1>1, <2>1, BranchFine, FineSteady, SteadyMore DEF o, bank
<1>2. CASE ins \in SwiInstr \cup CoprocInstr
  <2>1. o \in {arm_coprocessor_others_swi(p, memory, ins), Outcome(p, memory, UNDEFINED_INSTRUCTION)}
    BY <1>2 DEF SwiInstr, CoprocInstr, Handle
  <2> HIDE DEF o, bank
  <2> QED
    BY <1>0, <2>1, SwiFine, FineSteady, SteadyMore DEF o, bank
<1>3. CASE ins \in MrsInstr
  <2>1. o = arm_mrs(p, memory, ins)
    BY <1>3 DEF MrsInstr, Handle
  <2> HIDE DEF o, bank
  <2> QED
    BY <1>0, <1>3, <2>1, MrsFine, FineSteady, SteadyMore DEF o, bank
<1>4. CASE ins \in MsrInstr
  <2>1. o = arm_msr(p, memory, ins)
    BY <1>4 DEF MsrInstr, Handle
  <2> HIDE DEF o, bank
  <2> QED
    BY <1>0, <1>4, <2>1, FlagsMsrSteady, SteadyMore DEF o, bank
<1>5. CASE ins \in DataInstr
  <2>1. o = Outcome(arm_data_processing(p, ins), memory, NO_EXCEPTION)
    BY <1>5 DEF DataInstr, Handle
  <2> HIDE DEF o, bank
  <2> QED
    BY <1>0, <1>5, <2>1, DataProcessingSteady, SteadyMore DEF o, bank
<1>6. CASE ins \in SingleInstr
  <2>1. o = arm_load_store(p, memory, ins)
    BY <1>6 DEF SingleInstr, Handle
  <2> HIDE DEF o, bank
  <2> QED
    BY <1>0, <1>6, <2>1, LoadStoreFine, FineSteady, SteadyMore DEF o, bank
<1>7. CASE ins \in MiscInstr
  <2>1. o = arm_load_store_miscellaneous(p, memory, ins)
    BY <1>7 DEF MiscInstr, Handle
  <2> HIDE DEF o, bank
  <2> QED
    BY <1>0, <1>7, <2>1, MiscellaneousFine, FineSteady, SteadyMore DEF o, bank
<1>8. CASE ins \in MultipleInstr
  <2>1. o = arm_load_store_multiple(p, memory, ins)
    BY <1>8 DEF MultipleInstr, Handle
  <2> HIDE DEF o, bank
  <2> QED
    BY <1>0, <1>8, <2>1, MultipleSteady DEF o, bank
<1> QED
  BY <1>1, <1>2, <1>3, <1>4, <1>5, <1>6, <1>7, <1>8 DEF Instr

(* No register outside the mode's bank and the user bank is written.       *)
LEMMA WritableNames ==
  ASSUME NEW mode, NEW ins
  PROVE  WritableBank(mode, ins) \subseteq Names(mode) \cup 0 .. 15
<1>1. Names(USR) \subseteq 0 .. 15
  BY DEF Names, registers, RegNumber, USR, FIQ, SVC, ABT, UND, IRQ
<1> QED
  BY <1>1 DEF WritableBank

(* Every handler has an effect of the kind allowed. *)
LEMMA HandleEffect ==
  ASSUME NEW p \in Core, NEW memory \in Contents, NEW ins \in Instr
  PROVE  Effect(p, Handle(p, memory, ins))
<1>1. CASE ~WritesControl(p, ins)
  BY <1>1, HandleSteady, WritableNames, SteadyEffect
<1>2. CASE WritesControl(p, ins)
  <2>1. ins \in MsrInstr /\ Handle(p, memory, ins) = arm_msr(p, memory, ins)
    BY <1>2 DEF WritesControl, Handle, Instr, BranchInstr, SwiInstr, CoprocInstr, MrsInstr,
                DataInstr, SingleInstr, MiscInstr, MultipleInstr
  <2> QED
    BY <2>1, MsrEffect
<1> QED
  BY <1>1, <1>2

(* The fetch advances the program counter and nothing else.                *)
LEMMA FetchKept == ASSUME NEW p \in Core PROVE Kept(p, arm_fetch(p))
<1>1. FetchAddress(p) + 4 \in Int /\ PC \in RegNumber
  <2>1. FetchAddress(p) \in Word
    BY Links
  <2>2. FetchAddress(p) \in Int
    BY <2>1, Widths
  <2> HIDE DEF FetchAddress
  <2> QED
    BY <2>2 DEF PC, RegNumber
<1>2. (FetchAddress(p) + 4) % WordSize \in Word
  BY <1>1, Wraps
<1> QED
  BY <1>1, <1>2, WrittenKept DEF arm_fetch

(* A fetched instruction that is no MSR of control bits is steady.         *)
LEMMA ExecuteSteady ==
  ASSUME NEW p \in Core, NEW memory \in Contents, NEW ins \in Instr, ~WritesControl(p, ins)
  PROVE  Steady(p, arm_execute_instruction(p, memory, ins), WritableBank(p.cpsr.mode, ins))
<1> DEFINE q    == arm_fetch(p)
           o    == arm_execute_instruction(p, memory, ins)
           bank == WritableBank(p.cpsr.mode, ins)
<1>1. Kept(p, q)
  BY FetchKept
<1>2. q \in Core /\ q.cpsr.mode = p.cpsr.mode /\ ~WritesControl(q, ins)
  BY <1>1 DEF Kept, WritesControl
<1>3. Names(p.cpsr.mode) \subseteq bank
  BY DEF WritableBank
<1> HIDE DEF q, bank
<1>4. o \in {Outcome(q, memory, PREFETCH_ABORT), Outcome(q, memory, UNDEFINED_INSTRUCTION),
             Outcome(q, memory, NO_EXCEPTION), Handle(q, memory, ins)}
  BY DEF arm_execute_instruction, q
<1> HIDE DEF o
<1>5. \A result \in Results : Steady(q, Outcome(q, memory, result), bank)
  BY <1>2, <1>3, KeptRefl, FineOutcome, FineSteady, SteadyMore
<1>6. Steady(q, Handle(q, memory, ins), bank)
  BY <1>2, HandleSteady DEF bank
<1>7. Steady(q, o, bank)
  BY <1>4, <1>5, <1>6, ResultCodes
<1> QED
  BY <1>1, <1>3, <1>7, SteadyAfter DEF o, bank

(* One fetched instruction, executed or skipped.                           *)
LEMMA ExecuteEffect ==
  ASSUME NEW p \in Core, NEW memory \in Contents, NEW ins \in Instr
  PROVE  Effect(p, arm_execute_instruction(p, memory, ins))
<1> DEFINE q == arm_fetch(p)
           o == arm_execute_instruction(p, memory, ins)
<1>1. Kept(p, q)
  BY FetchKept
<1>2. q \in Core
  BY <1>1 DEF Kept
<1> HIDE DEF q
<1>3. o \in {Outcome(q, memory, PREFETCH_ABORT), Outcome(q, memory, UNDEFINED_INSTRUCTION),
             Outcome(q, memory, NO_EXCEPTION), Handle(q, memory, ins)}
  BY DEF arm_execute_instruction, q
<1> HIDE DEF o
<1>4. /\ Fine(q, Outcome(q, memory, PREFETCH_ABORT))
      /\ Fine(q, Outcome(q, memory, UNDEFINED_INSTRUCTION))
      /\ Fine(q, Outcome(q, memory, NO_EXCEPTION))
  BY <1>2, KeptRefl, FineOutcome, ResultCodes
<1>5. Effect(q, Handle(q, memory, ins))
  BY <1>2, HandleEffect
<1>6. Effect(q, o)
  BY <1>2, <1>3, <1>4, <1>5, FineEffect
<1> QED
  BY <1>1, <1>6, EffectAfter DEF o

(* A whole step: the instruction, then the exception that it raises.       *)
Stepped(p, o, s) ==
  /\ Effect(p, o)
  /\ s.mem = o.mem /\ s.result = o.result /\ s.process = o.process
  /\ s.core \in Core
  /\ \/ s.core = o.core
     \/ /\ Took(o.core, s.core)
        /\ o.result # NO_EXCEPTION
        /\ o.result = DATA_ABORT => s.core.cpsr.mode = ABT

(* arm_step: the effect of an instruction, then of an exception if it ends in one. *)
LEMMA StepEffect ==
  ASSUME NEW p \in Core, NEW memory \in Contents, NEW ins \in Instr
  PROVE  Stepped(p, arm_execute_instruction(p, memory, ins), arm_step(p, memory, ins))
<1> DEFINE o == arm_execute_instruction(p, memory, ins)
           s == arm_step(p, memory, ins)
           q == arm_exception(o.core, o.result)
<1>1. Effect(p, o)
  BY ExecuteEffect
<1>2. /\ o.core \in Core /\ o.result \in {0} \cup 2 .. 5
  BY <1>1 DEF Effect, Outcomes, Results, NO_EXCEPTION
<1>3. s = IF o.result = NO_EXCEPTION \/ o.process # "running" THEN o
          ELSE [o EXCEPT !.core = q]
  BY DEF arm_step, WithException
<1> HIDE DEF o
<1>4. o.result # NO_EXCEPTION => Took(o.core, q) /\ q \in Core
                                 /\ (o.result = DATA_ABORT => q.cpsr.mode = ABT)
  <2>1. o.result \in Nat
    BY <1>2
  <2>2. /\ q \in Core
        /\ o.result \in 2 .. 5 => Took(o.core, q)
        /\ o.result = DATA_ABORT => q.cpsr.mode = ABT
    BY <1>2, <2>1, ExceptionEffect
  <2> QED
    BY <1>2, <2>2 DEF NO_EXCEPTION
<1>5. [o EXCEPT !.core = q].core = q
  BY <1>1 DEF Effect, Outcomes
<1>6. /\ [o EXCEPT !.core = q].mem = o.mem
      /\ [o EXCEPT !.core = q].result = o.result
      /\ [o EXCEPT !.core = q].process = o.process
  BY <1>1 DEF Effect, Outcomes
<1> HIDE DEF q, s
<1> QED
  BY <1>1, <1>2, <1>3, <1>4, <1>5, <1>6 DEF Stepped, o, s

-----------------------------------------------------------------------------
(* The steps of the machine.                                               *)

(* One step of the machine: an instruction that keeps the control bits,    *)
(* then perhaps an exception; or an instruction that restores the SPSR,    *)
(* then perhaps a data abort; or a reset.                                  *)
Between(p, mid, q) ==
  /\ mid \in Core /\ q \in Core
  /\ BanksKept(p, mid) /\ SavedKept(p, mid)
  /\ \/ ControlKept(p, mid) /\ (q = mid \/ Took(mid, q))
     \/ /\ arm_current_mode_has_spsr(p)
        /\ mid.cpsr = arm_read_spsr(p)
        /\ q = mid \/ (Took(mid, q) /\ q.cpsr.mode = ABT)

Transition(p, q) == WasReset(p, q) \/ \E mid : Between(p, mid, q)

-----------------------------------------------------------------------------
(* Whatever is fetched is an instruction.                                  *)
LEMMA FetchedType ==
  ASSUME NEW p \in Core
  PROVE  Fetched(p) \subseteq Instr
<1>1. CASE FetchFails(p)
  <2>1. [op |-> "COPROC", cond |-> ALWAYS] \in Instr
    BY DEF Instr, CoprocInstr, Condition, ALWAYS
  <2> QED
    BY <1>1, <2>1 DEF Fetched
<1>2. CASE ~FetchFails(p)
  <2>1. FetchAddress(p) \in Nat
    BY Links, Widths
  <2> HIDE DEF FetchAddress
  <2>2. FetchAddress(p) \in Address
    BY <1>2, <2>1, Sizes DEF FetchFails, InBounds, Address
  <2> QED
    BY <1>2, <2>2, MachineAssumption DEF Fetched
<1> QED
  BY <1>1, <1>2

(* A step of the gdb thread is a transition, whatever instruction it is.   *)
LEMMA StepTransition ==
  ASSUME TypeOK, NEW ins \in Instr, Step(ins)
  PROVE  TypeOK' /\ Transition(core, core')
<1> DEFINE o == arm_execute_instruction(core, mem, ins)
           s == arm_step(core, mem, ins)
<1>1. core \in Core /\ mem \in Contents
  BY DEF TypeOK
<1>2. Stepped(core, o, s)
  BY <1>1, StepEffect
<1>3. /\ core' = s.core /\ mem' = s.mem /\ process' = s.process
      /\ target_exception' \in {s.result, target_exception}
  BY DEF Step, Becomes
<1> HIDE DEF o, s
<1>4. o \in Outcomes
  BY <1>2 DEF Stepped, Effect
<1>5. /\ s.core \in Core /\ s.mem = o.mem /\ s.result = o.result /\ s.process = o.process
  BY <1>2 DEF Stepped
<1>6. /\ o.core \in Core /\ o.mem \in Contents /\ o.result \in 0 .. 7
      /\ o.process \in {"running", "exited", "aborted"}
  BY <1>4 DEF Outcomes, Results, Processes, NO_EXCEPTION
<1>7. TypeOK'
  BY <1>3, <1>5, <1>6 DEF TypeOK, Exceptions
<1>8. BanksKept(core, o.core) /\ SavedKept(core, o.core)
  BY <1>2 DEF Stepped, Effect
<1>9. s.core = o.core \/ (Took(o.core, s.core) /\ o.result # NO_EXCEPTION
                           /\ (o.result = DATA_ABORT => s.core.cpsr.mode = ABT))
  BY <1>2 DEF Stepped
<1>10. Between(core, o.core, s.core)
  <2>1. CASE ControlKept(core, o.core)
    BY <1>5, <1>6, <1>8, <1>9, <2>1 DEF Between
  <2>2. CASE Restored(core, o)
    BY <1>5, <1>6, <1>8, <1>9, <2>2 DEF Between, Restored
  <2> QED
    BY <1>2, <2>1, <2>2 DEF Stepped, Effect
<1> QED
  BY <1>3, <1>7, <1>10 DEF Transition

(* An exception raised by the irq thread is a transition.                  *)
LEMMA InterruptTransition ==
  ASSUME TypeOK, NEW irq \in IrqBytes, Interrupt(irq)
  PROVE  TypeOK' /\ Transition(core, core')
<1>1. core \in Core /\ irq \in Nat
  BY MachineAssumption DEF TypeOK
<1>2. /\ core' = arm_exception(core, irq)
      /\ UNCHANGED <<mem, target_exception, process>>
  BY DEF Interrupt
<1>3. /\ core' \in Core
      /\ core' = core \/ Took(core, core') \/ WasReset(core, core')
  BY <1>1, <1>2, ExceptionEffect
<1>4. TypeOK'
  BY <1>2, <1>3 DEF TypeOK
<1>5. BanksKept(core, core) /\ SavedKept(core, core) /\ ControlKept(core, core)
  BY DEF BanksKept, SavedKept, ControlKept
<1>6. core' = core \/ Took(core, core') => Between(core, core, core')
  BY <1>1, <1>3, <1>5 DEF Between
<1> QED
  BY <1>3, <1>4, <1>6 DEF Transition

(* Every step of the machine is a transition.                              *)
LEMMA NextTransition ==
  ASSUME TypeOK, Next
  PROVE  TypeOK' /\ Transition(core, core')
<1>1. Fetched(core) \subseteq Instr
  BY FetchedType DEF TypeOK
<1> QED
  BY <1>1, StepTransition, InterruptTransition DEF Next

(* arm_create yields a state of the right type from any garbage.           *)
LEMMA InitType == ASSUME Init PROVE TypeOK
<1>1. PICK g \in GarbageStorage, s \in GarbageStatus :
        core = arm_create(g, [m \in ModeNumber |-> s], s)
  BY DEF Init
<1>2. [storage |-> g, spsr |-> [m \in ModeNumber |-> s], cpsr |-> s] \in Core
  BY <1>1, MachineAssumption DEF Core
<1>3. core \in Core
  BY <1>1, <1>2, ResetEffect DEF arm_create, WasReset
<1>4. /\ mem \in Contents /\ target_exception \in Exceptions
      /\ process \in {"running", "exited", "aborted"}
  BY MachineAssumption DEF Init, Exceptions, NO_EXCEPTION
<1> QED
  BY <1>3, <1>4 DEF TypeOK

(* Whatever the program and whatever the memory of the process held, every *)
(* register stays a 32-bit word, every status register well-formed, every  *)
(* byte of the memory a byte (arm_step, arm_exception).                    *)
THEOREM TypeCorrect == Spec => []TypeOK
<1>1. Init => TypeOK
  BY InitType
<1>2. TypeOK /\ [Next]_vars => TypeOK'
  <2>1. TypeOK /\ Next => TypeOK'
    BY NextTransition
  <2>2. TypeOK /\ UNCHANGED vars => TypeOK'
    BY DEF TypeOK, vars
  <2> QED
    BY <2>1, <2>2
<1> QED
  BY <1>1, <1>2, PTL DEF Spec

-----------------------------------------------------------------------------
(* Banks and saved status registers through one step.                      *)
LEMMA TransitionPrivate ==
  ASSUME NEW p, NEW mid, NEW q, Between(p, mid, q)
  PROVE  /\ \A r \in 16 .. 30 :
              q.storage[r] # p.storage[r] =>
                \/ Owner(r) = Mode(p)
                \/ /\ Owner(r) = Mode(q)
                   /\ r \in {registers(Mode(q), SP), registers(Mode(q), LR)}
                   /\ q.storage[PC] \in VectorsOf(Mode(q))
         /\ \A m \in ModeNumber : q.spsr[m] # p.spsr[m] => m \in {Mode(p), Mode(q)}
<1> DEFINE bank == {registers(Mode(q), SP), registers(Mode(q), LR)}
<1>1. q = mid \/ Took(mid, q)
  BY DEF Between
<1>2. Mode(q) \in ModeNumber
  BY CoreFields DEF Between, Mode
<1>3. ASSUME NEW r \in 16 .. 30, q.storage[r] # mid.storage[r]
      PROVE  /\ Owner(r) = Mode(q) /\ r \in bank
             /\ q.storage[PC] \in VectorsOf(Mode(q))
  <2>1. Took(mid, q)
    BY <1>1, <1>3
  <2>2. r \in (0 .. 30) /\ r # PC
    BY DEF PC
  <2>3. r \in bank /\ q.storage[PC] \in VectorsOf(Mode(q))
    BY <1>3, <2>1, <2>2 DEF Took, Mode
  <2>4. SP \in RegNumber /\ LR \in RegNumber
    BY DEF SP, LR, RegNumber
  <2>5. Owner(r) = Mode(q)
    BY <1>2, <2>3, <2>4, OwnerOfBank
  <2> QED
    BY <2>3, <2>5
<1>4. ASSUME NEW m \in ModeNumber, q.spsr[m] # mid.spsr[m]
      PROVE  m = Mode(q)
  BY <1>1, <1>4 DEF Took, Mode
<1>5. BanksKept(p, mid) /\ SavedKept(p, mid)
  BY DEF Between
<1> HIDE DEF bank
<1> QED
  BY <1>3, <1>4, <1>5 DEF BanksKept, SavedKept, Mode, bank

(* The masks through one step.                                             *)
LEMMA TransitionMasks ==
  ASSUME NEW p \in Core, NEW mid, NEW q, Between(p, mid, q),
         \/ p.cpsr.I = 1 /\ q.cpsr.I = 0
         \/ p.cpsr.F = 1 /\ q.cpsr.F = 0
  PROVE  /\ arm_current_mode_has_spsr(p)
         /\ \/ q.cpsr = arm_read_spsr(p)
            \/ /\ Mode(q) = ABT
               /\ q.storage[PC] \in VectorsOf(ABT)
               /\ q.spsr[ABT] = arm_read_spsr(p)
<1>1. ~(ControlKept(p, mid) /\ (q = mid \/ Took(mid, q)))
  BY DEF ControlKept, Took
<1>2. /\ arm_current_mode_has_spsr(p) /\ mid.cpsr = arm_read_spsr(p)
      /\ q = mid \/ (Took(mid, q) /\ q.cpsr.mode = ABT)
  BY <1>1 DEF Between
<1> QED
  BY <1>2 DEF Took, Mode

(* A step taken in user mode.                                              *)
LEMMA TransitionConfined ==
  ASSUME NEW p \in Core, NEW mid, NEW q, Between(p, mid, q), Mode(p) = USR
  PROVE  Confined(p, q) \/ Entered(p, q)
<1>1. ~arm_current_mode_has_spsr(p)
  BY DEF arm_current_mode_has_spsr, Mode
<1>2. ControlKept(p, mid) /\ (q = mid \/ Took(mid, q)) /\ mid \in Core /\ q \in Core
  BY <1>1 DEF Between
<1>3. \A m \in ModeNumber : mid.spsr[m] = p.spsr[m]
  BY <1>1 DEF Between, SavedKept
<1>4. mid.spsr = p.spsr
  BY <1>2, <1>3 DEF Core
<1>5. \A r \in 16 .. 30 : mid.storage[r] = p.storage[r]
  <2>1. \A r \in 16 .. 30 : Owner(r) # USR
    BY DEF Owner, USR, SVC, ABT, UND, IRQ, FIQ
  <2> QED
    BY <2>1 DEF Between, BanksKept, Mode
<1>6. Control(mid.cpsr) = Control(p.cpsr)
  BY <1>2 DEF ControlKept, Control, Mode
<1>7. CASE q = mid
  BY <1>4, <1>5, <1>6, <1>7 DEF Confined
<1>8. CASE Took(mid, q)
  <2> DEFINE mode == q.cpsr.mode
             sp   == registers(mode, SP)
             lr   == registers(mode, LR)
  <2>1. /\ mode \in Entering /\ q.cpsr.I = 1 /\ q.cpsr.T = 0
        /\ q.storage[PC] \in VectorsOf(mode)
        /\ q.spsr[mode] = mid.cpsr
        /\ \A m \in ModeNumber \ {mode} : q.spsr[m] = mid.spsr[m]
        /\ q.storage[sp] = arm_read_register(mid, SP)
        /\ \A r \in (0 .. 30) \ {PC, sp, lr} : q.storage[r] = mid.storage[r]
    BY <1>8 DEF Took
  <2>2. sp \in 16 .. 30 /\ lr \in 16 .. 30
    BY <2>1, EntryRegisters
  <2> HIDE DEF mode, sp, lr
  <2>3. \A r \in 16 .. 30 : r \notin {sp, lr} => q.storage[r] = p.storage[r]
    <3>1. \A r \in 16 .. 30 : r \in 0 .. 30 /\ r # PC
      BY DEF PC
    <3> QED
      BY <1>5, <2>1, <3>1
  <2>4. arm_read_register(q, SP) = q.storage[SP]
    <3>1. arm_read_register(q, SP) = q.storage[sp]
      BY DEF arm_read_register, mode, sp, SP, PC
    <3>2. mid.cpsr.mode = USR
      BY <1>2 DEF ControlKept, Mode
    <3>3. arm_read_register(mid, SP) = mid.storage[SP]
      BY <3>2 DEF arm_read_register, registers, SP, PC, LR, USR, FIQ, SVC, ABT, UND, IRQ
    <3>4. SP \in (0 .. 30) \ {PC, sp, lr}
      BY <2>2 DEF SP, PC
    <3> QED
      BY <2>1, <3>1, <3>3, <3>4
  <2>5. Control(q.spsr[mode]) = Control(p.cpsr)
    BY <1>6, <2>1
  <2>6. mode \in {SVC, ABT, UND, IRQ, FIQ}
    BY <2>1 DEF Entering
  <2>7. \A m \in ModeNumber \ {mode} : q.spsr[m] = p.spsr[m]
    BY <1>4, <2>1
  <2>8. Mode(q) = mode
    BY DEF Mode, mode
  <2> QED
    BY <2>1, <2>3, <2>4, <2>5, <2>6, <2>7, <2>8 DEF Entered, sp, lr
<1> QED
  BY <1>2, <1>7, <1>8

(* What the proofs call a reset is what the properties call one.           *)
LEMMA ResetIsReset == ASSUME NEW p, NEW q, WasReset(p, q) PROVE Reset(p, q)
BY DEF WasReset, Reset, Mode

-----------------------------------------------------------------------------
(* User mode is a cage for every program, 32-bit or narrower, whatever     *)
(* interrupts the other thread raises (arm_msr, arm_data_processing, ldm3, *)
(* the bank table of arm_create and the exception handlers).               *)
THEOREM CageHolds == Spec => UserConfined
<1>1. ASSUME TypeOK, Next, Mode(core) = USR
      PROVE  Confined(core, core') \/ Entered(core, core') \/ Reset(core, core')
  <2>1. core \in Core /\ Transition(core, core')
    BY <1>1, NextTransition DEF TypeOK
  <2> QED
    BY <1>1, <2>1, TransitionConfined, ResetIsReset DEF Transition
<1>2. TypeOK /\ [Next]_vars =>
        [Mode(core) = USR => \/ Confined(core, core')
                            \/ Entered(core, core')
                            \/ Reset(core, core')]_vars
  BY <1>1
<1> QED
  BY <1>2, TypeCorrect, PTL DEF Spec, UserConfined

(* Each bank and each SPSR is written only in its mode or on entering it.  *)
THEOREM BanksStayPrivate == Spec => BanksPrivate
<1> DEFINE private ==
      Reset(core, core') \/
      /\ \A r \in 16 .. 30 :
           core'.storage[r] # core.storage[r] =>
             \/ Owner(r) = Mode(core)
             \/ /\ Owner(r) = Mode(core')
                /\ r \in {registers(Mode(core'), SP), registers(Mode(core'), LR)}
                /\ core'.storage[PC] \in VectorsOf(Mode(core'))
      /\ \A m \in ModeNumber :
           core'.spsr[m] # core.spsr[m] => m \in {Mode(core), Mode(core')}
<1>1. ASSUME TypeOK, Next PROVE private
  <2>1. Transition(core, core')
    BY <1>1, NextTransition
  <2>2. ASSUME NEW mid, Between(core, mid, core') PROVE private
    BY <2>2, TransitionPrivate
  <2> QED
    BY <2>1, <2>2, ResetIsReset DEF Transition
<1>2. TypeOK /\ [Next]_vars => [private]_vars
  BY <1>1
<1> QED
  BY <1>2, TypeCorrect, PTL DEF Spec, BanksPrivate

(* A masked interrupt stays masked until a whole SPSR is restored.         *)
THEOREM MasksHold == Spec => MasksReopenedByReturn
<1> DEFINE opened == \/ core.cpsr.I = 1 /\ core'.cpsr.I = 0
                     \/ core.cpsr.F = 1 /\ core'.cpsr.F = 0
           byReturn == /\ arm_current_mode_has_spsr(core)
                       /\ LET saved == arm_read_spsr(core)
                          IN  \/ core'.cpsr = saved
                              \/ /\ Mode(core') = ABT
                                 /\ core'.storage[PC] \in VectorsOf(ABT)
                                 /\ core'.spsr[ABT] = saved
<1>1. ASSUME TypeOK, Next, opened PROVE Reset(core, core') \/ byReturn
  <2>1. core \in Core /\ Transition(core, core')
    BY <1>1, NextTransition DEF TypeOK
  <2>2. ASSUME NEW mid, Between(core, mid, core') PROVE byReturn
    BY <1>1, <2>1, <2>2, TransitionMasks
  <2> QED
    BY <2>1, <2>2, ResetIsReset DEF Transition
<1>2. TypeOK /\ [Next]_vars => [opened => Reset(core, core') \/ byReturn]_vars
  BY <1>1
<1> QED
  BY <1>2, TypeCorrect, PTL DEF Spec, MasksReopenedByReturn
=============================================================================
